---------------------------- MODULE AdminApiProofs ----------------------------
(***************************************************************************)
(* Proofs about the administration API: the rate limiter, the in-flight    *)
(* gauge and the webhooks, together as main.rs layers them, for every      *)
(* number of requests, keys, hooks and dropped clients, every budget and   *)
(* every window.                                                           *)
(***************************************************************************)
EXTENDS AdminApi, FiniteSetTheorems, TLAPS

-----------------------------------------------------------------------------
\* The rate limiter.

Bucket == [age : Nat, count : Nat]
Ticks == 1..Window

\* The history of one key fits its bucket.  A bucket that is age ticks old has
\* counted precisely what was let through since, and what is older within the
\* window was counted by one earlier bucket; a bucket that is over admits
\* nothing before it is restarted.
BucketOK(b, h, limit) ==
    IF b = None THEN \A i \in Ticks : h[i] = 0
    ELSE /\ b \in Bucket /\ b.age <= Window /\ b.count <= limit
         /\ b.age < Window => h[b.age + 1] = b.count /\ h[Window] <= b.count + limit
         /\ b.age = Window => h[1] = 0 /\ h[Window] <= limit

History(h) == h \in [Ticks -> Nat] /\ \A i, j \in Ticks : i <= j => h[i] <= h[j]

LimiterInv ==
    /\ bucket = [k \in Keys |-> bucket[k]]
    /\ answer = [k \in Keys |-> answer[k]]
    /\ admitted = [k \in Keys |-> admitted[k]]
    /\ \A k \in Keys : History(admitted[k]) /\ BucketOK(bucket[k], admitted[k], Limit[k])
    /\ RefusalDeserved

LEMMA WindowTicks == Window \in Nat /\ Window > 0 /\ Window \in Ticks /\ 1 \in Ticks
  BY LimiterAssumption DEF Ticks

LEMMA NoneNoBucket == None \notin Bucket /\ None # "rate_limited"
  BY LimiterAssumption DEF Bucket

LEMMA LimiterInit == Init => LimiterInv
  BY WindowTicks, LimiterAssumption
  DEF Init, LimiterInv, History, BucketOK, RefusalDeserved, Recent, Ticks

\* The bucket a request works on is a record below its window.
LEMMA CurrentBucket ==
    ASSUME NEW b, NEW h, NEW limit \in Nat, History(h), BucketOK(b, h, limit)
    PROVE  /\ Current(b) \in Bucket
           /\ Current(b).age < Window /\ Current(b).age + 1 \in Ticks
           /\ Current(b).count <= limit
           /\ h[Current(b).age + 1] = Current(b).count
           /\ h[Window] <= Current(b).count + limit
<1>1. [age |-> 0, count |-> 0] \in Bucket
  BY DEF Bucket
<1>2. CASE b = None
  BY <1>1, <1>2, WindowTicks DEF Current, BucketOK, History
<1>3. CASE b # None /\ b.age >= Window
  <2>1. b.age = Window /\ h[1] = 0 /\ h[Window] <= limit
    BY <1>3, WindowTicks DEF BucketOK, Bucket
  <2> QED
    BY <1>1, <1>3, <2>1, WindowTicks DEF Current
<1>4. CASE b # None /\ ~(b.age >= Window)
  <2>1. /\ Current(b) = b /\ b \in Bucket /\ b.age \in Nat /\ b.count \in Nat
        /\ b.age < Window /\ b.count <= limit
        /\ h[b.age + 1] = b.count /\ h[Window] <= b.count + limit
    BY <1>4, WindowTicks DEF Current, BucketOK, Bucket
  <2> QED
    BY <2>1, WindowTicks DEF Ticks
<1> QED
  BY <1>2, <1>3, <1>4

\* One key moves to a bucket and a history that fit, and is answered.
LEMMA LimiterMoves ==
    ASSUME LimiterInv, NEW k \in Keys, NEW b, NEW h, NEW a,
           History(h), BucketOK(b, h, Limit[k]),
           a = "rate_limited" => h[Window] >= Limit[k],
           bucket' = [bucket EXCEPT ![k] = b], admitted' = [admitted EXCEPT ![k] = h],
           answer' = [answer EXCEPT ![k] = a]
    PROVE  LimiterInv'
<1>1. bucket'[k] = b /\ admitted'[k] = h /\ answer'[k] = a
  BY DEF LimiterInv
<1>2. \A m \in Keys : m # k => /\ bucket'[m] = bucket[m] /\ admitted'[m] = admitted[m]
                               /\ answer'[m] = answer[m]
  BY DEF LimiterInv
<1>3. \A m \in Keys : /\ History(admitted'[m]) /\ BucketOK(bucket'[m], admitted'[m], Limit[m])
                      /\ answer'[m] = "rate_limited" => admitted'[m][Window] >= Limit[m]
  BY <1>1, <1>2 DEF LimiterInv, RefusalDeserved, Recent
<1>4. /\ bucket' = [m \in Keys |-> bucket'[m]] /\ answer' = [m \in Keys |-> answer'[m]]
      /\ admitted' = [m \in Keys |-> admitted'[m]]
  BY DEF LimiterInv
<1> QED
  BY <1>3, <1>4 DEF LimiterInv, RefusalDeserved, Recent, History, BucketOK

LEMMA RequestKeeps == ASSUME LimiterInv, NEW k \in Keys, Request(k) PROVE LimiterInv'
<1> DEFINE b == Current(bucket[k])
           h == admitted[k]
           l == Limit[k]
<1>1. l \in Nat /\ History(h) /\ BucketOK(bucket[k], h, l)
  BY LimiterAssumption DEF LimiterInv
<1>2. /\ b \in Bucket /\ b.age \in Nat /\ b.count \in Nat
      /\ b.age < Window /\ b.age + 1 \in Ticks /\ b.count <= l
      /\ h[b.age + 1] = b.count /\ h[Window] <= b.count + l
  BY <1>1, CurrentBucket DEF Bucket
<1>3. /\ \A i \in Ticks : h[i] \in Nat
      /\ \A i, j \in Ticks : i <= j => h[i] <= h[j]
  BY <1>1 DEF History
<1>4. CASE Exhausted(b, k)
  <2>1. /\ bucket' = [bucket EXCEPT ![k] = b] /\ answer' = [answer EXCEPT ![k] = "rate_limited"]
        /\ admitted' = [admitted EXCEPT ![k] = h]
    BY <1>4 DEF Request, LimiterInv
  <2>2. b.count >= l /\ h[b.age + 1] <= h[Window]
    BY <1>2, <1>3, <1>4, WindowTicks DEF Exhausted, Ticks
  <2>3. h[Window] >= l
    BY <1>1, <1>2, <1>3, <2>2, WindowTicks
  <2> HIDE DEF b
  <2>4. BucketOK(b, h, l)
    BY <1>1, <1>2, WindowTicks, NoneNoBucket DEF BucketOK
  <2> QED
    BY <1>1, <2>1, <2>3, <2>4, LimiterMoves
<1>5. CASE ~Exhausted(b, k)
  <2> DEFINE c == [b EXCEPT !.count = b.count + 1]
             g == [i \in Ticks |-> h[i] + 1]
  <2>1. /\ bucket' = [bucket EXCEPT ![k] = c] /\ answer' = [answer EXCEPT ![k] = "run"]
        /\ admitted' = [admitted EXCEPT ![k] = g]
    BY <1>5 DEF Request, LimiterInv, Ticks
  <2>2. b.count < l
    BY <1>1, <1>2, <1>5 DEF Exhausted
  <2>3. c \in Bucket /\ c.age = b.age /\ c.count = b.count + 1
    BY <1>2 DEF Bucket
  <2>4. History(g)
    BY <1>3 DEF History, Ticks
  <2>5. g[b.age + 1] = b.count + 1 /\ g[Window] = h[Window] + 1
    BY <1>2, WindowTicks
  <2> HIDE DEF b, c, g
  <2>6. BucketOK(c, g, l)
    <3>1. g[Window] <= c.count + l
      BY <1>1, <1>2, <1>3, <2>3, <2>5, WindowTicks
    <3>2. c.count <= l
      BY <1>1, <1>2, <2>2, <2>3
    <3> QED
      BY <1>2, <2>3, <2>5, <3>1, <3>2, WindowTicks, NoneNoBucket DEF BucketOK
  <2> QED
    BY <2>1, <2>4, <2>6, LimiterMoves
<1> QED
  BY <1>4, <1>5

\* What is left of one key's history and bucket when a tick has passed.
Aged(h) == [i \in Ticks |-> IF i = 1 THEN 0 ELSE h[i - 1]]
Older(b) == IF b = None THEN None
            ELSE [b EXCEPT !.age = IF b.age < Window THEN b.age + 1 ELSE b.age]

LEMMA AgedHistory ==
    ASSUME NEW h, History(h)
    PROVE  History(Aged(h)) /\ Aged(h)[1] = 0 /\ Aged(h)[Window] <= h[Window]
<1>1. \A i \in Ticks : h[i] \in Nat
  BY DEF History
<1>2. \A i, j \in Ticks : i <= j => h[i] <= h[j]
  BY DEF History
<1>3. \A i \in Ticks : i # 1 => i - 1 \in Ticks
  BY WindowTicks DEF Ticks
<1>4. \A i \in Ticks : Aged(h)[i] = IF i = 1 THEN 0 ELSE h[i - 1]
  BY DEF Aged
<1>5. Aged(h) \in [Ticks -> Nat]
  BY <1>1, <1>3 DEF Aged
<1>6. ASSUME NEW i \in Ticks, NEW j \in Ticks, i <= j PROVE Aged(h)[i] <= Aged(h)[j]
  <2>0. Aged(h)[j] \in Nat
    BY <1>5
  <2>1. CASE i = 1
    BY <1>4, <2>0, <2>1
  <2>2. CASE i # 1
    <3>1. j # 1 /\ i - 1 \in Ticks /\ j - 1 \in Ticks /\ i - 1 <= j - 1
      BY <1>3, <1>6, <2>2 DEF Ticks
    <3> QED
      BY <1>2, <1>4, <2>2, <3>1
  <2> QED
    BY <2>1, <2>2
<1>7. Aged(h)[Window] <= h[Window]
  <2>1. CASE Window = 1
    BY <1>1, <1>4, <2>1, WindowTicks
  <2>2. CASE Window # 1
    <3>1. Window - 1 \in Ticks /\ Window - 1 <= Window
      BY <1>3, <2>2, WindowTicks
    <3> QED
      BY <1>2, <1>4, <2>2, <3>1, WindowTicks
  <2> QED
    BY <2>1, <2>2
<1> QED
  BY <1>4, <1>5, <1>6, <1>7, WindowTicks DEF History

LEMMA OlderBucket ==
    ASSUME NEW b, NEW h, NEW limit \in Nat, History(h), BucketOK(b, h, limit)
    PROVE  BucketOK(Older(b), Aged(h), limit)
<1>0. /\ History(Aged(h)) /\ Aged(h)[1] = 0 /\ Aged(h)[Window] <= h[Window]
      /\ h[Window] \in Nat /\ Aged(h)[Window] \in Nat
  BY AgedHistory, WindowTicks DEF History
<1>1. CASE b = None
  <2>1. \A i \in Ticks : i # 1 => i - 1 \in Ticks
    BY WindowTicks DEF Ticks
  <2>2. \A i \in Ticks : h[i] = 0
    BY <1>1 DEF BucketOK
  <2>3. \A i \in Ticks : Aged(h)[i] = 0
    BY <2>1, <2>2 DEF Aged
  <2> QED
    BY <1>1, <2>3 DEF Older, BucketOK
<1>2. CASE b # None
  <2>1. /\ b \in Bucket /\ b.age \in Nat /\ b.count \in Nat
        /\ b.age <= Window /\ b.count <= limit
        /\ b.age < Window => h[b.age + 1] = b.count /\ h[Window] <= b.count + limit
        /\ b.age = Window => h[1] = 0 /\ h[Window] <= limit
    BY <1>2 DEF BucketOK, Bucket
  <2>2. /\ Older(b) \in Bucket /\ Older(b).count = b.count
        /\ Older(b).age = IF b.age < Window THEN b.age + 1 ELSE b.age
    BY <1>2, <2>1 DEF Older, Bucket
  <2> DEFINE c == Older(b)
             g == Aged(h)
  <2>3. c # None
    BY <2>2, NoneNoBucket
  <2>4. CASE b.age < Window /\ b.age + 1 < Window
    <3>1. b.age + 2 \in Ticks /\ b.age + 2 # 1 /\ (b.age + 2) - 1 = b.age + 1
      BY <2>1, <2>4, WindowTicks DEF Ticks
    <3>2. g[b.age + 2] = b.count
      BY <2>1, <2>4, <3>1 DEF Aged
    <3>3. c.age = b.age + 1 /\ c.age + 1 = b.age + 2 /\ c.age < Window
      BY <2>1, <2>2, <2>4, WindowTicks
    <3>4. g[Window] <= c.count + limit
      BY <1>0, <2>1, <2>2, <2>4, WindowTicks
    <3> HIDE DEF c, g
    <3> QED
      BY <2>1, <2>2, <2>3, <3>2, <3>3, <3>4, WindowTicks DEF BucketOK, c, g
  <2>5. CASE b.age < Window /\ ~(b.age + 1 < Window)
    <3>1. b.age + 1 = Window
      BY <2>1, <2>5, WindowTicks
    <3>2. g[Window] <= limit /\ c.age = Window
      BY <1>0, <2>1, <2>2, <2>5, <3>1, WindowTicks
    <3> QED
      BY <1>0, <2>1, <2>2, <2>3, <3>2, WindowTicks DEF BucketOK
  <2>6. CASE ~(b.age < Window)
    <3>1. g[Window] <= limit /\ c.age = Window
      BY <1>0, <2>1, <2>2, <2>6, WindowTicks
    <3> QED
      BY <1>0, <2>1, <2>2, <2>3, <3>1, WindowTicks DEF BucketOK
  <2> QED
    BY <2>4, <2>5, <2>6
<1> QED
  BY <1>1, <1>2

LEMMA TickKeeps == ASSUME LimiterInv, Tick PROVE LimiterInv'
<1>1. /\ bucket' = [k \in Keys |-> Older(bucket[k])]
      /\ admitted' = [k \in Keys |-> Aged(admitted[k])]
      /\ answer' = [k \in Keys |-> None]
  BY DEF Tick, Older, Aged, Ticks
<1>2. \A k \in Keys : /\ History(admitted'[k]) /\ BucketOK(bucket'[k], admitted'[k], Limit[k])
                      /\ answer'[k] # "rate_limited"
  BY <1>1, AgedHistory, OlderBucket, NoneNoBucket, LimiterAssumption DEF LimiterInv
<1>3. /\ bucket' = [m \in Keys |-> bucket'[m]] /\ answer' = [m \in Keys |-> answer'[m]]
      /\ admitted' = [m \in Keys |-> admitted'[m]]
  BY <1>1
<1> QED
  BY <1>2, <1>3 DEF LimiterInv, RefusalDeserved, Recent, History, BucketOK

\* A step of the service is a tick, a request at the limiter, or leaves the
\* limiter alone.
LEMMA LimiterSteps ==
    ASSUME [AdminNext]_adminVars
    PROVE  Tick \/ (\E k \in Keys : Request(k)) \/ UNCHANGED vars
<1>1. CASE \E r \in Reqs, k \in Keys : Limited(r, k)
  BY <1>1 DEF Limited
<1> QED
  BY <1>1 DEF AdminNext, adminVars, RequestCounted, RequestPublished, RequestFinished, Dropped,
              Passes, Handled, Toggled

\* On every path through the service, the buckets of the limiter account for what
\* each key was let through (rate_limit.rs:66-87).
THEOREM LimiterInvariance == AdminSpec => []LimiterInv
<1>1. AdminInit => LimiterInv
  BY LimiterInit DEF AdminInit
<1>2. LimiterInv /\ [AdminNext]_adminVars => LimiterInv'
  <2> SUFFICES ASSUME LimiterInv, [AdminNext]_adminVars PROVE LimiterInv'
    OBVIOUS
  <2>1. CASE UNCHANGED vars
    BY <2>1 DEF vars, LimiterInv, RefusalDeserved, Recent, History, BucketOK
  <2> QED
    BY <2>1, LimiterSteps, TickKeeps, RequestKeeps
<1> QED
  BY <1>1, <1>2, PTL DEF AdminSpec

\* However windows and requests of all keys interleave, and for every budget and
\* window, a workload gets at most twice its budget in one window
\* (rate_limit.rs:66-87).
THEOREM BurstsAreBounded == AdminSpec => []BurstBounded
<1>1. LimiterInv => BurstBounded
  <2> SUFFICES ASSUME LimiterInv, NEW k \in Keys PROVE Recent(k) <= 2 * Limit[k]
    BY DEF BurstBounded
  <2> DEFINE h == admitted[k]
             b == bucket[k]
  <2>1. Limit[k] \in Nat /\ h[Window] \in Nat /\ BucketOK(b, h, Limit[k])
    BY WindowTicks, LimiterAssumption DEF LimiterInv, History
  <2>2. CASE b = None
    BY <2>1, <2>2, WindowTicks DEF BucketOK, Recent
  <2>3. CASE b # None
    <3>1. b.age \in Nat /\ b.count \in Nat
      BY <2>1, <2>3 DEF BucketOK, Bucket
    <3>2. b.age <= Window /\ b.count <= Limit[k]
      BY <2>1, <2>3 DEF BucketOK
    <3>3. h[Window] <= b.count + Limit[k] \/ h[Window] <= Limit[k]
      BY <2>1, <2>3, <3>1, <3>2, WindowTicks DEF BucketOK
    <3> QED
      BY <2>1, <3>1, <3>2, <3>3 DEF Recent
  <2> QED
    BY <2>2, <2>3
<1> QED
  BY <1>1, LimiterInvariance, PTL

\* A request is refused only when its own key has used its budget within the last
\* window (rate_limit.rs:66-87).
THEOREM RefusalsAreDeserved == AdminSpec => []RefusalDeserved
<1>1. LimiterInv => RefusalDeserved
  BY DEF LimiterInv
<1> QED
  BY <1>1, LimiterInvariance, PTL

-----------------------------------------------------------------------------
\* The in-flight count and its gauge.

Inside == {r \in Reqs : at[r] # "away"}

\* INFLIGHT is the requests inside plus the ones that were dropped; with nobody
\* inside it is what the last one to leave published.
GaugeInv ==
    /\ at = [r \in Reqs |-> at[r]] /\ drops \in Nat
    /\ inflight = drops + Cardinality(Inside)
    /\ Inside = {} /\ ~abandoned => gauge = drops

LEMMA InsideFinite == IsFiniteSet(Inside) /\ Cardinality(Inside) \in Nat
<1>1. Inside \in SUBSET Reqs
  BY DEF Inside
<1> QED
  BY <1>1, AdminAssumption, FS_Subset, FS_CardinalityType

LEMMA GaugeInit == AdminInit => GaugeInv
<1> SUFFICES ASSUME AdminInit PROVE GaugeInv
  OBVIOUS
<1>1. Inside = {}
  BY DEF AdminInit, Inside
<1> QED
  BY <1>1, FS_EmptySet DEF AdminInit, GaugeInv

\* A request that moves to another layer joins those inside or leaves them.
LEMMA Moves ==
    ASSUME GaugeInv, NEW r \in Reqs, NEW layer, at' = [at EXCEPT ![r] = layer]
    PROVE  /\ at' = [q \in Reqs |-> at'[q]]
           /\ Inside' = IF layer = "away" THEN Inside \ {r} ELSE Inside \cup {r}
           /\ at[r] # "away" => r \in Inside
           /\ at[r] = "away" => r \notin Inside
  BY DEF GaugeInv, Inside

\* A request that moves from layer to layer keeps the count.
LEMMA StaysInside ==
    ASSUME GaugeInv, NEW r \in Reqs, NEW layer, at[r] # "away", layer # "away",
           at' = [at EXCEPT ![r] = layer], UNCHANGED <<inflight, drops, abandoned>>
    PROVE  GaugeInv'
<1>1. Inside' = Inside /\ Inside # {}
  BY Moves DEF Inside
<1>2. at' = [q \in Reqs |-> at'[q]]
  BY Moves
<1> QED
  BY <1>1, <1>2 DEF GaugeInv

LEMMA GaugeStep == ASSUME GaugeInv, [AdminNext]_adminVars PROVE GaugeInv'
<1>0. drops \in Nat /\ inflight = drops + Cardinality(Inside) /\ Cardinality(Inside) \in Nat
  BY InsideFinite DEF GaugeInv
<1>1. CASE UNCHANGED pathVars
  BY <1>1 DEF pathVars, GaugeInv, Inside
<1>2. ASSUME NEW r \in Reqs, RequestCounted(r) PROVE GaugeInv'
  <2>1. at[r] = "away" /\ at' = [at EXCEPT ![r] = "counted"] /\ inflight' = inflight + 1
        /\ UNCHANGED <<drops, abandoned>>
    BY <1>2 DEF RequestCounted
  <2>2. at' = [q \in Reqs |-> at'[q]] /\ Inside' = Inside \cup {r} /\ r \notin Inside
    BY <2>1, Moves
  <2>3. Cardinality(Inside \cup {r}) = Cardinality(Inside) + 1
    BY <2>2, InsideFinite, FS_AddElement
  <2>4. inflight' = drops' + Cardinality(Inside')
    BY <1>0, <2>1, <2>2, <2>3
  <2> QED
    BY <1>0, <2>1, <2>2, <2>4 DEF GaugeInv
<1>3. ASSUME NEW r \in Reqs, RequestPublished(r) PROVE GaugeInv'
  BY <1>3, StaysInside DEF RequestPublished
<1>4. ASSUME NEW r \in Reqs, RequestFinished(r) PROVE GaugeInv'
  <2>1. at[r] # "away" /\ at' = [at EXCEPT ![r] = "away"] /\ inflight' = inflight - 1
        /\ gauge' = Remaining(inflight) /\ drops' = drops
    BY <1>4 DEF RequestFinished
  <2>2. at' = [q \in Reqs |-> at'[q]] /\ Inside' = Inside \ {r} /\ r \in Inside
    BY <2>1, Moves
  <2>3. Cardinality(Inside \ {r}) = Cardinality(Inside) - 1
    BY <2>2, InsideFinite, FS_RemoveElement
  <2>4. inflight' = drops' + Cardinality(Inside')
    BY <1>0, <2>1, <2>2, <2>3
  <2>5. ASSUME Inside' = {} PROVE gauge' = drops'
    <3>1. Cardinality(Inside \ {r}) = 0
      BY <2>2, <2>5, FS_EmptySet
    <3>2. Cardinality(Inside) = 1
      BY <1>0, <2>3, <3>1
    <3> QED
      BY <1>0, <2>1, <3>2 DEF Remaining
  <2> QED
    BY <1>0, <2>1, <2>2, <2>4, <2>5 DEF GaugeInv
<1>5. ASSUME NEW r \in Reqs, Dropped(r) PROVE GaugeInv'
  <2>1. at[r] # "away" /\ at' = [at EXCEPT ![r] = "away"] /\ inflight' = inflight
        /\ drops' = drops + 1 /\ abandoned' = TRUE
    BY <1>5 DEF Dropped, AtHandler
  <2>2. at' = [q \in Reqs |-> at'[q]] /\ Inside' = Inside \ {r} /\ r \in Inside
    BY <2>1, Moves
  <2>3. Cardinality(Inside \ {r}) = Cardinality(Inside) - 1
    BY <2>2, InsideFinite, FS_RemoveElement
  <2>4. inflight' = drops' + Cardinality(Inside') /\ drops' \in Nat
    BY <1>0, <2>1, <2>2, <2>3
  <2> QED
    BY <2>1, <2>2, <2>4 DEF GaugeInv
<1>6. ASSUME NEW r \in Reqs, Passes(r) \/ Handled(r) \/ Toggled(r) \/ \E k \in Keys : Limited(r, k)
      PROVE  GaugeInv'
  <2>1. at[r] # "away"
    BY <1>6 DEF Passes, Handled, Toggled, Limited, AtHandler
  <2>2. Move(r, "leaving") \/ Move(r, "handler")
    <3>1. \A p : Move(r, IF p THEN "leaving" ELSE "handler")
                 => Move(r, "leaving") \/ Move(r, "handler")
      OBVIOUS
    <3> QED
      BY <1>6, <3>1 DEF Passes, Handled, Toggled, Limited
  <2> QED
    BY <2>1, <2>2, StaysInside DEF Move
<1> QED
  BY <1>1, <1>2, <1>3, <1>4, <1>5, <1>6 DEF AdminNext, adminVars

\* Whatever the order in which counts are published, and for every number of
\* requests and of dropped clients, an idle service shows in its gauge precisely
\* the dropped requests, unless the last to leave was dropped
\* (observability.rs:79-100).
THEOREM GaugeWhenIdle == AdminSpec => []IdleGauge
<1>1. GaugeInv => IdleGauge
  BY DEF GaugeInv, IdleGauge, Idle, Inside
<1> QED
  BY <1>1, GaugeInit, GaugeStep, PTL DEF AdminSpec

-----------------------------------------------------------------------------
\* The webhooks.

Toggle == [id : Ids, want : BOOLEAN, copied : BOOLEAN]

Toggling(r, id) == toggling[r] # None /\ toggling[r].id = id

\* A hook that is gone after a confirmed delete has no toggle about to write it
\* unless the delete raced with one; a hook never registered was never toggled.
GoneOK(id) ==
    /\ id \in deleted /\ id \notin raced
          => hooks[id] = None /\ \A r \in Reqs : Toggling(r, id) => toggling[r].copied = FALSE
    /\ hooks[id] = None /\ id \notin deleted
          => id \notin odd /\ \A r \in Reqs : ~Toggling(r, id)

\* While no toggles of it overlapped, the hook and every pending toggle of it
\* follow the number of toggles written.
CountOK(id) ==
    id \notin stale =>
        /\ hooks[id] # None => (hooks[id] = TRUE <=> id \notin odd)
        /\ \A r \in Reqs : Toggling(r, id) => (toggling[r].want = TRUE <=> id \in odd)

HookInv ==
    /\ hooks = [id \in Ids |-> hooks[id]] /\ toggling = [r \in Reqs |-> toggling[r]]
    /\ \A id \in Ids : hooks[id] \in BOOLEAN \cup {None}
    /\ \A r \in Reqs : toggling[r] # None => toggling[r] \in Toggle
    /\ \A id \in Ids : GoneOK(id) /\ CountOK(id)

LEMMA HookInit == AdminInit => HookInv
  BY DEF AdminInit, W!HookInit, HookInv, GoneOK, CountOK, Toggling

LEMMA RegisterKeeps == ASSUME HookInv, NEW id \in Ids, W!Register(id) PROVE HookInv'
<1>1. /\ hooks[id] = None /\ id \notin deleted /\ hooks' = [hooks EXCEPT ![id] = TRUE]
      /\ UNCHANGED <<toggling, deleted, raced, odd, stale>>
  BY DEF W!Register, W!Present
<1>2. hooks'[id] = TRUE /\ \A h \in Ids : h # id => hooks'[h] = hooks[h]
  BY <1>1 DEF HookInv
<1>3. \A r \in Reqs, h \in Ids : Toggling(r, h)' <=> Toggling(r, h)
  BY <1>1 DEF Toggling
<1>4. ASSUME NEW h \in Ids PROVE GoneOK(h)' /\ CountOK(h)'
  <2>0. GoneOK(h) /\ CountOK(h) /\ TRUE # None
    BY AdminAssumption DEF HookInv
  <2>1. CASE h # id
    BY <1>1, <1>2, <1>3, <2>0, <2>1 DEF GoneOK, CountOK
  <2>2. CASE h = id
    BY <1>1, <1>2, <1>3, <2>0, <2>2 DEF GoneOK, CountOK
  <2> QED
    BY <2>1, <2>2
<1>5. hooks' = [h \in Ids |-> hooks'[h]] /\ \A h \in Ids : hooks'[h] \in BOOLEAN \cup {None}
  BY <1>1, <1>2 DEF HookInv
<1>6. /\ toggling' = [r \in Reqs |-> toggling'[r]]
      /\ \A r \in Reqs : toggling'[r] # None => toggling'[r] \in Toggle
  BY <1>1 DEF HookInv
<1> QED
  BY <1>4, <1>5, <1>6 DEF HookInv

LEMMA DeleteKeeps == ASSUME HookInv, NEW id \in Ids, W!Delete(id) PROVE HookInv'
<1>1. /\ hooks' = [hooks EXCEPT ![id] = None]
      /\ deleted' = IF hooks[id] # None THEN deleted \cup {id} ELSE deleted
      /\ UNCHANGED <<toggling, odd, stale>>
  BY DEF W!Delete, W!Present
<1>2. hooks'[id] = None /\ \A h \in Ids : h # id => hooks'[h] = hooks[h]
  BY <1>1 DEF HookInv
<1>3. \A r \in Reqs, h \in Ids : Toggling(r, h)' <=> Toggling(r, h)
  BY <1>1 DEF Toggling
<1>4. \A h \in Ids : h # id => (h \in raced' <=> h \in raced)
  BY DEF W!Delete
<1>5. ASSUME id \notin raced', NEW r \in Reqs, Toggling(r, id) PROVE toggling[r].copied = FALSE
  <2>1. r \in W!Toggles(id)
    BY <1>5 DEF Toggling, W!Toggles
  <2>2. ~toggling[r].copied
    BY <1>5, <2>1 DEF W!Delete
  <2>3. toggling[r].copied \in BOOLEAN
    BY <1>5 DEF Toggling, HookInv, Toggle
  <2> QED
    BY <2>2, <2>3
<1>6. ASSUME NEW h \in Ids PROVE GoneOK(h)' /\ CountOK(h)'
  <2>0. GoneOK(h) /\ CountOK(h)
    BY DEF HookInv
  <2>1. CASE h # id
    BY <1>1, <1>2, <1>3, <1>4, <2>0, <2>1 DEF GoneOK, CountOK
  <2>2. CASE h = id
    BY <1>1, <1>2, <1>3, <1>5, <2>0, <2>2 DEF GoneOK, CountOK
  <2> QED
    BY <2>1, <2>2
<1>7. hooks' = [h \in Ids |-> hooks'[h]] /\ \A h \in Ids : hooks'[h] \in BOOLEAN \cup {None}
  BY <1>1, <1>2 DEF HookInv
<1>8. /\ toggling' = [r \in Reqs |-> toggling'[r]]
      /\ \A r \in Reqs : toggling'[r] # None => toggling'[r] \in Toggle
  BY <1>1 DEF HookInv
<1> QED
  BY <1>6, <1>7, <1>8 DEF HookInv

\* A request takes up a toggle of a hook that is there, or gives its toggle up.
LEMMA ToggleMoves ==
    ASSUME HookInv, NEW r \in Reqs, NEW t, toggling' = [toggling EXCEPT ![r] = t],
           UNCHANGED <<hooks, deleted, raced, odd, stale>>,
           t # None => /\ t \in Toggle /\ hooks[t.id] # None
                       /\ t.id \notin stale => (t.want = TRUE <=> t.id \in odd)
    PROVE  HookInv'
<1>1. toggling'[r] = t /\ \A q \in Reqs : q # r => toggling'[q] = toggling[q]
  BY DEF HookInv
<1>2. \A q \in Reqs, h \in Ids : q # r => (Toggling(q, h)' <=> Toggling(q, h))
  BY <1>1 DEF Toggling
<1>3. \A h \in Ids : Toggling(r, h)' => t # None /\ t.id = h
  BY <1>1 DEF Toggling
<1>4. ASSUME NEW h \in Ids PROVE GoneOK(h)' /\ CountOK(h)'
  <2>0. GoneOK(h) /\ CountOK(h)
    BY DEF HookInv
  <2>1. GoneOK(h)'
    BY <1>1, <1>2, <1>3, <2>0 DEF GoneOK
  <2>2. CountOK(h)'
    BY <1>1, <1>2, <1>3, <2>0 DEF CountOK
  <2> QED
    BY <2>1, <2>2
<1>5. /\ toggling' = [q \in Reqs |-> toggling'[q]]
      /\ \A q \in Reqs : toggling'[q] # None => toggling'[q] \in Toggle
  BY <1>1 DEF HookInv
<1>6. hooks' = [h \in Ids |-> hooks'[h]] /\ \A h \in Ids : hooks'[h] \in BOOLEAN \cup {None}
  BY DEF HookInv
<1> QED
  BY <1>4, <1>5, <1>6 DEF HookInv

LEMMA ReadKeeps ==
    ASSUME HookInv, NEW r \in Reqs, NEW id \in Ids, W!ToggleRead(r, id) PROVE HookInv'
<1>1. UNCHANGED <<hooks, deleted, raced, odd, stale>>
  BY DEF W!ToggleRead
<1>2. CASE hooks[id] = None
  <2>1. toggling' = toggling
    BY <1>2 DEF W!ToggleRead, W!Present
  <2> QED
    BY <1>1, <2>1 DEF HookInv, GoneOK, CountOK, Toggling
<1>3. CASE hooks[id] # None
  <2>0. hooks[id] \in BOOLEAN
    BY <1>3 DEF HookInv
  <2>1. PICK t : t = [id |-> id, want |-> ~hooks[id], copied |-> FALSE]
    OBVIOUS
  <2>2. toggling' = [toggling EXCEPT ![r] = t]
    BY <1>3, <2>1 DEF W!ToggleRead, W!Present, W!Wanted
  <2>3. t \in Toggle /\ t.id = id
    BY <2>0, <2>1 DEF Toggle
  <2>4. t.want = TRUE <=> hooks[id] # TRUE
    BY <2>0, <2>1
  <2>5. id \notin stale => (hooks[id] = TRUE <=> id \notin odd)
    BY <1>3 DEF HookInv, CountOK
  <2> QED
    BY <1>1, <1>3, <2>2, <2>3, <2>4, <2>5, ToggleMoves
<1> QED
  BY <1>2, <1>3

LEMMA CopyKeeps == ASSUME HookInv, NEW r \in Reqs, W!SetActiveCopy(r) PROVE HookInv'
<1>1. UNCHANGED <<hooks, deleted, raced, odd, stale>> /\ toggling[r] # None
  BY DEF W!SetActiveCopy
<1>2. toggling[r] \in Toggle /\ toggling[r].id \in Ids
  BY <1>1 DEF HookInv, Toggle
<1>3. CASE hooks[toggling[r].id] = None
  <2>1. toggling' = [toggling EXCEPT ![r] = None]
    BY <1>3 DEF W!SetActiveCopy, W!Present
  <2> QED
    BY <1>1, <2>1, ToggleMoves
<1>4. CASE hooks[toggling[r].id] # None
  <2>1. PICK t : t = [toggling[r] EXCEPT !.copied = TRUE]
    OBVIOUS
  <2>2. toggling' = [toggling EXCEPT ![r] = t]
    BY <1>4, <2>1 DEF W!SetActiveCopy, W!Present
  <2>3. t \in Toggle /\ t.id = toggling[r].id /\ t.want = toggling[r].want
    BY <1>2, <2>1 DEF Toggle
  <2>4. t.id \notin stale => (t.want = TRUE <=> t.id \in odd)
    BY <1>1, <1>2, <2>3 DEF HookInv, CountOK, Toggling
  <2> QED
    BY <1>1, <1>4, <2>2, <2>3, <2>4, ToggleMoves
<1> QED
  BY <1>3, <1>4

LEMMA WriteKeeps == ASSUME HookInv, NEW r \in Reqs, W!SetActiveWrite(r) PROVE HookInv'
<1>1. PICK id : id = toggling[r].id
  OBVIOUS
<1>2. /\ toggling[r] # None /\ toggling[r].copied
      /\ hooks' = [hooks EXCEPT ![id] = toggling[r].want]
      /\ toggling' = [toggling EXCEPT ![r] = None]
      /\ odd' = (odd \ {id}) \cup ({id} \ odd)
      /\ stale' = IF W!Toggles(id) = {r} THEN stale ELSE stale \cup {id}
      /\ UNCHANGED <<deleted, raced>>
  BY <1>1 DEF W!SetActiveWrite
<1>3. /\ toggling[r] \in Toggle /\ id \in Ids /\ toggling[r].want \in BOOLEAN
      /\ toggling[r].copied \in BOOLEAN /\ Toggling(r, id)
  BY <1>1, <1>2 DEF HookInv, Toggle, Toggling
<1>4. toggling[r].copied # FALSE
  BY <1>2, <1>3
<1>5. toggling'[r] = None /\ \A q \in Reqs : q # r => toggling'[q] = toggling[q]
  BY <1>2 DEF HookInv
<1>6. hooks'[id] = toggling[r].want /\ \A h \in Ids : h # id => hooks'[h] = hooks[h]
  BY <1>2, <1>3 DEF HookInv
<1>7. hooks'[id] \in BOOLEAN /\ hooks'[id] # None
  BY <1>3, <1>6, AdminAssumption
<1>8. \A q \in Reqs, h \in Ids : Toggling(q, h)' => q # r /\ Toggling(q, h)
  BY <1>5 DEF Toggling
<1>9. ~(id \in deleted /\ id \notin raced)
  BY <1>3, <1>4 DEF HookInv, GoneOK
<1>10. ASSUME id \notin stale', NEW q \in Reqs, Toggling(q, id) PROVE q = r
  <2>1. W!Toggles(id) = {r}
    BY <1>2, <1>10
  <2>2. q \in W!Toggles(id)
    BY <1>10 DEF Toggling, W!Toggles
  <2> QED
    BY <2>1, <2>2
<1>11. id \notin stale' => id \notin stale
  BY <1>2
<1>12. id \notin stale => (toggling[r].want = TRUE <=> id \in odd)
  BY <1>3 DEF HookInv, CountOK
<1>13. id \in odd' <=> id \notin odd
  BY <1>2
<1>14. ASSUME NEW h \in Ids PROVE GoneOK(h)' /\ CountOK(h)'
  <2>0. GoneOK(h) /\ CountOK(h)
    BY DEF HookInv
  <2>1. CASE h # id
    <3>1. (h \in odd' <=> h \in odd) /\ (h \in stale' <=> h \in stale)
      BY <1>2, <2>1
    <3>2. GoneOK(h)'
      BY <1>2, <1>5, <1>6, <1>8, <2>0, <2>1, <3>1 DEF GoneOK
    <3>3. CountOK(h)'
      BY <1>5, <1>6, <1>8, <2>0, <2>1, <3>1 DEF CountOK
    <3> QED
      BY <3>2, <3>3
  <2>2. CASE h = id
    <3>1. GoneOK(h)'
      BY <1>2, <1>7, <1>9, <2>2 DEF GoneOK
    <3>2. CountOK(h)'
      BY <1>6, <1>8, <1>10, <1>11, <1>12, <1>13, <2>2 DEF CountOK
    <3> QED
      BY <3>1, <3>2
  <2> QED
    BY <2>1, <2>2
<1>15. hooks' = [h \in Ids |-> hooks'[h]] /\ \A h \in Ids : hooks'[h] \in BOOLEAN \cup {None}
  BY <1>2, <1>6, <1>7 DEF HookInv
<1>16. /\ toggling' = [q \in Reqs |-> toggling'[q]]
       /\ \A q \in Reqs : toggling'[q] # None => toggling'[q] \in Toggle
  BY <1>2, <1>5 DEF HookInv
<1> QED
  BY <1>14, <1>15, <1>16 DEF HookInv

LEMMA HookStep == ASSUME HookInv, [AdminNext]_adminVars PROVE HookInv'
<1>1. CASE UNCHANGED hookVars
  BY <1>1 DEF hookVars, HookInv, GoneOK, CountOK, Toggling
<1>2. ASSUME NEW r \in Reqs, Handled(r) PROVE HookInv'
  BY <1>1, <1>2, RegisterKeeps, DeleteKeeps DEF Handled
<1>3. ASSUME NEW r \in Reqs, Toggled(r) PROVE HookInv'
  BY <1>3, ReadKeeps, CopyKeeps, WriteKeeps DEF Toggled
<1> QED
  BY <1>1, <1>2, <1>3 DEF AdminNext, adminVars, RequestCounted, RequestPublished,
                          RequestFinished, Dropped, Passes, Limited

LEMMA HookInvariance == AdminSpec => []HookInv
  BY HookInit, HookStep, PTL DEF AdminSpec

\* For every set of hooks and any number of concurrent requests, with clients
\* dropped and budgets exhausted on the way: a hook whose deletion was confirmed is
\* there again only if the delete fell between a toggle's second read and its
\* write (webhook.rs:106-108).
THEOREM RevivalsAreRaces == AdminSpec => []RevivedOnlyByRace
<1>1. HookInv => RevivedOnlyByRace
  BY DEF HookInv, GoneOK, RevivedOnlyByRace, W!RevivedOnlyByRace, W!Present
<1> QED
  BY <1>1, HookInvariance, PTL

\* Toggles that do not overlap each flip their hook (api/webhooks.rs:46-53), however
\* they interleave with deletes and with requests for other hooks.
THEOREM TogglesAreCounted == AdminSpec => []TogglesCount
<1>1. HookInv => TogglesCount
  <2> SUFFICES ASSUME HookInv, NEW id \in Ids, hooks[id] # None, id \notin stale
               PROVE  hooks[id] = (id \notin odd)
    BY DEF TogglesCount, W!TogglesCount, W!Present
  <2>1. hooks[id] \in BOOLEAN /\ (hooks[id] = TRUE <=> id \notin odd)
    BY DEF HookInv, CountOK
  <2> QED
    BY <2>1
<1> QED
  BY <1>1, HookInvariance, PTL
=============================================================================
