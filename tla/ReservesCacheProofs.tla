-------------------------- MODULE ReservesCacheProofs --------------------------
(***************************************************************************)
(* Proofs about the reserves cache, for every number of readers, every     *)
(* CACHE_TTL and every RPC timeout.                                        *)
(***************************************************************************)
EXTENDS ReservesCache, TLAPS

ReaderRecord == [pc : {"idle", "storing"} \cup Calling, wait : Nat,
                 data : Nat \cup {None}, apart : Nat]

\* How old the reserves of a fetch are at each of its positions: the first
\* call lasts a Timeout at most, the second another one.  The LP supply was
\* read after the reserves and within the second call.
FetchOK(f) ==
    /\ f.wait <= Timeout
    /\ f.pc = "pool_read" => f.data \in 0..f.wait
    /\ f.pc \in {"supply_asked", "supply_read", "storing"} => f.data \in 0..(Timeout + f.wait)
    /\ f.pc \in {"supply_read", "storing"} => f.apart \in 0..f.data /\ f.apart <= 2 * Timeout

\* A usable entry's data is at most a fetch older than the entry, and nothing
\* that was served is newer than the entry: later answers came from it.
CacheRecord == [age : Nat, data : Nat, apart : Nat]
CacheOK ==
    /\ cache.age <= TTL
    /\ cache.age < TTL => cache.data <= 2 * Timeout + cache.age
    /\ cache.apart <= cache.data /\ cache.apart <= 2 * Timeout
    /\ cache.age <= cache.data
    /\ newest # None /\ cache.age <= newest

CacheInv ==
    /\ reader \in [Readers -> ReaderRecord]
    /\ \A r \in Readers : FetchOK(reader[r])
    /\ newest \in Nat \cup {None}
    /\ cache # None => cache \in CacheRecord /\ CacheOK
    /\ served # None => served \in [data : Nat, apart : Nat] /\ newest \in Nat
    /\ ServedFresh /\ NeverFarBack /\ PairApart
-----------------------------------------------------------------------------
LEMMA IdleReader == Idle \in ReaderRecord /\ FetchOK(Idle)
  BY CacheAssumption DEF Idle, ReaderRecord, FetchOK

LEMMA ReaderFields ==
    ASSUME NEW f \in ReaderRecord
    PROVE  /\ f.pc \in {"idle", "storing"} \cup Calling
           /\ f.wait \in Nat /\ f.data \in Nat \cup {None} /\ f.apart \in Nat
  BY DEF ReaderRecord

\* What a tick makes of a waiting reader.
Aged(f) == [f EXCEPT !.wait = Older(@), !.data = Older(@)]

LEMMA ReaderAges ==
    ASSUME NEW f \in ReaderRecord, Older(f.wait) \in Nat, Older(f.data) \in Nat \cup {None}
    PROVE  /\ Aged(f) \in ReaderRecord /\ Aged(f).pc = f.pc /\ Aged(f).wait = Older(f.wait)
           /\ Aged(f).data = Older(f.data) /\ Aged(f).apart = f.apart
<1>1. PICK w, d : w = Older(f.wait) /\ d = Older(f.data)
  OBVIOUS
<1>2. Aged(f) = [f EXCEPT !.wait = w, !.data = d]
  BY <1>1 DEF Aged
<1> QED
  BY <1>1, <1>2 DEF ReaderRecord

LEMMA CacheInit == Init => CacheInv
  BY IdleReader DEF Init, CacheInv, ServedFresh, NeverFarBack, PairApart

\* A silent step of one reader, to a position where its fetch is in order.
LEMMA SilentKeeps ==
    ASSUME CacheInv, Silent, NEW r \in Readers, NEW f \in ReaderRecord, FetchOK(f),
           reader' = [reader EXCEPT ![r] = f]
    PROVE  CacheInv'
<1>1. reader' \in [Readers -> ReaderRecord] /\ \A s \in Readers : FetchOK(reader'[s])
  BY DEF CacheInv
<1>2. served' = None /\ cache' = cache /\ newest' = newest
  BY DEF Silent
<1> QED
  BY <1>1, <1>2 DEF CacheInv, CacheOK, FetchOK, ServedFresh, NeverFarBack, PairApart

\* A fetch goes on: each position follows from the one before it.
LEMMA FetchMoves ==
    ASSUME CacheInv, NEW r \in Readers,
           GetMiss(r) \/ PoolRead(r) \/ PoolReply(r) \/ SupplyRead(r) \/ SupplyReply(r)
                      \/ FetchFails(r)
    PROVE  CacheInv'
<1>1. /\ reader \in [Readers -> ReaderRecord] /\ reader[r] \in ReaderRecord
      /\ FetchOK(reader[r]) /\ Timeout \in Nat /\ None \notin Nat
  BY CacheAssumption DEF CacheInv
<1> DEFINE old == reader[r]
<1>2. CASE GetMiss(r)
  <2> DEFINE f == [Idle EXCEPT !.pc = "pool_asked"]
  <2>1. f \in ReaderRecord /\ FetchOK(f)
    BY <1>1 DEF Idle, ReaderRecord, FetchOK, Calling
  <2> QED
    BY <1>2, <2>1, SilentKeeps DEF GetMiss
<1>3. CASE PoolRead(r)
  <2> DEFINE f == [reader[r] EXCEPT !.pc = "pool_read", !.data = 0]
  <2>1. f \in ReaderRecord /\ FetchOK(f)
    <3>1. /\ f \in ReaderRecord
          /\ f.pc = "pool_read" /\ f.wait = old.wait /\ f.data = 0 /\ f.apart = old.apart
      BY <1>1 DEF ReaderRecord, Calling
    <3> QED
      BY <1>1, <1>3, <3>1, ReaderFields DEF PoolRead, FetchOK, Calling
  <2>2. reader' = [reader EXCEPT ![r] = f]
    BY <1>1, <1>3 DEF PoolRead
  <2> QED
    BY <1>3, <2>1, <2>2, SilentKeeps DEF PoolRead
<1>4. CASE PoolReply(r)
  <2> DEFINE f == [reader[r] EXCEPT !.pc = "supply_asked", !.wait = 0]
  <2>1. f \in ReaderRecord /\ FetchOK(f)
    <3>1. /\ f \in ReaderRecord
          /\ f.pc = "supply_asked" /\ f.wait = 0 /\ f.data = old.data /\ f.apart = old.apart
      BY <1>1 DEF ReaderRecord, Calling
    <3> QED
      BY <1>1, <1>4, <3>1, ReaderFields DEF PoolReply, FetchOK, Calling
  <2>2. reader' = [reader EXCEPT ![r] = f]
    BY <1>1, <1>4 DEF PoolReply
  <2> QED
    BY <1>4, <2>1, <2>2, SilentKeeps DEF PoolReply
<1>5. CASE SupplyRead(r)
  <2> DEFINE f == [reader[r] EXCEPT !.pc = "supply_read", !.apart = reader[r].data]
  <2>1. reader[r].data \in Nat /\ reader[r].data <= Timeout + reader[r].wait
    BY <1>1, <1>5 DEF SupplyRead, FetchOK, ReaderRecord
  <2>2. f \in ReaderRecord /\ FetchOK(f)
    <3>1. /\ f \in ReaderRecord
          /\ f.pc = "supply_read" /\ f.wait = old.wait /\ f.data = old.data /\ f.apart = old.data
      BY <1>1, <2>1 DEF ReaderRecord, Calling
    <3> QED
      BY <1>1, <1>5, <2>1, <3>1, ReaderFields DEF SupplyRead, FetchOK, Calling
  <2>3. reader' = [reader EXCEPT ![r] = f]
    BY <1>1, <1>5 DEF SupplyRead
  <2> QED
    BY <1>5, <2>2, <2>3, SilentKeeps DEF SupplyRead
<1>6. CASE SupplyReply(r)
  <2> DEFINE f == [reader[r] EXCEPT !.pc = "storing"]
  <2>1. f \in ReaderRecord /\ FetchOK(f)
    <3>1. /\ f \in ReaderRecord
          /\ f.pc = "storing" /\ f.wait = old.wait /\ f.data = old.data /\ f.apart = old.apart
      BY <1>1 DEF ReaderRecord, Calling
    <3> QED
      BY <1>1, <1>6, <3>1, ReaderFields DEF SupplyReply, FetchOK, Calling
  <2>2. reader' = [reader EXCEPT ![r] = f]
    BY <1>1, <1>6 DEF SupplyReply
  <2> QED
    BY <1>6, <2>1, <2>2, SilentKeeps DEF SupplyReply
<1>7. CASE FetchFails(r)
  BY <1>7, IdleReader, SilentKeeps DEF FetchFails
<1> QED
  BY <1>2, <1>3, <1>4, <1>5, <1>6, <1>7

\* Both ways to an answer: from the cache and from a fetch.
LEMMA ServeKeeps ==
    ASSUME CacheInv, NEW r \in Readers, GetHit(r) \/ Store(r)
    PROVE  CacheInv'
<1>1. /\ TTL \in Nat /\ Timeout \in Nat /\ TTL > 0 /\ None \notin Nat
      /\ newest \in Nat \cup {None}
  BY CacheAssumption DEF CacheInv
<1>2. CASE GetHit(r)
  <2>1. /\ cache \in CacheRecord /\ CacheOK /\ cache.age < TTL /\ Serve(cache)
        /\ cache' = cache /\ reader' = reader /\ newest \in Nat
    BY <1>2, <1>1 DEF GetHit, Hit, CacheInv, CacheOK
  <2>2. /\ cache.data \in Nat /\ cache.apart \in Nat /\ cache.age \in Nat
        /\ cache.data <= 2 * Timeout + cache.age /\ cache.age <= newest
        /\ cache.age <= cache.data /\ cache.apart <= cache.data /\ cache.apart <= 2 * Timeout
    BY <2>1 DEF CacheRecord, CacheOK
  <2>3. /\ newest' \in Nat /\ newest' \in {newest, cache.data} /\ cache.age <= newest'
    BY <2>1, <2>2 DEF Serve
  <2>4. /\ served' \in [data : Nat, apart : Nat]
        /\ served'.data = cache.data /\ served'.apart = cache.apart
    BY <2>1, <2>2 DEF Serve
  <2>5. CacheOK'
    BY <1>1, <2>1, <2>2, <2>3 DEF CacheOK
  <2>6. ServedFresh' /\ NeverFarBack' /\ PairApart'
    BY <1>1, <2>1, <2>2, <2>3, <2>4 DEF ServedFresh, NeverFarBack, PairApart, Smallest
  <2>7. \A s \in Readers : FetchOK(reader[s])'
    BY <2>1 DEF CacheInv, FetchOK
  <2> QED
    BY <2>1, <2>3, <2>4, <2>5, <2>6, <2>7 DEF CacheInv
<1>3. CASE Store(r)
  <2> DEFINE f == reader[r]
  <2>1. /\ f \in ReaderRecord /\ f.data \in Nat /\ f.data <= 2 * Timeout
        /\ f.apart \in Nat /\ f.apart <= f.data /\ f.apart <= 2 * Timeout
    BY <1>1, <1>3 DEF Store, CacheInv, FetchOK, ReaderRecord
  <2>2. /\ newest' \in Nat
        /\ served' \in [data : Nat, apart : Nat]
        /\ served'.data = f.data /\ served'.apart = f.apart
    BY <1>1, <1>3, <2>1 DEF Store, Serve
  <2>3. cache' \in CacheRecord /\ CacheOK'
    BY <1>1, <1>3, <2>1, <2>2 DEF Store, Entry, CacheRecord, CacheOK
  <2>4. ServedFresh' /\ NeverFarBack' /\ PairApart'
    BY <1>1, <2>1, <2>2 DEF ServedFresh, NeverFarBack, PairApart, Smallest
  <2>5. reader' \in [Readers -> ReaderRecord] /\ \A s \in Readers : FetchOK(reader[s])'
    BY <1>3, IdleReader DEF Store, CacheInv, FetchOK
  <2> QED
    BY <2>2, <2>3, <2>4, <2>5 DEF CacheInv
<1> QED
  BY <1>2, <1>3

LEMMA TickKeeps == ASSUME CacheInv, Tick PROVE CacheInv'
<1>1. TTL \in Nat /\ Timeout \in Nat /\ TTL > 0 /\ None \notin Nat /\ Cap = TTL + 2 * Timeout + 1
  BY CacheAssumption DEF Cap
<1>2. \A a \in Nat : Older(a) \in Nat /\ (a < Cap => Older(a) = a + 1) /\ Older(a) >= a
  BY <1>1 DEF Older
<1>3. Older(None) = None
  BY DEF Older
<1>4. ASSUME NEW r \in Readers
      PROVE  reader'[r] \in ReaderRecord /\ FetchOK(reader[r])'
  <2> DEFINE f == reader[r]
  <2>1. f \in ReaderRecord /\ FetchOK(f) /\ f.wait \in Nat /\ f.apart \in Nat
    BY DEF CacheInv, ReaderRecord
  <2>2. CASE f.pc = "idle"
    BY <2>2, IdleReader DEF Tick, FetchOK
  <2>3. CASE f.pc \in Calling
    <3>1. f.wait < Timeout
      <4>1. f.wait # Timeout
        BY <2>3 DEF Tick, Due
      <4> QED
        BY <1>1, <2>1, <4>1 DEF FetchOK
    <3>2. Older(f.wait) = f.wait + 1 /\ Older(f.data) \in Nat \cup {None}
      BY <1>1, <1>2, <1>3, <2>1, <3>1, ReaderFields
    <3>3. reader'[r] = Aged(f)
      BY <2>3 DEF Tick, Calling, Aged
    <3>4. /\ reader'[r] \in ReaderRecord
          /\ reader'[r].pc = f.pc /\ reader'[r].wait = f.wait + 1
          /\ reader'[r].data = Older(f.data) /\ reader'[r].apart = f.apart
      BY <2>1, <3>2, <3>3, ReaderAges
    <3>5. f.pc \in {"pool_read", "supply_asked", "supply_read"} =>
            f.data \in Nat /\ Older(f.data) = f.data + 1
      BY <1>1, <1>2, <2>1, <3>1 DEF FetchOK
    <3> QED
      BY <1>1, <2>1, <2>3, <3>1, <3>4, <3>5 DEF FetchOK, Calling
  <2> QED
    BY <2>1, <2>2, <2>3 DEF Tick, Due, ReaderRecord
<1>5. reader' \in [Readers -> ReaderRecord]
  BY <1>4 DEF Tick
<1>6. newest' \in Nat \cup {None}
  BY <1>2, <1>3 DEF Tick, CacheInv
<1>7. ASSUME cache' # None PROVE cache' \in CacheRecord /\ CacheOK'
  <2>1. cache # None /\ cache \in CacheRecord /\ CacheOK /\ newest \in Nat
    BY <1>7 DEF Tick, CacheInv, CacheOK
  <2> DEFINE a == IF cache.age < TTL THEN cache.age + 1 ELSE cache.age
  <2>2. cache' = [cache EXCEPT !.age = a, !.data = Older(cache.data)]
    BY <2>1 DEF Tick
  <2>3. cache.age \in Nat /\ cache.data \in Nat /\ cache.apart \in Nat /\ a \in Nat
    BY <2>1 DEF CacheRecord
  <2>4. /\ cache' \in CacheRecord /\ cache'.age = a /\ cache'.data = Older(cache.data)
        /\ cache'.apart = cache.apart /\ newest' = Older(newest)
    BY <1>2, <2>1, <2>2, <2>3 DEF CacheRecord, Tick
  <2>5. Older(newest) >= a /\ newest' # None
    BY <1>1, <1>2, <2>1, <2>3, <2>4 DEF CacheOK
  <2>6. Older(cache.data) >= a /\ Older(cache.data) \in Nat /\ Older(cache.data) <= cache.data + 1
    BY <1>1, <1>2, <2>1, <2>3 DEF CacheOK, Older
  <2> QED
    BY <1>1, <1>2, <2>1, <2>3, <2>4, <2>5, <2>6 DEF CacheOK
<1>8. served' = None
  BY DEF Tick
<1> QED
  BY <1>4, <1>5, <1>6, <1>7, <1>8 DEF CacheInv, ServedFresh, NeverFarBack, PairApart

LEMMA CacheStep == CacheInv /\ [Next]_vars => CacheInv'
<1> SUFFICES ASSUME CacheInv, [Next]_vars PROVE CacheInv'
  OBVIOUS
<1>1. CASE UNCHANGED vars
  BY <1>1 DEF vars, CacheInv, CacheOK, FetchOK, ServedFresh, NeverFarBack, PairApart
<1> QED
  BY <1>1, FetchMoves, ServeKeeps, TickKeeps DEF Next

\* The inductive invariant of get_reserves holds in every reachable state: how old
\* what a fetch or the entry holds can be, and since when (contract.rs:80-99).
THEOREM CacheInvariance == Spec => []CacheInv
  BY CacheInit, CacheStep, PTL DEF Spec

\* get_reserves never answers with reserves that the chain held CACHE_TTL and
\* two RPC timeouts ago or longer, although the entry's age is counted from
\* the write and readers that miss together overwrite each other.
THEOREM Freshness == Spec => []ServedFresh
<1>1. CacheInv => ServedFresh
  BY DEF CacheInv
<1> QED
  BY <1>1, CacheInvariance, PTL

\* An answer is at most two RPC timeouts behind the newest one ever given: a
\* slow fetch that overwrites a faster one takes answers no further back.
THEOREM BoundedStepBack == Spec => []NeverFarBack
<1>1. CacheInv => NeverFarBack
  BY DEF CacheInv
<1> QED
  BY <1>1, CacheInvariance, PTL

\* The LP supply of an answer is never older than its reserves, and at most
\* the two calls of one fetch newer.
THEOREM PairReadTogether == Spec => []PairApart
<1>1. CacheInv => PairApart
  BY DEF CacheInv
<1> QED
  BY <1>1, CacheInvariance, PTL
=============================================================================
