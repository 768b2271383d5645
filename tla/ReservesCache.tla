----------------------------- MODULE ReservesCache -----------------------------
(***************************************************************************)
(* ContractClient::get_reserves.  A reader that finds no entry younger     *)
(* than CACHE_TTL fetches the pool's instance and then the LP supply from  *)
(* the RPC node, holding no lock, and overwrites the cache.  Readers that  *)
(* miss together fetch together, and finish in any order.                  *)
(* Time is in ticks; what was read from the chain is represented by its    *)
(* age, the ticks since the node looked at the ledger: "data" is the age   *)
(* of the reserves, "apart" how much later the LP supply was read.         *)
(***************************************************************************)
EXTENDS Integers

CONSTANTS Readers,
          TTL,       \* CACHE_TTL
          Timeout,   \* the RPC client's timeout
          None

ASSUME CacheAssumption == TTL \in Nat \ {0} /\ Timeout \in Nat \ {0} /\ None \notin Nat

\* Ages are capped just above everything that the properties tell apart.
Cap == TTL + 2 * Timeout + 1

VARIABLES cache,    \* None, or the entry: time since fetched_at, and its data
          reader,   \* reader[r]: position, time in the current call, and its data
          served,   \* the data of the answer given in the last step, if any
          newest    \* history: the age of the newest data ever served

vars == <<cache, reader, served, newest>>

Idle == [pc |-> "idle", wait |-> 0, data |-> None, apart |-> 0]

Init ==
    /\ cache = None
    /\ reader = [r \in Readers |-> Idle]
    /\ served = None
    /\ newest = None

Serve(from) ==
    /\ served' = [data |-> from.data, apart |-> from.apart]
    /\ newest' = IF newest = None \/ from.data < newest THEN from.data ELSE newest

\* A step that neither answers anybody nor touches the cache.
Silent == served' = None /\ UNCHANGED <<cache, newest>>

HitAtLimit == cache # None /\ cache.age <= TTL

Hit == cache # None /\ cache.age < TTL

GetHit(r) ==
    /\ reader[r].pc = "idle"
    /\ Hit
    /\ Serve(cache)
    /\ UNCHANGED <<cache, reader>>

GetMiss(r) ==
    /\ reader[r].pc = "idle"
    /\ ~Hit
    /\ reader' = [reader EXCEPT ![r] = [Idle EXCEPT !.pc = "pool_asked"]]
    /\ Silent

\* The node reads the pool contract's instance, and its reply arrives.
PoolRead(r) ==
    /\ reader[r].pc = "pool_asked"
    /\ reader' = [reader EXCEPT ![r].pc = "pool_read", ![r].data = 0]
    /\ Silent

PoolReply(r) ==
    /\ reader[r].pc = "pool_read"
    /\ reader' = [reader EXCEPT ![r].pc = "supply_asked", ![r].wait = 0]
    /\ Silent

\* The same for the LP token's instance: whatever the pool did since PoolRead
\* is in the supply and not in the reserves.
SupplyRead(r) ==
    /\ reader[r].pc = "supply_asked"
    /\ reader' = [reader EXCEPT ![r].pc = "supply_read", ![r].apart = reader[r].data]
    /\ Silent

SupplyReply(r) ==
    /\ reader[r].pc = "supply_read"
    /\ reader' = [reader EXCEPT ![r].pc = "storing"]
    /\ Silent

Calling == {"pool_asked", "pool_read", "supply_asked", "supply_read"}

\* fetch_reserves fails: an RPC error, a timeout, a missing or malformed
\* entry, a negative amount.  The cache stays as it is.
FetchFails(r) ==
    /\ reader[r].pc \in Calling
    /\ reader' = [reader EXCEPT ![r] = Idle]
    /\ Silent

KeepsSupply(r) ==
    [age |-> 0, data |-> reader[r].data,
     apart |-> IF cache = None THEN reader[r].apart
               ELSE reader[r].data - (cache.data - cache.apart)]

\* The new entry: fetched_at is the time of the write, not of the read.
Entry(r) == [age |-> 0, data |-> reader[r].data, apart |-> reader[r].apart]

Store(r) ==
    /\ reader[r].pc = "storing"
    /\ cache' = Entry(r)
    /\ Serve(reader[r])
    /\ reader' = [reader EXCEPT ![r] = Idle]
-----------------------------------------------------------------------------
WaitsForever(r) == reader[r].pc = "storing"

\* r cannot wait any longer: its RPC call is at the timeout, or it only has
\* to take the cache's lock.
Due(r) ==
    \/ reader[r].pc = "storing"
    \/ reader[r].pc \in Calling /\ reader[r].wait = Timeout

Older(age) == IF age = None THEN None ELSE IF age < Cap THEN age + 1 ELSE age

Tick ==
    /\ \A r \in Readers : ~Due(r)
    /\ cache' = IF cache = None THEN None
                ELSE [cache EXCEPT !.age = IF @ < TTL THEN @ + 1 ELSE @, !.data = Older(@)]
    /\ reader' = [r \in Readers |->
                    IF reader[r].pc = "idle" THEN Idle
                    ELSE [reader[r] EXCEPT !.wait = Older(@), !.data = Older(@)]]
    /\ newest' = Older(newest)
    /\ served' = None

Next ==
    \/ \E r \in Readers : GetHit(r) \/ GetMiss(r) \/ PoolRead(r) \/ PoolReply(r)
                          \/ SupplyRead(r) \/ SupplyReply(r) \/ FetchFails(r) \/ Store(r)
    \/ Tick

Spec == Init /\ [][Next]_vars
-----------------------------------------------------------------------------
Smallest(m, n) == IF m < n THEN m ELSE n

\* Nobody is served reserves that the chain held more than CACHE_TTL and two
\* RPC timeouts ago, although an entry's age counts from the time of the write.
ServedFresh == served # None => served.data < TTL + 2 * Timeout

\* Answers may go back in time, because a slow fetch overwrites the entry of
\* a faster one, but never by more than the two calls of a fetch take.
NeverFarBack ==
    served # None => served.data - newest <= 2 * Timeout

\* Reserves and LP supply come from two calls without a snapshot, so a deposit
\* or withdrawal between them is in one and not in the other.  The supply is
\* never the older of the two (withdrawal_amounts divides by it), and the two
\* were read within the two calls of one fetch, also after many overwrites.
PairApart == served # None => served.apart \in 0..Smallest(2 * Timeout, served.data)
=============================================================================
