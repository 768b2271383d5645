---------------------------- MODULE ServiceProofs ----------------------------
(***************************************************************************)
(* Proofs about the batch handler, for every limit, every size of request  *)
(* and every setting of the retries, and about start-up and /readyz.       *)
(***************************************************************************)
EXTENDS Batch, Startup, FiniteSetTheorems, WellFoundedInduction, TLAPS

\* The sort, whatever indices the results have: ties are what a stable sort
\* is about, though a batch has none.

Result == [index : Nat, paid : BOOLEAN]

\* The results that are not after j.
UpTo(r, j) == {i \in DOMAIN r : Precedes(r, i, j)}

LEMMA ResultFacts ==
    ASSUME NEW r \in Seq(Result)
    PROVE  /\ Len(r) \in Nat
           /\ DOMAIN r = 1..Len(r)
           /\ \A i \in 1..Len(r) : r[i] \in Result /\ r[i].index \in Nat
<1>1. Len(r) \in Nat /\ DOMAIN r = 1..Len(r) /\ \A i \in 1..Len(r) : r[i] \in Result
  OBVIOUS
<1>2. \A x \in Result : x.index \in Nat
  BY DEF Result
<1> QED
  BY <1>1, <1>2

\* Any two results are ordered, only one way, and consistently.
LEMMA PrecedesOrders ==
    ASSUME NEW r \in Seq(Result), NEW i \in 1..Len(r), NEW j \in 1..Len(r)
    PROVE  /\ Precedes(r, i, i)
           /\ Precedes(r, i, j) \/ Precedes(r, j, i)
           /\ Precedes(r, i, j) /\ Precedes(r, j, i) => i = j
           /\ \A k \in 1..Len(r) : Precedes(r, k, i) /\ Precedes(r, i, j) => Precedes(r, k, j)
  BY ResultFacts DEF Precedes

LEMMA UpToFinite ==
    ASSUME NEW r \in Seq(Result), NEW j \in 1..Len(r)
    PROVE  /\ IsFiniteSet(UpTo(r, j))
           /\ Position(r, j) = Cardinality(UpTo(r, j))
           /\ Position(r, j) \in 1..Len(r)
<1>1. IsFiniteSet(1..Len(r)) /\ Cardinality(1..Len(r)) = Len(r)
  BY ResultFacts, FS_Interval
<1>2. UpTo(r, j) \in SUBSET (1..Len(r)) /\ j \in UpTo(r, j)
  BY ResultFacts, PrecedesOrders DEF UpTo
<1>3. IsFiniteSet(UpTo(r, j)) /\ Cardinality(UpTo(r, j)) <= Len(r)
  BY <1>1, <1>2, FS_Subset
<1>4. Cardinality(UpTo(r, j)) \in Nat /\ Cardinality(UpTo(r, j)) # 0
  BY <1>2, <1>3, FS_CardinalityType, FS_EmptySet
<1>5. Position(r, j) = Cardinality(UpTo(r, j))
  BY DEF Position, UpTo
<1> QED
  BY <1>3, <1>4, <1>5, ResultFacts

\* What comes before has the smaller position.
LEMMA PositionIncreases ==
    ASSUME NEW r \in Seq(Result), NEW i \in 1..Len(r), NEW j \in 1..Len(r),
           i # j, Precedes(r, i, j)
    PROVE  Position(r, i) < Position(r, j)
<1>1. UpTo(r, i) \in SUBSET UpTo(r, j)
  BY ResultFacts, PrecedesOrders DEF UpTo
<1>2. j \in UpTo(r, j) /\ j \notin UpTo(r, i)
  BY ResultFacts, PrecedesOrders DEF UpTo
<1>3. Cardinality(UpTo(r, i)) <= Cardinality(UpTo(r, j))
      /\ Cardinality(UpTo(r, j)) # Cardinality(UpTo(r, i))
  BY <1>1, <1>2, UpToFinite, FS_Subset
<1> QED
  BY <1>3, UpToFinite

\* Every position is that of exactly one result.
LEMMA PositionsAreTaken ==
    ASSUME NEW r \in Seq(Result)
    PROVE  /\ \A k \in 1..Len(r) : \E j \in 1..Len(r) : Position(r, j) = k
           /\ \A i, j \in 1..Len(r) : Position(r, i) = Position(r, j) => i = j
<1> DEFINE f == [j \in 1..Len(r) |-> Position(r, j)]
<1>1. \A i, j \in 1..Len(r) : Position(r, i) = Position(r, j) => i = j
  <2> SUFFICES ASSUME NEW i \in 1..Len(r), NEW j \in 1..Len(r),
                      Position(r, i) = Position(r, j), i # j
               PROVE  FALSE
    OBVIOUS
  <2>1. Position(r, i) \in Nat /\ Position(r, j) \in Nat
    BY UpToFinite, ResultFacts
  <2>2. Position(r, i) < Position(r, j) \/ Position(r, j) < Position(r, i)
    BY PrecedesOrders, PositionIncreases
  <2> QED
    BY <2>1, <2>2
<1>2. f \in [1..Len(r) -> 1..Len(r)]
  BY UpToFinite
<1>3. f \in Injection(1..Len(r), 1..Len(r))
  BY <1>1, <1>2 DEF Injection, IsInjective
<1>4. IsFiniteSet(1..Len(r))
  BY ResultFacts, FS_Interval
<1>5. f \in Surjection(1..Len(r), 1..Len(r))
  BY <1>3, <1>4, FS_Injection
<1>6. \A k \in 1..Len(r) : \E j \in 1..Len(r) : f[j] = k
  BY <1>5 DEF Surjection
<1> QED
  BY <1>1, <1>6

\* sort_by_key rearranges the results, loses and repeats none, and leaves them
\* in the order of their indices, with equal ones as they were.
THEOREM SortIsStable ==
    ASSUME NEW r \in Seq(Result)
    PROVE  /\ Sorted(r) \in Seq(Result) /\ Len(Sorted(r)) = Len(r)
           /\ \E p \in Bijection(1..Len(r), 1..Len(r)) :
                /\ \A k \in 1..Len(r) : Sorted(r)[k] = r[p[k]]
                /\ \A k, l \in 1..Len(r) : k < l => Precedes(r, p[k], p[l])
<1> DEFINE n == Len(r)
           p == [k \in 1..n |-> CHOOSE j \in 1..n : Position(r, j) = k]
<1>1. \A k \in 1..n : p[k] \in 1..n /\ Position(r, p[k]) = k
  BY PositionsAreTaken
<1>2. n \in Nat /\ DOMAIN r = 1..n /\ \A i \in 1..n : r[i] \in Result
  BY ResultFacts
<1>3. Sorted(r) = [k \in 1..n |-> r[p[k]]]
  BY <1>2 DEF Sorted
<1> HIDE DEF p
<1>4. Sorted(r) \in Seq(Result) /\ Len(Sorted(r)) = Len(r)
  BY <1>1, <1>2, <1>3
<1>5. p \in Bijection(1..n, 1..n)
  <2>1. p \in [1..n -> 1..n]
    BY <1>1 DEF p
  <2>2. \A k, l \in 1..n : p[k] = p[l] => k = l
    BY <1>1
  <2>3. ASSUME NEW j \in 1..n PROVE \E k \in 1..n : p[k] = j
    <3>1. Position(r, j) \in 1..n
      BY UpToFinite
    <3> QED
      BY <1>1, <3>1, PositionsAreTaken
  <2> QED
    BY <2>1, <2>2, <2>3 DEF Bijection, Injection, Surjection, IsInjective
<1>6. ASSUME NEW k \in 1..n, NEW l \in 1..n, k < l PROVE Precedes(r, p[k], p[l])
  <2>1. p[k] # p[l] /\ ~(Position(r, p[l]) < Position(r, p[k]))
    BY <1>1, <1>2, <1>6
  <2> QED
    BY <1>1, <2>1, PrecedesOrders, PositionIncreases
<1>7. \A k \in 1..n : Sorted(r)[k] = r[p[k]]
  BY <1>3
<1> QED
  BY <1>4, <1>5, <1>6, <1>7
-----------------------------------------------------------------------------
\* The batch.

Running == {"started", "submitting"}
Ended == {"error", "payment", "panicked"}

BatchType ==
    /\ maxAttempts \in Settings
    /\ pc \in {"idle", "rejected", "joining", "returned", "cancelled"}
    /\ total \in 0..MaxItems
    /\ task \in [Items -> {"none", "aborted"} \cup Running \cup Ended]
    /\ store \in [Items -> {"none", "Processing", "Confirmed", "Failed"}]
    /\ done \in Seq(Items) /\ results \in Seq(Result)
    /\ succeeded \in Nat /\ failed \in Nat

\* How far a task came says what its payment can be; only a batch that is being
\* joined has tasks that run, and only its items have tasks.
TaskInv ==
    \A i \in Items :
        /\ task[i] = "payment" => store[i] \in {"Confirmed", "Failed"}
        /\ task[i] \in {"none", "started", "error"} => store[i] = "none"
        /\ task[i] = "panicked" => maxAttempts = 0
        /\ task[i] # "none" => i <= total
        /\ pc = "idle" => task[i] = "none"
        /\ pc # "joining" => task[i] \notin Running

\* A task that ended is waiting to be joined or was joined, only one of the two
\* and only once, and what was joined is told as it ended.
JoinInv ==
    /\ pc \in {"idle", "rejected"} => done = <<>> /\ results = <<>>
    /\ \A k \in 1..Len(done) : task[done[k]] \in Ended
    /\ \A k, l \in 1..Len(done) : done[k] = done[l] => k = l
    /\ \A k \in 1..Len(results) :
        /\ results[k].index \in Items
        /\ task[results[k].index] = IF results[k].paid THEN "payment" ELSE "error"
    /\ \A k, l \in 1..Len(results) : results[k].index = results[l].index => k = l
    /\ \A k \in 1..Len(done), l \in 1..Len(results) : done[k] # results[l].index
    /\ succeeded + failed = Len(results)

ReturnInv ==
    pc = "returned" =>
        /\ \A k, l \in 1..Len(results) : k < l => results[k].index < results[l].index
        /\ maxAttempts > 0 => Len(results) = total

BatchInv == BatchType /\ TaskInv /\ JoinInv /\ ReturnInv

LEMMA BatchInit == Init => BatchInv
<1> SUFFICES ASSUME Init PROVE BatchInv
  OBVIOUS
<1>1. BatchType
  BY BatchAssumption DEF Init, BatchType
<1>2. TaskInv /\ JoinInv /\ ReturnInv
  BY <1>1 DEF Init, BatchType, TaskInv, JoinInv, ReturnInv, Running, Ended
<1> QED
  BY <1>1, <1>2 DEF BatchInv

LEMMA SubmitStep ==
    ASSUME BatchInv, NEW n \in 0..MaxItems, Submit(n)
    PROVE  BatchInv'
<1>1. BatchType'
  BY DEF Submit, BatchInv, BatchType, Running, Ended
<1>2. TaskInv'
  BY BatchAssumption DEF Submit, BatchInv, BatchType, TaskInv, Running, Ended, Items
<1>3. JoinInv' /\ ReturnInv'
  BY DEF Submit, BatchInv, BatchType, JoinInv, ReturnInv
<1> QED
  BY <1>1, <1>2, <1>3 DEF BatchInv

\* A task that ends has run so far: nothing waits for it or was told of it.
LEMMA EndStep ==
    ASSUME BatchInv, NEW i \in Items, task[i] \in Running,
           NEW outcome \in Ended, Ends(i, outcome),
           NEW s, store' = [store EXCEPT ![i] = s],
           outcome = "payment" => s \in {"Confirmed", "Failed"},
           outcome = "error" => s = "none",
           outcome = "panicked" => s = store[i] /\ maxAttempts = 0
    PROVE  BatchInv'
<1>1. /\ task' = [task EXCEPT ![i] = outcome] /\ done' = Append(done, i)
      /\ UNCHANGED <<maxAttempts, pc, total, results, succeeded, failed>>
  BY DEF Ends
<1>2. BatchType'
  BY <1>1 DEF BatchInv, BatchType, Running, Ended
<1>3. TaskInv'
  BY <1>1 DEF BatchInv, BatchType, TaskInv, Running, Ended
<1>4. pc = "joining"
  BY DEF BatchInv, TaskInv
<1>5. Len(done) \in Nat /\ Len(done') = Len(done) + 1
      /\ \A k \in 1..Len(done') : done'[k] = IF k = Len(done) + 1 THEN i ELSE done[k]
  BY <1>1 DEF BatchInv, BatchType
<1>6. \A k \in 1..Len(done) : done[k] \in Items /\ done[k] # i
  BY DEF BatchInv, BatchType, JoinInv, Running, Ended
<1>7. \A k \in 1..Len(results) : results[k].index \in Items /\ results[k].index # i
  BY DEF BatchInv, BatchType, JoinInv, Running
<1>8. JoinInv'
  <2>1. \A k \in 1..Len(done') : task'[done'[k]] \in Ended
    BY <1>1, <1>5, <1>6 DEF BatchInv, BatchType, JoinInv
  <2>2. \A k, l \in 1..Len(done') : done'[k] = done'[l] => k = l
    BY <1>5, <1>6 DEF BatchInv, JoinInv
  <2>3. \A k \in 1..Len(results) :
            /\ results[k].index \in Items
            /\ task'[results[k].index] = IF results[k].paid THEN "payment" ELSE "error"
    BY <1>1, <1>7 DEF BatchInv, BatchType, JoinInv
  <2>4. \A k \in 1..Len(done'), l \in 1..Len(results) : done'[k] # results[l].index
    BY <1>5, <1>7 DEF BatchInv, JoinInv
  <2> QED
    BY <1>1, <1>4, <2>1, <2>2, <2>3, <2>4 DEF BatchInv, JoinInv
<1>9. ReturnInv'
  BY <1>1, <1>4 DEF ReturnInv
<1> QED
  BY <1>2, <1>3, <1>8, <1>9 DEF BatchInv
LEMMA RouteFoundStep ==
    ASSUME BatchInv, NEW i \in Items, RouteFound(i)
    PROVE  BatchInv'
<1>1. BatchType'
  BY DEF RouteFound, BatchInv, BatchType, Running, Ended
<1>2. TaskInv'
  BY DEF RouteFound, BatchInv, BatchType, TaskInv, Running, Ended
<1>3. \A k \in 1..Len(done) : done[k] \in Items /\ done[k] # i
  BY DEF RouteFound, BatchInv, BatchType, JoinInv, Ended
<1>4. \A k \in 1..Len(results) : results[k].index \in Items /\ results[k].index # i
  BY DEF RouteFound, BatchInv, BatchType, JoinInv
<1>5. JoinInv' /\ ReturnInv'
  BY <1>3, <1>4 DEF RouteFound, BatchInv, BatchType, JoinInv, ReturnInv
<1> QED
  BY <1>1, <1>2, <1>5 DEF BatchInv

\* Every step of a task.
LEMMA TaskStepKeeps ==
    ASSUME BatchInv, NEW i \in Items, TaskStep(i)
    PROVE  BatchInv'
<1>1. CASE Invalid(i)
  <2>1. task[i] \in Running /\ store[i] = "none" /\ store' = [store EXCEPT ![i] = "none"]
    BY <1>1 DEF Invalid, BatchInv, BatchType, TaskInv, Running
  <2> QED
    BY <1>1, <2>1, EndStep DEF Invalid, Ended
<1>2. CASE RouteFails(i)
  BY <1>2, EndStep DEF RouteFails, Ended, Running
<1>3. CASE RouteFound(i)
  BY <1>3, RouteFoundStep
<1>4. CASE Settle(i)
  BY <1>4, EndStep DEF Settle, Ended, Running
<1>5. CASE Panic(i)
  <2>1. task[i] \in Running /\ store' = [store EXCEPT ![i] = store[i]]
    BY <1>5 DEF Panic, BatchInv, BatchType, Running
  <2> QED
    BY <1>5, <2>1, EndStep DEF Panic, Ended
<1> QED
  BY <1>1, <1>2, <1>3, <1>4, <1>5 DEF TaskStep

\* Aborting the tasks that run leaves the ended ones alone.
LEMMA AbortKeeps ==
    ASSUME BatchInv, pc = "joining", pc' \in {"returned", "cancelled"},
           task' = [i \in Items |-> IF task[i] \in Running THEN "aborted" ELSE task[i]],
           UNCHANGED <<maxAttempts, total, store>>
    PROVE  /\ pc' \in {"idle", "rejected", "joining", "returned", "cancelled"}
           /\ task' \in [Items -> {"none", "aborted"} \cup Running \cup Ended]
           /\ TaskInv'
           /\ \A i \in Items : task[i] \in Ended => task'[i] = task[i]
  BY DEF BatchInv, BatchType, TaskInv, Running, Ended

LEMMA CancelStep == ASSUME BatchInv, Cancel PROVE BatchInv'
<1>1. /\ BatchType' /\ TaskInv'
      /\ \A i \in Items : task[i] \in Ended => task'[i] = task[i]
  BY AbortKeeps DEF Cancel, BatchInv, BatchType, Running
<1>2. JoinInv'
  <2>1. \A k \in 1..Len(done) : task'[done[k]] \in Ended
    BY <1>1 DEF BatchInv, BatchType, JoinInv
  <2>2. \A k \in 1..Len(results) :
            task'[results[k].index] = IF results[k].paid THEN "payment" ELSE "error"
    BY <1>1 DEF BatchInv, JoinInv, Ended
  <2> QED
    BY <2>1, <2>2 DEF Cancel, BatchInv, JoinInv
<1>3. ReturnInv'
  BY DEF Cancel, ReturnInv
<1> QED
  BY <1>1, <1>2, <1>3 DEF BatchInv

\* The response is given: complete, unless a task panicked.
LEMMA ReturnStep ==
    ASSUME BatchInv, pc = "joining", Return, maxAttempts > 0 => Len(results) = total
    PROVE  BatchInv'
<1>1. PICK p \in Bijection(1..Len(results), 1..Len(results)) :
        /\ \A k \in 1..Len(results) : Sorted(results)[k] = results[p[k]]
        /\ \A k, l \in 1..Len(results) : k < l => Precedes(results, p[k], p[l])
  BY SortIsStable DEF BatchInv, BatchType
<1>2. results' \in Seq(Result) /\ Len(results') = Len(results) /\ Len(results) \in Nat
  BY SortIsStable DEF Return, BatchInv, BatchType
<1>3. \A k \in 1..Len(results) :
        p[k] \in 1..Len(results) /\ results'[k] = results[p[k]]
  BY <1>1 DEF Return, Bijection, Injection
<1>4. \A k, l \in 1..Len(results) : p[k] = p[l] => k = l
  BY <1>1 DEF Bijection, Injection, IsInjective
<1>5. /\ BatchType' /\ TaskInv'
      /\ \A i \in Items : task[i] \in Ended => task'[i] = task[i]
  BY <1>2, AbortKeeps DEF Return, BatchInv, BatchType, Running
<1>6. JoinInv'
  <2>1. \A k \in 1..Len(done) : task'[done[k]] \in Ended
    BY <1>5 DEF BatchInv, BatchType, JoinInv
  <2>2. ASSUME NEW k \in 1..Len(results)
        PROVE  /\ results'[k].index \in Items
               /\ task'[results'[k].index] = IF results'[k].paid THEN "payment" ELSE "error"
               /\ \A l \in 1..Len(done) : done[l] # results'[k].index
    BY <1>3, <1>5 DEF BatchInv, JoinInv, Ended
  <2>3. \A k, l \in 1..Len(results) : results'[k].index = results'[l].index => k = l
    BY <1>3, <1>4 DEF BatchInv, JoinInv
  <2> QED
    BY <1>2, <2>1, <2>2, <2>3 DEF Return, BatchInv, JoinInv
<1>7. ASSUME NEW k \in 1..Len(results), NEW l \in 1..Len(results), k < l
      PROVE  results'[k].index < results'[l].index
  <2>1. p[k] # p[l] /\ Precedes(results, p[k], p[l])
    BY <1>1, <1>2, <1>4, <1>7
  <2>2. results[p[k]].index # results[p[l]].index
    BY <1>3, <2>1 DEF BatchInv, JoinInv
  <2> QED
    BY <1>3, <2>1, <2>2 DEF Precedes
<1>8. ReturnInv'
  BY <1>2, <1>7 DEF Return, ReturnInv
<1> QED
  BY <1>5, <1>6, <1>8 DEF BatchInv

\* join_next hands over the first task that ended.
LEMMA JoinStep ==
    ASSUME BatchInv, JoinNext
    PROVE  BatchInv'
<1> DEFINE i == Head(done)
           entry == [index |-> i, paid |-> task[i] = "payment"]
<1>1. /\ pc = "joining" /\ done # <<>> /\ Len(done) \in Nat /\ Len(done) > 0
      /\ i = done[1] /\ i \in Items /\ task[i] \in Ended
  <2>1. pc = "joining" /\ done # <<>> /\ done \in Seq(Items)
    BY DEF JoinNext, BatchInv, BatchType
  <2>2. Len(done) \in Nat /\ Len(done) > 0 /\ i = done[1] /\ i \in Items
    BY <2>1
  <2> QED
    BY <2>1, <2>2 DEF BatchInv, JoinInv
<1>2. CASE task[i] = "panicked"
  <2>1. Return
    BY <1>2 DEF JoinNext
  <2>2. maxAttempts = 0
    BY <1>1, <1>2 DEF BatchInv, TaskInv
  <2> QED
    BY <1>1, <2>1, <2>2, ReturnStep
<1>3. CASE task[i] # "panicked"
  <2>1. /\ results' = Append(results, entry)
        /\ succeeded' = succeeded + (IF task[i] = "payment" THEN 1 ELSE 0)
        /\ failed' = failed + (IF task[i] = "payment" THEN 0 ELSE 1)
        /\ done' = Tail(done)
        /\ UNCHANGED <<maxAttempts, pc, total, task, store>>
    BY <1>3 DEF JoinNext
  <2>2. entry \in Result /\ entry.index = i /\ (entry.paid <=> task[i] = "payment")
    <3>1. entry \in Result /\ entry.index = i
      BY <1>1 DEF Result, Items
    <3>2. entry.paid = (task[i] = "payment")
      OBVIOUS
    <3>3. entry.paid <=> task[i] = "payment"
      BY <3>2, Zenon
    <3> QED
      BY <3>1, <3>3
  <2> HIDE DEF entry
  <2>3. /\ Len(results) \in Nat /\ results' \in Seq(Result) /\ Len(results') = Len(results) + 1
        /\ \A k \in 1..Len(results') :
             results'[k] = IF k = Len(results) + 1 THEN entry ELSE results[k]
    BY <2>1, <2>2 DEF BatchInv, BatchType
  <2>4. /\ done' \in Seq(Items) /\ Len(done') = Len(done) - 1
        /\ \A k \in 1..Len(done') : done'[k] = done[k + 1]
    BY <1>1, <2>1 DEF BatchInv, BatchType
  <2> HIDE DEF i
  <2>5. BatchType'
    BY <2>1, <2>3, <2>4 DEF BatchInv, BatchType
  <2>6. TaskInv'
    BY <2>1 DEF BatchInv, TaskInv
  <2>7. JoinInv'
    <3>1. \A k \in 1..Len(done') :
            /\ k + 1 \in 1..Len(done)
            /\ task'[done'[k]] \in Ended /\ done'[k] # i
      BY <1>1, <2>1, <2>4 DEF BatchInv, JoinInv
    <3>2. \A k, l \in 1..Len(done') : done'[k] = done'[l] => k = l
      BY <1>1, <2>4, <3>1 DEF BatchInv, JoinInv
    <3>3. \A k \in 1..Len(results) :
            results[k].index \in Items /\ results[k].index # i
      BY <1>1 DEF BatchInv, JoinInv
    <3>4. ASSUME NEW k \in 1..Len(results')
          PROVE  /\ results'[k].index \in Items
                 /\ task'[results'[k].index] = IF results'[k].paid THEN "payment" ELSE "error"
                 /\ \A l \in 1..Len(done') : done'[l] # results'[k].index
      <4>1. CASE k = Len(results) + 1
        <5>1. results'[k] = entry
          BY <2>3, <4>1
        <5>2. task'[i] = IF entry.paid THEN "payment" ELSE "error"
          BY <1>1, <1>3, <2>1, <2>2 DEF Ended
        <5> QED
          BY <1>1, <2>2, <3>1, <5>1, <5>2
      <4>2. CASE k # Len(results) + 1
        <5>1. k \in 1..Len(results) /\ results'[k] = results[k]
          BY <2>3, <4>2
        <5> QED
          BY <2>1, <2>4, <3>1, <5>1 DEF BatchInv, JoinInv
      <4> QED
        BY <4>1, <4>2
    <3>5. \A k, l \in 1..Len(results') : results'[k].index = results'[l].index => k = l
      BY <2>2, <2>3, <3>3 DEF BatchInv, JoinInv
    <3>6. succeeded' + failed' = Len(results')
      BY <2>1, <2>3 DEF BatchInv, BatchType, JoinInv
    <3> QED
      BY <1>1, <2>1, <3>1, <3>2, <3>4, <3>5, <3>6 DEF JoinInv
  <2>8. ReturnInv'
    BY <1>1, <2>1 DEF ReturnInv
  <2> QED
    BY <2>5, <2>6, <2>7, <2>8 DEF BatchInv
<1> QED
  BY <1>2, <1>3

LEMMA BatchStep == BatchInv /\ [Next]_vars => BatchInv'
<1> SUFFICES ASSUME BatchInv, [Next]_vars PROVE BatchInv'
  OBVIOUS
<1>1. CASE \E n \in 0..MaxItems : Submit(n)
  BY <1>1, SubmitStep
<1>2. CASE \E i \in Items : TaskStep(i)
  BY <1>2, TaskStepKeeps
<1>3. CASE JoinNext
  BY <1>3, JoinStep
<1>4. CASE JoinEnds
  BY <1>4, ReturnStep DEF JoinEnds, AllJoined
<1>5. CASE Cancel
  BY <1>5, CancelStep
<1>6. CASE UNCHANGED vars
  BY <1>6 DEF vars, BatchInv, BatchType, TaskInv, JoinInv, ReturnInv
<1> QED
  BY <1>1, <1>2, <1>3, <1>4, <1>5, <1>6 DEF Next

\* Of every batch, whatever order its tasks end in: an ended task is waiting to
\* be joined or was joined, once, and is told as it ended.
THEOREM BatchInvariance == Spec => []BatchInv
  BY BatchInit, BatchStep, PTL DEF Spec

\* A response lists no item twice or out of order and tells no payment that is
\* not settled, even when a panicking task cut the batch short.
THEOREM ResponsesAreTruthful == Spec => []ResponseTruthful
<1>1. ASSUME BatchInv, pc = "returned"
      PROVE  /\ \A k, l \in 1..Len(results) : k < l => results[k].index < results[l].index
             /\ \A k \in 1..Len(results) :
                  results[k].paid <=> store[results[k].index] \in {"Confirmed", "Failed"}
             /\ succeeded + failed = Len(results)
  <2>1. ASSUME NEW k \in 1..Len(results)
        PROVE  results[k].paid <=> store[results[k].index] \in {"Confirmed", "Failed"}
    BY <1>1 DEF BatchInv, TaskInv, JoinInv
  <2> QED
    BY <1>1, <2>1 DEF BatchInv, JoinInv, ReturnInv
<1>2. BatchInv => ResponseTruthful
  BY <1>1 DEF ResponseTruthful
<1> QED
  BY <1>2, BatchInvariance, PTL

\* A set of naturals has a least member.
LEMMA LeastNatural ==
    ASSUME NEW S, S \subseteq Nat, S # {}
    PROVE  \E n \in S : \A m \in S : n <= m
<1>1. PICK R : IsWellFoundedOn(R, Nat) /\ R = {ss \in Nat \X Nat : ss[1] < ss[2]}
  BY NatLessThanWellFounded DEF OpToRel
<1>2. PICK n \in S : \A m \in S : ~(<<m, n>> \in R)
  BY <1>1, WFMin
<1>3. ASSUME NEW m \in S PROVE n <= m
  <2>1. m \in Nat /\ n \in Nat /\ <<m, n>> \notin R
    BY <1>2
  <2>2. ~(m < n)
    BY <1>1, <2>1
  <2> QED
    BY <2>1, <2>2
<1> QED
  BY <1>3

\* n numbers of 1..n in increasing order are 1 to n: the first that is not
\* would leave its place to none.
LEMMA IncreasingIsIdentity ==
    ASSUME NEW n \in Nat, NEW f \in [1..n -> 1..n],
           \A k, l \in 1..n : k < l => f[k] < f[l]
    PROVE  \A k \in 1..n : f[k] = k
<1> SUFFICES ASSUME NEW j \in 1..n, f[j] # j PROVE FALSE
  OBVIOUS
<1>1. f \in Surjection(1..n, 1..n)
  <2>1. \A k, l \in 1..n : f[k] = f[l] => k = l
    <3> SUFFICES ASSUME NEW k \in 1..n, NEW l \in 1..n, f[k] = f[l], k # l PROVE FALSE
      OBVIOUS
    <3>1. k < l \/ l < k
      OBVIOUS
    <3>2. f[k] < f[l] \/ f[l] < f[k]
      BY <3>1
    <3>3. f[k] \in 1..n /\ f[l] \in 1..n
      OBVIOUS
    <3> QED
      BY <3>2, <3>3
  <2>2. f \in Injection(1..n, 1..n)
    BY <2>1 DEF Injection, IsInjective
  <2>3. IsFiniteSet(1..n)
    BY FS_Interval
  <2> QED
    BY <2>2, <2>3, FS_Injection
<1>2. PICK k \in {m \in 1..n : f[m] # m} : \A m \in {x \in 1..n : f[x] # x} : k <= m
  <2> DEFINE S == {m \in 1..n : f[m] # m}
  <2>1. S \subseteq Nat /\ S # {}
    OBVIOUS
  <2> QED
    BY <2>1, LeastNatural
<1>3. PICK m \in 1..n : f[m] = k
  BY <1>1, <1>2 DEF Surjection
<1>4. k \in 1..n /\ f[k] \in 1..n /\ f[k] # k /\ \A x \in 1..n : x < k => f[x] = x
  BY <1>2
<1>5. k < f[k]
  <2> SUFFICES ASSUME f[k] < k PROVE FALSE
    BY <1>4
  <2>1. f[f[k]] = f[k]
    BY <1>4
  <2>2. f[f[k]] < f[k]
    BY <1>4
  <2> QED
    BY <1>4, <2>1, <2>2
<1>6. m < k \/ m = k \/ k < m
  BY <1>4
<1> QED
  BY <1>3, <1>4, <1>5, <1>6

\* When retry may make an attempt, a response has every item of the request in
\* its place, tells of each whether its payment is settled, and its counts add up.
THEOREM ResponsesAreComplete == Spec => []ResponseComplete
<1>1. ASSUME BatchInv, pc = "returned", maxAttempts > 0
      PROVE  /\ Len(results) = total
             /\ \A k \in 1..Len(results) :
                  /\ results[k].index = k
                  /\ results[k].paid <=> store[k] \in {"Confirmed", "Failed"}
             /\ succeeded + failed = total
  <2>1. Len(results) = total /\ total \in Nat /\ succeeded + failed = total
    BY <1>1, BatchAssumption DEF BatchInv, BatchType, JoinInv, ReturnInv
  <2>2. \A k \in 1..total : results[k].index \in 1..total
    <3>1. \A i \in Items : task[i] # "none" => i \in 1..total
      BY <1>1, <2>1 DEF BatchInv, TaskInv, Items
    <3>2. ASSUME NEW k \in 1..total
          PROVE  results[k].index \in Items /\ task[results[k].index] # "none"
      BY <1>1, <2>1 DEF BatchInv, JoinInv
    <3> QED
      BY <3>1, <3>2
  <2>3. \A k \in 1..total : results[k].index = k
    <3> DEFINE f == [k \in 1..total |-> results[k].index]
    <3>1. f \in [1..total -> 1..total]
      BY <2>2
    <3>2. \A k, l \in 1..total : k < l => f[k] < f[l]
      BY <1>1, <2>1 DEF BatchInv, ReturnInv
    <3> HIDE DEF f
    <3>3. \A k \in 1..total : f[k] = k
      BY <2>1, <3>1, <3>2, IncreasingIsIdentity
    <3> QED
      BY <3>3 DEF f
  <2>4. \A k \in 1..total : results[k].paid <=> store[k] \in {"Confirmed", "Failed"}
    <3> SUFFICES ASSUME NEW k \in 1..total
                 PROVE  results[k].paid <=> store[k] \in {"Confirmed", "Failed"}
      OBVIOUS
    <3>1. results[k].index = k /\ k \in Items
          /\ task[k] = IF results[k].paid THEN "payment" ELSE "error"
      BY <1>1, <2>1, <2>3 DEF BatchInv, JoinInv
    <3> QED
      BY <1>1, <3>1 DEF BatchInv, TaskInv
  <2> QED
    BY <2>1, <2>3, <2>4
<1>2. BatchInv => ResponseComplete
  BY <1>1 DEF ResponseComplete
<1> QED
  BY <1>2, BatchInvariance, PTL
-----------------------------------------------------------------------------
\* No task is lost on its way from its end to the response: what BatchEnds needs
\* besides fairness.

Waiting(i) == \E k \in 1..Len(done) : done[k] = i
Told(i) == \E k \in 1..Len(results) : results[k].index = i

KeptInv ==
    pc = "joining" =>
        \A i \in 1..total :
            i \in Items /\ task[i] \in Running \cup Ended
            /\ (task[i] \in Ended => Waiting(i) \/ Told(i))

LEMMA EndKept ==
    ASSUME BatchInv, KeptInv, NEW i \in Items, NEW outcome \in Ended, Ends(i, outcome)
    PROVE  KeptInv'
<1>1. /\ task' = [task EXCEPT ![i] = outcome] /\ done' = Append(done, i)
      /\ UNCHANGED <<maxAttempts, pc, total, results, succeeded, failed>>
  BY DEF Ends
<1>2. Len(done) \in Nat /\ Len(done') = Len(done) + 1 /\ done'[Len(done) + 1] = i
      /\ \A k \in 1..Len(done) : done'[k] = done[k]
  BY <1>1 DEF BatchInv, BatchType
<1>3. Waiting(i)'
  BY <1>2 DEF Waiting
<1>4. ASSUME NEW j, Waiting(j) PROVE Waiting(j)'
  <2>1. PICK k \in 1..Len(done) : done[k] = j
    BY <1>4 DEF Waiting
  <2>2. k \in 1..Len(done') /\ done'[k] = j
    BY <1>2, <2>1
  <2> QED
    BY <2>2 DEF Waiting
<1>5. \A j : Told(j) => Told(j)'
  BY <1>1 DEF Told
<1> SUFFICES ASSUME pc' = "joining", NEW j \in 1..total'
             PROVE  /\ j \in Items /\ task'[j] \in Running \cup Ended
                    /\ task'[j] \in Ended => Waiting(j)' \/ Told(j)'
  BY DEF KeptInv
<1>6. CASE j = i
  BY <1>1, <1>3, <1>6 DEF BatchInv, BatchType
<1>7. CASE j # i
  <2>1. task'[j] = task[j] /\ j \in Items /\ task[j] \in Running \cup Ended
        /\ (task[j] \in Ended => Waiting(j) \/ Told(j))
    BY <1>1, <1>7 DEF BatchInv, BatchType, KeptInv
  <2> QED
    BY <1>4, <1>5, <2>1
<1> QED
  BY <1>6, <1>7

\* The joined task leaves the queue for the results.
LEMMA JoinKept ==
    ASSUME BatchInv, KeptInv, JoinNext
    PROVE  KeptInv'
<1> DEFINE i == Head(done)
           entry == [index |-> i, paid |-> task[i] = "payment"]
<1> SUFFICES ASSUME pc' = "joining", NEW j \in 1..total'
             PROVE  /\ j \in Items /\ task'[j] \in Running \cup Ended
                    /\ task'[j] \in Ended => Waiting(j)' \/ Told(j)'
  BY DEF KeptInv
<1>1. /\ pc = "joining" /\ done # <<>> /\ done \in Seq(Items)
      /\ results' = Append(results, entry) /\ done' = Tail(done)
      /\ UNCHANGED <<total, task>>
  BY DEF JoinNext, Return, BatchInv, BatchType
<1>2. i \in Items
  BY <1>1
<1>3. entry \in Result /\ entry.index = i
  BY <1>2 DEF Result, Items
<1>4. /\ Len(results) \in Nat /\ Len(results') = Len(results) + 1
      /\ results'[Len(results) + 1].index = i
      /\ \A k \in 1..Len(results) : results'[k] = results[k]
  <2> HIDE DEF entry
  <2> QED
    BY <1>1, <1>3 DEF BatchInv, BatchType
<1>5. ASSUME j = i PROVE Told(j)'
  BY <1>4, <1>5 DEF Told
<1>6. ASSUME Told(j) PROVE Told(j)'
  <2>1. PICK k \in 1..Len(results) : results[k].index = j
    BY <1>6 DEF Told
  <2>2. k \in 1..Len(results') /\ results'[k].index = j
    BY <1>4, <2>1
  <2> QED
    BY <2>2 DEF Told
<1>7. ASSUME Waiting(j), j # i PROVE Waiting(j)'
  <2>1. PICK k \in 1..Len(done) : done[k] = j
    BY <1>7 DEF Waiting
  <2>2. i = done[1] /\ Len(done) \in Nat /\ Len(done') = Len(done) - 1
        /\ \A l \in 1..Len(done') : done'[l] = done[l + 1]
    BY <1>1
  <2>3. k - 1 \in 1..Len(done') /\ done'[k - 1] = j
    <3> HIDE DEF i
    <3> QED
      BY <1>7, <2>1, <2>2
  <2> QED
    BY <2>3 DEF Waiting
<1> HIDE DEF i, entry
<1> QED
  BY <1>1, <1>5, <1>6, <1>7 DEF KeptInv

LEMMA KeptStep == BatchInv /\ KeptInv /\ [Next]_vars => KeptInv'
<1> SUFFICES ASSUME BatchInv, KeptInv, [Next]_vars PROVE KeptInv'
  OBVIOUS
<1>1. ASSUME NEW n \in 0..MaxItems, Submit(n) PROVE KeptInv'
  BY <1>1, BatchAssumption DEF Submit, BatchInv, BatchType, KeptInv, Running, Ended, Items
<1>2. ASSUME NEW i \in Items, RouteFound(i) PROVE KeptInv'
  <2>1. \A j : (Waiting(j) <=> Waiting(j)') /\ (Told(j) <=> Told(j)')
    BY <1>2 DEF RouteFound, Waiting, Told
  <2> QED
    BY <1>2, <2>1 DEF RouteFound, BatchInv, BatchType, KeptInv, Running, Ended
<1>3. ASSUME NEW i \in Items, TaskStep(i) PROVE KeptInv'
  BY <1>2, <1>3, EndKept DEF TaskStep, Invalid, RouteFails, Settle, Panic, Ended
<1>4. CASE JoinNext
  BY <1>4, JoinKept
<1>5. CASE JoinEnds \/ Cancel
  BY <1>5 DEF JoinEnds, Return, Cancel, KeptInv
<1>6. CASE UNCHANGED vars
  BY <1>6 DEF vars, KeptInv, Waiting, Told
<1> QED
  BY <1>1, <1>3, <1>4, <1>5, <1>6 DEF Next

\* The join loop never waits for nothing: as long as it goes on, a task still
\* runs, or one that ended is there to be joined, or all were joined.
NeverStuck ==
    pc = "joining" =>
        (\E i \in Items : task[i] \in Running) \/ done # <<>> \/ AllJoined

\* Of a batch of any size, whatever order its tasks end in and however many of
\* them panic: process_batch is never left waiting on an empty task set.
THEOREM BatchesAreNeverStuck == Spec => []NeverStuck
<1>1. ASSUME BatchInv, KeptInv, pc = "joining", done = <<>>,
             \A i \in Items : task[i] \notin Running
      PROVE  AllJoined
  <2> DEFINE n == Len(results)
             f == [k \in 1..n |-> results[k].index]
  <2>1. n \in Nat /\ total \in Nat
    BY <1>1, BatchAssumption DEF BatchInv, BatchType
  <2>2. \A i \in Items : task[i] # "none" => i \in 1..total
    BY <1>1, <2>1 DEF BatchInv, TaskInv, Items
  <2>3. \A k \in 1..n : results[k].index \in Items /\ task[results[k].index] # "none"
    BY <1>1 DEF BatchInv, JoinInv
  <2>4. f \in [1..n -> 1..total]
    BY <2>2, <2>3
  <2>5. \A k, l \in 1..n : f[k] = f[l] => k = l
    BY <1>1 DEF BatchInv, JoinInv
  <2>6. ASSUME NEW i \in 1..total PROVE \E k \in 1..n : f[k] = i
    <3>1. ~Waiting(i)
      BY <1>1 DEF Waiting
    <3>2. Told(i)
      BY <1>1, <3>1 DEF KeptInv
    <3> QED
      BY <3>2 DEF Told
  <2>7. f \in Injection(1..n, 1..total) /\ f \in Surjection(1..n, 1..total)
    BY <2>4, <2>5, <2>6 DEF Injection, Surjection, IsInjective
  <2>8. /\ IsFiniteSet(1..total) /\ Cardinality(1..total) = total
        /\ Cardinality(1..n) = n
    <3> HIDE DEF n
    <3>1. \A m \in Nat : IsFiniteSet(1..m) /\ Cardinality(1..m) = m
      BY FS_Interval
    <3> QED
      BY <2>1, <3>1
  <2>9. Cardinality(1..n) = Cardinality(1..total)
    BY <2>7, <2>8, FS_Injection
  <2> QED
    BY <2>8, <2>9 DEF AllJoined
<1>2. BatchInv /\ KeptInv => NeverStuck
  BY <1>1 DEF NeverStuck
<1>3. Init => KeptInv
  BY DEF Init, KeptInv
<1> QED
  BY <1>2, <1>3, KeptStep, BatchInvariance, PTL DEF Spec
-----------------------------------------------------------------------------
\* Start-up and /readyz.

\* What the steps of start-up have established by the time they lead to a phase.
Loaded == {"launched", "parsed", "validated", "connected", "wired", "bound", "serving"}
Parsed == Loaded \ {"launched"}
Valid == Parsed \ {"parsed"}
Wired == {"wired", "bound", "serving"}
Bound == {"bound", "serving"}

PhaseInv ==
    /\ phase \in Loaded \cup {"down"}
    /\ redisUp \in BOOLEAN /\ outage \in BOOLEAN
    /\ phase \in Loaded => env \in Environment
    /\ phase \in Parsed => env.keys # "malformed" /\ env.pool # "malformed"
    /\ phase \in Valid => ~ValidatePanics

StoreInv ==
    /\ phase = "connected" => claims = "redis" /\ env.redis = "set"
    /\ phase \in Wired =>
        \/ claims = "redis" /\ env.redis = "set"
        \/ claims = "memory" /\ env.redis = "unset" /\ ~Mainnet
    \* Until the nonce store is built, an unreachable Redis has failed since
    \* the claim store was verified; later, its failure is on record.
    /\ phase = "wired" /\ env.redis = "set" => redisUp \/ outage
    /\ phase \notin Bound => nonces = "none"
    /\ phase \in Bound /\ env.redis = "set" /\ nonces = "memory" => outage

ReadyInv ==
    /\ verdict \in {"none", "ready", "not_ready"}
    /\ phase # "serving" => verdict = "none"
    /\ verdict = "ready" => claims = "redis" /\ StaticFailures = {}

StartInv == PhaseInv /\ StoreInv /\ ReadyInv

LEMMA StartInitial == StartInit => StartInv
  BY DEF StartInit, StartInv, PhaseInv, StoreInv, ReadyInv, Loaded, Parsed, Valid, Wired, Bound

LEMMA DownStep == ASSUME StartInv, Down PROVE StartInv'
  BY DEF Down, StartInv, PhaseInv, StoreInv, ReadyInv, Loaded, Parsed, Valid, Wired, Bound

\* The steps up to the claim store.
LEMMA LaunchStep == ASSUME StartInv, Launch PROVE StartInv'
  BY DEF Launch, StartInv, PhaseInv, StoreInv, ReadyInv, Loaded, Parsed, Valid, Wired, Bound

LEMMA FromEnvStep == ASSUME StartInv, FromEnv PROVE StartInv'
<1>1. CASE Malformed
  BY <1>1, DownStep DEF FromEnv
<1>2. CASE ~Malformed
  <2>1. env.keys # "malformed" /\ env.pool # "malformed"
    BY <1>2 DEF Malformed
  <2> QED
    BY <1>2, <2>1
    DEF FromEnv, Continue, StartInv, PhaseInv, StoreInv, ReadyInv,
        Loaded, Parsed, Valid, Wired, Bound
<1> QED
  BY <1>1, <1>2

LEMMA ValidateStep == ASSUME StartInv, Validate PROVE StartInv'
<1>1. CASE ValidatePanics
  BY <1>1, DownStep DEF Validate
<1>2. CASE ~ValidatePanics
  <2>1. ~ValidatePanics'
    BY <1>2 DEF Validate, Continue, ValidatePanics, Mainnet, Network, HasKeys
  <2> QED
    BY <1>2, <2>1
    DEF Validate, Continue, StartInv, PhaseInv, StoreInv, ReadyInv,
        Loaded, Parsed, Valid, Wired, Bound
<1> QED
  BY <1>1, <1>2

\* While the settings stay, what was decided about them stays.
LEMMA SameSettings ==
    ASSUME env' = env
    PROVE  /\ ValidatePanics' <=> ValidatePanics
           /\ Mainnet' <=> Mainnet
           /\ StaticFailures' = StaticFailures
<1>1. (Mainnet' <=> Mainnet) /\ (ValidatePanics' <=> ValidatePanics)
  BY DEF ValidatePanics, Mainnet, Network, HasKeys
<1>2. StaticFailures' = StaticFailures
  BY DEF StaticFailures, WrongNetwork, Network, Backlog
<1> QED
  BY <1>1, <1>2

LEMMA ConnectClaimsStep == ASSUME StartInv, ConnectClaims PROVE StartInv'
<1>1. CASE Down
  BY <1>1, DownStep
<1>2. CASE /\ Continue("wired") /\ claims' = "memory"
           /\ env.redis = "unset" /\ ~Mainnet
  BY <1>2, SameSettings
  DEF ConnectClaims, Continue, StartInv, PhaseInv, StoreInv, ReadyInv,
      Loaded, Parsed, Valid, Wired, Bound
<1>3. CASE Continue("connected") /\ claims' = "redis" /\ Reachable
  BY <1>3, SameSettings
  DEF ConnectClaims, Continue, Reachable, StartInv, PhaseInv, StoreInv, ReadyInv,
      Loaded, Parsed, Valid, Wired, Bound
<1> QED
  BY <1>1, <1>2, <1>3 DEF ConnectClaims

LEMMA PingClaimsStep == ASSUME StartInv, PingClaims PROVE StartInv'
<1>1. CASE Reachable
  BY <1>1, SameSettings
  DEF PingClaims, Reachable, StartInv, PhaseInv, StoreInv, ReadyInv,
      Loaded, Parsed, Valid, Wired, Bound
<1>2. CASE ~Reachable
  BY <1>2, DownStep DEF PingClaims
<1> QED
  BY <1>1, <1>2

\* The nonce store is in memory only where Redis is unset or does not answer.
LEMMA ConnectNoncesStep == ASSUME StartInv, ConnectNonces PROVE StartInv'
<1>1. NonceStore = "memory" /\ env.redis = "set" => ~redisUp
  BY DEF NonceStore, Reachable
<1> QED
  BY <1>1, SameSettings
  DEF ConnectNonces, StartInv, PhaseInv, StoreInv, ReadyInv,
      Loaded, Parsed, Valid, Wired, Bound

LEMMA BindStep == ASSUME StartInv, Bind PROVE StartInv'
<1>1. CASE Down
  BY <1>1, DownStep
<1>2. CASE Continue("serving") /\ UNCHANGED claims
  BY <1>2, SameSettings
  DEF Bind, Continue, StartInv, PhaseInv, StoreInv, ReadyInv,
      Loaded, Parsed, Valid, Wired, Bound
<1> QED
  BY <1>1, <1>2 DEF Bind

\* The steps of a probe.
LEMMA ProbeStep == ASSUME StartInv, Readyz \/ Answer PROVE StartInv'
<1>1. PhaseInv' /\ StoreInv'
  BY SameSettings DEF Readyz, Answer, StartInv, PhaseInv, StoreInv
<1>2. ReadyInv'
  BY SameSettings DEF Readyz, Answer, StartInv, ReadyInv
<1> QED
  BY <1>1, <1>2 DEF StartInv

\* Redis fails or recovers behind the engine's back.
LEMMA RedisStep == ASSUME StartInv, RedisFails \/ RedisRecovers PROVE StartInv'
<1>1. PhaseInv' /\ ReadyInv'
  BY SameSettings DEF RedisFails, RedisRecovers, StartInv, PhaseInv, ReadyInv
<1>2. StoreInv'
  BY SameSettings DEF RedisFails, RedisRecovers, StartInv, StoreInv, Wired, Bound
<1> QED
  BY <1>1, <1>2 DEF StartInv

LEMMA StartStep == StartInv /\ [StartNext]_startVars => StartInv'
<1> SUFFICES ASSUME StartInv, [StartNext]_startVars PROVE StartInv'
  OBVIOUS
<1>1. CASE UNCHANGED startVars
  BY <1>1, SameSettings DEF startVars, StartInv, PhaseInv, StoreInv, ReadyInv
<1>2. CASE Crash
  BY <1>2, DownStep DEF Crash
<1> QED
  BY <1>1, <1>2, LaunchStep, FromEnvStep, ValidateStep, ConnectClaimsStep, PingClaimsStep,
     ConnectNoncesStep, BindStep, ProbeStep, RedisStep DEF StartNext

\* Each phase of start-up has what the phases before it checked, whatever Redis
\* did in between.
THEOREM StartInvariance == StartSpec => []StartInv
  BY StartInitial, StartStep, PTL DEF StartSpec

\* An engine that serves mainnet checks signatures, keeps its claims in Redis,
\* and has TLS attested or plaintext accepted.
THEOREM MainnetIsGuarded == StartSpec => []MainnetGuarded
<1>1. ASSUME StartInv, phase = "serving", Mainnet
      PROVE  /\ ~env.auth_disabled /\ HasKeys
             /\ claims = "redis"
             /\ env.transport \in {"tls", "insecure"}
  <2>1. ~env.auth_disabled /\ HasKeys /\ env.transport # "undeclared" /\ env \in Environment
    BY <1>1 DEF StartInv, PhaseInv, ValidatePanics, Loaded, Parsed, Valid
  <2>2. env.transport \in {"tls", "insecure", "undeclared"}
    BY <2>1 DEF Environment, Assignments
  <2>3. claims = "redis"
    BY <1>1 DEF StartInv, StoreInv, Wired
  <2> QED
    BY <2>1, <2>2, <2>3
<1>2. StartInv => MainnetGuarded
  BY <1>1 DEF MainnetGuarded
<1> QED
  BY <1>2, StartInvariance, PTL

\* What static_readiness finds wrong is all there is to find.
LEMMA NothingWrong ==
    ASSUME StaticFailures = {}
    PROVE  /\ ~WrongNetwork
           /\ Pinned(env.manifest) /\ Pinned(env.spec)
           /\ env.pool # "incomplete"
           /\ ~Backlog
<1> DEFINE wrong == [wrong_network |-> WrongNetwork,
                     wrong_manifest |-> ~Pinned(env.manifest),
                     unsupported_contract_spec |-> ~Pinned(env.spec),
                     contract_not_configured |-> env.pool = "incomplete",
                     reconciliation_backlog |-> Backlog]
<1>1. \A f \in DOMAIN wrong : ~wrong[f]
  BY DEF StaticFailures
<1>2. ~wrong.wrong_network /\ ~wrong.wrong_manifest /\ ~wrong.unsupported_contract_spec
      /\ ~wrong.contract_not_configured /\ ~wrong.reconciliation_backlog
  BY <1>1
<1> QED
  BY <1>2

\* An engine that /readyz calls ready has durable claims, what was expected of
\* release and contract, a pool, and a lag setting that the maximum admits; and it
\* is on the intended network if one of the two settings that name it was right.
THEOREM ReadyEnginesAreSafe == StartSpec => []ReadyIsSafe
<1>1. ASSUME StartInv, verdict = "ready"
      PROVE  /\ claims = "redis" /\ env.redis = "set"
             /\ env.manifest = "same" /\ env.spec = "same"
             /\ env.pool = "set"
             /\ env.lag = "within" \/ (env.lag = "unset" /\ env.lag_max = "largest")
             /\ env.intended \in {env.network, env.expected} => Network = env.intended
  <2>1. /\ phase = "serving" /\ claims = "redis" /\ StaticFailures = {}
        /\ env \in Environment /\ env.pool # "malformed" /\ env.redis = "set"
    BY <1>1 DEF StartInv, PhaseInv, StoreInv, ReadyInv, Loaded, Parsed, Wired
  <2>2. /\ env.intended \in Networks
        /\ env.pool \in {"incomplete", "set", "malformed"}
        /\ env.lag \in {"unset", "within", "beyond"}
        /\ env.lag_max \in {"bounded", "largest"}
    BY <2>1 DEF Environment, Assignments
  <2>3. /\ env.manifest = "same" /\ env.spec = "same" /\ env.pool = "set"
        /\ env.lag = "within" \/ (env.lag = "unset" /\ env.lag_max = "largest")
    BY <2>1, <2>2, NothingWrong DEF Pinned, Backlog
  <2>4. ParseNetwork(env.network) = ParseNetwork(env.expected)
    BY <2>1, NothingWrong DEF WrongNetwork, Network
  <2>5. env.intended \in {env.network, env.expected} => Network = env.intended
    BY <2>2, <2>4 DEF Network, ParseNetwork, Networks
  <2> QED
    BY <2>1, <2>3, <2>5
<1>2. StartInv => ReadyIsSafe
  BY <1>1 DEF ReadyIsSafe
<1> QED
  BY <1>2, StartInvariance, PTL

\* With Redis configured, nonces are kept in memory only after an outage that
\* began behind the check of the claim store.
THEOREM PrivateNoncesFollowOutage == StartSpec => []PrivateNoncesOnlyByOutage
<1>1. StartInv => PrivateNoncesOnlyByOutage
  BY DEF StartInv, StoreInv, PrivateNoncesOnlyByOutage
<1> QED
  BY <1>1, StartInvariance, PTL
=============================================================================
