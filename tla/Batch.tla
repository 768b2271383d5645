--------------------------------- MODULE Batch ---------------------------------
(***************************************************************************)
(* process_batch: every item is a task of a JoinSet that runs              *)
(* Engine::initiate; the handler joins them as they complete and sorts the *)
(* results.  A task that panics ends the join loop, and dropping the set   *)
(* aborts the tasks that still run; so does a client that goes away.       *)
(***************************************************************************)
EXTENDS Integers, Sequences, FiniteSets

CONSTANTS MaxBatch,      \* MAX_BATCH
          MaxItems,      \* bound on the size of the requests considered
          Settings       \* the values MAX_RETRY_ATTEMPTS may be given

ASSUME BatchAssumption ==
    MaxBatch \in Nat \ {0} /\ MaxItems \in Nat /\ Settings \subseteq Nat

VARIABLES maxAttempts,  \* the process's RetryConfig.max_attempts
          pc,       \* the handler
          total,    \* number of items
          task,     \* task[i]: what the task of item i is doing
          store,    \* store[i]: the status of item i's payment
          done,     \* the tasks that ended, in that order, not yet joined
          results, succeeded, failed

vars == <<maxAttempts, pc, total, task, store, done, results, succeeded, failed>>

Items == 1..MaxItems

Init ==
    /\ maxAttempts \in Settings
    /\ pc = "idle"
    /\ total = 0
    /\ task = [i \in Items |-> "none"]
    /\ store = [i \in Items |-> "none"]
    /\ done = <<>>
    /\ results = <<>>
    /\ succeeded = 0 /\ failed = 0

Refused(n) == n = 0 \/ n > MaxBatch

Submit(n) ==
    /\ pc = "idle"
    /\ IF Refused(n)
       THEN pc' = "rejected" /\ UNCHANGED <<total, task>>
       ELSE /\ pc' = "joining"
            /\ total' = n
            /\ task' = [i \in Items |-> IF i <= n THEN "started" ELSE "none"]
    /\ UNCHANGED <<maxAttempts, store, done, results, succeeded, failed>>
-----------------------------------------------------------------------------
\* The task of an item: Engine::initiate.

Ends(i, outcome) ==
    /\ task' = [task EXCEPT ![i] = outcome]
    /\ done' = Append(done, i)
    /\ UNCHANGED <<maxAttempts, pc, total, results, succeeded, failed>>

Invalid(i) ==
    /\ task[i] = "started"
    /\ Ends(i, "error")
    /\ UNCHANGED store

RouteFails(i) ==
    /\ task[i] = "started"
    /\ store' = [store EXCEPT ![i] = "Failed"]
    /\ Ends(i, "payment")

RouteFound(i) ==
    /\ task[i] = "started"
    /\ store' = [store EXCEPT ![i] = "Processing"]
    /\ task' = [task EXCEPT ![i] = "submitting"]
    /\ UNCHANGED <<maxAttempts, pc, total, done, results, succeeded, failed>>

\* retry returns after at least one attempt.
Settle(i) ==
    /\ task[i] = "submitting"
    /\ maxAttempts > 0
    /\ \E status \in {"Confirmed", "Failed"} : store' = [store EXCEPT ![i] = status]
    /\ Ends(i, "payment")

\* With no attempts allowed, retry's loop is empty and it runs into
\* unreachable!().
Panic(i) ==
    /\ task[i] = "submitting"
    /\ maxAttempts = 0
    /\ Ends(i, "panicked")
    /\ UNCHANGED store
-----------------------------------------------------------------------------
\* The handler.

Unsorted(r) == r

\* results.sort_by_key(index), which is stable: i comes before j with a smaller
\* index, or with the same one when it was there first.
Precedes(r, i, j) ==
    \/ r[i].index < r[j].index
    \/ r[i].index = r[j].index /\ i <= j
Position(r, j) == Cardinality({i \in DOMAIN r : Precedes(r, i, j)})
Sorted(r) == [k \in DOMAIN r |-> r[CHOOSE j \in DOMAIN r : Position(r, j) = k]]

\* The response is given, and the set is dropped with the tasks in it.
Return ==
    /\ pc' = "returned"
    /\ results' = Sorted(results)
    /\ task' = [i \in Items |->
                    IF task[i] \in {"started", "submitting"} THEN "aborted" ELSE task[i]]
    /\ UNCHANGED <<maxAttempts, total, store, done, succeeded, failed>>

\* join_next yields the next task that ended.
JoinNext ==
    /\ pc = "joining"
    /\ done # <<>>
    /\ LET i == Head(done)
       IN IF task[i] = "panicked" THEN Return
          ELSE /\ results' = Append(results, [index |-> i, paid |-> task[i] = "payment"])
               /\ succeeded' = succeeded + (IF task[i] = "payment" THEN 1 ELSE 0)
               /\ failed' = failed + (IF task[i] = "payment" THEN 0 ELSE 1)
               /\ done' = Tail(done)
               /\ UNCHANGED <<maxAttempts, pc, total, task, store>>

JoinedSome == results # <<>>
JoinedMax == Len(results) = MaxBatch

\* join_next yields None: every task was joined.
AllJoined == Len(results) = total

JoinEnds ==
    /\ pc = "joining"
    /\ AllJoined
    /\ Return

\* The client disconnects, and the handler's future is dropped.
Cancel ==
    /\ pc = "joining"
    /\ pc' = "cancelled"
    /\ task' = [i \in Items |->
                    IF task[i] \in {"started", "submitting"} THEN "aborted" ELSE task[i]]
    /\ UNCHANGED <<maxAttempts, total, store, done, results, succeeded, failed>>

TaskStep(i) == Invalid(i) \/ RouteFails(i) \/ RouteFound(i) \/ Settle(i) \/ Panic(i)

Next ==
    \/ \E n \in 0..MaxItems : Submit(n)
    \/ \E i \in Items : TaskStep(i)
    \/ JoinNext \/ JoinEnds \/ Cancel

Spec == Init /\ [][Next]_vars

\* Tasks are scheduled and the adapter's calls return; the handler is polled.
BatchFairness ==
    /\ \A i \in Items : WF_vars(TaskStep(i))
    /\ WF_vars(JoinNext) /\ WF_vars(JoinEnds)
-----------------------------------------------------------------------------
\* Even when a panic cut the batch short, a response never lists an item twice
\* or out of order, and an item listed with a payment has one that is settled.
ResponseTruthful ==
    pc = "returned" =>
        /\ \A i, j \in 1..Len(results) : i < j => results[i].index < results[j].index
        /\ \A i \in 1..Len(results) :
            results[i].paid <=> store[results[i].index] \in {"Confirmed", "Failed"}
        /\ succeeded + failed = Len(results)

\* When retry may make an attempt, a response accounts for every item once, in the order of the
\* request whatever order they ended in, its counts add up, and no payment of
\* the batch is left Processing behind it.
ResponseComplete ==
    pc = "returned" /\ maxAttempts > 0 =>
        /\ Len(results) = total
        /\ \A i \in 1..Len(results) :
            /\ results[i].index = i
            /\ results[i].paid <=> store[i] \in {"Confirmed", "Failed"}
        /\ succeeded + failed = total

\* Every accepted batch is answered, unless its client left.
BatchEnds == pc = "joining" ~> pc \in {"returned", "cancelled"}
=============================================================================
