------------------------------ MODULE RateLimiter ------------------------------
(***************************************************************************)
(* The fixed-window limiter of rate_limit.rs.  Each "workload:scope" key   *)
(* has a bucket, handled under the map's entry lock, so allow is one step. *)
(* Time is in ticks; a bucket remembers how long ago its window began.     *)
(***************************************************************************)
EXTENDS Integers

CONSTANTS Keys,    \* key id and scope of the requests
          Limit,   \* Limit[k]: the budget of k's scope
          Window,
          None

ASSUME LimiterAssumption ==
    /\ Limit \in [Keys -> Nat] /\ Window \in Nat \ {0}
    /\ None # "rate_limited" /\ None \notin [age : Nat, count : Nat]

VARIABLES bucket,    \* bucket[k]: None before the first request of k
          admitted,  \* history: admitted[k][i] were let through less than i ticks ago
          answer     \* answer[k]: what the last request of k got

vars == <<bucket, admitted, answer>>

Recent(k) == admitted[k][Window]

Init ==
    /\ bucket = [k \in Keys |-> None]
    /\ admitted = [k \in Keys |-> [i \in 1..Window |-> 0]]
    /\ answer = [k \in Keys |-> None]

KeepsStart(b) == IF b = None THEN [age |-> 0, count |-> 0]
                 ELSE IF b.age >= Window THEN [b EXCEPT !.count = 0]
                 ELSE b

KeepsCount(b) == IF b = None THEN [age |-> 0, count |-> 0]
                 ELSE IF b.age >= Window THEN [b EXCEPT !.age = 0]
                 ELSE b

\* The bucket a request finds: inserted when missing, restarted when its
\* window is over.
Current(b) == IF b = None \/ b.age >= Window THEN [age |-> 0, count |-> 0] ELSE b

Exhausted(b, k) == b.count >= Limit[k]

Request(k) ==
    LET b == Current(bucket[k])
    IN IF Exhausted(b, k)
       THEN /\ bucket' = [bucket EXCEPT ![k] = b]
            /\ answer' = [answer EXCEPT ![k] = "rate_limited"]
            /\ UNCHANGED admitted
       ELSE /\ bucket' = [bucket EXCEPT ![k] = [b EXCEPT !.count = @ + 1]]
            /\ answer' = [answer EXCEPT ![k] = "run"]
            /\ admitted' = [admitted EXCEPT ![k] = [i \in 1..Window |-> @[i] + 1]]

\* elapsed() grows for ever; beyond Window its value makes no difference.
Tick ==
    /\ bucket' = [k \in Keys |->
                    IF bucket[k] = None THEN None
                    ELSE [bucket[k] EXCEPT !.age = IF @ < Window THEN @ + 1 ELSE @]]
    /\ admitted' = [k \in Keys |-> [i \in 1..Window |->
                        IF i = 1 THEN 0 ELSE admitted[k][i - 1]]]
    /\ answer' = [k \in Keys |-> None]

Next == Tick \/ \E k \in Keys : Request(k)

Spec == Init /\ [][Next]_vars
-----------------------------------------------------------------------------
\* A workload gets at most twice its budget in any stretch of one window:
\* the end of one fixed window and the start of the next can both be full.
BurstBounded == \A k \in Keys : Recent(k) <= 2 * Limit[k]

\* A request is turned away only if its own key used up the budget within the
\* last window, whatever the other keys did and however the windows fell.
RefusalDeserved == \A k \in Keys : answer[k] = "rate_limited" => Recent(k) >= Limit[k]
=============================================================================
