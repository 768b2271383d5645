---------------------------- MODULE PaymentRouting ----------------------------
(***************************************************************************)
(* How a payment reaches a chain: Router::select asks every adapter for a  *)
(* fee estimate through its CircuitBreaker, picks a best one, and retry    *)
(* submits to it, again through the breaker.  Payments and health probes   *)
(* (Router::all_fees) run concurrently and share the breakers; between a   *)
(* breaker's check and its verdict lies the await on the adapter.          *)
(***************************************************************************)
EXTENDS Integers, Sequences

CONSTANTS Payments,
          Probes,       \* concurrent health checks
          AdapterSeq,   \* the registered adapters, in order
          Threshold,    \* failure_threshold
          Reset,        \* reset_timeout in ticks
          MaxAttempts,  \* RetryConfig.max_attempts
          Fresh,        \* Fresh[a]: a's chain closed a ledger within 30 s
          NoRoute       \* the route of a payment that has none yet

Adapters == {AdapterSeq[i] : i \in 1..Len(AdapterSeq)}

ASSUME RoutingAssumption ==
    /\ Threshold \in Nat \ {0} /\ Reset \in Nat /\ MaxAttempts \in Nat \ {0}
    /\ Fresh \in [Adapters -> BOOLEAN] /\ NoRoute \notin Adapters
    /\ AdapterSeq \in Seq(Adapters)

VARIABLES breaker,   \* breaker[a]: the breaker's state
          pc, idx, cands, route, attempt,  \* per payment
          probe,     \* probe[q]: the call q is about to make or awaits
          at,        \* at[q]: position of q in AdapterSeq
          up,        \* up[q]: the adapters q found available in this pass
          report,    \* report[q]: the outcome of q's last health check
          streak     \* history: failures of a since its last success, capped

vars == <<breaker, pc, idx, cands, route, attempt, probe, at, up, report, streak>>
payment == <<pc, idx, cands, route, attempt>>
checks == <<probe, at, up, report>>

Closed(n) == [mode |-> "closed", failures |-> n, cool |-> 0]
Open == [mode |-> "open", failures |-> 0, cool |-> Reset]
HalfOpen == [mode |-> "half_open", failures |-> 0, cool |-> 0]

Init ==
    /\ breaker = [a \in Adapters |-> Closed(0)]
    /\ pc = [p \in Payments |-> "idle"]
    /\ idx = [p \in Payments |-> 0]
    /\ cands = [p \in Payments |-> {}]
    /\ route = [p \in Payments |-> NoRoute]
    /\ attempt = [p \in Payments |-> 0]
    /\ probe = [q \in Probes |-> "ready"]
    /\ at = [q \in Probes |-> 1]
    /\ up = [q \in Probes |-> {}]
    /\ report = [q \in Probes |-> "none"]
    /\ streak = [a \in Adapters |-> 0]
-----------------------------------------------------------------------------
\* The breaker.

Blocked(a) == breaker[a].mode = "open" /\ breaker[a].cool > 0

\* check_and_transition lets the call through: a half-open breaker admits
\* every caller, an open one turns half-open when its timeout has passed.
Admit(a) ==
    /\ ~Blocked(a)
    /\ breaker' = [breaker EXCEPT ![a] =
                      IF breaker[a].mode = "open" THEN HalfOpen ELSE breaker[a]]
    /\ UNCHANGED streak

KeepsCount(b) == IF b.mode = "closed" THEN b ELSE Closed(0)
AfterSuccess(b) == Closed(0)

AfterFailure(b) ==
    CASE b.mode = "closed"    -> IF b.failures + 1 >= Threshold THEN Open
                                 ELSE Closed(b.failures + 1)
      [] b.mode = "half_open" -> Open
      [] b.mode = "open"      -> b

OnSuccess(a) ==
    /\ breaker' = [breaker EXCEPT ![a] = AfterSuccess(@)]
    /\ streak' = [streak EXCEPT ![a] = 0]

OnFailure(a) ==
    /\ breaker' = [breaker EXCEPT ![a] = AfterFailure(@)]
    /\ streak' = [streak EXCEPT ![a] = IF @ < Threshold THEN @ + 1 ELSE @]
-----------------------------------------------------------------------------
\* The router.

\* The handler ends and its locals are gone; the payment has its final status
\* "confirmed" or "failed", or is "abandoned" as it is.
Ends(p, status) ==
    /\ pc' = [pc EXCEPT ![p] = status]
    /\ idx' = [idx EXCEPT ![p] = 0]
    /\ cands' = [cands EXCEPT ![p] = {}]
    /\ route' = [route EXCEPT ![p] = NoRoute]
    /\ attempt' = [attempt EXCEPT ![p] = 0]

\* The candidates are sorted by their scores and the first one is taken.  A
\* score is a floating-point number made of the urgency and of an estimate that
\* may differ with every call, so any of the candidates can be the best.
Select(p, c) ==
    /\ \E a \in c : route' = [route EXCEPT ![p] = a]
    /\ pc' = [pc EXCEPT ![p] = "submit"]
    /\ cands' = [cands EXCEPT ![p] = {}]
    /\ UNCHANGED <<idx, attempt>>

\* One adapter is done with; c are the candidates so far.  After the last
\* one the route is chosen, or the payment fails for want of one.
NextAdapter(p, c) ==
    IF idx[p] < Len(AdapterSeq)
    THEN /\ idx' = [idx EXCEPT ![p] = @ + 1]
         /\ pc' = [pc EXCEPT ![p] = "estimate"]
         /\ cands' = [cands EXCEPT ![p] = c]
         /\ UNCHANGED <<route, attempt>>
    ELSE IF c = {} THEN Ends(p, "failed") ELSE Select(p, c)

Start(p) ==
    /\ pc[p] = "idle"
    /\ NextAdapter(p, {})
    /\ UNCHANGED <<breaker, streak, checks>>

Asked(p) == AdapterSeq[idx[p]]

EstimateBlocked(p) ==
    /\ pc[p] = "estimate"
    /\ Blocked(Asked(p))
    /\ NextAdapter(p, cands[p])
    /\ UNCHANGED <<breaker, streak, checks>>

EstimateCall(p) ==
    /\ pc[p] = "estimate"
    /\ Admit(Asked(p))
    /\ pc' = [pc EXCEPT ![p] = "estimating"]
    /\ UNCHANGED <<idx, cands, route, attempt, checks>>

EstimateOk(p) ==
    /\ pc[p] = "estimating"
    /\ OnSuccess(Asked(p))
    /\ NextAdapter(p, cands[p] \cup {Asked(p)})
    /\ UNCHANGED checks

EstimateErr(p) ==
    /\ pc[p] = "estimating"
    /\ OnFailure(Asked(p))
    /\ NextAdapter(p, cands[p])
    /\ UNCHANGED checks
-----------------------------------------------------------------------------
\* retry around adapter.submit.

RetriesForever(p) ==
    /\ pc' = [pc EXCEPT ![p] = "submit"]
    /\ UNCHANGED <<idx, cands, route, attempt>>

\* The attempt of p failed: the last one is final, else sleep and try again.
AttemptFailed(p) ==
    IF attempt[p] + 1 >= MaxAttempts THEN Ends(p, "failed")
    ELSE /\ attempt' = [attempt EXCEPT ![p] = @ + 1]
         /\ pc' = [pc EXCEPT ![p] = "submit"]
         /\ UNCHANGED <<idx, cands, route>>

SubmitBlocked(p) ==
    /\ pc[p] = "submit"
    /\ Blocked(route[p])
    /\ AttemptFailed(p)
    /\ UNCHANGED <<breaker, streak, checks>>

SubmitCall(p) ==
    /\ pc[p] = "submit"
    /\ Admit(route[p])
    /\ pc' = [pc EXCEPT ![p] = "submitting"]
    /\ UNCHANGED <<idx, cands, route, attempt, checks>>

SubmitOk(p) ==
    /\ pc[p] = "submitting"
    /\ OnSuccess(route[p])
    /\ Ends(p, "confirmed")
    /\ UNCHANGED checks

SubmitErr(p) ==
    /\ pc[p] = "submitting"
    /\ OnFailure(route[p])
    /\ AttemptFailed(p)
    /\ UNCHANGED checks

\* The checkpoint before the first attempt is refused or fails: the handler
\* returns the error and the stored payment stays Processing.
CheckpointFails(p) ==
    /\ pc[p] = "submit" /\ attempt[p] = 0
    /\ Ends(p, "abandoned")
    /\ UNCHANGED <<breaker, streak, checks>>

\* The client goes away and the handler's future is dropped where it waits: for
\* a breaker's lock, for the adapter, or between two attempts.  The breaker gets
\* no verdict, and a payment that was stored stays Processing.
Abandon(p) ==
    /\ pc[p] \in {"estimate", "estimating", "submit", "submitting"}
    /\ Ends(p, "abandoned")
    /\ UNCHANGED <<breaker, streak, checks>>
-----------------------------------------------------------------------------
\* Engine::health: Router::all_fees over every adapter, then the claim store.
\* The health endpoints may be polled at any time, one check after the other.

Target(q) == AdapterSeq[at[q]]

\* StellarAdapter::is_ready, the freshness test.  CircuitBreaker overrides
\* submit, fee_estimate, is_confirmed and name, but not is_ready: what all_fees
\* calls is the trait's default, a fee estimate through the breaker, and
\* nothing below reaches this definition.
AdapterReady(a) == Fresh[a]

\* The checks of an adapter: "ready" asks is_ready, "fees_up" and "fees_down"
\* ask fee_estimate with is_ready's answer in hand; both are estimates.
Awaiting(stage) ==
    CASE stage = "ready"     -> "await_ready"
      [] stage = "fees_up"   -> "await_fees_up"
      [] stage = "fees_down" -> "await_fees_down"

\* q learns whether the estimate succeeded and moves to its next call; after
\* the last adapter the claim store is pinged and the status reported.
ProbeAdvance(q, stage, ok) ==
    IF stage = "ready"
    THEN /\ probe' = [probe EXCEPT ![q] = IF ok THEN "fees_up" ELSE "fees_down"]
         /\ UNCHANGED <<at, up, report>>
    ELSE LET found == IF stage = "fees_up" /\ ok THEN up[q] \cup {Target(q)} ELSE up[q]
         IN /\ probe' = [probe EXCEPT ![q] = "ready"]
            /\ IF at[q] < Len(AdapterSeq)
               THEN /\ at' = [at EXCEPT ![q] = @ + 1]
                    /\ up' = [up EXCEPT ![q] = found]
                    /\ UNCHANGED report
               ELSE /\ at' = [at EXCEPT ![q] = 1]
                    /\ up' = [up EXCEPT ![q] = {}]
                    /\ \E durable \in BOOLEAN :
                        report' = [report EXCEPT ![q] =
                            IF found # {} /\ durable THEN "ready" ELSE "not_ready"]

ProbeBlocked(q) ==
    /\ probe[q] \in {"ready", "fees_up", "fees_down"}
    /\ Blocked(Target(q))
    /\ ProbeAdvance(q, probe[q], FALSE)
    /\ UNCHANGED <<breaker, streak, payment>>

ProbeCall(q) ==
    /\ probe[q] \in {"ready", "fees_up", "fees_down"}
    /\ Admit(Target(q))
    /\ probe' = [probe EXCEPT ![q] = Awaiting(@)]
    /\ UNCHANGED <<payment, at, up, report>>

ProbeAnswer(q) ==
    \E stage \in {"ready", "fees_up", "fees_down"} :
        /\ probe[q] = Awaiting(stage)
        /\ \/ OnSuccess(Target(q)) /\ ProbeAdvance(q, stage, TRUE)
           \/ OnFailure(Target(q)) /\ ProbeAdvance(q, stage, FALSE)
        /\ UNCHANGED payment

\* Whoever polled goes away: the check is dropped where it waits, and the next
\* one begins with the first adapter.
ProbeAbandoned(q) ==
    /\ probe[q] # "ready" \/ at[q] > 1
    /\ probe' = [probe EXCEPT ![q] = "ready"]
    /\ at' = [at EXCEPT ![q] = 1]
    /\ up' = [up EXCEPT ![q] = {}]
    /\ UNCHANGED <<breaker, streak, payment, report>>
-----------------------------------------------------------------------------
Tick ==
    /\ \E a \in Adapters : breaker[a].cool > 0
    /\ breaker' = [a \in Adapters |->
                    [breaker[a] EXCEPT !.cool = IF @ > 0 THEN @ - 1 ELSE 0]]
    /\ UNCHANGED <<payment, checks, streak>>

PaymentStep(p) ==
    \/ EstimateBlocked(p) \/ EstimateCall(p) \/ EstimateOk(p) \/ EstimateErr(p)
    \/ SubmitBlocked(p) \/ SubmitCall(p) \/ SubmitOk(p) \/ SubmitErr(p)
    \/ CheckpointFails(p)

ProbeStep(q) == ProbeBlocked(q) \/ ProbeCall(q) \/ ProbeAnswer(q)

Next ==
    \/ \E p \in Payments : Start(p) \/ PaymentStep(p) \/ Abandon(p)
    \/ \E q \in Probes : ProbeStep(q) \/ ProbeAbandoned(q)
    \/ Tick

Spec == Init /\ [][Next]_vars

\* A handler that was not dropped is polled and its calls return (every HTTP
\* client has a timeout), time passes, and readiness is polled for as long as
\* the process runs.  Nothing is assumed about who goes away when.
Fairness ==
    /\ \A p \in Payments : WF_vars(PaymentStep(p))
    /\ \A q \in Probes : WF_vars(ProbeStep(q))
    /\ WF_vars(Tick)

FairSpec == Spec /\ Fairness
-----------------------------------------------------------------------------
\* The breaker is exact under concurrency: a closed breaker counts precisely
\* the failures reported since the last success, and a breaker is open or
\* half open only after Threshold failures with no success between them,
\* although verdicts of calls admitted in earlier states arrive at any time.
BreakerExact ==
    \A a \in Adapters :
        IF breaker[a].mode = "closed" THEN breaker[a].failures = streak[a]
        ELSE streak[a] = Threshold

\* A payment whose handler goes on reaches Confirmed or Failed: neither an open
\* breaker nor failing adapters, nor the handlers that are dropped around it and
\* leave breakers without their verdicts, can hold it for ever.  (The payment of
\* a dropped handler stays as it was stored.)
PaymentsSettle ==
    \A p \in Payments : []<>(pc[p] \in {"idle", "confirmed", "failed", "abandoned"})


\* operations/runbook.md: the readiness probe takes the instance out of
\* traffic when provider freshness is unsafe.  A check that reports ready
\* has an adapter with a fresh ledger behind it.
ReadyMeansFresh ==
    (\E q \in Probes : report[q] = "ready") => \E a \in Adapters : AdapterReady(a)
=============================================================================
