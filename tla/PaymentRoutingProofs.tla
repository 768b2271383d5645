------------------------- MODULE PaymentRoutingProofs -------------------------
(***************************************************************************)
(* Proofs about routing and circuit breakers, for every number of          *)
(* payments, probes and adapters, every threshold and timeout.             *)
(***************************************************************************)
EXTENDS PaymentRouting, TLAPS

\* The breakers.  A closed breaker is below its threshold, so the capped
\* history and its own count never part.

Breaker == [mode : {"closed", "open", "half_open"}, failures : Nat, cool : Nat]

BreakerOK(b, n) ==
    IF b.mode = "closed" THEN b.failures = n /\ n < Threshold ELSE n = Threshold

BreakerInv ==
    /\ breaker \in [Adapters -> Breaker]
    /\ streak \in [Adapters -> Nat]
    /\ \A a \in Adapters : BreakerOK(breaker[a], streak[a])

LEMMA BreakerInit == Init => BreakerInv
  BY RoutingAssumption DEF Init, BreakerInv, Breaker, BreakerOK, Closed

LEMMA BreakerStates ==
    /\ \A n \in Nat : Closed(n) \in Breaker /\ Closed(n).mode = "closed" /\ Closed(n).failures = n
    /\ Open \in Breaker /\ Open.mode = "open"
    /\ HalfOpen \in Breaker /\ HalfOpen.mode = "half_open"
  BY RoutingAssumption DEF Closed, Open, HalfOpen, Breaker

\* One breaker moves to a state that fits its history.
LEMMA BreakerMoves ==
    ASSUME BreakerInv, NEW a, NEW b, NEW n,
           a \in Adapters => b \in Breaker /\ n \in Nat /\ BreakerOK(b, n),
           breaker' = [breaker EXCEPT ![a] = b], streak' = [streak EXCEPT ![a] = n]
    PROVE  BreakerInv'
<1>1. breaker' \in [Adapters -> Breaker] /\ streak' \in [Adapters -> Nat]
  BY DEF BreakerInv
<1>2. ASSUME NEW x \in Adapters PROVE BreakerOK(breaker'[x], streak'[x])
  <2>1. CASE x = a
    BY <2>1 DEF BreakerInv
  <2>2. CASE x # a
    BY <2>2 DEF BreakerInv
  <2> QED
    BY <2>1, <2>2
<1> QED
  BY <1>1, <1>2 DEF BreakerInv, BreakerOK

LEMMA AdmitKeeps == ASSUME BreakerInv, NEW a, Admit(a) PROVE BreakerInv'
<1> DEFINE b == IF breaker[a].mode = "open" THEN HalfOpen ELSE breaker[a]
<1>1. a \in Adapters => b \in Breaker /\ streak[a] \in Nat /\ BreakerOK(b, streak[a])
  BY BreakerStates DEF BreakerInv, BreakerOK
<1>2. breaker' = [breaker EXCEPT ![a] = b] /\ streak' = [streak EXCEPT ![a] = streak[a]]
  BY DEF Admit, BreakerInv
<1> HIDE DEF b
<1> QED
  BY <1>1, <1>2, BreakerMoves

LEMMA SuccessKeeps == ASSUME BreakerInv, NEW a, OnSuccess(a) PROVE BreakerInv'
<1>1. Closed(0) \in Breaker /\ BreakerOK(Closed(0), 0)
  BY BreakerStates, RoutingAssumption DEF BreakerOK
<1>2. breaker' = [breaker EXCEPT ![a] = Closed(0)] /\ streak' = [streak EXCEPT ![a] = 0]
  BY DEF OnSuccess, AfterSuccess
<1> QED
  BY <1>1, <1>2, BreakerMoves

LEMMA FailureKeeps == ASSUME BreakerInv, NEW a, OnFailure(a) PROVE BreakerInv'
<1> DEFINE b == AfterFailure(breaker[a])
           n == IF streak[a] < Threshold THEN streak[a] + 1 ELSE streak[a]
<1>1. ASSUME a \in Adapters PROVE b \in Breaker /\ n \in Nat /\ BreakerOK(b, n)
  <2>1. /\ breaker[a] \in Breaker /\ streak[a] \in Nat /\ BreakerOK(breaker[a], streak[a])
        /\ Threshold \in Nat
    BY <1>1, RoutingAssumption DEF BreakerInv
  <2>2. CASE breaker[a].mode = "closed"
    <3>1. streak[a] < Threshold /\ breaker[a].failures = streak[a] /\ n = streak[a] + 1
      BY <2>1, <2>2 DEF BreakerOK
    <3>2. b = IF streak[a] + 1 >= Threshold THEN Open ELSE Closed(streak[a] + 1)
      BY <2>2, <3>1 DEF AfterFailure
    <3>3. CASE streak[a] + 1 >= Threshold
      BY <2>1, <3>1, <3>2, <3>3, BreakerStates DEF BreakerOK
    <3>4. CASE streak[a] + 1 < Threshold
      <4>1. b = Closed(streak[a] + 1)
        BY <2>1, <3>2, <3>4
      <4> QED
        BY <2>1, <3>1, <3>4, <4>1, BreakerStates DEF BreakerOK
    <3> QED
      BY <2>1, <3>3, <3>4
  <2>3. CASE breaker[a].mode \in {"half_open", "open"}
    <3>1. streak[a] = Threshold /\ n = Threshold
      BY <2>1, <2>3 DEF BreakerOK
    <3>2. b \in {Open, breaker[a]} /\ b.mode # "closed"
      BY <2>3, BreakerStates DEF AfterFailure
    <3> QED
      BY <2>1, <3>1, <3>2, BreakerStates DEF BreakerOK
  <2> QED
    BY <2>1, <2>2, <2>3 DEF Breaker
<1>2. breaker' = [breaker EXCEPT ![a] = b] /\ streak' = [streak EXCEPT ![a] = n]
  BY DEF OnFailure
<1> HIDE DEF b, n
<1> QED
  BY <1>1, <1>2, BreakerMoves

LEMMA CoolKeeps == ASSUME BreakerInv, Tick PROVE BreakerInv'
<1>1. ASSUME NEW a \in Adapters
      PROVE  /\ breaker'[a] \in Breaker /\ breaker'[a].mode = breaker[a].mode
             /\ breaker'[a].failures = breaker[a].failures
  <2> DEFINE n == IF breaker[a].cool > 0 THEN breaker[a].cool - 1 ELSE 0
  <2>1. breaker[a] \in Breaker /\ n \in Nat
    BY DEF BreakerInv, Breaker
  <2>2. breaker'[a] = [breaker[a] EXCEPT !.cool = n]
    BY DEF Tick
  <2> HIDE DEF n
  <2> QED
    BY <2>1, <2>2 DEF Breaker
<1>2. streak' = streak /\ DOMAIN breaker' = Adapters /\ breaker' \in [Adapters -> Breaker]
  BY <1>1 DEF Tick
<1> QED
  BY <1>1, <1>2 DEF BreakerInv, BreakerOK

\* Every step that touches a breaker is one of these four.
LEMMA BreakerStep == BreakerInv /\ [Next]_vars => BreakerInv'
<1> SUFFICES ASSUME BreakerInv, [Next]_vars PROVE BreakerInv'
  OBVIOUS
<1>1. CASE breaker' = breaker /\ streak' = streak
  BY <1>1 DEF BreakerInv, BreakerOK
<1>2. CASE Tick
  BY <1>2, CoolKeeps
<1>3. ASSUME NEW p \in Payments, Start(p) \/ PaymentStep(p) \/ Abandon(p)
      PROVE  BreakerInv'
  BY <1>1, <1>3, AdmitKeeps, SuccessKeeps, FailureKeeps
  DEF Start, PaymentStep, CheckpointFails, Abandon, EstimateBlocked, EstimateCall, EstimateOk, EstimateErr,
      SubmitBlocked, SubmitCall, SubmitOk, SubmitErr
<1>4. ASSUME NEW q \in Probes, ProbeStep(q) \/ ProbeAbandoned(q) PROVE BreakerInv'
  BY <1>1, <1>4, AdmitKeeps, SuccessKeeps, FailureKeeps
  DEF ProbeStep, ProbeBlocked, ProbeCall, ProbeAnswer, ProbeAbandoned
<1> QED
  BY <1>1, <1>2, <1>3, <1>4 DEF Next, vars

\* CircuitBreaker counts exactly: closed, it holds the failures since the last
\* success; open or half open, there were at least Threshold of them, although
\* the verdicts of calls admitted in any earlier state arrive in any order.
THEOREM BreakersAreExact == Spec => []BreakerExact
<1>1. BreakerInv => BreakerExact
  BY DEF BreakerInv, BreakerOK, BreakerExact
<1> QED
  BY <1>1, BreakerInit, BreakerStep, PTL DEF Spec
-----------------------------------------------------------------------------
\* Why payments settle: a payment has only so many steps in it.

\* An upper bound on the steps of a payment at x that asks adapter i and has made
\* n attempts: two for each adapter not asked yet, two for each attempt left.
Steps(x, i, n) ==
    LET asks == 2 * (Len(AdapterSeq) - i)
        tries == 2 * (MaxAttempts - n)
    IN CASE x = "idle"       -> asks + tries + 1
         [] x = "estimate"   -> asks + tries + 2
         [] x = "estimating" -> asks + tries + 1
         [] x = "submit"     -> tries
         [] x = "submitting" -> tries - 1
         [] OTHER            -> 0

StepsLeft(p) == Steps(pc[p], idx[p], attempt[p])

Places == {"idle", "estimate", "estimating", "submit", "submitting",
           "confirmed", "failed", "abandoned"}

SettleInv ==
    /\ pc = [p \in Payments |-> pc[p]] /\ idx = [p \in Payments |-> idx[p]]
    /\ attempt = [p \in Payments |-> attempt[p]]
    /\ \A p \in Payments :
        /\ pc[p] \in Places /\ idx[p] \in Nat
        /\ pc[p] = "idle" => idx[p] = 0
        /\ pc[p] \in {"estimate", "estimating"} => idx[p] \in 1..Len(AdapterSeq)
        /\ attempt[p] \in Nat /\ attempt[p] < MaxAttempts
        /\ pc[p] \notin {"submit", "submitting"} => attempt[p] = 0

\* p stays where it is or comes nearer to its end.
Dwindles(p) ==
    \/ UNCHANGED <<pc[p], idx[p], attempt[p]>>
    \/ StepsLeft(p)' < StepsLeft(p)

\* No step, of the payment itself, of another or of a health check, gives a
\* payment more steps to make.
PaymentsDwindle == [][\A p \in Payments : Dwindles(p)]_vars

\* A payment never has more steps left than two for each adapter and attempt and
\* one to start with, and none only when it is settled or its handler is gone.
StepsBounded ==
    \A p \in Payments :
        /\ StepsLeft(p) \in 0..(2 * Len(AdapterSeq) + 2 * MaxAttempts + 1)
        /\ StepsLeft(p) = 0 <=> pc[p] \in {"confirmed", "failed", "abandoned"}

LEMMA SettleInit == Init => SettleInv
  BY RoutingAssumption DEF Init, SettleInv, Places

\* A payment whose place is left alone.
LEMMA OthersStay ==
    ASSUME SettleInv, NEW p \in Payments, NEW x, NEW i, NEW n,
           pc' = [pc EXCEPT ![p] = x], idx' = [idx EXCEPT ![p] = i],
           attempt' = [attempt EXCEPT ![p] = n]
    PROVE  /\ pc'[p] = x /\ idx'[p] = i /\ attempt'[p] = n
           /\ attempt' = [q \in Payments |-> attempt'[q]]
           /\ \A q \in Payments \ {p} :
                pc'[q] = pc[q] /\ idx'[q] = idx[q] /\ attempt'[q] = attempt[q]
  BY DEF SettleInv

\* What p's move has to satisfy.
LEMMA MoveDwindles ==
    ASSUME SettleInv, NEW p \in Payments, NEW x, NEW i, NEW n,
           pc' = [pc EXCEPT ![p] = x], idx' = [idx EXCEPT ![p] = i],
           attempt' = [attempt EXCEPT ![p] = n],
           x \in Places \ {"idle"}, i \in Nat,
           x \in {"estimate", "estimating"} => i \in 1..Len(AdapterSeq),
           n \in Nat, n < MaxAttempts, x \notin {"submit", "submitting"} => n = 0,
           StepsLeft(p)' < StepsLeft(p)
    PROVE  SettleInv' /\ \A q \in Payments : Dwindles(q)
  BY OthersStay DEF SettleInv, Dwindles

LEMMA StepsValue ==
    ASSUME NEW i, NEW n
    PROVE  /\ Steps("idle", i, n) = 2 * (Len(AdapterSeq) - i) + 2 * (MaxAttempts - n) + 1
           /\ Steps("estimate", i, n) = 2 * (Len(AdapterSeq) - i) + 2 * (MaxAttempts - n) + 2
           /\ Steps("estimating", i, n) = 2 * (Len(AdapterSeq) - i) + 2 * (MaxAttempts - n) + 1
           /\ Steps("submit", i, n) = 2 * (MaxAttempts - n)
           /\ Steps("submitting", i, n) = 2 * (MaxAttempts - n) - 1
           /\ Steps("confirmed", i, n) = 0 /\ Steps("failed", i, n) = 0
           /\ Steps("abandoned", i, n) = 0
  BY DEF Steps

\* Where p is and what it has left, as numbers.
LEMMA SettleFacts ==
    ASSUME SettleInv, NEW p \in Payments
    PROVE  /\ Len(AdapterSeq) \in Nat /\ MaxAttempts \in Nat /\ 0 < MaxAttempts
           /\ idx[p] \in Nat /\ attempt[p] \in Nat /\ attempt[p] < MaxAttempts
           /\ pc[p] = "idle" => idx[p] = 0
           /\ pc[p] \in {"estimate", "estimating"} => idx[p] \in 1..Len(AdapterSeq)
           /\ pc[p] \notin {"submit", "submitting"} => attempt[p] = 0
  BY RoutingAssumption DEF SettleInv

\* One adapter is done with.
LEMMA AdvanceDwindles ==
    ASSUME SettleInv, NEW p \in Payments, pc[p] \in {"idle", "estimate", "estimating"},
           NEW c, NextAdapter(p, c)
    PROVE  SettleInv' /\ \A q \in Payments : Dwindles(q)
<1>0. /\ Len(AdapterSeq) \in Nat /\ MaxAttempts \in Nat /\ 0 < MaxAttempts
      /\ idx[p] \in Nat /\ attempt[p] \in Nat /\ attempt[p] < MaxAttempts
      /\ pc[p] = "idle" => idx[p] = 0
      /\ pc[p] \in {"estimate", "estimating"} => idx[p] \in 1..Len(AdapterSeq)
      /\ attempt[p] = 0
  BY SettleFacts
<1>1. CASE idx[p] < Len(AdapterSeq)
  <2>1. /\ pc' = [pc EXCEPT ![p] = "estimate"] /\ idx' = [idx EXCEPT ![p] = idx[p] + 1]
        /\ attempt' = [attempt EXCEPT ![p] = attempt[p]] /\ attempt[p] = 0
    BY <1>0, <1>1 DEF NextAdapter, SettleInv
  <2>2. pc'[p] = "estimate" /\ idx'[p] = idx[p] + 1 /\ attempt'[p] = attempt[p]
    BY <2>1, OthersStay
  <2>3. StepsLeft(p)' < StepsLeft(p)
    <3>1. StepsLeft(p)' = 2 * (Len(AdapterSeq) - (idx[p] + 1)) + 2 * (MaxAttempts - attempt[p]) + 2
      BY <2>2, StepsValue DEF StepsLeft
    <3>2. \/ StepsLeft(p) = 2 * (Len(AdapterSeq) - idx[p]) + 2 * (MaxAttempts - attempt[p]) + 1
          \/ StepsLeft(p) = 2 * (Len(AdapterSeq) - idx[p]) + 2 * (MaxAttempts - attempt[p]) + 2
      BY StepsValue DEF StepsLeft
    <3> QED
      BY <1>0, <3>1, <3>2
  <2>4. idx[p] + 1 \in Nat /\ idx[p] + 1 \in 1..Len(AdapterSeq)
    BY <1>0, <1>1
  <2> QED
    BY <1>0, <2>1, <2>3, <2>4, MoveDwindles DEF Places
<1>2. CASE ~(idx[p] < Len(AdapterSeq)) /\ c = {}
  <2>1. /\ pc' = [pc EXCEPT ![p] = "failed"] /\ idx' = [idx EXCEPT ![p] = 0]
        /\ attempt' = [attempt EXCEPT ![p] = 0]
    BY <1>2 DEF NextAdapter, Ends
  <2>2. pc'[p] = "failed"
    BY <2>1, OthersStay
  <2>3. StepsLeft(p)' < StepsLeft(p)
    BY <1>0, <2>2, StepsValue DEF StepsLeft
  <2> QED
    BY <1>0, <2>1, <2>3, MoveDwindles DEF Places
<1>3. CASE ~(idx[p] < Len(AdapterSeq)) /\ c # {}
  <2>1. /\ pc' = [pc EXCEPT ![p] = "submit"] /\ idx' = [idx EXCEPT ![p] = idx[p]]
        /\ attempt' = [attempt EXCEPT ![p] = attempt[p]]
    BY <1>3 DEF NextAdapter, Select, SettleInv
  <2>2. pc'[p] = "submit" /\ idx'[p] = idx[p] /\ attempt'[p] = attempt[p]
    BY <2>1, OthersStay
  <2>3. StepsLeft(p)' < StepsLeft(p)
    BY <1>0, <1>3, <2>2, StepsValue DEF StepsLeft
  <2> QED
    BY <1>0, <2>1, <2>3, MoveDwindles DEF Places
<1> QED
  BY <1>1, <1>2, <1>3

\* An attempt failed, or was not let through.
LEMMA FailureDwindles ==
    ASSUME SettleInv, NEW p \in Payments, pc[p] \in {"submit", "submitting"}, AttemptFailed(p)
    PROVE  SettleInv' /\ \A q \in Payments : Dwindles(q)
<1>0. /\ Len(AdapterSeq) \in Nat /\ MaxAttempts \in Nat /\ 0 < MaxAttempts
      /\ idx[p] \in Nat /\ attempt[p] \in Nat /\ attempt[p] < MaxAttempts
  BY SettleFacts
<1>1. CASE attempt[p] + 1 >= MaxAttempts
  <2>1. /\ pc' = [pc EXCEPT ![p] = "failed"] /\ idx' = [idx EXCEPT ![p] = 0]
        /\ attempt' = [attempt EXCEPT ![p] = 0]
    BY <1>1 DEF AttemptFailed, Ends
  <2>2. pc'[p] = "failed"
    BY <2>1, OthersStay
  <2>3. StepsLeft(p)' < StepsLeft(p)
    BY <1>0, <2>2, StepsValue DEF StepsLeft
  <2> QED
    BY <1>0, <2>1, <2>3, MoveDwindles DEF Places
<1>2. CASE ~(attempt[p] + 1 >= MaxAttempts)
  <2>1. /\ pc' = [pc EXCEPT ![p] = "submit"] /\ idx' = [idx EXCEPT ![p] = idx[p]]
        /\ attempt' = [attempt EXCEPT ![p] = attempt[p] + 1]
    BY <1>2 DEF AttemptFailed, SettleInv
  <2>2. pc'[p] = "submit" /\ idx'[p] = idx[p] /\ attempt'[p] = attempt[p] + 1
    BY <2>1, OthersStay
  <2>3. StepsLeft(p)' < StepsLeft(p)
    BY <1>0, <2>2, StepsValue DEF StepsLeft
  <2>4. attempt[p] + 1 \in Nat /\ attempt[p] + 1 < MaxAttempts
    BY <1>0, <1>2
  <2> QED
    BY <1>0, <2>1, <2>3, <2>4, MoveDwindles DEF Places
<1> QED
  BY <1>1, <1>2

\* The other moves of a payment: a call goes out, or the chain took it.
LEMMA CallDwindles ==
    ASSUME SettleInv, NEW p \in Payments, EstimateCall(p) \/ SubmitCall(p) \/ SubmitOk(p)
    PROVE  SettleInv' /\ \A q \in Payments : Dwindles(q)
<1>0. /\ Len(AdapterSeq) \in Nat /\ MaxAttempts \in Nat /\ 0 < MaxAttempts
      /\ idx[p] \in Nat /\ attempt[p] \in Nat /\ attempt[p] < MaxAttempts
      /\ pc[p] \notin {"submit", "submitting"} => attempt[p] = 0
      /\ pc[p] \in {"estimate", "estimating"} => idx[p] \in 1..Len(AdapterSeq)
  BY SettleFacts
<1>1. CASE SubmitOk(p)
  <2>1. /\ pc' = [pc EXCEPT ![p] = "confirmed"] /\ idx' = [idx EXCEPT ![p] = 0]
        /\ attempt' = [attempt EXCEPT ![p] = 0] /\ pc[p] = "submitting"
    BY <1>1 DEF SubmitOk, Ends
  <2>2. pc'[p] = "confirmed"
    BY <2>1, OthersStay
  <2>3. StepsLeft(p)' < StepsLeft(p)
    BY <1>0, <2>1, <2>2, StepsValue DEF StepsLeft
  <2> QED
    BY <1>0, <2>1, <2>3, MoveDwindles DEF Places
<1>2. CASE EstimateCall(p) \/ SubmitCall(p)
  <2>1. PICK x : /\ pc' = [pc EXCEPT ![p] = x]
                 /\ \/ pc[p] = "estimate" /\ x = "estimating"
                    \/ pc[p] = "submit" /\ x = "submitting"
    BY <1>2 DEF EstimateCall, SubmitCall
  <2>2. idx' = [idx EXCEPT ![p] = idx[p]] /\ attempt' = [attempt EXCEPT ![p] = attempt[p]]
    BY <1>2 DEF EstimateCall, SubmitCall, SettleInv
  <2>3. pc'[p] = x /\ idx'[p] = idx[p] /\ attempt'[p] = attempt[p]
    BY <2>1, <2>2, OthersStay
  <2>4. StepsLeft(p)' < StepsLeft(p)
    BY <1>0, <2>1, <2>3, StepsValue DEF StepsLeft
  <2> QED
    BY <1>0, <2>1, <2>2, <2>4, MoveDwindles DEF Places
<1> QED
  BY <1>1, <1>2

\* A handler that ends without settling its payment has nothing left to do.
LEMMA AbandonDwindles ==
    ASSUME SettleInv, NEW p \in Payments, CheckpointFails(p) \/ Abandon(p)
    PROVE  SettleInv' /\ \A q \in Payments : Dwindles(q)
<1>0. /\ Len(AdapterSeq) \in Nat /\ MaxAttempts \in Nat /\ 0 < MaxAttempts
      /\ attempt[p] \in Nat /\ attempt[p] < MaxAttempts
      /\ pc[p] \in {"estimate", "estimating"} => idx[p] \in 1..Len(AdapterSeq)
  BY SettleFacts
<1>1. /\ pc[p] \in {"estimate", "estimating", "submit", "submitting"}
      /\ pc' = [pc EXCEPT ![p] = "abandoned"] /\ idx' = [idx EXCEPT ![p] = 0]
      /\ attempt' = [attempt EXCEPT ![p] = 0]
  BY DEF CheckpointFails, Abandon, Ends
<1>2. pc'[p] = "abandoned"
  BY <1>1, OthersStay
<1>3. StepsLeft(p)' < StepsLeft(p)
  <2>1. StepsLeft(p)' = 0
    BY <1>2, StepsValue DEF StepsLeft
  <2>2. CASE pc[p] \in {"estimate", "estimating"}
    BY <1>0, <2>1, <2>2, StepsValue DEF StepsLeft
  <2>3. CASE pc[p] \in {"submit", "submitting"}
    BY <1>0, <2>1, <2>3, StepsValue DEF StepsLeft
  <2> QED
    BY <1>1, <2>2, <2>3
<1> QED
  BY <1>0, <1>1, <1>3, MoveDwindles DEF Places

LEMMA SettleStep ==
    SettleInv /\ [Next]_vars => SettleInv' /\ \A p \in Payments : Dwindles(p)
<1> SUFFICES ASSUME SettleInv, [Next]_vars
             PROVE  SettleInv' /\ \A p \in Payments : Dwindles(p)
  OBVIOUS
<1>1. CASE UNCHANGED payment
  BY <1>1 DEF payment, SettleInv, Dwindles
<1>2. ASSUME NEW p \in Payments, Start(p) \/ PaymentStep(p) \/ Abandon(p)
      PROVE  SettleInv' /\ \A q \in Payments : Dwindles(q)
  <2>1. CASE Start(p) \/ EstimateBlocked(p) \/ EstimateOk(p) \/ EstimateErr(p)
    BY <2>1, AdvanceDwindles DEF Start, EstimateBlocked, EstimateOk, EstimateErr
  <2>2. CASE SubmitBlocked(p) \/ SubmitErr(p)
    BY <2>2, FailureDwindles DEF SubmitBlocked, SubmitErr
  <2>3. CASE EstimateCall(p) \/ SubmitCall(p) \/ SubmitOk(p)
    BY <2>3, CallDwindles
  <2>4. CASE CheckpointFails(p) \/ Abandon(p)
    BY <2>4, AbandonDwindles
  <2> QED
    BY <1>2, <2>1, <2>2, <2>3, <2>4 DEF PaymentStep
<1>3. ASSUME NEW q \in Probes, ProbeStep(q) \/ ProbeAbandoned(q) PROVE UNCHANGED payment
  BY <1>3 DEF ProbeStep, ProbeBlocked, ProbeCall, ProbeAnswer, ProbeAbandoned
<1> QED
  BY <1>1, <1>2, <1>3 DEF Next, Tick, vars, payment

\* A payment settles, or its handler is dropped, after at most two steps for
\* each adapter and for each attempt, whatever the breakers, the adapters and other payments do: PaymentsSettle
\* but for the fairness that lets it take them.
THEOREM PaymentsRunOut == Spec => []StepsBounded /\ PaymentsDwindle
<1>1. SettleInv => StepsBounded
  <2> SUFFICES ASSUME SettleInv, NEW p \in Payments
               PROVE  /\ StepsLeft(p) \in 0..(2 * Len(AdapterSeq) + 2 * MaxAttempts + 1)
                      /\ StepsLeft(p) = 0 <=> pc[p] \in {"confirmed", "failed", "abandoned"}
    BY DEF StepsBounded
  <2>1. pc[p] \in Places
    BY DEF SettleInv
  <2>2. /\ Len(AdapterSeq) \in Nat /\ MaxAttempts \in Nat
        /\ idx[p] \in Nat /\ attempt[p] \in Nat /\ attempt[p] < MaxAttempts
        /\ pc[p] = "idle" => idx[p] = 0
        /\ pc[p] \in {"estimate", "estimating"} => idx[p] \in 1..Len(AdapterSeq)
    BY SettleFacts
  <2>3. CASE pc[p] \in {"idle", "estimate", "estimating"}
    <3> DEFINE asks == Len(AdapterSeq) - idx[p]
               tries == MaxAttempts - attempt[p]
    <3>1. asks \in 0..Len(AdapterSeq) /\ tries \in 1..MaxAttempts
      BY <2>2, <2>3
    <3>2. pc[p] # "idle" => asks + 1 <= Len(AdapterSeq)
      BY <2>2, <2>3
    <3>3. /\ pc[p] = "estimate" => StepsLeft(p) = 2 * asks + 2 * tries + 2
          /\ pc[p] # "estimate" => StepsLeft(p) = 2 * asks + 2 * tries + 1
      BY <2>3, StepsValue DEF StepsLeft
    <3> HIDE DEF asks, tries
    <3>4. StepsLeft(p) \in 1..(2 * Len(AdapterSeq) + 2 * MaxAttempts + 1)
      BY <2>2, <2>3, <3>1, <3>2, <3>3
    <3> QED
      BY <2>2, <2>3, <3>4
  <2>4. CASE pc[p] \in {"submit", "submitting"}
    BY <2>2, <2>4, StepsValue DEF StepsLeft
  <2>5. CASE pc[p] \in {"confirmed", "failed", "abandoned"}
    BY <2>2, <2>5, StepsValue DEF StepsLeft
  <2> QED
    BY <2>1, <2>3, <2>4, <2>5 DEF Places
<1>2. Spec => []SettleInv
  BY SettleInit, SettleStep, PTL DEF Spec
<1>3. SettleInv /\ [Next]_vars => [\A p \in Payments : Dwindles(p)]_vars
  BY SettleStep
<1> QED
  BY <1>1, <1>2, <1>3, PTL DEF Spec, PaymentsDwindle
=============================================================================
