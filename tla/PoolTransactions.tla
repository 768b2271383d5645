--------------------------- MODULE PoolTransactions ---------------------------
(***************************************************************************)
(* The life of a pool transaction: prepare builds, simulates and checks    *)
(* it, the client signs it, validate checks any transaction against the    *)
(* same policy, submit_transaction sends it and polls for its outcome.     *)
(* Every handler awaits Soroban RPC between its steps; the ledger and the  *)
(* clock move meanwhile.  One source account, whose sequence number orders *)
(* its transactions; the ledger and the RPC node are external.             *)
(***************************************************************************)
EXTENDS Integers

CONSTANTS Calls,         \* prepare requests
          Submits,       \* submit requests
          Reviews,       \* validate requests
          Deadlines, ResourceFees,  \* what requests and simulations may carry
          BaseFee, Ceiling,         \* POOL_BASE_FEE_STROOPS, POOL_FEE_CEILING_STROOPS
          FeeWidth,      \* the fee field is an integer modulo this (2^32)
          MaxPolls,
          MaxClock,      \* bound on time
          Foreign,       \* transactions that another program built
          Others,        \* sequence numbers other accounts have, None if unfunded
          None

ASSUME PoolAssumption ==
    /\ Deadlines \subseteq Nat /\ ResourceFees \subseteq Int
    /\ FeeWidth \in Nat /\ BaseFee \in 0..(FeeWidth - 1) /\ Ceiling \in 0..(FeeWidth - 1)
    /\ MaxPolls \in Nat \ {0} /\ MaxClock \in Nat
    /\ Others \subseteq Nat \cup {None}
    /\ None \notin Int \cup {"SUCCESS", "FAILED"}

VARIABLES clock,
          seq,      \* the account's sequence number, None while unfunded
          call,     \* call[c]: the state of a prepare request
          tx,       \* tx[c]: the transaction built for c
          submit,   \* submit[s]: the state of a submit request
          review,   \* review[v]: the state of a validate request
          pool,     \* the calls whose transaction the network holds
          fate      \* fate[c]: "SUCCESS" or "FAILED" once in a ledger

vars == <<clock, seq, call, tx, submit, review, pool, fate>>

Init ==
    /\ clock = 0
    /\ seq \in {None, 0}
    /\ call = [c \in Calls |-> [pc |-> "idle", deadline |-> 0, now |-> 0]]
    /\ tx = [c \in Calls |-> None]
    /\ submit = [s \in Submits |-> [pc |-> "idle", c |-> None, polls |-> 0, report |-> None]]
    /\ review = [v \in Reviews |-> [pc |-> "idle", t |-> None, now |-> 0, own |-> FALSE,
                                  spent |-> FALSE]]
    /\ pool = {}
    /\ fate = [c \in Calls |-> None]
-----------------------------------------------------------------------------
\* prepare

End(c, result) == call' = [call EXCEPT ![c].pc = result]

\* The argument encoding (amounts above i128::MAX), the declared network and
\* the deadline are checked before anything is read.
Prepare(c) ==
    /\ call[c].pc = "idle"
    /\ \E encodable, sameNetwork \in BOOLEAN, d \in Deadlines :
        IF encodable /\ sameNetwork /\ d > clock
        THEN call' = [call EXCEPT ![c] =
                        [pc |-> "reading", deadline |-> d, now |-> clock]]
        ELSE End(c, "refused")
    /\ UNCHANGED <<clock, seq, tx, submit, review, pool, fate>>

BoundlessEnvelope(sequence, deadline) ==
    [shape |-> TRUE, seq |-> sequence + 1, deadline |-> deadline,
     maxTime |-> MaxClock, fee |-> BaseFee]

\* build_invoke_envelope: the deadline is an argument and the time bound.
Envelope(sequence, deadline) ==
    [shape |-> TRUE, seq |-> sequence + 1, deadline |-> deadline,
     maxTime |-> deadline, fee |-> BaseFee]

ReadSequence(c) ==
    /\ call[c].pc = "reading"
    /\ \/ /\ seq # None
          /\ tx' = [tx EXCEPT ![c] = Envelope(seq, call[c].deadline)]
          /\ End(c, "simulating")
       \/ \* no such account, or the RPC call failed
          End(c, "refused") /\ UNCHANGED tx
    /\ UNCHANGED <<clock, seq, submit, review, pool, fate>>

FeeUnchecked(t, resourceFee) == TRUE

\* apply_simulation refuses a total outside 0..Ceiling, so its cast to u32
\* keeps the value.
FeeAccepted(t, resourceFee) == t.fee + resourceFee \in 0..Ceiling

AfterSimulation(t, resourceFee) == [t EXCEPT !.fee = (@ + resourceFee) % FeeWidth]

\* The policy of validate; expected is None when the account was not found.
NoSequenceCheck(t, now, expected) ==
    /\ t.shape
    /\ t.deadline > now
    /\ t.fee <= Ceiling

Policy(t, now, expected) ==
    /\ t.shape   \* one InvokeContract operation on the pool, known function
    /\ t.deadline > now
    /\ t.fee <= Ceiling
    /\ expected # None => t.seq = expected + 1

\* The simulation fails, asks for a restore, lacks its data or its fee; or it
\* succeeds, and the result goes through validate with the `now` and the
\* sequence read at the start.
Simulate(c) ==
    /\ call[c].pc = "simulating"
    /\ \/ End(c, "refused") /\ UNCHANGED tx
       \/ \E fee \in ResourceFees :
            IF FeeAccepted(tx[c], fee)
            THEN LET t == AfterSimulation(tx[c], fee)
                 IN /\ tx' = [tx EXCEPT ![c] = t]
                    /\ End(c, IF Policy(t, call[c].now, tx[c].seq - 1)
                              THEN "prepared" ELSE "self_check_failed")
            ELSE End(c, "refused") /\ UNCHANGED tx
    /\ UNCHANGED <<clock, seq, submit, review, pool, fate>>
-----------------------------------------------------------------------------
\* validate_transaction.  The request names the account whose sequence is read;
\* nothing compares it with the source account of the transaction.

Prepared == {c \in Calls : call[c].pc = "prepared"}

Validate(v) ==
    /\ review[v].pc = "idle"
    /\ \E own \in BOOLEAN :   \* the request names the transaction's own account
        \/ \E c \in Prepared :
             review' = [review EXCEPT ![v] =
                 [pc |-> "reading", t |-> tx[c], now |-> clock, own |-> own,
                  spent |-> fate[c] # None]]
        \/ \E t \in Foreign :
             review' = [review EXCEPT ![v] =
                 [pc |-> "reading", t |-> t, now |-> clock, own |-> own, spent |-> FALSE]]
    /\ UNCHANGED <<clock, seq, call, tx, submit, pool, fate>>

\* What the sequence of the named account may be.
Expected(v) == IF review[v].own THEN {seq} ELSE Others

\* That account's sequence arrives (or the RPC call fails) and the policy is
\* applied with the time the handler took at its start.
ReviewVerdict(v) ==
    /\ review[v].pc = "reading"
    /\ \/ \E expected \in Expected(v) :
            review' = [review EXCEPT ![v].pc =
                IF Policy(review[v].t, review[v].now, expected) THEN "valid" ELSE "invalid"]
       \/ review' = [review EXCEPT ![v].pc = "rpc_error"]
    /\ UNCHANGED <<clock, seq, call, tx, submit, pool, fate>>
-----------------------------------------------------------------------------
\* submit_transaction

Answer(s, result) == submit' = [submit EXCEPT ![s].pc = "done", ![s].report = result]

\* sendTransaction.  The node takes a transaction it could include; it knows
\* one it holds or has included; otherwise it answers with an error status.
\* The reply may be lost after the node took the transaction.
Send(s) ==
    /\ submit[s].pc = "idle"
    /\ \E c \in Prepared :
        LET fits == seq # None /\ tx[c].seq = seq + 1 /\ clock <= tx[c].maxTime
            known == c \in pool \/ fate[c] # None
            polling == submit' = [submit EXCEPT ![s] =
                        [pc |-> "polling", c |-> c, polls |-> 0, report |-> None]]
            failed == submit' = [submit EXCEPT ![s] =
                        [pc |-> "done", c |-> c, polls |-> 0, report |-> "error"]]
        IN \/ /\ fits /\ ~known
              /\ pool' = pool \cup {c}
              /\ polling \/ failed
           \/ known /\ polling /\ UNCHANGED pool
           \/ failed /\ UNCHANGED pool
    /\ UNCHANGED <<clock, seq, call, tx, review, fate>>

\* The ledger's answer for c: getTransaction may lag behind, or have
\* forgotten an old transaction.
Statuses(c) == {"NOT_FOUND"} \cup (IF fate[c] = None THEN {} ELSE {fate[c]})

GivesUpAsFailed(s, status) ==
    IF status # "NOT_FOUND" THEN Answer(s, status)
    ELSE IF submit[s].polls + 1 = MaxPolls THEN Answer(s, "FAILED")
    ELSE submit' = [submit EXCEPT ![s].polls = @ + 1]

\* After getTransaction: a status other than NOT_FOUND is the result, and
\* after MaxPolls the result is NOT_FOUND.
AfterPoll(s, status) ==
    IF status # "NOT_FOUND" THEN Answer(s, status)
    ELSE IF submit[s].polls + 1 = MaxPolls THEN Answer(s, "NOT_FOUND")
    ELSE submit' = [submit EXCEPT ![s].polls = @ + 1]

Poll(s) ==
    /\ submit[s].pc = "polling"
    /\ \/ \E status \in Statuses(submit[s].c) : AfterPoll(s, status)
       \/ Answer(s, "error")   \* the RPC call failed
    /\ UNCHANGED <<clock, seq, call, tx, review, pool, fate>>
-----------------------------------------------------------------------------
\* The network (external): a transaction that follows the sequence within its
\* time bound goes into a ledger; one that no longer can is dropped.

Include(c) ==
    /\ c \in pool
    /\ tx[c].seq = seq + 1
    /\ clock <= tx[c].maxTime
    /\ \E outcome \in {"SUCCESS", "FAILED"} : fate' = [fate EXCEPT ![c] = outcome]
    /\ seq' = seq + 1
    /\ pool' = pool \ {c}
    /\ UNCHANGED <<clock, call, tx, submit, review>>

Drop(c) ==
    /\ c \in pool
    /\ tx[c].seq # seq + 1 \/ clock > tx[c].maxTime
    /\ pool' = pool \ {c}
    /\ UNCHANGED <<clock, seq, call, tx, submit, review, fate>>

Tick ==
    /\ clock < MaxClock
    /\ clock' = clock + 1
    /\ UNCHANGED <<seq, call, tx, submit, review, pool, fate>>

Next ==
    \/ \E c \in Calls : Prepare(c) \/ ReadSequence(c) \/ Simulate(c)
    \/ \E v \in Reviews : Validate(v) \/ ReviewVerdict(v)
    \/ \E s \in Submits : Send(s) \/ Poll(s)
    \/ \E c \in Calls : Include(c) \/ Drop(c)
    \/ Tick

Spec == Init /\ [][Next]_vars
-----------------------------------------------------------------------------
\* However slow the RPC node, the client or the network, no transaction takes
\* effect after the deadline of the request that it was prepared for, nor with
\* a fee above the ceiling.
EffectWithinTerms ==
    [][\A c \in Calls : fate[c] # fate'[c] =>
        /\ clock <= call[c].deadline
        /\ tx[c].fee <= Ceiling]_vars

\* prepare's self-check accepts everything that the steps before it built:
\* no request dies there, whatever the simulation asked for and although the
\* clock and the account moved on meanwhile.
SelfCheckAgrees == \A c \in Calls : call[c].pc # "self_check_failed"

\* A transaction that was in a ledger when a validate request came in is never
\* declared valid, if the request names the transaction's own account.  (Under
\* another one, or one without funds, it may be: see ReviewVerdict.)
SpentIsStale ==
    \A v \in Reviews : review[v].spent /\ review[v].own => review[v].pc # "valid"

\* What a submit reports as final is what the ledger holds, for every one of
\* several concurrent submits of a transaction.
ReportIsFate ==
    \A s \in Submits :
        submit[s].report \in {"SUCCESS", "FAILED"} => fate[submit[s].c] = submit[s].report
=============================================================================
