------------------------ MODULE PoolTransactionsProofs ------------------------
(***************************************************************************)
(* Proofs about the life of pool transactions, for every number of calls,  *)
(* submits and reviews, every deadline, fee, ceiling and clock.            *)
(***************************************************************************)
EXTENDS PoolTransactions, TLAPS

Transactions == [shape : {TRUE}, seq : Nat, deadline : Nat, maxTime : Nat, fee : Nat]
CallRecord == [pc : {"idle", "reading", "simulating", "prepared", "refused"},
               deadline : Nat, now : Nat]
SubmitRecord == [pc : {"idle", "polling", "done"}, c : Calls \cup {None}, polls : Nat,
                 report : {None, "error", "NOT_FOUND", "SUCCESS", "FAILED"}]
ReviewRecord == [pc : {"idle", "reading", "valid", "invalid", "rpc_error"},
                 t : Transactions \cup Foreign \cup {None}, now : Nat,
                 own : BOOLEAN, spent : BOOLEAN]

PoolTypes ==
    /\ clock \in Nat
    /\ seq \in Nat \cup {None}
    /\ call \in [Calls -> CallRecord]
    /\ tx \in [Calls -> Transactions \cup {None}]
    /\ submit \in [Submits -> SubmitRecord]
    /\ review \in [Reviews -> ReviewRecord]
    /\ pool \subseteq Calls
    /\ fate \in [Calls -> {None, "SUCCESS", "FAILED"}]

\* What prepare has established at each of its positions.
CallOK(c) ==
    /\ call[c].pc \in {"reading", "simulating"} => call[c].now < call[c].deadline
    /\ call[c].pc = "simulating" =>
         /\ tx[c] \in Transactions /\ tx[c].fee = BaseFee
         /\ tx[c].deadline = call[c].deadline /\ tx[c].maxTime = call[c].deadline
    /\ call[c].pc = "prepared" =>
         /\ tx[c] \in Transactions
         /\ tx[c].maxTime = call[c].deadline /\ tx[c].fee <= Ceiling

\* Only prepared transactions reach the network, a pending one has no fate,
\* and the account has left the sequence number of an included one behind.
LedgerOK(c) ==
    /\ c \in pool => call[c].pc = "prepared" /\ fate[c] = None /\ seq # None
    /\ fate[c] # None => call[c].pc = "prepared" /\ seq # None /\ tx[c].seq <= seq

ReviewOK(v) ==
    review[v].spent =>
        /\ seq # None /\ review[v].t \in Transactions /\ review[v].t.seq <= seq
        /\ review[v].own => review[v].pc # "valid"

SubmitOK(s) ==
    /\ submit[s].pc = "polling" => submit[s].c \in Calls
    /\ submit[s].report \in {"SUCCESS", "FAILED"} =>
         submit[s].c \in Calls /\ fate[submit[s].c] = submit[s].report

PoolInv ==
    /\ PoolTypes
    /\ \A c \in Calls : CallOK(c) /\ LedgerOK(c)
    /\ \A v \in Reviews : ReviewOK(v)
    /\ \A s \in Submits : SubmitOK(s)
-----------------------------------------------------------------------------
LEMMA PoolInit == Init => PoolInv
<1> SUFFICES ASSUME Init PROVE PoolInv
  OBVIOUS
<1>1. PoolTypes
  BY DEF Init, PoolTypes, CallRecord, SubmitRecord, ReviewRecord
<1>2. \A c \in Calls : CallOK(c) /\ LedgerOK(c)
  BY DEF Init, CallOK, LedgerOK
<1>3. \A v \in Reviews : ReviewOK(v)
  BY DEF Init, ReviewOK
<1>4. \A s \in Submits : SubmitOK(s)
  BY PoolAssumption DEF Init, SubmitOK
<1> QED
  BY <1>1, <1>2, <1>3, <1>4 DEF PoolInv

\* A step of prepare for c that touches nothing else.
LEMMA CallKeeps ==
    ASSUME PoolInv, NEW c \in Calls, call[c].pc \in {"idle", "reading", "simulating"},
           NEW f \in CallRecord, call' = [call EXCEPT ![c] = f],
           NEW t \in Transactions \cup {None}, tx' = [tx EXCEPT ![c] = t],
           UNCHANGED <<clock, seq, submit, review, pool, fate>>, CallOK(c)'
    PROVE  PoolInv'
<1>1. PoolTypes'
  BY DEF PoolInv, PoolTypes
<1>2. ASSUME NEW d \in Calls PROVE CallOK(d)' /\ LedgerOK(d)'
  <2>1. CASE d = c
    BY <2>1 DEF PoolInv, LedgerOK
  <2>2. CASE d # c
    <3>1. call'[d] = call[d] /\ tx'[d] = tx[d]
      BY <2>2 DEF PoolInv, PoolTypes
    <3> QED
      BY <3>1 DEF PoolInv, CallOK, LedgerOK
  <2> QED
    BY <2>1, <2>2
<1>3. ASSUME NEW v \in Reviews PROVE ReviewOK(v)'
  BY DEF PoolInv, ReviewOK
<1>4. ASSUME NEW s \in Submits PROVE SubmitOK(s)'
  BY DEF PoolInv, SubmitOK
<1> QED
  BY <1>1, <1>2, <1>3, <1>4 DEF PoolInv

LEMMA PrepareKeeps == ASSUME PoolInv, NEW c \in Calls, Prepare(c) PROVE PoolInv'
<1>1. call[c] \in CallRecord /\ call[c].pc = "idle" /\ clock \in Nat
  BY DEF Prepare, PoolInv, PoolTypes
<1>2. tx[c] \in Transactions \cup {None} /\ tx' = [tx EXCEPT ![c] = tx[c]]
      /\ UNCHANGED <<clock, seq, submit, review, pool, fate>>
  BY DEF Prepare, PoolInv, PoolTypes
<1>3. ASSUME NEW d \in Deadlines, d > clock,
             call' = [call EXCEPT ![c] = [pc |-> "reading", deadline |-> d, now |-> clock]]
      PROVE  PoolInv'
  <2> DEFINE f == [pc |-> "reading", deadline |-> d, now |-> clock]
  <2>1. f \in CallRecord /\ call'[c] = f
    BY <1>1, <1>3, PoolAssumption DEF CallRecord, PoolInv, PoolTypes
  <2>2. CallOK(c)'
    BY <1>1, <1>3, <2>1 DEF CallOK
  <2> QED
    BY <1>1, <1>2, <1>3, <2>1, <2>2, CallKeeps
<1>4. ASSUME End(c, "refused") PROVE PoolInv'
  <2> DEFINE f == [call[c] EXCEPT !.pc = "refused"]
  <2>1. f \in CallRecord /\ f.pc = "refused" /\ call' = [call EXCEPT ![c] = f]
    BY <1>1, <1>4 DEF CallRecord, End
  <2>2. CallOK(c)'
    BY <2>1 DEF CallOK, PoolInv, PoolTypes
  <2> QED
    BY <1>1, <1>2, <2>1, <2>2, CallKeeps
<1> QED
  BY <1>3, <1>4 DEF Prepare

\* prepare ends with an error, whatever it was at.
LEMMA RefusedKeeps ==
    ASSUME PoolInv, NEW c \in Calls, call[c].pc \in {"reading", "simulating"},
           End(c, "refused"), UNCHANGED <<clock, seq, tx, submit, review, pool, fate>>
    PROVE  PoolInv'
<1> DEFINE f == [call[c] EXCEPT !.pc = "refused"]
<1>1. f \in CallRecord /\ f.pc = "refused" /\ call' = [call EXCEPT ![c] = f]
  BY DEF CallRecord, End, PoolInv, PoolTypes
<1>2. tx[c] \in Transactions \cup {None} /\ tx' = [tx EXCEPT ![c] = tx[c]]
  BY DEF PoolInv, PoolTypes
<1>3. CallOK(c)'
  BY <1>1 DEF CallOK, PoolInv, PoolTypes
<1> QED
  BY <1>1, <1>2, <1>3, CallKeeps

LEMMA EnvelopeType ==
    ASSUME NEW q \in Nat, NEW d \in Nat
    PROVE  /\ Envelope(q, d) \in Transactions
           /\ Envelope(q, d).fee = BaseFee
           /\ Envelope(q, d).deadline = d /\ Envelope(q, d).maxTime = d
  BY PoolAssumption DEF Envelope, Transactions

LEMMA ReadKeeps == ASSUME PoolInv, NEW c \in Calls, ReadSequence(c) PROVE PoolInv'
<1>1. CASE End(c, "refused") /\ UNCHANGED tx
  BY <1>1, RefusedKeeps DEF ReadSequence
<1>2. CASE /\ seq # None /\ End(c, "simulating")
           /\ tx' = [tx EXCEPT ![c] = Envelope(seq, call[c].deadline)]
  <2>1. /\ call[c] \in CallRecord /\ call[c].pc = "reading" /\ seq \in Nat
        /\ call[c].deadline \in Nat /\ call[c].now < call[c].deadline
    BY <1>2 DEF ReadSequence, PoolInv, PoolTypes, CallOK, CallRecord
  <2> DEFINE f == [call[c] EXCEPT !.pc = "simulating"]
             t == Envelope(seq, call[c].deadline)
  <2>2. /\ f \in CallRecord /\ f.pc = "simulating" /\ call' = [call EXCEPT ![c] = f]
        /\ f.now = call[c].now /\ f.deadline = call[c].deadline
    BY <1>2, <2>1 DEF CallRecord, End
  <2>3. /\ t \in Transactions /\ t.fee = BaseFee
        /\ t.deadline = call[c].deadline /\ t.maxTime = call[c].deadline
    BY <2>1, EnvelopeType
  <2>4. call'[c] = f /\ tx'[c] = t
    BY <1>2, <2>2 DEF PoolInv, PoolTypes
  <2> HIDE DEF f, t
  <2>5. CallOK(c)'
    BY <2>1, <2>2, <2>3, <2>4 DEF CallOK
  <2>6. tx' = [tx EXCEPT ![c] = t] /\ UNCHANGED <<clock, seq, submit, review, pool, fate>>
    BY <1>2 DEF ReadSequence, t
  <2> QED
    BY <2>1, <2>2, <2>3, <2>5, <2>6, CallKeeps
<1> QED
  BY <1>1, <1>2 DEF ReadSequence

\* A fee that apply_simulation accepts survives its cast to the field's width.
LEMMA FeeFits ==
    ASSUME NEW t \in Transactions, NEW fee \in Int, FeeAccepted(t, fee)
    PROVE  /\ AfterSimulation(t, fee) \in Transactions
           /\ AfterSimulation(t, fee).fee <= Ceiling
           /\ AfterSimulation(t, fee).seq = t.seq
           /\ AfterSimulation(t, fee).deadline = t.deadline
           /\ AfterSimulation(t, fee).maxTime = t.maxTime
<1>1. t.fee + fee \in Nat /\ t.fee + fee <= Ceiling /\ t.fee + fee < FeeWidth
  BY PoolAssumption DEF FeeAccepted, Transactions
<1>2. PICK n : n = (t.fee + fee) % FeeWidth
  OBVIOUS
<1>3. n = t.fee + fee
  BY <1>1, <1>2, PoolAssumption
<1>4. AfterSimulation(t, fee) = [t EXCEPT !.fee = n]
  BY <1>2 DEF AfterSimulation
<1>5. n \in Nat /\ n <= Ceiling
  BY <1>1, <1>3
<1> HIDE <1>3
<1> QED
  BY <1>4, <1>5 DEF Transactions

LEMMA SimulateKeeps == ASSUME PoolInv, NEW c \in Calls, Simulate(c) PROVE PoolInv'
<1>1. CASE End(c, "refused") /\ UNCHANGED tx
  BY <1>1, RefusedKeeps DEF Simulate
<1>2. ASSUME NEW fee \in ResourceFees, FeeAccepted(tx[c], fee),
             NEW t, t = AfterSimulation(tx[c], fee), tx' = [tx EXCEPT ![c] = t],
             End(c, IF Policy(t, call[c].now, tx[c].seq - 1)
                    THEN "prepared" ELSE "self_check_failed")
      PROVE  PoolInv'
  <2>1. /\ call[c] \in CallRecord /\ call[c].pc = "simulating"
        /\ tx[c] \in Transactions /\ fee \in Int
        /\ tx[c].deadline = call[c].deadline /\ tx[c].maxTime = call[c].deadline
        /\ call[c].now < call[c].deadline
    <3>1. call[c] \in CallRecord /\ call[c].pc = "simulating" /\ CallOK(c)
      BY DEF Simulate, PoolInv, PoolTypes
    <3>2. fee \in Int
      BY <1>2, PoolAssumption
    <3> QED
      BY <3>1, <3>2 DEF CallOK
  <2>2. /\ t \in Transactions /\ t.fee <= Ceiling /\ t.seq = tx[c].seq
        /\ t.deadline = call[c].deadline /\ t.maxTime = call[c].deadline
    BY <1>2, <2>1, FeeFits
  <2>3. t.shape /\ t.seq = (tx[c].seq - 1) + 1 /\ t.deadline > call[c].now
    <3>1. t.shape \in {TRUE}
      BY <2>2 DEF Transactions
    <3>2. t.seq = (tx[c].seq - 1) + 1 /\ t.deadline > call[c].now
      BY <2>1, <2>2 DEF Transactions, CallRecord
    <3> QED
      BY <3>1, <3>2, Zenon
  <2>4. Policy(t, call[c].now, tx[c].seq - 1)
    BY <2>2, <2>3 DEF Policy
  <2> DEFINE f == [call[c] EXCEPT !.pc = "prepared"]
  <2>5. /\ f \in CallRecord /\ f.pc = "prepared" /\ call' = [call EXCEPT ![c] = f]
        /\ f.deadline = call[c].deadline
    BY <1>2, <2>1, <2>4 DEF CallRecord, End
  <2>6. call'[c] = f /\ tx'[c] = t
    BY <1>2, <2>5 DEF PoolInv, PoolTypes
  <2> HIDE DEF f
  <2>7. CallOK(c)'
    BY <2>2, <2>5, <2>6 DEF CallOK
  <2>8. UNCHANGED <<clock, seq, submit, review, pool, fate>>
    BY DEF Simulate
  <2> QED
    BY <1>2, <2>1, <2>2, <2>5, <2>7, <2>8, CallKeeps
<1> QED
  BY <1>1, <1>2 DEF Simulate

\* A step of one validate request that touches nothing else.
LEMMA ReviewKeeps ==
    ASSUME PoolInv, NEW v \in Reviews, NEW f \in ReviewRecord,
           review' = [review EXCEPT ![v] = f],
           UNCHANGED <<clock, seq, call, tx, submit, pool, fate>>,
           f.spent => seq # None /\ f.t.seq <= seq /\ f.t \in Transactions
                      /\ (f.own => f.pc # "valid")
    PROVE  PoolInv'
<1>1. PoolTypes'
  BY DEF PoolInv, PoolTypes
<1>2. ASSUME NEW d \in Calls PROVE CallOK(d)' /\ LedgerOK(d)'
  BY DEF PoolInv, CallOK, LedgerOK
<1>3. ASSUME NEW w \in Reviews PROVE ReviewOK(w)'
  <2>1. CASE w = v
    BY <2>1 DEF PoolInv, PoolTypes, ReviewOK
  <2>2. CASE w # v
    <3>1. review'[w] = review[w]
      BY <2>2 DEF PoolInv, PoolTypes
    <3> QED
      BY <3>1 DEF PoolInv, ReviewOK
  <2> QED
    BY <2>1, <2>2
<1>4. ASSUME NEW s \in Submits PROVE SubmitOK(s)'
  BY DEF PoolInv, SubmitOK
<1> QED
  BY <1>1, <1>2, <1>3, <1>4 DEF PoolInv

LEMMA ValidateKeeps == ASSUME PoolInv, NEW v \in Reviews, Validate(v) PROVE PoolInv'
<1>1. clock \in Nat /\ UNCHANGED <<clock, seq, call, tx, submit, pool, fate>>
  BY DEF Validate, PoolInv, PoolTypes
<1>2. ASSUME NEW c \in Prepared, NEW o \in BOOLEAN,
             review' = [review EXCEPT ![v] =
                [pc |-> "reading", t |-> tx[c], now |-> clock, own |-> o,
                 spent |-> fate[c] # None]]
      PROVE  PoolInv'
  <2> DEFINE f == [pc |-> "reading", t |-> tx[c], now |-> clock, own |-> o,
                   spent |-> fate[c] # None]
  <2>1. c \in Calls /\ tx[c] \in Transactions
    BY DEF Prepared, PoolInv, CallOK
  <2>2. f \in ReviewRecord
    BY <1>1, <2>1 DEF ReviewRecord
  <2>3. fate[c] # None => seq # None /\ tx[c].seq <= seq
    BY <2>1 DEF PoolInv, LedgerOK
  <2> QED
    BY <1>1, <1>2, <2>1, <2>2, <2>3, ReviewKeeps
<1>3. ASSUME NEW t \in Foreign, NEW o \in BOOLEAN,
             review' = [review EXCEPT ![v] =
                [pc |-> "reading", t |-> t, now |-> clock, own |-> o, spent |-> FALSE]]
      PROVE  PoolInv'
  <2> DEFINE f == [pc |-> "reading", t |-> t, now |-> clock, own |-> o, spent |-> FALSE]
  <2>1. f \in ReviewRecord
    BY <1>1 DEF ReviewRecord
  <2> QED
    BY <1>1, <1>3, <2>1, ReviewKeeps
<1> QED
  BY <1>2, <1>3 DEF Validate

LEMMA VerdictKeeps == ASSUME PoolInv, NEW v \in Reviews, ReviewVerdict(v) PROVE PoolInv'
<1> DEFINE old == review[v]
<1>1. old \in ReviewRecord /\ UNCHANGED <<clock, seq, call, tx, submit, pool, fate>>
  BY DEF ReviewVerdict, PoolInv, PoolTypes
<1>2. old.spent => seq \in Nat /\ old.t.seq <= seq /\ old.t \in Transactions
  BY DEF PoolInv, PoolTypes, ReviewOK
<1>3. old.spent => ~Policy(old.t, old.now, seq)
  <2> SUFFICES ASSUME old.spent PROVE ~Policy(old.t, old.now, seq)
    OBVIOUS
  <2>1. seq \in Nat /\ seq # None /\ old.t.seq \in Nat /\ old.t.seq <= seq
    <3>1. seq \in Nat /\ old.t.seq <= seq /\ old.t \in Transactions
      BY <1>2
    <3>2. seq # None
      BY <3>1, PoolAssumption
    <3>3. old.t.seq \in Nat
      BY <3>1 DEF Transactions
    <3> QED
      BY <3>1, <3>2, <3>3
  <2>2. old.t.seq # seq + 1
    BY <2>1
  <2> QED
    BY <2>1, <2>2, Zenon DEF Policy
<1>4. ASSUME NEW p \in {"valid", "invalid", "rpc_error"}, p = "valid" => ~(old.spent /\ old.own),
             review' = [review EXCEPT ![v].pc = p]
      PROVE  PoolInv'
  <2> DEFINE f == [old EXCEPT !.pc = p]
  <2>1. /\ f \in ReviewRecord /\ f.pc = p /\ f.t = old.t /\ f.spent = old.spent
        /\ f.own = old.own
        /\ review' = [review EXCEPT ![v] = f]
    BY <1>1, <1>4 DEF ReviewRecord
  <2> HIDE DEF f
  <2>2. f.spent => seq # None /\ f.t.seq <= seq /\ f.t \in Transactions
                   /\ (f.own => f.pc # "valid")
    BY <1>2, <1>4, <2>1, PoolAssumption
  <2> QED
    BY <1>1, <2>1, <2>2, ReviewKeeps
<1>5. ASSUME NEW e \in Expected(v),
             review' = [review EXCEPT ![v].pc =
                IF Policy(old.t, old.now, e) THEN "valid" ELSE "invalid"]
      PROVE  PoolInv'
  <2>1. Policy(old.t, old.now, e) => ~(old.spent /\ old.own)
    BY <1>3, <1>5 DEF Expected
  <2> QED
    BY <1>4, <1>5, <2>1
<1> QED
  BY <1>4, <1>5 DEF ReviewVerdict

\* A step of one submit request that may hand its transaction to the network.
LEMMA SubmitKeeps ==
    ASSUME PoolInv, NEW s \in Submits, NEW f \in SubmitRecord,
           submit' = [submit EXCEPT ![s] = f],
           UNCHANGED <<clock, seq, call, tx, review, fate>>,
           pool' = pool \/ \E c \in Prepared : pool' = pool \cup {c} /\ fate[c] = None /\ seq # None,
           f.pc = "polling" => f.c \in Calls,
           f.report \in {"SUCCESS", "FAILED"} => f.c \in Calls /\ fate[f.c] = f.report
    PROVE  PoolInv'
<1>1. PoolTypes'
  BY DEF PoolInv, PoolTypes, Prepared
<1>2. ASSUME NEW d \in Calls PROVE CallOK(d)' /\ LedgerOK(d)'
  BY DEF PoolInv, CallOK, LedgerOK, Prepared
<1>3. ASSUME NEW w \in Reviews PROVE ReviewOK(w)'
  BY DEF PoolInv, ReviewOK
<1>4. ASSUME NEW z \in Submits PROVE SubmitOK(z)'
  <2>1. CASE z = s
    BY <2>1 DEF PoolInv, PoolTypes, SubmitOK
  <2>2. CASE z # s
    <3>1. submit'[z] = submit[z]
      BY <2>2 DEF PoolInv, PoolTypes
    <3> QED
      BY <3>1 DEF PoolInv, SubmitOK
  <2> QED
    BY <2>1, <2>2
<1> QED
  BY <1>1, <1>2, <1>3, <1>4 DEF PoolInv

LEMMA SendKeeps == ASSUME PoolInv, NEW s \in Submits, Send(s) PROVE PoolInv'
<1>1. UNCHANGED <<clock, seq, call, tx, review, fate>>
  BY DEF Send
<1>2. PICK c \in Prepared :
        /\ \/ submit' = [submit EXCEPT ![s] =
                            [pc |-> "polling", c |-> c, polls |-> 0, report |-> None]]
           \/ submit' = [submit EXCEPT ![s] =
                            [pc |-> "done", c |-> c, polls |-> 0, report |-> "error"]]
        /\ pool' = pool \/ (pool' = pool \cup {c} /\ fate[c] = None /\ seq # None)
  BY DEF Send
<1>3. c \in Calls
  BY DEF Prepared
<1> DEFINE f == [pc |-> "polling", c |-> c, polls |-> 0, report |-> None]
           g == [pc |-> "done", c |-> c, polls |-> 0, report |-> "error"]
<1>4. f \in SubmitRecord /\ g \in SubmitRecord
  BY <1>3 DEF SubmitRecord
<1>5. f.report \notin {"SUCCESS", "FAILED"} /\ g.report \notin {"SUCCESS", "FAILED"}
  BY PoolAssumption
<1> QED
  BY <1>1, <1>2, <1>3, <1>4, <1>5, SubmitKeeps

LEMMA PollKeeps == ASSUME PoolInv, NEW s \in Submits, Poll(s) PROVE PoolInv'
<1> DEFINE old == submit[s]
<1>1. /\ UNCHANGED <<clock, seq, call, tx, review, pool, fate>>
      /\ old \in SubmitRecord /\ old.pc = "polling" /\ old.c \in Calls
      /\ old.report \in {"SUCCESS", "FAILED"} => fate[old.c] = old.report
  BY DEF Poll, PoolInv, PoolTypes, SubmitOK
<1>2. ASSUME NEW st \in {"error", "NOT_FOUND", "SUCCESS", "FAILED"},
             st \in {"SUCCESS", "FAILED"} => fate[old.c] = st, Answer(s, st)
      PROVE  PoolInv'
  <2> DEFINE f == [old EXCEPT !.pc = "done", !.report = st]
  <2>1. f \in SubmitRecord /\ f.pc = "done" /\ f.c = old.c /\ f.report = st
    BY <1>1 DEF SubmitRecord
  <2>2. submit' = [submit EXCEPT ![s] = f]
    BY <1>2 DEF Answer, PoolInv, PoolTypes
  <2> HIDE DEF f
  <2> QED
    BY <1>1, <1>2, <2>1, <2>2, SubmitKeeps
<1>3. ASSUME submit' = [submit EXCEPT ![s].polls = @ + 1]
      PROVE  PoolInv'
  <2> DEFINE f == [old EXCEPT !.polls = old.polls + 1]
  <2>1. f \in SubmitRecord /\ f.pc = "polling" /\ f.c = old.c /\ f.report = old.report
    BY <1>1 DEF SubmitRecord
  <2>2. submit' = [submit EXCEPT ![s] = f]
    BY <1>3 DEF PoolInv, PoolTypes
  <2> HIDE DEF f
  <2> QED
    BY <1>1, <2>1, <2>2, SubmitKeeps
<1>4. ASSUME NEW st \in Statuses(old.c), AfterPoll(s, st)
      PROVE  PoolInv'
  <2>1. st = "NOT_FOUND" \/ (st = fate[old.c] /\ st \in {"SUCCESS", "FAILED"})
    BY <1>1, <1>4 DEF Statuses, PoolInv, PoolTypes
  <2> QED
    BY <1>2, <1>3, <1>4, <2>1 DEF AfterPoll
<1> QED
  BY <1>2, <1>4 DEF Poll

LEMMA IncludeKeeps == ASSUME PoolInv, NEW c \in Calls, Include(c) PROVE PoolInv'
<1>1. /\ c \in pool /\ seq \in Nat /\ seq' = seq + 1 /\ seq' \in Nat /\ seq' # None
      /\ fate[c] = None /\ call[c].pc = "prepared" /\ tx[c].seq = seq'
      /\ pool' = pool \ {c}
      /\ UNCHANGED <<clock, call, tx, submit, review>>
  BY PoolAssumption DEF Include, PoolInv, PoolTypes, LedgerOK
<1>2. PICK outcome \in {"SUCCESS", "FAILED"} : fate' = [fate EXCEPT ![c] = outcome]
  BY DEF Include
<1>3. PoolTypes'
  BY <1>1, <1>2 DEF PoolInv, PoolTypes
<1>4. ASSUME NEW d \in Calls PROVE CallOK(d)' /\ LedgerOK(d)'
  <2>1. CallOK(d)'
    BY <1>1 DEF PoolInv, CallOK
  <2>2. CASE d = c
    BY <1>1, <1>2, <2>1, <2>2 DEF LedgerOK
  <2>3. CASE d # c
    <3>1. fate'[d] = fate[d] /\ (d \in pool' <=> d \in pool)
      BY <1>1, <1>2, <2>3 DEF PoolInv, PoolTypes
    <3>2. fate[d] # None => tx[d] \in Transactions /\ tx[d].seq <= seq
      BY DEF PoolInv, CallOK, LedgerOK
    <3>3. fate[d] # None => tx[d].seq <= seq'
      <4>1. tx[d] \in Transactions => tx[d].seq \in Nat
        BY DEF Transactions
      <4> QED
        BY <1>1, <3>2, <4>1
    <3> QED
      BY <1>1, <2>1, <3>1, <3>3 DEF PoolInv, LedgerOK
  <2> QED
    BY <2>1, <2>2, <2>3
<1>5. ASSUME NEW v \in Reviews PROVE ReviewOK(v)'
  <2> SUFFICES ASSUME review[v].spent
               PROVE  /\ review[v].t.seq <= seq' /\ review[v].t \in Transactions
                      /\ review[v].own => review[v].pc # "valid"
    BY <1>1 DEF ReviewOK
  <2>1. /\ review[v].t.seq <= seq /\ review[v].t \in Transactions
        /\ review[v].own => review[v].pc # "valid"
    BY DEF PoolInv, ReviewOK
  <2>2. review[v].t.seq \in Nat
    BY <2>1 DEF Transactions
  <2> QED
    BY <1>1, <2>1, <2>2
<1>6. ASSUME NEW s \in Submits PROVE SubmitOK(s)'
  <2>1. submit[s].report \in {"SUCCESS", "FAILED"} => submit[s].c # c
    BY <1>1, PoolAssumption DEF PoolInv, SubmitOK
  <2> QED
    BY <1>1, <1>2, <2>1 DEF PoolInv, PoolTypes, SubmitOK
<1> QED
  BY <1>3, <1>4, <1>5, <1>6 DEF PoolInv

LEMMA DropKeeps ==
    ASSUME PoolInv, pool' \subseteq pool, clock' \in Nat,
           UNCHANGED <<seq, call, tx, submit, review, fate>>
    PROVE  PoolInv'
  BY DEF PoolInv, PoolTypes, CallOK, LedgerOK, ReviewOK, SubmitOK

LEMMA PoolStep == PoolInv /\ [Next]_vars => PoolInv'
<1> SUFFICES ASSUME PoolInv, [Next]_vars PROVE PoolInv'
  OBVIOUS
<1>1. clock \in Nat
  BY DEF PoolInv, PoolTypes
<1>2. CASE Tick \/ UNCHANGED vars
  BY <1>1, <1>2, DropKeeps DEF Tick, vars
<1>3. ASSUME NEW c \in Calls, Drop(c) PROVE PoolInv'
  <2>1. pool' \subseteq pool /\ clock' \in Nat /\ UNCHANGED <<seq, call, tx, submit, review, fate>>
    BY <1>1, <1>3 DEF Drop
  <2> QED
    BY <2>1, DropKeeps
<1> QED
  BY <1>2, <1>3, PrepareKeeps, ReadKeeps, SimulateKeeps, ValidateKeeps, VerdictKeeps,
     SendKeeps, PollKeeps, IncludeKeeps DEF Next

\* The inductive invariant about prepared, pending and included transactions.
THEOREM PoolInvariance == Spec => []PoolInv
  BY PoolInit, PoolStep, PTL DEF Spec

\* prepare's closing validate never rejects what prepare itself built,
\* although the clock and the account move while it awaits the RPC node.
THEOREM PreparesPass == Spec => []SelfCheckAgrees
<1>1. PoolInv => SelfCheckAgrees
  BY DEF PoolInv, PoolTypes, CallRecord, SelfCheckAgrees
<1> QED
  BY <1>1, PoolInvariance, PTL

\* validate_transaction, given the transaction's own account, never declares a
\* transaction valid that was in a ledger when the request came in.
THEOREM SpentNeverValid == Spec => []SpentIsStale
<1>1. PoolInv => SpentIsStale
  BY DEF PoolInv, ReviewOK, SpentIsStale
<1> QED
  BY <1>1, PoolInvariance, PTL

\* SUCCESS or FAILED in the answer of submit_transaction is what the ledger
\* holds, for every number of concurrent submits of one transaction.
THEOREM ReportsAreFate == Spec => []ReportIsFate
<1>1. PoolInv => ReportIsFate
  BY DEF PoolInv, SubmitOK, ReportIsFate
<1> QED
  BY <1>1, PoolInvariance, PTL

\* A transaction takes effect within the deadline it was prepared for and
\* with a fee within the ceiling, whenever it is signed, sent and included.
THEOREM TermsHold == Spec => EffectWithinTerms
<1> DEFINE Terms == \A c \in Calls : fate[c] # fate'[c] =>
                        /\ clock <= call[c].deadline
                        /\ tx[c].fee <= Ceiling
<1>1. PoolInv /\ [Next]_vars => [Terms]_vars
  <2> SUFFICES ASSUME PoolInv, [Next]_vars PROVE [Terms]_vars
    OBVIOUS
  <2>1. ASSUME fate' = fate PROVE Terms
    BY <2>1
  <2>2. ASSUME NEW c \in Calls, Include(c) PROVE Terms
    <3>1. call[c].pc = "prepared" /\ clock <= tx[c].maxTime /\ CallOK(c)
      BY <2>2 DEF Include, PoolInv, LedgerOK
    <3>2. clock <= call[c].deadline /\ tx[c].fee <= Ceiling
      BY <3>1 DEF CallOK
    <3>3. \A d \in Calls : d # c => fate'[d] = fate[d]
      BY <2>2 DEF Include, PoolInv, PoolTypes
    <3> QED
      BY <3>2, <3>3
  <2>3. fate' = fate \/ \E c \in Calls : Include(c)
    BY DEF Next, vars, Prepare, ReadSequence, Simulate, Validate, ReviewVerdict,
       Send, Poll, Drop, Tick
  <2> QED
    BY <2>1, <2>2, <2>3
<1> QED
  BY <1>1, PoolInvariance, PTL DEF Spec, EffectWithinTerms
=============================================================================
