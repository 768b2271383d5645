-------------------------- MODULE IdempotentEngine --------------------------
(***************************************************************************)
(* Engine::initiate_idempotent and Engine::initiate (src/src/engine/mod.rs)*)
(* running on several instances that share one claim store, each with its  *)
(* own in-process PaymentStore and its own clock.                          *)
(*                                                                         *)
(* A request is one call of the HTTP handler.  Its owner uuid and its      *)
(* payment id are fresh, so both are represented by the request itself.    *)
(* pc[r] names the await (or the store call) the request is at:            *)
(*   claim -> reconcile | route -> mark -> submit <-> sent -> complete     *)
(***************************************************************************)
EXTENDS ClaimStore

CONSTANTS Keys, Nodes,
          Skew,                 \* how far each node's clock is ahead
          InvalidFingerprints,  \* bodies that fail validation
          MaxAttempts           \* RetryConfig.max_attempts

ASSUME EngineAssumption ==
    /\ None \notin Keys
    /\ None \notin (Keys \cup Requests) \X Nat
    /\ Skew \in [Nodes -> Nat]
    /\ InvalidFingerprints \subseteq Fingerprints
    /\ MaxAttempts \in Nat \ {0}

VARIABLES records,   \* the claim store
          pc, key, fp, node,
          ref,       \* execution_ref a request was told to reconcile
          pay,       \* status of r's payment in the PaymentStore of node[r]
          attempts,  \* calls of adapter.submit made for r
          reply,     \* what the client of r was answered
          epoch,     \* history: how often a key was claimed afresh
          ep         \* history: the epoch of its key that r's claim saw

vars == <<records, pc, key, fp, node, ref, pay, attempts, reply,
          epoch, ep>>
request == <<key, fp, node>>

PC == {"idle", "claim", "reconcile", "route", "mark", "submit", "sent",
       "complete", "done"}

Payments == {"none", "processing", "confirmed", "failed"}

Reply == [code : {"none", "ok", "invalid", "conflict", "precondition",
                  "internal"},
          body : Body \cup {None}]

NoReply == [code |-> "none", body |-> None]
Error(c) == [code |-> c, body |-> None]
Answer(b) == [code |-> "ok", body |-> b]

Init ==
    /\ records = [k \in Keys |-> None]
    /\ pc = [r \in Requests |-> "idle"]
    /\ key = [r \in Requests |-> None]
    /\ fp \in [Requests -> Fingerprints]
    /\ node \in [Requests -> Nodes]
    /\ ref = [r \in Requests |-> None]
    /\ pay = [r \in Requests |-> "none"]
    /\ attempts = [r \in Requests |-> 0]
    /\ reply = [r \in Requests |-> NoReply]
    /\ epoch = [k \in Keys |-> 0]
    /\ ep = [r \in Requests |-> 0]

Go(r, l) == pc' = [pc EXCEPT ![r] = l]

\* The handler of r returns.
Return(r, a) == Go(r, "done") /\ reply' = [reply EXCEPT ![r] = a]

Found(r) == records[key[r]]
SkewOf(r) == Skew[node[r]]
ClaimSays(r) == Outcome(Found(r), fp[r], SkewOf(r))
-----------------------------------------------------------------------------
\* A request with an Idempotency-Key header arrives.
Begin(r, k) ==
    /\ pc[r] = "idle"
    /\ Go(r, "claim")
    /\ key' = [key EXCEPT ![r] = k]
    /\ UNCHANGED <<records, fp, node, ref, pay, attempts, reply,
                   epoch, ep>>

\* A request without the header: no claim, no checkpoint.
BeginPlain(r) ==
    /\ pc[r] = "idle"
    /\ Go(r, "route")
    /\ UNCHANGED <<records, request, ref, pay, attempts, reply,
                   epoch, ep>>

\* The claim script's effect on the store and on the history variables.
RunClaim(r) ==
    LET rec == AfterClaim(Found(r), fp[r], r, SkewOf(r))
        e   == IF ClaimSays(r) = "claimed" THEN epoch[key[r]] + 1
               ELSE epoch[key[r]]
    IN /\ records' = [records EXCEPT ![key[r]] = rec]
       /\ epoch' = [epoch EXCEPT ![key[r]] = e]
       /\ ep' = [ep EXCEPT ![r] = e]

\* Claimed or TookOver: the request may execute.
ClaimGranted(r) ==
    /\ pc[r] = "claim"
    /\ ClaimSays(r) \in {"claimed", "took_over"}
    /\ RunClaim(r)
    /\ Go(r, "route")
    /\ UNCHANGED <<request, ref, pay, attempts, reply>>

ClaimReplays(r) ==
    /\ pc[r] = "claim"
    /\ ClaimSays(r) = "replay"
    /\ RunClaim(r)
    /\ Return(r, Answer(Found(r).response))
    /\ UNCHANGED <<request, ref, pay, attempts>>

ClaimRefused(r) ==
    /\ pc[r] = "claim"
    /\ ClaimSays(r) \in {"mismatch", "in_flight"}
    /\ RunClaim(r)
    /\ Return(r, Error("conflict"))
    /\ UNCHANGED <<request, ref, pay, attempts>>

ClaimAwaits(r) ==
    /\ pc[r] = "claim"
    /\ ClaimSays(r) = "awaiting"
    /\ RunClaim(r)
    /\ ref' = [ref EXCEPT ![r] = Found(r).ref]
    /\ Go(r, "reconcile")
    /\ UNCHANGED <<request, pay, attempts, reply>>

\* Redis answers with an error: the script did not run, or it ran and its
\* reply was lost.  The handler gives up either way.
ClaimFault(r) ==
    /\ Durable
    /\ pc[r] = "claim"
    /\ \/ RunClaim(r)
       \/ UNCHANGED <<records, epoch, ep>>
    /\ Return(r, Error("internal"))
    /\ UNCHANGED <<request, ref, pay, attempts>>

KnownLocally(r) == node[ref[r]] = node[r] /\ pay[ref[r]] # "none"
Known(s) == s # "none"
Terminal(s) == s \in {"confirmed", "failed"}

\* AwaitingResult: replay the payment if this process knows it is terminal.
Reconcile(r) ==
    /\ pc[r] = "reconcile"
    /\ IF KnownLocally(r) /\ Terminal(pay[ref[r]])
       THEN Return(r, Answer([payment |-> ref[r], status |-> pay[ref[r]]]))
       ELSE Return(r, Error("precondition"))
    /\ UNCHANGED <<records, request, ref, pay, attempts, epoch, ep>>
-----------------------------------------------------------------------------
\* run_initiation is done with status s: a keyed request goes on to record
\* the result, a plain one answers.
Settle(r, s) ==
    /\ pay' = [pay EXCEPT ![r] = s]
    /\ IF key[r] = None
       THEN Return(r, Answer([payment |-> r, status |-> s]))
       ELSE Go(r, "complete") /\ UNCHANGED reply

\* A validation error propagates; the claim is left as it is.
Invalid(r) ==
    /\ pc[r] = "route"
    /\ fp[r] \in InvalidFingerprints
    /\ Return(r, Error("invalid"))
    /\ UNCHANGED <<records, request, ref, pay, attempts, epoch, ep>>

\* router.select found no adapter: a Failed payment, nothing submitted.
RouteFails(r) ==
    /\ pc[r] = "route"
    /\ fp[r] \notin InvalidFingerprints
    /\ Settle(r, "failed")
    /\ UNCHANGED <<records, request, ref, attempts, epoch, ep>>

\* The payment is inserted as Pending and set to Processing.
RouteFound(r) ==
    /\ pc[r] = "route"
    /\ fp[r] \notin InvalidFingerprints
    /\ pay' = [pay EXCEPT ![r] = "processing"]
    /\ Go(r, IF key[r] = None THEN "submit" ELSE "mark")
    /\ UNCHANGED <<records, request, ref, attempts, reply, epoch, ep>>

RunMark(r) ==
    records' = [records EXCEPT ![key[r]] =
                    AfterMark(Found(r), r, r, SkewOf(r))]

\* The checkpoint in front of the irreversible submission.
MarkOk(r) ==
    /\ pc[r] = "mark"
    /\ WriteOutcome(Found(r), r) = "ok"
    /\ RunMark(r)
    /\ Go(r, "submit")
    /\ UNCHANGED <<request, ref, pay, attempts, reply, epoch, ep>>

WriteError(r) ==
    Error(IF WriteOutcome(Found(r), r) = "gone" THEN "precondition"
          ELSE "conflict")

\* Taken over or expired: give up; the payment stays Processing.
MarkRefused(r) ==
    /\ pc[r] = "mark"
    /\ WriteOutcome(Found(r), r) # "ok"
    /\ Return(r, WriteError(r))
    /\ UNCHANGED <<records, request, ref, pay, attempts, epoch, ep>>

MarkFault(r) ==
    /\ Durable
    /\ pc[r] = "mark"
    /\ RunMark(r) \/ UNCHANGED records
    /\ Return(r, Error("internal"))
    /\ UNCHANGED <<request, ref, pay, attempts, epoch, ep>>
-----------------------------------------------------------------------------
SubmitUncounted(r) ==
    /\ pc[r] = "submit"
    /\ Go(r, "sent")
    /\ UNCHANGED <<records, request, ref, pay, attempts, reply, epoch, ep>>

\* retry calls adapter.submit: from here on the chain may have executed it.
SubmitSend(r) ==
    /\ pc[r] = "submit"
    /\ attempts' = [attempts EXCEPT ![r] = @ + 1]
    /\ Go(r, "sent")
    /\ UNCHANGED <<records, request, ref, pay, reply, epoch, ep>>

\* The adapter returns a transaction hash.
SubmitOk(r) ==
    /\ pc[r] = "sent"
    /\ Settle(r, "confirmed")
    /\ UNCHANGED <<records, request, ref, attempts, epoch, ep>>

\* The adapter returns an error, whatever the chain did; retry goes again.
SubmitRetries(r) ==
    /\ pc[r] = "sent"
    /\ attempts[r] < MaxAttempts
    /\ Go(r, "submit")
    /\ UNCHANGED <<records, request, ref, pay, attempts, reply,
                   epoch, ep>>

SubmitGivesUp(r) ==
    /\ pc[r] = "sent"
    /\ attempts[r] >= MaxAttempts
    /\ Settle(r, "failed")
    /\ UNCHANGED <<records, request, ref, attempts, epoch, ep>>
-----------------------------------------------------------------------------
Result(r) == [payment |-> r, status |-> pay[r]]

RunComplete(r) ==
    records' = [records EXCEPT ![key[r]] =
                    AfterComplete(Found(r), r, Result(r))]

CompleteOk(r) ==
    /\ pc[r] = "complete"
    /\ WriteOutcome(Found(r), r) = "ok"
    /\ RunComplete(r)
    /\ Return(r, Answer(Result(r)))
    /\ UNCHANGED <<request, ref, pay, attempts, epoch, ep>>

CompleteRefused(r) ==
    /\ pc[r] = "complete"
    /\ WriteOutcome(Found(r), r) # "ok"
    /\ Return(r, WriteError(r))
    /\ UNCHANGED <<records, request, ref, pay, attempts, epoch, ep>>

CompleteFault(r) ==
    /\ Durable
    /\ pc[r] = "complete"
    /\ RunComplete(r) \/ UNCHANGED records
    /\ Return(r, Error("internal"))
    /\ UNCHANGED <<request, ref, pay, attempts, epoch, ep>>
-----------------------------------------------------------------------------
\* The client goes away and the server drops the handler's future at an await;
\* the process, and with it the payment's last status, stays.
Abandon(r) ==
    /\ pc[r] \notin {"idle", "done"}
    /\ Go(r, "done")
    /\ UNCHANGED <<records, request, ref, pay, attempts, reply, epoch, ep>>

\* An instance dies and restarts: its requests end unanswered, its
\* PaymentStore is empty, and so is a claim store kept in process memory.
Crash(n) ==
    /\ pc' = [r \in Requests |->
                IF node[r] = n /\ pc[r] # "idle" THEN "done" ELSE pc[r]]
    /\ pay' = [r \in Requests |-> IF node[r] = n THEN "none" ELSE pay[r]]
    /\ records' = IF Durable THEN records ELSE [k \in Keys |-> None]
    /\ UNCHANGED <<request, ref, attempts, reply, epoch, ep>>

Tick ==
    /\ records' = [k \in Keys |-> Age(records[k])]
    /\ UNCHANGED <<pc, request, ref, pay, attempts, reply, epoch, ep>>

\* One step of r's handler after its arrival.
Step(r) ==
    \/ ClaimGranted(r) \/ ClaimReplays(r) \/ ClaimRefused(r)
    \/ ClaimAwaits(r) \/ ClaimFault(r) \/ Reconcile(r)
    \/ Invalid(r) \/ RouteFails(r) \/ RouteFound(r)
    \/ MarkOk(r) \/ MarkRefused(r) \/ MarkFault(r)
    \/ SubmitSend(r) \/ SubmitOk(r) \/ SubmitRetries(r) \/ SubmitGivesUp(r)
    \/ CompleteOk(r) \/ CompleteRefused(r) \/ CompleteFault(r)

Next ==
    \/ \E r \in Requests : BeginPlain(r) \/ Step(r) \/ Abandon(r)
    \/ \E r \in Requests, k \in Keys : Begin(r, k)
    \/ \E n \in Nodes : Crash(n)
    \/ Tick

Spec == Init /\ [][Next]_vars

\* Time passes, and the async runtime keeps polling every live handler.
Fairness == WF_vars(Tick) /\ \A r \in Requests : WF_vars(Step(r))

FairSpec == Spec /\ Fairness
-----------------------------------------------------------------------------
\* Every stored record, handler position and answer is one the code can hold.
TypeOK ==
    /\ records \in [Keys -> ClaimRecord \cup {None}]
    /\ pc \in [Requests -> PC]
    /\ key \in [Requests -> Keys \cup {None}]
    /\ fp \in [Requests -> Fingerprints]
    /\ node \in [Requests -> Nodes]
    /\ ref \in [Requests -> Requests \cup {None}]
    /\ pay \in [Requests -> Payments]
    /\ attempts \in [Requests -> Nat]
    /\ reply \in [Requests -> Reply]
    /\ epoch \in [Keys -> Nat]
    /\ ep \in [Requests -> Nat]

\* Two requests that met the same incarnation of the same key.
Rivals(r, s) == key[r] # None /\ key[r] = key[s] /\ ep[r] = ep[s]

\* While a claim record lives, at most one request under its key ever calls
\* adapter.submit, through takeovers, crashes, lost replies and clock skew
\* ("two concurrent identical requests never both execute", and a takeover
\* reconciles rather than submitting again).
AtMostOneSubmitter ==
    \A r, s \in Requests :
        Rivals(r, s) /\ attempts[r] > 0 /\ attempts[s] > 0 => r = s

\* Every answer given under one incarnation of a key, by executing, by replay
\* of the stored response or by reconciling with the local payment, describes
\* the same payment with the same status.
AnswersAgree ==
    \A r, s \in Requests :
        Rivals(r, s) /\ reply[r].code = "ok" /\ reply[s].code = "ok"
            => reply[r].body = reply[s].body

\* No answer reports one payment while another payment of the same key
\* incarnation reached the chain: a client told the outcome of its key is
\* told about the only money that moved.
AnswerCoversSubmission ==
    \A r, s \in Requests :
        Rivals(r, s) /\ reply[r].code = "ok" /\ attempts[s] > 0
            => reply[r].body.payment = s

\* What may become of a claim in one step.
ClaimMoves(old, new) ==
    \/ new = None
    \/ /\ new.fingerprint = old.fingerprint
       /\ new.owner # old.owner => {old.lifecycle, new.lifecycle} = {"in_flight"}
       /\ old.lifecycle = "submitting" =>
            new.lifecycle \in {"submitting", "completed"} /\ new.ref = old.ref
       /\ old.lifecycle = "completed" =>
            new.lifecycle = "completed" /\ new.response = old.response

\* A claim only moves forward: in flight, submitting, completed.  It changes
\* its owner only while in flight, never its fingerprint, and a completed
\* response is never overwritten; only expiry or a restart removes a record,
\* although mark_submitting and complete check nothing but the owner.
ClaimsMoveForward ==
    [][\A k \in Keys :
        records[k] # None => ClaimMoves(records[k], records'[k])]_vars

\* The members of a group: requests that met the same epoch of a key.
GroupOf(r) ==
    IF key[r] = None THEN IF pc[r] = "idle" THEN None ELSE <<r, 0>>
    ELSE IF ep[r] = 0 THEN None ELSE <<key[r], ep[r]>>

Promise == INSTANCE OncePerKey WITH
    Groups <- (Keys \cup Requests) \X Nat,
    Bodies <- Body,
    group <- [r \in Requests |-> GroupOf(r)],
    moved <- {r \in Requests : attempts[r] > 0},
    told <- [r \in Requests |-> IF reply[r].code = "ok" THEN reply[r].body ELSE None]

\* The engine with its store, leases, instances, crashes and lost replies
\* implements the promise of a key: one payment per life of a key, sent before
\* and never after anybody is told its outcome, and one outcome for all.
ImplementsPromise == Promise!Spec

\* The ttl bounds how long a record survives: whatever its last owner did or
\* failed to do, an abandoned claim leaves its key free in the end.
KeysAreFreed == \A k \in Keys : records[k] # None ~> records[k] = None

\* Every handler that starts returns (or dies with its instance).
RequestsEnd == \A r \in Requests : pc[r] # "idle" ~> pc[r] = "done"
-----------------------------------------------------------------------------
\* The inductive invariant behind AtMostOneSubmitter and ClaimsMoveForward.

\* Past its checkpoint: r may have submitted or is about to.
Marked(r) == key[r] # None /\ (pc[r] \in {"submit", "sent"} \/ attempts[r] > 0)

\* What a handler's position says about its request.
RequestInv ==
    \A r \in Requests :
        /\ pc[r] \in {"claim", "reconcile", "mark", "complete"} => key[r] # None
        /\ pc[r] \in {"idle", "claim", "reconcile", "route", "mark"}
             => attempts[r] = 0
        /\ pc[r] = "reconcile" => ref[r] \in Requests
        /\ pc[r] = "complete" => pay[r] \in {"confirmed", "failed"}

\* No request is ahead of the epoch of its key.
EpochInv ==
    \A r \in Requests :
        /\ pc[r] \in {"idle", "claim"} => ep[r] = 0
        /\ key[r] # None => ep[r] <= epoch[key[r]]

\* A record's owner is a request of that key and epoch whose handler is
\* where the record's lifecycle says, or has ended.
OwnerOK(k) ==
    LET rec == records[k]
        o   == rec.owner
    IN /\ key[o] = k
       /\ ep[o] = epoch[k]
       /\ pc[o] \notin {"idle", "claim", "reconcile"}
       /\ pc[o] \in {"route", "mark"} => rec.lifecycle = "in_flight"
       /\ pc[o] \in {"submit", "sent"} => rec.lifecycle = "submitting"
       /\ pc[o] = "complete" => rec.lifecycle # "completed"
       /\ rec.lifecycle = "submitting" => rec.ref = o

OwnerInv == \A k \in Keys : records[k] # None => OwnerOK(k)

\* A request past its checkpoint still holds its claim, or the claim is gone
\* or belongs to a later epoch.
MarkedInv ==
    \A r \in Requests : Marked(r) =>
        \/ records[key[r]] = None
        \/ ep[r] < epoch[key[r]]
        \/ records[key[r]].owner = r /\ records[key[r]].lifecycle # "in_flight"

UniqueMarked ==
    \A r, s \in Requests : Marked(r) /\ Marked(s) /\ Rivals(r, s) => r = s

\* The whole inductive invariant: who owns a claim, where its owner's handler
\* is, and that at most one request per incarnation is past its checkpoint.
IInv == TypeOK /\ RequestInv /\ EpochInv /\ OwnerInv /\ MarkedInv /\ UniqueMarked
=============================================================================
