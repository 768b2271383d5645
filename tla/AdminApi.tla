-------------------------------- MODULE AdminApi --------------------------------
(***************************************************************************)
(* A request on its way through the layers of main.rs: inject_request_id   *)
(* counts it, signed-request auth and the rate limiter may turn it away,   *)
(* the handler of an administration route works on the webhooks, and the   *)
(* count is taken back on the way out.  Requests run concurrently.  The    *)
(* concurrency limits (20 and more) are far above the number of requests   *)
(* here.  A request whose client goes away is dropped where it waits: the  *)
(* code after that await, the end of the count included, never runs.       *)
(***************************************************************************)
EXTENDS RateLimiter, FiniteSets

CONSTANTS Reqs, Ids,
          MaxDrops   \* bound: clients that go away in the middle of a request

ASSUME AdminAssumption == IsFiniteSet(Reqs) /\ MaxDrops \in Nat /\ None \notin BOOLEAN

VARIABLES at,         \* at[r]: the layer that r is in
          saw,        \* saw[r]: the count that r's own fetch_add gave
          inflight,   \* INFLIGHT
          gauge,      \* the published nodus_queue_depth
          drops,      \* history: requests dropped so far
          abandoned,  \* history: the last request to leave was dropped
          hooks, toggling, deleted, raced, odd, stale

W == INSTANCE Webhooks

hookVars == <<hooks, toggling, deleted, raced, odd, stale>>
pathVars == <<at, saw, inflight, gauge, drops, abandoned>>
adminVars == <<vars, pathVars, hookVars>>

Move(r, layer) ==
    /\ at' = [at EXCEPT ![r] = layer]
    /\ UNCHANGED <<saw, inflight, gauge, drops, abandoned>>

AdminInit ==
    /\ Init /\ W!HookInit
    /\ at = [r \in Reqs |-> "away"] /\ saw = [r \in Reqs |-> 0]
    /\ inflight = 0 /\ gauge = 0 /\ drops = 0 /\ abandoned = FALSE

\* request_started counts the request in one step and publishes the count it
\* got in another, under the metrics lock.
RequestCounted(r) ==
    /\ at[r] = "away"
    /\ at' = [at EXCEPT ![r] = "counted"]
    /\ inflight' = inflight + 1
    /\ saw' = [saw EXCEPT ![r] = inflight + 1]
    /\ UNCHANGED <<gauge, drops, abandoned, vars, hookVars>>

RequestPublished(r) ==
    /\ at[r] = "counted"
    /\ at' = [at EXCEPT ![r] = "arrived"]
    /\ gauge' = saw[r]
    /\ saw' = [saw EXCEPT ![r] = 0]
    /\ UNCHANGED <<inflight, drops, abandoned, vars, hookVars>>

\* An open route (health, metrics), or auth refuses.
Passes(r) ==
    /\ at[r] = "arrived" /\ Move(r, "leaving")
    /\ UNCHANGED <<vars, hookVars>>

\* Auth lets workload k through to its budget.
Limited(r, k) ==
    /\ at[r] = "arrived" /\ Request(k)
    /\ Move(r, IF answer'[k] = "run" THEN "handler" ELSE "leaving")
    /\ UNCHANGED hookVars

AtHandler(r) == at[r] = "handler" /\ toggling[r] = None

\* register, delete, and the handlers that change nothing here: list, and a
\* registration without url or secret.
Handled(r) ==
    /\ AtHandler(r) /\ Move(r, "leaving")
    /\ \/ \E id \in Ids : W!Register(id) \/ W!Delete(id)
       \/ UNCHANGED hookVars
    /\ UNCHANGED vars

\* A toggle; a step that leaves no toggle pending has made the answer.
Toggled(r) ==
    /\ at[r] = "handler"
    /\ (\E id \in Ids : W!ToggleRead(r, id)) \/ W!SetActiveCopy(r) \/ W!SetActiveWrite(r)
    /\ Move(r, IF toggling'[r] = None THEN "leaving" ELSE "handler")
    /\ UNCHANGED vars

\* The value that request_finished publishes, from the subtraction it makes
\* under the lock.
RemainingAsSeen(n) == n
Remaining(n) == IF n > 0 THEN n - 1 ELSE 0

RequestFinished(r) ==
    /\ at[r] = "leaving"
    /\ at' = [at EXCEPT ![r] = "away"]
    /\ inflight' = inflight - 1
    /\ gauge' = Remaining(inflight)
    /\ abandoned' = FALSE
    /\ UNCHANGED <<saw, drops, vars, hookVars>>

\* The client goes away while r waits: for its body, or for a permit.
Dropped(r) ==
    /\ drops < MaxDrops
    /\ at[r] = "arrived" \/ AtHandler(r)
    /\ at' = [at EXCEPT ![r] = "away"]
    /\ drops' = drops + 1
    /\ abandoned' = TRUE
    /\ UNCHANGED <<saw, inflight, gauge, vars, hookVars>>

AdminNext ==
    \/ Tick /\ UNCHANGED <<pathVars, hookVars>>
    \/ \E r \in Reqs :
         \/ RequestCounted(r) \/ RequestPublished(r) \/ RequestFinished(r) \/ Dropped(r)
         \/ Passes(r) \/ Handled(r) \/ Toggled(r)
         \/ \E k \in Keys : Limited(r, k)

AdminSpec == AdminInit /\ [][AdminNext]_adminVars
-----------------------------------------------------------------------------
Idle == \A r \in Reqs : at[r] = "away"

\* Counts are published late and out of order, yet once the service is idle
\* again the gauge shows exactly the requests that were dropped and never
\* subtracted (observability.rs:79-100), whichever order the publications came in,
\* unless the last request to leave was itself dropped.
IdleGauge == Idle /\ ~abandoned => gauge = drops

\* The webhooks' promises, here under budgets, refusals and dropped clients: a
\* deleted hook is revived only by a toggle that had already copied it
\* (webhook.rs:106-108).
RevivedOnlyByRace == W!RevivedOnlyByRace

\* Toggles of one hook that do not overlap each flip it (api/webhooks.rs:46-53).
TogglesCount == W!TogglesCount
=============================================================================
