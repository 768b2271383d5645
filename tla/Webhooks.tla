-------------------------------- MODULE Webhooks --------------------------------
(***************************************************************************)
(* The webhook subscriptions: WebhookStore of webhook.rs and the handlers  *)
(* of api/webhooks.rs.  The map locks a hook for one operation at a time,  *)
(* so register and delete are one step and a toggle is three: it reads the *)
(* hook, set_active reads it again, set_active writes its copy back.  (The *)
(* read that makes the answer changes nothing and is part of the last.)    *)
(* list only reads, and dispatch is never called: neither is modelled.     *)
(***************************************************************************)
CONSTANTS Ids,    \* the identifiers that registrations draw
          Reqs,   \* the requests that can be in the handlers at a time
          None

VARIABLES hooks,     \* hooks[id]: None, or whether the hook is active
          toggling,  \* toggling[r]: None, or the toggle r is in the middle of
          deleted,   \* history: hooks that a delete was confirmed for
          raced,     \* history: deleted while a toggle was about to write its copy
          odd,       \* history: hooks written by an odd number of toggles
          stale      \* history: hooks with a toggle that decided on an old value

Present(id) == hooks[id] # None

Toggles(id) == {r \in Reqs : toggling[r] # None /\ toggling[r].id = id}

HookInit ==
    /\ hooks = [id \in Ids |-> None]
    /\ toggling = [r \in Reqs |-> None]
    /\ deleted = {} /\ raced = {} /\ odd = {} /\ stale = {}

\* A registration gets an identifier nobody used before.
Register(id) ==
    /\ ~Present(id) /\ id \notin deleted
    /\ hooks' = [hooks EXCEPT ![id] = TRUE]
    /\ UNCHANGED <<toggling, deleted, raced, odd, stale>>

Delete(id) ==
    /\ hooks' = [hooks EXCEPT ![id] = None]
    /\ deleted' = IF Present(id) THEN deleted \cup {id} ELSE deleted
    /\ raced' = IF \E r \in Toggles(id) : toggling[r].copied
                THEN raced \cup {id} ELSE raced \ {id}
    /\ UNCHANGED <<toggling, odd, stale>>

AlwaysOff(active) == FALSE
Wanted(active) == ~active

\* The first read of toggle; a missing hook ends it with 404.
ToggleRead(r, id) ==
    /\ toggling[r] = None
    /\ toggling' = IF Present(id)
                   THEN [toggling EXCEPT ![r] = [id |-> id, want |-> Wanted(hooks[id]),
                                                 copied |-> FALSE]]
                   ELSE toggling
    /\ UNCHANGED <<hooks, deleted, raced, odd, stale>>

CopyUnchecked(r) ==
    /\ toggling[r] # None /\ ~toggling[r].copied
    /\ toggling' = [toggling EXCEPT ![r].copied = TRUE]
    /\ UNCHANGED <<hooks, deleted, raced, odd, stale>>

\* The second read, in set_active; it ends with 404 if the hook is gone by now.
SetActiveCopy(r) ==
    /\ toggling[r] # None /\ ~toggling[r].copied
    /\ toggling' = IF Present(toggling[r].id)
                   THEN [toggling EXCEPT ![r].copied = TRUE]
                   ELSE [toggling EXCEPT ![r] = None]
    /\ UNCHANGED <<hooks, deleted, raced, odd, stale>>

\* The write inserts the copy, whether the hook is still there or not.
SetActiveWrite(r) ==
    LET id == toggling[r].id
    IN /\ toggling[r] # None /\ toggling[r].copied
       /\ hooks' = [hooks EXCEPT ![id] = toggling[r].want]
       /\ toggling' = [toggling EXCEPT ![r] = None]
       /\ odd' = (odd \ {id}) \cup ({id} \ odd)
       /\ stale' = IF Toggles(id) = {r} THEN stale ELSE stale \cup {id}
       /\ UNCHANGED <<deleted, raced>>
-----------------------------------------------------------------------------
\* A hook whose deletion was confirmed comes back only if the delete fell between
\* the second read and the write of a toggle of the same hook (webhook.rs:106-108):
\* toggles that start later, or that read before the delete, cannot revive it.
RevivedOnlyByRace == \A id \in Ids : Present(id) /\ id \in deleted => id \in raced

\* Each toggle flips its hook, also across deletions and other hooks' changes,
\* unless two toggles of the same hook overlapped.
TogglesCount ==
    \A id \in Ids : Present(id) /\ id \notin stale => hooks[id] = (id \notin odd)
=============================================================================
