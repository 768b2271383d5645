------------------------------ MODULE OncePerKey ------------------------------
(***************************************************************************)
(* What the engine promises to the clients of an Idempotency-Key, as they  *)
(* can observe it: no store, no lease, no instance, no clock.              *)
(*                                                                         *)
(* Requests belong to groups: those that meet the same life of a key are   *)
(* one group, a request without a key is a group of its own.  A group      *)
(* moves money for one of its requests at most, and only while nobody has  *)
(* been told the outcome; everybody who is told one is told the same one.  *)
(***************************************************************************)
CONSTANTS Requests, Groups, Bodies, None

VARIABLES group,   \* group[r]: None until r has met its key
          moved,   \* the requests whose payment may be on the chain
          told     \* told[r]: the payment and status the client was answered

vars == <<group, moved, told>>

Peers(g) == {s \in Requests : group[s] = g}

Init ==
    /\ group = [r \in Requests |-> None]
    /\ moved = {}
    /\ told = [r \in Requests |-> None]

\* r becomes a member of some group.
Joins(r) ==
    /\ group[r] = None
    /\ group'[r] \in Groups
    /\ group' = [group EXCEPT ![r] = group'[r]]

\* b is an outcome that the members of g may be told: the one that others
\* were told, about the one payment that moved, confirmed only if it did.
Outcome(g, b) ==
    /\ \A s \in Peers(g) : told[s] \in {None, b}
    /\ moved \cap Peers(g) \subseteq {b.payment}
    /\ b.status = "confirmed" => b.payment \in moved

Join(r) == Joins(r) /\ UNCHANGED <<moved, told>>

\* r sends its payment to the chain.
Move(r) ==
    /\ group[r] # None
    /\ moved' = moved \cup {r}
    /\ \A s \in Peers(group[r]) : told[s] = None /\ (s \in moved => s = r)
    /\ UNCHANGED <<group, told>>

\* The client of r is told an outcome, on joining (a replay) or later.
Tell(r) ==
    /\ told[r] = None
    /\ told'[r] \in Bodies
    /\ told' = [told EXCEPT ![r] = told'[r]]
    /\ Joins(r) \/ (group[r] # None /\ UNCHANGED group)
    /\ Outcome(group'[r], told'[r])
    /\ UNCHANGED moved

Next == \E r \in Requests : Join(r) \/ Move(r) \/ Tell(r)

Spec == Init /\ [][Next]_vars
=============================================================================
