---------------------------- MODULE QueueOwnership ----------------------------
(***************************************************************************)
(* What the server promises about the Redis queue that all the instances   *)
(* of one identifier share, one after the other: it has at most one owner; *)
(* only the owner destroys its jobs; whoever comes next gets it after the  *)
(* owner has let go, never while it is being destroyed.                    *)
(***************************************************************************)
CONSTANTS Identifiers, Instances, NoInstance

VARIABLES
  owner,   \* id -> the instance that owns the queue
  phase    \* id -> "free", "held", "wiping" or "leaving"

Init ==
  /\ owner = [id \in Identifiers |-> NoInstance]
  /\ phase = [id \in Identifiers |-> "free"]

Change(id, o, p) ==
  /\ owner' = [owner EXCEPT ![id] = o]
  /\ phase' = [phase EXCEPT ![id] = p]

\* An instance that owns no queue takes a free one.
Acquire(id, i) ==
  /\ phase[id] = "free" /\ \A k \in Identifiers : owner[k] # i
  /\ Change(id, i, "held")

\* The owner decides to destroy the jobs, or to leave them for the next one.
StartWiping(id)  == phase[id] = "held" /\ Change(id, owner[id], "wiping")
StartLeaving(id) == phase[id] \in {"held", "wiping"} /\ Change(id, owner[id], "leaving")

\* Destroying may fail half way; the queue is let go all the same.
Release(id) ==
  /\ phase[id] \in {"wiping", "leaving"}
  /\ Change(id, NoInstance, "free")

Next ==
  \E id \in Identifiers :
    \/ \E i \in Instances : Acquire(id, i)
    \/ StartWiping(id) \/ StartLeaving(id) \/ Release(id)

Spec == Init /\ [][Next]_<<owner, phase>>
=============================================================================
