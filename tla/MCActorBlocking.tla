-------------------------- MODULE MCActorBlocking --------------------------
(* Pools of one and two threads ; two outsiders give lambdas, and a lambda *)
(* of the pool may give one more to its own actor.                         *)
EXTENDS ActorBlocking

CONSTANTS p1, p2, o1, o2

OnePool == {p1}
TwoPool == {p1, p2}
MCOutsiders == {o1, o2}

\* Two lambdas of one outsider show their order; the first two of the queue
\* come from different senders.
MCQuota == [t \in Threads |-> IF t = o1 THEN 2 ELSE 1]
=============================================================================
