----------------------------- MODULE MCFworker -----------------------------
(* Two workers and two outside threads, and a table that says who gives    *)
(* how many lambdas to whom.                                               *)
EXTENDS Fworker

CONSTANTS w1, w2, o1, o2

MCWorkers == {w1, w2}
MCOutsiders == {o1, o2}

\* A quota from the set of pairs that exchange one lambda and the set of those
\* that exchange two, which is enough to tell their order.
QuotaOf(once, twice) ==
  [t \in MCWorkers \cup MCOutsiders |->
     [w \in MCWorkers |-> IF <<t, w>> \in twice THEN 2
                          ELSE IF <<t, w>> \in once THEN 1 ELSE 0]]

\* One outsider feeds w1, which calls itself and w2 (which may only do so
\* because a lambda or a socket woke it).
MCQuota == QuotaOf({<<o2, w1>>, <<w1, w1>>, <<w1, w2>>}, {<<o1, w1>>})
=============================================================================
