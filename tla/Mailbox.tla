------------------------------ MODULE Mailbox ------------------------------
(***************************************************************************)
(* What Actor::future promises its callers, with no queue, lock, eventfd   *)
(* or epoll in sight: the lambdas one thread gives to the actors of one    *)
(* worker run exactly once each, in the order they were given, and every   *)
(* one of them runs in the end (Actor.h:39, README.md "ITC").              *)
(*                                                                         *)
(* A lambda is the pair (thread, worker) it travels between and its number *)
(* in that pair; two counters then tell all there is to know.  Fworker     *)
(* implements this specification.                                          *)
(***************************************************************************)
EXTENDS Naturals

CONSTANTS Threads,  \* every thread that calls future
          Workers   \* the Fworker threads, which run lambdas

VARIABLES sent,     \* sent[t][w]: how many lambdas t gave to actors of w
          ran       \* ran[t][w]: number of the last of them that has started

mvars == <<sent, ran>>

Bump(f, t, w) == [f EXCEPT ![t][w] = @ + 1]

Init == /\ sent = [t \in Threads |-> [w \in Workers |-> 0]]
        /\ ran  = [t \in Threads |-> [w \in Workers |-> 0]]

\* t hands a lambda to an actor of another thread and goes on.
Submit(t, w) == /\ t # w
                /\ sent' = Bump(sent, t, w)
                /\ UNCHANGED ran

\* A worker calls future on one of its own actors: the lambda runs at once.
Call(w) == /\ sent' = Bump(sent, w, w)
           /\ ran' = Bump(ran, w, w)

\* w starts the next lambda that t gave it.
Run(t, w) == /\ ran[t][w] < sent[t][w]
             /\ ran' = Bump(ran, t, w)
             /\ UNCHANGED sent

Next == \/ \E t \in Threads, w \in Workers : Submit(t, w) \/ Run(t, w)
        \/ \E w \in Workers : Call(w)

Safety == Init /\ [][Next]_mvars

Spec == Safety /\ \A t \in Threads, w \in Workers : WF_mvars(Run(t, w))
=============================================================================
