--------------------------- MODULE ActorBlocking ---------------------------
(***************************************************************************)
(* An actor that may block (actor/ActorBlocking.cpp): a queue of lambdas   *)
(* under a mutex and a condition variable, served by a pool of threads of  *)
(* its own.  ActorSingleThread is the case of a pool of one.               *)
(*                                                                         *)
(* push decides under the mutex whether it will signal, and signals after  *)
(* unlocking.  A critical section of the mutex is one step; the flag busy  *)
(* is written outside it, by every thread of the pool.                     *)
(***************************************************************************)
EXTENDS Naturals, Sequences, FiniteSetsExt

CONSTANTS
  Pool,          \* the threads of the pool
  Outsiders,     \* other threads that call future on the actor
  Quota,         \* Quota[t]: bound on the lambdas t gives
  None,          \* no lambda
  SpawnMayFail   \* whether the system may refuse a thread

Threads == Pool \cup Outsiders

\* The seq-th lambda that from gave.
Lambda == [from : Threads, seq : Nat \ {0}]

ASSUME ActorBlockingAssumption ==
  /\ Pool \cap Outsiders = {}
  /\ Quota \in [Threads -> Nat]
  /\ None \notin Lambda \cup Threads
  /\ SpawnMayFail \in BOOLEAN

VARIABLES
  pc,          \* pc[p]: where thread p is in svc, and before: not created
  f,           \* f[p]: the lambda p has taken
  afs,         \* the lambdas waiting
  busy,        \* the flag that isBusy returns
  signalling,  \* threads that have queued a lambda and have yet to signal
  sent,        \* sent[t]: how many lambdas t has given
  started      \* the lambdas whose cb has been called

vars == <<pc, f, afs, busy, signalling, sent, started>>

Init ==
  /\ pc = [p \in Pool |-> "new"]
  /\ f = [p \in Pool |-> None]
  /\ afs = <<>>
  /\ busy = FALSE
  /\ signalling = {}
  /\ sent = [t \in Threads |-> 0]
  /\ started = {}

Goto(p, l) == pc' = [pc EXCEPT ![p] = l]

-----------------------------------------------------------------------------
(* The constructor: one pthread_create per thread.  Its failure is an      *)
(* error number, which the code compares with -1, and goes on to detach a  *)
(* thread whose name was not written: the actor is built with the threads  *)
(* it got, or the process ends there, before anybody can call push.        *)

Create(p) == /\ pc[p] = "new" /\ \A q \in Pool : pc[q] # "ended"
             /\ \/ Goto(p, "top")
                \/ SpawnMayFail /\ (Goto(p, "refused") \/ Goto(p, "ended"))
             /\ UNCHANGED <<f, afs, busy, signalling, sent, started>>

Constructed == \A p \in Pool : pc[p] \notin {"new", "ended"}

-----------------------------------------------------------------------------
(* future and push, called by any thread, the pool's own included.         *)

CanCall(t) == /\ Constructed
              /\ t \notin signalling
              /\ t \in Pool => pc[t] = "run"

\* Mutant: the queue is looked at after the lambda was appended.
PushThenLook(t) ==
  /\ CanCall(t)
  /\ sent[t] < Quota[t]
  /\ sent' = [sent EXCEPT ![t] = @ + 1]
  /\ afs' = Append(afs, [from |-> t, seq |-> sent[t] + 1])
  /\ signalling' = IF afs' = <<>> THEN signalling \cup {t} ELSE signalling
  /\ UNCHANGED <<pc, f, busy, started>>

\* Up to the unlock.  Only the lambda that finds the queue empty will signal.
Push(t) ==
  /\ CanCall(t)
  /\ sent[t] < Quota[t]
  /\ sent' = [sent EXCEPT ![t] = @ + 1]
  /\ afs' = Append(afs, [from |-> t, seq |-> sent[t] + 1])
  /\ signalling' = IF afs = <<>> THEN signalling \cup {t} ELSE signalling
  /\ UNCHANGED <<pc, f, busy, started>>

Asleep == {p \in Pool : pc[p] = "wait"}

\* pthread_cond_signal wakes a sleeper, if there is one.
Signal(t) ==
  /\ t \in signalling
  /\ signalling' = signalling \ {t}
  /\ IF Asleep = {} THEN UNCHANGED pc ELSE \E p \in Asleep : Goto(p, "lock")
  /\ UNCHANGED <<f, afs, busy, sent, started>>

-----------------------------------------------------------------------------
(* ActorBlocking::svc.                                                     *)

\* The top of the loop, before the mutex.
Idle(p) == /\ pc[p] = "top"
           /\ busy' = FALSE
           /\ Goto(p, "lock")
           /\ UNCHANGED <<f, afs, signalling, sent, started>>

\* Mutant: the thread sleeps first and looks at the queue when woken.
SleepUnasked(p) == /\ pc[p] = "lock"
                   /\ Goto(p, "wait")
                   /\ UNCHANGED <<f, afs, busy, signalling, sent, started>>

\* With the mutex: sleep on the condition, or take a lambda and unlock.
Sleep(p) == /\ pc[p] = "lock"
            /\ afs = <<>>
            /\ Goto(p, "wait")
            /\ UNCHANGED <<f, afs, busy, signalling, sent, started>>

\* Mutant: front without pop.
TakeFront(p) == /\ pc[p] = "lock"
                /\ afs # <<>>
                /\ f' = [f EXCEPT ![p] = Head(afs)]
                /\ Goto(p, "taken")
                /\ UNCHANGED <<afs, busy, signalling, sent, started>>

\* Mutant: the queue is used as a stack.
TakeNewest(p) == /\ pc[p] = "lock"
                 /\ afs # <<>>
                 /\ f' = [f EXCEPT ![p] = afs[Len(afs)]]
                 /\ afs' = SubSeq(afs, 1, Len(afs) - 1)
                 /\ Goto(p, "taken")
                 /\ UNCHANGED <<busy, signalling, sent, started>>

Take(p) == /\ pc[p] = "lock"
           /\ afs # <<>>
           /\ f' = [f EXCEPT ![p] = Head(afs)]
           /\ afs' = Tail(afs)
           /\ Goto(p, "taken")
           /\ UNCHANGED <<busy, signalling, sent, started>>

\* Mutant: svc tests the queue with an if in place of the while.
SpuriousTaken(p) == /\ pc[p] = "wait"
                    /\ Goto(p, "taken")
                    /\ UNCHANGED <<f, afs, busy, signalling, sent, started>>

\* pthread_cond_wait may return for no reason.
Spurious(p) == /\ pc[p] = "wait"
               /\ Goto(p, "lock")
               /\ UNCHANGED <<f, afs, busy, signalling, sent, started>>

Start(p) == /\ pc[p] = "taken"
            /\ busy' = TRUE
            /\ started' = started \cup {f[p]}
            /\ Goto(p, "run")
            /\ UNCHANGED <<f, afs, signalling, sent>>

\* cb returns and f is deleted.
Finish(p) == /\ pc[p] = "run"
             /\ p \notin signalling
             /\ f' = [f EXCEPT ![p] = None]
             /\ Goto(p, "top")
             /\ UNCHANGED <<afs, busy, signalling, sent, started>>

Svc(p) == Idle(p) \/ Sleep(p) \/ Take(p) \/ Start(p)

Next == \/ \E t \in Threads : Push(t) \/ Signal(t)
        \/ \E p \in Pool : Create(p) \/ Svc(p) \/ Spurious(p) \/ Finish(p)

Safety == Init /\ [][Next]_vars

(***************************************************************************)
(* A runnable thread runs, and a pool thread that stays runnable gets the  *)
(* mutex.  LambdasEnd adds what the documentation does not promise: "a     *)
(* lambda may be blocked for any time" (README.md:95).                     *)
(***************************************************************************)
Fairness == /\ \A t \in Threads : WF_vars(Signal(t))
            /\ \A p \in Pool : WF_vars(Create(p)) /\ WF_vars(Svc(p))

LambdasEnd == \A p \in Pool : WF_vars(Finish(p))

Spec == Safety /\ Fairness /\ LambdasEnd

-----------------------------------------------------------------------------
(* Properties.                                                             *)

\* The types; a thread holds a lambda exactly while it has one to run.
TypeOK ==
  /\ pc \in [Pool -> {"new", "refused", "ended", "top", "lock", "wait", "taken", "run"}]
  /\ f \in [Pool -> Lambda \cup {None}]
  /\ \A p \in Pool : f[p] # None <=> pc[p] \in {"taken", "run"}
  /\ afs \in Seq(Lambda)
  /\ busy \in BOOLEAN
  /\ signalling \subseteq Threads
  /\ sent \in [Threads -> Nat]
  /\ started \subseteq Lambda

Given == UNION {{[from |-> t, seq |-> k] : k \in 1 .. sent[t]} : t \in Threads}
Waiting == {afs[i] : i \in 1 .. Len(afs)}
Taken == {f[p] : p \in {q \in Pool : pc[q] = "taken"}}

\* Every lambda given is waiting, taken by one thread or started: none is
\* lost, none waits twice or starts twice, however push and the pool
\* interleave (ActorBlocking::push, ActorBlocking::svc).
ExactlyOnce ==
  /\ Waiting \cup Taken \cup started = Given
  /\ Waiting \cap Taken = {} /\ Waiting \cap started = {} /\ Taken \cap started = {}
  /\ \A i, j \in 1 .. Len(afs) : afs[i] = afs[j] => i = j
  /\ \A p, q \in Pool : pc[p] = "taken" /\ f[p] = f[q] => p = q

Awake(p) == pc[p] \in {"top", "lock", "taken", "run"}

\* A queue that is not empty has somebody to come back to it: a thread of the
\* pool is awake or a signal is due.  This is what lets push stay silent when
\* it finds the queue not empty.
NoStrandedQueue ==
  afs # <<>> /\ (\E p \in Pool : pc[p] # "refused") =>
     signalling # {} \/ \E p \in Pool : Awake(p)

\* If no lambda blocks forever, every lambda starts, on a pool of any size
\* that got at least one thread.
EveryLambdaStarts ==
  \A t \in Threads : \A k \in 1 .. Quota[t] :
    sent[t] >= k ~> \/ [from |-> t, seq |-> k] \in started
                   \/ \A p \in Pool : pc[p] = "refused"

\* The number of the last lambda of t that has started.
Latest(t) == Max({0} \cup {l.seq : l \in {k \in started : k.from = t}})

\* A pool of one thread (ActorSingleThread) is a mailbox: besides, it starts
\* the lambdas of each sender in the order given.
M == INSTANCE Mailbox WITH
  Workers <- {None},
  sent <- [t \in Threads |-> [w \in {None} |-> sent[t]]],
  ran <- [t \in Threads |-> [w \in {None} |-> Latest(t)]]
MailboxSpec == M!Spec
MailboxSafety == M!Safety
=============================================================================
