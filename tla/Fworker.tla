------------------------------ MODULE Fworker ------------------------------
(***************************************************************************)
(* The scheduler of libfsc: Actor::future, and the Fworker threads that    *)
(* run what it is given (actor/Actor.cpp, core/Fworker.cpp).               *)
(*                                                                         *)
(* A worker sleeps in epoll_wait.  A thread that hands it a lambda appends *)
(* it to the queue afs under the spinlock, and only after unlocking writes *)
(* the worker's eventfd; between these two steps anything may happen.  The *)
(* worker drains the eventfd among the events of a batch and then empties  *)
(* afs, one lambda per lock.  The eventfd is registered edge triggered.    *)
(*                                                                         *)
(* A critical section of the spinlock is one step: afs is touched nowhere  *)
(* else.  The flag busy is written and never read, and is left out.        *)
(***************************************************************************)
EXTENDS Naturals, Sequences

CONSTANTS
  Workers,    \* the threads of Fsc::wks
  Outsiders,  \* other threads that call future: the application's, the one
              \* inside Fsc::hold, the pools of ActorBlocking
  Quota,      \* Quota[t][w]: bound on the lambdas t gives to actors of w
  None        \* no worker

Threads == Workers \cup Outsiders

ASSUME FworkerAssumption ==
  /\ Workers \cap Outsiders = {}
  /\ None \notin Workers
  /\ Quota \in [Threads -> [Workers -> Nat]]

VARIABLES
  afs,      \* afs[w]: the lambdas waiting for w
  evn,      \* evn[w]: the counter of w's eventfd is not zero
  edge,     \* edge[w]: the eventfd is on the ready list of w's epoll instance
  pc,       \* pc[w]: where the loop of w is
  batch,    \* batch[w]: events of the last epoll_wait not dispatched yet
  depth,    \* depth[w]: nesting of the callbacks w is in (handlers, lambdas)
  pushing,  \* pushing[t]: worker whose afs t has extended and whose eventfd
            \* it has yet to write
  sent,     \* sent[t][w]: lambdas given so far
  ran       \* ran[t][w]: number of the last of them w has started

queueVars == <<afs, sent, ran>>
loopVars  == <<pc, batch, depth>>
vars      == <<queueVars, loopVars, evn, edge, pushing>>

\* What epoll_wait can report: the eventfd, or the sockets of the worker.
Events == {"evn", "socket"}

\* The seq-th lambda that thread from gave to the worker holding it.
Lambda == [from : Threads, seq : Nat \ {0}]

Init ==
  /\ afs     = [w \in Workers |-> <<>>]
  /\ evn     = [w \in Workers |-> FALSE]
  /\ edge    = [w \in Workers |-> FALSE]
  /\ pc      = [w \in Workers |-> "boot"]
  /\ batch   = [w \in Workers |-> {}]
  /\ depth   = [w \in Workers |-> 0]
  /\ pushing = [t \in Threads |-> None]
  /\ sent    = [t \in Threads |-> [w \in Workers |-> 0]]
  /\ ran     = [t \in Threads |-> [w \in Workers |-> 0]]

-----------------------------------------------------------------------------
(* Actor::future, called by any thread.                                    *)

\* Thread t is in application code: a worker is there only inside a callback.
CanCall(t) == /\ pushing[t] = None
              /\ t \in Workers => depth[t] > 0

\* The caller runs on the actor's own worker: cb() is called on the spot,
\* inside the callback that is running.
FutureInline(w) ==
  /\ CanCall(w)
  /\ sent[w][w] < Quota[w][w]
  /\ sent' = [sent EXCEPT ![w][w] = @ + 1]
  /\ ran' = [ran EXCEPT ![w][w] = sent[w][w] + 1]
  /\ depth' = [depth EXCEPT ![w] = @ + 1]
  /\ UNCHANGED <<afs, pc, batch, evn, edge, pushing>>

\* Fworker::push up to the unlock.
Push(t, w) ==
  /\ CanCall(t)
  /\ t # w
  /\ sent[t][w] < Quota[t][w]
  /\ sent' = [sent EXCEPT ![t][w] = @ + 1]
  /\ afs' = [afs EXCEPT ![w] = Append(@, [from |-> t, seq |-> sent[t][w] + 1])]
  /\ pushing' = [pushing EXCEPT ![t] = w]
  /\ UNCHANGED <<ran, loopVars, evn, edge>>

\* Mutant: as ActorBlocking does, signal only when the queue was empty, but
\* read its length after the unlock.
WriteEvnIfFirst(t) ==
  /\ pushing[t] # None
  /\ LET w == pushing[t] IN
       /\ evn' = [evn EXCEPT ![w] = @ \/ Len(afs[w]) = 1]
       /\ edge' = [edge EXCEPT ![w] = @ \/ (Len(afs[w]) = 1 /\ pc[w] # "boot")]
  /\ pushing' = [pushing EXCEPT ![t] = None]
  /\ UNCHANGED <<queueVars, loopVars>>

\* Fworker::push after the unlock: the write makes the eventfd readable, and
\* ready in the epoll instance once the worker has registered it there.
WriteEvn(t) ==
  /\ pushing[t] # None
  /\ LET w == pushing[t] IN
       /\ evn' = [evn EXCEPT ![w] = TRUE]
       /\ edge' = [edge EXCEPT ![w] = pc[w] # "boot"]
  /\ pushing' = [pushing EXCEPT ![t] = None]
  /\ UNCHANGED <<queueVars, loopVars>>

-----------------------------------------------------------------------------
(* Fworker::loop.                                                          *)

\* A worker is between two callbacks, at point p of its loop.
At(w, p) == pc[w] = p /\ depth[w] = 0

\* The thread starts and registers its eventfd; EPOLL_CTL_ADD puts on the
\* ready list a descriptor that is readable already.
Boot(w) ==
  /\ At(w, "boot")
  /\ pc' = [pc EXCEPT ![w] = "wait"]
  /\ edge' = [edge EXCEPT ![w] = evn[w]]
  /\ UNCHANGED <<queueVars, batch, depth, evn, pushing>>

EvnReady(w) == edge[w] /\ evn[w]

\* epoll_wait returns everything that is ready; reporting takes an edge
\* triggered descriptor off the ready list.  Sockets are ready or not as the
\* peers please.
EpollWait(w, socket) ==
  /\ At(w, "wait")
  /\ socket \/ EvnReady(w)
  /\ batch' = [batch EXCEPT ![w] = {e \in Events : IF e = "evn" THEN EvnReady(w) ELSE socket}]
  /\ edge' = [edge EXCEPT ![w] = FALSE]
  /\ pc' = [pc EXCEPT ![w] = "dispatch"]
  /\ UNCHANGED <<queueVars, depth, evn, pushing>>

\* Fworker::evnItc: read the eventfd until it is empty.
EvnItc(w) ==
  /\ At(w, "dispatch")
  /\ "evn" \in batch[w]
  /\ batch' = [batch EXCEPT ![w] = @ \ {"evn"}]
  /\ evn' = [evn EXCEPT ![w] = FALSE]
  /\ UNCHANGED <<queueVars, pc, depth, edge, pushing>>

\* A socket event: the handler runs application code, which may call future.
EvnSocket(w) ==
  /\ At(w, "dispatch")
  /\ "socket" \in batch[w]
  /\ batch' = [batch EXCEPT ![w] = @ \ {"socket"}]
  /\ depth' = [depth EXCEPT ![w] = 1]
  /\ UNCHANGED <<queueVars, pc, evn, edge, pushing>>

\* Mutant: doFuture is called inside the loop over the batch.
DispatchedEarly(w) ==
  /\ At(w, "dispatch")
  /\ pc' = [pc EXCEPT ![w] = "future"]
  /\ UNCHANGED <<queueVars, batch, depth, evn, edge, pushing>>

\* The batch is done: on to doFuture.
Dispatched(w) ==
  /\ At(w, "dispatch")
  /\ batch[w] = {}
  /\ pc' = [pc EXCEPT ![w] = "future"]
  /\ UNCHANGED <<queueVars, batch, depth, evn, edge, pushing>>

\* Mutant: the queue is used as a stack.
DoFutureNewest(w) ==
  /\ At(w, "future")
  /\ afs[w] # <<>>
  /\ LET f == afs[w][Len(afs[w])] IN ran' = [ran EXCEPT ![f.from][w] = f.seq]
  /\ afs' = [afs EXCEPT ![w] = SubSeq(@, 1, Len(@) - 1)]
  /\ depth' = [depth EXCEPT ![w] = 1]
  /\ UNCHANGED <<sent, pc, batch, evn, edge, pushing>>

\* Mutant: one lambda per wakeup, though one wakeup may stand for several.
DoFutureOnce(w) ==
  /\ At(w, "future")
  /\ afs[w] # <<>>
  /\ LET f == Head(afs[w]) IN ran' = [ran EXCEPT ![f.from][w] = f.seq]
  /\ afs' = [afs EXCEPT ![w] = Tail(@)]
  /\ depth' = [depth EXCEPT ![w] = 1]
  /\ pc' = [pc EXCEPT ![w] = "wait"]
  /\ UNCHANGED <<sent, batch, evn, edge, pushing>>

\* Fworker::doFuture, one turn of its loop: pop under the lock, call cb.
DoFuture(w) ==
  /\ At(w, "future")
  /\ afs[w] # <<>>
  /\ LET f == Head(afs[w]) IN ran' = [ran EXCEPT ![f.from][w] = f.seq]
  /\ afs' = [afs EXCEPT ![w] = Tail(@)]
  /\ depth' = [depth EXCEPT ![w] = 1]
  /\ UNCHANGED <<sent, pc, batch, evn, edge, pushing>>

\* Fworker::doFuture finds afs empty and returns; the loop goes back to sleep.
NoFuture(w) ==
  /\ At(w, "future")
  /\ afs[w] = <<>>
  /\ pc' = [pc EXCEPT ![w] = "wait"]
  /\ UNCHANGED <<queueVars, batch, depth, evn, edge, pushing>>

\* The innermost callback of w returns.
Return(w) ==
  /\ depth[w] > 0
  /\ pushing[w] = None
  /\ depth' = [depth EXCEPT ![w] = @ - 1]
  /\ UNCHANGED <<queueVars, pc, batch, evn, edge, pushing>>

Loop(w) == \/ Boot(w) \/ EvnItc(w) \/ EvnSocket(w) \/ Dispatched(w)
           \/ DoFuture(w) \/ NoFuture(w) \/ Return(w)
           \/ \E socket \in BOOLEAN : EpollWait(w, socket)

Next == \/ \E w \in Workers : Loop(w) \/ FutureInline(w)
        \/ \E t \in Threads : WriteEvn(t) \/ \E w \in Workers : Push(t, w)

Safety == Init /\ [][Next]_vars

(***************************************************************************)
(* A thread that can go on does so, and callbacks return: only the lambdas *)
(* of ActorBlocking may block (README.md:90).  Nobody owes the worker a    *)
(* socket event, and nobody has to call future.                            *)
(***************************************************************************)
Fairness ==
  /\ \A t \in Threads : WF_vars(WriteEvn(t))
  /\ \A w \in Workers :
       /\ WF_vars(Boot(w) \/ EvnItc(w) \/ EvnSocket(w) \/ Dispatched(w)
                  \/ DoFuture(w) \/ NoFuture(w) \/ Return(w))
       /\ WF_vars(EvnReady(w) /\ \E socket \in BOOLEAN : EpollWait(w, socket))

Spec == Safety /\ Fairness

-----------------------------------------------------------------------------
(* Properties.                                                             *)

\* The types, and which variables are at rest where: no event of a batch is
\* left over when the loop leaves the dispatch, and callbacks run only there
\* and in doFuture.
TypeOK ==
  /\ afs \in [Workers -> Seq(Lambda)]
  /\ evn \in [Workers -> BOOLEAN]
  /\ edge \in [Workers -> BOOLEAN]
  /\ pc \in [Workers -> {"boot", "wait", "dispatch", "future"}]
  /\ batch \in [Workers -> SUBSET Events]
  /\ depth \in [Workers -> Nat]
  /\ pushing \in [Threads -> Workers \cup {None}]
  /\ sent \in [Threads -> [Workers -> Nat]]
  /\ ran \in [Threads -> [Workers -> Nat]]
  /\ \A w \in Workers : /\ batch[w] # {} => pc[w] = "dispatch"
                        /\ depth[w] > 0 => pc[w] \in {"dispatch", "future"}

\* Somebody is about to write the eventfd of w.
WakeupDue(w) == \E t \in Threads : pushing[t] = w

\* A worker never sleeps on work: if a lambda waits while the worker is in
\* epoll_wait (or has not reached it yet), the eventfd will wake it, or the
\* thread that queued a lambda has still to write it (Fworker::push,
\* Fworker::evnItc, Fworker::doFuture).
NoLostWakeup ==
  \A w \in Workers : afs[w] # <<>> =>
    /\ pc[w] = "wait" => EvnReady(w) \/ WakeupDue(w)
    /\ pc[w] = "boot" => evn[w] \/ WakeupDue(w)

\* Queue q of a worker that has started the first r[t] of the s[t] lambdas
\* given by t: what waits is exactly what was given and has not started, for
\* each sender in the order given.
Ordered(q, r, s) ==
  /\ \A t \in Threads : r[t] <= s[t]
  /\ \A i \in 1 .. Len(q) : r[q[i].from] < q[i].seq /\ q[i].seq <= s[q[i].from]
  /\ \A i, j \in 1 .. Len(q) : i < j /\ q[i].from = q[j].from => q[i].seq < q[j].seq
  /\ \A t \in Threads : \A k \in r[t] + 1 .. s[t] :
       \E i \in 1 .. Len(q) : q[i] = [from |-> t, seq |-> k]

Ran(w) == [t \in Threads |-> ran[t][w]]
Sent(w) == [t \in Threads |-> sent[t][w]]

\* No lambda is lost, doubled or overtaken by a later one of its sender, and
\* what a worker gives to itself never waits (Actor::future, Fworker::push,
\* Fworker::doFuture).
InOrder == \A w \in Workers : /\ Ordered(afs[w], Ran(w), Sent(w))
                              /\ ran[w][w] = sent[w][w]

\* The queue, the eventfd and the loop together keep the promise of
\* Actor::future: exactly once, in order per sender, and in the end.
M == INSTANCE Mailbox
MailboxSpec == M!Spec
MailboxSafety == M!Safety
=============================================================================
