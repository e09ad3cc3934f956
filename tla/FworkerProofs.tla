--------------------------- MODULE FworkerProofs ---------------------------
(***************************************************************************)
(* For every set of workers and threads and every quota: the types, that   *)
(* no wakeup is lost, that every sender is served in order, and that each  *)
(* step of the scheduler is a step of Mailbox or none.                     *)
(***************************************************************************)
EXTENDS Fworker, TLAPS

-----------------------------------------------------------------------------
(* Type correctness.                                                       *)

LEMMA InitType == Init => TypeOK
  BY FworkerAssumption DEF Init, TypeOK, Lambda, Events, Threads

LEMMA NextType == TypeOK /\ [Next]_vars => TypeOK'
<1> SUFFICES ASSUME TypeOK, [Next]_vars PROVE TypeOK'
  OBVIOUS
<1> USE FworkerAssumption DEF TypeOK, Threads, Events, At, CanCall
<1>1. ASSUME NEW w \in Workers, FutureInline(w) PROVE TypeOK'
  <2>1. w \in Threads /\ sent[w][w] + 1 \in Nat
    OBVIOUS
  <2>2. sent' \in [Threads -> [Workers -> Nat]]
    BY <1>1, <2>1 DEF FutureInline
  <2>3. ran' \in [Threads -> [Workers -> Nat]]
    BY <1>1, <2>1 DEF FutureInline
  <2>4. /\ depth' \in [Workers -> Nat]
        /\ \A v \in Workers : depth'[v] > 0 => depth[v] > 0
    BY <1>1 DEF FutureInline
  <2> QED
    BY <1>1, <2>2, <2>3, <2>4 DEF FutureInline
<1>2. ASSUME NEW t \in Threads, NEW w \in Workers, Push(t, w) PROVE TypeOK'
  <2>1. [from |-> t, seq |-> sent[t][w] + 1] \in Lambda
    BY SMTT(20) DEF Lambda
  <2>2. Append(afs[w], [from |-> t, seq |-> sent[t][w] + 1]) \in Seq(Lambda)
    BY <2>1
  <2>3. afs' \in [Workers -> Seq(Lambda)]
    BY <1>2, <2>2 DEF Push
  <2>4. sent' \in [Threads -> [Workers -> Nat]]
    BY <1>2 DEF Push
  <2>5. pushing' \in [Threads -> Workers \cup {None}]
    BY <1>2 DEF Push
  <2> QED
    BY <1>2, <2>3, <2>4, <2>5 DEF Push, loopVars
<1>3. ASSUME NEW t \in Threads, WriteEvn(t) PROVE TypeOK'
  BY <1>3 DEF WriteEvn, queueVars, loopVars
<1>4. ASSUME NEW w \in Workers, Boot(w) PROVE TypeOK'
  BY <1>4 DEF Boot, queueVars
<1>5. ASSUME NEW w \in Workers, NEW socket \in BOOLEAN, EpollWait(w, socket)
      PROVE  TypeOK'
  <2>1. batch' \in [Workers -> SUBSET Events]
    BY <1>5 DEF EpollWait
  <2> QED
    BY <1>5, <2>1 DEF EpollWait, queueVars
<1>6. ASSUME NEW w \in Workers, EvnItc(w) PROVE TypeOK'
  BY <1>6 DEF EvnItc, queueVars
<1>7. ASSUME NEW w \in Workers, EvnSocket(w) PROVE TypeOK'
  BY <1>7 DEF EvnSocket, queueVars
<1>8. ASSUME NEW w \in Workers, Dispatched(w) PROVE TypeOK'
  BY <1>8 DEF Dispatched, queueVars
<1>9. ASSUME NEW w \in Workers, DoFuture(w) PROVE TypeOK'
  <2>1. Head(afs[w]) \in Lambda /\ Tail(afs[w]) \in Seq(Lambda)
    BY <1>9 DEF DoFuture
  <2>2. afs' \in [Workers -> Seq(Lambda)]
    BY <1>9, <2>1 DEF DoFuture
  <2>3. ran' \in [Threads -> [Workers -> Nat]]
    BY <1>9, <2>1 DEF DoFuture, Lambda
  <2> QED
    BY <1>9, <2>2, <2>3 DEF DoFuture
<1>10. ASSUME NEW w \in Workers, NoFuture(w) PROVE TypeOK'
  <2>1. depth[w] = 0 /\ batch[w] = {}
    BY <1>10 DEF NoFuture
  <2>2. pc' \in [Workers -> {"boot", "wait", "dispatch", "future"}]
    BY <1>10 DEF NoFuture
  <2>3. \A v \in Workers \ {w} : pc'[v] = pc[v]
    BY <1>10 DEF NoFuture
  <2> QED
    BY SMTT(20), <1>10, <2>1, <2>2, <2>3 DEF NoFuture, queueVars
<1>11. ASSUME NEW w \in Workers, Return(w) PROVE TypeOK'
  <2>1. /\ depth' \in [Workers -> Nat]
        /\ \A v \in Workers : depth'[v] > 0 => depth[v] > 0
    BY <1>11 DEF Return
  <2> QED
    BY <1>11, <2>1 DEF Return, queueVars
<1>12. CASE UNCHANGED vars
  BY <1>12 DEF vars, queueVars, loopVars
<1> HIDE DEF TypeOK, Threads, Events, At, CanCall
<1>13. ASSUME NEW w \in Workers, Loop(w) PROVE TypeOK'
  BY <1>4, <1>5, <1>6, <1>7, <1>8, <1>9, <1>10, <1>11, <1>13 DEF Loop
<1> QED
  BY <1>1, <1>2, <1>3, <1>12, <1>13 DEF Next

\* Every reachable state of the scheduler is well typed, no event of a batch
\* outlives its dispatch, and callbacks run only where the loop calls them.
THEOREM TypeCorrect == Safety => []TypeOK
  BY InitType, NextType, PTL DEF Safety

-----------------------------------------------------------------------------
(* No lost wakeup.  The invariant is inductive with the types: what a step *)
(* of one worker or thread does to another worker's wakeup is to add to it.*)

LEMMA NextWakeup == TypeOK /\ NoLostWakeup /\ [Next]_vars => NoLostWakeup'
<1> SUFFICES ASSUME TypeOK, NoLostWakeup, [Next]_vars,
                    NEW v \in Workers, (afs[v] # <<>>)'
             PROVE  /\ (pc[v] = "wait" => EvnReady(v) \/ WakeupDue(v))'
                    /\ (pc[v] = "boot" => evn[v] \/ WakeupDue(v))'
  BY DEF NoLostWakeup
<1> DEFINE Kept == /\ (pc[v] = "wait" => EvnReady(v) \/ WakeupDue(v))'
                   /\ (pc[v] = "boot" => evn[v] \/ WakeupDue(v))'
<1> USE FworkerAssumption DEF TypeOK, NoLostWakeup, EvnReady, WakeupDue, At
<1>1. ASSUME NEW w \in Workers, FutureInline(w) PROVE Kept
  BY <1>1 DEF FutureInline
<1>2. ASSUME NEW t \in Threads, NEW w \in Workers, Push(t, w) PROVE Kept
  \* Another worker's queue and pending writes are as before: t had none.
  <2>1. CASE v = w
    BY <1>2, <2>1 DEF Push, loopVars
  <2>2. CASE v # w
    BY <1>2, <2>2 DEF Push, loopVars, CanCall
  <2> QED
    BY <2>1, <2>2
<1>3. ASSUME NEW t \in Threads, WriteEvn(t) PROVE Kept
  <2>1. CASE pushing[t] = v
    BY <1>3, <2>1 DEF WriteEvn, queueVars, loopVars
  <2>2. CASE pushing[t] # v
    BY <1>3, <2>2 DEF WriteEvn, queueVars, loopVars
  <2> QED
    BY <2>1, <2>2
<1>4. ASSUME NEW w \in Workers, Boot(w) PROVE Kept
  BY <1>4 DEF Boot, queueVars
<1>5. ASSUME NEW w \in Workers, NEW socket \in BOOLEAN, EpollWait(w, socket)
      PROVE  Kept
  BY <1>5 DEF EpollWait, queueVars
<1>6. ASSUME NEW w \in Workers, EvnItc(w) PROVE Kept
  BY <1>6 DEF EvnItc, queueVars
<1>7. ASSUME NEW w \in Workers, EvnSocket(w) PROVE Kept
  BY <1>7 DEF EvnSocket, queueVars
<1>8. ASSUME NEW w \in Workers, Dispatched(w) PROVE Kept
  BY <1>8 DEF Dispatched, queueVars
<1>9. ASSUME NEW w \in Workers, DoFuture(w) PROVE Kept
  BY <1>9 DEF DoFuture
<1>10. ASSUME NEW w \in Workers, NoFuture(w) PROVE Kept
  BY <1>10 DEF NoFuture, queueVars
<1>11. ASSUME NEW w \in Workers, Return(w) PROVE Kept
  BY <1>11 DEF Return, queueVars
<1>12. CASE UNCHANGED vars
  BY <1>12 DEF vars, queueVars, loopVars
<1> QED
  BY <1>1, <1>2, <1>3, <1>4, <1>5, <1>6, <1>7, <1>8, <1>9, <1>10, <1>11, <1>12
  DEF Next, Loop

\* Whatever the interleaving of pushes, eventfd writes and the loop, a worker
\* with a queued lambda is awake, about to be woken, or will find the eventfd
\* readable when it registers it.
THEOREM NoWakeupIsLost == Safety => []NoLostWakeup
<1>1. Init => NoLostWakeup
  BY DEF Init, NoLostWakeup
<1> QED
  BY <1>1, NextWakeup, TypeCorrect, PTL DEF Safety

-----------------------------------------------------------------------------
(* Order.  A push extends one queue at its end with the next number of its *)
(* sender; a pop takes the head, which Ordered makes the next one due.     *)

LEMMA LambdaFields ==
  ASSUME NEW q \in Seq(Lambda), NEW i \in 1 .. Len(q)
  PROVE  q[i].from \in Threads /\ q[i].seq \in Nat
<1>1. q[i] \in Lambda
  OBVIOUS
<1> QED
  BY <1>1 DEF Lambda

LEMMA AppendOrdered ==
  ASSUME NEW q \in Seq(Lambda), NEW r \in [Threads -> Nat], NEW s \in [Threads -> Nat],
         Ordered(q, r, s), NEW t \in Threads
  PROVE  Ordered(Append(q, [from |-> t, seq |-> s[t] + 1]), r, [s EXCEPT ![t] = @ + 1])
<1> DEFINE f == [from |-> t, seq |-> s[t] + 1]
           p == Append(q, f)
           u == [s EXCEPT ![t] = @ + 1]
           n == Len(q)
<1>1. n \in Nat /\ s[t] \in Nat /\ f.from = t /\ f.seq = s[t] + 1
  OBVIOUS
<1>2. /\ Len(p) = n + 1
      /\ p[n + 1] = f
      /\ \A i \in 1 .. n : p[i] = q[i]
  OBVIOUS
<1>3. \A i \in 1 .. n : q[i].from \in Threads /\ q[i].seq \in Nat
  BY LambdaFields
<1>4. u[t] = s[t] + 1 /\ \A v \in Threads : v # t => u[v] = s[v]
  OBVIOUS
<1> HIDE DEF f, p, u, n
<1>5. \A v \in Threads : r[v] \in Nat /\ s[v] \in Nat /\ u[v] \in Nat /\ s[v] <= u[v]
  BY <1>1, <1>4
<1>6. \A v \in Threads : r[v] <= u[v]
  BY <1>5 DEF Ordered
<1>7. ASSUME NEW i \in 1 .. Len(p) PROVE r[p[i].from] < p[i].seq /\ p[i].seq <= u[p[i].from]
  <2>1. CASE i = n + 1
    BY <1>1, <1>2, <1>4, <1>5, <2>1 DEF Ordered
  <2>2. CASE i \in 1 .. n
    BY SMTT(20), <1>1, <1>2, <1>3, <1>5, <2>2 DEF Ordered, n
  <2> QED
    BY <1>1, <1>2, <2>1, <2>2
<1>8. ASSUME NEW i \in 1 .. Len(p), NEW j \in 1 .. Len(p), i < j, p[i].from = p[j].from
      PROVE  p[i].seq < p[j].seq
  <2>1. i \in 1 .. n
    BY <1>1, <1>2, <1>8
  <2>2. CASE j = n + 1
    \* The old ones of t are numbered at most s[t].
    <3>1. p[i] = q[i] /\ q[i].from = t /\ q[i].seq <= s[t]
      BY <1>1, <1>2, <1>8, <2>1, <2>2 DEF Ordered, n
    <3> QED
      BY <1>1, <1>2, <1>3, <2>1, <2>2, <3>1
  <2>3. CASE j \in 1 .. n
    BY <1>2, <1>8, <2>1, <2>3 DEF Ordered, n
  <2> QED
    BY <1>1, <1>2, <2>2, <2>3
<1>9. ASSUME NEW v \in Threads, NEW k \in r[v] + 1 .. u[v]
      PROVE  \E i \in 1 .. Len(p) : p[i] = [from |-> v, seq |-> k]
  <2>1. CASE v = t /\ k = s[t] + 1
    BY <1>1, <1>2, <2>1 DEF f
  <2>2. CASE ~(v = t /\ k = s[t] + 1)
    <3>1. k \in r[v] + 1 .. s[v]
      BY <1>1, <1>4, <1>5, <2>2
    <3>2. PICK i \in 1 .. n : q[i] = [from |-> v, seq |-> k]
      BY <3>1 DEF Ordered, n
    <3> QED
      BY <1>1, <1>2, <3>2
  <2> QED
    BY <2>1, <2>2
<1> QED
  BY <1>6, <1>7, <1>8, <1>9 DEF Ordered, p, u, f

LEMMA TailOrdered ==
  ASSUME NEW q \in Seq(Lambda), NEW r \in [Threads -> Nat], NEW s \in [Threads -> Nat],
         Ordered(q, r, s), q # <<>>
  PROVE  /\ Head(q) \in Lambda
         /\ Head(q).seq = r[Head(q).from] + 1
         /\ Head(q).seq <= s[Head(q).from]
         /\ Ordered(Tail(q), [r EXCEPT ![Head(q).from] = Head(q).seq], s)
<1> DEFINE f == Head(q)
           t == f.from
           p == Tail(q)
           z == [r EXCEPT ![t] = f.seq]
           n == Len(q)
<1>1. n \in Nat /\ n > 0 /\ f = q[1] /\ f \in Lambda /\ 1 \in 1 .. n
  OBVIOUS
<1>2. Len(p) = n - 1 /\ \A i \in 1 .. n - 1 : p[i] = q[i + 1]
  OBVIOUS
<1>3. \A i \in 1 .. n : q[i].from \in Threads /\ q[i].seq \in Nat
  BY LambdaFields
<1>4. t \in Threads /\ f.seq \in Nat /\ \A v \in Threads : r[v] \in Nat /\ s[v] \in Nat
  BY <1>1 DEF Lambda
<1>5. z[t] = f.seq /\ \A v \in Threads : v # t => z[v] = r[v]
  BY <1>4
<1> HIDE DEF f, p, z, n
<1>6. r[t] < f.seq /\ f.seq <= s[t]
  BY <1>1 DEF Ordered, t, n
<1>7. f.seq = r[t] + 1
  <2>1. r[t] + 1 \in r[t] + 1 .. s[t]
    BY <1>4, <1>6
  <2>2. PICK i \in 1 .. n : q[i] = [from |-> t, seq |-> r[t] + 1]
    BY <1>4, <2>1 DEF Ordered, n
  <2>3. q[i].from = t /\ q[i].seq = r[t] + 1
    BY <2>2
  <2>4. CASE i = 1
    BY <1>1, <2>3, <2>4
  <2>5. CASE i # 1
    <3>1. f.seq < r[t] + 1
      BY <1>1, <2>3, <2>5 DEF Ordered, n, t
    <3> QED
      BY <1>4, <1>6, <3>1
  <2> QED
    BY <2>4, <2>5
<1>8. \A v \in Threads : z[v] \in Nat /\ z[v] <= s[v]
  BY <1>4, <1>5, <1>6 DEF Ordered
<1>9. ASSUME NEW i \in 1 .. Len(p) PROVE z[p[i].from] < p[i].seq /\ p[i].seq <= s[p[i].from]
  <2>1. i + 1 \in 1 .. n /\ 1 < i + 1 /\ p[i] = q[i + 1]
    BY <1>1, <1>2
  <2>2. r[p[i].from] < p[i].seq /\ p[i].seq <= s[p[i].from]
    BY <2>1 DEF Ordered, n
  <2>3. CASE p[i].from = t
    <3>1. f.seq < p[i].seq
      BY <1>1, <2>1, <2>3 DEF Ordered, n, t
    <3> QED
      BY <1>5, <2>2, <2>3, <3>1
  <2>4. CASE p[i].from # t
    BY <1>3, <1>5, <2>1, <2>2, <2>4
  <2> QED
    BY <2>3, <2>4
<1>10. ASSUME NEW i \in 1 .. Len(p), NEW j \in 1 .. Len(p), i < j, p[i].from = p[j].from
       PROVE  p[i].seq < p[j].seq
  <2>1. i + 1 \in 1 .. n /\ j + 1 \in 1 .. n /\ i + 1 < j + 1
    BY <1>1, <1>2, <1>10
  <2>2. p[i] = q[i + 1] /\ p[j] = q[j + 1]
    BY <1>1, <1>2
  <2> QED
    BY <1>10, <2>1, <2>2 DEF Ordered, n
<1>11. ASSUME NEW v \in Threads, NEW k \in z[v] + 1 .. s[v]
       PROVE  \E i \in 1 .. Len(p) : p[i] = [from |-> v, seq |-> k]
  <2>1. k \in r[v] + 1 .. s[v]
    BY <1>4, <1>5, <1>6
  <2>2. PICK i \in 1 .. n : q[i] = [from |-> v, seq |-> k]
    BY <2>1 DEF Ordered, n
  <2>3. i # 1
    BY <1>1, <1>4, <1>5, <2>2 DEF t
  <2>4. i - 1 \in 1 .. n - 1 /\ p[i - 1] = q[(i - 1) + 1] /\ (i - 1) + 1 = i
    BY <1>1, <1>2, <2>3
  <2> QED
    BY <1>2, <2>2, <2>4
<1> QED
  BY <1>1, <1>6, <1>7, <1>8, <1>9, <1>10, <1>11 DEF Ordered, f, t, p, z

\* A sender none of whose lambdas waits hands over one more, and it runs at once.
LEMMA CallOrdered ==
  ASSUME NEW q \in Seq(Lambda), NEW r \in [Threads -> Nat], NEW s \in [Threads -> Nat],
         Ordered(q, r, s), NEW t \in Threads, r[t] = s[t]
  PROVE  Ordered(q, [r EXCEPT ![t] = s[t] + 1], [s EXCEPT ![t] = @ + 1])
<1> DEFINE z == [r EXCEPT ![t] = s[t] + 1]
           u == [s EXCEPT ![t] = @ + 1]
<1>1. /\ \A v \in Threads : r[v] \in Nat /\ s[v] \in Nat
      /\ z[t] = u[t]
      /\ u[t] = s[t] + 1
      /\ \A v \in Threads : v # t => z[v] = r[v] /\ u[v] = s[v]
  OBVIOUS
<1> HIDE DEF z, u
<1>2. \A i \in 1 .. Len(q) : q[i].from \in Threads /\ q[i].seq \in Nat
  BY LambdaFields
<1>3. \A v \in Threads : z[v] <= u[v]
  BY <1>1 DEF Ordered
<1>4. \A i \in 1 .. Len(q) : q[i].from # t
  BY <1>1, <1>2 DEF Ordered
<1>5. \A i \in 1 .. Len(q) : z[q[i].from] < q[i].seq /\ q[i].seq <= u[q[i].from]
  BY <1>1, <1>2, <1>4 DEF Ordered
<1>6. ASSUME NEW v \in Threads, NEW k \in z[v] + 1 .. u[v]
      PROVE  \E i \in 1 .. Len(q) : q[i] = [from |-> v, seq |-> k]
  <2>1. v # t
    BY <1>1
  <2>2. k \in r[v] + 1 .. s[v]
    BY <1>1, <2>1
  <2> QED
    BY <2>2 DEF Ordered
<1> QED
  BY <1>3, <1>5, <1>6 DEF Ordered, z, u

LEMMA InitInOrder == Init => InOrder
<1> SUFFICES ASSUME Init, NEW w \in Workers
             PROVE  Ordered(afs[w], Ran(w), Sent(w)) /\ ran[w][w] = sent[w][w]
  BY DEF InOrder
<1>1. afs[w] = <<>> /\ ran[w][w] = sent[w][w]
  BY DEF Init, Threads
<1>2. \A t \in Threads : Ran(w)[t] = 0 /\ Sent(w)[t] = 0
  BY DEF Init, Ran, Sent
<1> QED
  BY <1>1, <1>2 DEF Ordered

LEMMA CountsType ==
  ASSUME TypeOK, NEW w \in Workers
  PROVE  Ran(w) \in [Threads -> Nat] /\ Sent(w) \in [Threads -> Nat] /\ afs[w] \in Seq(Lambda)
  BY DEF TypeOK, Ran, Sent

\* Every step that leaves the queues and the counters alone.
LEMMA KeepsOrder ==
  ASSUME InOrder, UNCHANGED queueVars
  PROVE  InOrder'
  BY DEF InOrder, queueVars, Ran, Sent, Ordered

LEMMA NextInOrder == TypeOK /\ InOrder /\ [Next]_vars => InOrder'
<1> SUFFICES ASSUME TypeOK, InOrder, [Next]_vars PROVE InOrder'
  OBVIOUS
<1>1. ASSUME NEW w \in Workers, FutureInline(w) PROVE InOrder'
  <2> SUFFICES ASSUME NEW v \in Workers
               PROVE  Ordered(afs'[v], Ran(v)', Sent(v)') /\ ran'[v][v] = sent'[v][v]
    BY DEF InOrder, Ordered
  <2>1. afs' = afs /\ w \in Threads
    BY <1>1 DEF FutureInline, Threads
  <2>2. CASE v = w
    <3>1. Ran(w)' = [Ran(w) EXCEPT ![w] = Sent(w)[w] + 1]
      BY <1>1, <2>1 DEF FutureInline, TypeOK, Ran, Sent
    <3>2. Sent(w)' = [Sent(w) EXCEPT ![w] = @ + 1]
      BY <1>1, <2>1 DEF FutureInline, TypeOK, Ran, Sent
    <3>3. Ran(w)[w] = Sent(w)[w] /\ Ordered(afs[w], Ran(w), Sent(w))
      BY <2>1 DEF InOrder, Ran, Sent
    <3>4. Ordered(afs[w], Ran(w)', Sent(w)')
      <4>1. /\ Ran(w) \in [Threads -> Nat]
            /\ Sent(w) \in [Threads -> Nat]
            /\ afs[w] \in Seq(Lambda)
        BY CountsType
      <4>2. Ordered(afs[w], [Ran(w) EXCEPT ![w] = Sent(w)[w] + 1],
                    [Sent(w) EXCEPT ![w] = @ + 1])
        BY <2>1, <3>3, <4>1, CallOrdered
      <4> QED
        BY <3>1, <3>2, <4>2
    <3>5. ran'[w][w] = sent'[w][w]
      BY <1>1, <2>1 DEF FutureInline, TypeOK
    <3> QED
      BY <2>1, <2>2, <3>4, <3>5
  <2>3. CASE v # w
    <3>1. \A t \in Threads : ran'[t][v] = ran[t][v] /\ sent'[t][v] = sent[t][v]
      BY <1>1, <2>1, <2>3 DEF FutureInline, TypeOK
    <3>2. Ran(v)' = Ran(v) /\ Sent(v)' = Sent(v)
      BY <3>1 DEF Ran, Sent
    <3>3. v \in Threads
      BY DEF Threads
    <3> QED
      BY <2>1, <3>1, <3>2, <3>3 DEF InOrder
  <2> QED
    BY <2>2, <2>3
<1>2. ASSUME NEW t \in Threads, NEW w \in Workers, Push(t, w) PROVE InOrder'
  <2> SUFFICES ASSUME NEW v \in Workers
               PROVE  Ordered(afs'[v], Ran(v)', Sent(v)') /\ ran'[v][v] = sent'[v][v]
    BY DEF InOrder, Ordered
  <2>1. ran' = ran /\ t # w
    BY <1>2 DEF Push
  <2>2. v \in Threads /\ sent'[v][v] = sent[v][v]
    BY <1>2, <2>1 DEF Push, TypeOK, Threads
  <2>3. ran'[v][v] = sent'[v][v]
    BY <2>1, <2>2 DEF InOrder
  <2>4. CASE v = w
    <3>1. Sent(w)' = [Sent(w) EXCEPT ![t] = @ + 1] /\ Ran(w)' = Ran(w)
      BY <1>2, <2>1 DEF Push, TypeOK, Ran, Sent
    <3>2. afs'[w] = Append(afs[w], [from |-> t, seq |-> Sent(w)[t] + 1])
      BY <1>2 DEF Push, TypeOK, Sent
    <3>3. Ordered(afs[w], Ran(w), Sent(w))
      BY DEF InOrder
    <3>4. Ordered(afs'[w], Ran(w)', Sent(w)')
      <4>1. /\ Ran(w) \in [Threads -> Nat]
            /\ Sent(w) \in [Threads -> Nat]
            /\ afs[w] \in Seq(Lambda)
        BY CountsType
      <4>2. Ordered(Append(afs[w], [from |-> t, seq |-> Sent(w)[t] + 1]), Ran(w),
                    [Sent(w) EXCEPT ![t] = @ + 1])
        BY <3>3, <4>1, AppendOrdered
      <4> QED
        BY <3>1, <3>2, <4>2
    <3> QED
      BY <2>3, <2>4, <3>4
  <2>5. CASE v # w
    <3>1. afs'[v] = afs[v] /\ \A x \in Threads : sent'[x][v] = sent[x][v]
      BY <1>2, <2>5 DEF Push, TypeOK
    <3>2. Ran(v)' = Ran(v) /\ Sent(v)' = Sent(v)
      BY <2>1, <3>1 DEF Ran, Sent
    <3> QED
      BY <2>3, <3>1, <3>2 DEF InOrder
  <2> QED
    BY <2>4, <2>5
<1>3. ASSUME NEW w \in Workers, DoFuture(w) PROVE InOrder'
  <2> SUFFICES ASSUME NEW v \in Workers
               PROVE  Ordered(afs'[v], Ran(v)', Sent(v)') /\ ran'[v][v] = sent'[v][v]
    BY DEF InOrder, Ordered
  <2> DEFINE f == Head(afs[w])
  <2>1. /\ sent' = sent
        /\ afs[w] # <<>>
        /\ Ordered(afs[w], Ran(w), Sent(w))
    BY <1>3 DEF DoFuture, InOrder
  <2>2. /\ f \in Lambda
        /\ f.seq = Ran(w)[f.from] + 1
        /\ f.seq <= Sent(w)[f.from]
        /\ Ordered(Tail(afs[w]), [Ran(w) EXCEPT ![f.from] = f.seq], Sent(w))
    BY <2>1, TailOrdered, CountsType
  <2>3. f.from \in Threads /\ f.seq \in Nat
    BY <2>2 DEF Lambda
  <2> HIDE DEF f
  <2>4. ran' = [ran EXCEPT ![f.from][w] = f.seq] /\ afs' = [afs EXCEPT ![w] = Tail(@)]
    BY <1>3 DEF DoFuture, f
  <2>5. f.from # w
    \* The worker itself never queues.
    <3>1. w \in Threads /\ Ran(w)[w] = Sent(w)[w] /\ Ran(w)[w] \in Nat
      BY DEF InOrder, Ran, Sent, Threads, TypeOK
    <3> QED
      BY <2>2, <3>1
  <2>6. v \in Threads /\ ran'[v][v] = ran[v][v]
    BY <2>3, <2>4, <2>5 DEF TypeOK, Threads
  <2>7. ran'[v][v] = sent'[v][v]
    BY <2>1, <2>6 DEF InOrder
  <2>8. CASE v = w
    <3>1. Ran(w)' = [Ran(w) EXCEPT ![f.from] = f.seq] /\ Sent(w)' = Sent(w)
      BY <2>1, <2>3, <2>4 DEF TypeOK, Ran, Sent
    <3>2. afs'[w] = Tail(afs[w])
      BY <2>4 DEF TypeOK
    <3> QED
      BY <2>2, <2>7, <2>8, <3>1, <3>2
  <2>9. CASE v # w
    <3>1. afs'[v] = afs[v] /\ \A x \in Threads : ran'[x][v] = ran[x][v]
      BY <2>3, <2>4, <2>9 DEF TypeOK
    <3>2. Ran(v)' = Ran(v) /\ Sent(v)' = Sent(v)
      BY <2>1, <3>1 DEF Ran, Sent
    <3> QED
      BY <2>7, <3>1, <3>2 DEF InOrder
  <2> QED
    BY <2>8, <2>9
<1>4. ASSUME NEW t \in Threads, WriteEvn(t) PROVE InOrder'
  BY <1>4, KeepsOrder DEF WriteEvn
<1>5. ASSUME NEW w \in Workers, Loop(w), ~DoFuture(w) PROVE InOrder'
  BY <1>5, KeepsOrder
  DEF Loop, Boot, EpollWait, EvnItc, EvnSocket, Dispatched, NoFuture, Return
<1>6. CASE UNCHANGED vars
  BY <1>6, KeepsOrder DEF vars
<1> QED
  BY <1>1, <1>2, <1>3, <1>4, <1>5, <1>6 DEF Next

\* Whoever sends and however the threads interleave, a worker starts every
\* sender's lambdas in the order given, each once, and holds the rest.
THEOREM SendersServedInOrder == Safety => []InOrder
  BY InitInOrder, NextInOrder, TypeCorrect, PTL DEF Safety

-----------------------------------------------------------------------------
(* Refinement.  sent and ran are Mailbox's own; the queue decides which of *)
(* Mailbox's steps a step of the scheduler is.                             *)

LEMMA NextRefines == TypeOK /\ InOrder /\ [Next]_vars => [M!Next]_(M!mvars)
<1> SUFFICES ASSUME TypeOK, InOrder, [Next]_vars PROVE M!Next \/ UNCHANGED M!mvars
  OBVIOUS
<1> USE DEF M!mvars
<1>1. ASSUME NEW w \in Workers, FutureInline(w) PROVE M!Next
  <2>1. w \in Threads /\ ran[w][w] = sent[w][w]
    BY DEF Threads, InOrder
  <2>2. ran' = [ran EXCEPT ![w][w] = @ + 1] /\ sent' = [sent EXCEPT ![w][w] = @ + 1]
    BY <1>1, <2>1 DEF FutureInline, TypeOK
  <2>3. M!Call(w)
    BY <2>2 DEF M!Call, M!Bump
  <2> QED
    BY <2>3 DEF M!Next
<1>2. ASSUME NEW t \in Threads, NEW w \in Workers, Push(t, w) PROVE M!Next
  <2>1. M!Submit(t, w)
    BY <1>2 DEF Push, M!Submit, M!Bump
  <2> QED
    BY <2>1 DEF M!Next
<1>3. ASSUME NEW w \in Workers, DoFuture(w) PROVE M!Next
  <2> DEFINE f == Head(afs[w])
  <2>1. Ordered(afs[w], Ran(w), Sent(w)) /\ afs[w] # <<>>
    BY <1>3 DEF DoFuture, InOrder
  <2>2. f \in Lambda /\ f.seq = Ran(w)[f.from] + 1 /\ f.seq <= Sent(w)[f.from]
    BY <2>1, TailOrdered, CountsType
  <2>3. f.from \in Threads
    BY <2>2 DEF Lambda
  <2> HIDE DEF f
  <2>4. f.seq = ran[f.from][w] + 1 /\ f.seq <= sent[f.from][w]
    BY <2>2, <2>3 DEF Ran, Sent
  <2>5. ran[f.from][w] \in Nat /\ sent[f.from][w] \in Nat
    BY <2>3 DEF TypeOK
  <2>6. ran' = [ran EXCEPT ![f.from][w] = f.seq] /\ sent' = sent
    BY <1>3 DEF DoFuture, f
  <2>7. ran' = [ran EXCEPT ![f.from][w] = @ + 1]
    BY <2>3, <2>4, <2>6 DEF TypeOK
  <2>8. M!Run(f.from, w)
    BY <2>4, <2>5, <2>6, <2>7 DEF M!Run, M!Bump
  <2> QED
    BY <2>3, <2>8 DEF M!Next
<1>4. ASSUME NEW t \in Threads, WriteEvn(t) PROVE UNCHANGED M!mvars
  BY <1>4 DEF WriteEvn, queueVars
<1>5. ASSUME NEW w \in Workers, Loop(w), ~DoFuture(w) PROVE UNCHANGED M!mvars
  BY <1>5
  DEF Loop, Boot, EpollWait, EvnItc, EvnSocket, Dispatched, NoFuture, Return, queueVars
<1>6. CASE UNCHANGED vars
  BY <1>6 DEF vars, queueVars
<1> QED
  BY <1>1, <1>2, <1>3, <1>4, <1>5, <1>6 DEF Next

\* The safety half of the promise of Actor::future, for every set of threads:
\* each step of the queue, the eventfd and the loop submits a lambda, runs the
\* next one of some sender, or changes nothing a caller could tell.
THEOREM ImplementsMailbox == Safety => MailboxSafety
<1>1. Init => M!Init
  BY DEF Init, M!Init
<1> QED
  BY <1>1, NextRefines, TypeCorrect, SendersServedInOrder, PTL
  DEF Safety, MailboxSafety, M!Safety
=============================================================================
