------------------------ MODULE ActorBlockingProofs ------------------------
(***************************************************************************)
(* For a pool and a set of callers of any size: the types, that every      *)
(* lambda is in exactly one place, and that push may keep silent when it   *)
(* finds the queue not empty.  For a pool of one, which is                 *)
(* ActorSingleThread: that it implements the mailbox.                      *)
(***************************************************************************)
EXTENDS ActorBlocking, TLAPS

LEMMA InitType == Init => TypeOK
<1> SUFFICES ASSUME Init PROVE TypeOK
  OBVIOUS
<1>1. f \in [Pool -> Lambda \cup {None}] /\ \A p \in Pool : f[p] = None /\ pc[p] = "new"
  BY DEF Init
<1>2. afs \in Seq(Lambda)
  BY DEF Init
<1>6. busy \in BOOLEAN
  BY DEF Init
<1>4. pc \in [Pool -> {"new", "refused", "top", "lock", "wait", "taken", "run"}]
  BY DEF Init
<1>5. sent \in [Threads -> Nat]
  BY DEF Init
<1>3. signalling \subseteq Threads /\ started \subseteq Lambda
  BY DEF Init
<1> QED
  BY <1>1, <1>2, <1>3, <1>4, <1>5, <1>6 DEF TypeOK

LEMMA NextType == TypeOK /\ [Next]_vars => TypeOK'
<1> SUFFICES ASSUME TypeOK, [Next]_vars PROVE TypeOK'
  OBVIOUS
<1> USE ActorBlockingAssumption DEF TypeOK, Threads, Goto
<1>1. ASSUME NEW t \in Threads, Push(t) PROVE TypeOK'
  <2>1. [from |-> t, seq |-> sent[t] + 1] \in Lambda
    BY DEF Lambda
  <2>2. afs' \in Seq(Lambda)
    BY <1>1, <2>1 DEF Push
  <2> QED
    BY <1>1, <2>2 DEF Push
<1>2. ASSUME NEW t \in Threads, Signal(t) PROVE TypeOK'
  <2>1. CASE Asleep = {}
    BY <1>2, <2>1 DEF Signal
  <2>2. CASE Asleep # {}
    <3>1. PICK p \in Asleep : Goto(p, "lock")
      BY <1>2, <2>2 DEF Signal
    <3> QED
      BY <1>2, <3>1 DEF Signal, Asleep
  <2> QED
    BY <2>1, <2>2
<1>3. ASSUME NEW p \in Pool, Create(p) PROVE TypeOK'
  <2>1. \E l \in {"top", "refused", "ended"} : pc' = [pc EXCEPT ![p] = l]
    BY <1>3 DEF Create
  <2> QED
    BY <1>3, <2>1 DEF Create
<1>4. ASSUME NEW p \in Pool, Idle(p) PROVE TypeOK'
  BY <1>4 DEF Idle
<1>5. ASSUME NEW p \in Pool, Sleep(p) PROVE TypeOK'
  BY <1>5 DEF Sleep
<1>6. ASSUME NEW p \in Pool, Take(p) PROVE TypeOK'
  <2>1. Head(afs) \in Lambda /\ Tail(afs) \in Seq(Lambda)
    BY <1>6 DEF Take
  <2>2. Head(afs) # None
    BY <2>1
  <2> QED
    BY <1>6, <2>1, <2>2 DEF Take
<1>7. ASSUME NEW p \in Pool, Start(p) PROVE TypeOK'
  BY <1>7 DEF Start
<1>8. ASSUME NEW p \in Pool, Spurious(p) PROVE TypeOK'
  BY <1>8 DEF Spurious
<1>9. ASSUME NEW p \in Pool, Finish(p) PROVE TypeOK'
  BY <1>9 DEF Finish
<1>10. CASE UNCHANGED vars
  BY <1>10 DEF vars
<1> QED
  BY <1>1, <1>2, <1>3, <1>4, <1>5, <1>6, <1>7, <1>8, <1>9, <1>10 DEF Next, Svc

\* Every reachable state is well typed, and a thread holds a lambda exactly
\* between taking it and finishing it.
THEOREM TypeCorrect == Safety => []TypeOK
  BY InitType, NextType, PTL DEF Safety

-----------------------------------------------------------------------------
(* The queue is never stranded.                                            *)

\* Nobody calls push before the constructor has returned.
QuietUntilBuilt == Constructed \/ (signalling = {} /\ afs = <<>>)

LEMMA NextQuiet == TypeOK /\ QuietUntilBuilt /\ [Next]_vars => QuietUntilBuilt'
<1> SUFFICES ASSUME TypeOK, QuietUntilBuilt, [Next]_vars PROVE QuietUntilBuilt'
  OBVIOUS
<1> USE DEF TypeOK, QuietUntilBuilt, Constructed, Goto
<1>1. ASSUME NEW t \in Threads, Push(t) PROVE QuietUntilBuilt'
  BY <1>1 DEF Push, CanCall
<1>2. ASSUME NEW t \in Threads, Signal(t) PROVE QuietUntilBuilt'
  BY <1>2 DEF Signal, Asleep
<1>3. ASSUME NEW p \in Pool, Create(p) PROVE QuietUntilBuilt'
  BY <1>3 DEF Create
<1>4. ASSUME NEW p \in Pool, Svc(p) \/ Spurious(p) \/ Finish(p) PROVE QuietUntilBuilt'
  BY <1>4 DEF Svc, Idle, Sleep, Take, Start, Spurious, Finish
<1>5. CASE UNCHANGED vars
  BY <1>5 DEF vars
<1> QED
  BY <1>1, <1>2, <1>3, <1>4, <1>5 DEF Next

LEMMA QuietUntilConstructed == Safety => []QuietUntilBuilt
<1>1. Init => QuietUntilBuilt
  BY DEF Init, QuietUntilBuilt
<1> QED
  BY <1>1, NextQuiet, TypeCorrect, PTL DEF Safety

LEMMA NextNotStranded ==
  TypeOK /\ QuietUntilBuilt /\ NoStrandedQueue /\ [Next]_vars => NoStrandedQueue'
<1> SUFFICES ASSUME TypeOK, QuietUntilBuilt, NoStrandedQueue, [Next]_vars, afs' # <<>>,
                    NEW r \in Pool, pc'[r] # "refused"
             PROVE  signalling' # {} \/ \E p \in Pool : Awake(p)'
  BY DEF NoStrandedQueue
<1> USE DEF TypeOK, NoStrandedQueue, Awake, Goto
<1>1. ASSUME NEW t \in Threads, Push(t) PROVE signalling' # {} \/ \E p \in Pool : Awake(p)'
  BY <1>1 DEF Push
<1>2. ASSUME NEW t \in Threads, Signal(t) PROVE \E p \in Pool : Awake(p)'
  <2>1. CASE Asleep = {}
    \* The actor is built and nobody sleeps: r is awake.
    BY <1>2, <2>1 DEF Signal, Asleep, QuietUntilBuilt, Constructed
  <2>2. CASE Asleep # {}
    BY <1>2, <2>2 DEF Signal, Asleep
  <2> QED
    BY <2>1, <2>2
<1>3. ASSUME NEW p \in Pool, Create(p) PROVE FALSE
  \* afs was empty, and is as it was.
  BY <1>3 DEF Create, QuietUntilBuilt, Constructed
<1>4. ASSUME NEW p \in Pool, Idle(p) PROVE \E q \in Pool : Awake(q)'
  BY <1>4 DEF Idle
<1>5. ASSUME NEW p \in Pool, Sleep(p) PROVE FALSE
  BY <1>5 DEF Sleep
<1>6. ASSUME NEW p \in Pool, Take(p) PROVE \E q \in Pool : Awake(q)'
  BY <1>6 DEF Take
<1>7. ASSUME NEW p \in Pool, Start(p) PROVE \E q \in Pool : Awake(q)'
  BY <1>7 DEF Start
<1>8. ASSUME NEW p \in Pool, Spurious(p) PROVE \E q \in Pool : Awake(q)'
  BY <1>8 DEF Spurious
<1>9. ASSUME NEW p \in Pool, Finish(p) PROVE \E q \in Pool : Awake(q)'
  BY <1>9 DEF Finish
<1>10. CASE UNCHANGED vars
  BY <1>10 DEF vars
<1> QED
  BY <1>1, <1>2, <1>3, <1>4, <1>5, <1>6, <1>7, <1>8, <1>9, <1>10 DEF Next, Svc

\* Signalling only for the lambda that finds the queue empty never leaves the
\* pool asleep on a queue, whatever the size of the pool.
THEOREM QueueNeverStranded == Safety => []NoStrandedQueue
<1>1. Init => NoStrandedQueue
  BY DEF Init, NoStrandedQueue
<1> QED
  BY <1>1, NextNotStranded, QuietUntilConstructed, TypeCorrect, PTL DEF Safety

-----------------------------------------------------------------------------
(* Every lambda is in exactly one place.  The queue and the hands of the   *)
(* threads are looked at as sets: a step adds one lambda to what is given, *)
(* or moves one from a set to the next.                                    *)

\* What a thread runs has been counted as started.
RunsStarted == \A p \in Pool : pc[p] = "run" => f[p] \in started

Distinct(q) == \A i, j \in 1 .. Len(q) : q[i] = q[j] => i = j
Elements(q) == {q[i] : i \in 1 .. Len(q)}

LEMMA AppendElements ==
  ASSUME NEW S, NEW q \in Seq(S), NEW e \in S, Distinct(q), e \notin Elements(q)
  PROVE  Distinct(Append(q, e)) /\ Elements(Append(q, e)) = Elements(q) \cup {e}
<1> DEFINE a == Append(q, e)
           n == Len(q)
<1>1. /\ n \in Nat
      /\ Len(a) = n + 1
      /\ a[n + 1] = e
      /\ \A i \in 1 .. n : a[i] = q[i]
  OBVIOUS
<1>2. 1 .. n + 1 = (1 .. n) \cup {n + 1}
  BY <1>1
<1> HIDE DEF a
<1>3. Elements(a) = Elements(q) \cup {e}
  BY <1>1, <1>2 DEF Elements
<1>4. ASSUME NEW i \in 1 .. Len(a), NEW j \in 1 .. Len(a), a[i] = a[j] PROVE i = j
  <2>1. CASE i \in 1 .. n /\ j \in 1 .. n
    BY <1>1, <1>4, <2>1 DEF Distinct
  <2>2. CASE i = n + 1 /\ j = n + 1
    BY <2>2
  <2>3. CASE (i = n + 1 /\ j \in 1 .. n) \/ (i \in 1 .. n /\ j = n + 1)
    BY <1>1, <1>4, <2>3 DEF Elements
  <2> QED
    BY <1>1, <1>2, <2>1, <2>2, <2>3
<1>5. Distinct(a)
  BY <1>4 DEF Distinct
<1> QED
  BY <1>3, <1>5 DEF a

LEMMA TailElements ==
  ASSUME NEW S, NEW q \in Seq(S), q # <<>>, Distinct(q)
  PROVE  /\ Head(q) \in Elements(q)
         /\ Distinct(Tail(q))
         /\ Elements(Tail(q)) = Elements(q) \ {Head(q)}
<1> DEFINE a == Tail(q)
           n == Len(q)
<1>1. /\ n \in Nat \ {0}
      /\ Len(a) = n - 1
      /\ Head(q) = q[1]
      /\ \A i \in 1 .. n - 1 : a[i] = q[i + 1]
  OBVIOUS
<1> HIDE DEF a
<1>2. Head(q) \in Elements(q)
  BY <1>1 DEF Elements
<1>3. Distinct(a)
  <2> SUFFICES ASSUME NEW i \in 1 .. Len(a), NEW j \in 1 .. Len(a), a[i] = a[j] PROVE i = j
    BY DEF Distinct
  <2>1. q[i + 1] = q[j + 1] /\ i + 1 \in 1 .. n /\ j + 1 \in 1 .. n
    BY <1>1
  <2>2. i + 1 = j + 1
    BY <2>1 DEF Distinct
  <2> QED
    BY <1>1, <2>2
<1>4. ASSUME NEW e \in Elements(a) PROVE e \in Elements(q) \ {Head(q)}
  <2>1. PICK i \in 1 .. n - 1 : e = q[i + 1]
    BY <1>1 DEF Elements
  <2>2. i + 1 \in 1 .. n /\ 1 \in 1 .. n /\ i + 1 # 1
    BY <1>1
  <2>3. q[i + 1] # q[1]
    BY <2>2 DEF Distinct
  <2> QED
    BY <1>1, <2>1, <2>2, <2>3 DEF Elements
<1>5. ASSUME NEW e \in Elements(q) \ {Head(q)} PROVE e \in Elements(a)
  <2>1. PICK i \in 1 .. n : e = q[i]
    BY DEF Elements
  <2>2. i - 1 \in 1 .. n - 1 /\ a[i - 1] = q[(i - 1) + 1] /\ (i - 1) + 1 = i
    BY <1>1, <2>1
  <2> QED
    BY <1>1, <2>1, <2>2 DEF Elements
<1> QED
  BY <1>2, <1>3, <1>4, <1>5 DEF a

LEMMA NextExactlyOnce ==
  TypeOK /\ RunsStarted /\ ExactlyOnce /\ [Next]_vars => RunsStarted' /\ ExactlyOnce'
<1> SUFFICES ASSUME TypeOK, RunsStarted, ExactlyOnce, [Next]_vars
             PROVE  RunsStarted' /\ ExactlyOnce'
  OBVIOUS
<1> USE DEF Goto
<1>1. Waiting = Elements(afs) /\ Waiting' = Elements(afs') /\ Distinct(afs)
  BY DEF Waiting, Elements, ExactlyOnce, Distinct
\* It is enough to look at the sets and at who holds what.
<1>2. ASSUME RunsStarted', Distinct(afs'),
             Waiting' \cup Taken' \cup started' = Given',
             Waiting' \cap Taken' = {}, Waiting' \cap started' = {}, Taken' \cap started' = {},
             \A p, q \in Pool : pc'[p] = "taken" /\ f'[p] = f'[q] => p = q
      PROVE  RunsStarted' /\ ExactlyOnce'
  BY <1>2 DEF ExactlyOnce, Distinct
<1>3. ASSUME NEW t \in Threads, Push(t) PROVE RunsStarted' /\ ExactlyOnce'
  <2> DEFINE l == [from |-> t, seq |-> sent[t] + 1]
  <2>1. l \in Lambda /\ sent[t] \in Nat
    BY DEF TypeOK, Lambda
  <2>2. l \notin Given
    <3>1. SUFFICES ASSUME NEW u \in Threads, NEW k \in 1 .. sent[u],
                          l = [from |-> u, seq |-> k]
                   PROVE  FALSE
      BY DEF Given
    <3>2. u = t /\ k = sent[t] + 1
      BY <3>1
    <3> QED
      BY <2>1, <3>2
  <2>3. Given' = Given \cup {l}
    <3>1. /\ sent'[t] = sent[t] + 1
          /\ \A u \in Threads : u # t => sent'[u] = sent[u]
      BY <1>3 DEF Push, TypeOK
    <3>2. 1 .. sent'[t] = (1 .. sent[t]) \cup {sent[t] + 1}
      BY <2>1, <3>1
    <3>3. ASSUME NEW g \in Given' PROVE g \in Given \cup {l}
      <4>1. PICK u \in Threads : \E k \in 1 .. sent'[u] : g = [from |-> u, seq |-> k]
        BY DEF Given
      <4> QED
        BY <3>1, <3>2, <4>1 DEF Given
    <3>4. ASSUME NEW g \in Given \cup {l} PROVE g \in Given'
      <4>1. CASE g = l
        BY <3>2, <4>1 DEF Given
      <4>2. CASE g \in Given
        <5>1. PICK u \in Threads : \E k \in 1 .. sent[u] : g = [from |-> u, seq |-> k]
          BY <4>2 DEF Given
        <5>2. 1 .. sent[u] \subseteq 1 .. sent'[u]
          BY <3>1, <3>2
        <5> QED
          BY <5>1, <5>2 DEF Given
      <4> QED
        BY <4>1, <4>2
    <3> QED
      BY <3>3, <3>4
  <2>4. afs' = Append(afs, l) /\ UNCHANGED <<pc, f, started>>
    BY <1>3 DEF Push
  <2> HIDE DEF l
  <2>5. Distinct(afs') /\ Waiting' = Waiting \cup {l}
    BY <1>1, <2>1, <2>2, <2>4, AppendElements DEF ExactlyOnce, TypeOK
  <2>6. Taken' = Taken
    BY <2>4 DEF Taken
  <2>7. RunsStarted'
    BY <2>4 DEF RunsStarted
  <2> QED
    BY <1>2, <2>2, <2>3, <2>4, <2>5, <2>6, <2>7 DEF ExactlyOnce
<1>4. ASSUME NEW p \in Pool, Take(p) PROVE RunsStarted' /\ ExactlyOnce'
  <2> DEFINE h == Head(afs)
  <2>1. h \in Waiting /\ Distinct(afs') /\ Waiting' = Waiting \ {h}
    BY <1>1, <1>4, TailElements DEF Take, TypeOK
  <2>2. f' = [f EXCEPT ![p] = h] /\ pc' = [pc EXCEPT ![p] = "taken"]
    BY <1>4 DEF Take
  <2> HIDE DEF h
  <2>3. /\ f'[p] = h
        /\ pc'[p] = "taken"
        /\ pc[p] = "lock"
        /\ \A q \in Pool : q # p => f'[q] = f[q] /\ pc'[q] = pc[q]
    BY <1>4, <2>2 DEF Take, TypeOK
  <2>4. Taken' = Taken \cup {h}
    BY <2>3 DEF Taken
  <2>5. \A q \in Pool : f[q] # h
    \* What a thread holds is taken or started, so it does not wait.
    <3>1. \A q \in Pool : f[q] \in Taken \cup started \cup {None}
      BY DEF TypeOK, Taken, RunsStarted
    <3>2. h # None
      BY <1>4, ActorBlockingAssumption DEF Take, TypeOK, h
    <3> QED
      BY <2>1, <3>1, <3>2 DEF ExactlyOnce
  <2>6. \A q, r \in Pool : pc'[q] = "taken" /\ f'[q] = f'[r] => q = r
    BY <2>3, <2>5 DEF ExactlyOnce
  <2>7. Given' = Given /\ started' = started
    BY <1>4 DEF Take, Given
  <2>8. RunsStarted'
    BY <2>3, <2>7 DEF RunsStarted
  <2>9. h \notin Taken /\ h \notin started
    BY <2>1 DEF ExactlyOnce
  <2> QED
    BY <1>2, <2>1, <2>4, <2>6, <2>7, <2>8, <2>9 DEF ExactlyOnce
<1>5. ASSUME NEW p \in Pool, Start(p) PROVE RunsStarted' /\ ExactlyOnce'
  <2>1. /\ pc[p] = "taken"
        /\ pc'[p] = "run"
        /\ \A q \in Pool : q # p => pc'[q] = pc[q]
        /\ f' = f
        /\ started' = started \cup {f[p]}
    BY <1>5 DEF Start, TypeOK
  <2>2. f[p] \in Taken /\ f[p] \notin Waiting
    BY <2>1 DEF Taken, ExactlyOnce
  <2>3. Taken' = Taken \ {f[p]}
    BY <2>1 DEF Taken, ExactlyOnce
  <2>4. afs' = afs /\ Given' = Given /\ Waiting' = Waiting
    BY <1>5 DEF Start, Given, Waiting
  <2>5. RunsStarted'
    BY <2>1 DEF RunsStarted
  <2>6. \A q, r \in Pool : pc'[q] = "taken" /\ f'[q] = f'[r] => q = r
    BY <2>1 DEF ExactlyOnce
  <2> QED
    BY <1>1, <1>2, <2>1, <2>2, <2>3, <2>4, <2>5, <2>6 DEF ExactlyOnce
<1>6. ASSUME UNCHANGED <<f, afs, started, sent>>,
             \A p \in Pool : /\ pc'[p] = "taken" <=> pc[p] = "taken"
                             /\ pc'[p] = "run" => pc[p] = "run"
      PROVE  RunsStarted' /\ ExactlyOnce'
  <2>1. Given' = Given /\ Waiting' = Waiting /\ Taken' = Taken /\ RunsStarted'
    BY <1>6 DEF Given, Waiting, Taken, RunsStarted
  <2> QED
    BY <1>1, <1>2, <1>6, <2>1 DEF ExactlyOnce
<1>7. ASSUME NEW t \in Threads, Signal(t) PROVE RunsStarted' /\ ExactlyOnce'
  BY <1>6, <1>7 DEF Signal, Asleep, TypeOK
<1>8. ASSUME NEW p \in Pool, Create(p) \/ Idle(p) \/ Sleep(p) \/ Spurious(p)
      PROVE  RunsStarted' /\ ExactlyOnce'
  <2>1. \E l \in {"top", "refused", "ended", "lock", "wait"} : pc' = [pc EXCEPT ![p] = l]
    BY <1>8 DEF Create, Idle, Sleep, Spurious, Goto
  <2>2. pc[p] \notin {"taken", "run"} /\ UNCHANGED <<f, afs, started, sent>>
    BY <1>8 DEF Create, Idle, Sleep, Spurious
  <2> QED
    BY <1>6, <2>1, <2>2 DEF TypeOK
<1>9. ASSUME NEW p \in Pool, Finish(p) PROVE RunsStarted' /\ ExactlyOnce'
  <2>1. /\ pc[p] = "run"
        /\ pc'[p] = "top"
        /\ f'[p] = None
        /\ \A q \in Pool : q # p => pc'[q] = pc[q] /\ f'[q] = f[q]
        /\ UNCHANGED <<afs, started, sent>>
    BY <1>9 DEF Finish, TypeOK
  <2>2. Given' = Given /\ Waiting' = Waiting /\ Taken' = Taken
    BY <2>1 DEF Given, Waiting, Taken
  <2>3. RunsStarted'
    BY <2>1 DEF RunsStarted
  <2>4. \A q, r \in Pool : pc'[q] = "taken" /\ f'[q] = f'[r] => q = r
    BY <2>1 DEF ExactlyOnce, TypeOK
  <2> QED
    BY <1>1, <1>2, <2>1, <2>2, <2>3, <2>4 DEF ExactlyOnce
<1>10. CASE UNCHANGED vars
  BY <1>6, <1>10 DEF vars
<1> QED
  BY <1>3, <1>4, <1>5, <1>7, <1>8, <1>9, <1>10 DEF Next, Svc

\* Whatever the sizes and the interleaving, a lambda given is waiting, in the
\* hands of one thread or started: the pool neither loses nor repeats one.
THEOREM EveryLambdaOnce == Safety => []ExactlyOnce
<1>1. Init => RunsStarted /\ ExactlyOnce
  <2> SUFFICES ASSUME Init PROVE RunsStarted /\ ExactlyOnce
    OBVIOUS
  <2>1. \A p \in Pool : pc[p] = "new"
    BY DEF Init
  <2>2. Waiting = {} /\ Taken = {} /\ started = {} /\ Len(afs) = 0
    BY <2>1 DEF Init, Waiting, Taken
  <2>3. Given = {}
    <3>1. \A t \in Threads : 1 .. sent[t] = {}
      BY DEF Init
    <3> QED
      BY <3>1 DEF Given
  <2> QED
    BY <2>1, <2>2, <2>3 DEF RunsStarted, ExactlyOnce
<1> QED
  BY <1>1, NextExactlyOnce, TypeCorrect, PTL DEF Safety
-----------------------------------------------------------------------------
(* A pool of one.  What waits, what the thread has taken and what has      *)
(* started follow one another, sender by sender; so a lambda that starts   *)
(* has the number after the last that has.                                 *)

\* The latest of a sender is further back: in the queue; in the queue than in the
\* hands of a thread; in either than among those that have started.
Fifo ==
  /\ \A i, j \in 1 .. Len(afs) : i < j /\ afs[i].from = afs[j].from => afs[i].seq < afs[j].seq
  /\ \A p \in Pool : \A m \in Waiting : pc[p] = "taken" /\ f[p].from = m.from => f[p].seq < m.seq
  /\ \A l \in started : \A m \in Waiting \cup Taken : l.from = m.from => l.seq < m.seq

LEMMA GivenIs == ASSUME TypeOK
  PROVE \A m : m \in Given <=> m \in Lambda /\ m.seq <= sent[m.from]
<1>1. ASSUME NEW m \in Given PROVE m \in Lambda /\ m.seq <= sent[m.from]
  <2>1. PICK t \in Threads : \E k \in 1 .. sent[t] : m = [from |-> t, seq |-> k]
    BY DEF Given
  <2>2. PICK k \in 1 .. sent[t] : m = [from |-> t, seq |-> k]
    BY <2>1
  <2> QED
    BY <2>2 DEF Lambda, TypeOK
<1>2. ASSUME NEW m \in Lambda, m.seq <= sent[m.from] PROVE m \in Given
  <2>1. PICK t \in Threads, k \in Nat \ {0} : m = [from |-> t, seq |-> k]
    BY DEF Lambda
  <2>2. k \in 1 .. sent[t]
    BY <1>2, <2>1 DEF TypeOK
  <2> QED
    BY <2>1, <2>2 DEF Given
<1> QED
  BY <1>1, <1>2

LEMMA LambdaParts == ASSUME NEW m \in Lambda
  PROVE m.from \in Threads /\ m.seq \in Nat \ {0} /\ \A n \in Lambda : n.from = m.from /\ n.seq = m.seq => n = m
BY DEF Lambda

LEMMA FifoPush == ASSUME TypeOK, ExactlyOnce, Fifo, NEW t \in Threads, Push(t) PROVE Fifo'
<1> DEFINE l == [from |-> t, seq |-> sent[t] + 1]
<1>1. l \in Lambda /\ l.from = t /\ l.seq = sent[t] + 1 /\ sent[t] \in Nat
  BY DEF TypeOK, Lambda
<1>2. afs' = Append(afs, l) /\ UNCHANGED <<pc, f, started>>
  BY DEF Push
<1> HIDE DEF l
<1>3. PICK n \in Nat : n = Len(afs)
  BY DEF TypeOK
<1>4. PICK q \in Seq(Lambda) : q = afs
  BY DEF TypeOK
<1>5. PICK a : a = Append(q, l)
  OBVIOUS
<1>6. Len(a) = n + 1 /\ a[n + 1] = l /\ \A i \in 1 .. n : a[i] = q[i]
  BY <1>1, <1>3, <1>4, <1>5
<1>7. afs' = a
  BY <1>2, <1>4, <1>5
<1>8. Waiting' = Waiting \cup {l} /\ Taken' = Taken
  <2>1. Waiting = {q[i] : i \in 1 .. n} /\ Waiting' = {a[i] : i \in 1 .. n + 1}
    BY <1>3, <1>4, <1>6, <1>7 DEF Waiting
  <2>2. 1 .. n + 1 = (1 .. n) \cup {n + 1}
    BY <1>3
  <2>3. Taken' = Taken
    BY <1>2 DEF Taken
  <2> QED
    BY <1>6, <2>1, <2>2, <2>3
\* Whatever of t has been given is numbered lower.
<1>9. ASSUME NEW m \in Waiting \cup Taken \cup started, m.from = t PROVE m.seq < l.seq
  <2>1. m \in Lambda /\ m.seq <= sent[t]
    BY <1>9, GivenIs DEF ExactlyOnce
  <2> QED
    BY <1>1, <2>1, LambdaParts
<1>10. ASSUME NEW i \in 1 .. Len(afs'), NEW j \in 1 .. Len(afs'), i < j, afs'[i].from = afs'[j].from PROVE afs'[i].seq < afs'[j].seq
  <2>1. i \in 1 .. n
    BY <1>3, <1>6, <1>7, <1>10
  <2>2. CASE j = n + 1
    <3>1. afs'[i] \in Waiting /\ afs'[j] = l
      BY <1>3, <1>4, <1>6, <1>7, <2>1, <2>2 DEF Waiting
    <3> QED
      BY <1>1, <1>9, <1>10, <3>1
  <2>3. CASE j \in 1 .. n
    BY <1>3, <1>4, <1>6, <1>7, <1>10, <2>1, <2>3 DEF Fifo
  <2> QED
    BY <1>3, <1>6, <1>7, <2>2, <2>3
<1>11. ASSUME NEW p \in Pool, NEW m \in Waiting', pc'[p] = "taken", f'[p].from = m.from PROVE f'[p].seq < m.seq
  <2>1. f'[p] = f[p] /\ pc[p] = "taken" /\ f[p] \in Taken
    BY <1>2, <1>11 DEF Taken
  <2> QED
    BY <1>1, <1>8, <1>9, <1>11, <2>1 DEF Fifo
<1>12. ASSUME NEW k \in started', NEW m \in (Waiting \cup Taken)', k.from = m.from PROVE k.seq < m.seq
  BY <1>1, <1>2, <1>8, <1>9, <1>12 DEF Fifo
<1> QED
  BY <1>10, <1>11, <1>12 DEF Fifo

LEMMA FifoTake == ASSUME TypeOK, ExactlyOnce, Fifo, NEW p \in Pool, Pool = {p}, Take(p) PROVE Fifo'
<1> DEFINE h == Head(afs)
<1>1. PICK q \in Seq(Lambda) : q = afs /\ q # <<>>
  BY DEF TypeOK, Take
<1>2. PICK n \in Nat \ {0} : n = Len(q)
  BY <1>1
<1>3. PICK a : a = Tail(q)
  OBVIOUS
<1>4. Len(a) = n - 1 /\ h = q[1] /\ \A i \in 1 .. n - 1 : a[i] = q[i + 1]
  BY <1>1, <1>2, <1>3
<1>5. afs' = a /\ f'[p] = h /\ pc'[p] = "taken" /\ pc[p] = "lock" /\ started' = started
  BY <1>1, <1>3 DEF Take, Goto, TypeOK
<1> HIDE DEF h
<1>6. Waiting = {q[i] : i \in 1 .. n} /\ Waiting' = {a[i] : i \in 1 .. n - 1}
  BY <1>1, <1>2, <1>4, <1>5 DEF Waiting
<1>7. Taken' = {h} /\ Taken = {}
  BY <1>5 DEF Taken
<1>8. h \in Waiting /\ Waiting' \subseteq Waiting
  BY <1>2, <1>4, <1>6
<1>9. \A i, j \in 1 .. n : i < j /\ q[i].from = q[j].from => q[i].seq < q[j].seq
  BY <1>1, <1>2 DEF Fifo
<1>10. ASSUME NEW i \in 1 .. n - 1, NEW j \in 1 .. n - 1, i < j, a[i].from = a[j].from PROVE a[i].seq < a[j].seq
  <2>1. i + 1 \in 1 .. n /\ j + 1 \in 1 .. n /\ i + 1 < j + 1
    BY <1>2, <1>10
  <2> QED
    BY <1>4, <1>9, <1>10, <2>1
<1>11. ASSUME NEW m \in Waiting', h.from = m.from PROVE h.seq < m.seq
  <2>1. PICK i \in 1 .. n - 1 : m = q[i + 1]
    BY <1>4, <1>6
  <2>2. 1 \in 1 .. n /\ i + 1 \in 1 .. n /\ 1 < i + 1
    BY <1>2
  <2> QED
    BY <1>4, <1>9, <1>11, <2>1, <2>2
<1>12. \A k \in started' : \A m \in (Waiting \cup Taken)' : k.from = m.from => k.seq < m.seq
  BY <1>5, <1>7, <1>8 DEF Fifo
<1>13. \A i, j \in 1 .. Len(afs') : i < j /\ afs'[i].from = afs'[j].from => afs'[i].seq < afs'[j].seq
  BY <1>4, <1>5, <1>10
<1>14. \A r \in Pool : \A m \in Waiting' : pc'[r] = "taken" /\ f'[r].from = m.from => f'[r].seq < m.seq
  BY <1>5, <1>11
<1> QED
  BY <1>12, <1>13, <1>14 DEF Fifo

LEMMA FifoStart == ASSUME TypeOK, ExactlyOnce, Fifo, NEW p \in Pool, Pool = {p}, Start(p) PROVE Fifo'
<1>1. afs' = afs /\ f' = f /\ pc[p] = "taken" /\ pc'[p] = "run" /\ started' = started \cup {f[p]}
  BY DEF Start, Goto, TypeOK
<1>2. Waiting' = Waiting /\ Taken' = {} /\ f[p] \in Taken
  BY <1>1 DEF Waiting, Taken
<1> QED
  BY <1>1, <1>2 DEF Fifo

LEMMA FifoNext == ASSUME TypeOK, ExactlyOnce, Fifo, NEW p \in Pool, Pool = {p}, [Next]_vars PROVE Fifo'
<1>1. ASSUME UNCHANGED <<afs, started>>, \A q \in Pool : pc'[q] = "taken" => pc[q] = "taken" /\ f'[q] = f[q]
      PROVE  Fifo'
  <2>1. Waiting' = Waiting /\ Taken' \subseteq Taken
    BY <1>1 DEF Waiting, Taken
  <2> QED
    BY <1>1, <2>1 DEF Fifo
<1>2. ASSUME NEW t \in Threads, Signal(t) PROVE Fifo'
  BY <1>1, <1>2 DEF Signal, Asleep, Goto, TypeOK
<1>3. ASSUME Create(p) \/ Idle(p) \/ Sleep(p) \/ Spurious(p) PROVE Fifo'
  BY <1>1, <1>3 DEF Create, Idle, Sleep, Spurious, Goto, TypeOK
<1>4. CASE Finish(p)
  BY <1>1, <1>4 DEF Finish, Goto, TypeOK
<1>5. CASE UNCHANGED vars
  BY <1>1, <1>5 DEF vars
<1> QED
  BY <1>2, <1>3, <1>4, <1>5, FifoPush, FifoTake, FifoStart DEF Next, Svc

\* The numbers of the lambdas of t that have started, and 0.
Numbers(t) == {0} \cup {l.seq : l \in {k \in started : k.from = t}}

LEMMA LatestIs == ASSUME NEW t, Numbers(t) \subseteq Nat, NEW n \in Numbers(t), \A k \in Numbers(t) : k <= n
  PROVE Latest(t) = n
<1>1. Latest(t) = Max(Numbers(t))
  BY DEF Latest, Numbers
<1>2. n >= n /\ \A k \in Numbers(t) : n >= k
  OBVIOUS
<1>3. \A m \in Numbers(t) : (\A k \in Numbers(t) : m >= k) => m = n
  OBVIOUS
<1> QED
  BY <1>1, <1>2, <1>3 DEF Max

\* The lambda that starts has the number after the latest of its sender.
LEMMA StartsNext == ASSUME TypeOK, ExactlyOnce, Fifo, NEW p \in Pool, Pool = {p}, Start(p)
  PROVE \E l \in Lambda : /\ Latest(l.from) = l.seq - 1 /\ Latest(l.from)' = l.seq
                          /\ l.seq <= sent[l.from]
                          /\ \A t \in Threads : t # l.from => Latest(t)' = Latest(t)
<1>1. pc[p] = "taken" /\ started' = started \cup {f[p]}
  BY DEF Start
<1>2. PICK l \in Lambda : l = f[p] /\ l \in Taken /\ l.seq <= sent[l.from]
  <2>1. f[p] \in Taken
    BY <1>1 DEF Taken
  <2> QED
    BY <2>1, GivenIs DEF ExactlyOnce
<1>3. l.from \in Threads /\ l.seq \in Nat \ {0}
  BY LambdaParts
<1>4. \A k \in started : k \in Lambda /\ k.seq \in Nat \ {0}
  BY LambdaParts DEF TypeOK
<1>5. \A k \in started : k.from = l.from => k.seq <= l.seq - 1
  BY <1>2, <1>3, <1>4 DEF Fifo
<1>6. l.seq - 1 \in Numbers(l.from)
  <2>1. CASE l.seq = 1
    BY <2>1 DEF Numbers
  <2>2. CASE l.seq # 1
    <3>1. PICK m \in Lambda : m.from = l.from /\ m.seq = l.seq - 1
      <4>1. l.seq - 1 \in Nat \ {0}
        BY <1>3, <2>2
      <4>2. [from |-> l.from, seq |-> l.seq - 1] \in Lambda
        BY <1>3, <4>1 DEF Lambda
      <4> QED
        BY <4>2
    <3>2. m \in Given
      BY <1>2, <1>3, <3>1, GivenIs DEF TypeOK
    <3>3. m \notin Waiting
      <4>1. m \in Waiting => l.seq < m.seq
        BY <1>1, <1>2, <3>1 DEF Fifo
      <4> QED
        BY <1>3, <3>1, <4>1
    <3>4. m \notin Taken
      <4>1. Taken = {l}
        BY <1>1, <1>2 DEF Taken
      <4>2. m.seq # l.seq
        BY <1>3, <3>1
      <4> QED
        BY <4>1, <4>2
    <3>5. m \in started
      BY <3>2, <3>3, <3>4 DEF ExactlyOnce
    <3> QED
      BY <3>1, <3>5 DEF Numbers
  <2> QED
    BY <2>1, <2>2
<1>7. Numbers(l.from) \subseteq Nat /\ \A k \in Numbers(l.from) : k <= l.seq - 1
  BY <1>3, <1>4, <1>5 DEF Numbers
<1>8. Latest(l.from) = l.seq - 1
  BY <1>6, <1>7, LatestIs
<1>9. Numbers(l.from)' = Numbers(l.from) \cup {l.seq}
  BY <1>1, <1>2 DEF Numbers
<1>10. Latest(l.from)' = l.seq
  <2>1. PICK N : N = Numbers(l.from) \cup {l.seq}
    OBVIOUS
  <2>2. l.seq \in N /\ N \subseteq Nat /\ \A k \in N : k <= l.seq
    BY <1>3, <1>7, <2>1
  <2>3. Latest(l.from)' = Max(N)
    BY <1>9, <2>1 DEF Latest, Numbers
  <2>4. \A m \in N : (\A k \in N : m >= k) <=> m = l.seq
    BY <1>3, <2>2
  <2> QED
    BY <2>2, <2>3, <2>4 DEF Max
<1>11. ASSUME NEW t \in Threads, t # l.from PROVE Latest(t)' = Latest(t)
  <2>1. {k \in started' : k.from = t} = {k \in started : k.from = t}
    BY <1>1, <1>2, <1>11
  <2> QED
    BY <2>1 DEF Latest
<1> QED
  BY <1>2, <1>8, <1>10, <1>11

LEMMA OneRefines == ASSUME TypeOK, ExactlyOnce, Fifo, NEW p \in Pool, Pool = {p}, [Next]_vars PROVE [M!Next]_(M!mvars)
<1> DEFINE given == [t \in Threads |-> [w \in {None} |-> sent[t]]]
           ran == [t \in Threads |-> [w \in {None} |-> Latest(t)]]
<1>1. ASSUME NEW t \in Threads, Push(t) PROVE M!Next
  <2>1. given' = [given EXCEPT ![t][None] = @ + 1]
    BY <1>1 DEF Push, TypeOK
  <2>2. ran' = ran
    BY <1>1 DEF Push, Latest
  <2>3. t # None
    BY ActorBlockingAssumption
  <2>4. M!Submit(t, None)
    BY <2>1, <2>2, <2>3 DEF M!Submit, M!Bump
  <2> QED
    BY <2>4 DEF M!Next
<1>2. CASE Start(p)
  <2>1. PICK l \in Lambda : /\ Latest(l.from) = l.seq - 1 /\ Latest(l.from)' = l.seq
                            /\ l.seq <= sent[l.from]
                            /\ \A u \in Threads : u # l.from => Latest(u)' = Latest(u)
    BY <1>2, StartsNext
  <2>2. PICK t \in Threads, n \in Nat \ {0} : t = l.from /\ n = l.seq
    BY LambdaParts
  <2>3. ran' = [ran EXCEPT ![t][None] = @ + 1]
    BY <2>1, <2>2
  <2>4. given' = given
    BY <1>2 DEF Start
  <2>5. ran[t][None] < given[t][None]
    BY <2>1, <2>2 DEF TypeOK
  <2>6. M!Run(t, None)
    BY <2>3, <2>4, <2>5 DEF M!Run, M!Bump
  <2> QED
    BY <2>6 DEF M!Next
<1>3. ASSUME UNCHANGED <<sent, started>> PROVE UNCHANGED M!mvars
  BY <1>3 DEF M!mvars, Latest
<1>4. ASSUME NEW t \in Threads, Signal(t) PROVE UNCHANGED M!mvars
  BY <1>3, <1>4 DEF Signal
<1>5. CASE Create(p) \/ Idle(p) \/ Sleep(p) \/ Take(p) \/ Spurious(p) \/ Finish(p)
  BY <1>3, <1>5 DEF Create, Idle, Sleep, Take, Spurious, Finish
<1>6. CASE UNCHANGED vars
  BY <1>3, <1>6 DEF vars
<1> QED
  BY <1>1, <1>2, <1>4, <1>5, <1>6 DEF Next, Svc

LEMMA OneInit == ASSUME Init PROVE Fifo /\ M!Init
<1>1. \A p \in Pool : pc[p] = "new"
  BY DEF Init
<1>2. Waiting = {} /\ Taken = {} /\ started = {} /\ Len(afs) = 0
  BY <1>1 DEF Init, Waiting, Taken
<1>3. ASSUME NEW t \in Threads PROVE Latest(t) = 0
  <2>1. Numbers(t) = {0}
    BY <1>2 DEF Numbers
  <2> QED
    BY <2>1, LatestIs
<1>4. M!Init
  BY <1>3 DEF Init, M!Init
<1> QED
  BY <1>2, <1>4 DEF Fifo

\* ActorSingleThread keeps the promise of Actor::future, whoever calls and however
\* often the thread wakes for nothing: one thread starts each sender's lambdas one
\* by one in the order given.
THEOREM OneThreadIsMailbox == ASSUME NEW p \in Pool, Pool = {p} PROVE Safety => MailboxSafety
<1>1. Init => Fifo /\ M!Init
  BY OneInit
<1>2. TypeOK /\ ExactlyOnce /\ Fifo /\ [Next]_vars => Fifo'
  BY FifoNext
<1>3. TypeOK /\ ExactlyOnce /\ Fifo /\ [Next]_vars => [M!Next]_(M!mvars)
  BY OneRefines
<1> QED
  BY <1>1, <1>2, <1>3, TypeCorrect, EveryLambdaOnce, PTL DEF Safety, MailboxSafety, M!Safety
=============================================================================
