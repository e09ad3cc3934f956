---------------------------- MODULE PubSubProofs ----------------------------
(***************************************************************************)
(* For any workers, threads, connections, topics and publications: the     *)
(* types (TypeCorrect); the counts of references and of lambdas, and so    *)
(* that nothing is used that is freed (RefsAreBalanced, NoUseAfterFree,    *)
(* NothingIsLeft); that subscribers are told in order, once, and all of    *)
(* them (ToldInOrder, ToldOnceEach, AllAreTold).                           *)
(*                                                                         *)
(* Every action is first restated as the frames it takes off a stack and   *)
(* puts on it.  Tied is the invariant of the connections; Single and       *)
(* Counted that of the publications, for which all actions come down to    *)
(* the six of Effects; Core is these and the types.  Told, NotYet and      *)
(* DueSoon say on top of it what has been told, and what is yet to be.     *)
(***************************************************************************)
EXTENDS PubSub, SeqLemmas, FiniteSetTheorems

-----------------------------------------------------------------------------
(* The stacks.  What the proofs need of one is which frame is at which     *)
(* depth; the rest of this section turns the sequences into that.          *)

\* t is in f, at depth k; nothing of t is deeper than n.
In(t, k, f) == k \in DOMAIN stack[t] /\ stack[t][k] = f

Topmost(t, n) == \A k \in Nat, f \in Frame : In(t, k, f) => k <= n

\* What t was in at n has become A, a set of depths with their frames.
Moves(t, n, A) ==
  \A u \in Threads, k \in Nat, f \in Frame :
    In(u, k, f)' <=> (In(u, k, f) /\ ~(u = t /\ k = n)) \/ (u = t /\ <<k, f>> \in A)

Stacks == stack \in [Threads -> Seq(Frame)]

\* One frame at a depth.
LEMMA InOne == ASSUME Stacks, NEW t \in Threads, NEW k, NEW f, NEW g, In(t, k, f), In(t, k, g)
  PROVE f = g /\ f \in Frame /\ k \in Nat \ {0}
<1>1. stack[t] \in Seq(Frame)
  BY DEF Stacks
<1>2. k \in 1 .. Len(stack[t])
  BY <1>1 DEF In
<1>3. stack[t][k] \in Frame
  BY <1>1, <1>2
<1> QED
  BY <1>2, <1>3 DEF In

\* A sequence with its last element replaced.
LEMMA FrontPlus ==
  ASSUME NEW S, NEW s \in Seq(S), s # <<>>, NEW r \in Seq(S)
  PROVE /\ Front(s) \o r \in Seq(S) /\ Len(Front(s) \o r) = Len(s) - 1 + Len(r)
        /\ \A k \in 1 .. Len(s) - 1 : (Front(s) \o r)[k] = s[k]
        /\ \A k \in 1 .. Len(r) : (Front(s) \o r)[Len(s) - 1 + k] = r[k]
<1>1. PICK n \in Nat : n = Len(s) - 1
  OBVIOUS
<1>2. PICK a : a = Front(s)
  OBVIOUS
<1>3. a \in Seq(S) /\ Len(a) = n /\ \A k \in 1 .. n : a[k] = s[k]
  <2>1. a = SubSeq(s, 1, n)
    BY <1>1, <1>2 DEF Front
  <2>2. \A i \in 1 .. n : s[i] \in S
    BY <1>1
  <2> QED
    BY <1>1, <2>1, <2>2, SubSeqProperties
<1>4. /\ a \o r \in Seq(S) /\ Len(a \o r) = n + Len(r)
      /\ \A i \in 1 .. n + Len(r) : (a \o r)[i] = IF i <= n THEN a[i] ELSE r[i - n]
  BY <1>3, ConcatProperties
<1>5. PICK l \in Nat : l = Len(r)
  OBVIOUS
<1>6. PICK b : b = a \o r
  OBVIOUS
<1>7. b \in Seq(S) /\ Len(b) = n + l /\ \A i \in 1 .. n + l : b[i] = IF i <= n THEN a[i] ELSE r[i - n]
  BY <1>4, <1>5, <1>6
<1>8. \A k \in 1 .. n : b[k] = s[k]
  <2>1. \A k \in 1 .. n : k \in 1 .. n + l /\ k <= n
    OBVIOUS
  <2> QED
    BY <1>3, <1>7, <2>1
<1>9. ASSUME NEW k \in 1 .. l PROVE b[n + k] = r[k]
  <2>1. n + k \in 1 .. n + l /\ ~(n + k <= n) /\ (n + k) - n = k
    OBVIOUS
  <2> QED
    BY <1>7, <2>1
<1>10. b = Front(s) \o r
  BY <1>2, <1>6
<1> QED
  BY <1>1, <1>5, <1>7, <1>8, <1>9, <1>10

LEMMA TurnIn == ASSUME Stacks, NEW t \in Threads, ~Idle(t), NEW fs \in Seq(Frame), Turn(t, fs)
  PROVE \E n \in Nat \ {0} :
          /\ In(t, n, Top(t)) /\ Top(t) \in Frame /\ Topmost(t, n)
          /\ \A k \in 1 .. n - 1 : \E f \in Frame : In(t, k, f)
          /\ Stacks' /\ Moves(t, n, {<<n - 1 + j, fs[j]>> : j \in DOMAIN fs})
<1>1. stack[t] \in Seq(Frame) /\ stack[t] # <<>>
  BY DEF Stacks, Idle
<1>2. PICK n \in Nat \ {0} : n = Len(stack[t])
  BY <1>1
<1>3. PICK r : r = Front(stack[t]) \o fs
  OBVIOUS
<1>4. /\ r \in Seq(Frame) /\ Len(r) = n - 1 + Len(fs)
      /\ \A k \in 1 .. n - 1 : r[k] = stack[t][k]
      /\ \A k \in 1 .. Len(fs) : r[n - 1 + k] = fs[k]
  <2>1. PICK q \in Seq(Frame) : q = stack[t]
    BY <1>1
  <2>2. q # <<>> /\ Len(q) = n
    BY <1>1, <1>2, <2>1
  <2>3. q # <<>>
    BY <2>2
  <2>4. Front(q) \o fs \in Seq(Frame) /\ Len(Front(q) \o fs) = Len(q) - 1 + Len(fs)
    BY <2>3, FrontPlus
  <2>5. \A k \in 1 .. Len(q) - 1 : (Front(q) \o fs)[k] = q[k]
    BY <2>3, FrontPlus
  <2>6. \A k \in 1 .. Len(fs) : (Front(q) \o fs)[Len(q) - 1 + k] = fs[k]
    BY <2>3, FrontPlus
  <2>7. r = Front(q) \o fs
    BY <1>3, <2>1
  <2> QED
    BY <2>1, <2>2, <2>4, <2>5, <2>6, <2>7
<1>5. stack' = [stack EXCEPT ![t] = r]
  BY <1>3 DEF Turn
<1>6. stack'[t] = r /\ \A u \in Threads : u # t => stack'[u] = stack[u]
  BY <1>5 DEF Stacks
<1>7. Stacks'
  BY <1>4, <1>5 DEF Stacks
<1>8. In(t, n, Top(t)) /\ Top(t) \in Frame /\ Topmost(t, n)
  BY <1>1, <1>2 DEF In, Top, Last, Topmost
<1>9. \A k \in 1 .. n - 1 : \E f \in Frame : In(t, k, f)
  BY <1>1, <1>2 DEF In
<1> DEFINE A == {<<n - 1 + j, fs[j]>> : j \in DOMAIN fs}
<1>10. ASSUME NEW k \in Nat, NEW f \in Frame PROVE In(t, k, f)' <=> (In(t, k, f) /\ k # n) \/ <<k, f>> \in A
  <2>1. In(t, k, f)' <=> k \in DOMAIN r /\ r[k] = f
    BY <1>6 DEF In
  <2>2. CASE k < n
    <3>1. k \in DOMAIN r <=> k \in DOMAIN stack[t]
      BY <1>1, <1>2, <1>4, <2>2
    <3>2. k \in DOMAIN r => r[k] = stack[t][k]
      BY <1>1, <1>2, <1>4, <2>2
    <3>3. <<k, f>> \notin A
      BY <2>2
    <3> QED
      BY <2>1, <2>2, <3>1, <3>2, <3>3 DEF In
  <2>3. CASE k >= n
    <3>1. ~(In(t, k, f) /\ k # n)
      BY <1>1, <1>2, <2>3 DEF In
    <3>2. PICK j \in Nat : j = k - n + 1 /\ k = n - 1 + j /\ j > 0
      BY <2>3
    <3>3. <<k, f>> \in A <=> j \in DOMAIN fs /\ fs[j] = f
      BY <3>2
    <3>4. k \in DOMAIN r <=> j \in DOMAIN fs
      BY <1>4, <3>2
    <3>5. j \in DOMAIN fs => r[k] = fs[j]
      BY <1>4, <3>2
    <3> QED
      BY <2>1, <3>1, <3>3, <3>4, <3>5
  <2> QED
    BY <2>2, <2>3
<1>11. ASSUME NEW u \in Threads, u # t, NEW k \in Nat, NEW f \in Frame PROVE In(u, k, f)' <=> In(u, k, f)
  BY <1>6, <1>11 DEF In
<1>12. Moves(t, n, A)
  <2> HIDE DEF A
  <2> QED
    BY <1>10, <1>11 DEF Moves
<1> QED
  BY <1>7, <1>8, <1>9, <1>12

\* The same for a thread that goes into something from where it is.
LEMMA EnterIn == ASSUME Stacks, NEW t \in Threads, Idle(t), NEW fs \in Seq(Frame), Enter(t, fs)
  PROVE /\ Topmost(t, 0) /\ Stacks'
        /\ Moves(t, 1, {<<j, fs[j]>> : j \in DOMAIN fs})
<1>1. stack[t] = <<>>
  BY DEF Idle
<1>2. \A k, f : ~In(t, k, f)
  BY <1>1 DEF In
<1>3. <<>> \o fs = fs
  BY ConcatEmptySeq
<1>4. stack' = [stack EXCEPT ![t] = fs]
  BY <1>1, <1>3 DEF Enter
<1>5. stack'[t] = fs /\ \A u \in Threads : u # t => stack'[u] = stack[u]
  BY <1>4 DEF Stacks
<1>6. Stacks'
  BY <1>4 DEF Stacks
<1> DEFINE A == {<<j, fs[j]>> : j \in DOMAIN fs}
<1>7. ASSUME NEW k \in Nat, NEW f \in Frame PROVE In(t, k, f)' <=> <<k, f>> \in A
  BY <1>5 DEF In
<1>8. ASSUME NEW u \in Threads, u # t, NEW k \in Nat, NEW f \in Frame PROVE In(u, k, f)' <=> In(u, k, f)
  BY <1>5, <1>8 DEF In
<1>9. Moves(t, 1, A)
  <2> HIDE DEF A
  <2> QED
    BY <1>2, <1>7, <1>8 DEF Moves
<1> QED
  BY <1>2, <1>6, <1>9 DEF Topmost

\* The three lengths that a thread's turn has.
LEMMA Turns0 == ASSUME NEW n \in Nat PROVE {<<n - 1 + j, (<<>>)[j]>> : j \in DOMAIN <<>>} = {}
  OBVIOUS

LEMMA Turns1 == ASSUME NEW n \in Nat, NEW f
  PROVE {<<n - 1 + j, (<<f>>)[j]>> : j \in DOMAIN <<f>>} = {<<n, f>>}
<1>1. DOMAIN <<f>> = {1} /\ (<<f>>)[1] = f /\ n - 1 + 1 = n
  OBVIOUS
<1> QED
  BY <1>1

LEMMA Turns2 == ASSUME NEW n \in Nat, NEW f, NEW g
  PROVE {<<n - 1 + j, (<<f, g>>)[j]>> : j \in DOMAIN <<f, g>>} = {<<n, f>>, <<n + 1, g>>}
<1>1. DOMAIN <<f, g>> = {1, 2} /\ (<<f, g>>)[1] = f /\ (<<f, g>>)[2] = g /\ n - 1 + 1 = n /\ n - 1 + 2 = n + 1
  OBVIOUS
<1> QED
  BY <1>1

\* What a frame is made of.
LEMMA FrameIs == ASSUME NEW f \in Frame
  PROVE /\ f.op \in {"publish", "find", "send", "unref", "dis", "del", "recv"}
        /\ f.op = "publish" => f.p \in Pubs /\ f.i \in 1 .. N + 1 /\ f = Publishing(f.p, f.i)
        /\ f.op = "find" => f.p \in Pubs /\ f = Lambda(f.p)
        /\ f.op \in {"send", "unref"} =>
             f.p \in Pubs /\ f.li \in Seq(Entry) /\ f.i \in Nat /\ f = Sending(f.op, f.p, f.li, f.i)
        /\ f.op \in {"dis", "del", "recv"} => f.c \in Conns /\ f = On(f.op, f.c)
<1>1. CASE f \in [op : {"publish"}, p : Pubs, i : 1 .. N + 1]
  BY <1>1 DEF Publishing
<1>2. CASE f \in [op : {"find"}, p : Pubs]
  BY <1>2 DEF Lambda
<1>3. CASE f \in [op : {"send", "unref"}, p : Pubs, li : Seq(Entry), i : Nat]
  BY <1>3 DEF Sending
<1>4. CASE f \in [op : {"dis", "del", "recv"}, c : Conns]
  BY <1>4 DEF On
<1> QED
  BY <1>1, <1>2, <1>3, <1>4 DEF Frame

LEMMA EntryIs == ASSUME NEW li \in Seq(Entry), NEW i \in DOMAIN li
  PROVE li[i] \in Entry /\ li[i].c \in Conns /\ li[i].sid \in Sids /\ li[i].topic \in Topics /\ li[i].n \in Nat
<1>1. li[i] \in Entry
  OBVIOUS
<1> QED
  BY <1>1 DEF Entry

LEMMA PublishingIs == ASSUME NEW p \in Pubs, NEW i \in 1 .. N + 1
  PROVE Publishing(p, i) \in Frame /\ Publishing(p, i).op = "publish" /\ Publishing(p, i).p = p /\ Publishing(p, i).i = i
  BY DEF Frame, Publishing

LEMMA LambdaIs == ASSUME NEW p \in Pubs
  PROVE Lambda(p) \in Frame /\ Lambda(p).op = "find" /\ Lambda(p).p = p
  BY DEF Frame, Lambda

LEMMA SendingIs == ASSUME NEW op \in {"send", "unref"}, NEW p \in Pubs, NEW li \in Seq(Entry), NEW i \in Nat
  PROVE LET f == Sending(op, p, li, i) IN
          f \in Frame /\ f.op = op /\ f.p = p /\ f.li = li /\ f.i = i
  BY DEF Frame, Sending

LEMMA OnIs == ASSUME NEW op \in {"dis", "del", "recv"}, NEW c \in Conns
  PROVE On(op, c) \in Frame /\ On(op, c).op = op /\ On(op, c).c = c
  BY DEF Frame, On

-----------------------------------------------------------------------------
(* The actions, with the frames they are about and their depth.            *)

\* t is in f and nothing deeper, and A comes in its place.
Swap(t, n, f, A) ==
  n \in Nat \ {0} /\ f \in Frame /\ In(t, n, f) /\ Topmost(t, n) /\ Stacks' /\ Moves(t, n, A)

\* t is in nothing, and goes into A.
Push(t, A) == Topmost(t, 0) /\ Stacks' /\ Moves(t, 1, A)

LEMMA TopIs == ASSUME Stacks, NEW t \in Threads, NEW op, At(t, op)
  PROVE ~Idle(t) /\ Top(t) \in Frame /\ Top(t).op = op
<1>1. stack[t] \in Seq(Frame) /\ stack[t] # <<>>
  BY DEF Stacks, At, Idle
<1>2. stack[t][Len(stack[t])] \in Frame
  BY <1>1
<1> QED
  BY <1>2 DEF At, Top, Last

LEMMA Swap0 == ASSUME Stacks, NEW t \in Threads, ~Idle(t), Turn(t, <<>>)
  PROVE \E n \in Nat \ {0} : Swap(t, n, Top(t), {})
<1>1. <<>> \in Seq(Frame)
  OBVIOUS
<1>2. PICK n \in Nat \ {0} :
        /\ In(t, n, Top(t)) /\ Top(t) \in Frame /\ Topmost(t, n)
        /\ Stacks' /\ Moves(t, n, {<<n - 1 + j, (<<>>)[j]>> : j \in DOMAIN <<>>})
  BY <1>1, TurnIn
<1>3. Moves(t, n, {})
  BY <1>2, Turns0
<1> QED
  BY <1>2, <1>3 DEF Swap

LEMMA Swap1 == ASSUME Stacks, NEW t \in Threads, ~Idle(t), NEW f \in Frame, Turn(t, <<f>>)
  PROVE \E n \in Nat \ {0} : Swap(t, n, Top(t), {<<n, f>>})
<1>1. <<f>> \in Seq(Frame)
  OBVIOUS
<1>2. PICK n \in Nat \ {0} :
        /\ In(t, n, Top(t)) /\ Top(t) \in Frame /\ Topmost(t, n)
        /\ Stacks' /\ Moves(t, n, {<<n - 1 + j, (<<f>>)[j]>> : j \in DOMAIN <<f>>})
  BY <1>1, TurnIn
<1>3. Moves(t, n, {<<n, f>>})
  BY <1>2, Turns1
<1> QED
  BY <1>2, <1>3 DEF Swap

LEMMA Swap2 == ASSUME Stacks, NEW t \in Threads, ~Idle(t), NEW f \in Frame, NEW g \in Frame, Turn(t, <<f, g>>)
  PROVE \E n \in Nat \ {0} : Swap(t, n, Top(t), {<<n, f>>, <<n + 1, g>>})
<1>1. <<f, g>> \in Seq(Frame)
  OBVIOUS
<1>2. PICK n \in Nat \ {0} :
        /\ In(t, n, Top(t)) /\ Top(t) \in Frame /\ Topmost(t, n)
        /\ Stacks' /\ Moves(t, n, {<<n - 1 + j, (<<f, g>>)[j]>> : j \in DOMAIN <<f, g>>})
  BY <1>1, TurnIn
<1>3. Moves(t, n, {<<n, f>>, <<n + 1, g>>})
  BY <1>2, Turns2
<1> QED
  BY <1>2, <1>3 DEF Swap

LEMMA Push1 == ASSUME Stacks, NEW t \in Threads, Idle(t), NEW f \in Frame, Enter(t, <<f>>)
  PROVE Push(t, {<<1, f>>})
<1>1. <<f>> \in Seq(Frame)
  OBVIOUS
<1>2. {<<j, (<<f>>)[j]>> : j \in DOMAIN <<f>>} = {<<1, f>>}
  <2>1. DOMAIN <<f>> = {1} /\ (<<f>>)[1] = f
    OBVIOUS
  <2> QED
    BY <2>1
<1>3. Topmost(t, 0) /\ Stacks' /\ Moves(t, 1, {<<j, (<<f>>)[j]>> : j \in DOMAIN <<f>>})
  BY <1>1, EnterIn
<1> QED
  BY <1>2, <1>3 DEF Push

LEMMA Push2 == ASSUME Stacks, NEW t \in Threads, Idle(t), NEW f \in Frame, NEW g \in Frame, Enter(t, <<f, g>>)
  PROVE Push(t, {<<1, f>>, <<2, g>>})
<1>1. <<f, g>> \in Seq(Frame)
  OBVIOUS
<1>2. {<<j, (<<f, g>>)[j]>> : j \in DOMAIN <<f, g>>} = {<<1, f>>, <<2, g>>}
  <2>1. DOMAIN <<f, g>> = {1, 2} /\ (<<f, g>>)[1] = f /\ (<<f, g>>)[2] = g
    OBVIOUS
  <2> QED
    BY <2>1
<1>3. Topmost(t, 0) /\ Stacks' /\ Moves(t, 1, {<<j, (<<f, g>>)[j]>> : j \in DOMAIN <<f, g>>})
  BY <1>1, EnterIn
<1> QED
  BY <1>2, <1>3 DEF Push

\* The lambda of f goes on with the entries of li from i on.
OnwardAt(w, n, f, p, li, i) ==
  \/ i > Len(li) /\ Count(p) /\ Swap(w, n, f, {})
  \/ i <= Len(li) /\ UNCHANGED pub /\ Swap(w, n, f, {<<n, Sending("send", p, li, i)>>})

PublishAt(t, p) ==
  /\ Push(t, {<<1, Publishing(p, 1)>>}) /\ Create(t, p, subscribers, due)
  /\ UNCHANGED <<subscribers, conn, queue, told, ended>>

HandAt(t, n, p, i) ==
  /\ UNCHANGED <<subscribers, conn, pub, history>>
  /\ \/ /\ i = t /\ UNCHANGED queue
        /\ Swap(t, n, Publishing(p, i), {<<n, Publishing(p, i + 1)>>, <<n + 1, Lambda(p)>>})
     \/ /\ i # t /\ queue' = [queue EXCEPT ![i] = Append(@, p)]
        /\ Swap(t, n, Publishing(p, i), {<<n, Publishing(p, i + 1)>>})

PublishedAt(t, n, p) ==
  /\ Swap(t, n, Publishing(p, N + 1), {}) /\ ended' = [ended EXCEPT ![t] = @ \cup {p}]
  /\ UNCHANGED <<subscribers, conn, pub, queue, told, due, past>>

DoFutureAt(w, p) ==
  /\ Push(w, {<<1, Lambda(p)>>})
  /\ queue[w] # <<>> /\ p = Head(queue[w]) /\ queue' = [queue EXCEPT ![w] = Tail(@)]
  /\ UNCHANGED <<subscribers, conn, pub, history>>

FindAt(w, n, p, li) ==
  /\ li = Copy(w, p) /\ \A j \in DOMAIN li : conn[li[j].c].life = "live"
  /\ conn' = Ref(li) /\ OnwardAt(w, n, Lambda(p), p, li, 1)
  /\ UNCHANGED <<subscribers, queue, history>>

SendAt(w, n, p, li, i) ==
  /\ i \in DOMAIN li /\ OnwardAt(w, n, Sending("send", p, li, i), p, li, i + 1)
  /\ told' = IF conn[li[i].c].est THEN [told EXCEPT ![li[i].c] = Append(@, Message(p, li[i]))] ELSE told
  /\ conn' = unRef(li[i].c)
  /\ UNCHANGED <<subscribers, queue, due, ended, past>>

SendFailsAt(w, n, p, li, i) ==
  /\ i \in DOMAIN li /\ conn[li[i].c].est /\ conn' = [conn EXCEPT ![li[i].c].est = FALSE]
  /\ Swap(w, n, Sending("send", p, li, i),
          {<<n, Sending("unref", p, li, i)>>, <<n + 1, On("dis", li[i].c)>>})
  /\ UNCHANGED <<subscribers, pub, queue, history>>

UnrefAt(w, n, p, li, i) ==
  /\ i \in DOMAIN li /\ OnwardAt(w, n, Sending("unref", p, li, i), p, li, i + 1)
  /\ conn' = unRef(li[i].c)
  /\ UNCHANGED <<subscribers, queue, history>>

HupAt(c) ==
  /\ conn[c].est /\ conn' = [conn EXCEPT ![c].est = FALSE, ![c].rc = @ + 1]
  /\ Push(Home[c], {<<1, On("recv", c)>>, <<2, On("dis", c)>>})
  /\ UNCHANGED <<subscribers, pub, queue, history>>

RecvAt(w, n, c) ==
  /\ Swap(w, n, On("recv", c), {}) /\ conn' = unRef(c)
  /\ UNCHANGED <<subscribers, pub, queue, history>>

DelAt(w, n, c) ==
  /\ Swap(w, n, On("del", c), {}) /\ conn' = del(c)
  /\ UNCHANGED <<subscribers, pub, queue, history>>

DisAt(w, n, c) ==
  /\ Swap(w, n, On("dis", c), {}) /\ subscribers' = Delisted(c)
  /\ conn' = del(c) /\ due' = Released(c)
  /\ UNCHANGED <<pub, queue, told, ended, past>>

DisPublishAt(w, n, c, p) ==
  /\ Swap(w, n, On("dis", c), {<<n, On("del", c)>>, <<n + 1, Publishing(p, 1)>>})
  /\ c \in Users /\ subscribers' = unSubscribe(c) /\ Create(w, p, unSubscribe(c), Undue(c))
  /\ UNCHANGED <<conn, queue, told, ended>>

DisCloseAt(w, n, c, d) ==
  /\ Swap(w, n, On("dis", c), {<<n, On("del", c)>>, <<n + 1, On("dis", d)>>})
  /\ c \in Users /\ subscribers' = unSubscribe(c) /\ due' = Undue(c)
  /\ Home[d] = w /\ conn[d].est /\ conn' = [conn EXCEPT ![d].est = FALSE]
  /\ UNCHANGED <<pub, queue, told, ended, past>>

LEMMA OnwardIs ==
  ASSUME Stacks, NEW w \in Threads, ~Idle(w), NEW p \in Pubs, NEW li \in Seq(Entry), NEW i \in Nat, Onward(w, p, li, i)
  PROVE \E n \in Nat \ {0} : OnwardAt(w, n, Top(w), p, li, i)
<1>1. CASE i > Len(li)
  <2>1. Count(p) /\ Turn(w, <<>>)
    BY <1>1 DEF Onward
  <2>2. PICK n \in Nat \ {0} : Swap(w, n, Top(w), {})
    BY <2>1, Swap0
  <2> QED
    BY <1>1, <2>1, <2>2 DEF OnwardAt
<1>2. CASE ~(i > Len(li))
  <2>1. UNCHANGED pub /\ Turn(w, <<Sending("send", p, li, i)>>)
    BY <1>2 DEF Onward
  <2>2. Sending("send", p, li, i) \in Frame
    BY SendingIs
  <2>3. PICK n \in Nat \ {0} : Swap(w, n, Top(w), {<<n, Sending("send", p, li, i)>>})
    BY <2>1, <2>2, Swap1
  <2>4. i <= Len(li)
    BY <1>2
  <2> QED
    BY <2>1, <2>3, <2>4 DEF OnwardAt
<1> QED
  BY <1>1, <1>2

LEMMA PublishIs == ASSUME TypeOK, NEW t \in Threads, NEW p \in Pubs, Publish(t, p) PROVE PublishAt(t, p)
<1>1. Stacks /\ Idle(t) /\ Enter(t, <<Publishing(p, 1)>>) /\ 1 \in 1 .. N + 1
  BY PubSubAssumption DEF TypeOK, Stacks, Publish
<1>2. Publishing(p, 1) \in Frame
  BY <1>1, PublishingIs
<1>3. Push(t, {<<1, Publishing(p, 1)>>})
  BY <1>1, <1>2, Push1
<1> QED
  BY <1>3 DEF Publish, PublishAt

LEMMA HandIs == ASSUME TypeOK, NEW t \in Threads, Hand(t)
  PROVE \E n \in Nat \ {0}, p \in Pubs, i \in Workers : HandAt(t, n, p, i)
<1>1. Stacks /\ At(t, "publish")
  BY DEF TypeOK, Stacks, Hand
<1>2. ~Idle(t) /\ Top(t) \in Frame /\ Top(t).op = "publish"
  BY <1>1, TopIs
<1>3. PICK p \in Pubs, i \in 1 .. N + 1 : Top(t) = Publishing(p, i) /\ Top(t).p = p /\ Top(t).i = i
  BY <1>2, FrameIs
<1>4. i \in Workers /\ i + 1 \in 1 .. N + 1 /\ Future(t, p, i)
  BY <1>3, PubSubAssumption DEF Hand, Workers
<1>5. Publishing(p, i + 1) \in Frame /\ Lambda(p) \in Frame
  BY <1>4, PublishingIs, LambdaIs
<1>6. UNCHANGED <<subscribers, conn, pub, history>>
  BY DEF Hand
<1>7. CASE i = t
  <2>1. Turn(t, <<Publishing(p, i + 1), Lambda(p)>>) /\ UNCHANGED queue
    BY <1>4, <1>7 DEF Future
  <2>2. PICK n \in Nat \ {0} : Swap(t, n, Top(t), {<<n, Publishing(p, i + 1)>>, <<n + 1, Lambda(p)>>})
    BY <1>1, <1>2, <1>5, <2>1, Swap2
  <2> QED
    BY <1>3, <1>4, <1>6, <1>7, <2>1, <2>2 DEF HandAt
<1>8. CASE i # t
  <2>1. Turn(t, <<Publishing(p, i + 1)>>) /\ queue' = [queue EXCEPT ![i] = Append(@, p)]
    BY <1>4, <1>8 DEF Future
  <2>2. PICK n \in Nat \ {0} : Swap(t, n, Top(t), {<<n, Publishing(p, i + 1)>>})
    BY <1>1, <1>2, <1>5, <2>1, Swap1
  <2> QED
    BY <1>3, <1>4, <1>6, <1>8, <2>1, <2>2 DEF HandAt
<1> QED
  BY <1>7, <1>8

\* The topics of p are different.
Apart(p) == Of[p][1] # Of[p][2]

\* What a thread is in is of the worker it is.  The copy of a lambda is without
\* doubles, if its topics are apart, and not at its end; whom it could not send to is down, and so is who is
\* about to be deleted, which it is not yet.
FrameOK(t, f) ==
  /\ f.op = "publish" \/ t \in Workers
  /\ f.op \in {"send", "unref"} =>
       /\ f.i \in DOMAIN f.li /\ (Apart(f.p) => IsInjective(f.li))
       /\ \A j \in DOMAIN f.li : Home[f.li[j].c] = t
  /\ f.op = "unref" => ~conn[f.li[f.i].c].est
  /\ f.op \in {"dis", "del", "recv"} => Home[f.c] = t
  /\ f.op \in {"dis", "del"} => ~conn[f.c].est /\ ~conn[f.c].rf

Frames == \A t \in Threads, k \in Nat, f \in Frame : In(t, k, f) => FrameOK(t, f)

\* The innermost of t, by FrameOK.
LEMMA TopOK == ASSUME TypeOK, Frames, NEW t \in Threads, NEW op, At(t, op)
  PROVE Stacks /\ ~Idle(t) /\ Top(t) \in Frame /\ Top(t).op = op /\ FrameOK(t, Top(t))
<1>1. Stacks
  BY DEF TypeOK, Stacks
<1>2. ~Idle(t) /\ Top(t) \in Frame /\ Top(t).op = op
  BY <1>1, TopIs
<1>3. stack[t] \in Seq(Frame) /\ stack[t] # <<>>
  BY <1>1, <1>2 DEF Stacks, Idle
<1>4. In(t, Len(stack[t]), Top(t)) /\ Len(stack[t]) \in Nat
  BY <1>3 DEF In, Top, Last
<1> QED
  BY <1>1, <1>2, <1>4 DEF Frames

LEMMA PublishedIs == ASSUME TypeOK, Frames, NEW t \in Threads, Published(t)
  PROVE \E n \in Nat \ {0}, p \in Pubs : PublishedAt(t, n, p)
<1>1. At(t, "publish")
  BY DEF Published
<1>2. Stacks /\ ~Idle(t) /\ Top(t) \in Frame /\ Top(t).op = "publish"
  BY <1>1, TopOK
<1>3. PICK p \in Pubs, i \in 1 .. N + 1 : Top(t) = Publishing(p, i) /\ Top(t).p = p /\ Top(t).i = i
  BY <1>2, FrameIs
<1>4. i = N + 1 /\ Turn(t, <<>>) /\ ended' = [ended EXCEPT ![t] = @ \cup {p}]
  BY <1>3, PubSubAssumption DEF Published
<1>5. PICK n \in Nat \ {0} : Swap(t, n, Top(t), {})
  BY <1>2, <1>4, Swap0
<1> QED
  BY <1>3, <1>4, <1>5 DEF PublishedAt, Published

LEMMA DoFutureIs == ASSUME TypeOK, NEW w \in Workers, DoFuture(w)
  PROVE \E p \in Pubs : DoFutureAt(w, p)
<1>1. Stacks /\ w \in Threads /\ queue[w] \in Seq(Pubs)
  BY DEF TypeOK, Stacks, Threads
<1>2. Idle(w) /\ queue[w] # <<>> /\ Enter(w, <<Lambda(Head(queue[w]))>>)
  BY DEF DoFuture
<1>3. PICK p \in Pubs : p = Head(queue[w])
  BY <1>1, <1>2
<1>4. Lambda(p) \in Frame
  BY LambdaIs
<1>5. Push(w, {<<1, Lambda(p)>>})
  BY <1>1, <1>2, <1>3, <1>4, Push1
<1> QED
  BY <1>2, <1>3, <1>5 DEF DoFuture, DoFutureAt

LEMMA CopyType == ASSUME TypeOK, NEW w \in Workers, NEW p \in Pubs
  PROVE /\ subscribers[w][Of[p][1]] \in Seq(Entry) /\ subscribers[w][Of[p][2]] \in Seq(Entry)
        /\ Copy(w, p) \in Seq(Entry)
<1>1. Of[p][1] \in Topics /\ Of[p][2] \in Topics
  BY PubSubAssumption
<1>2. subscribers[w][Of[p][1]] \in Seq(Entry) /\ subscribers[w][Of[p][2]] \in Seq(Entry)
  BY <1>1 DEF TypeOK
<1> QED
  BY <1>2 DEF Copy

LEMMA FindIs == ASSUME TypeOK, Frames, NEW t \in Threads, Find(t)
  PROVE t \in Workers /\ \E n \in Nat \ {0}, p \in Pubs : \E li \in Seq(Entry) : FindAt(t, n, p, li)
<1>1. At(t, "find")
  BY DEF Find
<1>2. Stacks /\ ~Idle(t) /\ Top(t) \in Frame /\ Top(t).op = "find" /\ FrameOK(t, Top(t))
  BY <1>1, TopOK
<1>3. t \in Workers
  BY <1>2 DEF FrameOK
<1>4. PICK p \in Pubs : Top(t) = Lambda(p) /\ Top(t).p = p
  BY <1>2, FrameIs
<1>5. PICK li \in Seq(Entry) : li = Copy(t, p)
  BY <1>3, CopyType
<1>6. conn' = Ref(li) /\ Onward(t, p, li, 1) /\ \A j \in DOMAIN li : conn[li[j].c].life = "live"
  BY <1>4, <1>5 DEF Find, ToSet
<1>7. PICK n \in Nat \ {0} : OnwardAt(t, n, Top(t), p, li, 1)
  BY <1>2, <1>6, OnwardIs
<1>8. UNCHANGED <<subscribers, queue, history>>
  BY DEF Find
<1>9. FindAt(t, n, p, li)
  BY <1>4, <1>5, <1>6, <1>7, <1>8 DEF FindAt
<1> QED
  BY <1>3, <1>9

LEMMA SendIs == ASSUME TypeOK, Frames, NEW t \in Threads, Send(t)
  PROVE t \in Workers /\ \E n \in Nat \ {0}, p \in Pubs, i \in Nat : \E li \in Seq(Entry) : SendAt(t, n, p, li, i)
<1>1. At(t, "send")
  BY DEF Send
<1>2. Stacks /\ ~Idle(t) /\ Top(t) \in Frame /\ Top(t).op = "send" /\ FrameOK(t, Top(t))
  BY <1>1, TopOK
<1>3. PICK p \in Pubs, i \in Nat : \E li \in Seq(Entry) :
        Top(t) = Sending("send", p, li, i) /\ Top(t).p = p /\ Top(t).i = i /\ Top(t).li = li
  BY <1>2, FrameIs
<1>4. PICK li \in Seq(Entry) : Top(t) = Sending("send", p, li, i) /\ Top(t).p = p /\ Top(t).i = i /\ Top(t).li = li
  BY <1>3
<1>5. t \in Workers /\ i \in DOMAIN li
  BY <1>2, <1>4 DEF FrameOK
<1>6. Onward(t, p, li, i + 1) /\ i + 1 \in Nat
  BY <1>4 DEF Send
<1>7. PICK n \in Nat \ {0} : OnwardAt(t, n, Top(t), p, li, i + 1)
  BY <1>2, <1>6, OnwardIs
<1>8. /\ told' = IF conn[li[i].c].est THEN [told EXCEPT ![li[i].c] = Append(@, Message(p, li[i]))] ELSE told
      /\ conn' = unRef(li[i].c) /\ UNCHANGED <<subscribers, queue, due, ended, past>>
  BY <1>4 DEF Send
<1>9. SendAt(t, n, p, li, i)
  BY <1>4, <1>5, <1>7, <1>8 DEF SendAt
<1> QED
  BY <1>5, <1>9

LEMMA SendFailsIs == ASSUME TypeOK, Frames, NEW t \in Threads, SendFails(t)
  PROVE t \in Workers /\ \E n \in Nat \ {0}, p \in Pubs, i \in Nat : \E li \in Seq(Entry) : SendFailsAt(t, n, p, li, i)
<1>1. At(t, "send")
  BY DEF SendFails
<1>2. Stacks /\ ~Idle(t) /\ Top(t) \in Frame /\ Top(t).op = "send" /\ FrameOK(t, Top(t))
  BY <1>1, TopOK
<1>3. PICK p \in Pubs, i \in Nat : \E li \in Seq(Entry) :
        Top(t) = Sending("send", p, li, i) /\ Top(t).p = p /\ Top(t).i = i /\ Top(t).li = li
  BY <1>2, FrameIs
<1>4. PICK li \in Seq(Entry) : Top(t) = Sending("send", p, li, i) /\ Top(t).p = p /\ Top(t).i = i /\ Top(t).li = li
  BY <1>3
<1>5. t \in Workers /\ i \in DOMAIN li
  BY <1>2, <1>4 DEF FrameOK
<1>6. /\ conn[li[i].c].est /\ conn' = [conn EXCEPT ![li[i].c].est = FALSE]
      /\ Turn(t, <<Sending("unref", p, li, i), On("dis", li[i].c)>>)
      /\ UNCHANGED <<subscribers, pub, queue, history>>
  BY <1>4 DEF SendFails
<1>7. li[i].c \in Conns
  BY <1>5, EntryIs
<1>8. Sending("unref", p, li, i) \in Frame /\ On("dis", li[i].c) \in Frame
  BY <1>7, SendingIs, OnIs
<1>9. PICK n \in Nat \ {0} :
        Swap(t, n, Top(t), {<<n, Sending("unref", p, li, i)>>, <<n + 1, On("dis", li[i].c)>>})
  BY <1>2, <1>6, <1>8, Swap2
<1>10. SendFailsAt(t, n, p, li, i)
  BY <1>4, <1>5, <1>6, <1>9 DEF SendFailsAt
<1> QED
  BY <1>5, <1>10

LEMMA UnrefIs == ASSUME TypeOK, Frames, NEW t \in Threads, Unref(t)
  PROVE t \in Workers /\ \E n \in Nat \ {0}, p \in Pubs, i \in Nat : \E li \in Seq(Entry) : UnrefAt(t, n, p, li, i)
<1>1. At(t, "unref")
  BY DEF Unref
<1>2. Stacks /\ ~Idle(t) /\ Top(t) \in Frame /\ Top(t).op = "unref" /\ FrameOK(t, Top(t))
  BY <1>1, TopOK
<1>3. PICK p \in Pubs, i \in Nat : \E li \in Seq(Entry) :
        Top(t) = Sending("unref", p, li, i) /\ Top(t).p = p /\ Top(t).i = i /\ Top(t).li = li
  BY <1>2, FrameIs
<1>4. PICK li \in Seq(Entry) : Top(t) = Sending("unref", p, li, i) /\ Top(t).p = p /\ Top(t).i = i /\ Top(t).li = li
  BY <1>3
<1>5. t \in Workers /\ i \in DOMAIN li
  BY <1>2, <1>4 DEF FrameOK
<1>6. conn' = unRef(li[i].c) /\ Onward(t, p, li, i + 1) /\ i + 1 \in Nat
  BY <1>4 DEF Unref
<1>7. PICK n \in Nat \ {0} : OnwardAt(t, n, Top(t), p, li, i + 1)
  BY <1>2, <1>6, OnwardIs
<1>8. UNCHANGED <<subscribers, queue, history>>
  BY DEF Unref
<1>9. UnrefAt(t, n, p, li, i)
  BY <1>4, <1>5, <1>6, <1>7, <1>8 DEF UnrefAt
<1> QED
  BY <1>5, <1>9

LEMMA HupIs == ASSUME TypeOK, NEW c \in Conns, Hup(c) PROVE HupAt(c)
<1>1. Home[c] \in Workers /\ Home[c] \in Threads
  BY PubSubAssumption DEF Threads
<1>2. Stacks /\ Idle(Home[c]) /\ Enter(Home[c], <<On("recv", c), On("dis", c)>>)
  BY DEF TypeOK, Stacks, Hup
<1>3. On("recv", c) \in Frame /\ On("dis", c) \in Frame
  BY OnIs
<1>4. Push(Home[c], {<<1, On("recv", c)>>, <<2, On("dis", c)>>})
  BY <1>1, <1>2, <1>3, Push2
<1> QED
  BY <1>4 DEF Hup, HupAt

\* The innermost of t is about a connection of it.
LEMMA TopOn == ASSUME TypeOK, Frames, NEW t \in Threads, NEW op \in {"dis", "del", "recv"}, At(t, op)
  PROVE \E c \in Conns : Top(t) = On(op, c) /\ Top(t).c = c /\ Home[c] = t /\ t \in Workers /\ Stacks /\ ~Idle(t)
<1>1. Stacks /\ ~Idle(t) /\ Top(t) \in Frame /\ Top(t).op = op /\ FrameOK(t, Top(t))
  BY TopOK
<1>2. PICK c \in Conns : Top(t) = On(op, c) /\ Top(t).c = c
  BY <1>1, FrameIs
<1>3. Home[c] = t /\ t \in Workers
  BY <1>1, <1>2 DEF FrameOK
<1> QED
  BY <1>1, <1>2, <1>3

LEMMA RecvIs == ASSUME TypeOK, Frames, NEW t \in Threads, Recv(t)
  PROVE t \in Workers /\ \E n \in Nat \ {0}, c \in Conns : Home[c] = t /\ RecvAt(t, n, c)
<1>1. At(t, "recv")
  BY DEF Recv
<1>2. PICK c \in Conns : Top(t) = On("recv", c) /\ Top(t).c = c /\ Home[c] = t /\ t \in Workers /\ Stacks /\ ~Idle(t)
  BY <1>1, TopOn
<1>3. Turn(t, <<>>)
  BY DEF Recv
<1>4. PICK n \in Nat \ {0} : Swap(t, n, Top(t), {})
  BY <1>2, <1>3, Swap0
<1>5. RecvAt(t, n, c)
  BY <1>2, <1>4 DEF RecvAt, Recv
<1> QED
  BY <1>2, <1>5

LEMMA DelIs == ASSUME TypeOK, Frames, NEW t \in Threads, Del(t)
  PROVE t \in Workers /\ \E n \in Nat \ {0}, c \in Conns : Home[c] = t /\ DelAt(t, n, c)
<1>1. At(t, "del")
  BY DEF Del
<1>2. PICK c \in Conns : Top(t) = On("del", c) /\ Top(t).c = c /\ Home[c] = t /\ t \in Workers /\ Stacks /\ ~Idle(t)
  BY <1>1, TopOn
<1>3. Turn(t, <<>>)
  BY DEF Del
<1>4. PICK n \in Nat \ {0} : Swap(t, n, Top(t), {})
  BY <1>2, <1>3, Swap0
<1>5. DelAt(t, n, c)
  BY <1>2, <1>4 DEF DelAt, Del
<1> QED
  BY <1>2, <1>5

LEMMA DisIs == ASSUME TypeOK, Frames, NEW t \in Threads, Dis(t)
  PROVE t \in Workers /\ \E n \in Nat \ {0}, c \in Conns : Home[c] = t /\ DisAt(t, n, c)
<1>1. At(t, "dis")
  BY DEF Dis, Gone
<1>2. PICK c \in Conns : Top(t) = On("dis", c) /\ Top(t).c = c /\ Home[c] = t /\ t \in Workers /\ Stacks /\ ~Idle(t)
  BY <1>1, TopOn
<1>3. Turn(t, <<>>)
  BY DEF Dis
<1>4. PICK n \in Nat \ {0} : Swap(t, n, Top(t), {})
  BY <1>2, <1>3, Swap0
<1>5. DisAt(t, n, c)
  BY <1>2, <1>4 DEF DisAt, Dis, Gone
<1> QED
  BY <1>2, <1>5

LEMMA DisPublishIs == ASSUME TypeOK, Frames, NEW t \in Threads, NEW p \in Pubs, DisPublish(t, p)
  PROVE t \in Workers /\ \E n \in Nat \ {0}, c \in Conns : Home[c] = t /\ DisPublishAt(t, n, c, p)
<1>1. At(t, "dis")
  BY DEF DisPublish, Gone
<1>2. PICK c \in Conns : Top(t) = On("dis", c) /\ Top(t).c = c /\ Home[c] = t /\ t \in Workers /\ Stacks /\ ~Idle(t)
  BY <1>1, TopOn
<1>3. Turn(t, <<On("del", c), Publishing(p, 1)>>) /\ 1 \in 1 .. N + 1
  BY <1>2, PubSubAssumption DEF DisPublish
<1>4. On("del", c) \in Frame /\ Publishing(p, 1) \in Frame
  BY <1>3, OnIs, PublishingIs
<1>5. PICK n \in Nat \ {0} : Swap(t, n, Top(t), {<<n, On("del", c)>>, <<n + 1, Publishing(p, 1)>>})
  BY <1>2, <1>3, <1>4, Swap2
<1>6. DisPublishAt(t, n, c, p)
  BY <1>2, <1>5 DEF DisPublishAt, DisPublish, Gone, Delisted
<1> QED
  BY <1>2, <1>6

LEMMA DisCloseIs == ASSUME TypeOK, Frames, NEW t \in Threads, NEW d \in Conns, DisClose(t, d)
  PROVE t \in Workers /\ \E n \in Nat \ {0}, c \in Conns : Home[c] = t /\ DisCloseAt(t, n, c, d)
<1>1. At(t, "dis")
  BY DEF DisClose, Gone
<1>2. PICK c \in Conns : Top(t) = On("dis", c) /\ Top(t).c = c /\ Home[c] = t /\ t \in Workers /\ Stacks /\ ~Idle(t)
  BY <1>1, TopOn
<1>3. Turn(t, <<On("del", c), On("dis", d)>>)
  BY <1>2 DEF DisClose
<1>4. On("del", c) \in Frame /\ On("dis", d) \in Frame
  BY OnIs
<1>5. PICK n \in Nat \ {0} : Swap(t, n, Top(t), {<<n, On("del", c)>>, <<n + 1, On("dis", d)>>})
  BY <1>2, <1>3, <1>4, Swap2
<1>6. DisCloseAt(t, n, c, d)
  BY <1>2, <1>5 DEF DisCloseAt, DisClose, Gone, Delisted
<1> QED
  BY <1>2, <1>6

-----------------------------------------------------------------------------
(* The connections.                                                        *)

Ends(f, c) == f.op \in {"dis", "del"} /\ f.c = c

\* A connection that is lost is about to be deleted once, until it is.
OneEnd == \A t \in Threads, k, l \in Nat, f, g \in Frame, c \in Conns :
  In(t, k, f) /\ In(t, l, g) /\ Ends(f, c) /\ Ends(g, c) => k = l

Ending == \A c \in Conns :
  /\ conn[c].est => ~conn[c].rf
  /\ ~conn[c].est /\ ~conn[c].rf => \E k \in Nat, f \in Frame : In(Home[c], k, f) /\ Ends(f, c)

\* The lists have the worker's own connections and no doubles; one that a user is
\* to take off is up, or about to be taken off.
ListOK(w, t, li) ==
  /\ IsInjective(li)
  /\ \A j \in DOMAIN li : Home[li[j].c] = w /\ li[j].topic = t

Reachable(w, e) == e.c \in Users => conn[e.c].est \/ \E k \in Nat : In(w, k, On("dis", e.c))

Lists == \A w \in Workers, t \in Topics :
  /\ ListOK(w, t, subscribers[w][t])
  /\ \A j \in DOMAIN subscribers[w][t] : Reachable(w, subscribers[w][t][j])

Balanced == \A c \in Conns :
  /\ IsFiniteSet(Owed(c)) /\ conn[c].rc = Cardinality(Owed(c))
  /\ conn[c].life = "freed" <=> conn[c].rf /\ conn[c].rc = 0

\* A stack that stays as it is, is a move of nothing.
LEMMA Still == ASSUME Stacks, UNCHANGED stack, NEW t \in Threads PROVE Moves(t, 0, {}) /\ Stacks'
<1>1. \A u \in Threads, k \in Nat, f \in Frame : In(u, k, f) => k # 0
  BY InOne
<1>2. \A u \in Threads, k \in Nat, f \in Frame : In(u, k, f)' <=> In(u, k, f)
  BY DEF In
<1> QED
  BY <1>1, <1>2 DEF Moves, Stacks

LEMMA FramesKept ==
  ASSUME Frames, OneEnd, NEW t \in Threads, NEW n \in Nat, NEW A, Moves(t, n, A),
         \A c \in Conns : conn'[c].est => conn[c].est,
         \A c \in Conns : conn'[c].rf => conn[c].rf \/ \E f \in Frame : In(t, n, f) /\ Ends(f, c),
         \A k \in Nat, f \in Frame : <<k, f>> \in A => FrameOK(t, f)'
  PROVE Frames'
<1>1. SUFFICES ASSUME NEW u \in Threads, NEW k \in Nat, NEW f \in Frame, In(u, k, f)' PROVE FrameOK(u, f)'
  BY DEF Frames
<1>2. CASE u = t /\ <<k, f>> \in A
  BY <1>2
<1>3. CASE ~(u = t /\ <<k, f>> \in A)
  <2>1. In(u, k, f) /\ ~(u = t /\ k = n)
    BY <1>1, <1>3 DEF Moves
  <2>2. FrameOK(u, f)
    BY <2>1 DEF Frames
  <2>3. f.op = "unref" => ~conn'[f.li[f.i].c].est
    <3>1. CASE f.op = "unref"
      <4>1. f.li \in Seq(Entry) /\ f.i \in DOMAIN f.li
        BY <2>2, <3>1, FrameIs DEF FrameOK
      <4>2. f.li[f.i].c \in Conns
        BY <4>1, EntryIs
      <4> QED
        BY <2>2, <3>1, <4>2 DEF FrameOK
    <3> QED
      BY <3>1
  <2>4. f.op \in {"dis", "del"} => ~conn'[f.c].est /\ ~conn'[f.c].rf
    <3>1. CASE f.op \in {"dis", "del"}
      <4>1. f.c \in Conns /\ Home[f.c] = u /\ ~conn[f.c].est /\ ~conn[f.c].rf /\ Ends(f, f.c)
        BY <2>2, <3>1, FrameIs DEF FrameOK, Ends
      <4>2. ASSUME NEW g \in Frame, In(t, n, g), Ends(g, f.c) PROVE FALSE
        <5>1. Home[f.c] = t
          BY <4>2 DEF Frames, FrameOK, Ends
        <5>2. k = n
          BY <2>1, <4>1, <4>2, <5>1 DEF OneEnd
        <5> QED
          BY <2>1, <4>1, <5>1, <5>2
      <4> QED
        BY <4>1, <4>2
    <3> QED
      BY <3>1
  <2> QED
    BY <2>2, <2>3, <2>4 DEF FrameOK
<1> QED
  BY <1>2, <1>3

LEMMA OneEndKept ==
  ASSUME Frames, OneEnd, NEW t \in Threads, NEW n \in Nat, NEW A, Moves(t, n, A),
         \A k, l \in Nat, f, g \in Frame, c \in Conns :
           <<k, f>> \in A /\ <<l, g>> \in A /\ Ends(f, c) /\ Ends(g, c) => k = l,
         \A k \in Nat, f \in Frame, c \in Conns : <<k, f>> \in A /\ Ends(f, c) =>
           conn[c].est \/ \E g \in Frame : In(t, n, g) /\ Ends(g, c)
  PROVE OneEnd'
<1>1. SUFFICES ASSUME NEW u \in Threads, NEW k \in Nat, NEW l \in Nat, NEW f \in Frame, NEW g \in Frame,
                      NEW c \in Conns, In(u, k, f)', In(u, l, g)', Ends(f, c), Ends(g, c)
               PROVE k = l
  BY DEF OneEnd, Ends
<1>2. ASSUME NEW a \in Nat, NEW h \in Frame, In(u, a, h), Ends(h, c), ~(u = t /\ a = n),
             NEW b \in Nat, NEW i \in Frame, <<b, i>> \in A, Ends(i, c), u = t
      PROVE FALSE
  <2>1. ~conn[c].est
    BY <1>2 DEF Frames, FrameOK, Ends
  <2>2. PICK j \in Frame : In(t, n, j) /\ Ends(j, c)
    BY <1>2, <2>1
  <2>3. a = n
    BY <1>2, <2>2 DEF OneEnd
  <2> QED
    BY <1>2, <2>3
<1>3. (In(u, k, f) /\ ~(u = t /\ k = n)) \/ (u = t /\ <<k, f>> \in A)
  BY <1>1 DEF Moves
<1>4. (In(u, l, g) /\ ~(u = t /\ l = n)) \/ (u = t /\ <<l, g>> \in A)
  BY <1>1 DEF Moves
<1>5. CASE In(u, k, f) /\ In(u, l, g)
  BY <1>1, <1>5 DEF OneEnd
<1>6. CASE u = t /\ <<k, f>> \in A /\ <<l, g>> \in A
  BY <1>1, <1>6
<1> QED
  BY <1>1, <1>2, <1>3, <1>4, <1>5, <1>6

LEMMA EndingKept ==
  ASSUME Ending, NEW t \in Threads, NEW n \in Nat, NEW A, Moves(t, n, A),
         \A c \in Conns : conn'[c].est => ~conn'[c].rf,
         \A c \in Conns : ~conn'[c].est /\ ~conn'[c].rf =>
           \/ Home[c] = t /\ \E k \in Nat, f \in Frame : <<k, f>> \in A /\ Ends(f, c)
           \/ ~conn[c].est /\ ~conn[c].rf /\ \A f \in Frame : In(t, n, f) => ~Ends(f, c)
  PROVE Ending'
<1>1. SUFFICES ASSUME NEW c \in Conns, ~conn'[c].est, ~conn'[c].rf
               PROVE \E k \in Nat, f \in Frame : In(Home[c], k, f)' /\ Ends(f, c)
  BY DEF Ending, Ends
<1>2. Home[c] \in Threads
  BY PubSubAssumption DEF Threads
<1>3. CASE Home[c] = t /\ \E k \in Nat, f \in Frame : <<k, f>> \in A /\ Ends(f, c)
  BY <1>2, <1>3 DEF Moves
<1>4. CASE ~conn[c].est /\ ~conn[c].rf /\ \A f \in Frame : In(t, n, f) => ~Ends(f, c)
  <2>1. PICK k \in Nat, f \in Frame : In(Home[c], k, f) /\ Ends(f, c)
    BY <1>4 DEF Ending
  <2>2. In(Home[c], k, f)'
    BY <1>2, <1>4, <2>1 DEF Moves
  <2> QED
    BY <2>1, <2>2
<1> QED
  BY <1>1, <1>3, <1>4

LEMMA ListsKept ==
  ASSUME Stacks, Lists, UNCHANGED subscribers, NEW t \in Threads, NEW n \in Nat, NEW A, Moves(t, n, A),
         \A w \in Workers, s \in Topics : subscribers[w][s] \in Seq(Entry),
         \A c \in Conns : ~In(t, n, On("dis", c)),
         \A c \in Conns : conn[c].est => conn'[c].est \/ (Home[c] = t /\ \E k \in Nat : <<k, On("dis", c)>> \in A)
  PROVE Lists'
<1>1. SUFFICES ASSUME NEW w \in Workers, NEW s \in Topics, NEW j \in DOMAIN subscribers[w][s]
               PROVE Reachable(w, subscribers[w][s][j])'
  BY DEF Lists, ListOK
<1>2. PICK e \in Entry : e = subscribers[w][s][j]
  OBVIOUS
<1>3. e.c \in Conns /\ Home[e.c] = w /\ Reachable(w, e) /\ w \in Threads
  BY <1>2, EntryIs DEF Lists, ListOK, Threads
<1>4. On("dis", e.c) \in Frame
  BY <1>3, OnIs
<1>5. Reachable(w, e)'
  <2>1. CASE conn[e.c].est
    BY <1>3, <1>4, <2>1 DEF Moves, Reachable
  <2>2. CASE ~conn[e.c].est /\ e.c \in Users
    <3>1. PICK k \in Nat : In(w, k, On("dis", e.c))
      BY <1>3, <2>2 DEF Reachable
    <3>2. In(w, k, On("dis", e.c))'
      BY <1>3, <1>4, <3>1 DEF Moves
    <3> QED
      BY <3>2 DEF Reachable
  <2> QED
    BY <2>1, <2>2 DEF Reachable
<1> QED
  BY <1>2, <1>5

-----------------------------------------------------------------------------
(* unSubscribe.                                                            *)

\* f[k] is what the erasing loop has left of the first k of li: the function that
\* Without defines by recursion.
Keeps(f, li, c, n) ==
  f = [k \in 0 .. n |-> IF k = 0 THEN <<>> ELSE IF li[k].c = c THEN f[k - 1] ELSE Append(f[k - 1], li[k])]

LEMMA KeepsExists == ASSUME NEW li \in Seq(Entry), NEW c PROVE \E f : Keeps(f, li, c, Len(li))
<1> DEFINE T == {n \in Nat : n > 0 /\ \E f : Keeps(f, li, c, n - 1)}
<1>1. 1 \in T
  <2> DEFINE g == [k \in 0 .. 0 |-> <<>>]
  <2>1. Keeps(g, li, c, 0)
    BY DEF Keeps
  <2>2. 1 - 1 = 0
    OBVIOUS
  <2> HIDE DEF g
  <2> QED
    BY <2>1, <2>2
<1>2. ASSUME NEW n \in 1 .. Len(li), n \in T PROVE n + 1 \in T
  <2>1. PICK f : Keeps(f, li, c, n - 1)
    BY <1>2
  <2> DEFINE g == [k \in 0 .. n |->
                     IF k = n THEN IF li[n].c = c THEN f[n - 1] ELSE Append(f[n - 1], li[n]) ELSE f[k]]
  <2>2. ASSUME NEW k \in 0 .. n
        PROVE g[k] = IF k = 0 THEN <<>> ELSE IF li[k].c = c THEN g[k - 1] ELSE Append(g[k - 1], li[k])
    <3>1. CASE k = n
      <4>1. k # 0 /\ k - 1 = n - 1 /\ n - 1 \in 0 .. n /\ n - 1 # n
        BY <3>1
      <4>2. g[k] = IF li[k].c = c THEN f[n - 1] ELSE Append(f[n - 1], li[k])
        BY <3>1
      <4>3. g[n - 1] = f[n - 1]
        BY <4>1
      <4> QED
        BY <4>1, <4>2, <4>3
    <3>2. CASE k # n
      <4>1. k \in 0 .. n - 1
        BY <3>2
      <4>2. f[k] = IF k = 0 THEN <<>> ELSE IF li[k].c = c THEN f[k - 1] ELSE Append(f[k - 1], li[k])
        BY <2>1, <4>1 DEF Keeps
      <4>3. g[k] = f[k]
        BY <3>2
      <4>4. k # 0 => g[k - 1] = f[k - 1]
        BY <4>1
      <4> QED
        BY <4>2, <4>3, <4>4
    <3> QED
      BY <3>1, <3>2
  <2>3. Keeps(g, li, c, n)
    BY <2>2 DEF Keeps
  <2>4. (n + 1) - 1 = n /\ n + 1 \in Nat /\ n + 1 > 0
    OBVIOUS
  <2> HIDE DEF g
  <2> QED
    BY <2>3, <2>4
<1>3. Len(li) + 1 \in T
  <2>1. PICK m \in Nat : m = Len(li) + 1 /\ m - 1 = Len(li) /\ m > 0
    OBVIOUS
  <2>2. \A n \in 1 .. m : n \in T
    <3>1. \A n \in 1 .. m - 1 : n \in T => n + 1 \in T
      BY <1>2, <2>1
    <3> HIDE DEF T
    <3> QED
      BY <1>1, <3>1, UpTo
  <2> HIDE DEF T
  <2> QED
    BY <2>1, <2>2
<1>4. (Len(li) + 1) - 1 = Len(li)
  OBVIOUS
<1> QED
  BY <1>3, <1>4

\* s is what is left of the first k of li.
Left(s, li, c, k) ==
  /\ s \in Seq(Entry)
  /\ \A e : Contains(s, e) <=> e.c # c /\ \E j \in 1 .. k : li[j] = e
  /\ IsInjective(li) => IsInjective(s)

LEMMA KeepsLeft == ASSUME NEW li \in Seq(Entry), NEW c, NEW f, Keeps(f, li, c, Len(li))
  PROVE Left(f[Len(li)], li, c, Len(li))
<1>1. PICK m \in Nat : m = Len(li)
  OBVIOUS
<1>2. \A j \in 1 .. m : li[j] \in Entry
  BY <1>1
<1>3. IsInjective(li) => \A i, j \in 1 .. m : li[i] = li[j] => i = j
  BY <1>1 DEF IsInjective
<1>4. \A k \in 0 .. m : f[k] = IF k = 0 THEN <<>> ELSE IF li[k].c = c THEN f[k - 1] ELSE Append(f[k - 1], li[k])
  BY <1>1 DEF Keeps
<1> DEFINE T == {n \in Nat : n > 0 /\ Left(f[n - 1], li, c, n - 1)}
<1>5. 1 \in T
  <2>1. f[0] = <<>>
    BY <1>4
  <2>2. Left(<<>>, li, c, 0)
    BY DEF Left, Contains, IsInjective
  <2>3. 1 - 1 = 0
    OBVIOUS
  <2> QED
    BY <2>1, <2>2, <2>3
<1>6. ASSUME NEW n \in 1 .. m, n \in T PROVE n + 1 \in T
  <2>1. PICK s : s = f[n - 1]
    OBVIOUS
  <2>2. PICK x \in Entry : x = li[n]
    BY <1>2
  <2>3. Left(s, li, c, n - 1)
    BY <1>6, <2>1
  <2>4. \A e : (\E j \in 1 .. n : li[j] = e) <=> (\E j \in 1 .. n - 1 : li[j] = e) \/ e = x
    <3>1. \A j : j \in 1 .. n <=> j \in 1 .. n - 1 \/ j = n
      OBVIOUS
    <3> QED
      BY <2>2, <3>1
  <2>5. f[n] = IF x.c = c THEN s ELSE Append(s, x)
    <3>1. n \in 0 .. m /\ n # 0
      OBVIOUS
    <3> QED
      BY <1>4, <2>1, <2>2, <3>1
  <2>6. CASE x.c = c
    <3>1. Left(s, li, c, n)
      BY <2>3, <2>4, <2>6 DEF Left
    <3> QED
      BY <2>5, <2>6, <3>1
  <2>7. CASE x.c # c
    <3>1. s \in Seq(Entry)
      BY <2>3 DEF Left
    <3>2. PICK r : r = Append(s, x)
      OBVIOUS
    <3>3. r \in Seq(Entry) /\ \A e : Contains(r, e) <=> Contains(s, e) \/ e = x
      BY <3>1, <3>2, AppendContains
    <3>4. \A e : Contains(r, e) <=> e.c # c /\ \E j \in 1 .. n : li[j] = e
      BY <2>3, <2>4, <2>7, <3>3 DEF Left
    <3>5. ASSUME IsInjective(li) PROVE IsInjective(r)
      <4>1. ~Contains(s, x)
        <5>1. \A j \in 1 .. n - 1 : li[j] # x
          BY <1>3, <2>2, <3>5
        <5> QED
          BY <2>3, <5>1 DEF Left
      <4>2. IsInjective(s)
        BY <2>3, <3>5 DEF Left
      <4> QED
        BY <3>1, <3>2, <4>1, <4>2, AppendDistinct
    <3>6. Left(r, li, c, n)
      BY <3>3, <3>4, <3>5 DEF Left
    <3>7. f[n] = r
      BY <2>5, <2>7, <3>2
    <3>8. Left(f[n], li, c, n) /\ (n + 1) - 1 = n /\ n + 1 \in Nat /\ n + 1 > 0
      BY <3>6, <3>7
    <3> QED
      BY <3>8
  <2> QED
    BY <2>6, <2>7
<1>7. m + 1 \in T
  <2>1. m + 1 \in Nat /\ (m + 1) - 1 = m /\ m + 1 \in 1 .. m + 1
    OBVIOUS
  <2>2. \A n \in 1 .. (m + 1) - 1 : n \in T => n + 1 \in T
    BY <1>6
  <2> HIDE DEF T
  <2> QED
    BY <1>5, <2>1, <2>2, UpTo
<1>8. (m + 1) - 1 = m
  OBVIOUS
<1> QED
  BY <1>1, <1>7, <1>8

\* unSubscribe leaves the entries of the others, each where there was one.
LEMMA WithoutIs == ASSUME NEW li \in Seq(Entry), NEW c PROVE Left(Without(li, c), li, c, Len(li))
<1> DEFINE f == CHOOSE f : Keeps(f, li, c, Len(li))
<1>1. Keeps(f, li, c, Len(li))
  BY KeepsExists
<1>2. Without(li, c) = f[Len(li)]
  BY DEF Without, Keeps
<1> HIDE DEF f
<1> QED
  BY <1>1, <1>2, KeepsLeft

-----------------------------------------------------------------------------
(* What the operations do to the connections, field by field.              *)

ConnType == conn \in [Conns -> [life : {"live", "freed"}, est : BOOLEAN, rc : Nat, rf : BOOLEAN]]

\* ... but for the sign of the count.
ConnShape == conn \in [Conns -> [life : {"live", "freed"}, est : BOOLEAN, rc : Int, rf : BOOLEAN]]

ConnRecords == [life : {"live", "freed"}, est : BOOLEAN, rc : Nat, rf : BOOLEAN]
ConnShapes == [life : {"live", "freed"}, est : BOOLEAN, rc : Int, rf : BOOLEAN]

LEMMA PutConn == ASSUME ConnType, NEW c \in Conns, NEW r \in ConnShapes, conn' = [conn EXCEPT ![c] = r]
  PROVE ConnShape' /\ conn'[c] = r /\ \A d \in Conns : d # c => conn'[d] = conn[d]
<1>1. conn \in [Conns -> ConnShapes]
  BY DEF ConnType, ConnShapes
<1>2. conn' \in [Conns -> ConnShapes] /\ conn'[c] = r /\ \A d \in Conns : d # c => conn'[d] = conn[d]
  BY <1>1
<1> QED
  BY <1>2 DEF ConnShape, ConnShapes

LEMMA DelConn == ASSUME ConnType, NEW c \in Conns, conn' = del(c)
  PROVE /\ ConnShape'
        /\ \A d \in Conns :
             /\ conn'[d].est = conn[d].est /\ conn'[d].rc = conn[d].rc
             /\ conn'[d].rf <=> d = c \/ conn[d].rf
             /\ conn'[d].life = IF d = c /\ conn[c].rc < 1 THEN "freed" ELSE conn[d].life
<1>1. PICK k \in ConnRecords : k = conn[c]
  BY DEF ConnType, ConnRecords
<1>0. PICK v \in {"live", "freed"} : v = IF k.rc < 1 THEN "freed" ELSE k.life
  BY <1>1 DEF ConnRecords
<1>2. PICK r : r = [k EXCEPT !.rf = TRUE, !.life = v]
  OBVIOUS
<1>3. conn' = [conn EXCEPT ![c] = r]
  BY <1>0, <1>1, <1>2 DEF del, ConnType
<1>4. r \in ConnShapes
  <2>1. k \in ConnShapes
    BY <1>1 DEF ConnRecords, ConnShapes
  <2>2. PICK q : q = [k EXCEPT !.rf = TRUE]
    OBVIOUS
  <2>3. q \in ConnShapes /\ q.rc = k.rc
    BY <2>1, <2>2 DEF ConnShapes
  <2>4. r = [q EXCEPT !.life = v]
    BY <1>2, <2>1, <2>2 DEF ConnShapes
  <2> QED
    BY <2>1, <2>3, <2>4, <1>0 DEF ConnShapes
<1>4a. r.est = k.est
  BY <1>1, <1>2 DEF ConnRecords
<1>4b. r.rc = k.rc
  BY <1>1, <1>2 DEF ConnRecords
<1>4c. r.rf = TRUE
  BY <1>1, <1>2 DEF ConnRecords
<1>4d. r.life = v
  BY <1>1, <1>2 DEF ConnRecords
<1>5. ConnShape' /\ conn'[c] = r /\ \A d \in Conns : d # c => conn'[d] = conn[d]
  BY <1>3, <1>4, PutConn
<1> QED
  BY <1>1, <1>0, <1>4a, <1>4b, <1>4c, <1>4d, <1>5

LEMMA UnRefConn == ASSUME ConnType, NEW c \in Conns, conn' = unRef(c)
  PROVE /\ ConnShape'
        /\ \A d \in Conns :
             /\ conn'[d].est = conn[d].est /\ conn'[d].rf = conn[d].rf
             /\ conn'[d].rc = IF d = c THEN conn[d].rc - 1 ELSE conn[d].rc
             /\ conn'[d].life = IF d = c /\ conn[c].rc - 1 < 1 /\ conn[c].rf THEN "freed" ELSE conn[d].life
<1>1. PICK k \in ConnRecords : k = conn[c]
  BY DEF ConnType, ConnRecords
<1>0. PICK v \in {"live", "freed"} : v = IF k.rc - 1 < 1 /\ k.rf THEN "freed" ELSE k.life
  BY <1>1 DEF ConnRecords
<1>2. PICK r : r = [k EXCEPT !.rc = k.rc - 1, !.life = v]
  OBVIOUS
<1>3. conn' = [conn EXCEPT ![c] = r]
  BY <1>0, <1>1, <1>2 DEF unRef, ConnType
<1>4. r \in ConnShapes
  <2>1. k \in ConnShapes
    BY <1>1 DEF ConnRecords, ConnShapes
  <2>2. PICK q : q = [k EXCEPT !.rc = k.rc - 1]
    OBVIOUS
  <2>3. q \in ConnShapes /\ q.rc = k.rc - 1
    BY <2>1, <2>2 DEF ConnShapes
  <2>4. r = [q EXCEPT !.life = v]
    BY <1>2, <2>1, <2>2 DEF ConnShapes
  <2> QED
    BY <2>1, <2>3, <2>4, <1>0 DEF ConnShapes
<1>4a. r.est = k.est
  BY <1>1, <1>2 DEF ConnRecords
<1>4b. r.rc = k.rc - 1
  BY <1>1, <1>2 DEF ConnRecords
<1>4c. r.rf = k.rf
  BY <1>1, <1>2 DEF ConnRecords
<1>4d. r.life = v
  BY <1>1, <1>2 DEF ConnRecords
<1>5. ConnShape' /\ conn'[c] = r /\ \A d \in Conns : d # c => conn'[d] = conn[d]
  BY <1>3, <1>4, PutConn
<1> QED
  BY <1>1, <1>0, <1>4a, <1>4b, <1>4c, <1>4d, <1>5

LEMMA LoseConn == ASSUME ConnType, NEW c \in Conns, conn' = [conn EXCEPT ![c].est = FALSE]
  PROVE /\ ConnShape'
        /\ \A d \in Conns :
             /\ conn'[d].est <=> d # c /\ conn[d].est
             /\ conn'[d].rc = conn[d].rc /\ conn'[d].rf = conn[d].rf /\ conn'[d].life = conn[d].life
<1>1. PICK k \in ConnRecords : k = conn[c]
  BY DEF ConnType, ConnRecords
<1>2. PICK r : r = [k EXCEPT !.est = FALSE]
  OBVIOUS
<1>3. conn' = [conn EXCEPT ![c] = r]
  BY <1>1, <1>2 DEF ConnType
<1>4. r \in ConnShapes
  <2>1. k \in ConnShapes
    BY <1>1 DEF ConnRecords, ConnShapes
  <2> QED
    BY <1>2, <2>1 DEF ConnShapes
<1>4a. r.est = FALSE
  BY <1>1, <1>2 DEF ConnRecords
<1>4b. r.rc = k.rc
  BY <1>1, <1>2 DEF ConnRecords
<1>4c. r.rf = k.rf
  BY <1>1, <1>2 DEF ConnRecords
<1>4d. r.life = k.life
  BY <1>1, <1>2 DEF ConnRecords
<1>5. ConnShape' /\ conn'[c] = r /\ \A d \in Conns : d # c => conn'[d] = conn[d]
  BY <1>3, <1>4, PutConn
<1> QED
  BY <1>1, <1>4a, <1>4b, <1>4c, <1>4d, <1>5

LEMMA HupConn == ASSUME ConnType, NEW c \in Conns, conn' = [conn EXCEPT ![c].est = FALSE, ![c].rc = @ + 1]
  PROVE /\ ConnShape'
        /\ \A d \in Conns :
             /\ conn'[d].est <=> d # c /\ conn[d].est
             /\ conn'[d].rc = IF d = c THEN conn[d].rc + 1 ELSE conn[d].rc
             /\ conn'[d].rf = conn[d].rf /\ conn'[d].life = conn[d].life
<1>1. PICK k \in ConnRecords : k = conn[c]
  BY DEF ConnType, ConnRecords
<1>2. PICK r : r = [k EXCEPT !.est = FALSE, !.rc = @ + 1]
  OBVIOUS
<1>3. conn' = [conn EXCEPT ![c] = r]
  BY <1>1, <1>2 DEF ConnType
<1>4. r \in ConnShapes
  <2>1. k \in ConnShapes
    BY <1>1 DEF ConnRecords, ConnShapes
  <2>2. PICK q : q = [k EXCEPT !.est = FALSE]
    OBVIOUS
  <2>3. q \in ConnShapes /\ q.rc = k.rc
    BY <2>1, <2>2 DEF ConnShapes
  <2>4. r = [q EXCEPT !.rc = k.rc + 1]
    BY <1>2, <2>1, <2>2 DEF ConnShapes
  <2> QED
    BY <2>1, <2>3, <2>4 DEF ConnShapes
<1>4a. r.est = FALSE
  BY <1>1, <1>2 DEF ConnRecords
<1>4b. r.rc = k.rc + 1
  BY <1>1, <1>2 DEF ConnRecords
<1>4c. r.rf = k.rf
  BY <1>1, <1>2 DEF ConnRecords
<1>4d. r.life = k.life
  BY <1>1, <1>2 DEF ConnRecords
<1>5. ConnShape' /\ conn'[c] = r /\ \A d \in Conns : d # c => conn'[d] = conn[d]
  BY <1>3, <1>4, PutConn
<1>6. ASSUME NEW d \in Conns, d # c
      PROVE /\ conn'[d].est <=> d # c /\ conn[d].est
            /\ conn'[d].rc = IF d = c THEN conn[d].rc + 1 ELSE conn[d].rc
            /\ conn'[d].rf = conn[d].rf /\ conn'[d].life = conn[d].life
  <2>1. conn'[d] = conn[d]
    BY <1>5, <1>6
  <2>2. conn'[d].rc = IF d = c THEN conn[d].rc + 1 ELSE conn[d].rc
    BY <2>1, <1>6
  <2> QED
    BY <2>1, <2>2, <1>6
<1>7. ~conn'[c].est
  BY <1>4a, <1>5
<1>8. conn'[c].rc = conn[c].rc + 1 /\ conn'[c].rf = conn[c].rf /\ conn'[c].life = conn[c].life
  BY <1>1, <1>4b, <1>4c, <1>4d, <1>5
<1> QED
  BY <1>5, <1>6, <1>7, <1>8

\* The places of c in a list.
Spots(li, c) == {j \in DOMAIN li : li[j].c = c}

LEMMA SpotsFinite == ASSUME NEW li \in Seq(Entry), NEW c
  PROVE IsFiniteSet(Spots(li, c)) /\ Cardinality(Spots(li, c)) \in Nat
<1>1. PICK n \in Nat : n = Len(li)
  OBVIOUS
<1>2. IsFiniteSet(1 .. n)
  BY FS_Interval
<1>3. Spots(li, c) \in SUBSET (1 .. n)
  BY <1>1 DEF Spots
<1>4. IsFiniteSet(Spots(li, c))
  BY <1>2, <1>3, FS_Subset
<1> QED
  BY <1>4, FS_CardinalityType

LEMMA RefConn == ASSUME ConnType, NEW li \in Seq(Entry), conn' = Ref(li)
  PROVE /\ ConnShape'
        /\ \A d \in Conns :
             /\ conn'[d].est = conn[d].est /\ conn'[d].rf = conn[d].rf /\ conn'[d].life = conn[d].life
             /\ conn'[d].rc = conn[d].rc + Cardinality(Spots(li, d))
<1>1. conn' = [c \in Conns |-> [conn[c] EXCEPT !.rc = @ + Cardinality(Spots(li, c))]]
  BY DEF Ref, Spots
<1>2. \A c \in Conns : Cardinality(Spots(li, c)) \in Nat
  BY SpotsFinite
<1>3. ASSUME NEW d \in Conns
      PROVE /\ conn'[d] \in ConnShapes /\ conn'[d].est = conn[d].est /\ conn'[d].rf = conn[d].rf
            /\ conn'[d].life = conn[d].life /\ conn'[d].rc = conn[d].rc + Cardinality(Spots(li, d))
  <2>1. PICK m \in Nat : m = Cardinality(Spots(li, d))
    BY <1>2
  <2>2. conn'[d] = [conn[d] EXCEPT !.rc = @ + m]
    BY <1>1, <2>1
  <2>3. conn[d] \in [life : {"live", "freed"}, est : BOOLEAN, rc : Nat, rf : BOOLEAN]
    BY DEF ConnType
  <2> QED
    BY <2>1, <2>2, <2>3 DEF ConnShapes
<1>4. conn' \in [Conns -> ConnShapes]
  BY <1>1, <1>3
<1> QED
  BY <1>3, <1>4 DEF ConnShape, ConnShapes

LEMMA SameConn == ASSUME ConnType, UNCHANGED conn
  PROVE ConnShape' /\ conn' = conn
BY DEF ConnType, ConnShape

-----------------------------------------------------------------------------
(* What is owed.                                                           *)

LEMMA OwedPairs == ASSUME NEW s \in Seq(Frame), NEW c
  PROVE \A k, j : <<k, j>> \in UNION {{l} \X Refers(s[l], c) : l \in DOMAIN s}
                    <=> k \in DOMAIN s /\ j \in Refers(s[k], c)
OBVIOUS

\* x is a reference of the frame at its depth.
LEMMA OwedIs == ASSUME Stacks, NEW c \in Conns
  PROVE /\ \A k, j : <<k, j>> \in Owed(c) <=> \E f \in Frame : k \in Nat /\ In(Home[c], k, f) /\ j \in Refers(f, c)
        /\ \A x \in Owed(c) : \E k \in Nat : \E j : x = <<k, j>>
<1>1. PICK s \in Seq(Frame) : s = stack[Home[c]]
  BY PubSubAssumption DEF Stacks, Threads
<1>2. Owed(c) = UNION {{l} \X Refers(s[l], c) : l \in DOMAIN s}
  BY <1>1 DEF Owed
<1>3. \A k, f : In(Home[c], k, f) <=> k \in DOMAIN s /\ s[k] = f
  BY <1>1 DEF In
<1>4. \A k \in DOMAIN s : k \in Nat /\ s[k] \in Frame
  OBVIOUS
<1>5. \A k, j : <<k, j>> \in Owed(c) <=> k \in DOMAIN s /\ j \in Refers(s[k], c)
  BY <1>2, OwedPairs
<1>6. \A x \in Owed(c) : \E k \in Nat : \E j : x = <<k, j>>
  BY <1>2, <1>4
<1> QED
  BY <1>3, <1>4, <1>5, <1>6

LEMMA OwedIsThen == ASSUME Stacks', NEW c \in Conns
  PROVE /\ \A k, j : <<k, j>> \in Owed(c)' <=> \E f \in Frame : k \in Nat /\ In(Home[c], k, f)' /\ j \in Refers(f, c)
        /\ \A x \in Owed(c)' : \E k \in Nat : \E j : x = <<k, j>>
<1>1. PICK s \in Seq(Frame) : s = stack'[Home[c]]
  BY PubSubAssumption DEF Stacks, Threads
<1>2. Owed(c)' = UNION {{l} \X Refers(s[l], c) : l \in DOMAIN s}
  BY <1>1 DEF Owed
<1>3. \A k, f : In(Home[c], k, f)' <=> k \in DOMAIN s /\ s[k] = f
  BY <1>1 DEF In
<1>4. \A k \in DOMAIN s : k \in Nat /\ s[k] \in Frame
  OBVIOUS
<1>5. \A k, j : <<k, j>> \in Owed(c)' <=> k \in DOMAIN s /\ j \in Refers(s[k], c)
  BY <1>2, OwedPairs
<1>6. \A x \in Owed(c)' : \E k \in Nat : \E j : x = <<k, j>>
  BY <1>2, <1>4
<1> QED
  BY <1>3, <1>4, <1>5, <1>6

\* What a move makes of it.
LEMMA OwedMoves == ASSUME Stacks, Stacks', NEW t \in Threads, NEW n \in Nat, NEW A, Moves(t, n, A), NEW c \in Conns
  PROVE \A k \in Nat : \A j : <<k, j>> \in Owed(c)' <=>
          \/ <<k, j>> \in Owed(c) /\ ~(Home[c] = t /\ k = n)
          \/ Home[c] = t /\ \E f \in Frame : <<k, f>> \in A /\ j \in Refers(f, c)
<1>1. Home[c] \in Threads
  BY PubSubAssumption DEF Threads
<1>2. ASSUME NEW k \in Nat, NEW j
      PROVE <<k, j>> \in Owed(c)' <=>
          \/ <<k, j>> \in Owed(c) /\ ~(Home[c] = t /\ k = n)
          \/ Home[c] = t /\ \E f \in Frame : <<k, f>> \in A /\ j \in Refers(f, c)
  <2>1. <<k, j>> \in Owed(c)' <=> \E f \in Frame : In(Home[c], k, f)' /\ j \in Refers(f, c)
    BY <1>2, OwedIsThen
  <2>2. <<k, j>> \in Owed(c) <=> \E f \in Frame : In(Home[c], k, f) /\ j \in Refers(f, c)
    BY <1>2, OwedIs
  <2>3. \A f \in Frame : In(Home[c], k, f)' <=> (In(Home[c], k, f) /\ ~(Home[c] = t /\ k = n)) \/ (Home[c] = t /\ <<k, f>> \in A)
    BY <1>1 DEF Moves
  <2> QED
    BY <2>1, <2>2, <2>3
<1> QED
  BY <1>2

LEMMA OwedMovesOn == ASSUME Stacks, Stacks', NEW t \in Threads, NEW n \in Nat, NEW A, Moves(t, n, A), NEW c \in Conns, Home[c] = t
  PROVE \A k \in Nat : \A j : <<k, j>> \in Owed(c)' <=>
          (<<k, j>> \in Owed(c) /\ k # n) \/ \E f \in Frame : <<k, f>> \in A /\ j \in Refers(f, c)
<1> SUFFICES ASSUME NEW k \in Nat, NEW j
             PROVE <<k, j>> \in Owed(c)' <=>
                     (<<k, j>> \in Owed(c) /\ k # n) \/ \E f \in Frame : <<k, f>> \in A /\ j \in Refers(f, c)
  OBVIOUS
<1>1. <<k, j>> \in Owed(c)' <=>
        \/ <<k, j>> \in Owed(c) /\ ~(Home[c] = t /\ k = n)
        \/ Home[c] = t /\ \E f \in Frame : <<k, f>> \in A /\ j \in Refers(f, c)
  BY OwedMoves
<1> QED
  BY <1>1

\* Two sets of pairs are compared pair by pair.
LEMMA SamePairs == ASSUME Stacks, Stacks', NEW c \in Conns, NEW M, \A x \in M : \E k \in Nat : \E j : x = <<k, j>>,
                          \A k \in Nat : \A j : <<k, j>> \in Owed(c)' <=> <<k, j>> \in M
  PROVE Owed(c)' = M
<1>1. \A x \in Owed(c)' : \E k \in Nat : \E j : x = <<k, j>>
  BY OwedIsThen
<1> QED
  BY <1>1

LEMMA OwedSame == ASSUME Stacks, Stacks', NEW t \in Threads, NEW n \in Nat, NEW A, Moves(t, n, A), NEW c \in Conns,
    Home[c] = t => \A k \in Nat : \A j : (k = n /\ <<k, j>> \in Owed(c)) <=> \E f \in Frame : <<k, f>> \in A /\ j \in Refers(f, c)
  PROVE Owed(c)' = Owed(c)
<1>1. \A k \in Nat : \A j : <<k, j>> \in Owed(c)' <=> <<k, j>> \in Owed(c)
  <2>1. ASSUME NEW k \in Nat, NEW j PROVE <<k, j>> \in Owed(c)' <=> <<k, j>> \in Owed(c)
    <3>1. <<k, j>> \in Owed(c)' <=>
            \/ <<k, j>> \in Owed(c) /\ ~(Home[c] = t /\ k = n)
            \/ Home[c] = t /\ \E f \in Frame : <<k, f>> \in A /\ j \in Refers(f, c)
      BY OwedMoves
    <3>2. Home[c] = t => ((k = n /\ <<k, j>> \in Owed(c)) <=> \E f \in Frame : <<k, f>> \in A /\ j \in Refers(f, c))
      OBVIOUS
    <3> QED
      BY <3>1, <3>2
  <2> QED
    BY <2>1
<1>2. \A x \in Owed(c) : \E k \in Nat : \E j : x = <<k, j>>
  BY OwedIs
<1> QED
  BY <1>1, <1>2, SamePairs

LEMMA RefersNone == ASSUME NEW f, f.op \in {"publish", "find", "dis", "del"}, NEW c PROVE Refers(f, c) = {}
BY DEF Refers

LEMMA RefersSending == ASSUME NEW op \in {"send", "unref"}, NEW p \in Pubs, NEW li \in Seq(Entry), NEW i \in Nat, NEW c
  PROVE Refers(Sending(op, p, li, i), c) = {j \in i .. Len(li) : li[j].c = c}
BY SendingIs DEF Refers

LEMMA RefersRecv == ASSUME NEW d \in Conns, NEW c PROVE Refers(On("recv", d), c) = IF d = c THEN {0} ELSE {}
BY OnIs DEF Refers

\* What t owes at the depth of f is what f refers to.
LEMMA OwedAt == ASSUME Stacks, NEW t \in Threads, NEW n \in Nat, NEW f \in Frame, In(t, n, f), NEW c \in Conns, Home[c] = t
  PROVE \A j : <<n, j>> \in Owed(c) <=> j \in Refers(f, c)
<1>1. \A g \in Frame : In(t, n, g) => g = f
  BY InOne
<1> QED
  BY <1>1, OwedIs

\* A, in the place of f at n, refers to what f did ...
Keeping(n, f, A) == \A c \in Conns, k \in Nat : \A j :
  (k = n /\ j \in Refers(f, c)) <=> \E g \in Frame : <<k, g>> \in A /\ j \in Refers(g, c)

\* ... but for the reference i to c.
Dropping(n, f, A, c, i) == \A d \in Conns, k \in Nat : \A j :
  (k = n /\ j \in Refers(f, d) /\ ~(d = c /\ j = i)) <=> \E g \in Frame : <<k, g>> \in A /\ j \in Refers(g, d)

\* What is owed stays, when what comes refers to what f did.
LEMMA SwapSame == ASSUME Stacks, NEW t \in Threads, NEW n \in Nat, NEW f \in Frame, NEW A, Swap(t, n, f, A), Keeping(n, f, A)
  PROVE \A c \in Conns : Owed(c)' = Owed(c)
<1> SUFFICES ASSUME NEW c \in Conns PROVE Owed(c)' = Owed(c)
  OBVIOUS
<1>1. In(t, n, f) /\ Stacks' /\ Moves(t, n, A)
  BY DEF Swap
<1>2. ASSUME Home[c] = t, NEW k \in Nat, NEW j
      PROVE (k = n /\ <<k, j>> \in Owed(c)) <=> \E g \in Frame : <<k, g>> \in A /\ j \in Refers(g, c)
  <2>1. <<n, j>> \in Owed(c) <=> j \in Refers(f, c)
    BY <1>1, <1>2, OwedAt
  <2>2. (k = n /\ j \in Refers(f, c)) <=> \E g \in Frame : <<k, g>> \in A /\ j \in Refers(g, c)
    BY DEF Keeping
  <2> QED
    BY <2>1, <2>2
<1> HIDE DEF Swap
<1> QED
  BY <1>1, <1>2, OwedSame

LEMMA PushSame == ASSUME Stacks, NEW t \in Threads, NEW A, Push(t, A),
    \A c \in Conns, k \in Nat, g \in Frame : <<k, g>> \in A => Refers(g, c) = {}
  PROVE \A c \in Conns : Owed(c)' = Owed(c)
<1> SUFFICES ASSUME NEW c \in Conns PROVE Owed(c)' = Owed(c)
  OBVIOUS
<1>1. Topmost(t, 0) /\ Stacks' /\ Moves(t, 1, A)
  BY DEF Push
<1>2. ASSUME Home[c] = t, NEW k \in Nat, NEW j
      PROVE (k = 1 /\ <<k, j>> \in Owed(c)) <=> \E g \in Frame : <<k, g>> \in A /\ j \in Refers(g, c)
  <2>1. ~(k = 1 /\ <<k, j>> \in Owed(c))
    <3> SUFFICES ASSUME k = 1, <<k, j>> \in Owed(c) PROVE FALSE
      OBVIOUS
    <3>1. \E g \in Frame : In(t, 1, g)
      BY <1>2, OwedIs
    <3> QED
      BY <1>1, <3>1 DEF Topmost
  <2>2. ~\E g \in Frame : <<k, g>> \in A /\ j \in Refers(g, c)
    OBVIOUS
  <2> QED
    BY <2>1, <2>2
<1> QED
  BY <1>1, <1>2, OwedSame

\* One reference to c is over.
LEMMA SwapLess == ASSUME Stacks, NEW t \in Threads, NEW n \in Nat, NEW f \in Frame, NEW A, Swap(t, n, f, A),
    NEW c \in Conns, Home[c] = t, NEW i, i \in Refers(f, c), Dropping(n, f, A, c, i)
  PROVE /\ <<n, i>> \in Owed(c) /\ Owed(c)' = Owed(c) \ {<<n, i>>}
        /\ \A d \in Conns : d # c => Owed(d)' = Owed(d)
<1>1. In(t, n, f) /\ Stacks' /\ Moves(t, n, A)
  BY DEF Swap
<1>2. <<n, i>> \in Owed(c)
  BY <1>1, OwedAt
<1>3. Owed(c)' = Owed(c) \ {<<n, i>>}
  <2>1. ASSUME NEW k \in Nat, NEW j PROVE <<k, j>> \in Owed(c)' <=> <<k, j>> \in Owed(c) \ {<<n, i>>}
    <3>1. <<k, j>> \in Owed(c)' <=>
            (<<k, j>> \in Owed(c) /\ k # n) \/ \E g \in Frame : <<k, g>> \in A /\ j \in Refers(g, c)
      BY <1>1, OwedMovesOn
    <3>2. (k = n /\ j \in Refers(f, c) /\ j # i) <=> \E g \in Frame : <<k, g>> \in A /\ j \in Refers(g, c)
      BY DEF Dropping
    <3>3. <<n, j>> \in Owed(c) <=> j \in Refers(f, c)
      BY <1>1, OwedAt
    <3> QED
      BY <3>1, <3>2, <3>3
  <2>2. \A x \in Owed(c) \ {<<n, i>>} : \E k \in Nat : \E j : x = <<k, j>>
    BY OwedIs
  <2> QED
    BY <1>1, <2>1, <2>2, SamePairs
<1>4. ASSUME NEW d \in Conns, d # c PROVE Owed(d)' = Owed(d)
  <2>1. ASSUME Home[d] = t, NEW k \in Nat, NEW j
        PROVE (k = n /\ <<k, j>> \in Owed(d)) <=> \E g \in Frame : <<k, g>> \in A /\ j \in Refers(g, d)
    <3>1. <<n, j>> \in Owed(d) <=> j \in Refers(f, d)
      BY <1>1, <2>1, OwedAt
    <3>2. (k = n /\ j \in Refers(f, d)) <=> \E g \in Frame : <<k, g>> \in A /\ j \in Refers(g, d)
      BY <1>4 DEF Dropping
    <3> QED
      BY <3>1, <3>2
  <2> QED
    BY <1>1, <2>1, OwedSame
<1> QED
  BY <1>2, <1>3, <1>4

\* R(c) is referred to by what comes, where nothing was.
LEMMA OwedMore == ASSUME Stacks, Stacks', NEW t \in Threads, NEW n \in Nat, NEW A, Moves(t, n, A), NEW c \in Conns, NEW R,
    Home[c] = t, \A j : <<n, j>> \notin Owed(c),
    \A k \in Nat : \A j : (k = n /\ j \in R) <=> \E g \in Frame : <<k, g>> \in A /\ j \in Refers(g, c)
  PROVE Owed(c)' = Owed(c) \cup {n} \X R /\ Owed(c) \cap ({n} \X R) = {}
<1>1. \A k \in Nat : \A j : <<k, j>> \in Owed(c)' <=> <<k, j>> \in Owed(c) \cup {n} \X R
  <2> SUFFICES ASSUME NEW k \in Nat, NEW j PROVE <<k, j>> \in Owed(c)' <=> <<k, j>> \in Owed(c) \cup {n} \X R
    OBVIOUS
  <2>1. <<k, j>> \in Owed(c)' <=>
          (<<k, j>> \in Owed(c) /\ k # n) \/ \E g \in Frame : <<k, g>> \in A /\ j \in Refers(g, c)
    BY OwedMovesOn
  <2>2. (k = n /\ j \in R) <=> \E g \in Frame : <<k, g>> \in A /\ j \in Refers(g, c)
    OBVIOUS
  <2> QED
    BY <2>1, <2>2
<1>2. \A x \in Owed(c) \cup {n} \X R : \E k \in Nat : \E j : x = <<k, j>>
  BY OwedIs
<1>3. Owed(c)' = Owed(c) \cup {n} \X R
  <2> DEFINE M == Owed(c) \cup {n} \X R
  <2>1. \A k \in Nat : \A j : <<k, j>> \in Owed(c)' <=> <<k, j>> \in M
    BY <1>1
  <2>2. \A x \in M : \E k \in Nat : \E j : x = <<k, j>>
    BY <1>2
  <2> HIDE DEF M
  <2>3. Owed(c)' = M
    BY <2>1, <2>2, SamePairs
  <2> QED
    BY <2>3 DEF M
<1>4. Owed(c) \cap ({n} \X R) = {}
  <2> SUFFICES ASSUME NEW x \in Owed(c), x \in {n} \X R PROVE FALSE
    OBVIOUS
  <2>1. PICK j \in R : x = <<n, j>>
    OBVIOUS
  <2> QED
    BY <2>1
<1> QED
  BY <1>3, <1>4

-----------------------------------------------------------------------------
(* The balance of one connection.                                          *)

Balance(c) ==
  /\ IsFiniteSet(Owed(c)) /\ conn[c].rc = Cardinality(Owed(c))
  /\ conn[c].life = "freed" <=> conn[c].rf /\ conn[c].rc = 0

LEMMA BalancedIs == Balanced <=> \A c \in Conns : Balance(c)
BY DEF Balanced, Balance

LEMMA BalanceSame == ASSUME NEW c \in Conns, Balance(c), Owed(c)' = Owed(c), conn'[c].rc = conn[c].rc,
                            conn'[c].rf = conn[c].rf, conn'[c].life = conn[c].life
  PROVE Balance(c)'
BY DEF Balance

\* del: deleted now, if nothing refers to c.
LEMMA BalanceDel == ASSUME ConnType, NEW c \in Conns, Balance(c), ~conn[c].rf, Owed(c)' = Owed(c), conn'[c].rc = conn[c].rc,
                           conn'[c].rf, conn'[c].life = IF conn[c].rc < 1 THEN "freed" ELSE conn[c].life
  PROVE Balance(c)'
<1>1. conn[c].rc \in Nat
  BY DEF ConnType
<1> QED
  BY <1>1 DEF Balance

\* unRef: deleted now, if this was the last reference and c waits for it.
LEMMA BalanceLess == ASSUME NEW c \in Conns, Balance(c), NEW x \in Owed(c), Owed(c)' = Owed(c) \ {x},
                            conn'[c].rc = conn[c].rc - 1, conn'[c].rf = conn[c].rf,
                            conn'[c].life = IF conn[c].rc - 1 < 1 /\ conn[c].rf THEN "freed" ELSE conn[c].life
  PROVE Balance(c)'
<1>1. IsFiniteSet(Owed(c)) /\ conn[c].rc = Cardinality(Owed(c)) /\ (conn[c].life = "freed" <=> conn[c].rf /\ conn[c].rc = 0)
  BY DEF Balance
<1>2. Cardinality(Owed(c)) \in Nat /\ IsFiniteSet(Owed(c) \ {x}) /\ Cardinality(Owed(c) \ {x}) = Cardinality(Owed(c)) - 1
  BY <1>1, FS_RemoveElement, FS_CardinalityType
<1>3. Cardinality(Owed(c) \ {x}) \in Nat
  BY <1>2, FS_CardinalityType
<1>4. IsFiniteSet(Owed(c)') /\ conn'[c].rc = Cardinality(Owed(c)')
  BY <1>1, <1>2
<1>5. conn'[c].life = "freed" <=> conn'[c].rf /\ conn'[c].rc = 0
  BY <1>1, <1>2, <1>3
<1> QED
  BY <1>4, <1>5 DEF Balance

\* ref, once for each of R, of a connection that is not deleted.
LEMMA BalanceMore == ASSUME ConnType, NEW c \in Conns, Balance(c), NEW n, NEW R, IsFiniteSet(R),
                            Owed(c)' = Owed(c) \cup {n} \X R, Owed(c) \cap ({n} \X R) = {},
                            conn[c].life = "freed" => R = {},
                            conn'[c].rc = conn[c].rc + Cardinality(R), conn'[c].rf = conn[c].rf, conn'[c].life = conn[c].life
  PROVE Balance(c)'
<1>1. IsFiniteSet(Owed(c)) /\ conn[c].rc = Cardinality(Owed(c)) /\ (conn[c].life = "freed" <=> conn[c].rf /\ conn[c].rc = 0)
  BY DEF Balance
<1>2. Cardinality(Owed(c)) \in Nat /\ Cardinality(R) \in Nat
  BY <1>1, FS_CardinalityType
<1>3. IsFiniteSet({n}) /\ Cardinality({n}) = 1
  BY FS_Singleton
<1>4. IsFiniteSet({n} \X R) /\ Cardinality({n} \X R) = Cardinality(R)
  <2>1. IsFiniteSet({n} \X R) /\ Cardinality({n} \X R) = Cardinality({n}) * Cardinality(R)
    BY <1>3, FS_Product
  <2> QED
    BY <2>1, <1>2, <1>3
<1>5. IsFiniteSet(Owed(c) \cup {n} \X R)
  BY <1>1, <1>4, FS_Union
<1>6. Cardinality(Owed(c) \cup {n} \X R) = Cardinality(Owed(c)) + Cardinality(R)
  <2>1. Cardinality(Owed(c) \cup {n} \X R)
          = Cardinality(Owed(c)) + Cardinality({n} \X R) - Cardinality(Owed(c) \cap ({n} \X R))
    BY <1>1, <1>4, FS_Union
  <2>2. Cardinality(Owed(c) \cap ({n} \X R)) = 0
    BY FS_EmptySet
  <2> QED
    BY <2>1, <2>2, <1>2, <1>4
<1>7. conn'[c].rc = Cardinality(Owed(c)')
  BY <1>1, <1>6
<1>8. conn'[c].life = "freed" <=> conn'[c].rf /\ conn'[c].rc = 0
  <2>1. CASE conn[c].life = "freed"
    <3>1. Cardinality(R) = 0
      BY <2>1, FS_EmptySet
    <3> QED
      BY <3>1, <2>1, <1>1, <1>2
  <2>2. CASE conn[c].life # "freed"
    BY <2>2, <1>1, <1>2
  <2> QED
    BY <2>1, <2>2
<1> QED
  BY <1>5, <1>7, <1>8 DEF Balance

-----------------------------------------------------------------------------
(* Every action keeps the connections and the stacks together.             *)

Tied == Frames /\ OneEnd /\ Ending /\ Lists /\ Balanced

LEMMA TypeParts == ASSUME TypeOK
  PROVE /\ Stacks /\ ConnType /\ queue \in [Workers -> Seq(Pubs)]
        /\ \A w \in Workers, s \in Topics : subscribers[w][s] \in Seq(Entry)
BY DEF TypeOK, Stacks, ConnType

LEMMA BalancedSame == ASSUME Balanced, UNCHANGED conn, \A c \in Conns : Owed(c)' = Owed(c) PROVE Balanced'
<1>1. ASSUME NEW c \in Conns PROVE Balance(c)'
  <2>1. Balance(c) /\ Owed(c)' = Owed(c)
    BY BalancedIs
  <2> QED
    BY <2>1, BalanceSame
<1> QED
  BY <1>1 DEF Balanced, Balance

LEMMA TiedQuiet ==
  ASSUME TypeOK, Tied, NEW t \in Threads, NEW n \in Nat, NEW A, Moves(t, n, A), Stacks', UNCHANGED <<conn, subscribers>>,
         \A f \in Frame : In(t, n, f) => f.op \in {"publish", "find"},
         \A k \in Nat, f \in Frame : <<k, f>> \in A => f.op \in {"publish", "find"} /\ (f.op = "publish" \/ t \in Workers)
  PROVE ConnShape' /\ Tied'
<1>1. Stacks /\ ConnType /\ UNCHANGED conn /\ UNCHANGED subscribers
      /\ \A w \in Workers, s \in Topics : subscribers[w][s] \in Seq(Entry)
  BY TypeParts
<1>2. Frames /\ OneEnd /\ Ending /\ Lists /\ Balanced
  BY DEF Tied
<1>3. ConnShape'
  BY <1>1, SameConn
<1>4. \A f \in Frame : \A c : f.op \in {"publish", "find"} => ~Ends(f, c) /\ Refers(f, c) = {}
  BY RefersNone DEF Ends
<1>5. Frames'
  <2>1. \A k \in Nat, f \in Frame : <<k, f>> \in A => FrameOK(t, f)'
    BY DEF FrameOK
  <2>2. \A c \in Conns : (conn'[c].est => conn[c].est) /\ (conn'[c].rf => conn[c].rf)
    BY <1>1
  <2> QED
    BY <1>2, <2>1, <2>2, FramesKept
<1>6. OneEnd'
  BY <1>2, <1>4, OneEndKept
<1>7. Ending'
  <2>1. \A c \in Conns : conn'[c].est => ~conn'[c].rf
    BY <1>1, <1>2 DEF Ending
  <2>2. \A c \in Conns : ~conn'[c].est /\ ~conn'[c].rf =>
          ~conn[c].est /\ ~conn[c].rf /\ \A f \in Frame : In(t, n, f) => ~Ends(f, c)
    BY <1>1, <1>4
  <2> QED
    BY <1>2, <2>1, <2>2, EndingKept
<1>8. Lists'
  <2>1. ASSUME NEW c \in Conns PROVE ~In(t, n, On("dis", c))
    <3>1. On("dis", c) \in Frame /\ On("dis", c).op = "dis"
      BY OnIs
    <3> QED
      BY <3>1
  <2>2. \A c \in Conns : conn[c].est => conn'[c].est
    BY <1>1
  <2> QED
    BY <1>1, <1>2, <2>1, <2>2, ListsKept
<1>9. Balanced'
  <2>1. ASSUME NEW c \in Conns PROVE Owed(c)' = Owed(c)
    <3>1. ASSUME Home[c] = t, NEW k \in Nat, NEW j
          PROVE (k = n /\ <<k, j>> \in Owed(c)) <=> \E f \in Frame : <<k, f>> \in A /\ j \in Refers(f, c)
      <4>1. ASSUME NEW f \in Frame, <<k, f>> \in A PROVE j \notin Refers(f, c)
        <5>1. f.op \in {"publish", "find"}
          BY <4>1
        <5> QED
          BY <5>1, <1>4
      <4>2. ~(k = n /\ <<k, j>> \in Owed(c))
        <5> SUFFICES ASSUME k = n, <<k, j>> \in Owed(c) PROVE FALSE
          OBVIOUS
        <5>1. PICK f \in Frame : In(t, n, f) /\ j \in Refers(f, c)
          BY <1>1, <3>1, OwedIs
        <5> QED
          BY <5>1, <1>4
      <4> QED
        BY <4>1, <4>2
    <3> QED
      BY <1>1, <3>1, OwedSame
  <2> QED
    BY <1>1, <1>2, <2>1, BalancedSame
<1> QED
  BY <1>3, <1>5, <1>6, <1>7, <1>8, <1>9 DEF Tied

\* The loop of publishMsg, and a lambda that is taken up.
LEMMA TiedPublish == ASSUME TypeOK, Tied, NEW t \in Threads, NEW p \in Pubs, PublishAt(t, p) PROVE ConnShape' /\ Tied'
<1>1. Topmost(t, 0) /\ Stacks' /\ Moves(t, 1, {<<1, Publishing(p, 1)>>}) /\ UNCHANGED <<conn, subscribers>>
  BY DEF PublishAt, Push
<1>2. 1 \in 1 .. N + 1
  BY PubSubAssumption
<1>3. Publishing(p, 1) \in Frame /\ Publishing(p, 1).op = "publish"
  BY <1>2, PublishingIs
<1>4. \A f \in Frame : In(t, 1, f) => f.op \in {"publish", "find"}
  BY <1>1 DEF Topmost
<1>5. \A k \in Nat, f \in Frame : <<k, f>> \in {<<1, Publishing(p, 1)>>} => f.op = "publish"
  BY <1>3
<1> QED
  BY <1>1, <1>4, <1>5, TiedQuiet

LEMMA TiedHand == ASSUME TypeOK, Tied, NEW t \in Threads, NEW n \in Nat, NEW p \in Pubs, NEW i \in Workers, HandAt(t, n, p, i)
  PROVE ConnShape' /\ Tied'
<1>1. Stacks /\ UNCHANGED <<conn, subscribers>>
  BY TypeParts DEF HandAt, history
<1>2. i \in 1 .. N + 1 /\ i + 1 \in 1 .. N + 1
  BY PubSubAssumption DEF Workers
<1>3. Publishing(p, i) \in Frame /\ Publishing(p, i).op = "publish" /\ Publishing(p, i + 1).op = "publish"
  BY <1>2, PublishingIs
<1>4. Lambda(p).op = "find"
  BY LambdaIs
<1>5. ASSUME NEW A, Swap(t, n, Publishing(p, i), A),
             \A k \in Nat, f \in Frame : <<k, f>> \in A => f.op \in {"publish", "find"} /\ (f.op = "publish" \/ t \in Workers)
      PROVE ConnShape' /\ Tied'
  <2>1. In(t, n, Publishing(p, i)) /\ Stacks' /\ Moves(t, n, A)
    BY <1>5 DEF Swap
  <2>2. \A f \in Frame : In(t, n, f) => f = Publishing(p, i)
    BY <1>1, <2>1, InOne
  <2>3. \A f \in Frame : In(t, n, f) => f.op \in {"publish", "find"}
    BY <2>2, <1>3
  <2> QED
    BY <1>1, <1>5, <2>1, <2>3, TiedQuiet
<1>6. CASE i = t /\ Swap(t, n, Publishing(p, i), {<<n, Publishing(p, i + 1)>>, <<n + 1, Lambda(p)>>})
  <2>1. \A k \in Nat, f \in Frame : <<k, f>> \in {<<n, Publishing(p, i + 1)>>, <<n + 1, Lambda(p)>>}
          => f.op \in {"publish", "find"} /\ (f.op = "publish" \/ t \in Workers)
    BY <1>3, <1>4, <1>6
  <2> QED
    BY <1>5, <1>6, <2>1
<1>7. CASE Swap(t, n, Publishing(p, i), {<<n, Publishing(p, i + 1)>>})
  <2>1. \A k \in Nat, f \in Frame : <<k, f>> \in {<<n, Publishing(p, i + 1)>>}
          => f.op \in {"publish", "find"} /\ (f.op = "publish" \/ t \in Workers)
    BY <1>3
  <2> QED
    BY <1>5, <1>7, <2>1
<1> QED
  BY <1>6, <1>7 DEF HandAt

LEMMA TiedPublished == ASSUME TypeOK, Tied, NEW t \in Threads, NEW n \in Nat, NEW p \in Pubs, PublishedAt(t, n, p)
  PROVE ConnShape' /\ Tied'
<1>1. Stacks /\ UNCHANGED <<conn, subscribers>>
  BY TypeParts DEF PublishedAt
<1>2. N + 1 \in 1 .. N + 1
  BY PubSubAssumption
<1>3. Publishing(p, N + 1).op = "publish" /\ Publishing(p, N + 1) \in Frame
  BY <1>2, PublishingIs
<1>4. In(t, n, Publishing(p, N + 1)) /\ Stacks' /\ Moves(t, n, {})
  BY DEF PublishedAt, Swap
<1>5. \A f \in Frame : In(t, n, f) => f = Publishing(p, N + 1)
  BY <1>1, <1>4, InOne
<1> QED
  BY <1>1, <1>3, <1>4, <1>5, TiedQuiet

LEMMA TiedDoFuture == ASSUME TypeOK, Tied, NEW w \in Workers, NEW p \in Pubs, DoFutureAt(w, p) PROVE ConnShape' /\ Tied'
<1>1. w \in Threads
  BY DEF Threads
<1>2. Topmost(w, 0) /\ Stacks' /\ Moves(w, 1, {<<1, Lambda(p)>>}) /\ UNCHANGED <<conn, subscribers>>
  BY DEF DoFutureAt, Push
<1>3. \A f \in Frame : In(w, 1, f) => f.op \in {"publish", "find"}
  BY <1>2 DEF Topmost
<1>4. \A k \in Nat, f \in Frame : <<k, f>> \in {<<1, Lambda(p)>>} => f.op = "find"
  BY LambdaIs
<1> QED
  BY <1>1, <1>2, <1>3, <1>4, TiedQuiet

\* What a lambda has at n, and the connections of its copy.
LEMMA SendingOK == ASSUME TypeOK, Tied, NEW w \in Threads, NEW n \in Nat, NEW op \in {"send", "unref"}, NEW p \in Pubs,
                          NEW li \in Seq(Entry), NEW i \in Nat, In(w, n, Sending(op, p, li, i))
  PROVE /\ i \in DOMAIN li /\ (Apart(p) => IsInjective(li)) /\ \A j \in DOMAIN li : li[j].c \in Conns /\ Home[li[j].c] = w
        /\ op = "unref" => ~conn[li[i].c].est
        /\ \A f \in Frame : In(w, n, f) => f = Sending(op, p, li, i)
<1>1. PICK f \in Frame : f = Sending(op, p, li, i) /\ f.op = op /\ f.p = p /\ f.li = li /\ f.i = i
  BY SendingIs
<1>2. FrameOK(w, f)
  BY <1>1 DEF Tied, Frames
<1>3. i \in DOMAIN li /\ (Apart(p) => IsInjective(li)) /\ \A j \in DOMAIN li : Home[li[j].c] = w
  BY <1>1, <1>2 DEF FrameOK
<1>4. \A j \in DOMAIN li : li[j].c \in Conns
  BY EntryIs
<1>5. op = "unref" => ~conn[li[i].c].est
  BY <1>1, <1>2 DEF FrameOK
<1>6. \A g \in Frame : In(w, n, g) => g = f
  BY <1>1, TypeParts, InOne
<1> QED
  BY <1>1, <1>3, <1>4, <1>5, <1>6

\* The lambda goes on to the next entry, and drops the reference to this one.
LEMMA TiedOnward ==
  ASSUME TypeOK, Tied, NEW w \in Workers, NEW n \in Nat, NEW op \in {"send", "unref"}, NEW p \in Pubs,
         NEW li \in Seq(Entry), NEW i \in DOMAIN li, OnwardAt(w, n, Sending(op, p, li, i), p, li, i + 1),
         conn' = unRef(li[i].c), UNCHANGED subscribers
  PROVE ConnShape' /\ Tied'
<1>1. /\ w \in Threads /\ Stacks /\ ConnType /\ UNCHANGED subscribers
      /\ \A v \in Workers, s \in Topics : subscribers[v][s] \in Seq(Entry)
  BY TypeParts DEF Threads
<1>2. Frames /\ OneEnd /\ Ending /\ Lists /\ Balanced
  BY DEF Tied
<1>3. PICK m \in Nat : m = Len(li) /\ DOMAIN li = 1 .. m
  OBVIOUS
<1>4. i \in Nat /\ i + 1 \in Nat /\ i \in 1 .. m /\ li[i].c \in Conns
  BY <1>3, EntryIs
<1>5. PICK f \in Frame : f = Sending(op, p, li, i) /\ f.op = op /\ f.p = p /\ f.li = li /\ f.i = i
  BY <1>4, SendingIs
<1>6. PICK g \in Frame : g = Sending("send", p, li, i + 1) /\ g.op = "send" /\ g.p = p /\ g.li = li /\ g.i = i + 1
  BY <1>4, SendingIs
<1>7. PICK A : /\ Swap(w, n, f, A) /\ (i + 1 <= m => A = {<<n, g>>}) /\ (i + 1 > m => A = {})
  <2>1. CASE i + 1 > m
    <3>1. Swap(w, n, f, {})
      BY <2>1, <1>3, <1>4, <1>5 DEF OnwardAt
    <3> QED
      BY <3>1, <2>1, <1>4
  <2>2. CASE i + 1 <= m
    <3>1. Swap(w, n, f, {<<n, g>>})
      BY <2>2, <1>3, <1>4, <1>5, <1>6 DEF OnwardAt
    <3> QED
      BY <3>1, <2>2, <1>4
  <2> QED
    BY <2>1, <2>2, <1>3, <1>4
<1>8. In(w, n, f) /\ Stacks' /\ Moves(w, n, A)
  BY <1>7 DEF Swap
<1>9. /\ (Apart(p) => IsInjective(li)) /\ \A j \in DOMAIN li : Home[li[j].c] = w
      /\ \A h \in Frame : In(w, n, h) => h = f
  BY <1>1, <1>4, <1>5, <1>8, SendingOK
<1>10. \A k \in Nat, h \in Frame : <<k, h>> \in A => k = n /\ h = g /\ i + 1 <= m
  BY <1>3, <1>4, <1>7
<1>11. \A c : ~Ends(f, c) /\ ~Ends(g, c)
  BY <1>5, <1>6 DEF Ends
<1>12. PICK c \in Conns : c = li[i].c
  BY <1>4
<1>13. ConnShape'
       /\ \A d \in Conns :
            /\ conn'[d].est = conn[d].est /\ conn'[d].rf = conn[d].rf
            /\ conn'[d].rc = IF d = c THEN conn[d].rc - 1 ELSE conn[d].rc
            /\ conn'[d].life = IF d = c /\ conn[c].rc - 1 < 1 /\ conn[c].rf THEN "freed" ELSE conn[d].life
  BY <1>1, <1>12, UnRefConn
<1>14. Frames'
  <2>1. ASSUME i + 1 <= m PROVE FrameOK(w, g)'
    BY <2>1, <1>3, <1>4, <1>6, <1>9 DEF FrameOK
  <2>2. \A k \in Nat, h \in Frame : <<k, h>> \in A => FrameOK(w, h)'
    BY <2>1, <1>10
  <2>3. \A d \in Conns : (conn'[d].est => conn[d].est) /\ (conn'[d].rf => conn[d].rf)
    BY <1>13
  <2> QED
    BY <1>1, <1>2, <1>8, <2>2, <2>3, FramesKept
<1>15. OneEnd'
  BY <1>1, <1>2, <1>8, <1>10, <1>11, OneEndKept
<1>16. Ending'
  <2>1. \A d \in Conns : conn'[d].est => ~conn'[d].rf
    BY <1>13, <1>2 DEF Ending
  <2>2. \A d \in Conns : ~conn'[d].est /\ ~conn'[d].rf =>
          ~conn[d].est /\ ~conn[d].rf /\ \A h \in Frame : In(w, n, h) => ~Ends(h, d)
    BY <1>13, <1>9, <1>11
  <2> QED
    BY <1>1, <1>2, <1>8, <2>1, <2>2, EndingKept
<1>17. Lists'
  <2>1. ASSUME NEW d \in Conns PROVE ~In(w, n, On("dis", d))
    <3>1. On("dis", d) \in Frame /\ On("dis", d).op = "dis"
      BY OnIs
    <3> QED
      BY <3>1, <1>9, <1>5
  <2>2. \A d \in Conns : conn[d].est => conn'[d].est
    BY <1>13
  <2> QED
    BY <1>1, <1>2, <1>8, <2>1, <2>2, ListsKept
<1>18. Balanced'
  <2>1. \A d : /\ Refers(f, d) = {j \in i .. m : li[j].c = d}
               /\ Refers(g, d) = {j \in i + 1 .. m : li[j].c = d}
    BY <1>3, <1>4, <1>5, <1>6, RefersSending
  <2>2. i \in Refers(f, c) /\ Home[c] = w
    BY <2>1, <1>3, <1>4, <1>9, <1>12
  <2>3. ASSUME NEW d \in Conns, NEW k \in Nat, NEW j
        PROVE (k = n /\ j \in Refers(f, d) /\ ~(d = c /\ j = i)) <=> \E h \in Frame : <<k, h>> \in A /\ j \in Refers(h, d)
    <3>1. (\E h \in Frame : <<k, h>> \in A /\ j \in Refers(h, d)) <=> k = n /\ i + 1 <= m /\ j \in Refers(g, d)
      <4>1. CASE i + 1 <= m
        BY <4>1, <1>7
      <4>2. CASE i + 1 > m
        BY <4>2, <1>7, <1>3, <1>4
      <4>3. i + 1 <= m \/ i + 1 > m
        BY <1>3, <1>4
      <4> QED
        BY <4>1, <4>2, <4>3
    <3>2. j \in Refers(f, d) /\ ~(d = c /\ j = i) <=> j \in i .. m /\ j # i /\ li[j].c = d
      BY <2>1, <1>12
    <3>3. i + 1 <= m /\ j \in Refers(g, d) <=> j \in i + 1 .. m /\ li[j].c = d
      BY <2>1, <1>3, <1>4
    <3>4. j \in i .. m /\ j # i <=> j \in i + 1 .. m
      BY <1>3, <1>4
    <3> QED
      BY <3>1, <3>2, <3>3, <3>4
  <2>4. /\ <<n, i>> \in Owed(c) /\ Owed(c)' = Owed(c) \ {<<n, i>>}
        /\ \A d \in Conns : d # c => Owed(d)' = Owed(d)
    <3>1. Dropping(n, f, A, c, i)
      BY <2>3 DEF Dropping
    <3> QED
      BY <1>1, <1>7, <2>2, <3>1, SwapLess
  <2>5. Balance(c)'
    <3>1. Balance(c)
      BY <1>2, BalancedIs
    <3> QED
      BY <3>1, <2>4, <1>13, BalanceLess
  <2>6. ASSUME NEW d \in Conns, d # c PROVE Balance(d)'
    <3>1. Balance(d)
      BY <1>2, BalancedIs
    <3>2. conn'[d].rc = conn[d].rc /\ conn'[d].rf = conn[d].rf /\ conn'[d].life = conn[d].life
      BY <1>13, <2>6
    <3> QED
      BY <3>1, <3>2, <2>4, <2>6, BalanceSame
  <2> QED
    BY <2>5, <2>6 DEF Balanced, Balance
<1> QED
  BY <1>13, <1>14, <1>15, <1>16, <1>17, <1>18 DEF Tied

\* Whom a lambda finds: the worker's own, and none twice if its topics are apart.
LEMMA CopyOK == ASSUME TypeOK, Lists, NEW w \in Workers, NEW p \in Pubs
  PROVE /\ Apart(p) => IsInjective(Copy(w, p))
        /\ \A j \in DOMAIN Copy(w, p) : Home[Copy(w, p)[j].c] = w
<1>1. PICK a \in Topics, b \in Topics : a = Of[p][1] /\ b = Of[p][2] /\ (a # b <=> Apart(p))
  BY PubSubAssumption DEF Apart
<1>2. PICK s \in Seq(Entry), r \in Seq(Entry) : s = subscribers[w][a] /\ r = subscribers[w][b]
  BY TypeParts
<1>3. Copy(w, p) = s \o r
  BY <1>1, <1>2 DEF Copy
<1>4. /\ IsInjective(s) /\ IsInjective(r)
      /\ \A j \in DOMAIN s : Home[s[j].c] = w /\ s[j].topic = a
      /\ \A j \in DOMAIN r : Home[r[j].c] = w /\ r[j].topic = b
  BY <1>2 DEF Lists, ListOK
<1>5a. PICK m \in Nat : m = Len(s) /\ DOMAIN s = 1 .. m
  OBVIOUS
<1>5b. PICK n \in Nat : n = Len(r) /\ DOMAIN r = 1 .. n
  OBVIOUS
<1>5. m \in Nat /\ n \in Nat /\ m = Len(s) /\ n = Len(r) /\ DOMAIN s = 1 .. m /\ DOMAIN r = 1 .. n
  BY <1>5a, <1>5b
<1>6. PICK q : q = s \o r
  OBVIOUS
<1>7. /\ DOMAIN q = 1 .. m + n
      /\ \A j \in 1 .. m : q[j] = s[j]
      /\ \A j \in m + 1 .. m + n : q[j] = r[j - m]
  BY <1>5, <1>6
<1>8. ASSUME NEW j \in 1 .. m + n
      PROVE \/ j \in 1 .. m /\ q[j] = s[j] /\ q[j].topic = a /\ Home[q[j].c] = w
            \/ /\ j \in m + 1 .. m + n /\ j - m \in 1 .. n /\ q[j] = r[j - m] /\ q[j].topic = b
               /\ Home[q[j].c] = w
  <2>1. CASE j \in 1 .. m
    BY <2>1, <1>4, <1>5, <1>7
  <2>2. CASE j \in m + 1 .. m + n
    <3>1. j - m \in 1 .. n
      BY <2>2, <1>5
    <3> QED
      BY <3>1, <2>2, <1>4, <1>5, <1>7
  <2>3. j \in 1 .. m \/ j \in m + 1 .. m + n
    BY <1>5
  <2> QED
    BY <2>1, <2>2, <2>3
<1>9. ASSUME a # b, NEW i \in 1 .. m + n, NEW j \in 1 .. m + n, q[i] = q[j] PROVE i = j
  <2>1. CASE i \in 1 .. m /\ j \in 1 .. m
    <3>1. s[i] = s[j]
      BY <2>1, <1>7, <1>9
    <3> QED
      BY <3>1, <2>1, <1>4, <1>5 DEF IsInjective
  <2>2. CASE i \in m + 1 .. m + n /\ j \in m + 1 .. m + n
    <3>1. i - m \in 1 .. n /\ j - m \in 1 .. n
      BY <2>2, <1>5
    <3>2. r[i - m] = r[j - m]
      BY <2>2, <1>7, <1>9
    <3>3. i - m = j - m
      BY <3>1, <3>2, <1>4, <1>5 DEF IsInjective
    <3> QED
      BY <3>3, <1>5
  <2>3. (i \in 1 .. m <=> j \in 1 .. m) /\ (i \in m + 1 .. m + n <=> j \in m + 1 .. m + n)
    BY <1>8, <1>9
  <2>4. i \in 1 .. m \/ i \in m + 1 .. m + n
    BY <1>8
  <2> QED
    BY <2>1, <2>2, <2>3, <2>4
<1>10. a # b => IsInjective(q)
  BY <1>7, <1>9 DEF IsInjective
<1>11. \A j \in DOMAIN q : Home[q[j].c] = w
  BY <1>7, <1>8
<1> QED
  BY <1>1, <1>3, <1>6, <1>10, <1>11

LEMMA ReachableLive == ASSUME TypeOK, Tied, NEW w \in Workers, NEW e, e.c \in Users, Reachable(w, e)
  PROVE ~conn[e.c].rf /\ conn[e.c].life # "freed"
<1> e.c \in Conns
  BY PubSubAssumption
<1>1. ~conn[e.c].rf
  <2>1. CASE conn[e.c].est
    BY <2>1 DEF Tied, Ending
  <2>2. CASE \E k \in Nat : In(w, k, On("dis", e.c))
    <3>1. PICK k \in Nat : In(w, k, On("dis", e.c))
      BY <2>2
    <3>2. On("dis", e.c) \in Frame /\ On("dis", e.c).op = "dis" /\ On("dis", e.c).c = e.c
      BY OnIs
    <3>3. FrameOK(w, On("dis", e.c))
      BY <3>1, <3>2 DEF Tied, Frames, Threads
    <3> QED
      BY <3>2, <3>3 DEF FrameOK
  <2> QED
    BY <2>1, <2>2 DEF Reachable
<1> QED
  BY <1>1 DEF Tied, Balanced

LEMMA TiedFind ==
  ASSUME TypeOK, Tied, NEW w \in Workers, NEW n \in Nat, NEW p \in Pubs, NEW li \in Seq(Entry), FindAt(w, n, p, li)
  PROVE ConnShape' /\ Tied'
<1>1. /\ w \in Threads /\ Stacks /\ ConnType /\ UNCHANGED subscribers
      /\ \A v \in Workers, s \in Topics : subscribers[v][s] \in Seq(Entry)
  BY TypeParts DEF Threads, FindAt
<1>2. Frames /\ OneEnd /\ Ending /\ Lists /\ Balanced
  BY DEF Tied
<1>3. PICK m \in Nat : m = Len(li) /\ DOMAIN li = 1 .. m
  OBVIOUS
<1>4. (Apart(p) => IsInjective(li)) /\ \A j \in 1 .. m : li[j].c \in Conns /\ Home[li[j].c] = w /\ conn[li[j].c].life # "freed"
  <2>1. li = Copy(w, p) /\ \A j \in DOMAIN li : conn[li[j].c].life = "live"
    BY DEF FindAt
  <2>2. (Apart(p) => IsInjective(li)) /\ \A j \in DOMAIN li : Home[li[j].c] = w
    BY <2>1, <1>2, CopyOK
  <2>3. \A j \in DOMAIN li : li[j].c \in Conns
    BY EntryIs
  <2> QED
    BY <2>1, <2>2, <2>3, <1>3
<1>5. PICK f \in Frame : f = Lambda(p) /\ f.op = "find"
  BY LambdaIs
<1>6. PICK g \in Frame : g = Sending("send", p, li, 1) /\ g.op = "send" /\ g.p = p /\ g.li = li /\ g.i = 1
  BY SendingIs
<1>7. PICK A : /\ Swap(w, n, f, A) /\ (1 <= m => A = {<<n, g>>}) /\ (1 > m => A = {})
  <2>1. CASE 1 > m
    <3>1. Swap(w, n, f, {})
      BY <2>1, <1>3, <1>5 DEF OnwardAt, FindAt
    <3> QED
      BY <3>1, <2>1, <1>3
  <2>2. CASE 1 <= m
    <3>1. Swap(w, n, f, {<<n, g>>})
      BY <2>2, <1>3, <1>5, <1>6 DEF OnwardAt, FindAt
    <3> QED
      BY <3>1, <2>2, <1>3
  <2>3. 1 <= m \/ 1 > m
    BY <1>3
  <2> QED
    BY <2>1, <2>2, <2>3
<1>8. In(w, n, f) /\ Stacks' /\ Moves(w, n, A)
  BY <1>7 DEF Swap
<1>9. \A h \in Frame : In(w, n, h) => h = f
  BY <1>1, <1>8, InOne
<1>10. \A k \in Nat, h \in Frame : <<k, h>> \in A => k = n /\ h = g /\ 1 <= m
  BY <1>3, <1>7
<1>11. \A c : ~Ends(f, c) /\ ~Ends(g, c)
  BY <1>5, <1>6 DEF Ends
<1>12. ConnShape'
       /\ \A d \in Conns :
            /\ conn'[d].est = conn[d].est /\ conn'[d].rf = conn[d].rf /\ conn'[d].life = conn[d].life
            /\ conn'[d].rc = conn[d].rc + Cardinality(Spots(li, d))
  <2>1. conn' = Ref(li)
    BY DEF FindAt
  <2> QED
    BY <1>1, <2>1, RefConn
<1>13. Frames'
  <2>1. ASSUME 1 <= m PROVE FrameOK(w, g)'
    <3>1. 1 \in DOMAIN li
      BY <2>1, <1>3
    <3> QED
      BY <3>1, <1>3, <1>4, <1>6 DEF FrameOK
  <2>2. \A k \in Nat, h \in Frame : <<k, h>> \in A => FrameOK(w, h)'
    BY <2>1, <1>10
  <2>3. \A d \in Conns : (conn'[d].est => conn[d].est) /\ (conn'[d].rf => conn[d].rf)
    BY <1>12
  <2> QED
    BY <1>1, <1>2, <1>8, <2>2, <2>3, FramesKept
<1>14. OneEnd'
  BY <1>1, <1>2, <1>8, <1>10, <1>11, OneEndKept
<1>15. Ending'
  <2>1. \A d \in Conns : conn'[d].est => ~conn'[d].rf
    BY <1>12, <1>2 DEF Ending
  <2>2. \A d \in Conns : ~conn'[d].est /\ ~conn'[d].rf =>
          ~conn[d].est /\ ~conn[d].rf /\ \A h \in Frame : In(w, n, h) => ~Ends(h, d)
    BY <1>12, <1>9, <1>11
  <2> QED
    BY <1>1, <1>2, <1>8, <2>1, <2>2, EndingKept
<1>16. Lists'
  <2>1. ASSUME NEW d \in Conns PROVE ~In(w, n, On("dis", d))
    <3>1. On("dis", d) \in Frame /\ On("dis", d).op = "dis"
      BY OnIs
    <3> QED
      BY <3>1, <1>9, <1>5
  <2>2. \A d \in Conns : conn[d].est => conn'[d].est
    BY <1>12
  <2> QED
    BY <1>1, <1>2, <1>8, <2>1, <2>2, ListsKept
<1>17. Balanced'
  <2>1. ASSUME NEW c \in Conns, Home[c] = w PROVE Balance(c)'
    <3>1. Balance(c)
      BY <1>2, BalancedIs
    <3>2. \A j : <<n, j>> \notin Owed(c)
      BY <1>1, <1>5, <1>8, <2>1, OwedAt, RefersNone
    <3>3. ASSUME NEW k \in Nat, NEW j
          PROVE (k = n /\ j \in Spots(li, c)) <=> \E h \in Frame : <<k, h>> \in A /\ j \in Refers(h, c)
      <4>1. Refers(g, c) = {l \in 1 .. m : li[l].c = c}
        BY <1>3, <1>6, RefersSending
      <4>2. j \in Spots(li, c) <=> j \in 1 .. m /\ li[j].c = c
        BY <1>3 DEF Spots
      <4>3. CASE 1 <= m
        BY <4>1, <4>2, <4>3, <1>7
      <4>4. CASE 1 > m
        <5>1. ~(j \in 1 .. m)
          BY <4>4, <1>3
        <5>2. A = {}
          BY <4>4, <1>7
        <5> QED
          BY <5>1, <5>2, <4>2
      <4>5. 1 <= m \/ 1 > m
        BY <1>3
      <4> QED
        BY <4>3, <4>4, <4>5
    <3>4. Owed(c)' = Owed(c) \cup {n} \X Spots(li, c) /\ Owed(c) \cap ({n} \X Spots(li, c)) = {}
      BY <1>1, <1>8, <2>1, <3>2, <3>3, OwedMore
    <3>5. conn[c].life = "freed" => Spots(li, c) = {}
      BY <1>3, <1>4 DEF Spots
    <3>6. IsFiniteSet(Spots(li, c))
      BY SpotsFinite
    <3> QED
      BY <1>1, <1>12, <3>1, <3>4, <3>5, <3>6, BalanceMore
  <2>2. ASSUME NEW c \in Conns, Home[c] # w PROVE Balance(c)'
    <3>1. Balance(c)
      BY <1>2, BalancedIs
    <3>2. Spots(li, c) = {}
      BY <1>3, <1>4, <2>2 DEF Spots
    <3>3. Cardinality(Spots(li, c)) = 0
      BY <3>2, FS_EmptySet
    <3>4. conn'[c].rc = conn[c].rc
      BY <3>3, <1>12, <1>1 DEF ConnType
    <3>5. Owed(c)' = Owed(c)
      BY <1>1, <1>8, <2>2, OwedSame
    <3> QED
      BY <3>1, <3>4, <3>5, <1>12, BalanceSame
  <2> QED
    BY <2>1, <2>2 DEF Balanced, Balance
<1> QED
  BY <1>12, <1>13, <1>14, <1>15, <1>16, <1>17 DEF Tied

\* A send loses its connection: evnDis comes, and the reference is dropped after it.
LEMMA TiedSendFails ==
  ASSUME TypeOK, Tied, NEW w \in Workers, NEW n \in Nat, NEW p \in Pubs, NEW li \in Seq(Entry), NEW i \in Nat,
         SendFailsAt(w, n, p, li, i)
  PROVE ConnShape' /\ Tied'
<1>1. /\ w \in Threads /\ Stacks /\ ConnType /\ UNCHANGED subscribers /\ i \in DOMAIN li
      /\ \A v \in Workers, s \in Topics : subscribers[v][s] \in Seq(Entry)
  BY TypeParts DEF Threads, SendFailsAt
<1>2. Frames /\ OneEnd /\ Ending /\ Lists /\ Balanced
  BY DEF Tied
<1>3. PICK c \in Conns : c = li[i].c
  BY <1>1, EntryIs
<1>4. PICK f \in Frame : f = Sending("send", p, li, i) /\ f.op = "send" /\ f.p = p /\ f.li = li /\ f.i = i
  BY SendingIs
<1>5. PICK u \in Frame : u = Sending("unref", p, li, i) /\ u.op = "unref" /\ u.p = p /\ u.li = li /\ u.i = i
  BY SendingIs
<1>6. PICK d \in Frame : d = On("dis", c) /\ d.op = "dis" /\ d.c = c
  BY OnIs
<1>7. PICK A : A = {<<n, u>>, <<n + 1, d>>}
  OBVIOUS
<1>8. Swap(w, n, f, A) /\ conn[c].est /\ conn' = [conn EXCEPT ![c].est = FALSE]
  BY <1>3, <1>4, <1>5, <1>6, <1>7 DEF SendFailsAt
<1>9. In(w, n, f) /\ Stacks' /\ Moves(w, n, A)
  BY <1>8 DEF Swap
<1>10. /\ (Apart(p) => IsInjective(li)) /\ \A j \in DOMAIN li : Home[li[j].c] = w
       /\ \A h \in Frame : In(w, n, h) => h = f
  BY <1>1, <1>4, <1>9, SendingOK
<1>11. \A k \in Nat, h \in Frame : <<k, h>> \in A <=> (k = n /\ h = u) \/ (k = n + 1 /\ h = d)
  BY <1>7
<1>12. \A x : ~Ends(f, x) /\ ~Ends(u, x) /\ (Ends(d, x) <=> x = c)
  BY <1>4, <1>5, <1>6 DEF Ends
<1>13. ConnShape'
       /\ \A x \in Conns :
            /\ conn'[x].est <=> x # c /\ conn[x].est
            /\ conn'[x].rc = conn[x].rc /\ conn'[x].rf = conn[x].rf /\ conn'[x].life = conn[x].life
  BY <1>1, <1>8, LoseConn
<1>14. ~conn'[c].est /\ ~conn'[c].rf /\ Home[c] = w
  BY <1>1, <1>2, <1>3, <1>8, <1>10, <1>13 DEF Ending
<1>15. Frames'
  <2>1. FrameOK(w, u)'
    BY <1>1, <1>3, <1>5, <1>10, <1>14 DEF FrameOK
  <2>2. FrameOK(w, d)'
    BY <1>6, <1>14 DEF FrameOK
  <2>3. \A k \in Nat, h \in Frame : <<k, h>> \in A => FrameOK(w, h)'
    BY <2>1, <2>2, <1>11
  <2>4. \A x \in Conns : (conn'[x].est => conn[x].est) /\ (conn'[x].rf => conn[x].rf)
    BY <1>13
  <2> QED
    BY <1>1, <1>2, <1>9, <2>3, <2>4, FramesKept
<1>16. OneEnd'
  <2>1. \A k, l \in Nat, h, g \in Frame, x \in Conns :
          <<k, h>> \in A /\ <<l, g>> \in A /\ Ends(h, x) /\ Ends(g, x) => k = l
    BY <1>11, <1>12
  <2>2. \A k \in Nat, h \in Frame, x \in Conns : <<k, h>> \in A /\ Ends(h, x) => conn[x].est
    BY <1>8, <1>11, <1>12
  <2> QED
    BY <1>1, <1>2, <1>9, <2>1, <2>2, OneEndKept
<1>17. Ending'
  <2>1. \A x \in Conns : conn'[x].est => ~conn'[x].rf
    BY <1>13, <1>2 DEF Ending
  <2>2. <<n + 1, d>> \in A /\ Ends(d, c) /\ n + 1 \in Nat
    BY <1>7, <1>12
  <2>3. \A x \in Conns : ~conn'[x].est /\ ~conn'[x].rf =>
          \/ Home[x] = w /\ \E k \in Nat, h \in Frame : <<k, h>> \in A /\ Ends(h, x)
          \/ ~conn[x].est /\ ~conn[x].rf /\ \A h \in Frame : In(w, n, h) => ~Ends(h, x)
    BY <1>10, <1>12, <1>13, <1>14, <2>2
  <2> QED
    BY <1>1, <1>2, <1>9, <2>1, <2>3, EndingKept
<1>18. Lists'
  <2>1. ASSUME NEW x \in Conns PROVE ~In(w, n, On("dis", x))
    <3>1. On("dis", x) \in Frame /\ On("dis", x).op = "dis"
      BY OnIs
    <3> QED
      BY <3>1, <1>10, <1>4
  <2>2. <<n + 1, On("dis", c)>> \in A /\ n + 1 \in Nat
    BY <1>6, <1>7
  <2>3. \A x \in Conns : conn[x].est => conn'[x].est \/ (Home[x] = w /\ \E k \in Nat : <<k, On("dis", x)>> \in A)
    BY <1>13, <1>14, <2>2
  <2> QED
    BY <1>1, <1>2, <1>9, <2>1, <2>3, ListsKept
<1>19. Balanced'
  <2>1. \A x : Refers(f, x) = Refers(u, x) /\ Refers(d, x) = {}
    <3>1. \A x : Refers(d, x) = {}
      BY <1>6, RefersNone
    <3>2. \A x : Refers(f, x) = {j \in i .. Len(li) : li[j].c = x}
      BY <1>4, RefersSending
    <3>3. \A x : Refers(u, x) = {j \in i .. Len(li) : li[j].c = x}
      BY <1>5, RefersSending
    <3> QED
      BY <3>1, <3>2, <3>3
  <2>2. Keeping(n, f, A)
    BY <1>11, <2>1 DEF Keeping
  <2>3. \A x \in Conns : Owed(x)' = Owed(x)
    BY <1>1, <1>8, <2>2, SwapSame
  <2>4. ASSUME NEW x \in Conns PROVE Balance(x)'
    <3>1. Balance(x)
      BY <1>2, BalancedIs
    <3> QED
      BY <3>1, <1>13, <2>3, BalanceSame
  <2> QED
    BY <2>4 DEF Balanced, Balance
<1> QED
  BY <1>13, <1>15, <1>16, <1>17, <1>18, <1>19 DEF Tied

\* The read handler loses its connection.
LEMMA TiedHup == ASSUME TypeOK, Tied, NEW c \in Conns, HupAt(c) PROVE ConnShape' /\ Tied'
<1>1. PICK w \in Workers : w = Home[c]
  BY PubSubAssumption
<1>2. /\ w \in Threads /\ Stacks /\ ConnType /\ UNCHANGED subscribers
      /\ \A v \in Workers, s \in Topics : subscribers[v][s] \in Seq(Entry)
  BY TypeParts DEF Threads, HupAt
<1>3. Frames /\ OneEnd /\ Ending /\ Lists /\ Balanced
  BY DEF Tied
<1>4. PICK r \in Frame : r = On("recv", c) /\ r.op = "recv" /\ r.c = c
  BY OnIs
<1>5. PICK d \in Frame : d = On("dis", c) /\ d.op = "dis" /\ d.c = c
  BY OnIs
<1>6. PICK A : A = {<<1, r>>, <<2, d>>}
  OBVIOUS
<1>7. /\ Topmost(w, 0) /\ Stacks' /\ Moves(w, 1, A) /\ conn[c].est
      /\ conn' = [conn EXCEPT ![c].est = FALSE, ![c].rc = @ + 1]
  BY <1>1, <1>4, <1>5, <1>6 DEF HupAt, Push
<1>8. \A h \in Frame : ~In(w, 1, h)
  <2>1. \A k \in Nat, h \in Frame : In(w, k, h) => k <= 0
    BY <1>7 DEF Topmost
  <2> QED
    BY <2>1
<1>9. \A k \in Nat, h \in Frame : <<k, h>> \in A <=> (k = 1 /\ h = r) \/ (k = 2 /\ h = d)
  BY <1>6
<1>10. \A x : ~Ends(r, x) /\ (Ends(d, x) <=> x = c)
  BY <1>4, <1>5 DEF Ends
<1>11. ConnShape'
       /\ \A x \in Conns :
            /\ conn'[x].est <=> x # c /\ conn[x].est
            /\ conn'[x].rc = IF x = c THEN conn[x].rc + 1 ELSE conn[x].rc
            /\ conn'[x].rf = conn[x].rf /\ conn'[x].life = conn[x].life
  BY <1>2, <1>7, HupConn
<1>12. ~conn'[c].est /\ ~conn'[c].rf
  BY <1>3, <1>7, <1>11 DEF Ending
<1>13. Frames'
  <2>1. FrameOK(w, r)' /\ FrameOK(w, d)'
    BY <1>1, <1>4, <1>5, <1>12 DEF FrameOK
  <2>2. \A k \in Nat, h \in Frame : <<k, h>> \in A => FrameOK(w, h)'
    BY <2>1, <1>9
  <2>3. \A x \in Conns : (conn'[x].est => conn[x].est) /\ (conn'[x].rf => conn[x].rf)
    BY <1>11
  <2> QED
    BY <1>2, <1>3, <1>7, <2>2, <2>3, FramesKept
<1>14. OneEnd'
  <2>1. \A k, l \in Nat, h, g \in Frame, x \in Conns :
          <<k, h>> \in A /\ <<l, g>> \in A /\ Ends(h, x) /\ Ends(g, x) => k = l
    BY <1>9, <1>10
  <2>2. \A k \in Nat, h \in Frame, x \in Conns : <<k, h>> \in A /\ Ends(h, x) => conn[x].est
    BY <1>7, <1>9, <1>10
  <2> QED
    BY <1>2, <1>3, <1>7, <2>1, <2>2, OneEndKept
<1>15. Ending'
  <2>1. \A x \in Conns : conn'[x].est => ~conn'[x].rf
    BY <1>11, <1>3 DEF Ending
  <2>2. <<2, d>> \in A /\ Ends(d, c)
    BY <1>6, <1>10
  <2>3. \A x \in Conns : ~conn'[x].est /\ ~conn'[x].rf =>
          \/ Home[x] = w /\ \E k \in Nat, h \in Frame : <<k, h>> \in A /\ Ends(h, x)
          \/ ~conn[x].est /\ ~conn[x].rf /\ \A h \in Frame : In(w, 1, h) => ~Ends(h, x)
    BY <1>1, <1>8, <1>11, <2>2
  <2> QED
    BY <1>2, <1>3, <1>7, <2>1, <2>3, EndingKept
<1>16. Lists'
  <2>1. \A x \in Conns : ~In(w, 1, On("dis", x))
    BY <1>8, OnIs
  <2>2. <<2, On("dis", c)>> \in A
    BY <1>5, <1>6
  <2>3. \A x \in Conns : conn[x].est => conn'[x].est \/ (Home[x] = w /\ \E k \in Nat : <<k, On("dis", x)>> \in A)
    BY <1>1, <1>11, <2>2
  <2> QED
    BY <1>2, <1>3, <1>7, <2>1, <2>3, ListsKept
<1>17. Balanced'
  <2>1. \A x : Refers(r, x) = (IF c = x THEN {0} ELSE {}) /\ Refers(d, x) = {}
    BY <1>4, <1>5, RefersRecv, RefersNone
  <2>2. \A x \in Conns : \A j : Home[x] = w => <<1, j>> \notin Owed(x)
    BY <1>2, <1>8, OwedIs
  <2>3. Balance(c)'
    <3>1. Balance(c)
      BY <1>3, BalancedIs
    <3>2. ASSUME NEW k \in Nat, NEW j
          PROVE (k = 1 /\ j \in {0}) <=> \E h \in Frame : <<k, h>> \in A /\ j \in Refers(h, c)
      BY <1>9, <2>1
    <3>3. Owed(c)' = Owed(c) \cup {1} \X {0} /\ Owed(c) \cap ({1} \X {0}) = {}
      <4>1. Home[c] = w /\ \A j : <<1, j>> \notin Owed(c)
        BY <1>1, <2>2
      <4>2. PICK R : R = {0}
        OBVIOUS
      <4>3. \A k \in Nat : \A j : (k = 1 /\ j \in R) <=> \E h \in Frame : <<k, h>> \in A /\ j \in Refers(h, c)
        BY <3>2, <4>2
      <4>4. PICK n \in Nat : n = 1
        OBVIOUS
      <4>5. Moves(w, n, A) /\ Home[c] = w /\ \A j : <<n, j>> \notin Owed(c)
        BY <1>7, <4>1, <4>4
      <4>6. \A k \in Nat : \A j : (k = n /\ j \in R) <=> \E h \in Frame : <<k, h>> \in A /\ j \in Refers(h, c)
        BY <4>3, <4>4
      <4>7. Owed(c)' = Owed(c) \cup {n} \X R /\ Owed(c) \cap ({n} \X R) = {}
        BY <1>2, <1>7, <4>5, <4>6, OwedMore
      <4> QED
        BY <4>2, <4>4, <4>7
    <3>4. conn[c].life # "freed"
      BY <1>3, <1>7 DEF Ending, Balanced
    <3>5. IsFiniteSet({0}) /\ Cardinality({0}) = 1
      BY FS_Singleton
    <3>6. conn'[c].rc = conn[c].rc + Cardinality({0}) /\ conn'[c].rf = conn[c].rf /\ conn'[c].life = conn[c].life
      BY <1>11, <3>5
    <3> QED
      BY <1>2, <3>1, <3>3, <3>4, <3>5, <3>6, BalanceMore
  <2>4. ASSUME NEW x \in Conns, x # c PROVE Balance(x)'
    <3>1. Balance(x)
      BY <1>3, BalancedIs
    <3>2. ASSUME Home[x] = w, NEW k \in Nat, NEW j
          PROVE (k = 1 /\ <<k, j>> \in Owed(x)) <=> \E h \in Frame : <<k, h>> \in A /\ j \in Refers(h, x)
      BY <1>9, <2>1, <2>2, <2>4, <3>2
    <3>3. Owed(x)' = Owed(x)
      BY <1>2, <1>7, <3>2, OwedSame
    <3>4. conn'[x].rc = conn[x].rc
      BY <1>11, <2>4
    <3> QED
      BY <3>1, <3>3, <3>4, <1>11, BalanceSame
  <2> QED
    BY <2>3, <2>4 DEF Balanced, Balance
<1> QED
  BY <1>11, <1>13, <1>14, <1>15, <1>16, <1>17 DEF Tied

\* The read handler drops its reference.
LEMMA TiedRecv == ASSUME TypeOK, Tied, NEW w \in Workers, NEW n \in Nat, NEW c \in Conns, Home[c] = w, RecvAt(w, n, c)
  PROVE ConnShape' /\ Tied'
<1>1. /\ w \in Threads /\ Stacks /\ ConnType /\ UNCHANGED subscribers
      /\ \A v \in Workers, s \in Topics : subscribers[v][s] \in Seq(Entry)
  BY TypeParts DEF Threads, RecvAt
<1>2. Frames /\ OneEnd /\ Ending /\ Lists /\ Balanced
  BY DEF Tied
<1>3. PICK f \in Frame : f = On("recv", c) /\ f.op = "recv" /\ f.c = c
  BY OnIs
<1>4. Swap(w, n, f, {}) /\ conn' = unRef(c)
  BY <1>3 DEF RecvAt
<1>5. In(w, n, f) /\ Stacks' /\ Moves(w, n, {})
  BY <1>4 DEF Swap
<1>6. \A h \in Frame : In(w, n, h) => h = f
  BY <1>1, <1>5, InOne
<1>7. \A x : ~Ends(f, x)
  BY <1>3 DEF Ends
<1>8. ConnShape'
      /\ \A d \in Conns :
           /\ conn'[d].est = conn[d].est /\ conn'[d].rf = conn[d].rf
           /\ conn'[d].rc = IF d = c THEN conn[d].rc - 1 ELSE conn[d].rc
           /\ conn'[d].life = IF d = c /\ conn[c].rc - 1 < 1 /\ conn[c].rf THEN "freed" ELSE conn[d].life
  BY <1>1, <1>4, UnRefConn
<1>9. Frames'
  <2>1. \A x \in Conns : (conn'[x].est => conn[x].est) /\ (conn'[x].rf => conn[x].rf)
    BY <1>8
  <2> QED
    BY <1>1, <1>2, <1>5, <2>1, FramesKept
<1>10. OneEnd'
  BY <1>1, <1>2, <1>5, OneEndKept
<1>11. Ending'
  <2>1. \A x \in Conns : conn'[x].est => ~conn'[x].rf
    BY <1>8, <1>2 DEF Ending
  <2>2. \A x \in Conns : ~conn'[x].est /\ ~conn'[x].rf =>
          ~conn[x].est /\ ~conn[x].rf /\ \A h \in Frame : In(w, n, h) => ~Ends(h, x)
    BY <1>6, <1>7, <1>8
  <2> QED
    BY <1>1, <1>2, <1>5, <2>1, <2>2, EndingKept
<1>12. Lists'
  <2>1. ASSUME NEW x \in Conns PROVE ~In(w, n, On("dis", x))
    <3>1. On("dis", x) \in Frame /\ On("dis", x).op = "dis"
      BY OnIs
    <3> QED
      BY <3>1, <1>6, <1>3
  <2>2. \A x \in Conns : conn[x].est => conn'[x].est
    BY <1>8
  <2> QED
    BY <1>1, <1>2, <1>5, <2>1, <2>2, ListsKept
<1>13. Balanced'
  <2>1. \A x : Refers(f, x) = IF c = x THEN {0} ELSE {}
    BY <1>3, RefersRecv
  <2>2. Dropping(n, f, {}, c, 0)
    BY <2>1 DEF Dropping
  <2>3. 0 \in Refers(f, c)
    BY <2>1
  <2>4. /\ <<n, 0>> \in Owed(c) /\ Owed(c)' = Owed(c) \ {<<n, 0>>}
        /\ \A d \in Conns : d # c => Owed(d)' = Owed(d)
    BY <1>1, <1>4, <2>2, <2>3, SwapLess
  <2>5. Balance(c)'
    <3>1. Balance(c)
      BY <1>2, BalancedIs
    <3> QED
      BY <3>1, <2>4, <1>8, BalanceLess
  <2>6. ASSUME NEW d \in Conns, d # c PROVE Balance(d)'
    <3>1. Balance(d)
      BY <1>2, BalancedIs
    <3>2. conn'[d].rc = conn[d].rc /\ conn'[d].rf = conn[d].rf /\ conn'[d].life = conn[d].life
      BY <1>8, <2>6
    <3> QED
      BY <3>1, <3>2, <2>4, <2>6, BalanceSame
  <2> QED
    BY <2>5, <2>6 DEF Balanced, Balance
<1> QED
  BY <1>8, <1>9, <1>10, <1>11, <1>12, <1>13 DEF Tied

\* The end of a connection, in evnDis or after it: it is deleted, now or later.
LEMMA EndDeletes ==
  ASSUME TypeOK, Tied, NEW w \in Workers, NEW n \in Nat, NEW c \in Conns, Home[c] = w, NEW op \in {"dis", "del"},
         Swap(w, n, On(op, c), {}), conn' = del(c)
  PROVE /\ ConnShape' /\ Frames' /\ OneEnd' /\ Ending' /\ Balanced'
        /\ \A x \in Conns : conn'[x].est = conn[x].est
<1>1. w \in Threads /\ Stacks /\ ConnType
  BY TypeParts DEF Threads
<1>2. Frames /\ OneEnd /\ Ending /\ Lists /\ Balanced
  BY DEF Tied
<1>3. PICK f \in Frame : f = On(op, c) /\ f.op = op /\ f.c = c
  BY OnIs
<1>4. Swap(w, n, f, {}) /\ conn' = del(c)
  BY <1>3
<1>5. In(w, n, f) /\ Stacks' /\ Moves(w, n, {})
  BY <1>4 DEF Swap
<1>6. \A h \in Frame : In(w, n, h) => h = f
  BY <1>1, <1>5, InOne
<1>7. \A x : Ends(f, x) <=> x = c
  BY <1>3 DEF Ends
<1>8. ~conn[c].est /\ ~conn[c].rf
  <2>1. FrameOK(w, f)
    BY <1>1, <1>2, <1>5 DEF Frames
  <2> QED
    BY <2>1, <1>3 DEF FrameOK
<1>9. ConnShape'
      /\ \A d \in Conns :
           /\ conn'[d].est = conn[d].est /\ conn'[d].rc = conn[d].rc
           /\ conn'[d].rf <=> d = c \/ conn[d].rf
           /\ conn'[d].life = IF d = c /\ conn[c].rc < 1 THEN "freed" ELSE conn[d].life
  BY <1>1, <1>4, DelConn
<1>10. Frames'
  <2>1. \A x \in Conns : conn'[x].est => conn[x].est
    BY <1>9
  <2>2. \A x \in Conns : conn'[x].rf => conn[x].rf \/ \E h \in Frame : In(w, n, h) /\ Ends(h, x)
    BY <1>5, <1>7, <1>9
  <2> QED
    BY <1>1, <1>2, <1>5, <2>1, <2>2, FramesKept
<1>11. OneEnd'
  BY <1>1, <1>2, <1>5, OneEndKept
<1>12. Ending'
  <2>1. \A x \in Conns : conn'[x].est => ~conn'[x].rf
    BY <1>8, <1>9, <1>2 DEF Ending
  <2>2. \A x \in Conns : ~conn'[x].est /\ ~conn'[x].rf =>
          ~conn[x].est /\ ~conn[x].rf /\ \A h \in Frame : In(w, n, h) => ~Ends(h, x)
    BY <1>6, <1>7, <1>9
  <2> QED
    BY <1>1, <1>2, <1>5, <2>1, <2>2, EndingKept
<1>13. Balanced'
  <2>1. \A x : Refers(f, x) = {}
    BY <1>3, RefersNone
  <2>2. Keeping(n, f, {})
    BY <2>1 DEF Keeping
  <2>3. \A x \in Conns : Owed(x)' = Owed(x)
    BY <1>1, <1>4, <2>2, SwapSame
  <2>4. Balance(c)'
    <3>1. Balance(c)
      BY <1>2, BalancedIs
    <3> QED
      BY <1>1, <3>1, <2>3, <1>8, <1>9, BalanceDel
  <2>5. ASSUME NEW d \in Conns, d # c PROVE Balance(d)'
    <3>1. Balance(d)
      BY <1>2, BalancedIs
    <3>2. conn'[d].rc = conn[d].rc /\ conn'[d].life = conn[d].life /\ (conn'[d].rf <=> conn[d].rf)
      BY <1>9, <2>5
    <3> QED
      BY <3>1, <3>2, <2>3 DEF Balance
  <2> QED
    BY <2>4, <2>5 DEF Balanced, Balance
<1> QED
  BY <1>9, <1>10, <1>11, <1>12, <1>13

LEMMA TiedDel == ASSUME TypeOK, Tied, NEW w \in Workers, NEW n \in Nat, NEW c \in Conns, Home[c] = w, DelAt(w, n, c)
  PROVE ConnShape' /\ Tied'
<1>1. /\ w \in Threads /\ Stacks /\ UNCHANGED subscribers /\ Lists
      /\ \A v \in Workers, s \in Topics : subscribers[v][s] \in Seq(Entry)
  BY TypeParts DEF Threads, DelAt, Tied
<1>2. Swap(w, n, On("del", c), {}) /\ conn' = del(c)
  BY DEF DelAt
<1>3. /\ ConnShape' /\ Frames' /\ OneEnd' /\ Ending' /\ Balanced'
      /\ \A x \in Conns : conn'[x].est = conn[x].est
  BY <1>2, EndDeletes
<1>4. In(w, n, On("del", c)) /\ Moves(w, n, {}) /\ On("del", c).op = "del"
  BY <1>2, OnIs DEF Swap
<1>5. ASSUME NEW x \in Conns PROVE ~In(w, n, On("dis", x))
  <2>1. On("dis", x) \in Frame /\ On("dis", x).op = "dis"
    BY OnIs
  <2> QED
    BY <2>1, <1>1, <1>4, InOne
<1>6. Lists'
  BY <1>1, <1>3, <1>4, <1>5, ListsKept
<1> QED
  BY <1>3, <1>6 DEF Tied

\* What unSubscribe leaves of each list.
LEMMA UnSubscribed == ASSUME TypeOK, Lists, NEW c \in Conns
  PROVE /\ unSubscribe(c) \in [Workers -> [Topics -> Seq(Entry)]]
        /\ \A w \in Workers, s \in Topics :
             /\ IsInjective(unSubscribe(c)[w][s])
             /\ \A e : Contains(unSubscribe(c)[w][s], e) <=> e.c # c /\ Contains(subscribers[w][s], e)
<1>1. PICK h \in Workers : h = Home[c]
  BY PubSubAssumption
<1>2. subscribers \in [Workers -> [Topics -> Seq(Entry)]]
  BY DEF TypeOK
<1>3. PICK g : g = [s \in Topics |-> Without(subscribers[h][s], c)]
  OBVIOUS
<1>4. unSubscribe(c) = [subscribers EXCEPT ![h] = g]
  BY <1>1, <1>2, <1>3 DEF unSubscribe
<1>5. ASSUME NEW s \in Topics
      PROVE /\ g[s] \in Seq(Entry) /\ IsInjective(g[s])
            /\ \A e : Contains(g[s], e) <=> e.c # c /\ Contains(subscribers[h][s], e)
  <2>1. PICK li \in Seq(Entry) : li = subscribers[h][s]
    BY <1>2
  <2>2. Left(g[s], li, c, Len(li))
    BY <1>3, <2>1, WithoutIs
  <2>3. IsInjective(li)
    BY <2>1 DEF Lists, ListOK
  <2>4. \A e : (\E j \in 1 .. Len(li) : li[j] = e) <=> Contains(li, e)
    BY DEF Contains
  <2> QED
    BY <2>1, <2>2, <2>3, <2>4 DEF Left
<1>6. g \in [Topics -> Seq(Entry)]
  BY <1>3, <1>5
<1>7. unSubscribe(c) \in [Workers -> [Topics -> Seq(Entry)]]
  BY <1>2, <1>4, <1>6
<1>8. ASSUME NEW w \in Workers, NEW s \in Topics
      PROVE /\ IsInjective(unSubscribe(c)[w][s])
            /\ \A e : Contains(unSubscribe(c)[w][s], e) <=> e.c # c /\ Contains(subscribers[w][s], e)
  <2>1. CASE w = h
    <3>1. unSubscribe(c)[w][s] = g[s]
      BY <1>2, <1>4, <2>1
    <3> QED
      BY <3>1, <1>5, <2>1
  <2>2. CASE w # h
    <3>1. PICK li \in Seq(Entry) : li = subscribers[w][s]
      BY <1>2
    <3>2. unSubscribe(c)[w][s] = li
      BY <1>2, <1>4, <2>2, <3>1
    <3>3. ListOK(w, s, li)
      BY <3>1 DEF Lists
    <3>4. ASSUME NEW e, Contains(li, e) PROVE e.c # c
      <4>1. PICK j \in DOMAIN li : li[j] = e
        BY <3>4 DEF Contains
      <4>2. Home[e.c] = w
        BY <4>1, <3>3 DEF ListOK
      <4> QED
        BY <4>2, <2>2, <1>1
    <3>5. IsInjective(li)
      BY <3>3 DEF ListOK
    <3> QED
      BY <3>1, <3>2, <3>4, <3>5
  <2> QED
    BY <2>1, <2>2
<1> QED
  BY <1>7, <1>8

LEMMA ListsUn ==
  ASSUME TypeOK, Lists, NEW c \in Conns, subscribers' = unSubscribe(c),
         NEW t \in Threads, NEW n \in Nat, NEW A, Moves(t, n, A),
         \A x \in Conns : x # c => ~In(t, n, On("dis", x)),
         \A x \in Conns : conn[x].est => x = c \/ conn'[x].est \/ (Home[x] = t /\ \E k \in Nat : <<k, On("dis", x)>> \in A)
  PROVE Lists'
<1> SUFFICES ASSUME NEW w \in Workers, NEW s \in Topics
             PROVE (ListOK(w, s, subscribers[w][s]) /\ \A j \in DOMAIN subscribers[w][s] : Reachable(w, subscribers[w][s][j]))'
  BY Zenon DEF Lists
<1>1. PICK q \in Seq(Entry) : q = subscribers'[w][s]
  BY UnSubscribed
<1>2. PICK li \in Seq(Entry) : li = subscribers[w][s]
  BY TypeParts
<1>3. IsInjective(q) /\ \A e : Contains(q, e) <=> e.c # c /\ Contains(li, e)
  BY <1>1, <1>2, UnSubscribed
<1>4. ASSUME NEW j \in DOMAIN q
      PROVE /\ q[j].c \in Conns /\ Home[q[j].c] = w /\ q[j].topic = s /\ q[j].c # c
            /\ Reachable(w, q[j])
  <2>1. PICK e \in Entry : e = q[j]
    BY EntryIs
  <2>2. Contains(q, e)
    BY <2>1 DEF Contains
  <2>3. e.c # c /\ Contains(li, e)
    BY <2>2, <1>3
  <2>4. PICK i \in DOMAIN li : li[i] = e
    BY <2>3 DEF Contains
  <2>5. Home[e.c] = w /\ e.topic = s /\ Reachable(w, e)
    BY <1>2, <2>4 DEF Lists, ListOK
  <2>6. e.c \in Conns
    BY DEF Entry
  <2> QED
    BY <2>1, <2>3, <2>5, <2>6
<1>5. ASSUME NEW j \in DOMAIN q PROVE Reachable(w, q[j])'
  <2>1. PICK x \in Conns : x = q[j].c /\ x # c /\ Home[x] = w
    BY <1>4
  <2>2. PICK d \in Frame : d = On("dis", x)
    BY OnIs
  <2>3. w \in Threads
    BY DEF Threads
  <2>4. CASE conn[x].est
    <3>1. conn'[x].est \/ (Home[x] = t /\ \E k \in Nat : <<k, d>> \in A)
      BY <2>1, <2>2, <2>4
    <3>2. conn'[x].est \/ \E k \in Nat : In(w, k, d)'
      BY <3>1, <2>1, <2>3 DEF Moves
    <3> QED
      BY <3>2, <2>1, <2>2 DEF Reachable
  <2>5. CASE \E k \in Nat : In(w, k, d)
    <3>1. PICK k \in Nat : In(w, k, d)
      BY <2>5
    <3>2. ~(w = t /\ k = n)
      BY <3>1, <2>1, <2>2
    <3>3. In(w, k, d)'
      BY <3>1, <3>2, <2>3 DEF Moves
    <3> QED
      BY <3>3, <2>1, <2>2 DEF Reachable
  <2>6. CASE x \notin Users
    BY <2>1, <2>6 DEF Reachable
  <2> QED
    BY <2>1, <2>2, <2>4, <2>5, <2>6, <1>4 DEF Reachable
<1>6. ListOK(w, s, q)
  BY <1>3, <1>4 DEF ListOK
<1> QED
  BY <1>1, <1>5, <1>6

\* A connection without a user stays listed.
LEMMA ListsStay ==
  ASSUME TypeOK, Lists, NEW c \in Conns, c \notin Users, UNCHANGED subscribers,
         NEW t \in Threads, NEW n \in Nat, NEW A, Moves(t, n, A),
         \A x \in Conns : x # c => ~In(t, n, On("dis", x)),
         \A x \in Conns : conn[x].est => conn'[x].est
  PROVE Lists'
<1> SUFFICES ASSUME NEW w \in Workers, NEW s \in Topics
             PROVE (ListOK(w, s, subscribers[w][s]) /\ \A j \in DOMAIN subscribers[w][s] : Reachable(w, subscribers[w][s][j]))'
  BY Zenon DEF Lists
<1>1. PICK li \in Seq(Entry) : li = subscribers[w][s] /\ li = subscribers'[w][s]
  BY TypeParts
<1>2. ListOK(w, s, li) /\ \A j \in DOMAIN li : Reachable(w, li[j])
  BY <1>1 DEF Lists
<1>3. ASSUME NEW j \in DOMAIN li PROVE Reachable(w, li[j])'
  <2>1. PICK x \in Conns : x = li[j].c
    BY EntryIs
  <2>2. PICK d \in Frame : d = On("dis", x)
    BY OnIs
  <2>3. w \in Threads /\ (x \in Users => x # c)
    BY DEF Threads
  <2>4. x \in Users /\ conn[x].est => conn'[x].est
    OBVIOUS
  <2>5. ASSUME x \in Users, NEW k \in Nat, In(w, k, d) PROVE In(w, k, d)'
    <3>1. ~(w = t /\ k = n)
      BY <2>2, <2>3, <2>5
    <3> QED
      BY <3>1, <2>3, <2>5 DEF Moves
  <2> QED
    BY <1>2, <2>1, <2>2, <2>4, <2>5 DEF Reachable
<1> QED
  BY <1>1, <1>2, <1>3 DEF ListOK

LEMMA TiedDis == ASSUME TypeOK, Tied, NEW w \in Workers, NEW n \in Nat, NEW c \in Conns, Home[c] = w, DisAt(w, n, c)
  PROVE ConnShape' /\ Tied'
<1>1. w \in Threads /\ Stacks /\ Lists
  BY TypeParts DEF Threads, Tied
<1>2. Swap(w, n, On("dis", c), {}) /\ conn' = del(c) /\ subscribers' = Delisted(c)
  BY DEF DisAt
<1>3. /\ ConnShape' /\ Frames' /\ OneEnd' /\ Ending' /\ Balanced'
      /\ \A x \in Conns : conn'[x].est = conn[x].est
  BY <1>2, EndDeletes
<1>4. In(w, n, On("dis", c)) /\ Moves(w, n, {})
  BY <1>2 DEF Swap
<1>5. ASSUME NEW x \in Conns, x # c PROVE ~In(w, n, On("dis", x))
  <2>1. On("dis", x).c = x /\ On("dis", c).c = c
    BY OnIs
  <2> QED
    BY <2>1, <1>1, <1>4, <1>5, InOne
<1>6. CASE c \in Users
  <2>1. Lists'
    BY <1>1, <1>2, <1>3, <1>4, <1>5, <1>6, ListsUn DEF Delisted
  <2> QED
    BY <1>3, <2>1 DEF Tied
<1>7. CASE c \notin Users
  <2>1. Lists'
    BY <1>1, <1>2, <1>3, <1>4, <1>5, <1>7, ListsStay DEF Delisted
  <2> QED
    BY <1>3, <2>1 DEF Tied
<1> QED
  BY <1>6, <1>7

\* evnDis publishes before it deletes the connection.
LEMMA TiedDisPublish ==
  ASSUME TypeOK, Tied, NEW w \in Workers, NEW n \in Nat, NEW c \in Conns, Home[c] = w, NEW p \in Pubs, DisPublishAt(w, n, c, p)
  PROVE ConnShape' /\ Tied'
<1>1. w \in Threads /\ Stacks /\ ConnType
  BY TypeParts DEF Threads
<1>2. Frames /\ OneEnd /\ Ending /\ Lists /\ Balanced
  BY DEF Tied
<1>3. PICK f \in Frame : f = On("dis", c) /\ f.op = "dis" /\ f.c = c
  BY OnIs
<1>4. PICK e \in Frame : e = On("del", c) /\ e.op = "del" /\ e.c = c
  BY OnIs
<1>5. PICK g \in Frame : g = Publishing(p, 1) /\ g.op = "publish"
  <2>1. 1 \in 1 .. N + 1
    BY PubSubAssumption
  <2> QED
    BY <2>1, PublishingIs
<1>6. PICK A : A = {<<n, e>>, <<n + 1, g>>}
  OBVIOUS
<1>7. Swap(w, n, f, A) /\ UNCHANGED conn /\ subscribers' = unSubscribe(c)
  BY <1>3, <1>4, <1>5, <1>6 DEF DisPublishAt
<1>8. In(w, n, f) /\ Stacks' /\ Moves(w, n, A)
  BY <1>7 DEF Swap
<1>9. \A h \in Frame : In(w, n, h) => h = f
  BY <1>1, <1>8, InOne
<1>10. \A k \in Nat, h \in Frame : <<k, h>> \in A <=> (k = n /\ h = e) \/ (k = n + 1 /\ h = g)
  BY <1>6
<1>11. \A x : (Ends(f, x) <=> x = c) /\ (Ends(e, x) <=> x = c) /\ ~Ends(g, x)
  BY <1>3, <1>4, <1>5 DEF Ends
<1>12. ~conn[c].est /\ ~conn[c].rf
  <2>1. FrameOK(w, f)
    BY <1>1, <1>2, <1>8 DEF Frames
  <2> QED
    BY <2>1, <1>3 DEF FrameOK
<1>13. ConnShape'
  BY <1>1, <1>7, SameConn
<1>14. Frames'
  <2>1. FrameOK(w, e)' /\ FrameOK(w, g)'
    BY <1>4, <1>5, <1>7, <1>12 DEF FrameOK
  <2>2. \A k \in Nat, h \in Frame : <<k, h>> \in A => FrameOK(w, h)'
    BY <2>1, <1>10
  <2>3. \A x \in Conns : (conn'[x].est => conn[x].est) /\ (conn'[x].rf => conn[x].rf)
    BY <1>7
  <2> QED
    BY <1>1, <1>2, <1>8, <2>2, <2>3, FramesKept
<1>15. OneEnd'
  <2>1. \A k, l \in Nat, h, i \in Frame, x \in Conns :
          <<k, h>> \in A /\ <<l, i>> \in A /\ Ends(h, x) /\ Ends(i, x) => k = l
    BY <1>10, <1>11
  <2>2. \A k \in Nat, h \in Frame, x \in Conns : <<k, h>> \in A /\ Ends(h, x) => \E i \in Frame : In(w, n, i) /\ Ends(i, x)
    BY <1>8, <1>10, <1>11
  <2> QED
    BY <1>1, <1>2, <1>8, <2>1, <2>2, OneEndKept
<1>16. Ending'
  <2>1. \A x \in Conns : conn'[x].est => ~conn'[x].rf
    BY <1>7, <1>2 DEF Ending
  <2>2. <<n, e>> \in A /\ Ends(e, c)
    BY <1>6, <1>11
  <2>3. \A x \in Conns : ~conn'[x].est /\ ~conn'[x].rf =>
          \/ Home[x] = w /\ \E k \in Nat, h \in Frame : <<k, h>> \in A /\ Ends(h, x)
          \/ ~conn[x].est /\ ~conn[x].rf /\ \A h \in Frame : In(w, n, h) => ~Ends(h, x)
    BY <1>7, <1>9, <1>11, <2>2
  <2> QED
    BY <1>1, <1>2, <1>8, <2>1, <2>3, EndingKept
<1>17. Lists'
  <2>1. ASSUME NEW x \in Conns, x # c PROVE ~In(w, n, On("dis", x))
    <3>1. On("dis", x) \in Frame /\ On("dis", x).c = x
      BY OnIs
    <3> QED
      BY <3>1, <1>3, <1>9, <2>1
  <2>2. \A x \in Conns : conn[x].est => conn'[x].est
    BY <1>7
  <2> QED
    BY <1>1, <1>2, <1>7, <1>8, <2>1, <2>2, ListsUn
<1>18. Balanced'
  <2>1. \A x : Refers(f, x) = {} /\ Refers(e, x) = {} /\ Refers(g, x) = {}
    BY <1>3, <1>4, <1>5, RefersNone
  <2>2. Keeping(n, f, A)
    BY <1>10, <2>1 DEF Keeping
  <2>3. \A x \in Conns : Owed(x)' = Owed(x)
    BY <1>1, <1>7, <2>2, SwapSame
  <2> QED
    BY <1>2, <1>7, <2>3, BalancedSame
<1> QED
  BY <1>13, <1>14, <1>15, <1>16, <1>17, <1>18 DEF Tied

\* evnDis closes another connection of the worker.
LEMMA TiedDisClose ==
  ASSUME TypeOK, Tied, NEW w \in Workers, NEW n \in Nat, NEW c \in Conns, Home[c] = w, NEW d \in Conns, DisCloseAt(w, n, c, d)
  PROVE ConnShape' /\ Tied'
<1>1. w \in Threads /\ Stacks /\ ConnType
  BY TypeParts DEF Threads
<1>2. Frames /\ OneEnd /\ Ending /\ Lists /\ Balanced
  BY DEF Tied
<1>3. PICK f \in Frame : f = On("dis", c) /\ f.op = "dis" /\ f.c = c
  BY OnIs
<1>4. PICK e \in Frame : e = On("del", c) /\ e.op = "del" /\ e.c = c
  BY OnIs
<1>5. PICK g \in Frame : g = On("dis", d) /\ g.op = "dis" /\ g.c = d
  BY OnIs
<1>6. PICK A : A = {<<n, e>>, <<n + 1, g>>}
  OBVIOUS
<1>7. /\ Swap(w, n, f, A) /\ subscribers' = unSubscribe(c) /\ Home[d] = w
      /\ conn[d].est /\ conn' = [conn EXCEPT ![d].est = FALSE]
  BY <1>3, <1>4, <1>5, <1>6 DEF DisCloseAt
<1>8. In(w, n, f) /\ Stacks' /\ Moves(w, n, A)
  BY <1>7 DEF Swap
<1>9. \A h \in Frame : In(w, n, h) => h = f
  BY <1>1, <1>8, InOne
<1>10. \A k \in Nat, h \in Frame : <<k, h>> \in A <=> (k = n /\ h = e) \/ (k = n + 1 /\ h = g)
  BY <1>6
<1>11. \A x : (Ends(f, x) <=> x = c) /\ (Ends(e, x) <=> x = c) /\ (Ends(g, x) <=> x = d)
  BY <1>3, <1>4, <1>5 DEF Ends
<1>12. ~conn[c].est /\ ~conn[c].rf /\ d # c
  <2>1. FrameOK(w, f)
    BY <1>1, <1>2, <1>8 DEF Frames
  <2> QED
    BY <2>1, <1>3, <1>7 DEF FrameOK
<1>13. ConnShape'
       /\ \A x \in Conns :
            /\ conn'[x].est <=> x # d /\ conn[x].est
            /\ conn'[x].rc = conn[x].rc /\ conn'[x].rf = conn[x].rf /\ conn'[x].life = conn[x].life
  BY <1>1, <1>7, LoseConn
<1>14. ~conn'[c].est /\ ~conn'[c].rf /\ ~conn'[d].est /\ ~conn'[d].rf
  BY <1>2, <1>7, <1>12, <1>13 DEF Ending
<1>15. Frames'
  <2>1. FrameOK(w, e)' /\ FrameOK(w, g)'
    BY <1>4, <1>5, <1>7, <1>14 DEF FrameOK
  <2>2. \A k \in Nat, h \in Frame : <<k, h>> \in A => FrameOK(w, h)'
    BY <2>1, <1>10
  <2>3. \A x \in Conns : (conn'[x].est => conn[x].est) /\ (conn'[x].rf => conn[x].rf)
    BY <1>13
  <2> QED
    BY <1>1, <1>2, <1>8, <2>2, <2>3, FramesKept
<1>16. OneEnd'
  <2>1. \A k, l \in Nat, h, i \in Frame, x \in Conns :
          <<k, h>> \in A /\ <<l, i>> \in A /\ Ends(h, x) /\ Ends(i, x) => k = l
    BY <1>10, <1>11, <1>12
  <2>2. \A k \in Nat, h \in Frame, x \in Conns :
          <<k, h>> \in A /\ Ends(h, x) => conn[x].est \/ \E i \in Frame : In(w, n, i) /\ Ends(i, x)
    BY <1>7, <1>8, <1>10, <1>11
  <2> QED
    BY <1>1, <1>2, <1>8, <2>1, <2>2, OneEndKept
<1>17. Ending'
  <2>1. \A x \in Conns : conn'[x].est => ~conn'[x].rf
    BY <1>13, <1>2 DEF Ending
  <2>2. <<n, e>> \in A /\ Ends(e, c) /\ <<n + 1, g>> \in A /\ Ends(g, d) /\ n + 1 \in Nat
    BY <1>6, <1>11
  <2>3. \A x \in Conns : ~conn'[x].est /\ ~conn'[x].rf =>
          \/ Home[x] = w /\ \E k \in Nat, h \in Frame : <<k, h>> \in A /\ Ends(h, x)
          \/ ~conn[x].est /\ ~conn[x].rf /\ \A h \in Frame : In(w, n, h) => ~Ends(h, x)
    BY <1>7, <1>9, <1>11, <1>13, <2>2
  <2> QED
    BY <1>1, <1>2, <1>8, <2>1, <2>3, EndingKept
<1>18. Lists'
  <2>1. ASSUME NEW x \in Conns, x # c PROVE ~In(w, n, On("dis", x))
    <3>1. On("dis", x) \in Frame /\ On("dis", x).c = x
      BY OnIs
    <3> QED
      BY <3>1, <1>3, <1>9, <2>1
  <2>2. <<n + 1, On("dis", d)>> \in A /\ n + 1 \in Nat
    BY <1>5, <1>6
  <2>3. \A x \in Conns : conn[x].est => conn'[x].est \/ (Home[x] = w /\ \E k \in Nat : <<k, On("dis", x)>> \in A)
    BY <1>7, <1>13, <2>2
  <2> QED
    BY <1>1, <1>2, <1>7, <1>8, <2>1, <2>3, ListsUn
<1>19. Balanced'
  <2>1. \A x : Refers(f, x) = {} /\ Refers(e, x) = {} /\ Refers(g, x) = {}
    BY <1>3, <1>4, <1>5, RefersNone
  <2>2. Keeping(n, f, A)
    BY <1>10, <2>1 DEF Keeping
  <2>3. \A x \in Conns : Owed(x)' = Owed(x)
    BY <1>1, <1>7, <2>2, SwapSame
  <2>4. ASSUME NEW x \in Conns PROVE Balance(x)'
    <3>1. Balance(x)
      BY <1>2, BalancedIs
    <3> QED
      BY <3>1, <1>13, <2>3, BalanceSame
  <2> QED
    BY <2>4 DEF Balanced, Balance
<1> QED
  BY <1>13, <1>15, <1>16, <1>17, <1>18, <1>19 DEF Tied

LEMMA StillTied == ASSUME TypeOK, Tied, UNCHANGED <<conn, stack>>
  PROVE ConnShape' /\ Frames' /\ OneEnd' /\ Ending' /\ Balanced'
<1>1. UNCHANGED conn /\ UNCHANGED stack /\ Stacks /\ ConnType
  BY TypeParts
<1>2. Frames /\ OneEnd /\ Ending /\ Lists /\ Balanced
  BY DEF Tied
<1>3. \A t, k, f : In(t, k, f)' <=> In(t, k, f)
  BY <1>1 DEF In
<1>4. Frames'
  BY <1>1, <1>2, <1>3 DEF Frames, FrameOK
<1>5. OneEnd'
  BY <1>2, <1>3 DEF OneEnd
<1>6. Ending'
  BY <1>1, <1>2, <1>3 DEF Ending
<1>7. Balanced'
  BY <1>1, <1>2 DEF Balanced, Owed
<1> QED
  BY <1>1, <1>4, <1>5, <1>6, <1>7, SameConn

LEMMA TiedUnSubscribe == ASSUME TypeOK, Tied, NEW c \in Conns, UnSubscribe(c) PROVE ConnShape' /\ Tied'
<1>1. UNCHANGED <<conn, stack>> /\ subscribers' = unSubscribe(c) /\ Idle(Home[c])
  BY DEF UnSubscribe
<1>2. ConnShape' /\ Frames' /\ OneEnd' /\ Ending' /\ Balanced'
  BY <1>1, StillTied
<1>3. PICK w \in Threads : w = Home[c]
  BY PubSubAssumption DEF Threads
<1>4. Moves(w, 0, {})
  BY <1>1, TypeParts, Still
<1>5. \A x : ~In(w, 0, x)
  BY TypeParts, <1>3 DEF In, Stacks
<1>6. Lists'
  BY <1>1, <1>4, <1>5, ListsUn DEF Tied
<1> QED
  BY <1>2, <1>6 DEF Tied

\* Who is not deleted while the worker is in nothing, is up.
LEMMA IdleUp == ASSUME TypeOK, Tied, NEW c \in Conns, Idle(Home[c]), conn[c].life = "live" PROVE conn[c].est
<1>1. stack[Home[c]] = <<>> /\ \A k, f : ~In(Home[c], k, f)
  BY DEF Idle, In
<1>2. Owed(c) = {}
  BY <1>1 DEF Owed
<1>3. conn[c].rc = 0
  BY <1>2, FS_EmptySet DEF Tied, Balanced
<1>4. ~conn[c].rf
  BY <1>3 DEF Tied, Balanced
<1> QED
  BY <1>1, <1>4 DEF Tied, Ending

\* Where a subscription is put.
SubscribeAt(c, h, t, li, e) ==
  /\ e.c = c /\ e.topic = t /\ ~Contains(li, e)
  /\ subscribers' = [subscribers EXCEPT ![h][t] = Append(li, e)]
  /\ UNCHANGED <<conn, pub, queue, stack, history>> /\ Idle(Home[c]) /\ conn[c].life = "live"

LEMMA SubscribeIs ==
  ASSUME TypeOK, NEW c \in Conns, NEW t \in Topics, NEW sid \in Sids, Subscribe(c, t, sid),
         NEW h \in Workers, h = Home[c], NEW li \in Seq(Entry), li = subscribers[h][t]
  PROVE \E e \in Entry : SubscribeAt(c, h, t, li, e)
<1>1. PICK n \in 0 .. Len(li) :
        /\ ~Contains(li, Entered(c, t, sid, n))
        /\ subscribers' = [subscribers EXCEPT ![h][t] = Append(li, Entered(c, t, sid, n))]
  BY DEF Subscribe
<1>2. n \in Nat
  OBVIOUS
<1>3. Entered(c, t, sid, n) \in Entry /\ Entered(c, t, sid, n).c = c /\ Entered(c, t, sid, n).topic = t
  BY <1>2 DEF Entered, Entry
<1>4. UNCHANGED <<conn, pub, queue, stack, history>> /\ Idle(Home[c]) /\ conn[c].life = "live"
  BY DEF Subscribe
<1> QED
  BY <1>1, <1>3, <1>4 DEF SubscribeAt

LEMMA TiedSubscribe ==
  ASSUME TypeOK, Tied, NEW c \in Conns, NEW t \in Topics, NEW sid \in Sids, Subscribe(c, t, sid) PROVE ConnShape' /\ Tied'
<1>1. PICK w \in Workers : w = Home[c]
  BY PubSubAssumption
<1>2. PICK li \in Seq(Entry) : li = subscribers[w][t]
  BY TypeParts
<1>3. PICK e \in Entry : SubscribeAt(c, w, t, li, e)
  BY <1>1, <1>2, SubscribeIs
<1>4. /\ ~Contains(li, e) /\ conn[c].est /\ subscribers' = [subscribers EXCEPT ![w][t] = Append(li, e)]
      /\ UNCHANGED <<conn, stack>> /\ e.c = c /\ e.topic = t
  BY <1>3, IdleUp DEF SubscribeAt
<1>5. ConnShape' /\ Frames' /\ OneEnd' /\ Ending' /\ Balanced'
  BY <1>4, StillTied
<1>6. subscribers \in [Workers -> [Topics -> Seq(Entry)]]
  BY DEF TypeOK
<1>7. PICK q \in Seq(Entry) : q = Append(li, e)
  <2>1. Append(li, e) \in Seq(Entry)
    OBVIOUS
  <2> QED
    BY <2>1
<1>8. subscribers'[w][t] = q
  BY <1>4, <1>6, <1>7
<1>9. ListOK(w, t, li) /\ \A j \in DOMAIN li : Reachable(w, li[j])
  BY <1>2 DEF Tied, Lists
<1>10. ListOK(w, t, q)
  <2>1. IsInjective(q)
    BY <1>4, <1>7, <1>9, AppendDistinct DEF ListOK
  <2>2. ASSUME NEW j \in DOMAIN q PROVE Home[q[j].c] = w /\ q[j].topic = t
    <3>1. q[j] = e \/ (j \in DOMAIN li /\ q[j] = li[j])
      BY <1>7
    <3> QED
      BY <3>1, <1>1, <1>4, <1>9 DEF ListOK
  <2> QED
    BY <2>1, <2>2 DEF ListOK
<1>11. \A v, x : Reachable(v, x)' <=> Reachable(v, x)
  BY <1>4 DEF Reachable, In
<1>12. ASSUME NEW j \in DOMAIN q PROVE Reachable(w, q[j])
  <2>1. q[j] = e \/ (j \in DOMAIN li /\ q[j] = li[j])
    BY <1>7
  <2>2. Reachable(w, e)
    BY <1>4 DEF Reachable
  <2> QED
    BY <2>1, <2>2, <1>9
<1>13. ASSUME NEW v \in Workers, NEW s \in Topics
       PROVE (ListOK(v, s, subscribers[v][s]) /\ \A j \in DOMAIN subscribers[v][s] : Reachable(v, subscribers[v][s][j]))'
  <2>1. CASE v = w /\ s = t
    BY <2>1, <1>8, <1>10, <1>11, <1>12
  <2>2. CASE ~(v = w /\ s = t)
    <3>1. subscribers'[v][s] = subscribers[v][s]
      BY <2>2, <1>4, <1>6
    <3>2. ListOK(v, s, subscribers[v][s]) /\ \A j \in DOMAIN subscribers[v][s] : Reachable(v, subscribers[v][s][j])
      BY DEF Tied, Lists
    <3> QED
      BY <3>1, <3>2, <1>11
  <2> QED
    BY <2>1, <2>2
<1>14. Lists'
  BY Zenon, <1>13 DEF Lists
<1> QED
  BY <1>5, <1>14 DEF Tied

LEMMA TiedNext == ASSUME TypeOK, Tied, [Next]_vars PROVE ConnShape' /\ Tied'
<1>1. Frames /\ \A w \in Workers : w \in Threads
  BY DEF Tied, Threads
<1>2. ASSUME NEW t \in Threads, Run(t) PROVE ConnShape' /\ Tied'
  <2>1. CASE Hand(t)
    BY <2>1, HandIs, TiedHand
  <2>2. CASE Published(t)
    BY <1>1, <2>2, PublishedIs, TiedPublished
  <2>3. CASE Find(t)
    BY <1>1, <2>3, FindIs, TiedFind
  <2>4. CASE Send(t)
    <3>1. PICK n \in Nat, p \in Pubs, i \in Nat, li \in Seq(Entry) : t \in Workers /\ SendAt(t, n, p, li, i)
      BY <1>1, <2>4, SendIs
    <3>2. /\ i \in DOMAIN li /\ OnwardAt(t, n, Sending("send", p, li, i), p, li, i + 1)
          /\ conn' = unRef(li[i].c) /\ UNCHANGED subscribers
      BY <3>1 DEF SendAt
    <3> QED
      BY <3>1, <3>2, TiedOnward
  <2>5. CASE SendFails(t)
    BY <1>1, <2>5, SendFailsIs, TiedSendFails
  <2>6. CASE Unref(t)
    <3>1. PICK n \in Nat, p \in Pubs, i \in Nat, li \in Seq(Entry) : t \in Workers /\ UnrefAt(t, n, p, li, i)
      BY <1>1, <2>6, UnrefIs
    <3>2. /\ i \in DOMAIN li /\ OnwardAt(t, n, Sending("unref", p, li, i), p, li, i + 1)
          /\ conn' = unRef(li[i].c) /\ UNCHANGED subscribers
      BY <3>1 DEF UnrefAt
    <3> QED
      BY <3>1, <3>2, TiedOnward
  <2>7. CASE Recv(t)
    BY <1>1, <2>7, RecvIs, TiedRecv
  <2>8. CASE Dis(t)
    BY <1>1, <2>8, DisIs, TiedDis
  <2>9. CASE Del(t)
    BY <1>1, <2>9, DelIs, TiedDel
  <2>10. CASE \E p \in Pubs : DisPublish(t, p)
    BY <1>1, <2>10, DisPublishIs, TiedDisPublish
  <2>11. CASE \E d \in Conns : DisClose(t, d)
    BY <1>1, <2>11, DisCloseIs, TiedDisClose
  <2> QED
    BY <1>2, <2>1, <2>2, <2>3, <2>4, <2>5, <2>6, <2>7, <2>8, <2>9, <2>10, <2>11 DEF Run
<1>3. ASSUME NEW t \in Threads, NEW p \in Pubs, Publish(t, p) PROVE ConnShape' /\ Tied'
  BY <1>3, PublishIs, TiedPublish
<1>4. ASSUME NEW w \in Workers, DoFuture(w) PROVE ConnShape' /\ Tied'
  BY <1>4, DoFutureIs, TiedDoFuture
<1>5. ASSUME NEW c \in Conns, Hup(c) PROVE ConnShape' /\ Tied'
  BY <1>5, HupIs, TiedHup
<1>6. ASSUME NEW c \in Conns, UnSubscribe(c) PROVE ConnShape' /\ Tied'
  BY <1>6, TiedUnSubscribe
<1>7. ASSUME NEW c \in Conns, NEW t \in Topics, NEW sid \in Sids, Subscribe(c, t, sid) PROVE ConnShape' /\ Tied'
  BY <1>7, TiedSubscribe
<1>8. CASE UNCHANGED vars
  <2>1. UNCHANGED <<conn, stack>> /\ UNCHANGED subscribers
    BY <1>8 DEF vars
  <2>2. ConnShape' /\ Frames' /\ OneEnd' /\ Ending' /\ Balanced'
    BY <2>1, StillTied
  <2>3. \A v, x : Reachable(v, x)' <=> Reachable(v, x)
    BY <2>1 DEF Reachable, In
  <2>4. Lists'
    BY <2>1, <2>3 DEF Tied, Lists
  <2> QED
    BY <2>2, <2>4 DEF Tied
<1>9. CASE Next
  BY <1>2, <1>3, <1>4, <1>5, <1>6, <1>7, <1>9 DEF Next
<1> QED
  BY <1>8, <1>9

LEMMA TiedInit == ASSUME Init PROVE Tied
<1>1. \A t \in Threads : \A k, f : ~In(t, k, f)
  BY DEF Init, In
<1>2. Frames /\ OneEnd
  BY <1>1 DEF Frames, OneEnd
<1>3. \A c \in Conns : conn[c].est /\ ~conn[c].rf /\ conn[c].rc = 0 /\ conn[c].life = "live"
  BY DEF Init
<1>4. Ending
  BY <1>3 DEF Ending
<1>5. Lists
  <2>1. \A w \in Workers, s \in Topics : subscribers[w][s] = <<>>
    BY DEF Init
  <2>2. IsInjective(<<>>) /\ DOMAIN <<>> = {}
    BY DEF IsInjective
  <2> QED
    BY <2>1, <2>2 DEF Lists, ListOK
<1>6. Balanced
  <2>1. ASSUME NEW c \in Conns PROVE Owed(c) = {}
    <3>1. stack[Home[c]] = <<>>
      BY PubSubAssumption DEF Init, Threads
    <3> QED
      BY <3>1 DEF Owed
  <2>2. IsFiniteSet({}) /\ Cardinality({}) = 0
    BY FS_EmptySet
  <2> QED
    BY <2>1, <2>2, <1>3 DEF Balanced
<1> QED
  BY <1>2, <1>4, <1>5, <1>6 DEF Tied

-----------------------------------------------------------------------------
(* Where a publication is: in the loop of publishMsg, in the queue of a    *)
(* worker, or in a lambda.                                                 *)

Has(t, P) == \E k \in Nat, f \in P : In(t, k, f)

OnceOn(t, P) == \A k, l \in Nat, f, g \in P : In(t, k, f) /\ In(t, l, g) => k = l

\* P is in A.
Comes(A, P) == \E k \in Nat, f \in P : <<k, f>> \in A

LEMMA HasMoves == ASSUME NEW t \in Threads, NEW n \in Nat, NEW A, Moves(t, n, A), NEW P \in SUBSET Frame
  PROVE /\ \A u \in Threads : u # t => (Has(u, P)' <=> Has(u, P)) /\ (OnceOn(u, P)' <=> OnceOn(u, P))
        /\ Has(t, P)' <=> Comes(A, P) \/ \E k \in Nat, f \in P : k # n /\ In(t, k, f)
<1>1. \A u \in Threads, k \in Nat, f \in P :
        In(u, k, f)' <=> (In(u, k, f) /\ ~(u = t /\ k = n)) \/ (u = t /\ <<k, f>> \in A)
  BY DEF Moves
<1>2. \A u \in Threads : u # t => \A k \in Nat, f \in P : In(u, k, f)' <=> In(u, k, f)
  BY <1>1
<1>3. \A u \in Threads : u # t => (Has(u, P)' <=> Has(u, P))
  BY <1>2 DEF Has
<1>4. \A u \in Threads : u # t => (OnceOn(u, P)' <=> OnceOn(u, P))
  BY <1>2 DEF OnceOn
<1>5. \A k \in Nat, f \in P : In(t, k, f)' <=> (In(t, k, f) /\ k # n) \/ <<k, f>> \in A
  BY <1>1
<1>6. Has(t, P)' <=> Comes(A, P) \/ \E k \in Nat, f \in P : k # n /\ In(t, k, f)
  BY <1>5 DEF Has, Comes
<1> QED
  BY <1>3, <1>4, <1>6

\* One in the place of one, or the first.
LEMMA OnceMoves == ASSUME NEW t \in Threads, NEW n \in Nat, NEW A, Moves(t, n, A), NEW P \in SUBSET Frame, OnceOn(t, P),
                          \A k, l \in Nat, f, g \in P : <<k, f>> \in A /\ <<l, g>> \in A => k = l,
                          Comes(A, P) => ~Has(t, P) \/ \E f \in P : In(t, n, f)
  PROVE OnceOn(t, P)'
<1>1. \A k \in Nat, f \in P : In(t, k, f)' <=> (In(t, k, f) /\ k # n) \/ <<k, f>> \in A
  BY DEF Moves
<1> SUFFICES ASSUME NEW k \in Nat, NEW l \in Nat, NEW f \in P, NEW g \in P, In(t, k, f)', In(t, l, g)' PROVE k = l
  BY DEF OnceOn
<1>2. CASE <<k, f>> \in A
  <2>1. ~(In(t, l, g) /\ l # n)
    BY <1>2 DEF Comes, Has, OnceOn
  <2> QED
    BY <2>1, <1>1, <1>2
<1>3. CASE In(t, k, f) /\ k # n
  <2>1. <<l, g>> \notin A
    BY <1>3 DEF Comes, Has, OnceOn
  <2> QED
    BY <2>1, <1>1, <1>3 DEF OnceOn
<1> QED
  BY <1>1, <1>2, <1>3

\* What a swap does to P: it goes with f, and comes with A.
LEMMA HasSwap == ASSUME Stacks, NEW t \in Threads, NEW n \in Nat, NEW f \in Frame, NEW A, Swap(t, n, f, A),
                        NEW P \in SUBSET Frame, OnceOn(t, P)
  PROVE /\ f \in P => Has(t, P) /\ (Has(t, P)' <=> Comes(A, P))
        /\ f \notin P => (Has(t, P)' <=> Has(t, P) \/ Comes(A, P))
<1>1. In(t, n, f) /\ Moves(t, n, A)
  BY DEF Swap
<1>2. Has(t, P)' <=> Comes(A, P) \/ \E k \in Nat, h \in P : k # n /\ In(t, k, h)
  BY <1>1, HasMoves
<1>3. ASSUME f \in P PROVE Has(t, P) /\ ~\E k \in Nat, h \in P : k # n /\ In(t, k, h)
  BY <1>1, <1>3 DEF OnceOn, Has
<1>4. ASSUME f \notin P PROVE Has(t, P) <=> \E k \in Nat, h \in P : k # n /\ In(t, k, h)
  <2>1. \A h \in P : ~In(t, n, h)
    BY <1>1, <1>4, InOne
  <2> QED
    BY <2>1 DEF Has
<1> QED
  BY <1>2, <1>3, <1>4

LEMMA HasPush == ASSUME Stacks, NEW t \in Threads, NEW A, Push(t, A), NEW P \in SUBSET Frame
  PROVE ~Has(t, P) /\ (Has(t, P)' <=> Comes(A, P))
<1>1. Topmost(t, 0) /\ Moves(t, 1, A)
  BY DEF Push
<1>2. ASSUME NEW k \in Nat, NEW f \in P, In(t, k, f) PROVE FALSE
  <2>1. k \in Nat \ {0}
    BY <1>2, InOne
  <2>2. k <= 0
    BY <1>1, <1>2 DEF Topmost
  <2> QED
    BY <2>1, <2>2
<1>3. Has(t, P)' <=> Comes(A, P) \/ \E k \in Nat, h \in P : k # 1 /\ In(t, k, h)
  BY <1>1, HasMoves
<1> QED
  BY <1>2, <1>3 DEF Has

\* The frames of publishMsg for p that have not passed w; of the lambdas of p; of
\* those of them that have yet to look for subscribers.
PubFrames(p, w) == {f \in Frame : f.op = "publish" /\ f.p = p /\ f.i <= w}
LamFrames(p) == {f \in Frame : f.op \in {"find", "send", "unref"} /\ f.p = p}
FindFrames(p) == {f \in Frame : f.op = "find" /\ f.p = p}

\* The classes of frames of p.
Classes(p) == {PubFrames(p, w) : w \in 1 .. N + 1} \cup {LamFrames(p)}

Publishes(p) == \E t \in Threads : Has(t, PubFrames(p, N + 1))
Unhanded(w, p) == \E t \in Threads : Has(t, PubFrames(p, w))
Queued(w, p) == Contains(queue[w], p)
InLambda(w, p) == Has(w, LamFrames(p))

Pending(p) == {w \in Workers : Unhanded(w, p) \/ Queued(w, p) \/ InLambda(w, p)}

\* No thread is in one of them twice, and publishMsg is on one thread only.
Onces(p) == \A t \in Threads, P \in Classes(p) : OnceOn(t, P)

OnePublish == \A p \in Pubs, t, u \in Threads :
  Has(t, PubFrames(p, N + 1)) /\ Has(u, PubFrames(p, N + 1)) => t = u

\* A worker has one lambda of p at most: to come, waiting, or under way.
OneLambda == \A w \in Workers :
  /\ IsInjective(queue[w])
  /\ \A p \in Pubs : /\ ~(Unhanded(w, p) /\ (Queued(w, p) \/ InLambda(w, p)))
                     /\ ~(Queued(w, p) /\ InLambda(w, p))

\* Of a publication that has not begun there is nothing.
Unborn == \A p \in Pubs : pub[p].life = "unborn" =>
  pub[p].counter = 0 /\ ~Publishes(p) /\ \A w \in Workers : ~Queued(w, p) /\ ~InLambda(w, p)

\* The counter is the number of lambdas that are over.
Counted == \A p \in Pubs : pub[p].life # "unborn" =>
  /\ pub[p].counter = N - Cardinality(Pending(p))
  /\ pub[p].life = "freed" <=> Pending(p) = {}

Single == (\A p \in Pubs : Onces(p)) /\ OnePublish /\ OneLambda /\ Unborn

-----------------------------------------------------------------------------
(* What each action does to that.                                          *)

LEMMA ClassIs == ASSUME NEW p \in Pubs
  PROVE /\ \A P \in Classes(p) : P \in SUBSET Frame
        /\ LamFrames(p) \in Classes(p) /\ PubFrames(p, N + 1) \in Classes(p)
        /\ \A w \in Workers : PubFrames(p, w) \in Classes(p)
<1>1. \A w : PubFrames(p, w) \in SUBSET Frame /\ LamFrames(p) \in SUBSET Frame
  BY DEF PubFrames, LamFrames
<1>2. N + 1 \in 1 .. N + 1 /\ \A w \in Workers : w \in 1 .. N + 1
  BY PubSubAssumption DEF Workers
<1> QED
  BY <1>1, <1>2 DEF Classes

\* Which frames are where.
LEMMA PublishingIn == ASSUME NEW p \in Pubs, NEW q \in Pubs, NEW i \in 1 .. N + 1
  PROVE /\ Publishing(p, i) \notin LamFrames(q)
        /\ \A w : Publishing(p, i) \in PubFrames(q, w) <=> q = p /\ i <= w
BY PublishingIs DEF PubFrames, LamFrames

LEMMA LambdaIn == ASSUME NEW p \in Pubs, NEW q \in Pubs, NEW f \in Frame, f.op \in {"find", "send", "unref"}, f.p = p
  PROVE /\ f \in LamFrames(q) <=> q = p
        /\ \A w : f \notin PubFrames(q, w)
BY DEF PubFrames, LamFrames

LEMMA OnIn == ASSUME NEW q \in Pubs, NEW f, f.op \in {"dis", "del", "recv"}
  PROVE \A P \in Classes(q) : f \notin P
<1>1. f \notin LamFrames(q) /\ \A w : f \notin PubFrames(q, w)
  BY DEF PubFrames, LamFrames
<1> QED
  BY <1>1 DEF Classes

\* What comes.
LEMMA Comes0 == ASSUME NEW P PROVE ~Comes({}, P)
BY DEF Comes

LEMMA Comes1 == ASSUME NEW n \in Nat, NEW f, NEW P PROVE Comes({<<n, f>>}, P) <=> f \in P
BY DEF Comes

LEMMA Comes2 == ASSUME NEW n \in Nat, NEW f, NEW g, NEW P PROVE Comes({<<n, f>>, <<n + 1, g>>}, P) <=> f \in P \/ g \in P
<1>1. n + 1 \in Nat
  OBVIOUS
<1> QED
  BY <1>1 DEF Comes

\* A step changes nothing of p on the stacks; nothing of p at all.
Alike(p) == \A u \in Threads, P \in Classes(p) : Has(u, P)' <=> Has(u, P)

Same(p) ==
  /\ Publishes(p)' <=> Publishes(p)
  /\ \A w \in Workers : /\ Unhanded(w, p)' <=> Unhanded(w, p)
                        /\ Queued(w, p)' <=> Queued(w, p)
                        /\ InLambda(w, p)' <=> InLambda(w, p)

\* One class is at one depth of A.
Sparse(A, P) == \A k, l \in Nat, g, h \in P : <<k, g>> \in A /\ <<l, h>> \in A => k = l

LEMMA AlikeIs == ASSUME NEW p \in Pubs, Alike(p)
  PROVE /\ Publishes(p)' <=> Publishes(p)
        /\ \A w \in Workers : (Unhanded(w, p)' <=> Unhanded(w, p)) /\ (InLambda(w, p)' <=> InLambda(w, p))
        /\ \A u \in Threads : Has(u, PubFrames(p, N + 1))' <=> Has(u, PubFrames(p, N + 1))
<1>1. \A u \in Threads : /\ Has(u, LamFrames(p))' <=> Has(u, LamFrames(p))
                         /\ Has(u, PubFrames(p, N + 1))' <=> Has(u, PubFrames(p, N + 1))
                         /\ \A w \in Workers : Has(u, PubFrames(p, w))' <=> Has(u, PubFrames(p, w))
  BY ClassIs DEF Alike
<1>2. Publishes(p)' <=> Publishes(p)
  BY <1>1 DEF Publishes
<1>3. ASSUME NEW w \in Workers PROVE (Unhanded(w, p)' <=> Unhanded(w, p)) /\ (InLambda(w, p)' <=> InLambda(w, p))
  BY <1>1 DEF Unhanded, InLambda, Threads
<1> QED
  BY <1>1, <1>2, <1>3

LEMMA AlikeSame == ASSUME NEW p \in Pubs, Alike(p), UNCHANGED queue PROVE Same(p)
<1>1. \A w \in Workers : Queued(w, p)' <=> Queued(w, p)
  BY DEF Queued
<1> QED
  BY <1>1, AlikeIs DEF Same

LEMMA AlikeSwap ==
  ASSUME Stacks, NEW t \in Threads, NEW n \in Nat, NEW f \in Frame, NEW A, Swap(t, n, f, A), NEW p \in Pubs, Onces(p),
         \A P \in Classes(p) : (f \in P <=> Comes(A, P)) /\ Sparse(A, P)
  PROVE Alike(p) /\ Onces(p)'
<1>1. In(t, n, f) /\ Moves(t, n, A)
  BY DEF Swap
<1>2. ASSUME NEW P \in Classes(p), NEW u \in Threads PROVE (Has(u, P)' <=> Has(u, P)) /\ OnceOn(u, P)'
  <2>1. P \in SUBSET Frame /\ OnceOn(u, P) /\ OnceOn(t, P)
    BY ClassIs DEF Onces
  <2>2. CASE u # t
    BY <1>1, <2>1, <2>2, HasMoves
  <2>3. CASE u = t
    <3>1. f \in P => Has(t, P) /\ (Has(t, P)' <=> Comes(A, P))
      BY <2>1, HasSwap
    <3>2. f \notin P => (Has(t, P)' <=> Has(t, P) \/ Comes(A, P))
      BY <2>1, HasSwap
    <3>3. f \in P <=> Comes(A, P)
      OBVIOUS
    <3>4. OnceOn(t, P)'
      <4>1. \A k, l \in Nat, g, h \in P : <<k, g>> \in A /\ <<l, h>> \in A => k = l
        BY DEF Sparse
      <4>2. Comes(A, P) => \E g \in P : In(t, n, g)
        BY <1>1
      <4> QED
        BY <1>1, <2>1, <4>1, <4>2, OnceMoves
    <3> QED
      BY <2>3, <3>1, <3>2, <3>3, <3>4
  <2> QED
    BY <2>2, <2>3
<1> QED
  BY <1>2 DEF Alike, Onces, Classes

LEMMA AlikePush == ASSUME Stacks, NEW t \in Threads, NEW A, Push(t, A), NEW p \in Pubs, Onces(p), \A P \in Classes(p) : ~Comes(A, P)
  PROVE Alike(p) /\ Onces(p)'
<1>1. Moves(t, 1, A)
  BY DEF Push
<1>2. ASSUME NEW P \in Classes(p), NEW u \in Threads PROVE (Has(u, P)' <=> Has(u, P)) /\ OnceOn(u, P)'
  <2>1. P \in SUBSET Frame /\ OnceOn(u, P) /\ OnceOn(t, P) /\ ~Comes(A, P)
    BY ClassIs DEF Onces
  <2>2. CASE u # t
    BY <1>1, <2>1, <2>2, HasMoves
  <2>3. CASE u = t
    <3>1. ~Has(t, P) /\ (Has(t, P)' <=> Comes(A, P))
      BY <2>1, HasPush
    <3>2. OnceOn(t, P)'
      BY <2>1, <3>1 DEF Has, OnceOn
    <3> QED
      BY <2>1, <2>3, <3>1, <3>2
  <2> QED
    BY <2>2, <2>3
<1> QED
  BY <1>2 DEF Alike, Onces, Classes

LEMMA AlikeStill == ASSUME UNCHANGED stack, NEW p \in Pubs, Onces(p) PROVE Alike(p) /\ Onces(p)'
<1>1. \A t, k, f : In(t, k, f)' <=> In(t, k, f)
  BY DEF In
<1> QED
  BY <1>1 DEF Alike, Has, Onces, OnceOn, Classes

-----------------------------------------------------------------------------
(* The six things that can happen to publications.                         *)

Onced == \A p \in Pubs : Onces(p)

\* Nothing.
Quiet == (\A p \in Pubs : Alike(p) /\ Onces(p)') /\ UNCHANGED queue /\ UNCHANGED pub

\* t begins to publish p.
Begins(t, p) ==
  /\ \A q \in Pubs : Onces(q)' /\ (q # p => Alike(q))
  /\ \A u \in Threads : /\ Has(u, LamFrames(p))' <=> Has(u, LamFrames(p))
                        /\ \A w \in 1 .. N + 1 : Has(u, PubFrames(p, w))' <=> u = t \/ Has(u, PubFrames(p, w))
  /\ UNCHANGED queue /\ pub[p].life = "unborn" /\ pub' = [pub EXCEPT ![p] = [life |-> "live", counter |-> 0]]

\* t gives p's lambda to worker i.
Hands(t, p, i) ==
  /\ \A q \in Pubs : Onces(q)' /\ (q # p => Alike(q))
  /\ \A u \in Threads, w \in 1 .. N + 1 : w # i => (Has(u, PubFrames(p, w))' <=> Has(u, PubFrames(p, w)))
  /\ Has(t, PubFrames(p, i)) /\ ~Has(t, PubFrames(p, i))'
  /\ \A u \in Threads : Has(u, LamFrames(p))' <=> (i = t /\ u = t) \/ Has(u, LamFrames(p))
  /\ i = t => Has(t, FindFrames(p))'
  /\ UNCHANGED pub
  /\ IF i = t THEN UNCHANGED queue ELSE queue' = [queue EXCEPT ![i] = Append(@, p)]

\* w takes p's lambda out of its queue.
Takes(w, p) ==
  /\ \A q \in Pubs : Onces(q)' /\ (q # p => Alike(q))
  /\ \A u \in Threads : /\ Has(u, LamFrames(p))' <=> u = w \/ Has(u, LamFrames(p))
                        /\ \A v \in 1 .. N + 1 : Has(u, PubFrames(p, v))' <=> Has(u, PubFrames(p, v))
  /\ Has(w, FindFrames(p))' /\ \A P \in SUBSET Frame : ~Has(w, P)
  /\ UNCHANGED pub /\ queue[w] # <<>> /\ p = Head(queue[w]) /\ queue' = [queue EXCEPT ![w] = Tail(@)]

\* p's lambda is over on w.
Finishes(w, p) ==
  /\ \A q \in Pubs : Onces(q)' /\ (q # p => Alike(q))
  /\ \A u \in Threads : /\ Has(u, LamFrames(p))' <=> u # w /\ Has(u, LamFrames(p))
                        /\ \A v \in 1 .. N + 1 : Has(u, PubFrames(p, v))' <=> Has(u, PubFrames(p, v))
  /\ Has(w, LamFrames(p)) /\ UNCHANGED queue /\ Count(p)

\* publishMsg is over on t.
Stops(t, p) ==
  /\ \A q \in Pubs : Onces(q)' /\ (q # p => Alike(q))
  /\ \A u \in Threads : /\ Has(u, LamFrames(p))' <=> Has(u, LamFrames(p))
                        /\ \A w \in Workers : Has(u, PubFrames(p, w))' <=> Has(u, PubFrames(p, w))
                        /\ Has(u, PubFrames(p, N + 1))' => Has(u, PubFrames(p, N + 1)) /\ u # t
  /\ Has(t, PubFrames(p, N + 1)) /\ UNCHANGED queue /\ UNCHANGED pub

\* Frames of no publication, or one in the place of one of the same.
LEMMA QuietSwap ==
  ASSUME Stacks, Onced, NEW t \in Threads, NEW n \in Nat, NEW f \in Frame, NEW A, Swap(t, n, f, A),
         UNCHANGED <<queue, pub>>, \A p \in Pubs : \A P \in Classes(p) : (f \in P <=> Comes(A, P)) /\ Sparse(A, P)
  PROVE Quiet
<1>1. \A p \in Pubs : Alike(p) /\ Onces(p)'
  BY AlikeSwap DEF Onced
<1> QED
  BY <1>1 DEF Quiet

LEMMA QuietSendFails ==
  ASSUME TypeOK, Onced, NEW w \in Threads, NEW n \in Nat, NEW p \in Pubs, NEW li \in Seq(Entry), NEW i \in Nat,
         SendFailsAt(w, n, p, li, i)
  PROVE Quiet
<1>1. PICK f \in Frame : f = Sending("send", p, li, i) /\ f.op = "send" /\ f.p = p
  BY SendingIs
<1>2. PICK u \in Frame : u = Sending("unref", p, li, i) /\ u.op = "unref" /\ u.p = p
  BY SendingIs
<1>3. li[i].c \in Conns
  BY EntryIs DEF SendFailsAt
<1>4. PICK d \in Frame : d = On("dis", li[i].c) /\ d.op = "dis"
  BY <1>3, OnIs
<1>5. PICK A : A = {<<n, u>>, <<n + 1, d>>}
  OBVIOUS
<1>6. Swap(w, n, f, A) /\ UNCHANGED <<queue, pub>>
  BY <1>1, <1>2, <1>4, <1>5 DEF SendFailsAt
<1>7. ASSUME NEW q \in Pubs, NEW P \in Classes(q) PROVE (f \in P <=> Comes(A, P)) /\ Sparse(A, P)
  <2>1. d \notin P
    BY <1>4, OnIn
  <2>2. f \in P <=> u \in P
    BY <1>1, <1>2, LambdaIn DEF Classes
  <2>3. Comes(A, P) <=> u \in P \/ d \in P
    BY <1>5, Comes2
  <2>4. Sparse(A, P)
    BY <1>5, <2>1 DEF Sparse
  <2> QED
    BY <2>1, <2>2, <2>3, <2>4
<1> QED
  BY <1>6, <1>7, TypeParts, QuietSwap

\* One in the place of a lambda's: it goes on.
LEMMA QuietOnward ==
  ASSUME TypeOK, Onced, NEW w \in Threads, NEW n \in Nat, NEW f \in Frame, f.op \in {"find", "send", "unref"},
         NEW g \in Frame, g.op \in {"find", "send", "unref"}, g.p = f.p, f.p \in Pubs, Swap(w, n, f, {<<n, g>>}), UNCHANGED <<queue, pub>>
  PROVE Quiet
<1>1. ASSUME NEW q \in Pubs, NEW P \in Classes(q) PROVE (f \in P <=> Comes({<<n, g>>}, P)) /\ Sparse({<<n, g>>}, P)
  <2>1. f \in P <=> g \in P
    BY LambdaIn DEF Classes
  <2>2. Comes({<<n, g>>}, P) <=> g \in P
    BY Comes1
  <2>3. Sparse({<<n, g>>}, P)
    BY DEF Sparse
  <2> QED
    BY <2>1, <2>2, <2>3
<1> QED
  BY <1>1, TypeParts, QuietSwap

LEMMA QuietHup == ASSUME TypeOK, Onced, NEW c \in Conns, HupAt(c) PROVE Quiet
<1>1. Home[c] \in Threads /\ Stacks
  BY PubSubAssumption, TypeParts DEF Threads
<1>2. On("recv", c).op = "recv" /\ On("dis", c).op = "dis"
  BY OnIs
<1>3. PICK A : A = {<<1, On("recv", c)>>, <<2, On("dis", c)>>}
  OBVIOUS
<1>4. Push(Home[c], A) /\ UNCHANGED queue /\ UNCHANGED pub
  BY <1>3 DEF HupAt
<1>5. ASSUME NEW q \in Pubs, NEW P \in Classes(q) PROVE ~Comes(A, P)
  BY <1>2, <1>3, OnIn DEF Comes
<1>6. \A q \in Pubs : Alike(q) /\ Onces(q)'
  BY <1>1, <1>4, <1>5, AlikePush DEF Onced
<1> QED
  BY <1>4, <1>6 DEF Quiet

LEMMA QuietEnd == ASSUME TypeOK, Onced, NEW t \in Threads, NEW n \in Nat, NEW op \in {"dis", "del", "recv"}, NEW c \in Conns,
                         Swap(t, n, On(op, c), {}), UNCHANGED <<queue, pub>>
  PROVE Quiet
<1>1. PICK f \in Frame : f = On(op, c) /\ f.op = op
  BY OnIs
<1>2. \A q \in Pubs : \A P \in Classes(q) : (f \in P <=> Comes({}, P)) /\ Sparse({}, P)
  BY <1>1, OnIn, Comes0 DEF Sparse
<1> QED
  BY <1>1, <1>2, TypeParts, QuietSwap

LEMMA QuietDisClose ==
  ASSUME TypeOK, Onced, NEW w \in Threads, NEW n \in Nat, NEW c \in Conns, NEW d \in Conns, DisCloseAt(w, n, c, d)
  PROVE Quiet
<1>1. PICK f \in Frame : f = On("dis", c) /\ f.op = "dis"
  BY OnIs
<1>2. PICK e : e = On("del", c) /\ e.op = "del"
  BY OnIs
<1>3. PICK g : g = On("dis", d) /\ g.op = "dis"
  BY OnIs
<1>4. PICK A : A = {<<n, e>>, <<n + 1, g>>}
  OBVIOUS
<1>5. Swap(w, n, f, A) /\ UNCHANGED <<queue, pub>>
  BY <1>1, <1>2, <1>3, <1>4 DEF DisCloseAt
<1>6. ASSUME NEW q \in Pubs, NEW P \in Classes(q) PROVE (f \in P <=> Comes(A, P)) /\ Sparse(A, P)
  <2>1. f \notin P /\ e \notin P /\ g \notin P
    BY <1>1, <1>2, <1>3, OnIn
  <2>2. Comes(A, P) <=> e \in P \/ g \in P
    BY <1>4, Comes2
  <2>3. Sparse(A, P)
    BY <1>4, <2>1 DEF Sparse
  <2> QED
    BY <2>1, <2>2, <2>3
<1> QED
  BY <1>5, <1>6, TypeParts, QuietSwap

LEMMA OncesMove ==
  ASSUME NEW t \in Threads, NEW n \in Nat, NEW A, Moves(t, n, A), NEW p \in Pubs, Onces(p),
         \A P \in Classes(p) : Sparse(A, P) /\ (Comes(A, P) => ~Has(t, P) \/ \E f \in P : In(t, n, f))
  PROVE Onces(p)'
<1>1. ASSUME NEW P \in Classes(p), NEW u \in Threads PROVE OnceOn(u, P)'
  <2>1. P \in SUBSET Frame /\ OnceOn(u, P) /\ OnceOn(t, P)
    BY ClassIs DEF Onces
  <2>2. CASE u # t
    BY <2>1, <2>2, HasMoves
  <2>3. CASE u = t
    <3>1. \A k, l \in Nat, g, h \in P : <<k, g>> \in A /\ <<l, h>> \in A => k = l
      BY DEF Sparse
    <3>2. Comes(A, P) => ~Has(t, P) \/ \E f \in P : In(t, n, f)
      OBVIOUS
    <3>3. OnceOn(t, P)'
      BY <2>1, <3>1, <3>2, OnceMoves
    <3> QED
      BY <3>3, <2>3
  <2> QED
    BY <2>2, <2>3
<1> QED
  BY <1>1 DEF Onces, Classes

LEMMA BeginsPublish == ASSUME TypeOK, Single, NEW t \in Threads, NEW p \in Pubs, PublishAt(t, p) PROVE Begins(t, p)
<1>1. Stacks /\ Onced
  BY TypeParts DEF Single, Onced
<1>2. PICK g \in Frame : g = Publishing(p, 1)
  <2>1. 1 \in 1 .. N + 1
    BY PubSubAssumption
  <2> QED
    BY <2>1, PublishingIs
<1>3. /\ \A q \in Pubs : g \notin LamFrames(q)
      /\ \A q \in Pubs : \A w \in 1 .. N + 1 : g \in PubFrames(q, w) <=> q = p
  <2>1. 1 \in 1 .. N + 1
    BY PubSubAssumption
  <2>2. \A q \in Pubs : \A w : g \in PubFrames(q, w) <=> q = p /\ 1 <= w
    BY <2>1, <1>2, PublishingIn
  <2>3. \A q \in Pubs : g \notin LamFrames(q)
    BY <2>1, <1>2, PublishingIn
  <2> QED
    BY <2>2, <2>3, PubSubAssumption
<1>4. /\ Push(t, {<<1, g>>}) /\ UNCHANGED queue
      /\ pub[p].life = "unborn" /\ pub' = [pub EXCEPT ![p] = [life |-> "live", counter |-> 0]]
  BY <1>2 DEF PublishAt, Create
<1>5. Moves(t, 1, {<<1, g>>})
  BY <1>4 DEF Push
<1>6. \A P : Comes({<<1, g>>}, P) <=> g \in P
  BY Comes1
<1>7. \A q \in Pubs : Onces(q)'
  <2> SUFFICES ASSUME NEW q \in Pubs PROVE Onces(q)'
    OBVIOUS
  <2>1. ASSUME NEW P \in Classes(q)
        PROVE Sparse({<<1, g>>}, P) /\ (Comes({<<1, g>>}, P) => ~Has(t, P) \/ \E f \in P : In(t, 1, f))
    <3>1. ~Has(t, P)
      BY <1>1, <1>4, ClassIs, HasPush
    <3>2. Sparse({<<1, g>>}, P)
      BY DEF Sparse
    <3> QED
      BY <3>1, <3>2
  <2> QED
    BY <1>1, <1>5, <2>1, OncesMove DEF Onced
<1>8. ASSUME NEW q \in Pubs, q # p PROVE Alike(q)
  <2>1. ASSUME NEW P \in Classes(q) PROVE ~Comes({<<1, g>>}, P)
    BY <1>3, <1>6, <1>8 DEF Classes
  <2> QED
    BY <1>1, <1>4, <2>1, AlikePush DEF Onced
<1>9. ASSUME NEW u \in Threads, NEW P \in Classes(p)
      PROVE Has(u, P)' <=> (u = t /\ g \in P) \/ Has(u, P)
  <2>1. P \in SUBSET Frame
    BY ClassIs
  <2>2. CASE u = t
    BY <1>1, <1>4, <1>6, <2>1, <2>2, HasPush
  <2>3. CASE u # t
    BY <1>5, <2>1, <2>3, HasMoves
  <2> QED
    BY <2>2, <2>3
<1>10. \A u \in Threads : Has(u, LamFrames(p))' <=> Has(u, LamFrames(p))
  BY <1>3, <1>9, ClassIs
<1>11. \A u \in Threads, w \in 1 .. N + 1 : Has(u, PubFrames(p, w))' <=> u = t \/ Has(u, PubFrames(p, w))
  BY <1>3, <1>9 DEF Classes
<1> QED
  BY <1>4, <1>7, <1>8, <1>10, <1>11 DEF Begins

LEMMA BeginsDisPublish ==
  ASSUME TypeOK, Single, NEW t \in Threads, NEW n \in Nat, NEW c \in Conns, NEW p \in Pubs, DisPublishAt(t, n, c, p)
  PROVE Begins(t, p)
<1>1. Stacks /\ Onced
  BY TypeParts DEF Single, Onced
<1>2. PICK g \in Frame : g = Publishing(p, 1)
  <2>1. 1 \in 1 .. N + 1
    BY PubSubAssumption
  <2> QED
    BY <2>1, PublishingIs
<1>3. /\ \A q \in Pubs : g \notin LamFrames(q)
      /\ \A q \in Pubs : \A w \in 1 .. N + 1 : g \in PubFrames(q, w) <=> q = p
  <2>1. 1 \in 1 .. N + 1
    BY PubSubAssumption
  <2>2. \A q \in Pubs : \A w : g \in PubFrames(q, w) <=> q = p /\ 1 <= w
    BY <2>1, <1>2, PublishingIn
  <2>3. \A q \in Pubs : g \notin LamFrames(q)
    BY <2>1, <1>2, PublishingIn
  <2> QED
    BY <2>2, <2>3, PubSubAssumption
<1>4. PICK f \in Frame : f = On("dis", c) /\ f.op = "dis"
  BY OnIs
<1>5. PICK e : e = On("del", c) /\ e.op = "del"
  BY OnIs
<1>6. PICK A : A = {<<n, e>>, <<n + 1, g>>}
  OBVIOUS
<1>7. /\ Swap(t, n, f, A) /\ UNCHANGED queue
      /\ pub[p].life = "unborn" /\ pub' = [pub EXCEPT ![p] = [life |-> "live", counter |-> 0]]
  BY <1>2, <1>4, <1>5, <1>6 DEF DisPublishAt, Create
<1>8. Moves(t, n, A)
  BY <1>7 DEF Swap
<1>9. \A q \in Pubs : \A P \in Classes(q) : f \notin P /\ e \notin P
  BY <1>4, <1>5, OnIn
<1>10. ASSUME NEW q \in Pubs, NEW P \in Classes(q) PROVE (Comes(A, P) <=> g \in P) /\ Sparse(A, P)
  <2>1. Comes(A, P) <=> e \in P \/ g \in P
    BY <1>6, Comes2
  <2>2. e \notin P
    BY <1>9
  <2>3. Sparse(A, P)
    BY <1>6, <2>2 DEF Sparse
  <2> QED
    BY <2>1, <2>2, <2>3
<1>11. \A w \in 1 .. N + 1 : \A u \in Threads : ~Has(u, PubFrames(p, w))
  <2>1. ~Publishes(p)
    BY <1>7 DEF Single, Unborn
  <2>2. \A f1 \in Frame : f1.op = "publish" => f1.i \in Nat /\ f1.i <= N + 1
    BY FrameIs, PubSubAssumption
  <2>3. \A w \in 1 .. N + 1 : PubFrames(p, w) \subseteq PubFrames(p, N + 1)
    BY <2>2 DEF PubFrames
  <2> QED
    BY <2>1, <2>3 DEF Publishes, Has
<1>12. \A q \in Pubs : Onces(q)'
  <2> SUFFICES ASSUME NEW q \in Pubs PROVE Onces(q)'
    OBVIOUS
  <2>1. ASSUME NEW P \in Classes(q)
        PROVE Sparse(A, P) /\ (Comes(A, P) => ~Has(t, P) \/ \E h \in P : In(t, n, h))
    <3>1. g \in P => ~Has(t, P)
      BY <1>3, <1>11 DEF Classes
    <3> QED
      BY <3>1, <1>10
  <2> QED
    BY <1>1, <1>8, <2>1, OncesMove DEF Onced
<1>13. ASSUME NEW q \in Pubs, q # p PROVE Alike(q)
  <2>1. ASSUME NEW P \in Classes(q) PROVE (f \in P <=> Comes(A, P)) /\ Sparse(A, P)
    <3>1. g \notin P
      BY <1>3, <1>13 DEF Classes
    <3> QED
      BY <3>1, <1>9, <1>10
  <2>2. Onces(q)
    BY <1>1 DEF Onced
  <2> QED
    BY <1>1, <1>7, <2>1, <2>2, AlikeSwap
<1>14. ASSUME NEW u \in Threads, NEW P \in Classes(p)
       PROVE Has(u, P)' <=> (u = t /\ g \in P) \/ Has(u, P)
  <2>1. P \in SUBSET Frame /\ OnceOn(t, P)
    BY <1>1, ClassIs DEF Onced, Onces
  <2>2. CASE u = t
    <3>1. f \notin P => (Has(t, P)' <=> Has(t, P) \/ Comes(A, P))
      BY <1>1, <1>7, <2>1, HasSwap
    <3> QED
      BY <3>1, <1>9, <1>10, <2>2
  <2>3. CASE u # t
    BY <1>8, <2>1, <2>3, HasMoves
  <2> QED
    BY <2>2, <2>3
<1>15. \A u \in Threads : Has(u, LamFrames(p))' <=> Has(u, LamFrames(p))
  BY <1>3, <1>14, ClassIs
<1>16. \A u \in Threads, w \in 1 .. N + 1 : Has(u, PubFrames(p, w))' <=> u = t \/ Has(u, PubFrames(p, w))
  BY <1>3, <1>14 DEF Classes
<1> QED
  BY <1>7, <1>12, <1>13, <1>15, <1>16 DEF Begins

LEMMA HandsIs == ASSUME TypeOK, Single, NEW t \in Threads, NEW n \in Nat, NEW p \in Pubs, NEW i \in Workers, HandAt(t, n, p, i)
  PROVE Hands(t, p, i)
<1>1. Stacks /\ Onced
  BY TypeParts DEF Single, Onced
<1>2. i \in Nat /\ i \in 1 .. N + 1 /\ i + 1 \in 1 .. N + 1
  BY PubSubAssumption DEF Workers
<1>3. PICK f \in Frame : f = Publishing(p, i)
  BY <1>2, PublishingIs
<1>4. PICK g : g = Publishing(p, i + 1)
  OBVIOUS
<1>5. PICK l \in Frame : l = Lambda(p) /\ l.op = "find" /\ l.p = p
  BY LambdaIs
<1>6. \A q \in Pubs : /\ f \notin LamFrames(q) /\ g \notin LamFrames(q)
                      /\ \A w : (f \in PubFrames(q, w) <=> q = p /\ i <= w) /\ (g \in PubFrames(q, w) <=> q = p /\ i + 1 <= w)
                      /\ l \in LamFrames(q) <=> q = p
                      /\ \A w : l \notin PubFrames(q, w)
  BY <1>2, <1>3, <1>4, <1>5, PublishingIn, LambdaIn
<1>7. PICK A : A = {<<n, g>>} \cup (IF i = t THEN {<<n + 1, l>>} ELSE {})
  OBVIOUS
<1>8. /\ Swap(t, n, f, A) /\ UNCHANGED pub
      /\ IF i = t THEN UNCHANGED queue ELSE queue' = [queue EXCEPT ![i] = Append(@, p)]
  <2>1. UNCHANGED pub
    BY DEF HandAt
  <2>2. CASE i = t
    <3>1. A = {<<n, Publishing(p, i + 1)>>, <<n + 1, Lambda(p)>>}
      BY <2>2, <1>4, <1>5, <1>7
    <3> QED
      BY <3>1, <2>1, <2>2, <1>3 DEF HandAt
  <2>3. CASE i # t
    <3>1. A = {<<n, Publishing(p, i + 1)>>}
      BY <2>3, <1>4, <1>7
    <3> QED
      BY <3>1, <2>1, <2>3, <1>3 DEF HandAt
  <2> QED
    BY <2>2, <2>3
<1>9. In(t, n, f) /\ Moves(t, n, A)
  BY <1>8 DEF Swap
<1>10. \A k \in Nat : \A h : <<k, h>> \in A <=> (k = n /\ h = g) \/ (i = t /\ k = n + 1 /\ h = l)
  BY <1>7
<1>11. \A P : Comes(A, P) <=> g \in P \/ (i = t /\ l \in P)
  <2>1. n + 1 \in Nat
    OBVIOUS
  <2> QED
    BY <1>10, <2>1 DEF Comes
<1>12. \A q \in Pubs : \A P \in Classes(q) : ~(g \in P /\ l \in P) /\ (g \in P => f \in P)
  BY <1>2, <1>6 DEF Classes
<1>13. \A q \in Pubs : \A P \in Classes(q) : Sparse(A, P)
  BY <1>10, <1>12 DEF Sparse
<1>14. Has(t, PubFrames(p, i))
  BY <1>2, <1>3, <1>6, <1>9 DEF Has
<1>15. i = t => ~Has(t, LamFrames(p))
  <2>1. Unhanded(i, p)
    BY <1>14 DEF Unhanded
  <2> QED
    BY <2>1 DEF Single, OneLambda, InLambda
<1>16. \A q \in Pubs : Onces(q)'
  <2> SUFFICES ASSUME NEW q \in Pubs PROVE Onces(q)'
    OBVIOUS
  <2>1. ASSUME NEW P \in Classes(q)
        PROVE Sparse(A, P) /\ (Comes(A, P) => ~Has(t, P) \/ \E h \in P : In(t, n, h))
    <3>1. g \in P => f \in P
      BY <1>12
    <3>2. i = t /\ l \in P => ~Has(t, P)
      BY <1>6, <1>15 DEF Classes
    <3>3. Sparse(A, P)
      BY <1>13
    <3> QED
      BY <3>1, <3>2, <3>3, <1>9, <1>11
  <2> QED
    BY <1>1, <1>9, <2>1, OncesMove DEF Onced
<1>17. ASSUME NEW q \in Pubs, q # p PROVE Alike(q)
  <2>1. ASSUME NEW P \in Classes(q) PROVE (f \in P <=> Comes(A, P)) /\ Sparse(A, P)
    <3>1. f \notin P /\ g \notin P /\ l \notin P
      BY <1>6, <1>17 DEF Classes
    <3> QED
      BY <3>1, <1>11, <1>13
  <2>2. Onces(q)
    BY <1>1 DEF Onced
  <2> QED
    BY <1>1, <1>8, <2>1, <2>2, AlikeSwap
<1>18. ASSUME NEW u \in Threads, NEW P \in Classes(p)
       PROVE /\ u # t => (Has(u, P)' <=> Has(u, P))
             /\ u = t /\ f \in P => Has(t, P) /\ (Has(t, P)' <=> Comes(A, P))
             /\ u = t /\ f \notin P => (Has(t, P)' <=> Has(t, P) \/ Comes(A, P))
  <2>1. P \in SUBSET Frame /\ OnceOn(t, P)
    BY <1>1, ClassIs DEF Onced, Onces
  <2>2. CASE u = t
    <3>1. f \in P => Has(t, P) /\ (Has(t, P)' <=> Comes(A, P))
      BY <1>1, <1>8, <2>1, HasSwap
    <3>2. f \notin P => (Has(t, P)' <=> Has(t, P) \/ Comes(A, P))
      BY <1>1, <1>8, <2>1, HasSwap
    <3> QED
      BY <2>2, <3>1, <3>2
  <2>3. CASE u # t
    BY <1>9, <2>1, <2>3, HasMoves
  <2> QED
    BY <2>2, <2>3
<1>19. ASSUME NEW u \in Threads, NEW w \in 1 .. N + 1, w # i PROVE Has(u, PubFrames(p, w))' <=> Has(u, PubFrames(p, w))
  <2>1. PICK P \in Classes(p) : P = PubFrames(p, w)
    BY DEF Classes
  <2>2. w \in Nat /\ (i <= w <=> i + 1 <= w)
    BY <1>2, <1>19, PubSubAssumption
  <2>3. (f \in P <=> g \in P) /\ l \notin P
    BY <1>6, <2>1, <2>2
  <2>4. Has(u, P)' <=> Has(u, P)
    BY <1>11, <1>18, <2>3
  <2> QED
    BY <2>1, <2>4
<1>20. ~Has(t, PubFrames(p, i))'
  <2>1. PICK P \in Classes(p) : P = PubFrames(p, i)
    BY <1>2 DEF Classes
  <2>2. f \in P /\ g \notin P /\ l \notin P
    BY <1>2, <1>6, <2>1
  <2>3. ~Has(t, P)'
    BY <1>11, <1>18, <2>2
  <2> QED
    BY <2>1, <2>3
<1>21. ASSUME NEW u \in Threads PROVE Has(u, LamFrames(p))' <=> (i = t /\ u = t) \/ Has(u, LamFrames(p))
  <2>1. PICK P \in Classes(p) : P = LamFrames(p)
    BY DEF Classes
  <2>2. f \notin P /\ g \notin P /\ l \in P
    BY <1>6, <2>1
  <2>3. Has(u, P)' <=> (i = t /\ u = t) \/ Has(u, P)
    BY <1>11, <1>18, <2>2
  <2> QED
    BY <2>1, <2>3
<1>22. i = t => Has(t, FindFrames(p))'
  <2>1. i = t => In(t, n + 1, l)'
    <3>1. i = t => <<n + 1, l>> \in A
      BY <1>10
    <3>2. n + 1 \in Nat
      OBVIOUS
    <3> QED
      BY <1>9, <3>1, <3>2 DEF Moves
  <2>2. l \in FindFrames(p) /\ n + 1 \in Nat
    BY <1>5 DEF FindFrames
  <2> QED
    BY <2>1, <2>2 DEF Has
<1> QED
  BY <1>8, <1>14, <1>16, <1>17, <1>19, <1>20, <1>21, <1>22 DEF Hands

LEMMA TakesIs == ASSUME TypeOK, Single, NEW w \in Workers, NEW p \in Pubs, DoFutureAt(w, p) PROVE Takes(w, p)
<1>1. Stacks /\ Onced /\ w \in Threads
  BY TypeParts DEF Single, Onced, Threads
<1>2. PICK l \in Frame : l = Lambda(p) /\ l.op = "find" /\ l.p = p
  BY LambdaIs
<1>3. \A q \in Pubs : (l \in LamFrames(q) <=> q = p) /\ \A v : l \notin PubFrames(q, v)
  BY <1>2, LambdaIn
<1>4. /\ Push(w, {<<1, l>>}) /\ UNCHANGED pub
      /\ queue[w] # <<>> /\ p = Head(queue[w]) /\ queue' = [queue EXCEPT ![w] = Tail(@)]
  BY <1>2 DEF DoFutureAt
<1>5. Moves(w, 1, {<<1, l>>})
  BY <1>4 DEF Push
<1>6. \A P : Comes({<<1, l>>}, P) <=> l \in P
  BY Comes1
<1>7. \A q \in Pubs : Onces(q)'
  <2> SUFFICES ASSUME NEW q \in Pubs PROVE Onces(q)'
    OBVIOUS
  <2>1. ASSUME NEW P \in Classes(q)
        PROVE Sparse({<<1, l>>}, P) /\ (Comes({<<1, l>>}, P) => ~Has(w, P) \/ \E f \in P : In(w, 1, f))
    <3>1. ~Has(w, P)
      BY <1>1, <1>4, ClassIs, HasPush
    <3>2. Sparse({<<1, l>>}, P)
      BY DEF Sparse
    <3> QED
      BY <3>1, <3>2
  <2> QED
    BY <1>1, <1>5, <2>1, OncesMove DEF Onced
<1>8. ASSUME NEW q \in Pubs, q # p PROVE Alike(q)
  <2>1. ASSUME NEW P \in Classes(q) PROVE ~Comes({<<1, l>>}, P)
    BY <1>3, <1>6, <1>8 DEF Classes
  <2> QED
    BY <1>1, <1>4, <2>1, AlikePush DEF Onced
<1>9. ASSUME NEW u \in Threads, NEW P \in Classes(p)
      PROVE Has(u, P)' <=> (u = w /\ l \in P) \/ Has(u, P)
  <2>1. P \in SUBSET Frame
    BY ClassIs
  <2>2. CASE u = w
    BY <1>1, <1>4, <1>6, <2>1, <2>2, HasPush
  <2>3. CASE u # w
    BY <1>1, <1>5, <2>1, <2>3, HasMoves
  <2> QED
    BY <2>2, <2>3
<1>10. \A u \in Threads : Has(u, LamFrames(p))' <=> u = w \/ Has(u, LamFrames(p))
  BY <1>3, <1>9, ClassIs
<1>11. \A u \in Threads, v \in 1 .. N + 1 : Has(u, PubFrames(p, v))' <=> Has(u, PubFrames(p, v))
  BY <1>3, <1>9 DEF Classes
<1>12. Has(w, FindFrames(p))' /\ \A P \in SUBSET Frame : ~Has(w, P)
  <2>1. \A P \in SUBSET Frame : ~Has(w, P) /\ (Has(w, P)' <=> l \in P)
    BY <1>1, <1>4, <1>6, HasPush
  <2>2. FindFrames(p) \in SUBSET Frame /\ l \in FindFrames(p)
    BY <1>2 DEF FindFrames
  <2> QED
    BY <2>1, <2>2
<1> QED
  BY <1>4, <1>7, <1>8, <1>10, <1>11, <1>12 DEF Takes

\* A frame that goes and leaves nothing.
Loses(t, f, P) ==
  /\ f \in P => Has(t, P)
  /\ \A u \in Threads : Has(u, P)' <=> ~(u = t /\ f \in P) /\ Has(u, P)

LEMMA GoneIs ==
  ASSUME Stacks, Onced, NEW t \in Threads, NEW n \in Nat, NEW f \in Frame, Swap(t, n, f, {})
  PROVE (\A q \in Pubs : Onces(q)') /\ (\A q \in Pubs : \A P \in Classes(q) : Loses(t, f, P))
<1>1. Moves(t, n, {})
  BY DEF Swap
<1>2. \A P : ~Comes({}, P) /\ Sparse({}, P)
  BY DEF Comes, Sparse
<1>3. \A q \in Pubs : Onces(q)'
  BY <1>1, <1>2, OncesMove DEF Onced
<1>4. ASSUME NEW q \in Pubs, NEW P \in Classes(q) PROVE Loses(t, f, P)
  <2>1. P \in SUBSET Frame /\ OnceOn(t, P)
    BY ClassIs DEF Onced, Onces
  <2>2. f \in P => Has(t, P) /\ (Has(t, P)' <=> Comes({}, P))
    BY <2>1, HasSwap
  <2>3. f \notin P => (Has(t, P)' <=> Has(t, P) \/ Comes({}, P))
    BY <2>1, HasSwap
  <2>4. ASSUME NEW u \in Threads PROVE Has(u, P)' <=> ~(u = t /\ f \in P) /\ Has(u, P)
    <3>1. u # t => (Has(u, P)' <=> Has(u, P))
      BY <1>1, <2>1, HasMoves
    <3> QED
      BY <1>2, <2>2, <2>3, <3>1
  <2> QED
    BY <2>2, <2>4 DEF Loses
<1> QED
  BY <1>3, <1>4

LEMMA FinishesIs ==
  ASSUME TypeOK, Single, NEW w \in Threads, NEW n \in Nat, NEW p \in Pubs, NEW f \in Frame, f.op \in {"find", "send", "unref"}, f.p = p,
         Swap(w, n, f, {}), Count(p), UNCHANGED queue
  PROVE Finishes(w, p)
<1>1. Stacks /\ Onced
  BY TypeParts DEF Single, Onced
<1>2. \A q \in Pubs : (f \in LamFrames(q) <=> q = p) /\ \A v : f \notin PubFrames(q, v)
  BY LambdaIn
<1>3. (\A q \in Pubs : Onces(q)') /\ (\A q \in Pubs : \A P \in Classes(q) : Loses(w, f, P))
  BY <1>1, GoneIs
<1>4. ASSUME NEW q \in Pubs, q # p PROVE Alike(q)
  <2>1. \A P \in Classes(q) : f \notin P
    BY <1>2, <1>4 DEF Classes
  <2> QED
    BY <1>3, <2>1 DEF Alike, Loses
<1>5. Has(w, LamFrames(p)) /\ \A u \in Threads : Has(u, LamFrames(p))' <=> u # w /\ Has(u, LamFrames(p))
  BY <1>2, <1>3, ClassIs DEF Loses
<1>6. \A u \in Threads, v \in 1 .. N + 1 : Has(u, PubFrames(p, v))' <=> Has(u, PubFrames(p, v))
  BY <1>2, <1>3 DEF Classes, Loses
<1> QED
  BY <1>3, <1>4, <1>5, <1>6 DEF Finishes

LEMMA StopsIs == ASSUME TypeOK, Single, NEW t \in Threads, NEW n \in Nat, NEW p \in Pubs, PublishedAt(t, n, p) PROVE Stops(t, p)
<1>1. Stacks /\ Onced
  BY TypeParts DEF Single, Onced
<1>2. N + 1 \in 1 .. N + 1 /\ \A w \in Workers : w \in 1 .. N + 1 /\ ~(N + 1 <= w)
  BY PubSubAssumption DEF Workers
<1>3. PICK f \in Frame : f = Publishing(p, N + 1)
  BY <1>2, PublishingIs
<1>4. \A q \in Pubs : f \notin LamFrames(q) /\ \A w : f \in PubFrames(q, w) <=> q = p /\ N + 1 <= w
  BY <1>2, <1>3, PublishingIn
<1>5. Swap(t, n, f, {}) /\ UNCHANGED queue /\ UNCHANGED pub
  BY <1>3 DEF PublishedAt
<1>6. (\A q \in Pubs : Onces(q)') /\ (\A q \in Pubs : \A P \in Classes(q) : Loses(t, f, P))
  BY <1>1, <1>5, GoneIs
<1>7. ASSUME NEW q \in Pubs, q # p PROVE Alike(q)
  <2>1. \A P \in Classes(q) : f \notin P
    BY <1>4, <1>7 DEF Classes
  <2> QED
    BY <1>6, <2>1 DEF Alike, Loses
<1>8. \A u \in Threads : Has(u, LamFrames(p))' <=> Has(u, LamFrames(p))
  BY <1>4, <1>6, ClassIs DEF Loses
<1>9. \A u \in Threads, w \in Workers : Has(u, PubFrames(p, w))' <=> Has(u, PubFrames(p, w))
  BY <1>2, <1>4, <1>6, ClassIs DEF Loses
<1>10. /\ \A u \in Threads : Has(u, PubFrames(p, N + 1))' => Has(u, PubFrames(p, N + 1)) /\ u # t
       /\ Has(t, PubFrames(p, N + 1))
  <2>1. f \in PubFrames(p, N + 1)
    BY <1>2, <1>4
  <2> QED
    BY <1>6, <2>1, ClassIs DEF Loses
<1> QED
  BY <1>5, <1>6, <1>7, <1>8, <1>9, <1>10 DEF Stops
-----------------------------------------------------------------------------
(* A publication is begun once, given to each worker once and counted once *)
(* there.                                                                  *)

OnePub(p) == \A t, u \in Threads : Has(t, PubFrames(p, N + 1)) /\ Has(u, PubFrames(p, N + 1)) => t = u

OneLam(p) == \A w \in Workers : /\ ~(Unhanded(w, p) /\ (Queued(w, p) \/ InLambda(w, p)))
                                /\ ~(Queued(w, p) /\ InLambda(w, p))

NotBegun(p) == pub[p].life = "unborn" =>
  pub[p].counter = 0 /\ ~Publishes(p) /\ \A w \in Workers : ~Queued(w, p) /\ ~InLambda(w, p)

CountOK(p) == pub[p].life # "unborn" =>
  /\ pub[p].counter = N - Cardinality(Pending(p))
  /\ pub[p].life = "freed" <=> Pending(p) = {}

Token(p) == OnePub(p) /\ OneLam(p) /\ NotBegun(p) /\ CountOK(p)

QueuesOnce == \A w \in Workers : IsInjective(queue[w])

LEMMA TokenIs == ASSUME Single, Counted PROVE Onced /\ QueuesOnce /\ \A p \in Pubs : Token(p)
<1>1. Onced /\ QueuesOnce
  BY DEF Single, Onced, OneLambda, QueuesOnce
<1>2. ASSUME NEW p \in Pubs PROVE OnePub(p) /\ OneLam(p) /\ NotBegun(p) /\ CountOK(p)
  <2>1. OnePub(p)
    BY DEF Single, OnePublish, OnePub
  <2>2. OneLam(p)
    BY DEF Single, OneLambda, OneLam
  <2>3. NotBegun(p)
    BY DEF Single, Unborn, NotBegun
  <2>4. CountOK(p)
    BY DEF Counted, CountOK
  <2> QED
    BY <2>1, <2>2, <2>3, <2>4
<1> QED
  BY <1>1, <1>2 DEF Token

LEMMA TokenThen == ASSUME Onced', QueuesOnce', \A p \in Pubs : Token(p)' PROVE Single' /\ Counted'
<1>1. OnePublish'
  BY DEF Token, OnePublish, OnePub
<1>2. OneLambda'
  BY DEF Token, OneLambda, OneLam, QueuesOnce
<1>3. Unborn'
  BY DEF Token, Unborn, NotBegun
<1>4. Counted'
  BY DEF Token, Counted, CountOK
<1> QED
  BY <1>1, <1>2, <1>3, <1>4 DEF Single, Onced

LEMMA SomeWorkers == ASSUME NEW M \in SUBSET Workers
  PROVE IsFiniteSet(M) /\ Cardinality(M) \in 0 .. N /\ (Cardinality(M) = 0 <=> M = {})
<1>1. IsFiniteSet(Workers) /\ Cardinality(Workers) = N
  BY PubSubAssumption, FS_Interval DEF Workers
<1>2. IsFiniteSet(M) /\ Cardinality(M) <= N
  BY <1>1, FS_Subset
<1>3. Cardinality(M) \in Nat
  BY <1>2, FS_CardinalityType
<1>4. Cardinality(M) = 0 <=> M = {}
  BY <1>2, FS_EmptySet
<1> QED
  BY <1>2, <1>3, <1>4, PubSubAssumption

LEMMA TokenSame ==
  ASSUME NEW p \in Pubs, Token(p), Same(p), pub'[p] = pub[p],
         \A u \in Threads : Has(u, PubFrames(p, N + 1))' => Has(u, PubFrames(p, N + 1))
  PROVE Token(p)'
<1>1. \A w \in Workers : /\ Unhanded(w, p)' <=> Unhanded(w, p)
                         /\ Queued(w, p)' <=> Queued(w, p)
                         /\ InLambda(w, p)' <=> InLambda(w, p)
  BY DEF Same
<1>2. Pending(p)' = Pending(p)
  BY <1>1 DEF Pending
<1>3. OnePub(p)'
  BY DEF Token, OnePub
<1>4. OneLam(p)'
  BY <1>1 DEF Token, OneLam
<1>5. NotBegun(p)'
  BY <1>1 DEF Token, NotBegun, Same
<1>6. CountOK(p)'
  BY <1>2 DEF Token, CountOK
<1> QED
  BY <1>3, <1>4, <1>5, <1>6 DEF Token

\* Another publication.
LEMMA TokenOther ==
  ASSUME NEW p \in Pubs, Token(p), Alike(p), pub'[p] = pub[p], \A w \in Workers : Queued(w, p)' <=> Queued(w, p)
  PROVE Token(p)'
<1>1. /\ Publishes(p)' <=> Publishes(p)
      /\ \A w \in Workers : (Unhanded(w, p)' <=> Unhanded(w, p)) /\ (InLambda(w, p)' <=> InLambda(w, p))
      /\ \A u \in Threads : Has(u, PubFrames(p, N + 1))' <=> Has(u, PubFrames(p, N + 1))
  BY AlikeIs
<1>2. Same(p)
  BY <1>1 DEF Same
<1> QED
  BY <1>1, <1>2, TokenSame

LEMMA SameQueue == ASSUME UNCHANGED queue PROVE (QueuesOnce' <=> QueuesOnce) /\ \A p, w : Queued(w, p)' <=> Queued(w, p)
BY DEF QueuesOnce, Queued

LEMMA SingleQuiet == ASSUME Single, Counted, Quiet PROVE Single' /\ Counted'
<1>1. Onced /\ QueuesOnce /\ \A p \in Pubs : Token(p)
  BY TokenIs
<1>2. Onced' /\ QueuesOnce' /\ \A p \in Pubs : Alike(p) /\ \A w \in Workers : Queued(w, p)' <=> Queued(w, p)
  BY <1>1, SameQueue DEF Quiet, Onced
<1>3. \A p \in Pubs : Token(p)'
  BY <1>1, <1>2, TokenOther DEF Quiet
<1> QED
  BY <1>2, <1>3, TokenThen
LEMMA SingleStops == ASSUME TypeOK, Single, Counted, NEW t \in Threads, NEW p \in Pubs, Stops(t, p) PROVE Single' /\ Counted'
<1>1. Onced /\ QueuesOnce /\ \A q \in Pubs : Token(q)
  BY TokenIs
<1>2. Onced' /\ QueuesOnce' /\ (\A q \in Pubs, w \in Workers : Queued(w, q)' <=> Queued(w, q)) /\ pub' = pub
  BY <1>1, SameQueue DEF Stops, Onced
<1>3. ASSUME NEW q \in Pubs, q # p PROVE Token(q)'
  BY <1>1, <1>2, <1>3, TokenOther DEF Stops
<1>4. /\ \A u \in Threads, w \in Workers : Has(u, PubFrames(p, w))' <=> Has(u, PubFrames(p, w))
      /\ \A u \in Threads : /\ Has(u, LamFrames(p))' <=> Has(u, LamFrames(p))
                            /\ Has(u, PubFrames(p, N + 1))' => Has(u, PubFrames(p, N + 1))
  BY DEF Stops
<1>5. \A w \in Workers : /\ Unhanded(w, p)' <=> Unhanded(w, p)
                         /\ InLambda(w, p)' <=> InLambda(w, p)
                         /\ Queued(w, p)' <=> Queued(w, p)
  BY <1>2, <1>4 DEF Unhanded, InLambda, Threads
<1>6. Pending(p)' = Pending(p)
  BY <1>5 DEF Pending
<1>7. Publishes(p)' => Publishes(p)
  BY <1>4 DEF Publishes
<1>8. OnePub(p)'
  BY <1>1, <1>4 DEF Token, OnePub
<1>9. OneLam(p)'
  BY <1>1, <1>5 DEF Token, OneLam
<1>10. NotBegun(p)'
  BY <1>1, <1>2, <1>5, <1>7 DEF Token, NotBegun
<1>11. CountOK(p)'
  BY <1>1, <1>2, <1>6 DEF Token, CountOK
<1>12. \A q \in Pubs : Token(q)'
  BY <1>3, <1>8, <1>9, <1>10, <1>11 DEF Token
<1> QED
  BY <1>2, <1>12, TokenThen

LEMMA PubThen == ASSUME TypeOK, NEW p \in Pubs, NEW r, pub' = [pub EXCEPT ![p] = r]
  PROVE pub'[p] = r /\ \A q \in Pubs : q # p => pub'[q] = pub[q]
BY DEF TypeOK

LEMMA SingleBegins == ASSUME TypeOK, Single, Counted, NEW t \in Threads, NEW p \in Pubs, Begins(t, p) PROVE Single' /\ Counted'
<1>1. Onced /\ QueuesOnce /\ \A q \in Pubs : Token(q)
  BY TokenIs
<1>2. Onced' /\ QueuesOnce' /\ \A q \in Pubs, w \in Workers : Queued(w, q)' <=> Queued(w, q)
  BY <1>1, SameQueue DEF Begins, Onced
<1>3. pub'[p] = [life |-> "live", counter |-> 0] /\ \A q \in Pubs : q # p => pub'[q] = pub[q]
  <2>1. PICK r : r = [life |-> "live", counter |-> 0]
    OBVIOUS
  <2>2. pub' = [pub EXCEPT ![p] = r]
    BY <2>1 DEF Begins
  <2> QED
    BY <2>1, <2>2, PubThen
<1>4. ASSUME NEW q \in Pubs, q # p PROVE Token(q)'
  BY <1>1, <1>2, <1>3, <1>4, TokenOther DEF Begins
<1>5. /\ \A u \in Threads : Has(u, LamFrames(p))' <=> Has(u, LamFrames(p))
      /\ \A u \in Threads, w \in 1 .. N + 1 : Has(u, PubFrames(p, w))' <=> u = t \/ Has(u, PubFrames(p, w))
  BY DEF Begins
<1>6. ~Publishes(p) /\ \A w \in Workers : ~Queued(w, p) /\ ~InLambda(w, p)
  BY <1>1 DEF Token, NotBegun, Begins
<1>7. N + 1 \in 1 .. N + 1 /\ \A w \in Workers : w \in 1 .. N + 1
  BY PubSubAssumption DEF Workers
<1>8. \A w \in Workers : Unhanded(w, p)' /\ ~Queued(w, p)' /\ ~InLambda(w, p)'
  BY <1>2, <1>5, <1>6, <1>7 DEF Unhanded, InLambda, Threads
<1>9. Pending(p)' = Workers
  BY <1>8 DEF Pending
<1>10. OnePub(p)'
  BY <1>5, <1>6, <1>7 DEF OnePub, Publishes
<1>11. OneLam(p)'
  BY <1>8 DEF OneLam
<1>12. NotBegun(p)'
  BY <1>3 DEF NotBegun
<1>13. Cardinality(Workers) = N /\ Workers # {}
  <2>1. Cardinality(Workers) = N
    BY PubSubAssumption, FS_Interval DEF Workers
  <2>2. 1 \in Workers
    BY PubSubAssumption DEF Workers
  <2> QED
    BY <2>1, <2>2
<1>14. CountOK(p)'
  BY <1>3, <1>9, <1>13, PubSubAssumption DEF CountOK
<1>15. \A q \in Pubs : Token(q)'
  BY <1>4, <1>10, <1>11, <1>12, <1>14 DEF Token
<1> QED
  BY <1>2, <1>15, TokenThen

LEMMA CountIs == ASSUME TypeOK, NEW p \in Pubs, Count(p)
  PROVE /\ pub'[p].counter = pub[p].counter + 1
        /\ pub'[p].life = IF pub[p].counter + 1 = N THEN "freed" ELSE pub[p].life
        /\ \A q \in Pubs : q # p => pub'[q] = pub[q]
<1>1. pub[p] \in [life : {"unborn", "live", "freed"}, counter : 0 .. N]
  BY DEF TypeOK
<1>2. PICK r : r = [pub[p] EXCEPT !.counter = pub[p].counter + 1,
                                  !.life = IF pub[p].counter + 1 = N THEN "freed" ELSE @]
  OBVIOUS
<1>3. /\ r.counter = pub[p].counter + 1
      /\ r.life = IF pub[p].counter + 1 = N THEN "freed" ELSE pub[p].life
  BY <1>1, <1>2
<1>4. pub' = [pub EXCEPT ![p] = r]
  BY <1>2 DEF Count, TypeOK
<1> QED
  BY <1>3, <1>4, PubThen

LEMMA SingleFinishes == ASSUME TypeOK, Single, Counted, NEW w \in Workers, NEW p \in Pubs, Finishes(w, p) PROVE Single' /\ Counted'
<1>1. Onced /\ QueuesOnce /\ (\A q \in Pubs : Token(q)) /\ w \in Threads
  BY TokenIs DEF Threads
<1>2. Onced' /\ QueuesOnce' /\ (\A q \in Pubs, v \in Workers : Queued(v, q)' <=> Queued(v, q)) /\ Count(p)
  BY <1>1, SameQueue DEF Finishes, Onced
<1>3. /\ pub'[p].counter = pub[p].counter + 1
      /\ pub'[p].life = IF pub[p].counter + 1 = N THEN "freed" ELSE pub[p].life
      /\ \A q \in Pubs : q # p => pub'[q] = pub[q]
  BY <1>2, CountIs
<1>4. ASSUME NEW q \in Pubs, q # p PROVE Token(q)'
  BY <1>1, <1>2, <1>3, <1>4, TokenOther DEF Finishes
<1>5. /\ \A u \in Threads : Has(u, LamFrames(p))' <=> u # w /\ Has(u, LamFrames(p))
      /\ \A u \in Threads, v \in 1 .. N + 1 : Has(u, PubFrames(p, v))' <=> Has(u, PubFrames(p, v))
      /\ InLambda(w, p)
  BY DEF Finishes, InLambda
<1>6. N + 1 \in 1 .. N + 1 /\ \A v \in Workers : v \in 1 .. N + 1 /\ v \in Threads
  BY PubSubAssumption DEF Workers, Threads
<1>7. \A v \in Workers : /\ Unhanded(v, p)' <=> Unhanded(v, p)
                         /\ InLambda(v, p)' <=> v # w /\ InLambda(v, p)
                         /\ Queued(v, p)' <=> Queued(v, p)
  BY <1>2, <1>5, <1>6 DEF Unhanded, InLambda
<1>8. ~Unhanded(w, p) /\ ~Queued(w, p)
  BY <1>1, <1>5 DEF Token, OneLam
<1>9. Pending(p)' = Pending(p) \ {w} /\ w \in Pending(p)
  BY <1>5, <1>7, <1>8 DEF Pending
<1>10. OnePub(p)'
  BY <1>1, <1>5, <1>6 DEF Token, OnePub
<1>11. OneLam(p)'
  BY <1>1, <1>7 DEF Token, OneLam
<1>12. pub[p].life \notin {"unborn", "freed"}
  BY <1>1, <1>5, <1>9 DEF Token, NotBegun, CountOK
<1>13. NotBegun(p)'
  BY <1>3, <1>12 DEF NotBegun
<1>14. CountOK(p)'
  <2>1. pub[p].counter = N - Cardinality(Pending(p))
    BY <1>1, <1>12 DEF Token, CountOK
  <2>2. Pending(p) \in SUBSET Workers /\ Pending(p)' \in SUBSET Workers
    BY DEF Pending
  <2>3. Cardinality(Pending(p)') = Cardinality(Pending(p)) - 1
    BY <1>9, <2>2, SomeWorkers, FS_RemoveElement
  <2>4. Cardinality(Pending(p)) \in 0 .. N /\ (Cardinality(Pending(p)') = 0 <=> Pending(p)' = {})
    BY <2>2, SomeWorkers
  <2>5. pub'[p].counter = N - Cardinality(Pending(p)')
    BY <1>3, <2>1, <2>3, <2>4, PubSubAssumption
  <2>6. pub'[p].life = "freed" <=> Cardinality(Pending(p)') = 0
    BY <1>3, <1>12, <2>1, <2>3, <2>4, PubSubAssumption
  <2> QED
    BY <2>4, <2>5, <2>6 DEF CountOK
<1>15. \A q \in Pubs : Token(q)'
  BY <1>4, <1>10, <1>11, <1>13, <1>14 DEF Token
<1> QED
  BY <1>2, <1>15, TokenThen

\* One worker's queue with p behind it, and without its first.
LEMMA QueueMore == ASSUME TypeOK, NEW i \in Workers, NEW p \in Pubs, queue' = [queue EXCEPT ![i] = Append(@, p)], QueuesOnce, ~Queued(i, p)
  PROVE QueuesOnce' /\ \A w \in Workers, q \in Pubs : Queued(w, q)' <=> Queued(w, q) \/ (w = i /\ q = p)
<1>1. queue'[i] = Append(queue[i], p) /\ \A w \in Workers : w # i => queue'[w] = queue[w]
  BY DEF TypeOK
<1>2. queue[i] \in Seq(Pubs)
  BY DEF TypeOK
<1>3. \A q : Contains(queue'[i], q) <=> Contains(queue[i], q) \/ q = p
  BY <1>1, <1>2, AppendContains
<1>4. IsInjective(queue'[i])
  BY <1>1, <1>2, AppendDistinct DEF QueuesOnce, Queued
<1>5. QueuesOnce'
  BY <1>1, <1>4 DEF QueuesOnce
<1> QED
  BY <1>1, <1>3, <1>5 DEF Queued

LEMMA QueueLess == ASSUME TypeOK, NEW i \in Workers, NEW p \in Pubs, queue[i] # <<>>, p = Head(queue[i]),
                          queue' = [queue EXCEPT ![i] = Tail(@)], QueuesOnce
  PROVE QueuesOnce' /\ Queued(i, p) /\ \A w \in Workers, q \in Pubs : Queued(w, q)' <=> Queued(w, q) /\ ~(w = i /\ q = p)
<1>1. queue'[i] = Tail(queue[i]) /\ \A w \in Workers : w # i => queue'[w] = queue[w]
  BY DEF TypeOK
<1>2. queue[i] \in Seq(Pubs) /\ IsInjective(queue[i])
  BY DEF TypeOK, QueuesOnce
<1>3. \A q : Contains(queue'[i], q) <=> Contains(queue[i], q) /\ q # p
  BY <1>1, <1>2, TailDistinct
<1>4. IsInjective(queue'[i])
  BY <1>1, <1>2, TailDistinct
<1>5. QueuesOnce'
  BY <1>1, <1>4 DEF QueuesOnce
<1>6. Queued(i, p)
  <2>1. 1 \in 1 .. Len(queue[i]) /\ queue[i][1] = p
    BY <1>2
  <2> QED
    BY <2>1 DEF Queued, Contains
<1> QED
  BY <1>1, <1>3, <1>5, <1>6 DEF Queued

LEMMA SingleTakes == ASSUME TypeOK, Single, Counted, NEW w \in Workers, NEW p \in Pubs, Takes(w, p) PROVE Single' /\ Counted'
<1>1. Onced /\ QueuesOnce /\ \A q \in Pubs : Token(q)
  BY TokenIs
<1>2. Onced' /\ pub' = pub
  BY DEF Takes, Onced
<1>3. QueuesOnce' /\ Queued(w, p) /\ \A v \in Workers, q \in Pubs : Queued(v, q)' <=> Queued(v, q) /\ ~(v = w /\ q = p)
  BY <1>1, QueueLess DEF Takes
<1>4. ASSUME NEW q \in Pubs, q # p PROVE Token(q)'
  BY <1>1, <1>2, <1>3, <1>4, TokenOther DEF Takes
<1>5. /\ \A u \in Threads : Has(u, LamFrames(p))' <=> u = w \/ Has(u, LamFrames(p))
      /\ \A u \in Threads, v \in 1 .. N + 1 : Has(u, PubFrames(p, v))' <=> Has(u, PubFrames(p, v))
  BY DEF Takes
<1>6. N + 1 \in 1 .. N + 1 /\ \A v \in Workers : v \in 1 .. N + 1 /\ v \in Threads
  BY PubSubAssumption DEF Workers, Threads
<1>7. \A v \in Workers : /\ Unhanded(v, p)' <=> Unhanded(v, p)
                         /\ InLambda(v, p)' <=> v = w \/ InLambda(v, p)
  BY <1>5, <1>6 DEF Unhanded, InLambda
<1>8. ~Unhanded(w, p) /\ ~InLambda(w, p)
  BY <1>1, <1>3 DEF Token, OneLam
<1>9. Pending(p)' = Pending(p)
  BY <1>3, <1>7 DEF Pending
<1>10. OnePub(p)'
  BY <1>1, <1>5, <1>6 DEF Token, OnePub
<1>11. OneLam(p)'
  BY <1>1, <1>3, <1>7, <1>8 DEF Token, OneLam
<1>12. NotBegun(p)'
  BY <1>1, <1>2, <1>3 DEF Token, NotBegun
<1>13. CountOK(p)'
  BY <1>1, <1>2, <1>9 DEF Token, CountOK
<1>14. \A q \in Pubs : Token(q)'
  BY <1>4, <1>10, <1>11, <1>12, <1>13 DEF Token
<1> QED
  BY <1>2, <1>3, <1>14, TokenThen

LEMMA PubWithin == ASSUME NEW t \in Threads, NEW p \in Pubs, NEW i \in 1 .. N + 1, Has(t, PubFrames(p, i)) PROVE Has(t, PubFrames(p, N + 1))
<1>1. PubFrames(p, i) \in SUBSET PubFrames(p, N + 1)
  BY PubSubAssumption DEF PubFrames, Frame
<1> QED
  BY <1>1 DEF Has

LEMMA PubWithinThen == ASSUME NEW t \in Threads, NEW p \in Pubs, NEW i \in 1 .. N + 1, Has(t, PubFrames(p, i))' PROVE Has(t, PubFrames(p, N + 1))'
<1>1. PubFrames(p, i) \in SUBSET PubFrames(p, N + 1)
  BY PubSubAssumption DEF PubFrames, Frame
<1> QED
  BY <1>1 DEF Has

LEMMA SingleHands ==
  ASSUME TypeOK, Single, Counted, NEW t \in Threads, NEW p \in Pubs, NEW i \in Workers, Hands(t, p, i)
  PROVE Single' /\ Counted'
<1>1. Onced /\ QueuesOnce /\ \A q \in Pubs : Token(q)
  BY TokenIs
<1>2. Onced' /\ pub' = pub
  BY DEF Hands, Onced
<1>3. N + 1 \in 1 .. N + 1 /\ N + 1 # i /\ \A v \in Workers : v \in 1 .. N + 1 /\ v \in Threads
  BY PubSubAssumption DEF Workers, Threads
<1>4. /\ \A u \in Threads, v \in 1 .. N + 1 : v # i => (Has(u, PubFrames(p, v))' <=> Has(u, PubFrames(p, v)))
      /\ Has(t, PubFrames(p, i)) /\ ~Has(t, PubFrames(p, i))'
      /\ \A u \in Threads : Has(u, LamFrames(p))' <=> (i = t /\ u = t) \/ Has(u, LamFrames(p))
  BY DEF Hands
<1>5. Unhanded(i, p)
  BY <1>4 DEF Unhanded
<1>6. ~Queued(i, p) /\ ~InLambda(i, p)
  BY <1>1, <1>5 DEF Token, OneLam
<1>7. QueuesOnce' /\ \A w \in Workers, q \in Pubs : Queued(w, q)' <=> Queued(w, q) \/ (i # t /\ w = i /\ q = p)
  <2>1. CASE i = t
    <3>1. queue' = queue
      BY <2>1 DEF Hands
    <3> QED
      BY <1>1, <2>1, <3>1, SameQueue
  <2>2. CASE i # t
    <3>1. queue' = [queue EXCEPT ![i] = Append(@, p)]
      BY <2>2 DEF Hands
    <3> QED
      BY <1>1, <1>6, <2>2, <3>1, QueueMore
  <2> QED
    BY <2>1, <2>2
<1>8. ASSUME NEW q \in Pubs, q # p PROVE Token(q)'
  BY <1>1, <1>2, <1>7, <1>8, TokenOther DEF Hands
<1>9. \A u \in Threads : Has(u, PubFrames(p, N + 1))' <=> Has(u, PubFrames(p, N + 1))
  BY <1>3, <1>4
<1>10. OnePub(p)'
  BY <1>1, <1>9 DEF Token, OnePub
<1>11. ~Unhanded(i, p)'
  <2> SUFFICES ASSUME NEW u \in Threads, Has(u, PubFrames(p, i))' PROVE FALSE
    BY DEF Unhanded
  <2>1. Has(u, PubFrames(p, N + 1)) /\ Has(t, PubFrames(p, N + 1))
    BY <1>3, <1>4, <1>9, PubWithin, PubWithinThen
  <2>2. u = t
    BY <1>1, <2>1 DEF Token, OnePub
  <2> QED
    BY <1>4, <2>2
<1>12. \A w \in Workers : /\ Unhanded(w, p)' <=> Unhanded(w, p) /\ w # i
                          /\ InLambda(w, p)' <=> (i = t /\ w = i) \/ InLambda(w, p)
                          /\ Queued(w, p)' <=> Queued(w, p) \/ (i # t /\ w = i)
  <2>1. \A w \in Workers : w # i => (Unhanded(w, p)' <=> Unhanded(w, p))
    BY <1>3, <1>4 DEF Unhanded
  <2>2. \A w \in Workers : InLambda(w, p)' <=> (i = t /\ w = i) \/ InLambda(w, p)
    BY <1>3, <1>4 DEF InLambda
  <2> QED
    BY <1>7, <1>11, <2>1, <2>2
<1>13. OneLam(p)'
  BY <1>1, <1>6, <1>12 DEF Token, OneLam
<1>14. Pending(p)' = Pending(p)
  BY <1>5, <1>12 DEF Pending
<1>15. pub[p].life # "unborn"
  <2>1. Has(t, PubFrames(p, N + 1))
    BY <1>3, <1>4, PubWithin
  <2>2. Publishes(p)
    BY <2>1 DEF Publishes
  <2> QED
    BY <1>1, <2>2 DEF Token, NotBegun
<1>16. NotBegun(p)'
  BY <1>2, <1>15 DEF NotBegun
<1>17. CountOK(p)'
  BY <1>1, <1>2, <1>14 DEF Token, CountOK
<1>18. \A q \in Pubs : Token(q)'
  BY <1>8, <1>10, <1>13, <1>16, <1>17 DEF Token
<1> QED
  BY <1>2, <1>7, <1>18, TokenThen

\* One of the six happens in every step.
Effects ==
  \/ Quiet
  \/ \E t \in Threads, p \in Pubs : Begins(t, p) \/ Stops(t, p)
  \/ \E t \in Threads, p \in Pubs, i \in Workers : Hands(t, p, i)
  \/ \E w \in Workers, p \in Pubs : Takes(w, p) \/ Finishes(w, p)

LEMMA EffectOnward ==
  ASSUME TypeOK, Single, NEW w \in Workers, NEW n \in Nat, NEW f \in Frame, f.op \in {"find", "send", "unref"},
         NEW p \in Pubs, f.p = p, NEW li \in Seq(Entry), NEW i \in Nat, OnwardAt(w, n, f, p, li, i), UNCHANGED queue
  PROVE Effects
<1>1. w \in Threads /\ Onced
  BY DEF Threads, Single, Onced
<1>2. CASE Count(p) /\ Swap(w, n, f, {})
  <2>1. Finishes(w, p)
    BY <1>1, <1>2, FinishesIs
  <2> QED
    BY <2>1 DEF Effects
<1>3. CASE UNCHANGED pub /\ Swap(w, n, f, {<<n, Sending("send", p, li, i)>>})
  <2>1. PICK g \in Frame : g = Sending("send", p, li, i) /\ g.op = "send" /\ g.p = p
    BY SendingIs
  <2>2. Swap(w, n, f, {<<n, g>>}) /\ UNCHANGED <<queue, pub>>
    BY <1>3, <2>1
  <2>3. Quiet
    BY <1>1, <2>1, <2>2, QuietOnward
  <2> QED
    BY <2>3 DEF Effects
<1> QED
  BY <1>2, <1>3 DEF OnwardAt

LEMMA EffectFind ==
  ASSUME TypeOK, Single, NEW w \in Workers, NEW n \in Nat, NEW p \in Pubs, NEW li \in Seq(Entry), FindAt(w, n, p, li)
  PROVE Effects
<1>1. PICK f \in Frame : f = Lambda(p) /\ f.op = "find" /\ f.p = p
  BY LambdaIs
<1>2. OnwardAt(w, n, f, p, li, 1) /\ UNCHANGED queue
  BY <1>1 DEF FindAt
<1> QED
  BY <1>1, <1>2, EffectOnward

LEMMA EffectSending ==
  ASSUME TypeOK, Single, NEW w \in Workers, NEW n \in Nat, NEW op \in {"send", "unref"}, NEW p \in Pubs,
         NEW li \in Seq(Entry), NEW i \in Nat, OnwardAt(w, n, Sending(op, p, li, i), p, li, i + 1), UNCHANGED queue
  PROVE Effects
<1>1. PICK f \in Frame : f = Sending(op, p, li, i) /\ f.op = op /\ f.p = p
  BY SendingIs
<1>2. OnwardAt(w, n, f, p, li, i + 1) /\ i + 1 \in Nat
  BY <1>1
<1> QED
  BY <1>1, <1>2, EffectOnward

LEMMA EffectStill == ASSUME Single, UNCHANGED <<stack, queue, pub>> PROVE Effects
<1>1. Onced
  BY DEF Single, Onced
<1>2. \A p \in Pubs : Alike(p) /\ Onces(p)'
  BY <1>1, AlikeStill DEF Onced
<1> QED
  BY <1>2 DEF Quiet, Effects

LEMMA EffectNext == ASSUME TypeOK, Frames, Single, [Next]_vars PROVE Effects
<1>1. Onced /\ \A w \in Workers : w \in Threads
  BY DEF Single, Onced, Threads
<1>2. ASSUME NEW t \in Threads, Run(t) PROVE Effects
  <2>1. CASE Hand(t)
    BY <2>1, HandIs, HandsIs DEF Effects
  <2>2. CASE Published(t)
    BY <2>2, PublishedIs, StopsIs DEF Effects
  <2>3. CASE Find(t)
    BY <2>3, FindIs, EffectFind
  <2>4. CASE Send(t)
    <3>1. PICK n \in Nat, p \in Pubs, i \in Nat, li \in Seq(Entry) : t \in Workers /\ SendAt(t, n, p, li, i)
      BY <2>4, SendIs
    <3>2. OnwardAt(t, n, Sending("send", p, li, i), p, li, i + 1) /\ UNCHANGED queue
      BY <3>1 DEF SendAt
    <3> QED
      BY <3>1, <3>2, EffectSending
  <2>5. CASE SendFails(t)
    BY <1>1, <2>5, SendFailsIs, QuietSendFails DEF Effects
  <2>6. CASE Unref(t)
    <3>1. PICK n \in Nat, p \in Pubs, i \in Nat, li \in Seq(Entry) : t \in Workers /\ UnrefAt(t, n, p, li, i)
      BY <2>6, UnrefIs
    <3>2. OnwardAt(t, n, Sending("unref", p, li, i), p, li, i + 1) /\ UNCHANGED queue
      BY <3>1 DEF UnrefAt
    <3> QED
      BY <3>1, <3>2, EffectSending
  <2>7. CASE Recv(t)
    <3>1. PICK n \in Nat, c \in Conns : RecvAt(t, n, c)
      BY <2>7, RecvIs
    <3>2. Swap(t, n, On("recv", c), {}) /\ UNCHANGED <<queue, pub>>
      BY <3>1 DEF RecvAt
    <3>3. Quiet
      BY <1>1, <3>2, QuietEnd
    <3> QED
      BY <3>3 DEF Effects
  <2>8. CASE Dis(t)
    <3>1. PICK n \in Nat, c \in Conns : DisAt(t, n, c)
      BY <2>8, DisIs
    <3>2. Swap(t, n, On("dis", c), {}) /\ UNCHANGED <<queue, pub>>
      BY <3>1 DEF DisAt
    <3>3. Quiet
      BY <1>1, <3>2, QuietEnd
    <3> QED
      BY <3>3 DEF Effects
  <2>9. CASE Del(t)
    <3>1. PICK n \in Nat, c \in Conns : DelAt(t, n, c)
      BY <2>9, DelIs
    <3>2. Swap(t, n, On("del", c), {}) /\ UNCHANGED <<queue, pub>>
      BY <3>1 DEF DelAt
    <3>3. Quiet
      BY <1>1, <3>2, QuietEnd
    <3> QED
      BY <3>3 DEF Effects
  <2>10. CASE \E p \in Pubs : DisPublish(t, p)
    BY <2>10, DisPublishIs, BeginsDisPublish DEF Effects
  <2>11. CASE \E d \in Conns : DisClose(t, d)
    BY <1>1, <2>11, DisCloseIs, QuietDisClose DEF Effects
  <2> QED
    BY <1>2, <2>1, <2>2, <2>3, <2>4, <2>5, <2>6, <2>7, <2>8, <2>9, <2>10, <2>11 DEF Run
<1>3. ASSUME NEW t \in Threads, NEW p \in Pubs, Publish(t, p) PROVE Effects
  BY <1>3, PublishIs, BeginsPublish DEF Effects
<1>4. ASSUME NEW w \in Workers, DoFuture(w) PROVE Effects
  BY <1>4, DoFutureIs, TakesIs DEF Effects
<1>5. ASSUME NEW c \in Conns, Hup(c) PROVE Effects
  BY <1>1, <1>5, HupIs, QuietHup DEF Effects
<1>6. ASSUME NEW c \in Conns, UnSubscribe(c) PROVE Effects
  BY <1>6, EffectStill DEF UnSubscribe
<1>7. ASSUME NEW c \in Conns, NEW t \in Topics, NEW sid \in Sids, Subscribe(c, t, sid) PROVE Effects
  BY <1>7, EffectStill DEF Subscribe
<1>8. CASE UNCHANGED vars
  BY <1>8, EffectStill DEF vars
<1>9. CASE Next
  BY <1>2, <1>3, <1>4, <1>5, <1>6, <1>7, <1>9 DEF Next
<1> QED
  BY <1>8, <1>9

LEMMA SingleNext == ASSUME TypeOK, Frames, Single, Counted, [Next]_vars PROVE Single' /\ Counted'
<1>1. Effects
  BY EffectNext
<1> QED
  BY <1>1, SingleQuiet, SingleBegins, SingleStops, SingleHands, SingleTakes, SingleFinishes DEF Effects

LEMMA SingleInit == ASSUME Init PROVE Single /\ Counted
<1>1. \A t \in Threads : \A P : ~Has(t, P)
  BY DEF Init, Has, In
<1>2. \A p \in Pubs : pub[p].life = "unborn" /\ pub[p].counter = 0
  BY DEF Init
<1>3. \A w \in Workers : queue[w] = <<>>
  BY DEF Init
<1>4. ASSUME NEW w \in Workers PROVE IsInjective(queue[w]) /\ \A p : ~Queued(w, p)
  <2>1. IsInjective(<<>>)
    BY DEF IsInjective
  <2>2. \A p : ~Contains(<<>>, p)
    BY DEF Contains
  <2> QED
    BY <1>3, <2>1, <2>2 DEF Queued
<1>5. (\A w \in Workers, p \in Pubs : ~InLambda(w, p) /\ ~Unhanded(w, p)) /\ \A p \in Pubs : ~Publishes(p)
  BY <1>1 DEF InLambda, Unhanded, Publishes, Threads
<1>6. \A p \in Pubs : Onces(p)
  <2>1. \A t \in Threads : \A P : OnceOn(t, P)
    BY <1>1 DEF OnceOn, Has
  <2> QED
    BY <2>1 DEF Onces
<1>7. OnePublish
  BY <1>1 DEF OnePublish
<1>8. OneLambda
  BY <1>4, <1>5 DEF OneLambda
<1>9. Unborn
  BY <1>2, <1>4, <1>5 DEF Unborn
<1>10. Counted
  BY <1>2 DEF Counted
<1> QED
  BY <1>6, <1>7, <1>8, <1>9, <1>10 DEF Single

-----------------------------------------------------------------------------
(* The types.                                                              *)

SubsT == subscribers \in [Workers -> [Topics -> Seq(Entry)]]
PubT == pub \in [Pubs -> [life : {"unborn", "live", "freed"}, counter : Nat]]
QueueT == queue \in [Workers -> Seq(Pubs)]
ToldT == told \in [Conns -> Seq([p : Pubs, sid : Sids, topic : Topics, n : Nat])]
DueT == due \in [Pubs -> SUBSET Entry]
EndedT == ended \in [Threads -> SUBSET Pubs]
PastT == past \in [Pubs -> SUBSET Pubs]

Shapes == SubsT /\ PubT /\ QueueT /\ Stacks /\ ToldT /\ DueT /\ EndedT /\ PastT

LEMMA ShapesIs == ASSUME TypeOK PROVE Shapes
<1>1. \A r \in [life : {"unborn", "live", "freed"}, counter : 0 .. N] :
        r \in [life : {"unborn", "live", "freed"}, counter : Nat]
  BY PubSubAssumption
<1>2. PubT
  BY <1>1 DEF TypeOK, PubT
<1> QED
  BY <1>2 DEF TypeOK, Shapes, SubsT, QueueT, Stacks, ToldT, DueT, EndedT, PastT

LEMMA TypeThen == ASSUME Shapes', ConnShape', Tied', Counted', Single' PROVE TypeOK'
<1>1. conn' \in [Conns -> [life : {"live", "freed"}, est : BOOLEAN, rc : Nat, rf : BOOLEAN]]
  <2>1. ASSUME NEW c \in Conns PROVE conn'[c] \in [life : {"live", "freed"}, est : BOOLEAN, rc : Nat, rf : BOOLEAN]
    <3>1. conn'[c].rc = Cardinality(Owed(c)') /\ IsFiniteSet(Owed(c)')
      BY DEF Tied, Balanced
    <3>2. conn'[c].rc \in Nat
      BY <3>1, FS_CardinalityType
    <3>3. conn'[c] \in [life : {"live", "freed"}, est : BOOLEAN, rc : Int, rf : BOOLEAN]
      BY DEF ConnShape
    <3> QED
      BY <3>2, <3>3
  <2> QED
    BY <2>1 DEF ConnShape
<1>2. pub' \in [Pubs -> [life : {"unborn", "live", "freed"}, counter : 0 .. N]]
  <2>1. ASSUME NEW p \in Pubs PROVE pub'[p] \in [life : {"unborn", "live", "freed"}, counter : 0 .. N]
    <3>1. Pending(p)' \in SUBSET Workers
      BY DEF Pending
    <3>2. Cardinality(Pending(p)') \in 0 .. N
      BY <3>1, SomeWorkers
    <3>3. pub'[p].counter = 0 \/ pub'[p].counter = N - Cardinality(Pending(p)')
      BY DEF Single, Unborn, Counted
    <3>4. pub'[p].counter \in 0 .. N
      BY <3>2, <3>3, PubSubAssumption
    <3>5. pub'[p] \in [life : {"unborn", "live", "freed"}, counter : Nat]
      BY DEF Shapes, PubT
    <3> QED
      BY <3>4, <3>5
  <2> QED
    BY <2>1 DEF Shapes, PubT
<1>3. ASSUME NEW t \in Outsiders, NEW k \in DOMAIN stack'[t] PROVE stack'[t][k].op = "publish"
  <2>1. stack'[t] \in Seq(Frame) /\ t \in Threads /\ t \notin Workers
    BY PubSubAssumption DEF Shapes, Stacks, Threads
  <2>2. PICK f \in Frame : f = stack'[t][k]
    BY <2>1
  <2>3. k \in Nat /\ In(t, k, f)'
    BY <2>1, <2>2 DEF In
  <2>4. FrameOK(t, f)'
    BY <2>1, <2>3 DEF Tied, Frames
  <2> QED
    BY <2>1, <2>2, <2>4 DEF FrameOK
<1> QED
  BY <1>1, <1>2, <1>3 DEF TypeOK, Shapes, SubsT, QueueT, Stacks, ToldT, DueT, EndedT, PastT

LEMMA ToSetIn == ASSUME NEW s \in Seq(Entry) PROVE ToSet(s) \in SUBSET Entry
BY DEF ToSet

LEMMA CreateShape ==
  ASSUME PubT, EndedT, PastT, NEW t \in Threads, NEW p \in Pubs, NEW lists \in [Workers -> [Topics -> Seq(Entry)]],
         NEW rest \in [Pubs -> SUBSET Entry], Create(t, p, lists, rest)
  PROVE PubT' /\ DueT' /\ PastT'
<1>1. PubT'
  <2>1. PICK r : r = [life |-> "live", counter |-> 0]
    OBVIOUS
  <2>2. r \in [life : {"unborn", "live", "freed"}, counter : Nat]
    BY <2>1
  <2>3. pub' = [pub EXCEPT ![p] = r]
    BY <2>1 DEF Create
  <2> QED
    BY <2>2, <2>3 DEF PubT
<1>2. PastT'
  <2>1. ended[t] \in SUBSET Pubs
    BY DEF EndedT
  <2>2. past' = [past EXCEPT ![p] = ended[t]]
    BY DEF Create
  <2> QED
    BY <2>1, <2>2 DEF PastT
<1>3. DueT'
  <2>1. PICK D : D = Subscribed(p, lists)
    OBVIOUS
  <2>2. ASSUME NEW w \in Workers, NEW k \in 1 .. 2 PROVE ToSet(lists[w][Of[p][k]]) \in SUBSET Entry
    <3>1. Of[p][k] \in Topics
      BY PubSubAssumption
    <3>2. lists[w][Of[p][k]] \in Seq(Entry)
      BY <3>1
    <3> QED
      BY <3>2, ToSetIn
  <2>3. D \in SUBSET Entry
    BY <2>1, <2>2 DEF Subscribed
  <2>4. due' = [rest EXCEPT ![p] = D]
    BY <2>1 DEF Create
  <2> QED
    BY <2>3, <2>4 DEF DueT
<1> QED
  BY <1>1, <1>2, <1>3

LEMMA CountShape == ASSUME PubT, NEW p \in Pubs, Count(p) PROVE PubT'
<1>1. pub[p] \in [life : {"unborn", "live", "freed"}, counter : Nat]
  BY DEF PubT
<1>2. PICK r : r = [pub[p] EXCEPT !.counter = pub[p].counter + 1,
                                  !.life = IF pub[p].counter + 1 = N THEN "freed" ELSE @]
  OBVIOUS
<1>3. r \in [life : {"unborn", "live", "freed"}, counter : Nat]
  <2>1. PICK life \in {"unborn", "live", "freed"}, n \in Nat : pub[p] = [life |-> life, counter |-> n]
    BY <1>1
  <2>2. pub[p].counter + 1 \in Nat /\ (IF pub[p].counter + 1 = N THEN "freed" ELSE pub[p].life) \in {"unborn", "live", "freed"}
    BY <2>1
  <2>3. r = [life |-> IF pub[p].counter + 1 = N THEN "freed" ELSE pub[p].life, counter |-> pub[p].counter + 1]
    BY <1>2, <2>1
  <2> QED
    BY <2>2, <2>3
<1>4. pub' = [pub EXCEPT ![p] = r]
  BY <1>2 DEF Count, PubT
<1> QED
  BY <1>3, <1>4 DEF PubT

LEMMA UndueShape == ASSUME DueT, NEW c PROVE Undue(c) \in [Pubs -> SUBSET Entry]
<1>1. \A p \in Pubs : {e \in due[p] : e.c # c} \in SUBSET Entry
  BY DEF DueT
<1> QED
  BY <1>1 DEF Undue

LEMMA OnwardShape ==
  ASSUME PubT, NEW w, NEW n, NEW f, NEW p \in Pubs, NEW li, NEW i, OnwardAt(w, n, f, p, li, i)
  PROVE PubT' /\ Stacks'
<1>1. PubT'
  BY CountShape DEF OnwardAt, PubT
<1>2. Stacks'
  BY DEF OnwardAt, Swap
<1> QED
  BY <1>1, <1>2

LEMMA StacksStill == ASSUME Stacks, UNCHANGED stack PROVE Stacks'
BY DEF Stacks

LEMMA ShapesEnd == ASSUME TypeOK, Stacks', UNCHANGED <<subscribers, pub, queue, history>> PROVE Shapes'
<1>1. Shapes
  BY ShapesIs
<1> QED
  BY <1>1 DEF Shapes, SubsT, PubT, QueueT, ToldT, DueT, EndedT, PastT, history

LEMMA ShapesHand == ASSUME TypeOK, NEW t \in Threads, NEW n, NEW p \in Pubs, NEW i \in Workers, HandAt(t, n, p, i) PROVE Shapes'
<1>1. Shapes
  BY ShapesIs
<1>2. QueueT' /\ Stacks'
  <2>1. CASE i = t
    BY <1>1, <2>1 DEF HandAt, Swap, Shapes, QueueT
  <2>2. CASE i # t
    <3>1. queue' = [queue EXCEPT ![i] = Append(@, p)] /\ Stacks'
      BY <2>2 DEF HandAt, Swap
    <3>2. queue[i] \in Seq(Pubs)
      BY <1>1 DEF Shapes, QueueT
    <3>3. Append(queue[i], p) \in Seq(Pubs)
      BY <3>2
    <3> QED
      BY <1>1, <3>1, <3>3 DEF Shapes, QueueT
  <2> QED
    BY <2>1, <2>2
<1> QED
  BY <1>1, <1>2 DEF Shapes, SubsT, PubT, ToldT, DueT, EndedT, PastT, HandAt, history

LEMMA ShapesPublished == ASSUME TypeOK, NEW t \in Threads, NEW n, NEW p \in Pubs, PublishedAt(t, n, p) PROVE Shapes'
<1>1. Shapes
  BY ShapesIs
<1>2. Stacks' /\ EndedT'
  BY <1>1 DEF PublishedAt, Swap, Shapes, EndedT
<1> QED
  BY <1>1, <1>2 DEF Shapes, SubsT, PubT, QueueT, ToldT, DueT, PastT, PublishedAt

LEMMA ShapesDoFuture == ASSUME TypeOK, NEW w \in Workers, NEW p, DoFutureAt(w, p) PROVE Shapes'
<1>1. Shapes
  BY ShapesIs
<1>2. queue[w] \in Seq(Pubs) /\ queue[w] # <<>>
  BY <1>1 DEF Shapes, QueueT, DoFutureAt
<1>3. Tail(queue[w]) \in Seq(Pubs)
  BY <1>2
<1>4. Stacks' /\ QueueT'
  BY <1>1, <1>3 DEF DoFutureAt, Push, Shapes, QueueT
<1> QED
  BY <1>1, <1>4 DEF Shapes, SubsT, PubT, ToldT, DueT, EndedT, PastT, DoFutureAt, history

LEMMA ShapesOnward ==
  ASSUME TypeOK, NEW w, NEW n, NEW f, NEW p \in Pubs, NEW li, NEW i, OnwardAt(w, n, f, p, li, i),
         UNCHANGED <<subscribers, queue, due, ended, past>>, ToldT'
  PROVE Shapes'
<1>1. Shapes
  BY ShapesIs
<1>2. PubT' /\ Stacks'
  BY <1>1, OnwardShape DEF Shapes
<1> QED
  BY <1>1, <1>2 DEF Shapes, SubsT, QueueT, DueT, EndedT, PastT

LEMMA ShapesFind == ASSUME TypeOK, NEW w, NEW n, NEW p \in Pubs, NEW li, FindAt(w, n, p, li) PROVE Shapes'
<1>1. ToldT'
  BY ShapesIs DEF Shapes, ToldT, FindAt, history
<1>2. OnwardAt(w, n, Lambda(p), p, li, 1) /\ UNCHANGED <<subscribers, queue, due, ended, past>>
  BY DEF FindAt, history
<1> QED
  BY <1>1, <1>2, ShapesOnward

LEMMA ShapesUnref == ASSUME TypeOK, NEW w, NEW n, NEW p \in Pubs, NEW li, NEW i, UnrefAt(w, n, p, li, i) PROVE Shapes'
<1>1. ToldT'
  BY ShapesIs DEF Shapes, ToldT, UnrefAt, history
<1>2. OnwardAt(w, n, Sending("unref", p, li, i), p, li, i + 1) /\ UNCHANGED <<subscribers, queue, due, ended, past>>
  BY DEF UnrefAt, history
<1> QED
  BY <1>1, <1>2, ShapesOnward

\* What the connection of e is told.
LEMMA ToldMore == ASSUME ToldT, NEW p \in Pubs, NEW e \in Entry,
                         told' = IF conn[e.c].est THEN [told EXCEPT ![e.c] = Append(@, Message(p, e))] ELSE told
  PROVE ToldT'
<1>1. PICK m \in [p : Pubs, sid : Sids, topic : Topics, n : Nat] : m = Message(p, e)
  BY DEF Message, Entry
<1>2. PICK c \in Conns : c = e.c
  BY DEF Entry
<1>3. told[c] \in Seq([p : Pubs, sid : Sids, topic : Topics, n : Nat])
  BY DEF ToldT
<1>4. Append(told[c], m) \in Seq([p : Pubs, sid : Sids, topic : Topics, n : Nat])
  BY <1>3
<1>5. told' = [told EXCEPT ![c] = Append(told[c], m)] \/ told' = told
  BY <1>1, <1>2
<1> QED
  BY <1>4, <1>5 DEF ToldT

LEMMA ShapesSend == ASSUME TypeOK, NEW w, NEW n, NEW p \in Pubs, NEW li \in Seq(Entry), NEW i \in Nat, SendAt(w, n, p, li, i) PROVE Shapes'
<1>1. PICK e \in Entry : e = li[i]
  BY EntryIs DEF SendAt
<1>2. told' = IF conn[e.c].est THEN [told EXCEPT ![e.c] = Append(@, Message(p, e))] ELSE told
  BY <1>1 DEF SendAt
<1>3. ToldT'
  BY <1>2, ShapesIs, ToldMore DEF Shapes
<1>4. OnwardAt(w, n, Sending("send", p, li, i), p, li, i + 1) /\ UNCHANGED <<subscribers, queue, due, ended, past>>
  BY DEF SendAt
<1> QED
  BY <1>3, <1>4, ShapesOnward

\* The lists and what is due, without a connection.
LEMMA ShapesUn == ASSUME TypeOK, Lists, NEW c \in Conns
  PROVE Shapes /\ unSubscribe(c) \in [Workers -> [Topics -> Seq(Entry)]] /\ Undue(c) \in [Pubs -> SUBSET Entry]
BY ShapesIs, UnSubscribed, UndueShape DEF Shapes

LEMMA ShapesOff ==
  ASSUME TypeOK, Lists, NEW c \in Conns, Stacks', subscribers' = unSubscribe(c), due' = Undue(c), UNCHANGED <<pub, queue, told, ended, past>>
  PROVE Shapes'
<1>1. Shapes /\ SubsT' /\ DueT'
  BY ShapesUn DEF SubsT, DueT
<1> QED
  BY <1>1 DEF Shapes, PubT, QueueT, ToldT, EndedT, PastT

LEMMA ShapesDis ==
  ASSUME TypeOK, Lists, NEW c \in Conns, Stacks', subscribers' = Delisted(c), due' = Released(c), UNCHANGED <<pub, queue, told, ended, past>>
  PROVE Shapes'
<1>1. CASE c \in Users
  BY <1>1, ShapesOff DEF Delisted, Released
<1>2. CASE c \notin Users
  BY <1>2, ShapesEnd DEF Delisted, Released, history
<1> QED
  BY <1>1, <1>2

LEMMA ShapesPublish == ASSUME TypeOK, NEW t \in Threads, NEW p \in Pubs, PublishAt(t, p) PROVE Shapes'
<1>1. Shapes
  BY ShapesIs
<1>2. Stacks' /\ Create(t, p, subscribers, due)
  BY DEF PublishAt, Push
<1>3. PubT' /\ DueT' /\ PastT'
  BY <1>1, <1>2, CreateShape DEF Shapes, SubsT, DueT
<1> QED
  BY <1>1, <1>2, <1>3 DEF Shapes, SubsT, QueueT, ToldT, EndedT, PublishAt

LEMMA ShapesDisPublish ==
  ASSUME TypeOK, Lists, NEW t \in Threads, NEW n, NEW c \in Conns, NEW p \in Pubs, DisPublishAt(t, n, c, p)
  PROVE Shapes'
<1>1. Shapes /\ unSubscribe(c) \in [Workers -> [Topics -> Seq(Entry)]] /\ Undue(c) \in [Pubs -> SUBSET Entry]
  BY ShapesUn
<1>2. Stacks' /\ Create(t, p, unSubscribe(c), Undue(c))
  BY DEF DisPublishAt, Swap
<1>3. PubT' /\ DueT' /\ PastT'
  BY <1>1, <1>2, CreateShape DEF Shapes
<1>4. SubsT'
  BY <1>1 DEF DisPublishAt, SubsT
<1> QED
  BY <1>1, <1>2, <1>3, <1>4 DEF Shapes, QueueT, ToldT, EndedT, DisPublishAt

LEMMA ShapesSubscribe ==
  ASSUME TypeOK, NEW c \in Conns, NEW t \in Topics, NEW sid \in Sids, Subscribe(c, t, sid) PROVE Shapes'
<1>1. Shapes
  BY ShapesIs
<1>2. PICK w \in Workers : w = Home[c]
  BY PubSubAssumption
<1>3. PICK li \in Seq(Entry) : li = subscribers[w][t]
  BY <1>1 DEF Shapes, SubsT
<1>4. PICK e \in Entry : SubscribeAt(c, w, t, li, e)
  BY <1>2, <1>3, SubscribeIs
<1>5. subscribers' = [subscribers EXCEPT ![w][t] = Append(li, e)]
  BY <1>4 DEF SubscribeAt
<1>6. Append(li, e) \in Seq(Entry)
  OBVIOUS
<1>7. SubsT'
  BY <1>1, <1>5, <1>6 DEF Shapes, SubsT
<1> QED
  BY <1>1, <1>7 DEF Shapes, PubT, QueueT, Stacks, ToldT, DueT, EndedT, PastT, Subscribe, history

LEMMA ShapesNext == ASSUME TypeOK, Frames, Lists, [Next]_vars PROVE Shapes'
<1>1. \A w \in Workers : w \in Threads
  BY DEF Threads
<1>2. ASSUME NEW t \in Threads, Run(t) PROVE Shapes'
  <2>1. CASE Hand(t)
    BY <2>1, HandIs, ShapesHand
  <2>2. CASE Published(t)
    BY <2>2, PublishedIs, ShapesPublished
  <2>3. CASE Find(t)
    BY <2>3, FindIs, ShapesFind
  <2>4. CASE Send(t)
    BY <2>4, SendIs, ShapesSend
  <2>5. CASE SendFails(t)
    <3>1. PICK n \in Nat, p \in Pubs, i \in Nat, li \in Seq(Entry) : SendFailsAt(t, n, p, li, i)
      BY <2>5, SendFailsIs
    <3> QED
      BY <3>1, ShapesEnd DEF SendFailsAt, Swap
  <2>6. CASE Unref(t)
    BY <2>6, UnrefIs, ShapesUnref
  <2>7. CASE Recv(t)
    <3>1. PICK n \in Nat, c \in Conns : RecvAt(t, n, c)
      BY <2>7, RecvIs
    <3> QED
      BY <3>1, ShapesEnd DEF RecvAt, Swap
  <2>8. CASE Dis(t)
    <3>1. PICK n \in Nat, c \in Conns : DisAt(t, n, c)
      BY <2>8, DisIs
    <3> QED
      BY <3>1, ShapesDis DEF DisAt, Swap
  <2>9. CASE Del(t)
    <3>1. PICK n \in Nat, c \in Conns : DelAt(t, n, c)
      BY <2>9, DelIs
    <3> QED
      BY <3>1, ShapesEnd DEF DelAt, Swap
  <2>10. CASE \E p \in Pubs : DisPublish(t, p)
    BY <2>10, DisPublishIs, ShapesDisPublish
  <2>11. CASE \E d \in Conns : DisClose(t, d)
    <3>1. PICK n \in Nat, c \in Conns, d \in Conns : DisCloseAt(t, n, c, d)
      BY <2>11, DisCloseIs
    <3> QED
      BY <3>1, ShapesOff DEF DisCloseAt, Swap
  <2> QED
    BY <1>2, <2>1, <2>2, <2>3, <2>4, <2>5, <2>6, <2>7, <2>8, <2>9, <2>10, <2>11 DEF Run
<1>3. ASSUME NEW t \in Threads, NEW p \in Pubs, Publish(t, p) PROVE Shapes'
  BY <1>3, PublishIs, ShapesPublish
<1>4. ASSUME NEW w \in Workers, DoFuture(w) PROVE Shapes'
  BY <1>4, DoFutureIs, ShapesDoFuture
<1>5. ASSUME NEW c \in Conns, Hup(c) PROVE Shapes'
  BY <1>5, HupIs, ShapesEnd DEF HupAt, Push
<1>6. ASSUME NEW c \in Conns, UnSubscribe(c) PROVE Shapes'
  BY <1>6, TypeParts, StacksStill, ShapesOff DEF UnSubscribe
<1>7. ASSUME NEW c \in Conns, NEW t \in Topics, NEW sid \in Sids, Subscribe(c, t, sid) PROVE Shapes'
  BY <1>7, ShapesSubscribe
<1>8. CASE UNCHANGED vars
  BY <1>8, TypeParts, StacksStill, ShapesEnd DEF vars
<1>9. CASE Next
  BY <1>2, <1>3, <1>4, <1>5, <1>6, <1>7, <1>9 DEF Next
<1> QED
  BY <1>8, <1>9

LEMMA TypeInit == ASSUME Init PROVE TypeOK
<1>1. subscribers \in [Workers -> [Topics -> Seq(Entry)]] /\ queue \in [Workers -> Seq(Pubs)] /\ stack \in [Threads -> Seq(Frame)]
  BY DEF Init
<1>2. conn \in [Conns -> [life : {"live", "freed"}, est : BOOLEAN, rc : Nat, rf : BOOLEAN]]
  BY DEF Init
<1>3. pub \in [Pubs -> [life : {"unborn", "live", "freed"}, counter : 0 .. N]]
  <2>1. 0 \in 0 .. N
    BY PubSubAssumption
  <2> QED
    BY <2>1 DEF Init
<1>4. told \in [Conns -> Seq([p : Pubs, sid : Sids, topic : Topics, n : Nat])]
  BY DEF Init
<1>5. due \in [Pubs -> SUBSET Entry] /\ ended \in [Threads -> SUBSET Pubs] /\ past \in [Pubs -> SUBSET Pubs]
  BY DEF Init
<1>6. \A t \in Outsiders : DOMAIN stack[t] = {}
  BY DEF Init, Threads
<1> QED
  BY <1>1, <1>2, <1>3, <1>4, <1>5, <1>6 DEF TypeOK

-----------------------------------------------------------------------------
(* The invariant.                                                          *)

Core == TypeOK /\ Tied /\ Single /\ Counted

LEMMA CoreInit == ASSUME Init PROVE Core
BY TypeInit, TiedInit, SingleInit DEF Core

LEMMA CoreNext == ASSUME Core, [Next]_vars PROVE Core'
<1>1. TypeOK /\ Tied /\ Frames /\ Lists /\ Single /\ Counted
  BY DEF Core, Tied
<1>2. ConnShape' /\ Tied'
  BY <1>1, TiedNext
<1>3. Single' /\ Counted'
  BY <1>1, SingleNext
<1>4. Shapes'
  BY <1>1, ShapesNext
<1>5. TypeOK'
  BY <1>2, <1>3, <1>4, TypeThen
<1> QED
  BY <1>2, <1>3, <1>5 DEF Core

LEMMA CoreAlways == Safety => []Core
<1>1. Init => Core
  BY CoreInit
<1>2. Core /\ [Next]_vars => Core'
  BY CoreNext
<1> QED
  BY <1>1, <1>2, PTL DEF Safety

\* Every variable keeps its type; a counter never passes the number of workers,
\* and only a worker is in a lambda or at the end of a connection
\* (StmpNet::publishMsg, Fworker::evnRecv).
THEOREM TypeCorrect == Safety => []TypeOK
<1>1. Core => TypeOK
  BY DEF Core
<1> QED
  BY <1>1, CoreAlways, PTL

\* The counts of references are balanced, however lambdas and handlers are nested,
\* and a lost connection is deleted with its last reference (Actor::ref,
\* Actor::unRef, Actor::del).
THEOREM RefsAreBalanced == Safety => []RefsBalanced
<1>1. Core => RefsBalanced
  BY DEF Core, Tied, Balanced, RefsBalanced
<1> QED
  BY <1>1, CoreAlways, PTL

\* Whoever is owed a reference is not deleted.
LEMMA OwedLive == ASSUME TypeOK, Tied, NEW c \in Conns, NEW x \in Owed(c) PROVE conn[c].life = "live"
<1>1. IsFiniteSet(Owed(c)) /\ conn[c].rc = Cardinality(Owed(c)) /\ (conn[c].life = "freed" => conn[c].rc = 0)
  BY DEF Tied, Balanced
<1>2. conn[c].rc # 0
  BY <1>1, FS_EmptySet
<1>3. conn[c].life \in {"live", "freed"}
  BY DEF TypeOK
<1> QED
  BY <1>1, <1>2, <1>3

LEMMA FrameConns == ASSUME TypeOK, Tied, NEW t \in Threads, NEW k \in Nat, NEW f \in Frame, In(t, k, f), NEW c \in UsesConn(f)
  PROVE conn[c].life = "live"
<1>1. FrameOK(t, f) /\ Stacks
  BY TypeParts DEF Tied, Frames
<1>2. CASE f.op \in {"send", "unref"}
  <2>1. PICK li \in Seq(Entry), i \in Nat : f.li = li /\ f.i = i
    BY <1>2, FrameIs
  <2>2. i \in DOMAIN li /\ \A j \in DOMAIN li : Home[li[j].c] = t
    BY <1>1, <1>2, <2>1 DEF FrameOK
  <2>3. UsesConn(f) = {li[j].c : j \in i .. Len(li)}
    BY <1>2, <2>1 DEF UsesConn
  <2>4. PICK j \in i .. Len(li) : c = li[j].c
    BY <2>3
  <2>5. j \in DOMAIN li
    BY <2>2, <2>4
  <2>6. c \in Conns /\ Home[c] = t
    BY <2>2, <2>4, <2>5, EntryIs
  <2>7. j \in Refers(f, c)
    BY <1>2, <2>1, <2>4 DEF Refers
  <2>8. <<k, j>> \in Owed(c)
    BY <1>1, <2>6, <2>7, OwedIs
  <2> QED
    BY <2>6, <2>8, OwedLive
<1>3. CASE f.op \in {"dis", "del", "recv"}
  <2>1. c = f.c /\ c \in Conns /\ Home[c] = t
    BY <1>1, <1>3, FrameIs DEF UsesConn, FrameOK
  <2>2. CASE f.op = "recv"
    <3>1. 0 \in Refers(f, c)
      BY <2>1, <2>2 DEF Refers
    <3>2. <<k, 0>> \in Owed(c)
      BY <1>1, <2>1, <3>1, OwedIs
    <3> QED
      BY <2>1, <3>2, OwedLive
  <2>3. CASE f.op \in {"dis", "del"}
    <3>1. ~conn[c].rf
      BY <1>1, <2>1, <2>3 DEF FrameOK
    <3>2. conn[c].life # "freed"
      BY <2>1, <3>1 DEF Tied, Balanced
    <3> QED
      BY <2>1, <3>2 DEF TypeOK
  <2> QED
    BY <1>3, <2>2, <2>3
<1>4. CASE f.op \in {"publish", "find"}
  BY <1>4 DEF UsesConn
<1> QED
  BY <1>2, <1>3, <1>4, FrameIs

\* Whose lambda waits or is under way is not deleted.
LEMMA PendingLive == ASSUME TypeOK, Single, Counted, NEW w \in Workers, NEW p \in Pubs, Queued(w, p) \/ InLambda(w, p)
  PROVE pub[p].life = "live"
<1>1. pub[p].life # "unborn"
  BY DEF Single, Unborn
<1>2. w \in Pending(p)
  BY DEF Pending
<1>3. pub[p].life # "freed"
  BY <1>1, <1>2 DEF Counted
<1> QED
  BY <1>1, <1>3 DEF TypeOK

\* No handler and no lambda under way has a connection that is deleted, whoever is
\* lost in the middle of a publication, no list one whose user takes it off, and no
\* lambda that waits or is under way a message that is deleted (StmpNet::publishMsg,
\* StmpN2H::evnDis).  A connection without a user stays in the lists when it is
\* deleted (StmpN2H.cpp:32), and what a lambda does that finds it there is not
\* defined: no claim is made about that lambda.
THEOREM NoUseAfterFree == Safety => []NothingFreedUsed
<1>1. ASSUME Core PROVE NothingFreedUsed
  <2>1. TypeOK /\ Tied /\ Single /\ Counted /\ Stacks
    BY <1>1, TypeParts DEF Core
  <2>2. ASSUME NEW w \in Workers, NEW s \in Topics, NEW e \in ToSet(subscribers[w][s]), e.c \in Users PROVE conn[e.c].life = "live"
    <3>1. PICK li \in Seq(Entry) : li = subscribers[w][s]
      BY <2>1, TypeParts
    <3>2. PICK j \in DOMAIN li : e = li[j]
      BY <3>1 DEF ToSet
    <3>3. e.c \in Conns
      BY <3>2, EntryIs
    <3>4. Reachable(w, e)
      BY <2>1, <3>1, <3>2 DEF Tied, Lists
    <3>5. conn[e.c].life # "freed"
      BY <2>1, <2>2, <3>4, ReachableLive
    <3> QED
      BY <2>1, <3>3, <3>5 DEF TypeOK
  <2>3. ASSUME NEW t \in Threads, NEW f \in ToSet(stack[t])
        PROVE (\A c \in UsesConn(f) : conn[c].life = "live") /\ (\A p \in UsesPub(f) : pub[p].life = "live")
    <3>1. PICK s \in Seq(Frame) : s = stack[t]
      BY <2>1 DEF Stacks
    <3>2. PICK k \in DOMAIN s : f = s[k]
      BY <3>1 DEF ToSet
    <3>3. k \in Nat /\ f \in Frame /\ In(t, k, f)
      BY <3>1, <3>2 DEF In
    <3>4. \A c \in UsesConn(f) : conn[c].life = "live"
      BY <2>1, <3>3, FrameConns
    <3>5. ASSUME NEW p \in UsesPub(f) PROVE pub[p].life = "live"
      <4>1. f.op \in {"find", "send", "unref"} /\ p = f.p /\ p \in Pubs
        BY <3>3, <3>5, FrameIs DEF UsesPub
      <4>2. t \in Workers
        BY <2>1, <3>3, <4>1 DEF Tied, Frames, FrameOK
      <4>3. f \in LamFrames(p)
        BY <3>3, <4>1, LambdaIn
      <4>4. InLambda(t, p)
        BY <3>3, <4>3 DEF InLambda, Has
      <4> QED
        BY <2>1, <4>1, <4>2, <4>4, PendingLive
    <3> QED
      BY <3>4, <3>5
  <2>4. ASSUME NEW w \in Workers, NEW p \in ToSet(queue[w]) PROVE pub[p].life = "live"
    <3>1. PICK s \in Seq(Pubs) : s = queue[w]
      BY <2>1, TypeParts
    <3>2. PICK j \in DOMAIN s : p = s[j]
      BY <3>1 DEF ToSet
    <3>3. p \in Pubs /\ j \in 1 .. Len(s)
      BY <3>2
    <3>4. Queued(w, p)
      BY <3>1, <3>2, <3>3 DEF Queued, Contains
    <3> QED
      BY <2>1, <3>3, <3>4, PendingLive
  <2> QED
    BY <2>2, <2>3, <2>4 DEF NothingFreedUsed
<1> QED
  BY <1>1, CoreAlways, PTL

\* When nothing is under way, no message is left, and of the connections those
\* that are up (StmpNet::publishMsg counts, Actor::del deletes).
THEOREM NothingIsLeft == Safety => []NothingLeft
<1>1. ASSUME Core PROVE NothingLeft
  <2>1. TypeOK /\ Tied /\ Single /\ Counted /\ Stacks
    BY <1>1, TypeParts DEF Core
  <2> SUFFICES ASSUME \A t \in Threads : Idle(t), \A w \in Workers : queue[w] = <<>>
               PROVE (\A p \in Pubs : pub[p].life # "live") /\ (\A c \in Conns : conn[c].est \/ conn[c].life = "freed")
    BY DEF NothingLeft
  <2>2. \A t \in Threads : \A k, f : ~In(t, k, f)
    BY DEF Idle, In
  <2>3. ASSUME NEW p \in Pubs PROVE pub[p].life # "live"
    <3>1. ASSUME NEW w \in Workers PROVE ~Unhanded(w, p) /\ ~InLambda(w, p) /\ ~Queued(w, p)
      <4>1. ~Unhanded(w, p) /\ ~InLambda(w, p)
        BY <2>2 DEF Unhanded, InLambda, Has, Threads
      <4>2. ~Contains(<<>>, p)
        BY DEF Contains
      <4> QED
        BY <4>1, <4>2 DEF Queued
    <3>2. Pending(p) = {}
      BY <3>1 DEF Pending
    <3> QED
      BY <2>1, <3>2 DEF Counted
  <2>4. ASSUME NEW c \in Conns, ~conn[c].est PROVE conn[c].life = "freed"
    <3>1. Home[c] \in Threads
      BY PubSubAssumption DEF Threads
    <3>2. conn[c].rf
      BY <2>1, <2>2, <2>4, <3>1 DEF Tied, Ending
    <3>3. Owed(c) = {}
      BY <2>1, <2>2, <3>1, OwedIs
    <3>4. conn[c].rc = 0
      BY <2>1, <3>3, FS_EmptySet DEF Tied, Balanced
    <3> QED
      BY <2>1, <3>2, <3>4 DEF Tied, Balanced
  <2> QED
    BY <2>3, <2>4
<1> QED
  BY <1>1, CoreAlways, PTL

-----------------------------------------------------------------------------
(* The order of publications.                                              *)

Given(w, p) == Queued(w, p) \/ InLambda(w, p)

On1(t, p) == Has(t, PubFrames(p, N + 1))

\* What a step can make of a publication that has begun: it is given to a worker
\* that has not had it, in place when it is the publisher and else through the
\* queue, which the worker takes up, in nothing, from the front.
Flow(q) ==
  /\ pub'[q].life # "unborn"
  /\ \A t \in Threads : On1(t, q)' => On1(t, q)
  /\ \A w \in Workers :
       /\ Unhanded(w, q)' => Unhanded(w, q)
       /\ Queued(w, q)' => Queued(w, q) \/ (Unhanded(w, q) /\ ~On1(w, q))
       /\ InLambda(w, q)' => \/ InLambda(w, q)
                             \/ Unhanded(w, q) /\ On1(w, q)
                             \/ Queued(w, q) /\ q = Head(queue[w]) /\ \A P \in SUBSET Frame : ~Has(w, P)

LEMMA FlowSame == ASSUME NEW q \in Pubs, Alike(q), \A w \in Workers : Queued(w, q)' => Queued(w, q), pub'[q].life # "unborn" PROVE Flow(q)
<1>1. \A w \in Workers : (Unhanded(w, q)' <=> Unhanded(w, q)) /\ (InLambda(w, q)' <=> InLambda(w, q))
  BY AlikeIs
<1>2. \A t \in Threads : On1(t, q)' <=> On1(t, q)
  BY AlikeIs DEF On1
<1> QED
  BY <1>1, <1>2 DEF Flow

LEMMA FlowHands == ASSUME TypeOK, Single, Counted, NEW t \in Threads, NEW p \in Pubs, NEW i \in Workers, Hands(t, p, i),
                          NEW q \in Pubs, pub[q].life # "unborn"
  PROVE Flow(q)
<1>1. Onced /\ QueuesOnce /\ \A r \in Pubs : Token(r)
  BY TokenIs
<1>2. pub' = pub
  BY DEF Hands
<1>3. N + 1 \in 1 .. N + 1 /\ N + 1 # i /\ \A v \in Workers : v \in 1 .. N + 1 /\ v \in Threads
  BY PubSubAssumption DEF Workers, Threads
<1>4. Unhanded(i, p) /\ On1(t, p)
  <2>1. Has(t, PubFrames(p, i))
    BY DEF Hands
  <2> QED
    BY <1>3, <2>1, PubWithin DEF Unhanded, On1
<1>5. ~Queued(i, p)
  BY <1>1, <1>4 DEF Token, OneLam
<1>6. \A w \in Workers, r \in Pubs : Queued(w, r)' <=> Queued(w, r) \/ (i # t /\ w = i /\ r = p)
  <2>1. CASE i = t
    <3>1. queue' = queue
      BY <2>1 DEF Hands
    <3> QED
      BY <2>1, <3>1, SameQueue
  <2>2. CASE i # t
    <3>1. queue' = [queue EXCEPT ![i] = Append(@, p)]
      BY <2>2 DEF Hands
    <3> QED
      BY <1>1, <1>5, <2>2, <3>1, QueueMore
  <2> QED
    BY <2>1, <2>2
<1>7. CASE q # p
  <2>1. Alike(q)
    BY <1>7 DEF Hands
  <2> QED
    BY <1>2, <1>6, <1>7, <2>1, FlowSame
<1>8. CASE q = p
  <2>1. \A u \in Threads, w \in 1 .. N + 1 : w # i => (Has(u, PubFrames(p, w))' <=> Has(u, PubFrames(p, w)))
    BY DEF Hands
  <2>2. \A u \in Threads : On1(u, p)' <=> On1(u, p)
    BY <1>3, <2>1 DEF On1
  <2>3. ASSUME NEW w \in Workers PROVE Unhanded(w, p)' => Unhanded(w, p)
    <3>1. CASE w = i
      BY <1>4, <3>1
    <3>2. CASE w # i
      BY <1>3, <2>1, <3>2 DEF Unhanded
    <3> QED
      BY <3>1, <3>2
  <2>4. ASSUME NEW w \in Workers PROVE Queued(w, p)' => Queued(w, p) \/ (Unhanded(w, p) /\ ~On1(w, p))
    <3>1. ASSUME i # t, w = i, On1(w, p) PROVE FALSE
      <4>1. OnePub(p)
        BY <1>1 DEF Token
      <4> QED
        BY <1>3, <1>4, <3>1, <4>1 DEF OnePub, On1
    <3> QED
      BY <1>4, <1>6, <3>1
  <2>5. ASSUME NEW w \in Workers PROVE InLambda(w, p)' => InLambda(w, p) \/ (Unhanded(w, p) /\ On1(w, p))
    <3>1. Has(w, LamFrames(p))' <=> (i = t /\ w = t) \/ Has(w, LamFrames(p))
      BY <1>3 DEF Hands
    <3> QED
      BY <1>4, <3>1 DEF InLambda
  <2> QED
    BY <1>2, <1>8, <2>2, <2>3, <2>4, <2>5 DEF Flow
<1> QED
  BY <1>7, <1>8

LEMMA FlowTakes == ASSUME TypeOK, Single, Counted, NEW v \in Workers, NEW p \in Pubs, Takes(v, p), NEW q \in Pubs, pub[q].life # "unborn"
  PROVE Flow(q)
<1>1. QueuesOnce /\ pub' = pub
  BY TokenIs DEF Takes
<1>2. Queued(v, p) /\ \A w \in Workers, r \in Pubs : Queued(w, r)' <=> Queued(w, r) /\ ~(w = v /\ r = p)
  BY <1>1, QueueLess DEF Takes
<1>3. CASE q # p
  <2>1. Alike(q)
    BY <1>3 DEF Takes
  <2> QED
    BY <1>1, <1>2, <2>1, FlowSame
<1>4. CASE q = p
  <2>1. N + 1 \in 1 .. N + 1 /\ \A w \in Workers : w \in 1 .. N + 1 /\ w \in Threads
    BY PubSubAssumption DEF Workers, Threads
  <2>2. \A u \in Threads : /\ Has(u, LamFrames(p))' <=> u = v \/ Has(u, LamFrames(p))
                           /\ \A w \in 1 .. N + 1 : Has(u, PubFrames(p, w))' <=> Has(u, PubFrames(p, w))
    BY DEF Takes
  <2>3. \A u \in Threads : On1(u, p)' <=> On1(u, p)
    BY <2>1, <2>2 DEF On1
  <2>4. \A w \in Workers : Unhanded(w, p)' => Unhanded(w, p)
    BY <2>1, <2>2 DEF Unhanded
  <2>5. p = Head(queue[v]) /\ \A P \in SUBSET Frame : ~Has(v, P)
    BY DEF Takes
  <2>6. \A w \in Workers : InLambda(w, p)' => InLambda(w, p) \/ w = v
    BY <2>1, <2>2 DEF InLambda
  <2> QED
    BY <1>1, <1>2, <1>4, <2>3, <2>4, <2>5, <2>6 DEF Flow
<1> QED
  BY <1>3, <1>4

LEMMA FlowStops == ASSUME TypeOK, NEW t \in Threads, NEW p \in Pubs, Stops(t, p), NEW q \in Pubs, pub[q].life # "unborn"
  PROVE Flow(q)
<1>1. pub' = pub /\ \A w \in Workers, r \in Pubs : Queued(w, r)' <=> Queued(w, r)
  BY SameQueue DEF Stops
<1>2. CASE q # p
  <2>1. Alike(q)
    BY <1>2 DEF Stops
  <2> QED
    BY <1>1, <2>1, FlowSame
<1>3. CASE q = p
  <2>1. \A w \in Workers : w \in Threads
    BY DEF Threads
  <2>2. \A u \in Threads : /\ Has(u, LamFrames(p))' <=> Has(u, LamFrames(p))
                           /\ \A w \in Workers : Has(u, PubFrames(p, w))' <=> Has(u, PubFrames(p, w))
                           /\ On1(u, p)' => On1(u, p)
    BY DEF Stops, On1
  <2>3. \A w \in Workers : (Unhanded(w, p)' => Unhanded(w, p)) /\ (InLambda(w, p)' => InLambda(w, p))
    BY <2>1, <2>2 DEF Unhanded, InLambda
  <2> QED
    BY <1>1, <1>3, <2>2, <2>3 DEF Flow
<1> QED
  BY <1>2, <1>3

LEMMA FlowFinishes == ASSUME TypeOK, NEW v \in Workers, NEW p \in Pubs, Finishes(v, p), NEW q \in Pubs, pub[q].life # "unborn"
  PROVE Flow(q)
<1>1. (\A w \in Workers, r \in Pubs : Queued(w, r)' <=> Queued(w, r)) /\ Count(p)
  BY SameQueue DEF Finishes
<1>2. pub'[q].life # "unborn"
  BY <1>1 DEF Count, TypeOK
<1>3. CASE q # p
  <2>1. Alike(q)
    BY <1>3 DEF Finishes
  <2> QED
    BY <1>1, <1>2, <2>1, FlowSame
<1>4. CASE q = p
  <2>1. N + 1 \in 1 .. N + 1 /\ \A w \in Workers : w \in 1 .. N + 1 /\ w \in Threads
    BY PubSubAssumption DEF Workers, Threads
  <2>2. \A u \in Threads : /\ Has(u, LamFrames(p))' => Has(u, LamFrames(p))
                           /\ \A w \in 1 .. N + 1 : Has(u, PubFrames(p, w))' <=> Has(u, PubFrames(p, w))
    BY DEF Finishes
  <2>3. \A u \in Threads : On1(u, p)' <=> On1(u, p)
    BY <2>1, <2>2 DEF On1
  <2>4. \A w \in Workers : (Unhanded(w, p)' => Unhanded(w, p)) /\ (InLambda(w, p)' => InLambda(w, p))
    BY <2>1, <2>2 DEF Unhanded, InLambda
  <2> QED
    BY <1>1, <1>2, <1>4, <2>3, <2>4 DEF Flow
<1> QED
  BY <1>3, <1>4

LEMMA FlowNext == ASSUME TypeOK, Single, Counted, Effects, NEW q \in Pubs, pub[q].life # "unborn" PROVE Flow(q)
<1>1. CASE Quiet
  <2>1. Alike(q) /\ pub' = pub /\ UNCHANGED queue
    BY <1>1 DEF Quiet
  <2> QED
    BY <2>1, SameQueue, FlowSame
<1>2. ASSUME NEW t \in Threads, NEW p \in Pubs, Begins(t, p) PROVE Flow(q)
  <2>1. pub[p].life = "unborn" /\ pub' = [pub EXCEPT ![p] = [life |-> "live", counter |-> 0]] /\ UNCHANGED queue
    BY <1>2 DEF Begins
  <2>2. q # p
    BY <2>1
  <2>3. pub'[q] = pub[q] /\ Alike(q)
    BY <1>2, <2>1, <2>2, PubThen DEF Begins
  <2> QED
    BY <2>1, <2>3, SameQueue, FlowSame
<1> QED
  BY <1>1, <1>2, FlowHands, FlowTakes, FlowStops, FlowFinishes DEF Effects

-----------------------------------------------------------------------------
(* Every step, as what it does to the frames.                              *)

StackActs ==
  \/ \E t \in Threads, n \in Nat, p \in Pubs, i \in Workers : HandAt(t, n, p, i)
  \/ \E t \in Threads, n \in Nat, p \in Pubs : PublishedAt(t, n, p)
  \/ \E w \in Workers, p \in Pubs : DoFutureAt(w, p)
  \/ \E w \in Workers, n \in Nat, p \in Pubs, i \in Nat : \E li \in Seq(Entry) :
       FindAt(w, n, p, li) \/ SendAt(w, n, p, li, i) \/ SendFailsAt(w, n, p, li, i) \/ UnrefAt(w, n, p, li, i)

BeginActs ==
  \/ \E t \in Threads, p \in Pubs : PublishAt(t, p)
  \/ \E w \in Workers, n \in Nat, c \in Conns, p \in Pubs : Home[c] = w /\ DisPublishAt(w, n, c, p)

ConnActs ==
  \/ \E c \in Conns : HupAt(c)
  \/ \E w \in Workers, n \in Nat, c \in Conns : Home[c] = w /\ (RecvAt(w, n, c) \/ DelAt(w, n, c) \/ DisAt(w, n, c))
  \/ \E w \in Workers, n \in Nat, c \in Conns, d \in Conns : Home[c] = w /\ DisCloseAt(w, n, c, d)

ListActs ==
  \/ \E c \in Conns : UnSubscribe(c)
  \/ \E c \in Conns, t \in Topics, sid \in Sids : Subscribe(c, t, sid)
  \/ UNCHANGED vars

LEMMA NextIs == ASSUME TypeOK, Frames, [Next]_vars PROVE StackActs \/ BeginActs \/ ConnActs \/ ListActs
<1>1. ASSUME NEW t \in Threads, Run(t) PROVE StackActs \/ BeginActs \/ ConnActs
  <2>1. CASE Hand(t)
    BY <2>1, HandIs DEF StackActs
  <2>2. CASE Published(t)
    BY <2>2, PublishedIs DEF StackActs
  <2>3. CASE Find(t)
    <3>1. PICK n \in Nat, p \in Pubs : \E li \in Seq(Entry) : t \in Workers /\ FindAt(t, n, p, li)
      BY <2>3, FindIs
    <3>2. 0 \in Nat
      OBVIOUS
    <3> QED
      BY <3>1, <3>2 DEF StackActs
  <2>4. CASE Send(t)
    BY <2>4, SendIs DEF StackActs
  <2>5. CASE SendFails(t)
    BY <2>5, SendFailsIs DEF StackActs
  <2>6. CASE Unref(t)
    BY <2>6, UnrefIs DEF StackActs
  <2>7. CASE Recv(t)
    BY <2>7, RecvIs DEF ConnActs
  <2>8. CASE Dis(t)
    BY <2>8, DisIs DEF ConnActs
  <2>9. CASE Del(t)
    BY <2>9, DelIs DEF ConnActs
  <2>10. CASE \E p \in Pubs : DisPublish(t, p)
    BY <2>10, DisPublishIs DEF BeginActs
  <2>11. CASE \E d \in Conns : DisClose(t, d)
    BY <2>11, DisCloseIs DEF ConnActs
  <2> QED
    BY <1>1, <2>1, <2>2, <2>3, <2>4, <2>5, <2>6, <2>7, <2>8, <2>9, <2>10, <2>11 DEF Run
<1>2. ASSUME NEW t \in Threads, NEW p \in Pubs, Publish(t, p) PROVE BeginActs
  BY <1>2, PublishIs DEF BeginActs
<1>3. ASSUME NEW w \in Workers, DoFuture(w) PROVE StackActs
  BY <1>3, DoFutureIs DEF StackActs
<1>4. ASSUME NEW c \in Conns, Hup(c) PROVE ConnActs
  BY <1>4, HupIs DEF ConnActs
<1>5. CASE Next
  BY <1>1, <1>2, <1>3, <1>4, <1>5 DEF Next, ListActs
<1> QED
  BY <1>5 DEF ListActs

\* What a step adds to the history: a publication, its end, a message sent.
History ==
  \/ UNCHANGED <<told, ended, past>>
  \/ \E t \in Threads, p \in Pubs :
       Begins(t, p) /\ past' = [past EXCEPT ![p] = ended[t]] /\ UNCHANGED <<told, ended>>
  \/ \E t \in Threads, n \in Nat, p \in Pubs : PublishedAt(t, n, p) /\ Stops(t, p)
  \/ \E w \in Workers, n \in Nat, p \in Pubs, i \in Nat : \E li \in Seq(Entry) : SendAt(w, n, p, li, i)

LEMMA HistoryNext == ASSUME TypeOK, Frames, Single, [Next]_vars PROVE History
<1>1. CASE StackActs
  <2>1. ASSUME NEW t \in Threads, NEW n \in Nat, NEW p \in Pubs, NEW i \in Workers, HandAt(t, n, p, i) PROVE History
    BY <2>1 DEF HandAt, history, History
  <2>2. ASSUME NEW t \in Threads, NEW n \in Nat, NEW p \in Pubs, PublishedAt(t, n, p) PROVE History
    BY <2>2, StopsIs DEF History
  <2>3. ASSUME NEW w \in Workers, NEW p \in Pubs, DoFutureAt(w, p) PROVE History
    BY <2>3 DEF DoFutureAt, history, History
  <2>4. ASSUME NEW w \in Workers, NEW n \in Nat, NEW p \in Pubs, NEW i \in Nat, NEW li \in Seq(Entry),
               FindAt(w, n, p, li) \/ SendFailsAt(w, n, p, li, i) \/ UnrefAt(w, n, p, li, i)
        PROVE History
    BY <2>4 DEF FindAt, SendFailsAt, UnrefAt, history, History
  <2> QED
    BY <1>1, <2>1, <2>2, <2>3, <2>4 DEF StackActs, History
<1>2. CASE BeginActs
  <2>1. ASSUME NEW t \in Threads, NEW p \in Pubs, PublishAt(t, p) PROVE History
    BY <2>1, BeginsPublish DEF PublishAt, Create, History
  <2>2. ASSUME NEW w \in Workers, NEW n \in Nat, NEW c \in Conns, NEW p \in Pubs, Home[c] = w, DisPublishAt(w, n, c, p) PROVE History
    <3>1. Begins(w, p) /\ w \in Threads
      BY <2>2, BeginsDisPublish DEF Threads
    <3> QED
      BY <2>2, <3>1 DEF DisPublishAt, Create, History
  <2> QED
    BY <1>2, <2>1, <2>2 DEF BeginActs
<1>3. CASE ConnActs
  BY <1>3 DEF ConnActs, HupAt, RecvAt, DelAt, DisAt, DisCloseAt, history, History
<1>4. CASE ListActs
  BY <1>4 DEF ListActs, UnSubscribe, Subscribe, vars, history, History
<1> QED
  BY <1>1, <1>2, <1>3, <1>4, NextIs

-----------------------------------------------------------------------------
(* What a worker has yet to look for subscribers for.                      *)

Awaits(w, p) == Unhanded(w, p) \/ Queued(w, p) \/ Has(w, FindFrames(p))

\* Only two steps bring a lambda that has yet to look.
FindKept(w, q) == Has(w, FindFrames(q))' => Has(w, FindFrames(q))

LEMMA FindMoves ==
  ASSUME NEW t \in Threads, NEW n \in Nat, NEW A, Moves(t, n, A), NEW q \in Pubs, NEW w \in Workers,
         \A k \in Nat : \A f : <<k, f>> \in A => f.op # "find"
  PROVE FindKept(w, q)
<1>1. FindFrames(q) \in SUBSET Frame /\ w \in Threads
  BY DEF FindFrames, Threads
<1>2. ~Comes(A, FindFrames(q))
  BY DEF Comes, FindFrames
<1>3. w # t => (Has(w, FindFrames(q))' <=> Has(w, FindFrames(q)))
  BY <1>1, HasMoves
<1>4. w = t => (Has(w, FindFrames(q))' => Has(w, FindFrames(q)))
  <2>1. Has(t, FindFrames(q))' <=> Comes(A, FindFrames(q)) \/ \E k \in Nat, f \in FindFrames(q) : k # n /\ In(t, k, f)
    BY <1>1, HasMoves
  <2> QED
    BY <1>2, <2>1 DEF Has
<1> QED
  BY <1>3, <1>4 DEF FindKept

LEMMA FindStill == ASSUME UNCHANGED stack, NEW w \in Workers, NEW q \in Pubs PROVE FindKept(w, q)
BY DEF FindKept, Has, In

LEMMA FindOnward ==
  ASSUME NEW v \in Workers, NEW n \in Nat, NEW f, NEW p, NEW li, NEW i, OnwardAt(v, n, f, p, li, i),
         NEW w \in Workers, NEW q \in Pubs
  PROVE FindKept(w, q)
<1>1. v \in Threads
  BY DEF Threads
<1>2. PICK A : Moves(v, n, A) /\ (A = {} \/ A = {<<n, Sending("send", p, li, i)>>})
  BY DEF OnwardAt, Swap
<1>3. \A k \in Nat : \A g : <<k, g>> \in A => g.op # "find"
  BY <1>2 DEF Sending
<1> QED
  BY <1>1, <1>2, <1>3, FindMoves

LEMMA FindHand ==
  ASSUME NEW t \in Threads, NEW n \in Nat, NEW p \in Pubs, NEW i \in Workers, HandAt(t, n, p, i), NEW w \in Workers, NEW q \in Pubs
  PROVE FindKept(w, q) \/ Unhanded(w, q)
<1>1. PICK f \in Frame : f = Publishing(p, i)
  BY PublishingIs, PubSubAssumption DEF Workers
<1>2. PICK A : In(t, n, f) /\ Moves(t, n, A) /\ A \in SUBSET {<<n, Publishing(p, i + 1)>>, <<n + 1, Lambda(p)>>}
               /\ (i # t => A = {<<n, Publishing(p, i + 1)>>})
  BY <1>1 DEF HandAt, Swap
<1>3. CASE i # t
  <2>1. \A k \in Nat : \A g : <<k, g>> \in A => g.op # "find"
    BY <1>2, <1>3 DEF Publishing
  <2> QED
    BY <1>2, <2>1, FindMoves
<1>4. CASE w # t
  <2>1. FindFrames(q) \in SUBSET Frame /\ w \in Threads
    BY DEF FindFrames, Threads
  <2> QED
    BY <1>2, <1>4, <2>1, HasMoves DEF FindKept
<1>5. CASE i = t /\ w = t /\ q = p
  <2>1. f \in PubFrames(p, i)
    BY <1>1 DEF PubFrames, Publishing, Workers
  <2> QED
    BY <1>2, <1>5, <2>1 DEF Unhanded, Has
<1>6. CASE w = t /\ q # p
  <2>1. FindFrames(q) \in SUBSET Frame
    BY DEF FindFrames
  <2>2. ~Comes(A, FindFrames(q))
    <3> SUFFICES ASSUME NEW k \in Nat, NEW g \in FindFrames(q), <<k, g>> \in A PROVE FALSE
      BY DEF Comes
    <3>1. g = Publishing(p, i + 1) \/ g = Lambda(p)
      BY <1>2
    <3>2. g.op = "find" /\ g.p = q
      BY DEF FindFrames
    <3> QED
      BY <1>6, <3>1, <3>2 DEF Publishing, Lambda
  <2>3. Has(t, FindFrames(q))' <=> Comes(A, FindFrames(q)) \/ \E k \in Nat, g \in FindFrames(q) : k # n /\ In(t, k, g)
    BY <1>2, <2>1, HasMoves
  <2> QED
    BY <1>6, <2>2, <2>3 DEF FindKept, Has
<1> QED
  BY <1>3, <1>4, <1>5, <1>6

LEMMA FindTaken ==
  ASSUME TypeOK, QueuesOnce, NEW v \in Workers, NEW p \in Pubs, DoFutureAt(v, p), NEW w \in Workers, NEW q \in Pubs
  PROVE FindKept(w, q) \/ Queued(w, q)
<1>1. v \in Threads /\ w \in Threads /\ Moves(v, 1, {<<1, Lambda(p)>>}) /\ FindFrames(q) \in SUBSET Frame
  BY DEF Threads, DoFutureAt, Push, FindFrames
<1>2. Queued(v, p)
  BY QueueLess DEF DoFutureAt
<1>3. CASE w # v
  BY <1>1, <1>3, HasMoves DEF FindKept
<1>4. CASE w = v /\ q # p
  <2>1. ~Comes({<<1, Lambda(p)>>}, FindFrames(q))
    BY <1>4 DEF Comes, FindFrames, Lambda
  <2>2. Has(v, FindFrames(q))' <=> Comes({<<1, Lambda(p)>>}, FindFrames(q)) \/ \E k \in Nat, g \in FindFrames(q) : k # 1 /\ In(v, k, g)
    BY <1>1, HasMoves
  <2> QED
    BY <1>4, <2>1, <2>2 DEF FindKept, Has
<1> QED
  BY <1>2, <1>3, <1>4

LEMMA FindNext == ASSUME TypeOK, Frames, Single, [Next]_vars, NEW w \in Workers, NEW q \in Pubs
  PROVE FindKept(w, q) \/ Unhanded(w, q) \/ Queued(w, q)
<1>1. CASE StackActs
  <2>1. ASSUME NEW t \in Threads, NEW n \in Nat, NEW p \in Pubs, PublishedAt(t, n, p) PROVE FindKept(w, q)
    <3>1. Moves(t, n, {})
      BY <2>1 DEF PublishedAt, Swap
    <3> QED
      BY <3>1, FindMoves
  <2>2. ASSUME NEW v \in Workers, NEW n \in Nat, NEW p \in Pubs, NEW i \in Nat, NEW li \in Seq(Entry),
               FindAt(v, n, p, li) \/ SendAt(v, n, p, li, i) \/ UnrefAt(v, n, p, li, i)
        PROVE FindKept(w, q)
    BY <2>2, FindOnward DEF FindAt, SendAt, UnrefAt
  <2>3. ASSUME NEW v \in Workers, NEW n \in Nat, NEW p \in Pubs, NEW i \in Nat, NEW li \in Seq(Entry), SendFailsAt(v, n, p, li, i)
        PROVE FindKept(w, q)
    <3>1. PICK A : Moves(v, n, A) /\ A = {<<n, Sending("unref", p, li, i)>>, <<n + 1, On("dis", li[i].c)>>}
      BY <2>3 DEF SendFailsAt, Swap
    <3>2. v \in Threads /\ \A k \in Nat : \A g : <<k, g>> \in A => g.op # "find"
      BY <3>1 DEF Sending, On, Threads
    <3> QED
      BY <3>1, <3>2, FindMoves
  <2>4. QueuesOnce
    BY DEF Single, OneLambda, QueuesOnce
  <2> QED
    BY <1>1, <2>1, <2>2, <2>3, <2>4, FindHand, FindTaken DEF StackActs
<1>2. CASE BeginActs
  <2>1. ASSUME NEW t \in Threads, NEW p \in Pubs, PublishAt(t, p) PROVE FindKept(w, q)
    <3>1. Moves(t, 1, {<<1, Publishing(p, 1)>>})
      BY <2>1 DEF PublishAt, Push
    <3>2. \A k \in Nat : \A g : <<k, g>> \in {<<1, Publishing(p, 1)>>} => g.op # "find"
      BY DEF Publishing
    <3> QED
      BY <3>1, <3>2, FindMoves
  <2>2. ASSUME NEW v \in Workers, NEW n \in Nat, NEW c \in Conns, NEW p \in Pubs, DisPublishAt(v, n, c, p) PROVE FindKept(w, q)
    <3>1. PICK A : Moves(v, n, A) /\ A = {<<n, On("del", c)>>, <<n + 1, Publishing(p, 1)>>}
      BY <2>2 DEF DisPublishAt, Swap
    <3>2. v \in Threads /\ \A k \in Nat : \A g : <<k, g>> \in A => g.op # "find"
      BY <3>1 DEF Publishing, On, Threads
    <3> QED
      BY <3>1, <3>2, FindMoves
  <2> QED
    BY <1>2, <2>1, <2>2 DEF BeginActs
<1>3. CASE ConnActs
  <2>1. ASSUME NEW c \in Conns, HupAt(c) PROVE FindKept(w, q)
    <3>1. PICK A : Moves(Home[c], 1, A) /\ A = {<<1, On("recv", c)>>, <<2, On("dis", c)>>}
      BY <2>1 DEF HupAt, Push
    <3>2. Home[c] \in Threads /\ \A k \in Nat : \A g : <<k, g>> \in A => g.op # "find"
      BY <3>1, PubSubAssumption DEF On, Threads
    <3> QED
      BY <3>1, <3>2, FindMoves
  <2>2. ASSUME NEW v \in Workers, NEW n \in Nat, NEW c \in Conns, RecvAt(v, n, c) \/ DelAt(v, n, c) \/ DisAt(v, n, c) PROVE FindKept(w, q)
    <3>1. Moves(v, n, {}) /\ v \in Threads
      BY <2>2 DEF RecvAt, DelAt, DisAt, Swap, Threads
    <3> QED
      BY <3>1, FindMoves
  <2>3. ASSUME NEW v \in Workers, NEW n \in Nat, NEW c \in Conns, NEW d \in Conns, DisCloseAt(v, n, c, d) PROVE FindKept(w, q)
    <3>1. PICK A : Moves(v, n, A) /\ A = {<<n, On("del", c)>>, <<n + 1, On("dis", d)>>}
      BY <2>3 DEF DisCloseAt, Swap
    <3>2. v \in Threads /\ \A k \in Nat : \A g : <<k, g>> \in A => g.op # "find"
      BY <3>1 DEF On, Threads
    <3> QED
      BY <3>1, <3>2, FindMoves
  <2> QED
    BY <1>3, <2>1, <2>2, <2>3 DEF ConnActs
<1>4. CASE ListActs
  <2>1. UNCHANGED stack
    BY <1>4 DEF ListActs, UnSubscribe, Subscribe, vars
  <2> QED
    BY <2>1, FindStill
<1> QED
  BY <1>1, <1>2, <1>3, <1>4, NextIs

\* A publication that has begun is awaited by no worker that does not already.
LEMMA AwaitsLess == ASSUME TypeOK, Frames, Single, Counted, [Next]_vars, NEW w \in Workers, NEW q \in Pubs, pub[q].life # "unborn"
  PROVE Awaits(w, q)' => Awaits(w, q)
<1>1. Flow(q)
  BY EffectNext, FlowNext
<1> QED
  BY <1>1, FindNext DEF Flow, Awaits, FindKept

-----------------------------------------------------------------------------
(* What has been told of.                                                  *)

IsTold(c, p) == \E j \in DOMAIN told[c] : told[c][j].p = p

\* Who has been told of a publication is on a worker whose lambda sends, or is over.
ToldLate == \A c \in Conns, p \in Pubs : IsTold(c, p) => pub[p].life # "unborn" /\ ~Awaits(Home[c], p)

\* A lambda that sends has nothing more to look for.
LEMMA SendingNow ==
  ASSUME TypeOK, Tied, Single, NEW w \in Workers, NEW n \in Nat, NEW op \in {"send", "unref"}, NEW p \in Pubs,
         NEW li \in Seq(Entry), NEW i \in Nat, In(w, n, Sending(op, p, li, i))
  PROVE pub[p].life # "unborn" /\ InLambda(w, p) /\ ~Awaits(w, p)
<1>1. PICK g \in Frame : g = Sending(op, p, li, i) /\ g.op = op /\ g.p = p
  BY SendingIs
<1>2. g \in LamFrames(p) /\ In(w, n, g)
  BY <1>1 DEF LamFrames
<1>3. InLambda(w, p)
  BY <1>2 DEF InLambda, Has
<1>4. pub[p].life # "unborn" /\ ~Unhanded(w, p) /\ ~Queued(w, p)
  BY <1>3 DEF Single, Unborn, OneLambda
<1>5. ~Has(w, FindFrames(p))
  <2> SUFFICES ASSUME NEW k \in Nat, NEW f \in FindFrames(p), In(w, k, f) PROVE FALSE
    BY DEF Has
  <2>1. f \in LamFrames(p) /\ f.op = "find"
    BY DEF FindFrames, LamFrames
  <2>2. OnceOn(w, LamFrames(p))
    BY ClassIs DEF Single, Onces, Threads
  <2>3. k = n
    BY <1>2, <2>1, <2>2 DEF OnceOn
  <2>4. f = g
    BY <1>2, <2>3 DEF In
  <2> QED
    BY <1>1, <2>1, <2>4
<1> QED
  BY <1>3, <1>4, <1>5 DEF Awaits

\* What is sent to d: told[d] with a message behind it.
Tells(w, n, p, li, i) ==
  /\ In(w, n, Sending("send", p, li, i))
  /\ i \in DOMAIN li /\ li[i] \in Entry /\ li[i].c \in Conns /\ Home[li[i].c] = w
  /\ \A c \in Conns : \/ told'[c] = told[c]
                      \/ c = li[i].c /\ conn[c].est /\ told'[c] = Append(told[c], Message(p, li[i]))
  /\ conn[li[i].c].est => told'[li[i].c] = Append(told[li[i].c], Message(p, li[i]))

LEMMA SendTells ==
  ASSUME TypeOK, Tied, Single, NEW w \in Workers, NEW n \in Nat, NEW p \in Pubs, NEW i \in Nat, NEW li \in Seq(Entry), SendAt(w, n, p, li, i)
  PROVE Tells(w, n, p, li, i)
<1>1. i \in DOMAIN li /\ OnwardAt(w, n, Sending("send", p, li, i), p, li, i + 1)
      /\ told' = IF conn[li[i].c].est THEN [told EXCEPT ![li[i].c] = Append(@, Message(p, li[i]))] ELSE told
  BY DEF SendAt
<1>2. In(w, n, Sending("send", p, li, i))
  BY <1>1 DEF OnwardAt, Swap
<1>3. w \in Threads
  BY DEF Threads
<1>4. \A j \in DOMAIN li : li[j].c \in Conns /\ Home[li[j].c] = w
  <2>1. PICK op \in {"send", "unref"} : op = "send"
    OBVIOUS
  <2>2. In(w, n, Sending(op, p, li, i))
    BY <1>2, <2>1
  <2> QED
    BY <1>3, <2>2, SendingOK
<1>5. PICK d \in Conns : d = li[i].c
  BY <1>1, <1>4
<1>6. told' = IF conn[d].est THEN [told EXCEPT ![d] = Append(told[d], Message(p, li[i]))] ELSE told
  BY <1>1, <1>5
<1>7. told \in [Conns -> Seq([p : Pubs, sid : Sids, topic : Topics, n : Nat])]
  BY DEF TypeOK
<1> QED
  BY <1>1, <1>2, <1>4, <1>5, <1>6, <1>7, EntryIs DEF Tells

LEMMA MessageIs == ASSUME NEW p \in Pubs, NEW e \in Entry
  PROVE Message(p, e) \in [p : Pubs, sid : Sids, topic : Topics, n : Nat] /\ Message(p, e).p = p
BY DEF Message, Entry

LEMMA TellsNext == ASSUME TypeOK, Tied, Single, ToldLate, History, NEW c \in Conns, NEW q \in Pubs, IsTold(c, q)'
  PROVE /\ IsTold(c, q) \/ InLambda(Home[c], q)
        /\ pub[q].life # "unborn" /\ ~Awaits(Home[c], q)
<1>1. CASE UNCHANGED told
  <2>1. IsTold(c, q)
    BY <1>1 DEF IsTold
  <2> QED
    BY <2>1 DEF ToldLate
<1>2. ASSUME NEW w \in Workers, NEW n \in Nat, NEW p \in Pubs, NEW i \in Nat, NEW li \in Seq(Entry), SendAt(w, n, p, li, i),
             told'[c] # told[c]
      PROVE IsTold(c, q) \/ (InLambda(Home[c], q) /\ pub[q].life # "unborn" /\ ~Awaits(Home[c], q))
  <2>1. /\ In(w, n, Sending("send", p, li, i)) /\ li[i] \in Entry /\ Home[c] = w
        /\ told'[c] = Append(told[c], Message(p, li[i]))
    <3>1. /\ In(w, n, Sending("send", p, li, i)) /\ li[i] \in Entry /\ Home[li[i].c] = w
          /\ \A d \in Conns : told'[d] = told[d] \/ (d = li[i].c /\ told'[d] = Append(told[d], Message(p, li[i])))
      <4>1. Tells(w, n, p, li, i)
        BY <1>2, SendTells
      <4> QED
        BY <1>2, <4>1 DEF Tells
    <3> QED
      BY <1>2, <3>1
  <2>2. InLambda(w, p) /\ pub[p].life # "unborn" /\ ~Awaits(w, p)
    BY <2>1, SendingNow
  <2>3. told[c] \in Seq([p : Pubs, sid : Sids, topic : Topics, n : Nat])
    BY DEF TypeOK
  <2>4. PICK m \in [p : Pubs, sid : Sids, topic : Topics, n : Nat] : m = Message(p, li[i]) /\ m.p = p
    BY <2>1, MessageIs
  <2>5. PICK k \in Nat : Extends(told'[c], told[c], m, k)
    BY <2>1, <2>3, <2>4, AppendExtends
  <2>6. PICK j \in 1 .. k + 1 : told'[c][j].p = q
    BY <2>5 DEF IsTold, Extends
  <2>7. CASE j = k + 1
    BY <2>1, <2>2, <2>4, <2>5, <2>6, <2>7 DEF Extends
  <2>8. CASE j \in 1 .. k
    BY <2>5, <2>6, <2>8 DEF IsTold, Extends
  <2> QED
    BY <2>7, <2>8
<1>3. told'[c] = told[c] => IsTold(c, q)
  BY DEF IsTold
<1>4. CASE \E w \in Workers, n \in Nat, p \in Pubs, i \in Nat : \E li \in Seq(Entry) : SendAt(w, n, p, li, i)
  BY <1>2, <1>3, <1>4 DEF ToldLate
<1> QED
  BY <1>1, <1>4 DEF History, PublishedAt

LEMMA ToldLateNext == ASSUME TypeOK, Tied, Single, Counted, ToldLate, [Next]_vars PROVE ToldLate'
<1>1. Frames /\ Effects /\ History
  BY EffectNext, HistoryNext DEF Tied
<1> SUFFICES ASSUME NEW c \in Conns, NEW q \in Pubs, IsTold(c, q)' PROVE pub'[q].life # "unborn" /\ ~Awaits(Home[c], q)'
  BY DEF ToldLate
<1>2. pub[q].life # "unborn" /\ ~Awaits(Home[c], q)
  BY <1>1, TellsNext
<1>3. Flow(q) /\ Home[c] \in Workers
  BY <1>1, <1>2, FlowNext, PubSubAssumption
<1> QED
  BY <1>1, <1>2, <1>3, AwaitsLess DEF Flow

\* Of a publication that has not begun there is no history.
Fresh == \A p \in Pubs : pub[p].life = "unborn" =>
  past[p] = {} /\ (\A t \in Threads : p \notin ended[t]) /\ \A q \in Pubs : p \notin past[q]

LEMMA FreshNext == ASSUME TypeOK, Single, Counted, Fresh, Effects, History PROVE Fresh'
<1> SUFFICES ASSUME NEW p \in Pubs, pub'[p].life = "unborn"
             PROVE past'[p] = {} /\ (\A t \in Threads : p \notin ended'[t]) /\ \A q \in Pubs : p \notin past'[q]
  BY DEF Fresh
<1>1. pub[p].life = "unborn"
  BY FlowNext DEF Flow
<1>2. past[p] = {} /\ (\A t \in Threads : p \notin ended[t]) /\ \A q \in Pubs : p \notin past[q]
  BY <1>1 DEF Fresh
<1>3. ASSUME NEW t \in Threads, NEW q \in Pubs, Begins(t, q), past' = [past EXCEPT ![q] = ended[t]], UNCHANGED ended
      PROVE past'[p] = {} /\ (\A u \in Threads : p \notin ended'[u]) /\ \A r \in Pubs : p \notin past'[r]
  <2>1. pub' = [pub EXCEPT ![q] = [life |-> "live", counter |-> 0]]
    BY <1>3 DEF Begins
  <2>2. pub'[q] = [life |-> "live", counter |-> 0]
    BY <2>1, PubThen
  <2>3. past \in [Pubs -> SUBSET Pubs]
    BY DEF TypeOK
  <2> QED
    BY <1>2, <1>3, <2>2, <2>3
<1>4. ASSUME NEW t \in Threads, NEW n \in Nat, NEW q \in Pubs, PublishedAt(t, n, q), Stops(t, q)
      PROVE past'[p] = {} /\ (\A u \in Threads : p \notin ended'[u]) /\ \A r \in Pubs : p \notin past'[r]
  <2>1. past' = past /\ ended' = [ended EXCEPT ![t] = @ \cup {q}]
    BY <1>4 DEF PublishedAt
  <2>2. Publishes(q)
    BY <1>4 DEF Stops, Publishes
  <2>3. q # p
    BY <1>1, <2>2 DEF Single, Unborn
  <2>4. ended \in [Threads -> SUBSET Pubs]
    BY DEF TypeOK
  <2> QED
    BY <1>2, <2>1, <2>3, <2>4
<1>5. CASE UNCHANGED <<ended, past>>
  BY <1>2, <1>5
<1> QED
  BY <1>3, <1>4, <1>5 DEF History, SendAt

\* The lambda that a publisher runs in place is deeper than its publishMsg.
Deeper(t, p) == \A k, l \in Nat, f \in PubFrames(p, N + 1), g \in LamFrames(p) : In(t, k, f) /\ In(t, l, g) => k < l

Inside == \A t \in Workers, p \in Pubs : Deeper(t, p) /\ (On1(t, p) => ~Queued(t, p))

LEMMA DeeperElse == ASSUME NEW t \in Threads, NEW n \in Nat, NEW A, Moves(t, n, A), NEW u \in Threads, u # t, NEW p \in Pubs, Deeper(u, p)
  PROVE Deeper(u, p)'
<1>1. \A k \in Nat, f \in Frame : In(u, k, f)' <=> In(u, k, f)
  BY DEF Moves
<1>2. PubFrames(p, N + 1) \in SUBSET Frame /\ LamFrames(p) \in SUBSET Frame
  BY DEF PubFrames, LamFrames
<1> QED
  BY <1>1, <1>2 DEF Deeper

\* What comes for f keeps the order: a lambda comes no higher than f, and deeper
\* than f when that was in publishMsg; publishMsg comes in its own place, or
\* where there is no lambda.
LEMMA DeeperSwap ==
  ASSUME Stacks, NEW t \in Threads, NEW n \in Nat, NEW f \in Frame, NEW A, Swap(t, n, f, A), NEW p \in Pubs, Deeper(t, p),
         \A l \in Nat, g \in LamFrames(p) : <<l, g>> \in A => l >= n /\ (f \in PubFrames(p, N + 1) => l > n),
         \A k \in Nat, g \in PubFrames(p, N + 1) : <<k, g>> \in A =>
           (k = n /\ f \in PubFrames(p, N + 1)) \/ (~Has(t, LamFrames(p)) /\ ~Comes(A, LamFrames(p)))
  PROVE Deeper(t, p)'
<1>1. In(t, n, f) /\ Topmost(t, n) /\ Moves(t, n, A)
  BY DEF Swap
<1>2. PubFrames(p, N + 1) \in SUBSET Frame /\ LamFrames(p) \in SUBSET Frame
  BY DEF PubFrames, LamFrames
<1>3. \A k \in Nat, g \in Frame : In(t, k, g)' <=> (In(t, k, g) /\ k # n) \/ <<k, g>> \in A
  BY <1>1 DEF Moves
<1> SUFFICES ASSUME NEW k \in Nat, NEW l \in Nat, NEW x \in PubFrames(p, N + 1), NEW y \in LamFrames(p), In(t, k, x)', In(t, l, y)'
             PROVE k < l
  BY DEF Deeper
<1>4. CASE <<k, x>> \notin A
  <2>1. In(t, k, x) /\ k # n
    BY <1>2, <1>3, <1>4
  <2>2. k < n
    BY <1>1, <1>2, <2>1 DEF Topmost
  <2>3. CASE <<l, y>> \in A
    BY <2>2, <2>3
  <2>4. CASE <<l, y>> \notin A
    BY <1>2, <1>3, <2>1, <2>4 DEF Deeper
  <2> QED
    BY <2>3, <2>4
<1>5. CASE <<k, x>> \in A
  <2>1. CASE k = n /\ f \in PubFrames(p, N + 1)
    <3>1. CASE <<l, y>> \in A
      BY <2>1, <3>1
    <3>2. CASE <<l, y>> \notin A
      <4>1. In(t, l, y)
        BY <1>2, <1>3, <3>2
      <4>2. n < l
        BY <1>1, <2>1, <4>1 DEF Deeper
      <4> QED
        BY <2>1, <4>2
    <3> QED
      BY <3>1, <3>2
  <2>2. CASE ~Has(t, LamFrames(p)) /\ ~Comes(A, LamFrames(p))
    <3>1. ~In(t, l, y) /\ <<l, y>> \notin A
      BY <2>2 DEF Has, Comes
    <3> QED
      BY <1>2, <1>3, <3>1
  <2> QED
    BY <1>5, <2>1, <2>2
<1> QED
  BY <1>4, <1>5

LEMMA DeeperPush ==
  ASSUME Stacks, NEW t \in Threads, NEW A, Push(t, A), NEW p \in Pubs, ~Comes(A, LamFrames(p)) \/ ~Comes(A, PubFrames(p, N + 1))
  PROVE Deeper(t, p)'
<1>1. PubFrames(p, N + 1) \in SUBSET Frame /\ LamFrames(p) \in SUBSET Frame
  BY DEF PubFrames, LamFrames
<1>2. (Has(t, LamFrames(p))' <=> Comes(A, LamFrames(p))) /\ (Has(t, PubFrames(p, N + 1))' <=> Comes(A, PubFrames(p, N + 1)))
  BY <1>1, HasPush
<1> QED
  BY <1>2 DEF Deeper, Has

LEMMA DeeperStill == ASSUME UNCHANGED stack, NEW t \in Threads, NEW p \in Pubs, Deeper(t, p) PROVE Deeper(t, p)'
BY DEF Deeper, In

\* One lambda in the place of another, or of nothing of a publication; nothing of a
\* publication in the place of anything.
LEMMA DeeperOnward ==
  ASSUME Stacks, NEW t \in Threads, NEW n \in Nat, NEW f \in Frame, f.op \in {"find", "send", "unref"}, NEW g \in Frame, g.op # "publish",
         NEW A, A = {} \/ A = {<<n, g>>}, Swap(t, n, f, A), NEW p \in Pubs, Deeper(t, p)
  PROVE Deeper(t, p)'
<1>1. f \notin PubFrames(p, N + 1)
  BY DEF PubFrames
<1>2. \A l \in Nat, x \in LamFrames(p) : <<l, x>> \in A => l >= n
  OBVIOUS
<1>3. \A k \in Nat, x \in PubFrames(p, N + 1) : <<k, x>> \notin A
  BY DEF PubFrames
<1> QED
  BY <1>1, <1>2, <1>3, DeeperSwap

LEMMA DeeperGone ==
  ASSUME Stacks, NEW t \in Threads, NEW n \in Nat, NEW f \in Frame, Swap(t, n, f, {}), NEW p \in Pubs, Deeper(t, p)
  PROVE Deeper(t, p)'
BY DeeperSwap

LEMMA DeeperTwo ==
  ASSUME Stacks, NEW t \in Threads, NEW n \in Nat, NEW f \in Frame, f.op # "publish", NEW g \in Frame, g.op # "publish",
         NEW h \in Frame, h.op \in {"dis", "del"}, Swap(t, n, f, {<<n, g>>, <<n + 1, h>>}), NEW p \in Pubs, Deeper(t, p)
  PROVE Deeper(t, p)'
<1> DEFINE A == {<<n, g>>, <<n + 1, h>>}
<1>1. f \notin PubFrames(p, N + 1)
  BY DEF PubFrames
<1>2. \A l \in Nat, x \in LamFrames(p) : <<l, x>> \in A => l >= n
  OBVIOUS
<1>3. \A k \in Nat, x \in PubFrames(p, N + 1) : <<k, x>> \notin A
  BY DEF PubFrames
<1>4. Swap(t, n, f, A)
  OBVIOUS
<1> HIDE DEF A
<1> QED
  BY <1>1, <1>2, <1>3, <1>4, DeeperSwap

LEMMA DeeperHand ==
  ASSUME TypeOK, Single, NEW t \in Threads, NEW n \in Nat, NEW q \in Pubs, NEW i \in Workers, HandAt(t, n, q, i), NEW p \in Pubs, Deeper(t, p)
  PROVE Deeper(t, p)'
<1>1. Stacks /\ i \in Nat /\ i \in 1 .. N + 1 /\ i + 1 \in 1 .. N + 1
  BY TypeParts, PubSubAssumption DEF Workers
<1>2. PICK f \in Frame : f = Publishing(q, i)
  BY <1>1, PublishingIs
<1>3. PICK g : g = Publishing(q, i + 1)
  OBVIOUS
<1>4. PICK l : l = Lambda(q)
  OBVIOUS
<1>5. g.op = "publish" /\ g.p = q /\ l.op = "find" /\ l.p = q
  BY <1>3, <1>4 DEF Publishing, Lambda
<1>6. f \in PubFrames(p, N + 1) <=> q = p
  BY <1>1, <1>2, PublishingIn
<1>7. PICK A : Swap(t, n, f, A) /\ (A = {<<n, g>>, <<n + 1, l>>} \/ A = {<<n, g>>})
  BY <1>2, <1>3, <1>4 DEF HandAt
<1>8. ASSUME NEW k \in Nat, NEW x \in LamFrames(p), <<k, x>> \in A PROVE k > n
  <2>1. x.op # "publish"
    BY DEF LamFrames
  <2> QED
    BY <1>5, <1>7, <1>8, <2>1
<1>9. ASSUME NEW k \in Nat, NEW x \in PubFrames(p, N + 1), <<k, x>> \in A PROVE k = n /\ q = p
  <2>1. x.op = "publish" /\ x.p = p
    BY DEF PubFrames
  <2> QED
    BY <1>5, <1>7, <1>9, <2>1
<1>10. \A k \in Nat, x \in LamFrames(p) : <<k, x>> \in A => k >= n /\ k > n
  BY <1>8
<1>11. \A k \in Nat, x \in PubFrames(p, N + 1) : <<k, x>> \in A => k = n /\ f \in PubFrames(p, N + 1)
  BY <1>6, <1>9
<1> QED
  BY <1>1, <1>7, <1>10, <1>11, DeeperSwap

\* A publication that begins has no lambda.
LEMMA DeeperDisPublish ==
  ASSUME TypeOK, Single, NEW t \in Threads, t \in Workers, NEW n \in Nat, NEW c \in Conns, NEW q \in Pubs, DisPublishAt(t, n, c, q),
         NEW p \in Pubs, Deeper(t, p)
  PROVE Deeper(t, p)'
<1>1. Stacks
  BY TypeParts
<1>2. PICK f \in Frame : f = On("dis", c) /\ f.op = "dis"
  BY OnIs
<1>3. PICK g \in Frame : g = On("del", c) /\ g.op = "del"
  BY OnIs
<1>4. PICK h \in Frame : h = Publishing(q, 1) /\ h.op = "publish" /\ h.p = q
  BY PublishingIs, PubSubAssumption
<1>5. PICK A : Swap(t, n, f, A) /\ A = {<<n, g>>, <<n + 1, h>>}
  BY <1>2, <1>3, <1>4 DEF DisPublishAt
<1>6. ~InLambda(t, q)
  BY DEF DisPublishAt, Create, Single, Unborn
<1>7. f \notin PubFrames(p, N + 1)
  BY <1>2 DEF PubFrames
<1>8. \A k \in Nat, x \in LamFrames(p) : <<k, x>> \notin A
  BY <1>3, <1>4, <1>5 DEF LamFrames
<1>9. ASSUME NEW k \in Nat, NEW x \in PubFrames(p, N + 1), <<k, x>> \in A PROVE ~Has(t, LamFrames(p)) /\ ~Comes(A, LamFrames(p))
  <2>1. x.op = "publish" /\ x.p = p
    BY DEF PubFrames
  <2>2. p = q
    BY <1>3, <1>4, <1>5, <1>9, <2>1
  <2> QED
    BY <1>6, <1>8, <2>2 DEF InLambda, Comes
<1>10. \A l \in Nat, x \in LamFrames(p) : <<l, x>> \in A => l >= n /\ (f \in PubFrames(p, N + 1) => l > n)
  BY <1>8
<1>11. \A k \in Nat, x \in PubFrames(p, N + 1) : <<k, x>> \in A =>
         (k = n /\ f \in PubFrames(p, N + 1)) \/ (~Has(t, LamFrames(p)) /\ ~Comes(A, LamFrames(p)))
  BY <1>9
<1>12. Swap(t, n, f, A)
  BY <1>5
<1> QED
  BY <1>1, <1>10, <1>11, <1>12, DeeperSwap, Zenon

LEMMA DeeperNext == ASSUME TypeOK, Frames, Single, [Next]_vars, NEW u \in Threads, NEW p \in Pubs, Deeper(u, p) PROVE Deeper(u, p)'
<1>1. Stacks /\ \A w \in Workers : w \in Threads
  BY TypeParts DEF Threads
<1>2. ASSUME NEW t \in Threads, NEW n \in Nat, NEW A, Moves(t, n, A), Deeper(t, p) => Deeper(t, p)' PROVE Deeper(u, p)'
  BY <1>2, DeeperElse
<1>3. CASE StackActs
  <2>1. ASSUME NEW t \in Threads, NEW n \in Nat, NEW q \in Pubs, NEW i \in Workers, HandAt(t, n, q, i) PROVE Deeper(u, p)'
    <3>1. PICK A : Moves(t, n, A)
      BY <2>1 DEF HandAt, Swap
    <3> QED
      BY <1>2, <2>1, <3>1, DeeperHand
  <2>2. ASSUME NEW t \in Threads, NEW n \in Nat, NEW q \in Pubs, PublishedAt(t, n, q) PROVE Deeper(u, p)'
    <3>1. PICK f : f = Publishing(q, N + 1) /\ Swap(t, n, f, {})
      BY <2>2 DEF PublishedAt
    <3>2. Moves(t, n, {}) /\ f \in Frame
      BY <3>1 DEF Swap
    <3> QED
      BY <1>1, <1>2, <3>1, <3>2, DeeperGone
  <2>3. ASSUME NEW w \in Workers, NEW q \in Pubs, DoFutureAt(w, q) PROVE Deeper(u, p)'
    <3>1. PICK A : Push(w, A) /\ A = {<<1, Lambda(q)>>}
      BY <2>3 DEF DoFutureAt
    <3>2. ~Comes(A, PubFrames(p, N + 1))
      BY <3>1 DEF Comes, PubFrames, Lambda
    <3>3. Moves(w, 1, A)
      BY <3>1 DEF Push
    <3> QED
      BY <1>1, <1>2, <3>1, <3>2, <3>3, DeeperPush
  <2>4. ASSUME NEW w \in Workers, NEW n \in Nat, NEW q \in Pubs, NEW i \in Nat, NEW li \in Seq(Entry), NEW f \in Frame,
               f.op \in {"find", "send", "unref"}, OnwardAt(w, n, f, q, li, i)
        PROVE Deeper(u, p)'
    <3>1. PICK g \in Frame : g = Sending("send", q, li, i) /\ g.op = "send"
      BY SendingIs
    <3>2. PICK A : Swap(w, n, f, A) /\ (A = {} \/ A = {<<n, g>>})
      BY <2>4, <3>1 DEF OnwardAt
    <3>3. Moves(w, n, A)
      BY <3>2 DEF Swap
    <3> QED
      BY <1>1, <1>2, <2>4, <3>1, <3>2, <3>3, DeeperOnward
  <2>5. ASSUME NEW w \in Workers, NEW n \in Nat, NEW q \in Pubs, NEW i \in Nat, NEW li \in Seq(Entry),
               FindAt(w, n, q, li) \/ SendAt(w, n, q, li, i) \/ UnrefAt(w, n, q, li, i)
        PROVE Deeper(u, p)'
    <3>1. i + 1 \in Nat /\ 1 \in Nat
      OBVIOUS
    <3>2. CASE FindAt(w, n, q, li)
      <4>1. PICK f \in Frame : f = Lambda(q) /\ f.op = "find"
        BY LambdaIs
      <4> QED
        BY <2>4, <3>1, <3>2, <4>1 DEF FindAt
    <3>3. CASE SendAt(w, n, q, li, i)
      <4>1. PICK f \in Frame : f = Sending("send", q, li, i) /\ f.op = "send"
        BY SendingIs
      <4> QED
        BY <2>4, <3>1, <3>3, <4>1 DEF SendAt
    <3>4. CASE UnrefAt(w, n, q, li, i)
      <4>1. PICK f \in Frame : f = Sending("unref", q, li, i) /\ f.op = "unref"
        BY SendingIs
      <4> QED
        BY <2>4, <3>1, <3>4, <4>1 DEF UnrefAt
    <3> QED
      BY <2>5, <3>2, <3>3, <3>4
  <2>6. ASSUME NEW w \in Workers, NEW n \in Nat, NEW q \in Pubs, NEW i \in Nat, NEW li \in Seq(Entry), SendFailsAt(w, n, q, li, i)
        PROVE Deeper(u, p)'
    <3>1. PICK f \in Frame, g \in Frame : f = Sending("send", q, li, i) /\ f.op = "send" /\ g = Sending("unref", q, li, i) /\ g.op = "unref"
      BY SendingIs
    <3>2. li[i].c \in Conns
      BY <2>6, EntryIs DEF SendFailsAt
    <3>3. PICK h \in Frame : h = On("dis", li[i].c) /\ h.op = "dis"
      BY <3>2, OnIs
    <3>4. Swap(w, n, f, {<<n, g>>, <<n + 1, h>>})
      BY <2>6, <3>1, <3>3 DEF SendFailsAt
    <3>5. PICK A : Moves(w, n, A)
      BY <3>4 DEF Swap
    <3> QED
      BY <1>1, <1>2, <3>1, <3>3, <3>4, <3>5, DeeperTwo
  <2> QED
    BY <1>3, <2>1, <2>2, <2>3, <2>5, <2>6 DEF StackActs
<1>4. CASE BeginActs
  <2>1. ASSUME NEW t \in Threads, NEW q \in Pubs, PublishAt(t, q) PROVE Deeper(u, p)'
    <3>1. PICK A : Push(t, A) /\ A = {<<1, Publishing(q, 1)>>}
      BY <2>1 DEF PublishAt
    <3>2. ~Comes(A, LamFrames(p))
      BY <3>1 DEF Comes, LamFrames, Publishing
    <3>3. Moves(t, 1, A)
      BY <3>1 DEF Push
    <3> QED
      BY <1>1, <1>2, <3>1, <3>2, <3>3, DeeperPush
  <2>2. ASSUME NEW w \in Workers, NEW n \in Nat, NEW c \in Conns, NEW q \in Pubs, DisPublishAt(w, n, c, q) PROVE Deeper(u, p)'
    <3>1. PICK A : Moves(w, n, A)
      BY <2>2 DEF DisPublishAt, Swap
    <3> QED
      BY <1>1, <1>2, <2>2, <3>1, DeeperDisPublish
  <2> QED
    BY <1>4, <2>1, <2>2 DEF BeginActs
<1>5. CASE ConnActs
  <2>1. ASSUME NEW c \in Conns, HupAt(c) PROVE Deeper(u, p)'
    <3>1. PICK A : Push(Home[c], A) /\ A = {<<1, On("recv", c)>>, <<2, On("dis", c)>>}
      BY <2>1 DEF HupAt
    <3>2. ~Comes(A, LamFrames(p)) /\ Home[c] \in Threads
      BY <1>1, <3>1, PubSubAssumption DEF Comes, LamFrames, On
    <3>3. Moves(Home[c], 1, A)
      BY <3>1 DEF Push
    <3> QED
      BY <1>1, <1>2, <3>1, <3>2, <3>3, DeeperPush
  <2>2. ASSUME NEW w \in Workers, NEW n \in Nat, NEW c \in Conns, RecvAt(w, n, c) \/ DelAt(w, n, c) \/ DisAt(w, n, c) PROVE Deeper(u, p)'
    <3>1. PICK f : Swap(w, n, f, {})
      BY <2>2 DEF RecvAt, DelAt, DisAt
    <3>2. Moves(w, n, {}) /\ f \in Frame
      BY <3>1 DEF Swap
    <3> QED
      BY <1>1, <1>2, <3>1, <3>2, DeeperGone
  <2>3. ASSUME NEW w \in Workers, NEW n \in Nat, NEW c \in Conns, NEW d \in Conns, DisCloseAt(w, n, c, d) PROVE Deeper(u, p)'
    <3>1. PICK f \in Frame, g \in Frame, h \in Frame :
            f = On("dis", c) /\ f.op = "dis" /\ g = On("del", c) /\ g.op = "del" /\ h = On("dis", d) /\ h.op = "dis"
      BY OnIs
    <3>2. Swap(w, n, f, {<<n, g>>, <<n + 1, h>>})
      BY <2>3, <3>1 DEF DisCloseAt
    <3>3. PICK A : Moves(w, n, A)
      BY <3>2 DEF Swap
    <3> QED
      BY <1>1, <1>2, <3>1, <3>2, <3>3, DeeperTwo
  <2> QED
    BY <1>5, <2>1, <2>2, <2>3 DEF ConnActs
<1>6. CASE ListActs
  <2>1. UNCHANGED stack
    BY <1>6 DEF ListActs, UnSubscribe, Subscribe, vars
  <2> QED
    BY <2>1, DeeperStill
<1> QED
  BY <1>3, <1>4, <1>5, <1>6, NextIs

LEMMA UnbornStill == ASSUME TypeOK, Single, Counted, Effects, NEW p \in Pubs, pub[p].life = "unborn", NEW w \in Workers
  PROVE ~Queued(w, p)' /\ ~InLambda(w, p)'
<1>1. QueuesOnce /\ ~Publishes(p) /\ ~Queued(w, p) /\ ~InLambda(w, p)
  BY TokenIs DEF Single, Unborn
<1>2. ASSUME Alike(p) PROVE ~InLambda(w, p)'
  BY <1>1, <1>2, AlikeIs
<1>3. CASE Quiet
  BY <1>1, <1>2, <1>3, SameQueue DEF Quiet
<1>4. ASSUME NEW t \in Threads, NEW q \in Pubs, Begins(t, q) PROVE ~Queued(w, p)' /\ ~InLambda(w, p)'
  <2>1. ~Queued(w, p)'
    BY <1>1, <1>4, SameQueue DEF Begins
  <2>2. \A u \in Threads : Has(u, LamFrames(q))' <=> Has(u, LamFrames(q))
    BY <1>4 DEF Begins
  <2>3. ~InLambda(w, q) => ~InLambda(w, q)'
    BY <2>2 DEF InLambda, Threads
  <2> QED
    BY <1>1, <1>2, <1>4, <2>1, <2>3 DEF Begins
<1>5. ASSUME NEW t \in Threads, NEW q \in Pubs, Stops(t, q) PROVE ~Queued(w, p)' /\ ~InLambda(w, p)'
  <2>1. q # p
    BY <1>1, <1>5 DEF Stops, Publishes
  <2> QED
    BY <1>1, <1>2, <1>5, <2>1, SameQueue DEF Stops
<1>6. ASSUME NEW t \in Threads, NEW q \in Pubs, NEW i \in Workers, Hands(t, q, i) PROVE ~Queued(w, p)' /\ ~InLambda(w, p)'
  <2>1. Has(t, PubFrames(q, i)) /\ i \in 1 .. N + 1
    BY <1>6, PubSubAssumption DEF Hands, Workers
  <2>2. Unhanded(i, q) /\ Publishes(q)
    BY <2>1, PubWithin DEF Unhanded, Publishes
  <2>3. q # p /\ ~Queued(i, q)
    BY <1>1, <2>2 DEF Single, OneLambda
  <2>4. CASE i = t
    BY <1>1, <1>2, <1>6, <2>3, <2>4, SameQueue DEF Hands
  <2>5. CASE i # t
    <3>1. queue' = [queue EXCEPT ![i] = Append(@, q)]
      BY <1>6, <2>5 DEF Hands
    <3>2. ~Queued(w, p)'
      BY <1>1, <2>3, <3>1, QueueMore
    <3> QED
      BY <1>2, <1>6, <2>3, <3>2 DEF Hands
  <2> QED
    BY <2>4, <2>5
<1>7. ASSUME NEW v \in Workers, NEW q \in Pubs, Takes(v, q) PROVE ~Queued(w, p)' /\ ~InLambda(w, p)'
  <2>1. Queued(v, q) /\ \A u \in Workers, r \in Pubs : Queued(u, r)' <=> Queued(u, r) /\ ~(u = v /\ r = q)
    BY <1>1, <1>7, QueueLess DEF Takes
  <2>2. q # p
    BY <2>1 DEF Single, Unborn
  <2> QED
    BY <1>1, <1>2, <1>7, <2>1, <2>2 DEF Takes
<1>8. ASSUME NEW v \in Workers, NEW q \in Pubs, Finishes(v, q) PROVE ~Queued(w, p)' /\ ~InLambda(w, p)'
  <2>1. InLambda(v, q)
    BY <1>8 DEF Finishes, InLambda
  <2>2. q # p
    BY <2>1 DEF Single, Unborn
  <2> QED
    BY <1>1, <1>2, <1>8, <2>2, SameQueue DEF Finishes
<1> QED
  BY <1>3, <1>4, <1>5, <1>6, <1>7, <1>8 DEF Effects

LEMMA InsideNext == ASSUME TypeOK, Frames, Single, Counted, Inside, [Next]_vars PROVE Inside'
<1>1. Effects /\ \A t \in Workers : t \in Threads
  BY EffectNext DEF Threads
<1> SUFFICES ASSUME NEW t \in Workers, NEW p \in Pubs PROVE Deeper(t, p)' /\ (On1(t, p)' => ~Queued(t, p)')
  BY DEF Inside
<1>2. Deeper(t, p)'
  BY <1>1, DeeperNext DEF Inside
<1>3. CASE pub[p].life = "unborn"
  BY <1>1, <1>2, <1>3, UnbornStill
<1>4. CASE pub[p].life # "unborn"
  <2>1. Flow(p)
    BY <1>1, <1>4, FlowNext
  <2> QED
    BY <1>1, <1>2, <2>1 DEF Flow, Inside
<1> QED
  BY <1>3, <1>4

\* What has begun and is in no publishMsg is given to nobody any more.
LEMMA GivenLess == ASSUME TypeOK, Single, Counted, Effects, NEW q \in Pubs, pub[q].life # "unborn", ~Publishes(q)
  PROVE ~Publishes(q)' /\ \A w \in Workers : Given(w, q)' => Given(w, q)
<1>1. Flow(q)
  BY FlowNext
<1>2. ~Publishes(q)'
  BY <1>1 DEF Flow, On1, Publishes
<1>3. \A w \in Workers : ~Unhanded(w, q)
  <2>1. \A w \in Workers : w \in 1 .. N + 1
    BY PubSubAssumption DEF Workers
  <2> QED
    BY <2>1, PubWithin DEF Unhanded, Publishes
<1> QED
  BY <1>1, <1>2, <1>3 DEF Flow, Given

\* Whose publishMsg has returned on a worker has no lambda left there.
Ended == \A t \in Threads : \A q \in ended[t] : ~Publishes(q) /\ (t \in Workers => ~Given(t, q))

LEMMA StopsEnded == ASSUME TypeOK, Single, Inside, NEW t \in Threads, NEW n \in Nat, NEW q \in Pubs, PublishedAt(t, n, q), Stops(t, q)
  PROVE ~Publishes(q)' /\ (t \in Workers => ~Given(t, q)')
<1>1. On1(t, q) /\ UNCHANGED queue
  BY DEF Stops, On1
<1>2. ASSUME NEW u \in Threads, On1(u, q)' PROVE FALSE
  <2>1. On1(u, q) /\ u # t
    BY <1>2 DEF Stops, On1
  <2> QED
    BY <1>1, <2>1 DEF Single, OnePublish, On1
<1>3. ASSUME t \in Workers PROVE ~Given(t, q)'
  <2>1. ~Queued(t, q)'
    BY <1>1, <1>3, SameQueue DEF Inside
  <2>2. PICK f \in Frame : f = Publishing(q, N + 1) /\ In(t, n, f) /\ Topmost(t, n)
    BY DEF PublishedAt, Swap
  <2>3. f \in PubFrames(q, N + 1)
    BY <2>2, PubSubAssumption DEF PubFrames, Publishing
  <2>4. LamFrames(q) \in SUBSET Frame
    BY DEF LamFrames
  <2>5. ASSUME NEW l \in Nat, NEW g \in LamFrames(q), In(t, l, g) PROVE FALSE
    <3>1. n < l
      BY <1>3, <2>2, <2>3, <2>5 DEF Inside, Deeper
    <3>2. l <= n
      BY <2>2, <2>4, <2>5 DEF Topmost
    <3> QED
      BY <3>1, <3>2
  <2>6. ~InLambda(t, q)
    BY <2>5 DEF InLambda, Has
  <2>7. ~InLambda(t, q)'
    BY <2>6 DEF Stops, InLambda
  <2> QED
    BY <2>1, <2>7 DEF Given
<1> QED
  BY <1>2, <1>3 DEF Publishes, On1

LEMMA EndedNext == ASSUME TypeOK, Single, Counted, Inside, Fresh, Ended, Effects, History PROVE Ended'
<1> SUFFICES ASSUME NEW t \in Threads, NEW q \in ended'[t] PROVE ~Publishes(q)' /\ (t \in Workers => ~Given(t, q)')
  BY DEF Ended
<1>1. ended \in [Threads -> SUBSET Pubs]
  BY DEF TypeOK
<1>2. CASE q \in ended[t]
  <2>1. q \in Pubs /\ pub[q].life # "unborn"
    BY <1>1, <1>2 DEF Fresh
  <2> QED
    BY <1>2, <2>1, GivenLess DEF Ended
<1>3. CASE q \notin ended[t]
  <2>1. PICK u \in Threads, n \in Nat, p \in Pubs : PublishedAt(u, n, p) /\ Stops(u, p)
    BY <1>3 DEF History, SendAt
  <2>2. ended' = [ended EXCEPT ![u] = @ \cup {p}]
    BY <2>1 DEF PublishedAt
  <2>3. u = t /\ p = q
    BY <1>1, <1>3, <2>2
  <2> QED
    BY <2>1, <2>3, StopsEnded
<1> QED
  BY <1>2, <1>3

\* In s, q comes before p.
Ahead(s, q, p) == \A a, b \in DOMAIN s : s[a] = q /\ s[b] = p => a < b

LEMMA AheadAppend == ASSUME NEW s \in Seq(Pubs), NEW r \in Pubs, NEW q \in Pubs, NEW p \in Pubs, r # q, Ahead(s, q, p) PROVE Ahead(Append(s, r), q, p)
<1>1. PICK k \in Nat : k = Len(s) /\ Extends(Append(s, r), s, r, k)
  BY AppendExtends
<1>2. PICK x : x = Append(s, r)
  OBVIOUS
<1>3. DOMAIN s = 1 .. k /\ DOMAIN x = 1 .. k + 1 /\ x[k + 1] = r /\ \A j \in 1 .. k : x[j] = s[j]
  BY <1>1, <1>2 DEF Extends
<1>4. ASSUME NEW a \in 1 .. k + 1, NEW b \in 1 .. k + 1, x[a] = q, x[b] = p PROVE a < b
  <2>1. a # k + 1
    BY <1>3, <1>4
  <2>2. a \in 1 .. k
    BY <2>1
  <2>3. CASE b = k + 1
    BY <2>2, <2>3
  <2>4. CASE b \in 1 .. k
    BY <1>3, <1>4, <2>2, <2>4 DEF Ahead
  <2> QED
    BY <2>3, <2>4
<1> QED
  BY <1>2, <1>3, <1>4 DEF Ahead

LEMMA AheadTail == ASSUME NEW s \in Seq(Pubs), s # <<>>, NEW q \in Pubs, NEW p \in Pubs, Ahead(s, q, p) PROVE Ahead(Tail(s), q, p)
<1>1. PICK k \in Nat : k = Len(s) /\ k > 0 /\ DOMAIN s = 1 .. k
  OBVIOUS
<1>2. PICK x : x = Tail(s)
  OBVIOUS
<1>3. DOMAIN x = 1 .. k - 1 /\ \A j \in 1 .. k - 1 : x[j] = s[j + 1]
  BY <1>1, <1>2
<1>4. ASSUME NEW a \in 1 .. k - 1, NEW b \in 1 .. k - 1, x[a] = q, x[b] = p PROVE a < b
  <2>1. a + 1 \in 1 .. k /\ b + 1 \in 1 .. k /\ s[a + 1] = q /\ s[b + 1] = p
    BY <1>1, <1>3, <1>4
  <2>2. a + 1 < b + 1
    BY <1>1, <2>1 DEF Ahead
  <2> QED
    BY <2>2
<1> QED
  BY <1>2, <1>3, <1>4 DEF Ahead

\* Only what is being published comes to a queue, and to its end.
LEMMA QueueNext == ASSUME TypeOK, Effects, NEW w \in Workers
  PROVE \/ queue'[w] = queue[w]
        \/ \E r \in Pubs : Publishes(r) /\ queue'[w] = Append(queue[w], r)
        \/ queue[w] # <<>> /\ queue'[w] = Tail(queue[w])
<1>1. queue \in [Workers -> Seq(Pubs)]
  BY DEF TypeOK
<1>2. ASSUME NEW t \in Threads, NEW p \in Pubs, NEW i \in Workers, Hands(t, p, i)
      PROVE queue'[w] = queue[w] \/ (Publishes(p) /\ queue'[w] = Append(queue[w], p))
  <2>1. Has(t, PubFrames(p, i)) /\ i \in 1 .. N + 1
    BY <1>2, PubSubAssumption DEF Hands, Workers
  <2>2. Publishes(p)
    BY <2>1, PubWithin DEF Publishes
  <2>3. queue' = queue \/ queue' = [queue EXCEPT ![i] = Append(@, p)]
    BY <1>2 DEF Hands
  <2> QED
    BY <1>1, <2>2, <2>3
<1>3. ASSUME NEW v \in Workers, NEW p \in Pubs, Takes(v, p) PROVE queue'[w] = queue[w] \/ (queue[w] # <<>> /\ queue'[w] = Tail(queue[w]))
  BY <1>1, <1>3 DEF Takes
<1>4. CASE UNCHANGED queue
  BY <1>4
<1> QED
  BY <1>2, <1>3, <1>4 DEF Effects, Quiet, Begins, Stops, Finishes

\* q came before p on the same thread: wherever p is going, q has been.
Ord(q, p) ==
  /\ ~Publishes(q)
  /\ \A w \in Workers : /\ On1(w, p) \/ InLambda(w, p) => ~Given(w, q)
                        /\ Ahead(queue[w], q, p)

Order == \A p \in Pubs : \A q \in past[p] : Ord(q, p)

LEMMA OrdNext == ASSUME TypeOK, Single, Counted, Effects, NEW p \in Pubs, NEW q \in Pubs,
                        pub[p].life # "unborn", pub[q].life # "unborn", Ord(q, p)
  PROVE Ord(q, p)'
<1>1. Flow(p) /\ Flow(q) /\ ~Publishes(q)
  BY FlowNext DEF Ord
<1>2. ~Publishes(q)' /\ \A w \in Workers : Given(w, q)' => Given(w, q)
  BY <1>1, GivenLess
<1>3. ASSUME NEW w \in Workers, On1(w, p)' \/ InLambda(w, p)' PROVE ~Given(w, q)
  <2>1. CASE On1(w, p) \/ InLambda(w, p)
    BY <2>1 DEF Ord
  <2>2. CASE ~(On1(w, p) \/ InLambda(w, p))
    <3>1. Queued(w, p) /\ p = Head(queue[w]) /\ \A P \in SUBSET Frame : ~Has(w, P)
      BY <1>1, <1>3, <2>2 DEF Flow, Threads
    <3>2. ~InLambda(w, q)
      BY <3>1 DEF InLambda, LamFrames
    <3>3. queue[w] \in Seq(Pubs) /\ queue[w] # <<>>
      <4>1. queue[w] \in Seq(Pubs)
        BY DEF TypeOK
      <4> QED
        BY <3>1, <4>1 DEF Queued, Contains
    <3>4. 1 \in DOMAIN queue[w] /\ queue[w][1] = p
      BY <3>1, <3>3
    <3>5. ~Queued(w, q)
      <4> SUFFICES ASSUME NEW a \in 1 .. Len(queue[w]), queue[w][a] = q PROVE FALSE
        BY DEF Queued, Contains
      <4>1. a \in DOMAIN queue[w]
        BY <3>3
      <4>2. a < 1
        BY <3>4, <4>1 DEF Ord, Ahead
      <4> QED
        BY <4>2
    <3> QED
      BY <3>2, <3>5 DEF Given
  <2> QED
    BY <2>1, <2>2
<1>4. ASSUME NEW w \in Workers PROVE Ahead(queue'[w], q, p)
  <2>1. Ahead(queue[w], q, p) /\ queue[w] \in Seq(Pubs)
    BY DEF Ord, TypeOK
  <2>2. \A r \in Pubs : Publishes(r) => r # q
    BY <1>1
  <2> QED
    BY <2>1, <2>2, QueueNext, AheadAppend, AheadTail
<1> QED
  BY <1>2, <1>3, <1>4 DEF Ord

LEMMA OrderBegins == ASSUME TypeOK, Single, Counted, Effects, Fresh, Ended, NEW t \in Threads, NEW p \in Pubs, Begins(t, p), NEW q \in ended[t]
  PROVE Ord(q, p)'
<1>1. q \in Pubs /\ pub[q].life # "unborn"
  <2>1. ended[t] \in SUBSET Pubs
    BY DEF TypeOK
  <2> QED
    BY <2>1 DEF Fresh
<1>2. ~Publishes(q)' /\ \A w \in Workers : Given(w, q)' => Given(w, q)
  BY <1>1, GivenLess DEF Ended
<1>3. pub[p].life = "unborn" /\ ~Publishes(p)
  BY DEF Begins, Single, Unborn
<1>4. ASSUME NEW w \in Workers PROVE ~Queued(w, p)' /\ ~InLambda(w, p)'
  BY <1>3, UnbornStill
<1>5. ASSUME NEW w \in Workers, On1(w, p)' PROVE ~Given(w, q)
  <2>1. w \in Threads /\ N + 1 \in 1 .. N + 1
    BY PubSubAssumption DEF Threads
  <2>2. w = t
    BY <1>3, <1>5, <2>1 DEF Begins, On1, Publishes
  <2> QED
    BY <2>2 DEF Ended
<1>6. ASSUME NEW w \in Workers PROVE Ahead(queue'[w], q, p)
  <2>1. ~Contains(queue[w], p) /\ queue' = queue /\ queue[w] \in Seq(Pubs)
    BY <1>3 DEF Begins, Single, Unborn, Queued, TypeOK
  <2>2. \A b \in DOMAIN queue[w] : queue[w][b] # p
    BY <2>1 DEF Contains
  <2> QED
    BY <2>1, <2>2 DEF Ahead
<1> QED
  BY <1>2, <1>4, <1>5, <1>6 DEF Ord

LEMMA PastNext == ASSUME TypeOK, History, NEW p \in Pubs, NEW q \in past'[p]
  PROVE q \in past[p] \/ \E t \in Threads : Begins(t, p) /\ q \in ended[t]
<1>1. past \in [Pubs -> SUBSET Pubs]
  BY DEF TypeOK
<1>2. CASE UNCHANGED past
  BY <1>2
<1>3. ASSUME NEW t \in Threads, NEW r \in Pubs, Begins(t, r), past' = [past EXCEPT ![r] = ended[t]]
      PROVE q \in past[p] \/ (Begins(t, p) /\ q \in ended[t])
  BY <1>1, <1>3
<1> QED
  BY <1>2, <1>3 DEF History, PublishedAt, SendAt

LEMMA PastBegun == ASSUME TypeOK, Fresh, NEW p \in Pubs, NEW q \in past[p]
  PROVE q \in Pubs /\ pub[p].life # "unborn" /\ pub[q].life # "unborn"
<1>1. past[p] \in SUBSET Pubs
  BY DEF TypeOK
<1> QED
  BY <1>1 DEF Fresh

LEMMA OrderNext == ASSUME TypeOK, Single, Counted, Effects, History, Fresh, Ended, Order PROVE Order'
<1> SUFFICES ASSUME NEW p \in Pubs, NEW q \in past'[p] PROVE Ord(q, p)'
  BY DEF Order
<1>1. CASE q \in past[p]
  <2>1. q \in Pubs /\ pub[p].life # "unborn" /\ pub[q].life # "unborn" /\ Ord(q, p)
    BY <1>1, PastBegun DEF Order
  <2> QED
    BY <2>1, OrdNext
<1>2. CASE q \notin past[p]
  BY <1>2, PastNext, OrderBegins
<1> QED
  BY <1>1, <1>2

\* Where p has been told of, q is over.
ToldOrder == \A p \in Pubs : \A q \in past[p] : \A c \in Conns : IsTold(c, p) => ~Given(Home[c], q)

LEMMA ToldOrderNext == ASSUME TypeOK, Tied, Single, Counted, Effects, History, Fresh, Order, ToldLate, ToldOrder PROVE ToldOrder'
<1> SUFFICES ASSUME NEW p \in Pubs, NEW q \in past'[p], NEW c \in Conns, IsTold(c, p)' PROVE ~Given(Home[c], q)'
  BY DEF ToldOrder
<1>1. (IsTold(c, p) \/ InLambda(Home[c], p)) /\ pub[p].life # "unborn"
  BY TellsNext
<1>2. q \in past[p]
  BY <1>1, PastNext DEF Begins
<1>3. q \in Pubs /\ pub[q].life # "unborn" /\ Ord(q, p) /\ ~Publishes(q) /\ Home[c] \in Workers
  BY <1>2, PastBegun, PubSubAssumption DEF Order, Ord
<1>4. ~Given(Home[c], q)
  BY <1>1, <1>2, <1>3 DEF ToldOrder, Ord
<1> QED
  BY <1>3, <1>4, GivenLess

LEMMA InOrderNext == ASSUME TypeOK, Tied, Single, History, ToldLate, Order, ToldOrder, InOrder PROVE InOrder'
<1> SUFFICES ASSUME NEW c \in Conns PROVE \A j \in DOMAIN told'[c] : \A i \in 1 .. j : told'[c][j].p \notin past'[told'[c][i].p]
  BY DEF InOrder
<1>1. told[c] \in Seq([p : Pubs, sid : Sids, topic : Topics, n : Nat]) /\ past \in [Pubs -> SUBSET Pubs]
  BY DEF TypeOK
<1>2. \A j \in DOMAIN told[c] : j \in Nat /\ told[c][j].p \in Pubs /\ \A i \in 1 .. j : i \in DOMAIN told[c] /\ told[c][i].p \in Pubs
  <2> SUFFICES ASSUME NEW j \in DOMAIN told[c] PROVE j \in Nat /\ told[c][j].p \in Pubs /\ \A i \in 1 .. j : i \in DOMAIN told[c] /\ told[c][i].p \in Pubs
    OBVIOUS
  <2>1. DOMAIN told[c] = 1 .. Len(told[c]) /\ Len(told[c]) \in Nat
    BY <1>1
  <2>2. \A i \in 1 .. j : i \in DOMAIN told[c]
    BY <2>1
  <2>3. \A i \in DOMAIN told[c] : told[c][i].p \in Pubs
    <3>1. PICK M : M = [p : Pubs, sid : Sids, topic : Topics, n : Nat]
      OBVIOUS
    <3>2. told[c] \in Seq(M)
      BY <1>1, <3>1
    <3>3. \A i \in DOMAIN told[c] : told[c][i] \in M
      BY <3>2
    <3> QED
      BY <3>1, <3>3
  <2> QED
    BY <2>1, <2>2, <2>3
<1>3. ASSUME told'[c] = told[c] PROVE \A j \in DOMAIN told'[c] : \A i \in 1 .. j : told'[c][j].p \notin past'[told'[c][i].p]
  <2> SUFFICES ASSUME NEW j \in DOMAIN told[c], NEW i \in 1 .. j PROVE told[c][j].p \notin past'[told[c][i].p]
    BY <1>3
  <2>1. told[c][j].p \notin past[told[c][i].p] /\ told[c][i].p \in Pubs /\ i \in DOMAIN told[c]
    BY <1>2 DEF InOrder
  <2>2. pub[told[c][i].p].life # "unborn"
    BY <2>1 DEF ToldLate, IsTold
  <2> QED
    BY <2>1, <2>2, PastNext DEF Begins
<1>4. ASSUME NEW w \in Workers, NEW n \in Nat, NEW p \in Pubs, NEW i \in Nat, NEW li \in Seq(Entry), SendAt(w, n, p, li, i), told'[c] # told[c]
      PROVE \A j \in DOMAIN told'[c] : \A h \in 1 .. j : told'[c][j].p \notin past'[told'[c][h].p]
  <2>1. /\ In(w, n, Sending("send", p, li, i)) /\ li[i] \in Entry /\ Home[c] = w
        /\ told'[c] = Append(told[c], Message(p, li[i]))
    <3>1. /\ In(w, n, Sending("send", p, li, i)) /\ li[i] \in Entry /\ Home[li[i].c] = w
          /\ \A d \in Conns : told'[d] = told[d] \/ (d = li[i].c /\ told'[d] = Append(told[d], Message(p, li[i])))
      <4>1. Tells(w, n, p, li, i)
        BY <1>4, SendTells
      <4> QED
        BY <1>4, <4>1 DEF Tells
    <3> QED
      BY <1>4, <3>1
  <2>2. Given(w, p) /\ InLambda(w, p)
    BY <2>1, SendingNow DEF Given
  <2>3. PICK m \in [p : Pubs, sid : Sids, topic : Topics, n : Nat] : m = Message(p, li[i]) /\ m.p = p
    BY <2>1, MessageIs
  <2>4. PICK k \in Nat : Extends(told'[c], told[c], m, k)
    BY <1>1, <2>1, <2>3, AppendExtends
  <2>5. past' = past
    BY <1>4 DEF SendAt
  <2> SUFFICES ASSUME NEW j \in 1 .. k + 1, NEW h \in 1 .. j PROVE told'[c][j].p \notin past[told'[c][h].p]
    BY <2>4, <2>5 DEF Extends
  <2>6. CASE j \in 1 .. k
    <3>1. h \in 1 .. k
      BY <2>6
    <3>2. told'[c][j] = told[c][j] /\ told'[c][h] = told[c][h] /\ j \in DOMAIN told[c]
      BY <2>4, <2>6, <3>1 DEF Extends
    <3> QED
      BY <3>2 DEF InOrder
  <2>7. CASE j = k + 1 /\ h = k + 1
    <3>1. told'[c][j].p = p /\ told'[c][h].p = p
      BY <2>3, <2>4, <2>7 DEF Extends
    <3>2. p \notin past[p]
      BY <2>2 DEF Order, Ord
    <3> QED
      BY <3>1, <3>2
  <2>8. CASE j = k + 1 /\ h # k + 1
    <3>1. h \in 1 .. k
      BY <2>8
    <3>2. told'[c][j].p = p /\ told'[c][h] = told[c][h] /\ h \in DOMAIN told[c]
      BY <2>3, <2>4, <2>8, <3>1 DEF Extends
    <3>3. PICK r \in Pubs : r = told[c][h].p /\ IsTold(c, r)
      BY <1>2, <3>2 DEF IsTold
    <3>4. p \notin past[r]
      BY <2>1, <2>2, <3>3 DEF ToldOrder
    <3> QED
      BY <3>2, <3>3, <3>4
  <2>9. j \in 1 .. k \/ j = k + 1
    OBVIOUS
  <2> QED
    BY <2>6, <2>7, <2>8, <2>9
<1>5. CASE UNCHANGED told
  BY <1>3, <1>5
<1> QED
  BY <1>3, <1>4, <1>5 DEF History, PublishedAt

\* The invariant of the order.
Told == Fresh /\ ToldLate /\ Inside /\ Ended /\ Order /\ ToldOrder

LEMMA ToldInit == ASSUME Init PROVE Told /\ InOrder
<1>1. \A t \in Threads : stack[t] = <<>> /\ ended[t] = {}
  BY DEF Init
<1>2. \A t \in Threads : \A P : ~Has(t, P)
  BY <1>1 DEF Has, In
<1>3. \A p \in Pubs : past[p] = {}
  BY DEF Init
<1>4. \A c \in Conns : told[c] = <<>>
  BY DEF Init
<1>5. \A c \in Conns, p \in Pubs : ~IsTold(c, p)
  BY <1>4 DEF IsTold
<1>6. \A w \in Workers : queue[w] = <<>> /\ w \in Threads
  BY DEF Init, Threads
<1>7. \A w \in Workers, p \in Pubs : ~Queued(w, p)
  BY <1>6 DEF Queued, Contains
<1>8. Inside
  BY <1>1, <1>6, <1>7 DEF Inside, Deeper, In
<1>9. Fresh /\ ToldLate /\ Ended /\ Order /\ ToldOrder
  BY <1>1, <1>3, <1>5 DEF Fresh, ToldLate, Ended, Order, ToldOrder
<1>10. InOrder
  BY <1>4 DEF InOrder
<1> QED
  BY <1>8, <1>9, <1>10 DEF Told

LEMMA ToldNext == ASSUME Core, Told, [Next]_vars PROVE Told' /\ (InOrder => InOrder')
<1>1. TypeOK /\ Tied /\ Frames /\ Single /\ Counted
  BY DEF Core, Tied
<1>2. Effects /\ History
  BY <1>1, EffectNext, HistoryNext
<1> QED
  BY <1>1, <1>2, FreshNext, ToldLateNext, InsideNext, EndedNext, OrderNext, ToldOrderNext, InOrderNext DEF Told

LEMMA ToldAlways == Safety => [](Core /\ Told /\ InOrder)
<1>1. Init => Core /\ Told /\ InOrder
  BY CoreInit, ToldInit
<1>2. (Core /\ Told /\ InOrder) /\ [Next]_vars => (Core /\ Told /\ InOrder)'
  BY CoreNext, ToldNext
<1> QED
  BY <1>1, <1>2, PTL DEF Safety

\* Of two publications of a thread, where the first call of publishMsg had returned
\* when the second was made, no connection is told the second first, whether the
\* lambdas run in place or wait, and also where both are made by an evnDis in the
\* middle of a third, which they overtake (StmpNet::publishMsg, Actor::future).
THEOREM ToldInOrder == Safety => []InOrder
BY ToldAlways, PTL

-----------------------------------------------------------------------------
(* The lambdas that send.                                                  *)

Sends(f) == f \in Frame /\ f.op \in {"send", "unref"}

\* A lambda that sends was there already, no further on, or has just found whom to
\* send to.
Follows(u, k, f) == \E g \in Frame :
  /\ In(u, k, g)
  /\ \/ Sends(g) /\ g.p = f.p /\ g.li = f.li /\ g.i <= f.i
     \/ g.op = "find" /\ g.p = f.p /\ f.li = Copy(u, f.p) /\ f.i = 1

LEMMA SendIsFrame == ASSUME NEW f, Sends(f)
  PROVE \E op \in {"send", "unref"}, p \in Pubs, i \in Nat : \E li \in Seq(Entry) :
          f = Sending(op, p, li, i) /\ f.op = op /\ f.p = p /\ f.li = li /\ f.i = i
BY DEF Sends, Frame, Sending

LEMMA FollowsItself == ASSUME NEW u, NEW k, NEW f, Sends(f), In(u, k, f) PROVE Follows(u, k, f)
<1>1. PICK i \in Nat : f.i = i
  BY SendIsFrame
<1>2. f \in Frame /\ f.i <= f.i
  BY <1>1 DEF Sends
<1> QED
  BY <1>2 DEF Follows

LEMMA FollowsMoves ==
  ASSUME NEW t \in Threads, NEW n \in Nat, NEW A, Moves(t, n, A), \A k \in Nat : \A f : <<k, f>> \in A /\ Sends(f) => Follows(t, k, f),
         NEW u \in Threads, NEW k \in Nat, NEW f, Sends(f), In(u, k, f)'
  PROVE Follows(u, k, f)
<1>1. f \in Frame
  BY DEF Sends
<1>2. In(u, k, f) \/ (u = t /\ <<k, f>> \in A)
  BY <1>1 DEF Moves
<1> QED
  BY <1>2, FollowsItself

LEMMA FollowsOnward ==
  ASSUME NEW w \in Threads, NEW n \in Nat, NEW g \in Frame, NEW p \in Pubs, NEW li \in Seq(Entry), NEW i \in Nat, OnwardAt(w, n, g, p, li, i),
         g.p = p, \/ Sends(g) /\ g.li = li /\ g.i <= i
                  \/ g.op = "find" /\ li = Copy(w, p) /\ i = 1,
         NEW u \in Threads, NEW k \in Nat, NEW f, Sends(f), In(u, k, f)'
  PROVE Follows(u, k, f)
<1>1. PICK x \in Frame : x = Sending("send", p, li, i) /\ x.p = p /\ x.li = li /\ x.i = i
  BY SendingIs
<1>2. In(w, n, g)
  BY DEF OnwardAt, Swap
<1>3. Follows(w, n, x)
  BY <1>1, <1>2 DEF Follows
<1>4. PICK A : Moves(w, n, A) /\ (A = {} \/ A = {<<n, x>>})
  BY <1>1 DEF OnwardAt, Swap
<1>5. \A l \in Nat : \A y : <<l, y>> \in A /\ Sends(y) => Follows(w, l, y)
  BY <1>3, <1>4
<1> QED
  BY <1>4, <1>5, FollowsMoves

LEMMA FollowsOther ==
  ASSUME NEW t \in Threads, NEW n \in Nat, NEW A, Moves(t, n, A), \A k \in Nat : \A f : <<k, f>> \in A => f.op \notin {"send", "unref"},
         NEW u \in Threads, NEW k \in Nat, NEW f, Sends(f), In(u, k, f)'
  PROVE Follows(u, k, f)
<1>1. \A l \in Nat : \A y : <<l, y>> \in A /\ Sends(y) => Follows(t, l, y)
  BY DEF Sends
<1> QED
  BY <1>1, FollowsMoves

LEMMA FollowsStack == ASSUME StackActs, NEW u \in Threads, NEW k \in Nat, NEW f, Sends(f), In(u, k, f)' PROVE Follows(u, k, f)
<1>1. ASSUME NEW t \in Threads, NEW n \in Nat, NEW p \in Pubs, NEW i \in Workers, HandAt(t, n, p, i) PROVE Follows(u, k, f)
  <2>1. PICK A : Moves(t, n, A) /\ A \in SUBSET {<<n, Publishing(p, i + 1)>>, <<n + 1, Lambda(p)>>}
    BY <1>1 DEF HandAt, Swap
  <2>2. ASSUME NEW l \in Nat, NEW g, <<l, g>> \in A PROVE g.op \notin {"send", "unref"}
    <3>1. g = Publishing(p, i + 1) \/ g = Lambda(p)
      BY <2>1, <2>2
    <3> QED
      BY <3>1 DEF Publishing, Lambda
  <2> QED
    BY <2>1, <2>2, FollowsOther
<1>2. ASSUME NEW t \in Threads, NEW n \in Nat, NEW p \in Pubs, PublishedAt(t, n, p) PROVE Follows(u, k, f)
  <2>1. Moves(t, n, {})
    BY <1>2 DEF PublishedAt, Swap
  <2> QED
    BY <2>1, FollowsOther
<1>3. ASSUME NEW w \in Workers, NEW p \in Pubs, DoFutureAt(w, p) PROVE Follows(u, k, f)
  <2>1. PICK A : Moves(w, 1, A) /\ A = {<<1, Lambda(p)>>}
    BY <1>3 DEF DoFutureAt, Push
  <2>2. w \in Threads /\ \A l \in Nat : \A g : <<l, g>> \in A => g.op \notin {"send", "unref"}
    BY <2>1 DEF Lambda, Threads
  <2> QED
    BY <2>1, <2>2, FollowsOther
<1>4. ASSUME NEW w \in Workers, NEW n \in Nat, NEW p \in Pubs, NEW li \in Seq(Entry), FindAt(w, n, p, li) PROVE Follows(u, k, f)
  <2>1. PICK g \in Frame : g = Lambda(p) /\ g.op = "find" /\ g.p = p
    BY LambdaIs
  <2>2. OnwardAt(w, n, g, p, li, 1) /\ li = Copy(w, p) /\ 1 \in Nat /\ w \in Threads
    BY <1>4, <2>1 DEF FindAt, Threads
  <2> QED
    BY <2>1, <2>2, FollowsOnward
<1>5. ASSUME NEW w \in Workers, NEW n \in Nat, NEW p \in Pubs, NEW i \in Nat, NEW li \in Seq(Entry), NEW op \in {"send", "unref"},
             OnwardAt(w, n, Sending(op, p, li, i), p, li, i + 1)
      PROVE Follows(u, k, f)
  <2>1. PICK g \in Frame : g = Sending(op, p, li, i) /\ g.op = op /\ g.p = p /\ g.li = li /\ g.i = i
    BY SendingIs
  <2>2. Sends(g) /\ i + 1 \in Nat /\ i <= i + 1 /\ w \in Threads
    BY <2>1 DEF Sends, Threads
  <2> QED
    BY <1>5, <2>1, <2>2, FollowsOnward
<1>6. ASSUME NEW w \in Workers, NEW n \in Nat, NEW p \in Pubs, NEW i \in Nat, NEW li \in Seq(Entry), SendFailsAt(w, n, p, li, i)
      PROVE Follows(u, k, f)
  <2>1. PICK g \in Frame, h \in Frame : /\ g = Sending("send", p, li, i) /\ g.op = "send" /\ g.p = p /\ g.li = li /\ g.i = i
                                        /\ h = Sending("unref", p, li, i) /\ h.op = "unref" /\ h.p = p /\ h.li = li /\ h.i = i
    BY SendingIs
  <2>2. PICK A : In(w, n, g) /\ Moves(w, n, A) /\ A = {<<n, h>>, <<n + 1, On("dis", li[i].c)>>}
    BY <1>6, <2>1 DEF SendFailsAt, Swap
  <2>3. Follows(w, n, h)
    <3>1. Sends(g) /\ g.i <= h.i
      BY <2>1 DEF Sends
    <3> QED
      BY <2>1, <2>2, <3>1 DEF Follows
  <2>4. ASSUME NEW l \in Nat, NEW y, <<l, y>> \in A, Sends(y) PROVE Follows(w, l, y)
    <3>1. y # On("dis", li[i].c)
      BY <2>4 DEF Sends, On
    <3> QED
      BY <2>2, <2>3, <2>4, <3>1
  <2>5. w \in Threads
    BY DEF Threads
  <2> QED
    BY <2>2, <2>4, <2>5, FollowsMoves
<1> QED
  BY <1>1, <1>2, <1>3, <1>4, <1>5, <1>6 DEF StackActs, SendAt, UnrefAt

LEMMA FollowsNext == ASSUME TypeOK, Frames, [Next]_vars, NEW u \in Threads, NEW k \in Nat, NEW f, Sends(f), In(u, k, f)' PROVE Follows(u, k, f)
<1>1. CASE BeginActs
  <2>1. ASSUME NEW t \in Threads, NEW p \in Pubs, PublishAt(t, p) PROVE Follows(u, k, f)
    <3>1. PICK A : Moves(t, 1, A) /\ A = {<<1, Publishing(p, 1)>>}
      BY <2>1 DEF PublishAt, Push
    <3>2. \A l \in Nat : \A g : <<l, g>> \in A => g.op \notin {"send", "unref"}
      BY <3>1 DEF Publishing
    <3> QED
      BY <3>1, <3>2, FollowsOther
  <2>2. ASSUME NEW w \in Workers, NEW n \in Nat, NEW c \in Conns, NEW p \in Pubs, DisPublishAt(w, n, c, p) PROVE Follows(u, k, f)
    <3>1. PICK A : Moves(w, n, A) /\ A = {<<n, On("del", c)>>, <<n + 1, Publishing(p, 1)>>}
      BY <2>2 DEF DisPublishAt, Swap
    <3>2. w \in Threads /\ \A l \in Nat : \A g : <<l, g>> \in A => g.op \notin {"send", "unref"}
      BY <3>1 DEF Publishing, On, Threads
    <3> QED
      BY <3>1, <3>2, FollowsOther
  <2> QED
    BY <1>1, <2>1, <2>2 DEF BeginActs
<1>2. CASE ConnActs
  <2>1. ASSUME NEW c \in Conns, HupAt(c) PROVE Follows(u, k, f)
    <3>1. PICK A : Moves(Home[c], 1, A) /\ A = {<<1, On("recv", c)>>, <<2, On("dis", c)>>}
      BY <2>1 DEF HupAt, Push
    <3>2. Home[c] \in Threads /\ \A l \in Nat : \A g : <<l, g>> \in A => g.op \notin {"send", "unref"}
      BY <3>1, PubSubAssumption DEF On, Threads
    <3> QED
      BY <3>1, <3>2, FollowsOther
  <2>2. ASSUME NEW w \in Workers, NEW n \in Nat, NEW c \in Conns, RecvAt(w, n, c) \/ DelAt(w, n, c) \/ DisAt(w, n, c) PROVE Follows(u, k, f)
    <3>1. Moves(w, n, {}) /\ w \in Threads
      BY <2>2 DEF RecvAt, DelAt, DisAt, Swap, Threads
    <3> QED
      BY <3>1, FollowsOther
  <2>3. ASSUME NEW w \in Workers, NEW n \in Nat, NEW c \in Conns, NEW d \in Conns, DisCloseAt(w, n, c, d) PROVE Follows(u, k, f)
    <3>1. PICK A : Moves(w, n, A) /\ A = {<<n, On("del", c)>>, <<n + 1, On("dis", d)>>}
      BY <2>3 DEF DisCloseAt, Swap
    <3>2. w \in Threads /\ \A l \in Nat : \A g : <<l, g>> \in A => g.op \notin {"send", "unref"}
      BY <3>1 DEF On, Threads
    <3> QED
      BY <3>1, <3>2, FollowsOther
  <2> QED
    BY <1>2, <2>1, <2>2, <2>3 DEF ConnActs
<1>3. CASE ListActs
  <2>1. UNCHANGED stack
    BY <1>3 DEF ListActs, UnSubscribe, Subscribe, vars
  <2>2. In(u, k, f)
    BY <2>1 DEF In
  <2> QED
    BY <2>2, FollowsItself
<1> QED
  BY <1>1, <1>2, <1>3, NextIs, FollowsStack

\* Whom f is still to send to has not been told.
Untold(f) == \A j \in f.i .. Len(f.li) : ~Contains(told[f.li[j].c], Message(f.p, f.li[j]))

NotYet == \A w \in Workers, k \in Nat, f \in Frame : Sends(f) /\ In(w, k, f) /\ Apart(f.p) => Untold(f)

LEMMA FollowsList == ASSUME TypeOK, Tied, NEW w \in Workers, NEW k \in Nat, NEW f, Sends(f), Follows(w, k, f)
  PROVE f.li \in Seq(Entry) /\ (Apart(f.p) => IsInjective(f.li)) /\ \A j \in DOMAIN f.li : f.li[j] \in Entry /\ f.li[j].c \in Conns /\ Home[f.li[j].c] = w
<1>1. PICK p \in Pubs, i \in Nat, li \in Seq(Entry) : f.p = p /\ f.li = li /\ f.i = i
  BY SendIsFrame
<1>2. PICK g \in Frame : /\ In(w, k, g)
                         /\ \/ Sends(g) /\ g.p = f.p /\ g.li = f.li /\ g.i <= f.i
                            \/ g.op = "find" /\ g.p = f.p /\ f.li = Copy(w, f.p) /\ f.i = 1
  BY DEF Follows
<1>3. w \in Threads
  BY DEF Threads
<1>4. CASE Sends(g) /\ g.p = f.p /\ g.li = f.li
  <2>1. FrameOK(w, g)
    BY <1>2, <1>3 DEF Tied, Frames
  <2>2. (Apart(p) => IsInjective(li)) /\ \A j \in DOMAIN li : Home[li[j].c] = w
    BY <1>1, <1>4, <2>1 DEF Sends, FrameOK
  <2> QED
    BY <1>1, <2>2, EntryIs
<1>5. CASE f.li = Copy(w, f.p)
  <2>1. (Apart(p) => IsInjective(li)) /\ \A j \in DOMAIN li : Home[li[j].c] = w
    BY <1>1, <1>5, CopyOK DEF Tied
  <2> QED
    BY <1>1, <2>1, EntryIs
<1> QED
  BY <1>2, <1>4, <1>5

LEMMA ContainsTold == ASSUME NEW c \in Conns, NEW p \in Pubs, NEW e \in Entry, Contains(told[c], Message(p, e)), TypeOK PROVE IsTold(c, p)
<1>1. PICK s \in Seq([p : Pubs, sid : Sids, topic : Topics, n : Nat]) : s = told[c]
  BY DEF TypeOK
<1>2. PICK j \in 1 .. Len(s) : s[j] = Message(p, e)
  BY <1>1 DEF Contains
<1>3. j \in DOMAIN told[c] /\ told[c][j].p = p
  BY <1>1, <1>2, MessageIs
<1> QED
  BY <1>3 DEF IsTold

LEMMA NotYetBefore ==
  ASSUME TypeOK, Tied, ToldLate, NotYet, NEW w \in Workers, NEW k \in Nat, NEW f, Sends(f), Apart(f.p), Follows(w, k, f)
  PROVE Untold(f)
<1>1. PICK p \in Pubs, i \in Nat, li \in Seq(Entry) : f.p = p /\ f.li = li /\ f.i = i
  BY SendIsFrame
<1>2. \A j \in DOMAIN li : li[j] \in Entry /\ li[j].c \in Conns /\ Home[li[j].c] = w
  BY <1>1, FollowsList
<1>3. PICK g \in Frame : /\ In(w, k, g)
                         /\ \/ Sends(g) /\ g.p = f.p /\ g.li = f.li /\ g.i <= f.i
                            \/ g.op = "find" /\ g.p = f.p /\ f.li = Copy(w, f.p) /\ f.i = 1
  BY DEF Follows
<1>4. CASE Sends(g) /\ g.p = f.p /\ g.li = f.li /\ g.i <= f.i
  <2>1. PICK h \in Nat : g.i = h /\ h <= i
    BY <1>1, <1>4, SendIsFrame
  <2>2. \A j \in h .. Len(li) : ~Contains(told[li[j].c], Message(p, li[j]))
    BY <1>1, <1>3, <1>4, <2>1 DEF NotYet, Untold
  <2>3. \A j \in i .. Len(li) : j \in h .. Len(li)
    BY <2>1
  <2> QED
    BY <1>1, <2>2, <2>3 DEF Untold
<1>5. CASE g.op = "find" /\ g.p = f.p /\ f.i = 1
  <2>1. g \in FindFrames(p)
    BY <1>1, <1>5 DEF FindFrames
  <2>2. Awaits(w, p)
    BY <1>3, <2>1 DEF Awaits, Has
  <2>3. ASSUME NEW j \in 1 .. Len(li), Contains(told[li[j].c], Message(p, li[j])) PROVE FALSE
    <3>1. li[j] \in Entry /\ li[j].c \in Conns /\ Home[li[j].c] = w
      BY <1>2
    <3>2. IsTold(li[j].c, p)
      BY <2>3, <3>1, ContainsTold
    <3> QED
      BY <2>2, <3>1, <3>2 DEF ToldLate
  <2> QED
    BY <1>1, <1>5, <2>3 DEF Untold
<1> QED
  BY <1>3, <1>4, <1>5

LEMMA SameMessage == ASSUME NEW p \in Pubs, NEW q \in Pubs, NEW e \in Entry, NEW d \in Entry, Message(p, e) = Message(q, d), e.c = d.c
  PROVE p = q /\ e = d
<1>1. p = q /\ e.sid = d.sid /\ e.topic = d.topic /\ e.n = d.n
  BY DEF Message
<1> QED
  BY <1>1 DEF Entry

\* What SendAt leaves of its lambda.
LEMMA SendLeaves == ASSUME NEW w \in Threads, NEW n \in Nat, NEW p \in Pubs, NEW i \in Nat, NEW li \in Seq(Entry), SendAt(w, n, p, li, i),
                           NEW f \in Frame, In(w, n, f)'
  PROVE f = Sending("send", p, li, i + 1)
<1>1. PICK A : Moves(w, n, A) /\ A \in SUBSET {<<n, Sending("send", p, li, i + 1)>>}
  BY DEF SendAt, OnwardAt, Swap
<1>2. <<n, f>> \in A
  BY <1>1 DEF Moves
<1> QED
  BY <1>1, <1>2

LEMMA NotYetNext == ASSUME TypeOK, Tied, Single, ToldLate, NotYet, History, [Next]_vars PROVE NotYet'
<1> SUFFICES ASSUME NEW w \in Workers, NEW k \in Nat, NEW f \in Frame, Sends(f), In(w, k, f)', Apart(f.p) PROVE Untold(f)'
  BY DEF NotYet
<1>1. Follows(w, k, f) /\ w \in Threads
  BY FollowsNext DEF Tied, Threads
<1>2. Untold(f)
  BY <1>1, NotYetBefore
<1>3. PICK q \in Pubs, h \in Nat, l \in Seq(Entry) : f.p = q /\ f.li = l /\ f.i = h
  BY SendIsFrame
<1>4. IsInjective(l) /\ \A j \in DOMAIN l : l[j] \in Entry /\ l[j].c \in Conns /\ Home[l[j].c] = w
  BY <1>1, <1>3, FollowsList
<1>5. h # 0
  <2>1. FrameOK(w, f)'
    <3>1. Tied'
      BY TiedNext
    <3> QED
      BY <1>1, <3>1 DEF Tied, Frames
  <2>2. h \in DOMAIN l
    BY <1>3, <2>1 DEF Sends, FrameOK
  <2> QED
    BY <2>2
<1>6. CASE UNCHANGED told
  BY <1>2, <1>6 DEF Untold
<1>7. ASSUME NEW v \in Workers, NEW n \in Nat, NEW p \in Pubs, NEW i \in Nat, NEW li \in Seq(Entry), SendAt(v, n, p, li, i) PROVE Untold(f)'
  <2> SUFFICES ASSUME NEW j \in h .. Len(l), Contains(told'[l[j].c], Message(q, l[j])) PROVE FALSE
    BY <1>3 DEF Untold
  <2>1. PICK c \in Conns : c = l[j].c /\ l[j] \in Entry /\ Home[c] = w /\ j \in DOMAIN l
    BY <1>4, <1>5
  <2>2. ~Contains(told[c], Message(q, l[j]))
    BY <1>2, <1>3, <2>1 DEF Untold
  <2>3. /\ In(v, n, Sending("send", p, li, i)) /\ i \in DOMAIN li /\ li[i] \in Entry /\ Home[li[i].c] = v
        /\ told'[c] = told[c] \/ (c = li[i].c /\ told'[c] = Append(told[c], Message(p, li[i])))
    <3>1. Tells(v, n, p, li, i)
      BY <1>7, SendTells
    <3> QED
      BY <1>7, <3>1 DEF Tells
  <2>4. c = li[i].c /\ told'[c] = Append(told[c], Message(p, li[i])) /\ v = w
    BY <2>1, <2>2, <2>3
  <2>5. told[c] \in Seq([p : Pubs, sid : Sids, topic : Topics, n : Nat]) /\ Message(p, li[i]) \in [p : Pubs, sid : Sids, topic : Topics, n : Nat]
    BY <2>3, MessageIs DEF TypeOK
  <2>6. Message(q, l[j]) = Message(p, li[i])
    <3>1. PICK M : M = [p : Pubs, sid : Sids, topic : Topics, n : Nat]
      OBVIOUS
    <3>2. PICK s \in Seq(M), x \in M : s = told[c] /\ x = Message(p, li[i])
      BY <2>5, <3>1
    <3>3. PICK y : y = Message(q, l[j])
      OBVIOUS
    <3>4. Contains(Append(s, x), y) /\ ~Contains(s, y)
      BY <2>1, <2>2, <2>4, <3>2, <3>3
    <3>5. y = x
      BY <3>4, AppendContains
    <3> QED
      BY <3>2, <3>3, <3>5
  <2>7. q = p /\ l[j] = li[i]
    <3>1. PICK d \in Entry, e \in Entry : d = l[j] /\ e = li[i]
      BY <2>1, <2>3
    <3>2. Message(q, d) = Message(p, e) /\ d.c = e.c
      BY <2>1, <2>4, <2>6, <3>1
    <3>3. q = p /\ d = e
      BY <3>2, SameMessage
    <3> QED
      BY <3>1, <3>3
  <2>8. PICK g \in LamFrames(p) : In(w, k, g)
    BY <1>1, <1>3, <2>7 DEF Follows, LamFrames, Sends
  <2>9. PICK s \in LamFrames(p) : s = Sending("send", p, li, i)
    BY SendingIs DEF LamFrames
  <2>10. k = n
    <3>1. OnceOn(w, LamFrames(p))
      BY <1>1, ClassIs DEF Single, Onces
    <3> QED
      BY <2>3, <2>4, <2>8, <2>9, <3>1 DEF OnceOn
  <2>11. f = Sending("send", p, li, i + 1)
    BY <1>1, <1>7, <2>4, <2>10, SendLeaves
  <2>12. l = li /\ h = i + 1
    BY <1>3, <2>11 DEF Sending
  <2>13. j = i
    BY <1>4, <2>1, <2>3, <2>7, <2>12 DEF IsInjective
  <2> QED
    BY <2>12, <2>13
<1> QED
  BY <1>6, <1>7 DEF History, PublishedAt

\* No message of s is there twice, but of a publication whose topics are the same.
Once(s) == \A i, j \in DOMAIN s : s[i] = s[j] => i = j \/ ~Apart(s[i].p)

LEMMA ToldOnceIs == (ToldOnce <=> \A c \in Conns : Once(told[c])) /\ (ToldOnce' <=> \A c \in Conns : Once(told'[c]))
BY DEF ToldOnce, Once, Apart

LEMMA AppendOnce == ASSUME NEW M, NEW s \in Seq(M), NEW x \in M, Once(s), Apart(x.p) => ~Contains(s, x) PROVE Once(Append(s, x))
<1>1. PICK m \in Nat : m = Len(s) /\ DOMAIN s = 1 .. m
  OBVIOUS
<1>2. PICK r : r = Append(s, x)
  OBVIOUS
<1>3. DOMAIN r = 1 .. m + 1 /\ r[m + 1] = x /\ \A i \in 1 .. m : r[i] = s[i]
  BY <1>1, <1>2
<1>4. \A i \in 1 .. m : s[i] = x => ~Apart(x.p)
  BY <1>1 DEF Contains
<1>5. ASSUME NEW i \in 1 .. m + 1, NEW j \in 1 .. m + 1, r[i] = r[j] PROVE i = j \/ ~Apart(r[i].p)
  <2>1. (i \in 1 .. m \/ i = m + 1) /\ (j \in 1 .. m \/ j = m + 1)
    BY <1>1
  <2>2. CASE i \in 1 .. m /\ j \in 1 .. m
    BY <2>2, <1>1, <1>3, <1>5 DEF Once
  <2> QED
    BY <2>1, <2>2, <1>3, <1>4, <1>5
<1> QED
  BY <1>2, <1>3, <1>5 DEF Once

LEMMA ToldOnceNext == ASSUME TypeOK, Tied, Single, NotYet, History, ToldOnce PROVE ToldOnce'
<1> SUFFICES ASSUME NEW c \in Conns PROVE Once(told'[c])
  BY ToldOnceIs
<1>1. CASE told'[c] = told[c]
  BY <1>1, ToldOnceIs
<1>2. ASSUME NEW w \in Workers, NEW n \in Nat, NEW p \in Pubs, NEW i \in Nat, NEW li \in Seq(Entry), SendAt(w, n, p, li, i), told'[c] # told[c]
      PROVE Once(told'[c])
  <2>1. /\ In(w, n, Sending("send", p, li, i)) /\ i \in DOMAIN li /\ li[i] \in Entry
        /\ \A d \in Conns : \/ told'[d] = told[d]
                            \/ d = li[i].c /\ conn[d].est /\ told'[d] = Append(told[d], Message(p, li[i]))
    <3>1. Tells(w, n, p, li, i)
      BY <1>2, SendTells
    <3> QED
      BY <1>2, <3>1 DEF Tells
  <2>2. c = li[i].c /\ told'[c] = Append(told[c], Message(p, li[i]))
    BY <1>2, <2>1
  <2>3. PICK f \in Frame : f = Sending("send", p, li, i) /\ f.op = "send" /\ f.p = p /\ f.li = li /\ f.i = i
    BY SendingIs
  <2>4. Apart(p) => Untold(f)
    BY <2>1, <2>3 DEF NotYet, Sends
  <2>5. i \in i .. Len(li)
    BY <2>1
  <2>6. Apart(p) => ~Contains(told[c], Message(p, li[i]))
    BY <2>2, <2>3, <2>4, <2>5 DEF Untold
  <2>7. told[c] \in Seq([p : Pubs, sid : Sids, topic : Topics, n : Nat]) /\ Message(p, li[i]) \in [p : Pubs, sid : Sids, topic : Topics, n : Nat]
    BY <2>1, MessageIs DEF TypeOK
  <2>8. Once(told[c])
    BY ToldOnceIs
  <2>9. Message(p, li[i]).p = p
    BY DEF Message
  <2> QED
    BY <2>2, <2>6, <2>7, <2>8, <2>9, AppendOnce
<1> QED
  BY <1>1, <1>2 DEF History, PublishedAt

\* The invariant of what has been told once.
LEMMA OnceInit == ASSUME Init PROVE NotYet /\ ToldOnce
<1>1. NotYet
  BY DEF Init, NotYet, In, Threads
<1>2. \A c \in Conns : told[c] = <<>>
  BY DEF Init
<1>3. ToldOnce
  BY <1>2, ToldOnceIs DEF Once
<1> QED
  BY <1>1, <1>3

LEMMA OnceNext == ASSUME Core, Told, NotYet, ToldOnce, [Next]_vars PROVE (NotYet /\ ToldOnce)'
<1>1. TypeOK /\ Tied /\ Frames /\ Single /\ ToldLate
  BY DEF Core, Tied, Told
<1>2. History
  BY <1>1, HistoryNext
<1> QED
  BY <1>1, <1>2, NotYetNext, ToldOnceNext

\* A connection is sent a publication once for each subscription it has to its two
\* topics, whoever is lost and whatever is published meanwhile, if these are two:
\* with one topic for both it is told twice.  A subscription repeated with the same
\* id is another subscription (StmpNet::subscribe, StmpNet::publishMsg).
THEOREM ToldOnceEach == Safety => []ToldOnce
<1>1. Init => NotYet /\ ToldOnce
  BY OnceInit
<1>2. (Core /\ Told /\ InOrder) /\ (NotYet /\ ToldOnce) /\ [Next]_vars => (NotYet /\ ToldOnce)'
  BY OnceNext
<1> QED
  BY <1>1, <1>2, ToldAlways, PTL DEF Safety

-----------------------------------------------------------------------------
(* All that were there are told.                                           *)

\* A lambda goes on where it is, or in its own way.
GoesOn(u, k, f) ==
  \/ In(u, k, f)'
  \/ u \in Workers /\ \E p \in Pubs, i \in Nat : \E li \in Seq(Entry) :
       \/ FindAt(u, k, p, li) /\ f = Lambda(p)
       \/ f = Sending("send", p, li, i) /\ (SendAt(u, k, p, li, i) \/ SendFailsAt(u, k, p, li, i))
       \/ f = Sending("unref", p, li, i) /\ UnrefAt(u, k, p, li, i)

LEMMA GoesSwap ==
  ASSUME Stacks, NEW t \in Threads, NEW n \in Nat, NEW g, NEW A, Swap(t, n, g, A),
         NEW u \in Threads, NEW k \in Nat, NEW f \in Frame, In(u, k, f)
  PROVE In(u, k, f)' \/ (u = t /\ k = n /\ f = g)
<1>1. In(t, n, g) /\ Moves(t, n, A)
  BY DEF Swap
<1>2. ~(u = t /\ k = n) => In(u, k, f)'
  BY <1>1 DEF Moves
<1>3. u = t /\ k = n => f = g
  BY <1>1 DEF In
<1> QED
  BY <1>2, <1>3

LEMMA GoesPush == ASSUME Stacks, NEW t \in Threads, NEW A, Push(t, A), NEW u \in Threads, NEW k \in Nat, NEW f \in Frame, In(u, k, f)
  PROVE In(u, k, f)'
<1>1. Topmost(t, 0) /\ Moves(t, 1, A)
  BY DEF Push
<1>2. ~(u = t /\ k = 1)
  BY <1>1 DEF Topmost
<1> QED
  BY <1>1, <1>2 DEF Moves

LEMMA GoesNext == ASSUME TypeOK, Frames, [Next]_vars, NEW u \in Threads, NEW k \in Nat, NEW f \in Frame, f.op \in {"find", "send", "unref"}, In(u, k, f)
  PROVE GoesOn(u, k, f)
<1>1. Stacks /\ \A w \in Workers : w \in Threads
  BY TypeParts DEF Threads
<1>2. ASSUME NEW t \in Threads, NEW n \in Nat, NEW g, g.op \notin {"find", "send", "unref"}, NEW A, Swap(t, n, g, A) PROVE GoesOn(u, k, f)
  BY <1>1, <1>2, GoesSwap DEF GoesOn
<1>3. ASSUME NEW t \in Threads, NEW A, Push(t, A) PROVE GoesOn(u, k, f)
  BY <1>1, <1>3, GoesPush DEF GoesOn
<1>4. CASE StackActs
  <2>1. ASSUME NEW t \in Threads, NEW n \in Nat, NEW p \in Pubs, NEW i \in Workers, HandAt(t, n, p, i) PROVE GoesOn(u, k, f)
    <3>1. PICK A : Swap(t, n, Publishing(p, i), A)
      BY <2>1 DEF HandAt
    <3> QED
      BY <1>2, <3>1 DEF Publishing
  <2>2. ASSUME NEW t \in Threads, NEW n \in Nat, NEW p \in Pubs, PublishedAt(t, n, p) PROVE GoesOn(u, k, f)
    BY <1>2, <2>2 DEF PublishedAt, Publishing
  <2>3. ASSUME NEW w \in Workers, NEW p \in Pubs, DoFutureAt(w, p) PROVE GoesOn(u, k, f)
    BY <1>1, <1>3, <2>3 DEF DoFutureAt
  <2>4. ASSUME NEW w \in Workers, NEW n \in Nat, NEW p \in Pubs, NEW i \in Nat, NEW li \in Seq(Entry),
               FindAt(w, n, p, li) \/ SendAt(w, n, p, li, i) \/ SendFailsAt(w, n, p, li, i) \/ UnrefAt(w, n, p, li, i)
        PROVE GoesOn(u, k, f)
    <3>1. CASE FindAt(w, n, p, li)
      <4>1. PICK A : Swap(w, n, Lambda(p), A)
        BY <3>1 DEF FindAt, OnwardAt
      <4>2. In(u, k, f)' \/ (u = w /\ k = n /\ f = Lambda(p))
        BY <1>1, <4>1, GoesSwap
      <4> QED
        BY <3>1, <4>2 DEF GoesOn
    <3>2. CASE SendAt(w, n, p, li, i) \/ SendFailsAt(w, n, p, li, i)
      <4>1. PICK A : Swap(w, n, Sending("send", p, li, i), A)
        BY <3>2 DEF SendAt, SendFailsAt, OnwardAt
      <4>2. In(u, k, f)' \/ (u = w /\ k = n /\ f = Sending("send", p, li, i))
        BY <1>1, <4>1, GoesSwap
      <4> QED
        BY <3>2, <4>2 DEF GoesOn
    <3>3. CASE UnrefAt(w, n, p, li, i)
      <4>1. PICK A : Swap(w, n, Sending("unref", p, li, i), A)
        BY <3>3 DEF UnrefAt, OnwardAt
      <4>2. In(u, k, f)' \/ (u = w /\ k = n /\ f = Sending("unref", p, li, i))
        BY <1>1, <4>1, GoesSwap
      <4> QED
        BY <3>3, <4>2 DEF GoesOn
    <3> QED
      BY <2>4, <3>1, <3>2, <3>3
  <2> QED
    BY <1>4, <2>1, <2>2, <2>3, <2>4 DEF StackActs
<1>5. CASE BeginActs
  <2>1. ASSUME NEW t \in Threads, NEW p \in Pubs, PublishAt(t, p) PROVE GoesOn(u, k, f)
    BY <1>3, <2>1 DEF PublishAt
  <2>2. ASSUME NEW w \in Workers, NEW n \in Nat, NEW c \in Conns, NEW p \in Pubs, DisPublishAt(w, n, c, p) PROVE GoesOn(u, k, f)
    <3>1. PICK A : Swap(w, n, On("dis", c), A)
      BY <2>2 DEF DisPublishAt
    <3> QED
      BY <1>1, <1>2, <3>1 DEF On
  <2> QED
    BY <1>5, <2>1, <2>2 DEF BeginActs
<1>6. CASE ConnActs
  <2>1. ASSUME NEW c \in Conns, HupAt(c) PROVE GoesOn(u, k, f)
    BY <1>1, <1>3, <2>1, PubSubAssumption DEF HupAt
  <2>2. ASSUME NEW w \in Workers, NEW n \in Nat, NEW c \in Conns, RecvAt(w, n, c) \/ DelAt(w, n, c) \/ DisAt(w, n, c) PROVE GoesOn(u, k, f)
    <3>1. PICK op \in {"recv", "del", "dis"} : Swap(w, n, On(op, c), {})
      BY <2>2 DEF RecvAt, DelAt, DisAt
    <3> QED
      BY <1>1, <1>2, <3>1 DEF On
  <2>3. ASSUME NEW w \in Workers, NEW n \in Nat, NEW c \in Conns, NEW d \in Conns, DisCloseAt(w, n, c, d) PROVE GoesOn(u, k, f)
    <3>1. PICK A : Swap(w, n, On("dis", c), A)
      BY <2>3 DEF DisCloseAt
    <3> QED
      BY <1>1, <1>2, <3>1 DEF On
  <2> QED
    BY <1>6, <2>1, <2>2, <2>3 DEF ConnActs
<1>7. CASE ListActs
  <2>1. UNCHANGED stack
    BY <1>7 DEF ListActs, UnSubscribe, Subscribe, vars
  <2> QED
    BY <2>1 DEF GoesOn, In
<1> QED
  BY <1>4, <1>5, <1>6, <1>7, NextIs

-----------------------------------------------------------------------------
(* What is due, and the lists.                                             *)

\* A connection that is lost stays lost.
LEMMA EstNext == ASSUME TypeOK, Tied, [Next]_vars, NEW d \in Conns, conn'[d].est PROVE conn[d].est
<1>1. ConnType /\ Frames
  BY TypeParts DEF Tied
<1>2. CASE StackActs
  <2>1. ASSUME NEW w \in Workers, NEW n \in Nat, NEW p \in Pubs, NEW li \in Seq(Entry), FindAt(w, n, p, li) PROVE conn[d].est
    BY <1>1, <2>1, RefConn DEF FindAt
  <2>2. ASSUME NEW w \in Workers, NEW n \in Nat, NEW p \in Pubs, NEW i \in Nat, NEW li \in Seq(Entry),
               SendAt(w, n, p, li, i) \/ UnrefAt(w, n, p, li, i)
        PROVE conn[d].est
    <3>1. li[i].c \in Conns
      BY <2>2, EntryIs DEF SendAt, UnrefAt
    <3>2. conn' = unRef(li[i].c)
      BY <2>2 DEF SendAt, UnrefAt
    <3> QED
      BY <1>1, <3>1, <3>2, UnRefConn
  <2>3. ASSUME NEW w \in Workers, NEW n \in Nat, NEW p \in Pubs, NEW i \in Nat, NEW li \in Seq(Entry), SendFailsAt(w, n, p, li, i)
        PROVE conn[d].est
    <3>1. li[i].c \in Conns
      BY <2>3, EntryIs DEF SendFailsAt
    <3> QED
      BY <1>1, <2>3, <3>1, LoseConn DEF SendFailsAt
  <2> QED
    BY <1>2, <2>1, <2>2, <2>3 DEF StackActs, HandAt, PublishedAt, DoFutureAt
<1>3. CASE BeginActs
  BY <1>3 DEF BeginActs, PublishAt, DisPublishAt
<1>4. CASE ConnActs
  <2>1. ASSUME NEW c \in Conns, HupAt(c) PROVE conn[d].est
    BY <1>1, <2>1, HupConn DEF HupAt
  <2>2. ASSUME NEW w \in Workers, NEW n \in Nat, NEW c \in Conns, RecvAt(w, n, c) PROVE conn[d].est
    BY <1>1, <2>2, UnRefConn DEF RecvAt
  <2>3. ASSUME NEW w \in Workers, NEW n \in Nat, NEW c \in Conns, DelAt(w, n, c) \/ DisAt(w, n, c) PROVE conn[d].est
    BY <1>1, <2>3, DelConn DEF DelAt, DisAt
  <2>4. ASSUME NEW w \in Workers, NEW n \in Nat, NEW c \in Conns, NEW b \in Conns, DisCloseAt(w, n, c, b) PROVE conn[d].est
    BY <1>1, <2>4, LoseConn DEF DisCloseAt
  <2> QED
    BY <1>4, <2>1, <2>2, <2>3, <2>4 DEF ConnActs
<1>5. CASE ListActs
  BY <1>5 DEF ListActs, UnSubscribe, Subscribe, vars
<1> QED
  BY <1>1, <1>2, <1>3, <1>4, <1>5, NextIs

\* e is on its list.
Listed(e) == Contains(subscribers[Home[e.c]][e.topic], e)

\* What is still due is on its list if it was.
DueKept(q) == \A e \in due'[q] : e \in due[q] /\ (Listed(e) => Listed(e)')

\* A connection goes off the lists, and what it was due with it.
LEMMA UndueKept == ASSUME TypeOK, Lists, NEW c \in Conns, subscribers' = unSubscribe(c), NEW q \in Pubs, due'[q] = Undue(c)[q]
  PROVE DueKept(q)
<1> SUFFICES ASSUME NEW e \in due'[q] PROVE e \in due[q] /\ (Listed(e) => Listed(e)')
  BY DEF DueKept
<1>1. e \in due[q] /\ e.c # c
  BY DEF Undue
<1>2. e \in Entry
  BY <1>1 DEF TypeOK
<1>3. Home[e.c] \in Workers /\ e.topic \in Topics
  BY <1>2, PubSubAssumption DEF Entry
<1> QED
  BY <1>1, <1>3, UnSubscribed DEF Listed

LEMMA SameKept == ASSUME UNCHANGED subscribers, NEW q, due'[q] = due[q] PROVE DueKept(q)
BY DEF DueKept, Listed

LEMMA SubscribeKept == ASSUME TypeOK, NEW c \in Conns, NEW t \in Topics, NEW sid \in Sids, Subscribe(c, t, sid), NEW q \in Pubs
  PROVE DueKept(q)
<1>1. PICK h \in Workers : h = Home[c]
  BY PubSubAssumption
<1>2. PICK li \in Seq(Entry) : li = subscribers[h][t]
  BY <1>1, TypeParts
<1>3. PICK x \in Entry : SubscribeAt(c, h, t, li, x)
  BY <1>1, <1>2, SubscribeIs
<1>4. subscribers' = [subscribers EXCEPT ![h][t] = Append(li, x)] /\ due' = due
  BY <1>3 DEF SubscribeAt, history
<1>5. \A w \in Workers, s \in Topics : subscribers'[w][s] = subscribers[w][s] \/ (w = h /\ s = t /\ subscribers'[w][s] = Append(li, x))
  BY <1>4 DEF TypeOK
<1>6. \A e : Contains(li, e) => Contains(Append(li, x), e)
  BY <1>2, AppendContains
<1>7. \A w \in Workers, s \in Topics : \A e : Contains(subscribers[w][s], e) => Contains(subscribers'[w][s], e)
  BY <1>2, <1>5, <1>6
<1>8. due[q] \in SUBSET Entry
  BY DEF TypeOK
<1>9. \A e \in due[q] : Home[e.c] \in Workers /\ e.topic \in Topics
  BY <1>8, PubSubAssumption DEF Entry
<1> QED
  BY <1>4, <1>7, <1>9 DEF DueKept, Listed

\* A publication begins, and what others are due is as rest says.
LEMMA CreateIs == ASSUME NEW t, NEW p \in Pubs, NEW lists, NEW rest, Create(t, p, lists, rest), rest \in [Pubs -> SUBSET Entry]
  PROVE /\ pub[p].life = "unborn"
        /\ due'[p] = Subscribed(p, lists)
        /\ \A q \in Pubs : q # p => due'[q] = rest[q]
BY DEF Create

\* What is due of a publication that has begun.
LEMMA DueKeptNext == ASSUME TypeOK, Tied, [Next]_vars, NEW q \in Pubs, pub[q].life # "unborn" PROVE DueKept(q)
<1>1. Frames /\ Lists /\ DueT
  BY DEF Tied, TypeOK, DueT
<1>2. CASE StackActs
  <2>1. ASSUME NEW w \in Workers, NEW n \in Nat, NEW p \in Pubs, NEW i \in Nat, NEW li \in Seq(Entry),
               FindAt(w, n, p, li) \/ SendAt(w, n, p, li, i) \/ SendFailsAt(w, n, p, li, i) \/ UnrefAt(w, n, p, li, i)
        PROVE UNCHANGED <<subscribers, due>>
    BY <2>1 DEF FindAt, SendAt, SendFailsAt, UnrefAt, history
  <2>2. UNCHANGED <<subscribers, due>>
    BY <1>2, <2>1 DEF StackActs, HandAt, PublishedAt, DoFutureAt, history
  <2> QED
    BY <2>2, SameKept
<1>3. CASE BeginActs
  <2>1. ASSUME NEW t \in Threads, NEW p \in Pubs, PublishAt(t, p) PROVE DueKept(q)
    <3>1. UNCHANGED subscribers /\ Create(t, p, subscribers, due)
      BY <2>1 DEF PublishAt
    <3>2. due'[q] = due[q]
      BY <1>1, <3>1, CreateIs DEF DueT
    <3> QED
      BY <3>1, <3>2, SameKept
  <2>2. ASSUME NEW w \in Workers, NEW n \in Nat, NEW c \in Conns, NEW p \in Pubs, DisPublishAt(w, n, c, p) PROVE DueKept(q)
    <3>1. subscribers' = unSubscribe(c) /\ Create(w, p, unSubscribe(c), Undue(c))
      BY <2>2 DEF DisPublishAt
    <3>2. due'[q] = Undue(c)[q]
      BY <1>1, <3>1, CreateIs, UndueShape
    <3> QED
      BY <1>1, <3>1, <3>2, UndueKept
  <2> QED
    BY <1>3, <2>1, <2>2 DEF BeginActs
<1>4. CASE ConnActs
  <2>1. UNCHANGED <<subscribers, due>> \/ \E c \in Conns : subscribers' = unSubscribe(c) /\ due' = Undue(c)
    BY <1>4 DEF ConnActs, HupAt, RecvAt, DelAt, DisAt, DisCloseAt, Delisted, Released, history
  <2> QED
    BY <1>1, <2>1, SameKept, UndueKept
<1>5. CASE ListActs
  <2>1. CASE UNCHANGED vars
    BY <2>1, SameKept DEF vars, history
  <2>2. ASSUME NEW c \in Conns, UnSubscribe(c) PROVE DueKept(q)
    BY <1>1, <2>2, UndueKept DEF UnSubscribe
  <2> QED
    BY <1>5, <2>1, <2>2, SubscribeKept DEF ListActs
<1> QED
  BY <1>1, <1>2, <1>3, <1>4, <1>5, NextIs

\* Only publishMsg begins a publication.
LEMMA UnbornElse ==
  ASSUME TypeOK, Single, StackActs \/ ConnActs \/ ListActs, NEW q \in Pubs, pub[q].life = "unborn"
  PROVE pub'[q].life = "unborn"
<1>1. ASSUME NEW w \in Workers, NEW n \in Nat, NEW f \in Frame, NEW p \in Pubs, NEW li, NEW i, f \in LamFrames(p), OnwardAt(w, n, f, p, li, i)
      PROVE pub'[q].life = "unborn"
  <2>1. CASE UNCHANGED pub
    BY <2>1
  <2>2. CASE Count(p)
    <3>1. InLambda(w, p)
      BY <1>1 DEF OnwardAt, Swap, InLambda, Has
    <3>2. p # q
      BY <3>1 DEF Single, Unborn
    <3> QED
      BY <2>2, <3>2, CountIs
  <2> QED
    BY <1>1, <2>1, <2>2 DEF OnwardAt
<1>2. CASE StackActs
  <2>1. ASSUME NEW w \in Workers, NEW n \in Nat, NEW p \in Pubs, NEW li \in Seq(Entry), FindAt(w, n, p, li) PROVE pub'[q].life = "unborn"
    <3>1. Lambda(p) \in Frame /\ Lambda(p) \in LamFrames(p)
      BY LambdaIs DEF LamFrames
    <3> QED
      BY <1>1, <2>1, <3>1 DEF FindAt
  <2>2. ASSUME NEW w \in Workers, NEW n \in Nat, NEW p \in Pubs, NEW i \in Nat, NEW li \in Seq(Entry), SendAt(w, n, p, li, i)
        PROVE pub'[q].life = "unborn"
    <3>1. Sending("send", p, li, i) \in Frame /\ Sending("send", p, li, i) \in LamFrames(p)
      BY SendingIs DEF LamFrames
    <3> QED
      BY <1>1, <2>2, <3>1 DEF SendAt
  <2>3. ASSUME NEW w \in Workers, NEW n \in Nat, NEW p \in Pubs, NEW i \in Nat, NEW li \in Seq(Entry), UnrefAt(w, n, p, li, i)
        PROVE pub'[q].life = "unborn"
    <3>1. Sending("unref", p, li, i) \in Frame /\ Sending("unref", p, li, i) \in LamFrames(p)
      BY SendingIs DEF LamFrames
    <3> QED
      BY <1>1, <2>3, <3>1 DEF UnrefAt
  <2>4. ASSUME NEW w \in Workers, NEW n \in Nat, NEW p \in Pubs, NEW i \in Nat, NEW li \in Seq(Entry), SendFailsAt(w, n, p, li, i)
        PROVE pub'[q].life = "unborn"
    BY <2>4 DEF SendFailsAt
  <2> QED
    BY <1>2, <2>1, <2>2, <2>3, <2>4 DEF StackActs, HandAt, PublishedAt, DoFutureAt
<1>3. CASE ConnActs
  BY <1>3 DEF ConnActs, HupAt, RecvAt, DelAt, DisAt, DisCloseAt
<1>4. CASE ListActs
  BY <1>4 DEF ListActs, UnSubscribe, Subscribe, vars
<1> QED
  BY <1>2, <1>3, <1>4

\* e is of a topic of p.
OfTopic(p, e) == e.topic \in {Of[p][1], Of[p][2]}

\* What is due of a publication that begins: whoever is on its lists.
LEMMA BeginsDue ==
  ASSUME TypeOK, Lists', SubsT', NEW t \in Threads, NEW p \in Pubs, Begins(t, p), due'[p] = Subscribed(p, subscribers'), NEW e \in due'[p]
  PROVE e \in Entry /\ OfTopic(p, e) /\ Listed(e)' /\ Awaits(Home[e.c], p)'
<1>1. PICK w \in Workers, k \in 1 .. 2 : e \in ToSet(subscribers'[w][Of[p][k]])
  BY DEF Subscribed
<1>2. PICK s \in Topics : s = Of[p][k] /\ s \in {Of[p][1], Of[p][2]}
  BY PubSubAssumption
<1>3. PICK li \in Seq(Entry) : li = subscribers'[w][s]
  BY DEF SubsT
<1>4. PICK j \in DOMAIN li : e = li[j]
  BY <1>1, <1>2, <1>3 DEF ToSet
<1>5. Home[e.c] = w /\ e.topic = s
  BY <1>3, <1>4 DEF Lists, ListOK
<1>6. e \in Entry /\ Contains(li, e)
  BY <1>4 DEF Contains
<1>7. Has(t, PubFrames(p, w))'
  <2>1. w \in 1 .. N + 1
    BY PubSubAssumption DEF Workers
  <2>2. \A v \in 1 .. N + 1 : Has(t, PubFrames(p, v))' <=> t = t \/ Has(t, PubFrames(p, v))
    BY DEF Begins
  <2> QED
    BY <2>1, <2>2
<1>8. Awaits(w, p)'
  BY <1>7 DEF Awaits, Unhanded
<1> QED
  BY <1>2, <1>3, <1>5, <1>6, <1>8 DEF Listed, OfTopic

LEMMA DueBegins ==
  ASSUME Core, [Next]_vars, NEW q \in Pubs, pub[q].life = "unborn", pub'[q].life # "unborn", NEW e \in due'[q]
  PROVE e \in Entry /\ OfTopic(q, e) /\ Listed(e)' /\ Awaits(Home[e.c], q)'
<1>1. TypeOK /\ Single /\ Frames /\ DueT /\ Core'
  BY CoreNext DEF Core, Tied, TypeOK, DueT
<1>2. Lists' /\ SubsT'
  BY <1>1 DEF Core, Tied, TypeOK, SubsT
<1>3. BeginActs
  BY <1>1, UnbornElse, NextIs
<1>4. ASSUME NEW p \in Pubs, NEW t \in Threads, Begins(t, p) PROVE p = q
  BY <1>4, <1>1 DEF Begins, TypeOK
<1>5. ASSUME NEW t \in Threads, NEW p \in Pubs, PublishAt(t, p) PROVE Begins(t, q) /\ due'[q] = Subscribed(q, subscribers')
  <2>1. Begins(t, p) /\ p = q
    BY <1>1, <1>4, <1>5, BeginsPublish
  <2>2. subscribers' = subscribers /\ Create(t, q, subscribers, due)
    BY <1>5, <2>1 DEF PublishAt
  <2> QED
    BY <1>1, <2>1, <2>2, CreateIs DEF DueT
<1>6. ASSUME NEW w \in Workers, NEW n \in Nat, NEW c \in Conns, NEW p \in Pubs, Home[c] = w, DisPublishAt(w, n, c, p)
      PROVE w \in Threads /\ Begins(w, q) /\ due'[q] = Subscribed(q, subscribers')
  <2>1. w \in Threads /\ Begins(w, p)
    BY <1>1, <1>6, BeginsDisPublish DEF Threads
  <2>2. p = q
    BY <1>4, <2>1
  <2>3. subscribers' = unSubscribe(c) /\ Create(w, q, unSubscribe(c), Undue(c))
    BY <1>6, <2>2 DEF DisPublishAt
  <2> QED
    BY <1>1, <2>1, <2>2, <2>3, CreateIs, UndueShape
<1>7. PICK t \in Threads : Begins(t, q) /\ due'[q] = Subscribed(q, subscribers')
  BY <1>3, <1>5, <1>6 DEF BeginActs
<1> QED
  BY <1>1, <1>2, <1>7, BeginsDue

-----------------------------------------------------------------------------
(* Whoever is due is on the way to being told.                             *)

LEMMA SwapIn == ASSUME NEW t \in Threads, NEW n \in Nat, NEW f, NEW A, Swap(t, n, f, A), NEW k \in Nat, NEW g \in Frame, <<k, g>> \in A
  PROVE In(t, k, g)'
BY DEF Swap, Moves

\* A lambda has yet to send e's message.
Copied(p, e) == \E k \in Nat, f \in Frame :
  In(Home[e.c], k, f) /\ Sends(f) /\ f.p = p /\ \E j \in f.i .. Len(f.li) : f.li[j] = e

\* A lambda goes on with what is left of its copy.
LEMMA CopiedOnward ==
  ASSUME NEW w \in Workers, NEW n \in Nat, NEW f \in Frame, NEW p \in Pubs, NEW li \in Seq(Entry), NEW i \in Nat,
         OnwardAt(w, n, f, p, li, i), NEW j \in i .. Len(li), Home[li[j].c] = w
  PROVE Copied(p, li[j])'
<1>1. i <= Len(li) /\ w \in Threads
  BY DEF Threads
<1>2. Swap(w, n, f, {<<n, Sending("send", p, li, i)>>})
  BY <1>1 DEF OnwardAt
<1>3. PICK g \in Frame : g = Sending("send", p, li, i) /\ g.op = "send" /\ g.p = p /\ g.li = li /\ g.i = i
  BY SendingIs
<1>4. In(w, n, g)'
  BY <1>1, <1>2, <1>3, SwapIn
<1>5. Sends(g) /\ \E l \in g.i .. Len(g.li) : g.li[l] = li[j]
  BY <1>3 DEF Sends
<1> QED
  BY <1>3, <1>4, <1>5 DEF Copied

\* Whom a lambda has in its copy is sent the message, unless it is lost first.
LEMMA CopiedNext ==
  ASSUME TypeOK, Tied, Single, [Next]_vars, NEW p \in Pubs, NEW e \in Entry, Copied(p, e), conn'[e.c].est
  PROVE Copied(p, e)' \/ Contains(told'[e.c], Message(p, e))
<1>1. PICK k \in Nat, f \in Frame : In(Home[e.c], k, f) /\ Sends(f) /\ f.p = p /\ \E l \in f.i .. Len(f.li) : f.li[l] = e
  BY DEF Copied
<1>2. PICK j \in f.i .. Len(f.li) : f.li[j] = e
  BY <1>1
<1>3. PICK w \in Workers : w = Home[e.c]
  BY PubSubAssumption DEF Entry
<1>4. w \in Threads /\ Frames /\ Stacks /\ e.c \in Conns
  BY TypeParts DEF Threads, Tied, Entry
<1>5. In(w, k, f)' => Copied(p, e)'
  BY <1>1, <1>3 DEF Copied
<1>6. f.op \in {"send", "unref"} /\ FrameOK(w, f)
  BY <1>1, <1>3, <1>4 DEF Sends, Frames
<1>7. conn[e.c].est
  BY <1>4, EstNext
<1>8. ASSUME NEW i \in Nat, NEW li \in Seq(Entry), f.li = li, f.i = i, NEW g \in Frame, OnwardAt(w, k, g, p, li, i + 1), j # i
      PROVE Copied(p, e)'
  <2>1. j \in i + 1 .. Len(li) /\ li[j] = e
    BY <1>2, <1>8
  <2> QED
    BY <1>3, <1>8, <2>1, CopiedOnward
<1>9. ASSUME NEW q \in Pubs, NEW i \in Nat, NEW li \in Seq(Entry), f = Sending("send", q, li, i), SendAt(w, k, q, li, i)
      PROVE Copied(p, e)' \/ Contains(told'[e.c], Message(p, e))
  <2>1. q = p /\ f.li = li /\ f.i = i
    BY <1>1, <1>9, SendingIs
  <2>2. CASE j # i
    BY <1>8, <1>9, <2>1, <2>2 DEF SendAt
  <2>3. CASE j = i
    <3>1. li[i] = e
      BY <1>2, <2>1, <2>3
    <3>2. told'[e.c] = Append(told[e.c], Message(p, e))
      <4>1. SendAt(w, k, p, li, i)
        BY <1>9, <2>1
      <4>2. Tells(w, k, p, li, i)
        BY <4>1, SendTells
      <4> QED
        BY <1>7, <3>1, <4>2 DEF Tells
    <3>3. PICK M : M = [p : Pubs, sid : Sids, topic : Topics, n : Nat]
      OBVIOUS
    <3>4. PICK s \in Seq(M), x \in M : s = told[e.c] /\ x = Message(p, e)
      BY <1>4, <3>3, MessageIs DEF TypeOK
    <3>5. Contains(Append(s, x), x)
      BY AppendContains
    <3> QED
      BY <3>2, <3>4, <3>5
  <2> QED
    BY <2>2, <2>3
<1>10. ASSUME NEW q \in Pubs, NEW i \in Nat, NEW li \in Seq(Entry), f = Sending("send", q, li, i), SendFailsAt(w, k, q, li, i)
       PROVE Copied(p, e)'
  <2>1. q = p /\ f.li = li /\ f.i = i
    BY <1>1, <1>10, SendingIs
  <2>2. PICK g \in Frame : g = Sending("unref", p, li, i) /\ g.op = "unref" /\ g.p = p /\ g.li = li /\ g.i = i
    BY SendingIs
  <2>3. PICK A : Swap(w, k, Sending("send", p, li, i), A) /\ <<k, g>> \in A
    BY <1>10, <2>1, <2>2 DEF SendFailsAt
  <2>4. In(w, k, g)'
    BY <1>4, <2>3, SwapIn
  <2>5. Sends(g) /\ \E l \in g.i .. Len(g.li) : g.li[l] = e
    BY <1>2, <2>1, <2>2 DEF Sends
  <2> QED
    BY <1>3, <2>2, <2>4, <2>5 DEF Copied
<1>11. ASSUME NEW q \in Pubs, NEW i \in Nat, NEW li \in Seq(Entry), f = Sending("unref", q, li, i), UnrefAt(w, k, q, li, i)
       PROVE Copied(p, e)'
  <2>1. q = p /\ f.li = li /\ f.i = i /\ f.op = "unref"
    BY <1>1, <1>11, SendingIs
  <2>2. j # i
    BY <1>2, <1>6, <1>7, <2>1 DEF FrameOK
  <2> QED
    BY <1>8, <1>11, <2>1, <2>2 DEF UnrefAt
<1>12. ASSUME NEW q \in Pubs, f = Lambda(q) PROVE FALSE
  BY <1>6, <1>12 DEF Lambda
<1>13. GoesOn(w, k, f)
  BY <1>1, <1>3, <1>4, <1>6, GoesNext
<1> QED
  BY <1>5, <1>9, <1>10, <1>11, <1>12, <1>13 DEF GoesOn

\* A publication that is yet to come to a worker has come no further in a step than
\* to its lambda.
LEMMA UnhandedNext ==
  ASSUME TypeOK, Single, Effects, NEW p \in Pubs, pub[p].life # "unborn", NEW w \in Workers, Unhanded(w, p) \/ Queued(w, p)
  PROVE Awaits(w, p)'
<1>1. w \in Threads /\ w \in 1 .. N + 1 /\ QueuesOnce
  BY PubSubAssumption DEF Threads, Workers, Single, OneLambda, QueuesOnce
<1>2. ASSUME Alike(p), Queued(w, p) => Queued(w, p)' PROVE Awaits(w, p)'
  BY <1>2, AlikeIs DEF Awaits
<1>3. UNCHANGED queue => (Queued(w, p) => Queued(w, p)')
  BY DEF Queued
<1>4. CASE Quiet
  BY <1>2, <1>3, <1>4 DEF Quiet
<1>5. ASSUME NEW t \in Threads, NEW q \in Pubs, Begins(t, q) PROVE Awaits(w, p)'
  BY <1>2, <1>3, <1>5 DEF Begins
<1>6. ASSUME NEW t \in Threads, NEW q \in Pubs, Stops(t, q) PROVE Awaits(w, p)'
  <2>1. CASE q # p
    BY <1>2, <1>3, <1>6, <2>1 DEF Stops
  <2>2. CASE q = p
    <3>1. Unhanded(w, p)' <=> Unhanded(w, p)
      BY <1>6, <2>2 DEF Stops, Unhanded
    <3> QED
      BY <1>3, <1>6, <3>1 DEF Stops, Awaits
  <2> QED
    BY <2>1, <2>2
<1>7. ASSUME NEW t \in Threads, NEW q \in Pubs, NEW i \in Workers, Hands(t, q, i) PROVE Awaits(w, p)'
  <2>1. i # t => Queued(i, q)' /\ (Queued(w, p) => Queued(w, p)')
    <3> SUFFICES ASSUME i # t PROVE Queued(i, q)' /\ (Queued(w, p) => Queued(w, p)')
      OBVIOUS
    <3>1. queue' = [queue EXCEPT ![i] = Append(@, q)]
      BY <1>7 DEF Hands
    <3>2. queue'[i] = Append(queue[i], q) /\ \A v \in Workers : v # i => queue'[v] = queue[v]
      BY <3>1 DEF TypeOK
    <3>3. queue[i] \in Seq(Pubs)
      BY DEF TypeOK
    <3>4. \A r : Contains(queue'[i], r) <=> Contains(queue[i], r) \/ r = q
      BY <3>2, <3>3, AppendContains
    <3> QED
      BY <3>2, <3>4 DEF Queued
  <2>2. i = t => UNCHANGED queue
    BY <1>7 DEF Hands
  <2>3. Queued(w, p) => Queued(w, p)'
    BY <1>3, <2>1, <2>2
  <2>4. CASE q # p
    BY <1>2, <1>7, <2>3, <2>4 DEF Hands
  <2>5. CASE q = p /\ w # i
    <3>1. \A u \in Threads : Has(u, PubFrames(p, w))' <=> Has(u, PubFrames(p, w))
      BY <1>1, <1>7, <2>5 DEF Hands
    <3>2. Unhanded(w, p)' <=> Unhanded(w, p)
      BY <3>1 DEF Unhanded
    <3> QED
      BY <2>3, <3>2 DEF Awaits
  <2>6. CASE q = p /\ w = i
    <3>1. i = t => Has(t, FindFrames(p))'
      BY <1>7, <2>6 DEF Hands
    <3> QED
      BY <2>1, <2>6, <3>1 DEF Awaits
  <2> QED
    BY <2>4, <2>5, <2>6
<1>8. ASSUME NEW v \in Workers, NEW q \in Pubs, Takes(v, q) PROVE Awaits(w, p)'
  <2>1. Queued(w, p)' <=> Queued(w, p) /\ ~(w = v /\ p = q)
    BY <1>1, <1>8, QueueLess DEF Takes
  <2>2. CASE q # p
    BY <1>2, <1>8, <2>1, <2>2 DEF Takes
  <2>3. CASE q = p
    <3>1. Unhanded(w, p)' <=> Unhanded(w, p)
      BY <1>1, <1>8, <2>3 DEF Takes, Unhanded
    <3>2. Has(v, FindFrames(p))'
      BY <1>8, <2>3 DEF Takes
    <3> QED
      BY <2>1, <3>1, <3>2 DEF Awaits
  <2> QED
    BY <2>2, <2>3
<1>9. ASSUME NEW v \in Workers, NEW q \in Pubs, Finishes(v, q) PROVE Awaits(w, p)'
  <2>1. CASE q # p
    BY <1>2, <1>3, <1>9, <2>1 DEF Finishes
  <2>2. CASE q = p
    <3>1. Unhanded(w, p)' <=> Unhanded(w, p)
      BY <1>1, <1>9, <2>2 DEF Finishes, Unhanded
    <3> QED
      BY <1>3, <1>9, <3>1 DEF Finishes, Awaits
  <2> QED
    BY <2>1, <2>2
<1> QED
  BY <1>4, <1>5, <1>6, <1>7, <1>8, <1>9 DEF Effects

\* Whoever is on a list when the lambda copies it is in the copy.
LEMMA CopyHas == ASSUME TypeOK, NEW w \in Workers, NEW p \in Pubs, NEW e, Contains(subscribers[w][e.topic], e), OfTopic(p, e)
  PROVE \E j \in 1 .. Len(Copy(w, p)) : Copy(w, p)[j] = e
<1>1. PICK a \in Seq(Entry), b \in Seq(Entry) : a = subscribers[w][Of[p][1]] /\ b = subscribers[w][Of[p][2]]
  BY CopyType
<1>2. Copy(w, p) = a \o b
  BY <1>1 DEF Copy
<1>3. CASE Contains(a, e)
  <2>1. PICK j \in 1 .. Len(a) : a[j] = e
    BY <1>3 DEF Contains
  <2>2. j \in 1 .. Len(a \o b) /\ (a \o b)[j] = e
    BY <2>1
  <2> QED
    BY <1>2, <2>2
<1>4. CASE Contains(b, e)
  <2>1. PICK j \in 1 .. Len(b) : b[j] = e
    BY <1>4 DEF Contains
  <2>2. Len(a) + j \in 1 .. Len(a \o b) /\ (a \o b)[Len(a) + j] = e
    BY <2>1
  <2> QED
    BY <1>2, <2>2
<1> QED
  BY <1>1, <1>3, <1>4 DEF OfTopic

\* Whoever is on a list is so until the lambda copies it.
LEMMA AwaitsNext ==
  ASSUME TypeOK, Tied, Single, [Next]_vars, NEW p \in Pubs, pub[p].life # "unborn", NEW e \in Entry,
         Awaits(Home[e.c], p), Listed(e), OfTopic(p, e)
  PROVE Awaits(Home[e.c], p)' \/ Copied(p, e)'
<1>1. PICK w \in Workers : w = Home[e.c]
  BY PubSubAssumption DEF Entry
<1>2. Frames /\ Effects /\ w \in Threads
  BY EffectNext DEF Tied, Threads
<1>3. CASE Unhanded(w, p) \/ Queued(w, p)
  BY <1>1, <1>2, <1>3, UnhandedNext
<1>4. ASSUME NEW k \in Nat, NEW f \in FindFrames(p), In(w, k, f) PROVE Awaits(w, p)' \/ Copied(p, e)'
  <2>1. f \in Frame /\ f.op = "find" /\ f.p = p
    BY DEF FindFrames
  <2>2. In(w, k, f)' => Awaits(w, p)'
    BY DEF Awaits, Has
  <2>3. ASSUME NEW q \in Pubs, NEW li \in Seq(Entry), FindAt(w, k, q, li), f = Lambda(q) PROVE Copied(p, e)'
    <3>1. q = p
      BY <2>1, <2>3 DEF Lambda
    <3>2. li = Copy(w, p) /\ OnwardAt(w, k, Lambda(p), p, li, 1)
      BY <2>3, <3>1 DEF FindAt
    <3>3. PICK j \in 1 .. Len(li) : li[j] = e
      BY <1>1, <3>2, CopyHas DEF Listed
    <3>4. Lambda(p) \in Frame /\ Home[li[j].c] = w
      BY <1>1, <3>3, LambdaIs
    <3> QED
      BY <3>2, <3>3, <3>4, CopiedOnward
  <2>4. ASSUME NEW op, NEW q, NEW li, NEW i, f = Sending(op, q, li, i), op # "find" PROVE FALSE
    BY <2>1, <2>4 DEF Sending
  <2>5. GoesOn(w, k, f)
    BY <1>2, <1>4, <2>1, GoesNext
  <2> QED
    BY <2>2, <2>3, <2>4, <2>5 DEF GoesOn
<1> QED
  BY <1>1, <1>3, <1>4 DEF Awaits, Has

\* Whoever was there is told, or is in the copy of a lambda, or is on a list that
\* a lambda has yet to copy; or has unsubscribed, or is lost.
OnTheWay(p, e) ==
  \/ Contains(told[e.c], Message(p, e))
  \/ Copied(p, e)
  \/ Awaits(Home[e.c], p) /\ Listed(e) /\ OfTopic(p, e)

DueSoon == \A p \in Pubs : pub[p].life # "unborn" => \A e \in due[p] : conn[e.c].est => OnTheWay(p, e)

LEMMA DueInit == ASSUME Init PROVE DueSoon
BY DEF Init, DueSoon

LEMMA ToldKept == ASSUME TypeOK, Tied, Single, History, NEW c \in Conns, NEW m, Contains(told[c], m) PROVE Contains(told'[c], m)
<1>1. CASE told'[c] = told[c]
  BY <1>1
<1>2. ASSUME NEW w \in Workers, NEW n \in Nat, NEW p \in Pubs, NEW i \in Nat, NEW li \in Seq(Entry), SendAt(w, n, p, li, i), told'[c] # told[c]
      PROVE Contains(told'[c], m)
  <2>1. li[i] \in Entry /\ told'[c] = Append(told[c], Message(p, li[i]))
    <3>1. Tells(w, n, p, li, i)
      BY <1>2, SendTells
    <3> QED
      BY <1>2, <3>1 DEF Tells
  <2>2. PICK M : M = [p : Pubs, sid : Sids, topic : Topics, n : Nat]
    OBVIOUS
  <2>3. PICK s \in Seq(M), x \in M : s = told[c] /\ x = Message(p, li[i])
    BY <2>1, <2>2, MessageIs DEF TypeOK
  <2>4. \A y : Contains(Append(s, x), y) <=> Contains(s, y) \/ y = x
    BY AppendContains
  <2> QED
    BY <2>1, <2>3, <2>4
<1> QED
  BY <1>1, <1>2 DEF History, PublishedAt

LEMMA DueNext == ASSUME Core, DueSoon, [Next]_vars PROVE DueSoon'
<1>1. TypeOK /\ Tied /\ Frames /\ Single /\ Core' /\ TypeOK'
  BY CoreNext DEF Core, Tied
<1>2. History
  BY <1>1, HistoryNext
<1> SUFFICES ASSUME NEW p \in Pubs, pub'[p].life # "unborn", NEW e \in due'[p], conn'[e.c].est PROVE OnTheWay(p, e)'
  BY DEF DueSoon
<1>3. CASE pub[p].life = "unborn"
  BY <1>3, DueBegins DEF OnTheWay, OfTopic
<1>4. CASE pub[p].life # "unborn"
  <2>1. e \in due[p] /\ (Listed(e) => Listed(e)')
    BY <1>1, <1>4, DueKeptNext DEF DueKept
  <2>2. due[p] \in SUBSET Entry
    BY <1>1 DEF TypeOK
  <2>3. e \in Entry /\ e.c \in Conns
    BY <2>1, <2>2 DEF Entry
  <2>4. OnTheWay(p, e)
    BY <1>1, <1>4, <2>1, <2>3, EstNext DEF DueSoon
  <2>5. CASE Contains(told[e.c], Message(p, e))
    <3>1. Contains(told'[e.c], Message(p, e))
      BY <1>1, <1>2, <2>3, <2>5, ToldKept
    <3>2. Message(p, e)' = Message(p, e)
      BY DEF Message
    <3> QED
      BY <3>1, <3>2 DEF OnTheWay
  <2>6. CASE Copied(p, e)
    <3>1. Copied(p, e)' \/ Contains(told'[e.c], Message(p, e))
      BY <1>1, <2>3, <2>6, CopiedNext
    <3>2. Message(p, e)' = Message(p, e)
      BY DEF Message
    <3> QED
      BY <3>1, <3>2 DEF OnTheWay
  <2>7. CASE Awaits(Home[e.c], p) /\ Listed(e) /\ OfTopic(p, e)
    <3>1. Awaits(Home[e.c], p)' \/ Copied(p, e)'
      BY <1>1, <1>4, <2>3, <2>7, AwaitsNext
    <3> QED
      BY <2>1, <2>7, <3>1 DEF OnTheWay, OfTopic
  <2> QED
    BY <2>4, <2>5, <2>6, <2>7 DEF OnTheWay
<1> QED
  BY <1>3, <1>4

\* When the message is deleted nothing of it is left to be copied or to be sent.
LEMMA FreedTold == ASSUME Core, DueSoon PROVE AllTold
<1>1. TypeOK /\ Tied /\ Single /\ Counted
  BY DEF Core
<1> SUFFICES ASSUME NEW p \in Pubs, pub[p].life = "freed", NEW e \in due[p], conn[e.c].est PROVE Contains(told[e.c], Message(p, e))
  BY DEF AllTold
<1>2. due[p] \in SUBSET Entry
  BY <1>1 DEF TypeOK
<1>3. PICK w \in Workers : w = Home[e.c]
  BY <1>2, PubSubAssumption DEF Entry
<1>4. ~Queued(w, p) /\ ~InLambda(w, p)
  BY <1>1, PendingLive
<1>5. ~Unhanded(w, p)
  BY <1>1 DEF Counted, Pending
<1>6. ~Has(w, FindFrames(p))
  BY <1>4 DEF InLambda, Has, FindFrames, LamFrames
<1>7. ~Copied(p, e)
  <2> SUFFICES ASSUME NEW k \in Nat, NEW f \in Frame, In(w, k, f), Sends(f), f.p = p PROVE FALSE
    BY <1>3 DEF Copied
  <2>1. f \in LamFrames(p)
    BY DEF Sends, LamFrames
  <2> QED
    BY <1>4, <2>1 DEF InLambda, Has
<1>8. OnTheWay(p, e)
  BY DEF DueSoon
<1> QED
  BY <1>3, <1>4, <1>5, <1>6, <1>7, <1>8 DEF OnTheWay, Awaits

\* When the message is deleted, all that had subscribed before it was published
\* have been told, but for those that have unsubscribed and those that are lost:
\* no worker is passed over, and no entry of a list (StmpNet::publishMsg).
THEOREM AllAreTold == Safety => []AllTold
<1>1. Init => DueSoon
  BY DueInit
<1>2. Core /\ DueSoon /\ [Next]_vars => DueSoon'
  BY DueNext
<1>3. Core /\ DueSoon => AllTold
  BY FreedTold
<1> QED
  BY <1>1, <1>2, <1>3, CoreAlways, PTL DEF Safety

=============================================================================
