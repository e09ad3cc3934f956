----------------------------- MODULE SeqLemmas -----------------------------
(***************************************************************************)
(* Facts about numbers and sequences that the provers do not know: the     *)
(* least element of a set of numbers and, by it, induction up to a number; *)
(* what FlattenSeq makes of a sequence with something added in front or at *)
(* the end.                                                                *)
(***************************************************************************)
EXTENDS Naturals, Sequences, SequencesExt, SequenceTheorems, WellFoundedInduction, TLAPS

-----------------------------------------------------------------------------
(* Induction.                                                              *)

\* A set of numbers that is not empty has a least one.
LEMMA Least == ASSUME NEW T \in SUBSET Nat, T # {}
  PROVE \E n \in T : \A m \in T : n <= m
<1>1. IsWellFoundedOn(OpToRel(<, Nat), Nat)
  BY NatLessThanWellFounded
<1>2. PICK n \in T : \A m \in T : ~(<<m, n>> \in OpToRel(<, Nat))
  BY <1>1, WFMin
<1>3. \A m \in T : ~(m < n)
  BY <1>2 DEF OpToRel
<1> QED
  BY <1>3

\* What holds of 1, and goes over to the next number below k, holds up to k.
LEMMA UpTo == ASSUME NEW T, NEW k \in Nat, 1 \in T, \A n \in 1 .. k - 1 : n \in T => n + 1 \in T
  PROVE \A n \in 1 .. k : n \in T
<1> DEFINE B == {n \in 1 .. k : n \notin T}
<1>1. SUFFICES ASSUME B # {} PROVE FALSE
  OBVIOUS
<1>2. B \in SUBSET Nat
  OBVIOUS
<1>3. PICK n \in B : \A m \in B : n <= m
  <2> HIDE DEF B
  <2> QED
    BY <1>1, <1>2, Least
<1>4. n - 1 \in 1 .. k - 1 /\ n - 1 \in T
  BY <1>3
<1> QED
  BY <1>3, <1>4

-----------------------------------------------------------------------------
(* Two sequences put together.                                             *)

\* c is a with b behind it, if it is so in every place.
LEMMA Joined ==
  ASSUME NEW S, NEW a \in Seq(S), NEW b \in Seq(S), NEW c \in Seq(S),
         Len(c) = Len(a) + Len(b),
         \A i \in 1 .. Len(a) : c[i] = a[i], \A i \in 1 .. Len(b) : c[Len(a) + i] = b[i]
  PROVE a \o b = c
<1>1. a \o b \in Seq(S) /\ Len(a \o b) = Len(a) + Len(b)
  OBVIOUS
<1>2. PICK d \in Seq(S) : d = a \o b
  BY <1>1
<1>3. ASSUME NEW i \in 1 .. Len(d) PROVE d[i] = c[i]
  <2>1. CASE i <= Len(a)
    <3>1. (a \o b)[i] = a[i]
      BY <1>1, <1>2, <2>1
    <3>2. i \in 1 .. Len(a)
      BY <1>2, <2>1
    <3> QED
      BY <1>2, <3>1, <3>2
  <2>2. CASE ~(i <= Len(a))
    <3>1. (a \o b)[i] = b[i - Len(a)]
      BY <1>1, <1>2, <2>2
    <3>2. i \in Nat /\ Len(a) \in Nat /\ i > Len(a) /\ i <= Len(a) + Len(b)
      BY <1>1, <1>2, <2>2
    <3>3. i - Len(a) \in 1 .. Len(b) /\ Len(a) + (i - Len(a)) = i
      BY <3>2
    <3>4. PICK j \in 1 .. Len(b) : j = i - Len(a) /\ Len(a) + j = i
      BY <3>3
    <3> QED
      BY <1>2, <3>1, <3>4
  <2> QED
    BY <2>1, <2>2
<1>4. Len(d) = Len(c)
  BY <1>1, <1>2
<1>5. d = c
  BY <1>3, <1>4, SeqEqual
<1> QED
  BY <1>2, <1>5

\* a and b put together; what its parts are does not matter to the laws of it.
Cat(a, b) == a \o b

\* A set of sequences closed under it, in which it is associative.
Closed(T) == /\ \A a, b \in T : Cat(a, b) \in T
             /\ \A a, b, c \in T : Cat(a, Cat(b, c)) = Cat(Cat(a, b), c)

LEMMA SeqClosed == ASSUME NEW S PROVE Closed(Seq(S))
<1>1. \A a, b \in Seq(S) : Cat(a, b) \in Seq(S)
  BY DEF Cat
<1>2. \A a, b, c \in Seq(S) : Cat(a, Cat(b, c)) = Cat(Cat(a, b), c)
  BY ConcatAssociative DEF Cat
<1> QED
  BY <1>1, <1>2 DEF Closed

\* What is grouped one way or the other is the same.
LEMMA FourT == ASSUME NEW T, Closed(T), NEW a \in T, NEW b \in T, NEW c \in T, NEW d \in T
  PROVE Cat(Cat(a, Cat(b, c)), d) = Cat(Cat(a, b), Cat(c, d))
  BY DEF Closed

\* Of f and m behind o and t, p goes over to t and r remains.
LEMMA AdvanceT ==
  ASSUME NEW T, Closed(T), NEW o \in T, NEW t \in T, NEW f \in T, NEW m \in T, NEW p \in T, NEW r \in T,
         Cat(p, r) = Cat(f, m)
  PROVE Cat(Cat(o, Cat(t, p)), r) = Cat(Cat(Cat(o, t), f), m)
<1>1. Cat(Cat(o, Cat(t, p)), r) = Cat(Cat(o, t), Cat(p, r))
  BY FourT
<1>2. Cat(o, t) \in T
  BY DEF Closed
<1>3. Cat(Cat(o, t), Cat(f, m)) = Cat(Cat(Cat(o, t), f), m)
  BY <1>2 DEF Closed
<1> QED
  BY <1>1, <1>3

\* The head of t goes over to the end of o.
LEMMA Leaves == ASSUME NEW S, NEW o \in Seq(S), NEW t \in Seq(S), t # <<>>
  PROVE Append(o, Head(t)) \o Tail(t) = o \o t
<1>1. Head(t) \in S /\ Tail(t) \in Seq(S)
  OBVIOUS
<1>2. t = <<Head(t)>> \o Tail(t)
  OBVIOUS
<1>3. Append(o, Head(t)) = o \o <<Head(t)>>
  BY <1>1
<1>4. <<Head(t)>> \in Seq(S)
  BY <1>1
<1>5. (o \o <<Head(t)>>) \o Tail(t) = o \o (<<Head(t)>> \o Tail(t))
  <2>1. \A a, b, c \in Seq(S) : (a \o b) \o c = a \o (b \o c)
    BY ConcatAssociative
  <2> QED
    BY <1>1, <1>4, <2>1
<1> QED
  BY <1>2, <1>3, <1>5

-----------------------------------------------------------------------------
(* FlattenSeq.                                                             *)

\* f[i] is the first i of the n sequences in q put together: the function that
\* FlattenSeq defines by recursion.
Flattens(f, q, n) == f = [i \in 1 .. n |-> IF i = 1 THEN q[i] ELSE f[i - 1] \o q[i]]

\* There is such a function.
LEMMA FlattenExists == ASSUME NEW S, NEW q \in Seq(Seq(S)), Len(q) > 0
  PROVE \E f : Flattens(f, q, Len(q))
<1> DEFINE T == {n \in Nat : \E f : Flattens(f, q, n)}
<1>1. 1 \in T
  <2> DEFINE g == [i \in 1 .. 1 |-> q[1]]
  <2>1. Flattens(g, q, 1)
    BY DEF Flattens
  <2> QED
    BY <2>1
<1>2. ASSUME NEW n \in 1 .. Len(q) - 1, n \in T PROVE n + 1 \in T
  <2>1. PICK f : Flattens(f, q, n)
    BY <1>2
  <2> DEFINE g == [i \in 1 .. n + 1 |-> IF i = n + 1 THEN f[n] \o q[n + 1] ELSE f[i]]
  <2>2. ASSUME NEW i \in 1 .. n + 1 PROVE g[i] = IF i = 1 THEN q[i] ELSE g[i - 1] \o q[i]
    <3>1. CASE i = n + 1
      <4>1. i # 1 /\ i - 1 = n /\ n \in 1 .. n + 1 /\ n # n + 1
        BY <3>1
      <4>2. g[i] = f[n] \o q[i] /\ g[n] = f[n]
        BY <3>1, <4>1
      <4> QED
        BY <4>1, <4>2
    <3>2. CASE i # n + 1
      <4>1. i \in 1 .. n
        BY <3>2
      <4>2. f[i] = IF i = 1 THEN q[i] ELSE f[i - 1] \o q[i]
        BY <2>1, <4>1 DEF Flattens
      <4>3. i # 1 => g[i - 1] = f[i - 1]
        BY <4>1
      <4> QED
        BY <4>1, <4>2, <4>3
    <3> QED
      BY <3>1, <3>2
  <2>3. Flattens(g, q, n + 1)
    BY <2>2 DEF Flattens
  <2> HIDE DEF g
  <2> QED
    BY <2>3
<1>3. \A n \in 1 .. Len(q) : n \in T
  <2>1. Len(q) \in Nat
    OBVIOUS
  <2> HIDE DEF T
  <2> QED
    BY <1>1, <1>2, <2>1, UpTo
<1> QED
  BY <1>3

\* ... and FlattenSeq is its last value.
LEMMA FlattenIs == ASSUME NEW S, NEW q \in Seq(Seq(S)), Len(q) > 0
  PROVE \E f : Flattens(f, q, Len(q)) /\ FlattenSeq(q) = f[Len(q)]
<1> DEFINE f == CHOOSE f : Flattens(f, q, Len(q))
<1>1. Flattens(f, q, Len(q))
  BY FlattenExists
<1>2. FlattenSeq(q) = f[Len(q)]
  BY DEF FlattenSeq, Flattens
<1> QED
  BY <1>1, <1>2

\* Sequences of S, put together, are a sequence of S.
LEMMA FlattensType == ASSUME NEW S, NEW q \in Seq(Seq(S)), NEW f, Flattens(f, q, Len(q))
  PROVE \A i \in 1 .. Len(q) : f[i] \in Seq(S)
<1> DEFINE T == {i \in Nat : i <= Len(q) => f[i] \in Seq(S)}
<1>1. CASE Len(q) = 0
  BY <1>1
<1>2. CASE Len(q) # 0
  <2>1. Len(q) \in Nat /\ \A i \in 1 .. Len(q) : q[i] \in Seq(S)
    OBVIOUS
  <2>2. \A i \in 1 .. Len(q) : f[i] = IF i = 1 THEN q[i] ELSE f[i - 1] \o q[i]
    BY DEF Flattens
  <2>3. 1 \in T
    BY <1>2, <2>1, <2>2
  <2>4. ASSUME NEW n \in 1 .. Len(q) - 1, n \in T PROVE n + 1 \in T
    <3>1. n + 1 \in 1 .. Len(q) /\ f[n] \in Seq(S) /\ n + 1 # 1 /\ (n + 1) - 1 = n
      BY <2>1, <2>4
    <3>2. f[n + 1] = f[n] \o q[n + 1] /\ q[n + 1] \in Seq(S)
      BY <2>1, <2>2, <3>1
    <3>3. f[n + 1] \in Seq(S)
      BY <3>1, <3>2
    <3> QED
      BY <3>1, <3>3
  <2>5. \A i \in 1 .. Len(q) : i \in T
    <3> HIDE DEF T
    <3> QED
      BY <2>1, <2>3, <2>4, UpTo
  <2> QED
    BY <2>5
<1> QED
  BY <1>1, <1>2

LEMMA FlattenType == ASSUME NEW S, NEW q \in Seq(Seq(S)) PROVE FlattenSeq(q) \in Seq(S)
<1>1. CASE Len(q) = 0
  <2>1. q = <<>>
    BY <1>1
  <2> QED
    BY <2>1 DEF FlattenSeq
<1>2. CASE Len(q) > 0
  <2>1. PICK f : Flattens(f, q, Len(q)) /\ FlattenSeq(q) = f[Len(q)]
    BY <1>2, FlattenIs
  <2>2. Len(q) \in 1 .. Len(q)
    BY <1>2
  <2> QED
    BY <2>1, <2>2, FlattensType
<1> QED
  BY <1>1, <1>2

\* Nothing, and one sequence, put together.
LEMMA FlattenEmpty == FlattenSeq(<<>>) = <<>>
  BY DEF FlattenSeq

LEMMA FlattenOne == ASSUME NEW S, NEW s \in Seq(S) PROVE FlattenSeq(<<s>>) = s
<1> DEFINE q == <<s>>
<1>1. q \in Seq(Seq(S)) /\ Len(q) > 0 /\ Len(q) = 1 /\ q[1] = s
  OBVIOUS
<1> HIDE DEF q
<1>2. PICK f : Flattens(f, q, Len(q)) /\ FlattenSeq(q) = f[Len(q)]
  BY <1>1, FlattenIs
<1>3. f[1] = s
  BY <1>1, <1>2 DEF Flattens
<1> QED
  BY <1>1, <1>2, <1>3 DEF q

\* The recursion without its case distinction.
Steps(f, q, n) == f[1] = q[1] /\ \A i \in 1 .. n - 1 : f[i + 1] = f[i] \o q[i + 1]

LEMMA FlattensSteps == ASSUME NEW n \in Nat, n > 0, NEW q, NEW f, Flattens(f, q, n)
  PROVE Steps(f, q, n)
<1>1. \A i \in 1 .. n : f[i] = IF i = 1 THEN q[i] ELSE f[i - 1] \o q[i]
  BY DEF Flattens
<1>2. ASSUME NEW i \in 1 .. n - 1 PROVE f[i + 1] = f[i] \o q[i + 1]
  <2>1. i + 1 \in 1 .. n /\ i + 1 # 1 /\ (i + 1) - 1 = i
    OBVIOUS
  <2> QED
    BY <1>1, <2>1
<1>3. 1 \in 1 .. n
  OBVIOUS
<1>4. f[1] = q[1]
  BY <1>1, <1>3
<1>5. \A i \in 1 .. n - 1 : f[i + 1] = f[i] \o q[i + 1]
  BY <1>2
<1> QED
  BY <1>4, <1>5 DEF Steps

\* What has been put together does not depend on what follows.
LEMMA FlattensOn ==
  ASSUME NEW n \in Nat, n > 0, NEW q, NEW r, \A i \in 1 .. n : r[i] = q[i],
         NEW f, Flattens(f, q, n), NEW g, Flattens(g, r, n + 1)
  PROVE g[n + 1] = f[n] \o r[n + 1]
<1> DEFINE T == {i \in 1 .. n : g[i] = f[i]}
<1>1. \A i \in 1 .. n : f[i] = IF i = 1 THEN q[i] ELSE f[i - 1] \o q[i]
  BY DEF Flattens
<1>2. \A i \in 1 .. n + 1 : g[i] = IF i = 1 THEN r[i] ELSE g[i - 1] \o r[i]
  BY DEF Flattens
<1>3. 1 \in T
  BY <1>1, <1>2
<1>4. ASSUME NEW i \in 1 .. n - 1, i \in T PROVE i + 1 \in T
  <2>1. i + 1 \in 1 .. n /\ i + 1 \in 1 .. n + 1 /\ i + 1 # 1 /\ (i + 1) - 1 = i
    OBVIOUS
  <2>2. f[i + 1] = f[i] \o q[i + 1] /\ g[i + 1] = g[i] \o r[i + 1]
    BY <1>1, <1>2, <2>1
  <2> QED
    BY <1>4, <2>1, <2>2
<1>5. \A i \in 1 .. n : i \in T
  <2> HIDE DEF T
  <2> QED
    BY <1>3, <1>4, UpTo
<1>6. n \in T
  <2> HIDE DEF T
  <2> QED
    BY <1>5
<1>7. n + 1 \in 1 .. n + 1 /\ n + 1 # 1 /\ (n + 1) - 1 = n
  OBVIOUS
<1>8. g[n + 1] = g[n] \o r[n + 1]
  BY <1>2, <1>7
<1> QED
  BY <1>6, <1>8

\* A sequence at the end comes out at the end.
LEMMA FlattenAppend == ASSUME NEW S, NEW q \in Seq(Seq(S)), NEW s \in Seq(S)
  PROVE FlattenSeq(Append(q, s)) = FlattenSeq(q) \o s
<1>1. CASE q = <<>>
  <2>1. Append(q, s) = <<s>> /\ <<>> \o s = s
    BY <1>1, ConcatEmptySeq
  <2> QED
    BY <1>1, <2>1, FlattenEmpty, FlattenOne
<1>2. CASE q # <<>>
  <2>1. PICK n \in Nat : n = Len(q) /\ n > 0
    BY <1>2
  <2>2. PICK r : r = Append(q, s)
    OBVIOUS
  <2>3. /\ r \in Seq(Seq(S)) /\ Len(r) = n + 1 /\ Len(r) > 0
        /\ r[n + 1] = s /\ \A i \in 1 .. n : r[i] = q[i]
    BY <2>1, <2>2
  <2>4. PICK f : Flattens(f, q, n) /\ FlattenSeq(q) = f[n]
    BY <2>1, FlattenIs
  <2>5. PICK g : Flattens(g, r, Len(r)) /\ FlattenSeq(r) = g[Len(r)]
    BY <2>1, <2>3, FlattenIs
  <2>6. Flattens(g, r, n + 1) /\ FlattenSeq(r) = g[n + 1]
    BY <2>3, <2>5
  <2>7. g[n + 1] = f[n] \o r[n + 1]
    <3>1. n > 0 /\ \A i \in 1 .. n : r[i] = q[i]
      BY <2>1, <2>3
    <3> QED
      BY <2>4, <2>6, <3>1, FlattensOn, Zenon
  <2> QED
    BY <2>2, <2>3, <2>4, <2>6, <2>7
<1> QED
  BY <1>1, <1>2

\* q is h and then the n sequences of r.
Starts(q, h, r, n) == q[1] = h /\ \A i \in 1 .. n : r[i] = q[i + 1]

SeqsOf(q, n, S) == \A i \in 1 .. n : q[i] \in Seq(S)

\* What comes first stays in front of what has been put together.
LEMMA FlattensBehind ==
  ASSUME NEW S, NEW n \in Nat, n > 0, NEW h \in Seq(S), NEW q, NEW r, Starts(q, h, r, n),
         SeqsOf(r, n, S), NEW f, Flattens(f, r, n), SeqsOf(f, n, S),
         NEW g, Flattens(g, q, n + 1)
  PROVE g[n + 1] = h \o f[n]
<1>1. f[1] = r[1] /\ \A i \in 1 .. n - 1 : f[i + 1] = f[i] \o r[i + 1]
  <2>1. Steps(f, r, n)
    BY FlattensSteps
  <2> QED
    BY <2>1 DEF Steps
<1>2. n + 1 > 0 /\ (n + 1) - 1 = n /\ n + 1 \in Nat
  OBVIOUS
<1>3. g[1] = h /\ \A i \in 1 .. n : g[i + 1] = g[i] \o q[i + 1]
  <2>1. Steps(g, q, n + 1)
    BY <1>2, FlattensSteps
  <2>2. g[1] = h
    BY <2>1 DEF Steps, Starts
  <2>3. \A i \in 1 .. n : g[i + 1] = g[i] \o q[i + 1]
    BY <1>2, <2>1 DEF Steps
  <2> QED
    BY <2>2, <2>3
<1> DEFINE T == {i \in 1 .. n : g[i + 1] = h \o f[i]}
<1>4. 1 \in T
  <2>1. 1 \in 1 .. n
    OBVIOUS
  <2> QED
    BY <1>1, <1>3, <2>1 DEF Starts
<1>5. ASSUME NEW i \in 1 .. n - 1, i \in T PROVE i + 1 \in T
  <2>1. i \in 1 .. n /\ i + 1 \in 1 .. n
    OBVIOUS
  <2>2. /\ f[i + 1] = f[i] \o r[i + 1] /\ g[(i + 1) + 1] = g[i + 1] \o q[(i + 1) + 1]
        /\ r[i + 1] = q[(i + 1) + 1]
    BY <1>1, <1>3, <2>1 DEF Starts
  <2>3. g[i + 1] = h \o f[i]
    BY <1>5
  <2>4. f[i] \in Seq(S) /\ r[i + 1] \in Seq(S)
    BY <2>1 DEF SeqsOf
  <2>5. (h \o f[i]) \o r[i + 1] = h \o (f[i] \o r[i + 1])
    <3>1. \A a, b \in Seq(S) : (h \o a) \o b = h \o (a \o b)
      BY ConcatAssociative
    <3> QED
      BY <2>4, <3>1
  <2>6. g[(i + 1) + 1] = h \o f[i + 1]
    BY <2>2, <2>3, <2>5
  <2> QED
    BY <2>1, <2>6
<1>6. \A i \in 1 .. n : i \in T
  <2> HIDE DEF T
  <2> QED
    BY <1>4, <1>5, UpTo
<1>7. n \in T
  <2> HIDE DEF T
  <2> QED
    BY <1>6
<1> QED
  BY <1>7

\* The first sequence comes out first.
LEMMA FlattenHead == ASSUME NEW S, NEW q \in Seq(Seq(S)), q # <<>>
  PROVE FlattenSeq(q) = Head(q) \o FlattenSeq(Tail(q))
<1>1. PICK h : h = Head(q)
  OBVIOUS
<1>2. PICK r : r = Tail(q)
  OBVIOUS
<1>3. PICK n \in Nat : n = Len(Tail(q))
  OBVIOUS
<1>4. /\ h \in Seq(S) /\ r \in Seq(Seq(S)) /\ Len(r) = n /\ Len(q) = n + 1 /\ Len(q) > 0
      /\ q[1] = h /\ \A i \in 1 .. n : r[i] = q[i + 1]
  BY <1>1, <1>2, <1>3
<1>5. PICK g : Flattens(g, q, Len(q)) /\ FlattenSeq(q) = g[Len(q)]
  BY <1>4, FlattenIs
<1>6. Flattens(g, q, n + 1) /\ FlattenSeq(q) = g[n + 1]
  BY <1>4, <1>5
<1>7. CASE n = 0
  <2>1. r = <<>>
    BY <1>4, <1>7
  <2>2. g[1] = h
    BY <1>4, <1>6, <1>7 DEF Flattens
  <2>3. h \o <<>> = h
    BY <1>4, ConcatEmptySeq
  <2>4. FlattenSeq(q) = h /\ FlattenSeq(r) = <<>>
    BY <1>6, <1>7, <2>1, <2>2, FlattenEmpty
  <2> QED
    BY <1>1, <1>2, <2>3, <2>4
<1>8. CASE n > 0
  <2>1. PICK f : Flattens(f, r, n) /\ FlattenSeq(r) = f[n]
    BY <1>4, <1>8, FlattenIs
  <2>2. \A i \in 1 .. n : f[i] \in Seq(S) /\ r[i] \in Seq(S)
    BY <1>4, <2>1, FlattensType
  <2>3. g[n + 1] = h \o f[n]
    <3>1. h \in Seq(S) /\ Starts(q, h, r, n)
      BY <1>4 DEF Starts
    <3>2. SeqsOf(r, n, S) /\ SeqsOf(f, n, S)
      BY <2>2 DEF SeqsOf
    <3>3. Flattens(f, r, n) /\ Flattens(g, q, n + 1)
      BY <1>6, <2>1
    <3> QED
      BY <1>8, <3>1, <3>2, <3>3, FlattensBehind
  <2> QED
    BY <1>1, <1>2, <1>6, <2>1, <2>3
<1> QED
  BY <1>7, <1>8

-----------------------------------------------------------------------------
(* What a sequence contains, and whether it has doubles.                   *)

LEMMA AppendContains == ASSUME NEW S, NEW s \in Seq(S), NEW x \in S
  PROVE \A e : Contains(Append(s, x), e) <=> Contains(s, e) \/ e = x
<1>1. PICK r : r = Append(s, x)
  OBVIOUS
<1>2. PICK n \in Nat : n = Len(s)
  OBVIOUS
<1>3. Len(r) = n + 1 /\ r[n + 1] = x /\ \A i \in 1 .. n : r[i] = s[i]
  BY <1>1, <1>2
<1>4. \A e : (\E i \in 1 .. n + 1 : r[i] = e) <=> (\E i \in 1 .. n : s[i] = e) \/ e = x
  BY <1>3
<1> QED
  BY <1>1, <1>2, <1>3, <1>4 DEF Contains

\* r is s with x behind it, said by the places.
Extends(r, s, x, n) ==
  DOMAIN s = 1 .. n /\ DOMAIN r = 1 .. n + 1 /\ r[n + 1] = x /\ \A i \in 1 .. n : r[i] = s[i]

LEMMA AppendExtends == ASSUME NEW S, NEW s \in Seq(S), NEW x \in S
  PROVE Extends(Append(s, x), s, x, Len(s)) /\ Len(s) \in Nat
BY DEF Extends

LEMMA InjectiveIs == ASSUME NEW r, NEW n, DOMAIN r = 1 .. n, \A a, b \in 1 .. n : r[a] = r[b] => a = b
  PROVE IsInjective(r)
BY DEF IsInjective

LEMMA ExtendInjective ==
  ASSUME NEW n \in Nat, NEW s, NEW x, NEW r, Extends(r, s, x, n), IsInjective(s), \A i \in 1 .. n : s[i] # x
  PROVE IsInjective(r)
<1>1. \A a, b \in 1 .. n : s[a] = s[b] => a = b
  BY DEF IsInjective, Extends
<1>2. \A a, b \in 1 .. n + 1 : r[a] = r[b] => a = b
  BY <1>1 DEF Extends
<1>3. DOMAIN r = 1 .. n + 1
  BY DEF Extends
<1> QED
  BY <1>2, <1>3, InjectiveIs

LEMMA AppendDistinct == ASSUME NEW S, NEW s \in Seq(S), NEW x \in S, IsInjective(s), ~Contains(s, x)
  PROVE IsInjective(Append(s, x))
<1>1. Extends(Append(s, x), s, x, Len(s)) /\ Len(s) \in Nat
  BY AppendExtends
<1>2. \A i \in 1 .. Len(s) : s[i] # x
  BY DEF Contains
<1> HIDE DEF Extends
<1> QED
  BY <1>1, <1>2, ExtendInjective, Zenon
\* Without its head.
LEMMA TailDistinct == ASSUME NEW S, NEW s \in Seq(S), s # <<>>, IsInjective(s)
  PROVE IsInjective(Tail(s)) /\ \A e : Contains(Tail(s), e) <=> Contains(s, e) /\ e # Head(s)
<1>1. PICK n \in Nat : n = Len(s) /\ n > 0
  OBVIOUS
<1>2. DOMAIN s = 1 .. n
  BY <1>1
<1>3. PICK r : r = Tail(s)
  OBVIOUS
<1>4. Len(r) = n - 1 /\ \A i \in 1 .. n - 1 : r[i] = s[i + 1]
  BY <1>1, <1>3
<1>5. DOMAIN r = 1 .. n - 1
  BY <1>1, <1>3
<1>6. Head(s) = s[1]
  BY <1>1
<1>7. \A a, b \in 1 .. n : s[a] = s[b] => a = b
  BY <1>2 DEF IsInjective
<1>8. \A a, b \in 1 .. n - 1 : r[a] = r[b] => a = b
  <2> SUFFICES ASSUME NEW a \in 1 .. n - 1, NEW b \in 1 .. n - 1, r[a] = r[b] PROVE a = b
    OBVIOUS
  <2>1. a + 1 \in 1 .. n /\ b + 1 \in 1 .. n /\ s[a + 1] = s[b + 1]
    BY <1>4
  <2>2. a + 1 = b + 1
    BY <1>7, <2>1
  <2> QED
    BY <2>2
<1>9. IsInjective(r)
  BY <1>5, <1>8, InjectiveIs
<1>10. ASSUME NEW e PROVE Contains(r, e) <=> Contains(s, e) /\ e # Head(s)
  <2>1. Contains(r, e) <=> \E i \in 1 .. n - 1 : s[i + 1] = e
    BY <1>4 DEF Contains
  <2>2. Contains(s, e) <=> \E i \in 1 .. n : s[i] = e
    BY <1>1 DEF Contains
  <2>3. ASSUME NEW i \in 1 .. n - 1, s[i + 1] = e PROVE (\E j \in 1 .. n : s[j] = e) /\ e # s[1]
    <3>1. i + 1 \in 1 .. n /\ 1 \in 1 .. n /\ i + 1 # 1
      BY <1>1
    <3> QED
      BY <1>7, <2>3, <3>1
  <2>4. ASSUME NEW i \in 1 .. n, s[i] = e, e # s[1] PROVE \E j \in 1 .. n - 1 : s[j + 1] = e
    <3>1. i # 1
      BY <2>4
    <3>2. i - 1 \in 1 .. n - 1 /\ s[(i - 1) + 1] = e
      BY <2>4, <3>1
    <3> QED
      BY <3>2
  <2> QED
    BY <1>6, <2>1, <2>2, <2>3, <2>4
<1> QED
  BY <1>3, <1>9, <1>10
=============================================================================
