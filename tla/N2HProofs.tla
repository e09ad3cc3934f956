----------------------------- MODULE N2HProofs -----------------------------
(***************************************************************************)
(* For every set of connections and descriptors and whatever the           *)
(* callbacks do: the types with the reference counts (TypeCorrect), and    *)
(* that ans, the descriptor table and est agree (Ownership).  Where        *)
(* callbacks are Careful: nothing freed is used (NeverFaulty), and each    *)
(* end of a connection is reported once (ReportsOnce).                     *)
(*                                                                         *)
(* Own is what the tables owe each other while the additions of the        *)
(* connections S are queued; Keeps says that one of the code's functions   *)
(* on mem leaves it so.  Sound relates it to the queue, to the             *)
(* transactions kept and to the read handler, and Inv adds the loop's      *)
(* control.  Calm is the rest for Careful callbacks: Told couples est, dis *)
(* and rf of each object, and Good says so of all of mem.                  *)
(***************************************************************************)
EXTENDS N2H, TLAPS

-----------------------------------------------------------------------------
(* The strengthening.                                                      *)

Mem == [obj : [Conns -> Obj], ans : [Fds -> Conns \cup {None}],
        owner : [Fds -> Conns \cup {None}], fault : Faults]

\* What mem is like while the connections S wait to be added to ans.
Own(m, S) ==
  /\ m \in Mem
  /\ \A c \in S : m.obj[c].est
  /\ \A c \in Conns : m.obj[c].est =>
       /\ m.obj[c].life = "live" /\ ~m.obj[c].rf
       /\ m.obj[c].fd \in Fds
       /\ m.owner[m.obj[c].fd] = c
       /\ m.ans[m.obj[c].fd] = (IF c \in S THEN None ELSE c)
  /\ \A d \in Fds : m.owner[d] # None => m.obj[m.owner[d]].est /\ m.obj[m.owner[d]].fd = d
  /\ \A d \in Fds : m.ans[d] # None => m.obj[m.ans[d]].est /\ m.obj[m.ans[d]].fd = d

Adders(q) == {c \in Conns : \E i \in 1 .. Len(q) : q[i] = [op |-> "add", c |-> c]}

Item == [op : Ends \cup {"add"}, c : Conns]

\* A connection is added by one lambda, before anything else of it is queued.
OneAdder(q) == \A i, j \in 1 .. Len(q) : q[i].op = "add" /\ q[i].c = q[j].c => i = j

\* mem, the queue q, the transactions k and the read handler's connection a.
Sound(m, q, k, a) ==
  /\ Own(m, Adders(q))
  /\ q \in Seq(Item) /\ OneAdder(q)
  /\ \A i \in 1 .. Len(q) : m.obj[q[i].c].life # "unborn"
  /\ k \in [Conns -> Nat]
  /\ \A c \in Conns : k[c] > 0 => m.obj[c].life # "unborn" /\ c \notin Adders(q)
  /\ a \in Conns \cup {None}
  /\ a # None => Live(m, a) /\ a \notin Adders(q)
  /\ \A c \in Conns : m.obj[c].rc = IF c = a THEN 1 ELSE 0

Control ==
  /\ pc \in {"wait", "dispatch", "accept", "recv", "read", "future"}
  /\ cur # None <=> pc \in {"recv", "read"}
  /\ inbox \in [Conns -> Nat] /\ sent \in Nat
  /\ peer \in [Conns -> {"up", "closed", "error"}]
  /\ edge \in [Conns -> BOOLEAN]
  /\ batch \subseteq [fd : Fds \cup {None}, kind : Events \cup {"listen"}]
  /\ \A e \in batch : e.kind = "listen" \/ e.fd \in Fds
  /\ curFd \in Fds \cup {None} /\ got \in Nat
  /\ pc \in {"recv", "read"} => curFd \in Fds
  /\ pc = "read" => got > 0

Inv == Sound(mem, queue, kept, cur) /\ Control

-----------------------------------------------------------------------------
(* What the code's functions do to mem.                                    *)

\* n comes from m without disturbing tables, references or births, and nothing that
\* was down is up.
Keeps(m, n, S) ==
  /\ Own(n, S)
  /\ \A c \in Conns : n.obj[c].rc = m.obj[c].rc
  /\ \A c \in Conns : n.obj[c].est => m.obj[c].est
  /\ \A c \in Conns : m.obj[c].life # "unborn" => n.obj[c].life # "unborn"
  /\ \A c \in Conns : m.obj[c].rc > 0 /\ Live(m, c) => Live(n, c)

\* The fields of mem.
LEMMA Fields == ASSUME NEW m \in Mem
  PROVE  /\ m.obj \in [Conns -> Obj]
         /\ m.ans \in [Fds -> Conns \cup {None}]
         /\ m.owner \in [Fds -> Conns \cup {None}]
         /\ m.fault \in Faults
         /\ m = [obj |-> m.obj, ans |-> m.ans, owner |-> m.owner, fault |-> m.fault]
  BY DEF Mem

\* One function after another, or none.
LEMMA KeepsTrans == ASSUME NEW m, NEW n, NEW o, NEW S, Keeps(m, n, S), Keeps(n, o, S)
  PROVE Keeps(m, o, S)
  BY DEF Keeps

LEMMA KeepsSelf == ASSUME NEW m, NEW S, Own(m, S) PROVE Keeps(m, m, S)
  BY DEF Keeps

\* What is undefined ends the model and touches nothing.
LEMMA FaultKeeps == ASSUME NEW m, NEW S, Own(m, S), NEW what \in Faults
  PROVE Keeps(m, Fault(m, what), S)
<1> DEFINE n == Fault(m, what)
<1>1. n \in Mem /\ n.obj = m.obj /\ n.ans = m.ans /\ n.owner = m.owner
  BY DEF Own, Mem, Fault
<1> QED
  BY <1>1 DEF Own, Keeps, Live

\* The object of c is replaced by o.
LEMMA PutObj == ASSUME NEW m \in Mem, NEW c \in Conns, NEW o \in Obj, NEW n,
                       n = [m EXCEPT !.obj = [m.obj EXCEPT ![c] = o]]
  PROVE  /\ n \in Mem /\ n.ans = m.ans /\ n.owner = m.owner /\ n.fault = m.fault
         /\ \A b \in Conns : n.obj[b] = IF b = c THEN o ELSE m.obj[b]
  BY DEF Mem

\* ... and descriptor d is nobody's.
LEMMA PutTables == ASSUME NEW m \in Mem, NEW c \in Conns, NEW o \in Obj, NEW d \in Fds
  PROVE [m EXCEPT !.ans = [m.ans EXCEPT ![d] = None], !.owner = [m.owner EXCEPT ![d] = None],
                  !.obj = [m.obj EXCEPT ![c] = o]] \in Mem
  BY DEF Mem

\* removeActorNet takes down both tables with est.
LEMMA RemoveKeeps ==
  ASSUME NEW m, NEW S \in SUBSET Conns, Own(m, S), NEW c \in Conns \ S, m.obj[c].est
  PROVE  /\ Keeps(m, removeActorNet(m, c), S)
         /\ ~removeActorNet(m, c).obj[c].est
<1> DEFINE d == m.obj[c].fd
           n == removeActorNet(m, c)
<1> USE N2HAssumption
<1>1. m \in Mem /\ d \in Fds
  BY DEF Own
<1>2. /\ n.obj = [m.obj EXCEPT ![c] = [m.obj[c] EXCEPT !.est = FALSE]]
      /\ n.ans = [m.ans EXCEPT ![d] = None]
      /\ n.owner = [m.owner EXCEPT ![d] = None]
      /\ n.fault = m.fault
  BY <1>1 DEF removeActorNet, Mem
<1> DEFINE o == [m.obj[c] EXCEPT !.est = FALSE]
<1>3. /\ o \in Obj /\ ~o.est /\ o.rc = m.obj[c].rc /\ o.life = m.obj[c].life
      /\ o.rf = m.obj[c].rf /\ o.fd = m.obj[c].fd
  <2>1. m.obj[c] \in Obj
    BY <1>1, Fields
  <2> QED
    BY <2>1 DEF Obj
<1> HIDE DEF o
<1>6. n \in Mem
  <2>1. n = [m EXCEPT !.ans = [m.ans EXCEPT ![d] = None], !.owner = [m.owner EXCEPT ![d] = None],
                      !.obj = [m.obj EXCEPT ![c] = o]]
    BY Zenon DEF removeActorNet, o
  <2> HIDE DEF d, n
  <2> QED
    BY <1>1, <1>3, <2>1, PutTables
<1>7. \A b \in Conns : n.obj[b] = IF b = c THEN o ELSE m.obj[b]
  BY <1>1, <1>2, Fields DEF o
<1>4. /\ ~n.obj[c].est
      /\ \A b \in Conns : /\ n.obj[b].rc = m.obj[b].rc
                          /\ n.obj[b].life = m.obj[b].life
                          /\ n.obj[b].rf = m.obj[b].rf
                          /\ n.obj[b].fd = m.obj[b].fd
                          /\ b # c => n.obj[b].est = m.obj[b].est
  BY <1>3, <1>7
<1>5. Own(n, S)
  <2>1. ASSUME NEW b \in S PROVE n.obj[b].est
    <3>1. b \in Conns /\ b # c /\ m.obj[b].est
      BY DEF Own
    <3> QED
      BY <1>4, <3>1
  <2>2. ASSUME NEW b \in Conns, n.obj[b].est
        PROVE  /\ n.obj[b].life = "live" /\ ~n.obj[b].rf
               /\ n.obj[b].fd \in Fds
               /\ n.owner[n.obj[b].fd] = b
               /\ n.ans[n.obj[b].fd] = (IF b \in S THEN None ELSE b)
    <3>1. b # c /\ m.obj[b].est /\ m.obj[b].fd \in Fds
      BY <2>2, <1>4 DEF Own
    <3>2. m.obj[b].fd # d
      BY <3>1 DEF Own
    <3> QED
      BY <1>1, <1>2, <1>4, <3>1, <3>2 DEF Own, Mem
  <2>3. ASSUME NEW e \in Fds, n.owner[e] # None
        PROVE n.obj[n.owner[e]].est /\ n.obj[n.owner[e]].fd = e
    BY <1>1, <1>2, <1>4, <2>3 DEF Own, Mem
  <2>4. ASSUME NEW e \in Fds, n.ans[e] # None
        PROVE n.obj[n.ans[e]].est /\ n.obj[n.ans[e]].fd = e
    BY <1>1, <1>2, <1>4, <2>4 DEF Own, Mem
  <2> QED
    BY <1>6, <2>1, <2>2, <2>3, <2>4 DEF Own
<1> QED
  BY <1>4, <1>5 DEF Keeps, Live

\* An object that is deleted is not up: rf excludes est.
LEMMA ReapKeeps ==
  ASSUME NEW m, NEW S \in SUBSET Conns, Own(m, S), NEW c \in Conns
  PROVE Keeps(m, Reap(m, c), S)
<1> DEFINE n == Reap(m, c)
<1>1. m \in Mem
  BY DEF Own
<1>2. CASE ~(m.obj[c].rf /\ m.obj[c].rc = 0)
  BY <1>2, KeepsSelf DEF Reap
<1>3. CASE m.obj[c].rf /\ m.obj[c].rc = 0
  <2>1. n.ans = m.ans /\ n.owner = m.owner /\ n.fault = m.fault
    BY <1>1, <1>3 DEF Reap, Mem
  <2>2. n.obj = [m.obj EXCEPT ![c] = [m.obj[c] EXCEPT !.life = "freed"]]
    BY <1>1, <1>3 DEF Reap, Mem
  <2>3. n \in Mem
    <3> DEFINE o == [m.obj[c] EXCEPT !.life = "freed"]
    <3>1. m.obj[c] \in Obj
      BY <1>1, Fields
    <3>2. o \in Obj
      BY <3>1 DEF Obj
    <3>3. n = [m EXCEPT !.obj = [m.obj EXCEPT ![c] = o]]
      BY <1>3, Zenon DEF Reap
    <3> HIDE DEF o, n
    <3> QED
      BY <1>1, <3>2, <3>3, PutObj
  <2>4. \A b \in Conns : /\ n.obj[b].rc = m.obj[b].rc
                         /\ n.obj[b].est = m.obj[b].est
                         /\ n.obj[b].rf = m.obj[b].rf
                         /\ n.obj[b].fd = m.obj[b].fd
                         /\ b # c => n.obj[b].life = m.obj[b].life
    BY <1>1, <2>2 DEF Mem, Obj
  <2>5. n.obj[c].life = "freed"
    BY <1>1, <2>2 DEF Mem, Obj
  <2>6. Own(n, S)
    BY <1>1, <1>3, <2>1, <2>3, <2>4 DEF Own, Mem
  <2> QED
    BY <1>3, <2>4, <2>5, <2>6 DEF Keeps, Live
<1> QED
  BY <1>2, <1>3

\* Actor::del of a connection that is not up.
LEMMA DelKeeps ==
  ASSUME NEW m, NEW S \in SUBSET Conns, Own(m, S), NEW c \in Conns, ~m.obj[c].est
  PROVE Keeps(m, del(m, c), S)
<1> DEFINE n == [m EXCEPT !.obj[c].rf = TRUE]
           o == [m.obj[c] EXCEPT !.rf = TRUE]
<1>1. m \in Mem /\ m.obj[c] \in Obj
  BY Fields DEF Own
<1>2. /\ o \in Obj /\ ~o.est /\ o.rc = m.obj[c].rc
      /\ o.life = m.obj[c].life /\ o.fd = m.obj[c].fd
  BY <1>1 DEF Obj
<1>7. n = [m EXCEPT !.obj = [m.obj EXCEPT ![c] = o]]
  BY Zenon
<1> HIDE DEF o, n
<1>8. /\ n \in Mem /\ n.ans = m.ans /\ n.owner = m.owner
      /\ \A b \in Conns : n.obj[b] = IF b = c THEN o ELSE m.obj[b]
  BY <1>1, <1>2, <1>7, PutObj
<1>3. \A b \in Conns : /\ n.obj[b].rc = m.obj[b].rc
                       /\ n.obj[b].est <=> m.obj[b].est
                       /\ n.obj[b].life = m.obj[b].life
                       /\ n.obj[b].fd = m.obj[b].fd
                       /\ b # c => n.obj[b].rf = m.obj[b].rf
  BY <1>2, <1>8
<1>4. Own(n, S)
  BY <1>1, <1>3, <1>8 DEF Own, Mem
<1>5. Keeps(m, n, S)
  BY <1>3, <1>4 DEF Keeps, Live
<1>6. Keeps(n, Reap(n, c), S)
  BY <1>3, <1>4, ReapKeeps
<1> QED
  BY <1>5, <1>6, KeepsTrans DEF del, n

\* evnDis of a connection that is not up.
LEMMA EvnDisKeeps ==
  ASSUME NEW m, NEW S \in SUBSET Conns, Own(m, S), NEW c \in Conns, ~m.obj[c].est
  PROVE Keeps(m, evnDis(m, c), S)
<1> DEFINE n == [m EXCEPT !.obj[c].est = FALSE, !.obj[c].dis = @ + 1,
                          !.obj[c].fusr = IF @ = "set" THEN "deleted" ELSE @]
<1>1. m \in Mem /\ m.obj[c] \in Obj
  BY Fields DEF Own
<1>2. CASE m.obj[c].fusr = "deleted"
  <2>1. "double delete" \in Faults
    BY DEF Faults
  <2> QED
    BY <1>2, <2>1, FaultKeeps DEF evnDis
<1>3. CASE m.obj[c].fusr # "deleted"
  <2> DEFINE o == [m.obj[c] EXCEPT !.est = FALSE, !.dis = @ + 1,
                                   !.fusr = IF @ = "set" THEN "deleted" ELSE @]
  <2>1. /\ o \in Obj /\ ~o.est /\ o.rc = m.obj[c].rc /\ o.rf = m.obj[c].rf
        /\ o.life = m.obj[c].life /\ o.fd = m.obj[c].fd
    <3> DEFINE p == m.obj[c]
               f == IF p.fusr = "set" THEN "deleted" ELSE p.fusr
    <3>1. o = [p EXCEPT !.est = FALSE, !.dis = p.dis + 1, !.fusr = f]
      OBVIOUS
    <3>2. p \in Obj /\ f \in {"none", "set", "deleted"}
      BY <1>1 DEF Obj
    <3> HIDE DEF p, f, o
    <3>3. o \in Obj /\ ~o.est /\ o.rc = p.rc /\ o.rf = p.rf /\ o.life = p.life /\ o.fd = p.fd
      <4>1. p.dis + 1 \in Nat
        BY <3>2 DEF Obj
      <4>2. o \in Obj
        BY <3>1, <3>2, <4>1 DEF Obj
      <4>3. ~o.est /\ o.rc = p.rc /\ o.rf = p.rf /\ o.life = p.life /\ o.fd = p.fd
        BY <3>1, <3>2, <4>1 DEF Obj
      <4> QED
        BY <4>2, <4>3
    <3> QED
      BY <3>3 DEF p
  <2>2. n = [m EXCEPT !.obj = [m.obj EXCEPT ![c] = o]]
    OBVIOUS
  <2> HIDE DEF o, n
  <2>7. /\ n \in Mem /\ n.ans = m.ans /\ n.owner = m.owner
        /\ \A b \in Conns : n.obj[b] = IF b = c THEN o ELSE m.obj[b]
    BY <1>1, <2>1, <2>2, PutObj
  <2>3. \A b \in Conns : /\ n.obj[b].rc = m.obj[b].rc
                         /\ n.obj[b].est <=> m.obj[b].est
                         /\ n.obj[b].life = m.obj[b].life
                         /\ n.obj[b].fd = m.obj[b].fd
                         /\ n.obj[b].rf = m.obj[b].rf
    BY <2>1, <2>7
  <2>4. Own(n, S)
    BY <1>1, <2>3, <2>7 DEF Own, Mem
  <2>5. Keeps(m, n, S)
    BY <2>3, <2>4 DEF Keeps, Live
  <2>6. Keeps(n, del(n, c), S)
    BY <2>3, <2>4, DelKeeps
  <2> QED
    BY <1>3, <2>5, <2>6, KeepsTrans DEF evnDis, n
<1> QED
  BY <1>2, <1>3

\* A connection that was up is lost, or closed, or broken by a send.
LEMMA LostKeeps ==
  ASSUME NEW m, NEW S \in SUBSET Conns, Own(m, S), NEW c \in Conns \ S, m.obj[c].est
  PROVE Keeps(m, Lost(m, c), S) /\ ~Lost(m, c).obj[c].est
<1> DEFINE n == removeActorNet(m, c)
<1>1. Keeps(m, n, S) /\ ~n.obj[c].est
  BY RemoveKeeps
<1>2. Own(n, S)
  BY <1>1 DEF Keeps
<1>3. Keeps(n, evnDis(n, c), S)
  BY <1>1, <1>2, EvnDisKeeps
<1>4. Keeps(m, evnDis(n, c), S) /\ ~evnDis(n, c).obj[c].est
  BY <1>1, <1>3, KeepsTrans DEF Keeps
<1> QED
  BY <1>4 DEF Lost

LEMMA CloseKeeps ==
  ASSUME NEW m, NEW S \in SUBSET Conns, Own(m, S), NEW c \in Conns \ S
  PROVE Keeps(m, close(m, c), S)
<1>1. CASE m.obj[c].est
  BY <1>1, LostKeeps DEF close, closeSlient, Lost
<1>2. CASE ~m.obj[c].est
  BY <1>2, EvnDisKeeps DEF close, closeSlient
<1> QED
  BY <1>1, <1>2

\* A flag or a pointer in the object of c changes.
LEMMA TouchKeeps ==
  ASSUME NEW m, NEW S \in SUBSET Conns, Own(m, S), NEW c \in Conns, NEW o \in Obj, NEW n,
         n = [m EXCEPT !.obj = [m.obj EXCEPT ![c] = o]],
         o.rc = m.obj[c].rc, o.life = m.obj[c].life, o.fd = m.obj[c].fd,
         o.est <=> m.obj[c].est, o.rf <=> m.obj[c].rf
  PROVE Keeps(m, n, S)
<1>1. m \in Mem
  BY DEF Own
<1>2. n \in Mem /\ n.ans = m.ans /\ n.owner = m.owner
  BY <1>1, PutObj
<1>7. \A b \in Conns : n.obj[b] = IF b = c THEN o ELSE m.obj[b]
  <2>1. m.obj \in [Conns -> Obj] /\ n.obj = [m.obj EXCEPT ![c] = o]
    BY <1>1, Fields DEF Mem
  <2> QED
    BY <2>1
<1>3. \A b \in Conns : /\ n.obj[b].life = m.obj[b].life
                       /\ n.obj[b].fd = m.obj[b].fd
                       /\ n.obj[b].rc = m.obj[b].rc
  BY <1>7
<1>4. \A b \in Conns : n.obj[b].est <=> m.obj[b].est
  BY <1>7
<1>5. \A b \in Conns : n.obj[b].rf <=> m.obj[b].rf
  BY <1>7
<1>6. Own(n, S)
  BY <1>1, <1>2, <1>3, <1>4, <1>5 DEF Own, Mem
<1> QED
  BY <1>3, <1>4, <1>6 DEF Keeps, Live

\* Setting fusr.
LEMMA LoginIs ==
  ASSUME NEW m \in Mem, NEW c \in Conns
  PROVE  \E o \in Obj :
           /\ [m EXCEPT !.obj[c].fusr = "set"] = [m EXCEPT !.obj = [m.obj EXCEPT ![c] = o]]
           /\ o.rc = m.obj[c].rc /\ o.life = m.obj[c].life /\ o.fd = m.obj[c].fd
           /\ o.est <=> m.obj[c].est
           /\ o.rf <=> m.obj[c].rf
           /\ o.fusr = "set" /\ o.dis = m.obj[c].dis
<1> DEFINE p == m.obj[c]
           o == [p EXCEPT !.fusr = "set"]
<1>1. p \in Obj
  BY Fields
<1>2. [m EXCEPT !.obj[c].fusr = "set"] = [m EXCEPT !.obj = [m.obj EXCEPT ![c] = o]]
  BY Zenon
<1>3. /\ o \in Obj /\ o.rc = p.rc /\ o.life = p.life /\ o.fd = p.fd
      /\ o.est <=> p.est
      /\ o.rf <=> p.rf
      /\ o.fusr = "set" /\ o.dis = p.dis
  <2> HIDE DEF p
  <2> QED
    BY <1>1 DEF Obj
<1> HIDE DEF o
<1> QED
  BY <1>2, <1>3

LEMMA LoginKeeps ==
  ASSUME NEW m, NEW S \in SUBSET Conns, Own(m, S), NEW c \in Conns
  PROVE Keeps(m, [m EXCEPT !.obj[c].fusr = "set"], S)
<1> DEFINE n == [m EXCEPT !.obj[c].fusr = "set"]
<1>1. m \in Mem
  BY DEF Own
<1>2. PICK o \in Obj :
        /\ n = [m EXCEPT !.obj = [m.obj EXCEPT ![c] = o]]
        /\ o.rc = m.obj[c].rc /\ o.life = m.obj[c].life /\ o.fd = m.obj[c].fd
        /\ o.est <=> m.obj[c].est
        /\ o.rf <=> m.obj[c].rf
  BY <1>1, LoginIs
<1> HIDE DEF n
<1>3. Keeps(m, n, S)
  BY <1>2, TouchKeeps
<1> QED
  BY <1>3 DEF n

\* A message waits, or waits no longer.
Waiting(m, c, w, v) == [m EXCEPT !.obj[c].waits = w, !.obj[c].wevn = v]

LEMMA WaitingIs ==
  ASSUME NEW m \in Mem, NEW c \in Conns, NEW w \in BOOLEAN, NEW v \in BOOLEAN
  PROVE  \E o \in Obj :
           /\ Waiting(m, c, w, v) = [m EXCEPT !.obj = [m.obj EXCEPT ![c] = o]]
           /\ o.rc = m.obj[c].rc /\ o.life = m.obj[c].life /\ o.fd = m.obj[c].fd
           /\ o.est <=> m.obj[c].est
           /\ o.rf <=> m.obj[c].rf
           /\ o.fusr = m.obj[c].fusr /\ o.dis = m.obj[c].dis
<1> DEFINE p == m.obj[c]
           o == [p EXCEPT !.waits = w, !.wevn = v]
<1>1. p \in Obj
  BY Fields
<1>2. Waiting(m, c, w, v) = [m EXCEPT !.obj = [m.obj EXCEPT ![c] = o]]
  BY DEF Waiting
<1>3. /\ o \in Obj /\ o.rc = p.rc /\ o.life = p.life /\ o.fd = p.fd
      /\ o.est <=> p.est
      /\ o.rf <=> p.rf
      /\ o.fusr = p.fusr /\ o.dis = p.dis
  <2> HIDE DEF p
  <2> QED
    BY <1>1 DEF Obj
<1> HIDE DEF o
<1> QED
  BY <1>2, <1>3

\* evnWrite leaves wevn as it is.
LEMMA EvnWriteIs ==
  ASSUME NEW m \in Mem, NEW c \in Conns, NEW how \in Outcomes
  PROVE  \/ evnWrite(m, c, how) = m
         \/ evnWrite(m, c, how) = Waiting(m, c, FALSE, m.obj[c].wevn) /\ m.obj[c].wevn \in BOOLEAN
         \/ evnWrite(m, c, how) = Lost(m, c)
<1> DEFINE p == m.obj[c]
           o == [p EXCEPT !.waits = FALSE]
           l == [p EXCEPT !.waits = FALSE, !.wevn = p.wevn]
<1>1. p \in Obj
  BY Fields
<1>2. o = l /\ p.wevn \in BOOLEAN
  <2> HIDE DEF p
  <2> QED
    BY <1>1 DEF Obj
<1>3. [m EXCEPT !.obj[c].waits = FALSE] = [m EXCEPT !.obj = [m.obj EXCEPT ![c] = o]]
  BY Zenon
<1>4. Waiting(m, c, FALSE, p.wevn) = [m EXCEPT !.obj = [m.obj EXCEPT ![c] = l]]
  BY DEF Waiting
<1>5. [m EXCEPT !.obj[c].waits = FALSE] = Waiting(m, c, FALSE, p.wevn)
  <2> HIDE DEF o, l
  <2> QED
    BY <1>2, <1>3, <1>4
<1> QED
  BY <1>2, <1>5 DEF evnWrite

LEMMA WaitingKeeps ==
  ASSUME NEW m, NEW S \in SUBSET Conns, Own(m, S), NEW c \in Conns,
         NEW w \in BOOLEAN, NEW v \in BOOLEAN
  PROVE Keeps(m, Waiting(m, c, w, v), S)
<1>1. m \in Mem
  BY DEF Own
<1> QED
  BY <1>1, WaitingIs, TouchKeeps

LEMMA EvnWriteKeeps ==
  ASSUME NEW m, NEW S \in SUBSET Conns, Own(m, S), NEW c \in Conns \ S, m.obj[c].est,
         NEW how \in Outcomes
  PROVE Keeps(m, evnWrite(m, c, how), S)
<1>1. m \in Mem
  BY DEF Own
<1>2. /\ Keeps(m, m, S) /\ Keeps(m, Lost(m, c), S)
      /\ \A v \in BOOLEAN : Keeps(m, Waiting(m, c, FALSE, v), S)
  BY KeepsSelf, LostKeeps, WaitingKeeps
<1> QED
  BY <1>1, <1>2, EvnWriteIs

\* A send does nothing, or leaves something waiting, or loses the connection.
LEMMA SendIs ==
  ASSUME NEW m, NEW c, NEW how \in Outcomes
  PROVE  \/ send(m, c, how) = m
         \/ m.obj[c].est /\ send(m, c, how) = Waiting(m, c, TRUE, TRUE)
         \/ m.obj[c].est /\ send(m, c, how) = Lost(m, c)
  BY DEF send, sendBuf, Waiting

LEMMA SendKeeps ==
  ASSUME NEW m, NEW S \in SUBSET Conns, Own(m, S), NEW c \in Conns \ S, NEW how \in Outcomes
  PROVE Keeps(m, send(m, c, how), S)
<1>1. Keeps(m, m, S) /\ Keeps(m, Waiting(m, c, TRUE, TRUE), S)
  BY KeepsSelf, WaitingKeeps
<1>2. m.obj[c].est => Keeps(m, Lost(m, c), S)
  BY LostKeeps
<1> QED
  BY <1>1, <1>2, SendIs

LEMMA SendEndKeeps ==
  ASSUME NEW m, NEW S \in SUBSET Conns, Own(m, S), NEW c \in Conns \ S,
         NEW how \in Outcomes, NEW parts \in BOOLEAN
  PROVE Keeps(m, sendEnd(m, c, how, parts), S)
<1> DEFINE n == send(m, c, how)
<1>1. Keeps(m, n, S)
  BY SendKeeps
<1>2. Keeps(n, Fault(n, "use after free"), S)
  BY <1>1, FaultKeeps DEF Keeps, Faults
<1> QED
  BY <1>1, <1>2, KeepsTrans DEF sendEnd

\* A connection that is in ans is not among those to be added.
LEMMA InAnsApart ==
  ASSUME NEW m, NEW S \in SUBSET Conns, Own(m, S), NEW c \in Conns, InAns(m, c)
  PROVE c \in Conns \ S /\ m.obj[c].est
  BY N2HAssumption DEF InAns, Own

\* What closeAll makes of mem: of each connection of K, what close makes of it.
LEMMA CloseAllIs ==
  ASSUME NEW m \in Mem, NEW K
  PROVE  /\ closeAll(m, K).fault = m.fault
         /\ \A c \in Conns : closeAll(m, K).obj[c] =
              IF c \in K THEN close(m, c).obj[c] ELSE m.obj[c]
         /\ \A d \in Fds : closeAll(m, K).ans[d] = IF m.ans[d] \in K THEN None ELSE m.ans[d]
         /\ \A d \in Fds :
              closeAll(m, K).owner[d] = IF m.owner[d] \in K THEN None ELSE m.owner[d]
         /\ closeAll(m, K) = [obj |-> closeAll(m, K).obj, ans |-> closeAll(m, K).ans,
                               owner |-> closeAll(m, K).owner, fault |-> closeAll(m, K).fault]
         /\ closeAll(m, K).obj = [c \in Conns |-> closeAll(m, K).obj[c]]
         /\ closeAll(m, K).ans = [d \in Fds |-> closeAll(m, K).ans[d]]
         /\ closeAll(m, K).owner = [d \in Fds |-> closeAll(m, K).owner[d]]
<1> DEFINE o == [c \in Conns |-> IF c \in K THEN close(m, c).obj[c] ELSE m.obj[c]]
           a == [d \in Fds |-> IF m.ans[d] \in K THEN None ELSE m.ans[d]]
           w == [d \in Fds |-> IF m.owner[d] \in K THEN None ELSE m.owner[d]]
<1>1. closeAll(m, K) = [obj |-> o, ans |-> a, owner |-> w, fault |-> m.fault]
  <2>1. closeAll(m, K) = [m EXCEPT !.obj = o, !.ans = a, !.owner = w]
    BY Zenon DEF closeAll
  <2> HIDE DEF o, a, w
  <2> QED
    BY <2>1 DEF Mem
<1> QED
  BY <1>1

LEMMA CloseAllKeeps ==
  ASSUME NEW m, NEW S \in SUBSET Conns, Own(m, S), NEW K \in SUBSET {c \in Conns : InAns(m, c)}
  PROVE Keeps(m, closeAll(m, K), S)
<1> DEFINE n == closeAll(m, K)
<1>1. m \in Mem /\ None \notin Conns
  BY N2HAssumption DEF Own
<1>2. \A c \in K : c \in Conns \ S /\ m.obj[c].est
  BY InAnsApart
<1>3. /\ n.fault = m.fault
      /\ \A c \in Conns : n.obj[c] = IF c \in K THEN close(m, c).obj[c] ELSE m.obj[c]
      /\ \A d \in Fds : n.ans[d] = IF m.ans[d] \in K THEN None ELSE m.ans[d]
      /\ \A d \in Fds : n.owner[d] = IF m.owner[d] \in K THEN None ELSE m.owner[d]
      /\ n = [obj |-> n.obj, ans |-> n.ans, owner |-> n.owner, fault |-> n.fault]
      /\ n.obj = [c \in Conns |-> n.obj[c]] /\ n.ans = [d \in Fds |-> n.ans[d]]
      /\ n.owner = [d \in Fds |-> n.owner[d]]
  BY <1>1, CloseAllIs
<1>4. ASSUME NEW c \in K
      PROVE  /\ n.obj[c] \in Obj /\ ~n.obj[c].est
             /\ n.obj[c].rc = m.obj[c].rc
             /\ m.obj[c].life # "unborn" => n.obj[c].life # "unborn"
             /\ m.obj[c].rc > 0 /\ Live(m, c) => n.obj[c].life = "live"
  <2> DEFINE l == close(m, c)
  <2>1. c \in Conns \ S /\ m.obj[c].est
    BY <1>2
  <2>2. l = Lost(m, c)
    BY <2>1 DEF close, closeSlient, Lost
  <2> HIDE DEF l
  <2>3. Keeps(m, l, S) /\ ~l.obj[c].est
    BY <2>1, <2>2, LostKeeps
  <2>4. l \in Mem
    BY <2>3 DEF Keeps, Own
  <2>5. l.obj[c] \in Obj
    BY <2>1, <2>4, Fields
  <2>6. n.obj[c] = l.obj[c]
    BY <1>3, <2>1 DEF l
  <2> HIDE DEF n
  <2> QED
    BY <2>1, <2>3, <2>5, <2>6 DEF Keeps, Live
<1> HIDE DEF n
<1>5. n \in Mem
  <2>1. \A c \in Conns : n.obj[c] \in Obj
    BY <1>1, <1>3, <1>4, Fields
  <2>5. \A d \in Fds : m.ans[d] \in Conns \cup {None} /\ m.owner[d] \in Conns \cup {None}
    BY <1>1, Fields
  <2>2. \A d \in Fds : n.ans[d] \in Conns \cup {None} /\ n.owner[d] \in Conns \cup {None}
    BY <1>3, <2>5
  <2>3. n.fault \in Faults
    BY <1>1, <1>3, Fields
  <2>4. /\ n.obj \in [Conns -> Obj] /\ n.ans \in [Fds -> Conns \cup {None}]
        /\ n.owner \in [Fds -> Conns \cup {None}]
    BY <1>3, <2>1, <2>2
  <2> QED
    BY <1>3, <2>3, <2>4 DEF Mem
<1>6. \A c \in Conns : n.obj[c].est => c \notin K /\ n.obj[c] = m.obj[c] /\ m.obj[c].est
  BY <1>3, <1>4
<1>7. \A c \in Conns : m.obj[c].est /\ c \notin K => n.obj[c] = m.obj[c]
  BY <1>3
<1>8. Own(n, S)
  <2>1. \A c \in S : n.obj[c].est
    BY <1>2, <1>7 DEF Own
  <2>2. ASSUME NEW c \in Conns, n.obj[c].est
        PROVE  /\ n.obj[c].life = "live" /\ ~n.obj[c].rf
               /\ n.obj[c].fd \in Fds
               /\ n.owner[n.obj[c].fd] = c
               /\ n.ans[n.obj[c].fd] = (IF c \in S THEN None ELSE c)
    <3>1. c \notin K /\ n.obj[c] = m.obj[c] /\ m.obj[c].est
      BY <1>6, <2>2
    <3>2. m.obj[c].fd \in Fds /\ m.owner[m.obj[c].fd] = c
          /\ m.ans[m.obj[c].fd] = (IF c \in S THEN None ELSE c)
          /\ m.obj[c].life = "live" /\ ~m.obj[c].rf
      BY <3>1 DEF Own
    <3>3. None \notin K
      BY <1>1, <1>2
    <3> QED
      BY <1>3, <3>1, <3>2, <3>3
  <2>3. ASSUME NEW d \in Fds, n.owner[d] # None
        PROVE n.obj[n.owner[d]].est /\ n.obj[n.owner[d]].fd = d
    <3>1. n.owner[d] = m.owner[d] /\ m.owner[d] \notin K
      BY <1>3, <2>3
    <3>2. m.owner[d] \in Conns /\ m.obj[m.owner[d]].est /\ m.obj[m.owner[d]].fd = d
      BY <1>1, <2>3, <3>1 DEF Own, Mem
    <3> QED
      BY <1>7, <3>1, <3>2
  <2>4. ASSUME NEW d \in Fds, n.ans[d] # None
        PROVE n.obj[n.ans[d]].est /\ n.obj[n.ans[d]].fd = d
    <3>1. n.ans[d] = m.ans[d] /\ m.ans[d] \notin K
      BY <1>3, <2>4
    <3>2. m.ans[d] \in Conns /\ m.obj[m.ans[d]].est /\ m.obj[m.ans[d]].fd = d
      BY <1>1, <2>4, <3>1 DEF Own, Mem
    <3> QED
      BY <1>7, <3>1, <3>2
  <2> QED
    BY <1>5, <2>1, <2>2, <2>3, <2>4 DEF Own
<1>9. Keeps(m, n, S)
  BY <1>3, <1>4, <1>6, <1>8 DEF Keeps, Live
<1> QED
  BY <1>9 DEF n

\* Whatever the application does when it is told.
LEMMA AfterKeeps ==
  ASSUME NEW m, NEW n, NEW S \in SUBSET Conns, Own(n, S), NEW x \in After(m, n)
  PROVE Keeps(n, x, S)
<1>1. PICK K \in SUBSET {c \in Conns : InAns(n, c)} : x = closeAll(n, K)
  BY DEF After
<1> QED
  BY <1>1, CloseAllKeeps

Count(m, c, r) == [m EXCEPT !.obj[c].rc = r]

\* The reference count of c is r.
LEMMA CountKeeps ==
  ASSUME NEW m, NEW S \in SUBSET Conns, Own(m, S), NEW c \in Conns, NEW r \in Nat
  PROVE  /\ Own(Count(m, c, r), S)
         /\ \A b \in Conns : Count(m, c, r).obj[b].life = m.obj[b].life
         /\ \A b \in Conns : Count(m, c, r).obj[b].est <=> m.obj[b].est
         /\ \A b \in Conns : Count(m, c, r).obj[b].rc = IF b = c THEN r ELSE m.obj[b].rc
<1> DEFINE n == Count(m, c, r)
           p == m.obj[c]
           o == [p EXCEPT !.rc = r]
<1>1. m \in Mem /\ p \in Obj
  BY Fields DEF Own
<1>3. n = [m EXCEPT !.obj = [m.obj EXCEPT ![c] = o]]
  BY Zenon DEF Count
<1>2. /\ o.rc = r /\ o.life = p.life /\ o.fd = p.fd
      /\ o.est <=> p.est
      /\ o.rf <=> p.rf
  <2> HIDE DEF p
  <2> QED
    BY <1>1 DEF Obj
<1>7. o \in Obj
  <2> HIDE DEF p
  <2> QED
    BY <1>1 DEF Obj
<1> HIDE DEF o, n
<1>4. n \in Mem /\ n.ans = m.ans /\ n.owner = m.owner
  BY <1>1, <1>7, <1>3, PutObj
<1>9. \A b \in Conns : n.obj[b] = IF b = c THEN o ELSE m.obj[b]
  BY <1>1, <1>7, <1>3, PutObj
<1>5. \A b \in Conns : /\ n.obj[b].life = m.obj[b].life
                       /\ n.obj[b].fd = m.obj[b].fd
  BY <1>2, <1>9
<1>8. \A b \in Conns : n.obj[b].rc = IF b = c THEN r ELSE m.obj[b].rc
  BY <1>2, <1>9
<1>10. \A b \in Conns : n.obj[b].est <=> m.obj[b].est
  BY <1>2, <1>9
<1>11. \A b \in Conns : n.obj[b].rf <=> m.obj[b].rf
  BY <1>2, <1>9
<1>6. Own(n, S)
  BY <1>1, <1>4, <1>5, <1>10, <1>11 DEF Own, Mem
<1> QED
  BY <1>5, <1>6, <1>8, <1>10 DEF n

\* Actor::ref and Actor::unRef.
LEMMA RefOwn ==
  ASSUME NEW m, NEW S \in SUBSET Conns, Own(m, S), NEW c \in Conns
  PROVE  /\ Own(ref(m, c), S)
         /\ \A b \in Conns : ref(m, c).obj[b].life = m.obj[b].life
         /\ \A b \in Conns : ref(m, c).obj[b].est <=> m.obj[b].est
         /\ \A b \in Conns : ref(m, c).obj[b].rc = IF b = c THEN m.obj[b].rc + 1 ELSE m.obj[b].rc
<1> DEFINE r == m.obj[c].rc + 1
<1>1. m \in Mem /\ m.obj[c] \in Obj
  BY Fields DEF Own
<1>2. r \in Nat
  BY <1>1 DEF Obj
<1>3. ref(m, c) = Count(m, c, r)
  BY Zenon DEF ref, Count
<1> HIDE DEF r
<1>4. /\ Own(Count(m, c, r), S)
      /\ \A b \in Conns : Count(m, c, r).obj[b].life = m.obj[b].life
      /\ \A b \in Conns : Count(m, c, r).obj[b].est <=> m.obj[b].est
      /\ \A b \in Conns : Count(m, c, r).obj[b].rc = IF b = c THEN r ELSE m.obj[b].rc
  BY <1>2, CountKeeps
<1> QED
  BY <1>3, <1>4 DEF r

LEMMA UnRefOwn ==
  ASSUME NEW m, NEW S \in SUBSET Conns, Own(m, S), NEW c \in Conns, m.obj[c].rc > 0
  PROVE  /\ Own(unRef(m, c), S)
         /\ \A b \in Conns : unRef(m, c).obj[b].rc = IF b = c THEN m.obj[b].rc - 1 ELSE m.obj[b].rc
         /\ \A b \in Conns : m.obj[b].life # "unborn" => unRef(m, c).obj[b].life # "unborn"
<1> DEFINE r == m.obj[c].rc - 1
           n == Count(m, c, r)
<1>1. m \in Mem /\ m.obj[c] \in Obj
  BY Fields DEF Own
<1>2. r \in Nat
  BY <1>1 DEF Obj
<1>3. unRef(m, c) = Reap(n, c)
  BY Zenon DEF unRef, Count
<1> HIDE DEF r
<1>4. /\ Own(n, S)
      /\ \A b \in Conns : n.obj[b].life = m.obj[b].life
      /\ \A b \in Conns : n.obj[b].rc = IF b = c THEN r ELSE m.obj[b].rc
  BY <1>2, CountKeeps
<1> HIDE DEF n
<1>5. Keeps(n, Reap(n, c), S)
  BY <1>4, ReapKeeps
<1> QED
  BY <1>3, <1>4, <1>5 DEF Keeps, r

\* The object as StmpN2H's constructor leaves it.
Born(d) == [Unborn EXCEPT !.life = "live", !.est = TRUE, !.fd = d]

\* accept and the constructor: what they make, and that the new connection owns
\* its descriptor and waits to be added.
LEMMA ConstructObj ==
  ASSUME NEW m \in Mem, NEW c \in Conns, NEW d \in Fds
  PROVE  /\ Born(d) \in Obj /\ Born(d).est /\ ~Born(d).rf /\ Born(d).life = "live" /\ Born(d).fd = d
         /\ Born(d).rc = 0
         /\ construct(m, c, d) \in Mem /\ construct(m, c, d).ans = m.ans
         /\ construct(m, c, d).owner = [m.owner EXCEPT ![d] = c]
         /\ \A b \in Conns : construct(m, c, d).obj[b] = IF b = c THEN Born(d) ELSE m.obj[b]
<1> DEFINE n == construct(m, c, d)
           o == Born(d)
<1>1. /\ o.est /\ ~o.rf /\ o.rc = 0 /\ o.life = "live" /\ o.fd = d
  BY DEF Born, Unborn
<1>2. o \in Obj
  BY DEF Obj, Born, Unborn
<1>3. n = [m EXCEPT !.owner = [m.owner EXCEPT ![d] = c], !.obj = [m.obj EXCEPT ![c] = o]]
  BY DEF construct, Born
<1> HIDE DEF n, o
<1>4. /\ n \in Mem /\ n.ans = m.ans
      /\ n.owner = [m.owner EXCEPT ![d] = c]
      /\ \A b \in Conns : n.obj[b] = IF b = c THEN o ELSE m.obj[b]
  BY <1>2, <1>3 DEF Mem
<1> QED
  BY <1>1, <1>2, <1>4 DEF n, o

LEMMA ConstructIs ==
  ASSUME NEW m \in Mem, NEW c \in Conns, NEW d \in Fds
  PROVE construct(m, c, d).obj = [m.obj EXCEPT ![c] = Born(d)]
<1>1. construct(m, c, d) = [m EXCEPT !.owner = [m.owner EXCEPT ![d] = c],
                                     !.obj = [m.obj EXCEPT ![c] = Born(d)]]
  BY DEF construct, Born
<1> QED
  BY <1>1 DEF Mem

LEMMA ConstructOwn ==
  ASSUME NEW m, NEW S \in SUBSET Conns, Own(m, S), NEW c \in Conns, NEW d \in Fds,
         m.obj[c].life = "unborn", m.owner[d] = None
  PROVE  c \notin S /\ Own(construct(m, c, d), S \cup {c})
<1> DEFINE n == construct(m, c, d)
           o == Born(d)
<1>1. m \in Mem /\ None \notin Conns
  BY N2HAssumption DEF Own
<1>3. /\ o \in Obj /\ o.est /\ ~o.rf /\ o.life = "live" /\ o.fd = d
      /\ n \in Mem /\ n.ans = m.ans
      /\ n.owner = [m.owner EXCEPT ![d] = c]
      /\ \A b \in Conns : n.obj[b] = IF b = c THEN o ELSE m.obj[b]
  BY <1>1, ConstructObj
<1> HIDE DEF n, o
<1>2. o.est /\ ~o.rf /\ o.life = "live" /\ o.fd = d
  BY <1>3
<1>4. /\ n \in Mem /\ n.ans = m.ans
      /\ n.owner = [m.owner EXCEPT ![d] = c]
      /\ \A b \in Conns : n.obj[b] = IF b = c THEN o ELSE m.obj[b]
  BY <1>3
<1>5. ~m.obj[c].est /\ c \notin S
  BY DEF Own
<1>6. m.ans[d] = None
  BY <1>1 DEF Own, Mem
<1>7. \A e \in Fds : m.owner[e] # c /\ m.ans[e] # c
  BY <1>1, <1>5 DEF Own
<1>8. Own(n, S \cup {c})
  <2>1. ASSUME NEW b \in S \cup {c} PROVE n.obj[b].est
    <3>1. CASE b = c
      BY <1>2, <1>4, <3>1
    <3>2. CASE b # c
      <4>1. b \in Conns /\ m.obj[b].est
        BY <3>2 DEF Own
      <4> QED
        BY <1>4, <3>2, <4>1
    <3> QED
      BY <3>1, <3>2
  <2>2. ASSUME NEW b \in Conns, n.obj[b].est
        PROVE  /\ n.obj[b].life = "live" /\ ~n.obj[b].rf
               /\ n.obj[b].fd \in Fds
               /\ n.owner[n.obj[b].fd] = b
               /\ n.ans[n.obj[b].fd] = (IF b \in S \cup {c} THEN None ELSE b)
    <3>1. CASE b = c
      BY <1>1, <1>2, <1>4, <1>6, <3>1 DEF Mem
    <3>2. CASE b # c
      <4>1. n.obj[b] = m.obj[b] /\ m.obj[b].est
        BY <1>4, <2>2, <3>2
      <4>2. m.owner[m.obj[b].fd] = b /\ m.obj[b].fd \in Fds
        BY <4>1 DEF Own
      <4>3. m.obj[b].fd # d
        BY <1>1, <4>2
      <4> QED
        BY <1>1, <1>4, <3>2, <4>1, <4>2, <4>3 DEF Own, Mem
    <3> QED
      BY <3>1, <3>2
  <2>3. ASSUME NEW e \in Fds, n.owner[e] # None
        PROVE n.obj[n.owner[e]].est /\ n.obj[n.owner[e]].fd = e
    <3>1. CASE e = d
      BY <1>1, <1>2, <1>4, <3>1 DEF Mem
    <3>2. CASE e # d
      <4>1. n.owner[e] = m.owner[e] /\ m.owner[e] # c /\ m.owner[e] \in Conns
        BY <1>1, <1>4, <1>7, <2>3, <3>2 DEF Mem
      <4> QED
        BY <1>4, <2>3, <4>1 DEF Own
    <3> QED
      BY <3>1, <3>2
  <2>4. ASSUME NEW e \in Fds, n.ans[e] # None
        PROVE n.obj[n.ans[e]].est /\ n.obj[n.ans[e]].fd = e
    <3>1. m.ans[e] # c /\ m.ans[e] \in Conns
      BY <1>1, <1>4, <1>7, <2>4 DEF Mem
    <3> QED
      BY <1>4, <2>4, <3>1 DEF Own
  <2> QED
    BY <1>4, <2>1, <2>2, <2>3, <2>4 DEF Own
<1> QED
  BY <1>5, <1>8 DEF n

\* addActorNet finds the entry empty, and fills it.
LEMMA AddOwn ==
  ASSUME NEW m, NEW S \in SUBSET Conns, Own(m, S), NEW c \in S
  PROVE  /\ Own(addActorNet(m, c), S \ {c})
         /\ addActorNet(m, c).obj = m.obj
<1> DEFINE n == addActorNet(m, c)
           d == m.obj[c].fd
<1>1. m \in Mem /\ None \notin Conns /\ c \in Conns
  BY N2HAssumption DEF Own
<1>2. m.obj[c].est /\ d \in Fds /\ m.ans[d] = None /\ m.owner[d] = c
  BY <1>1 DEF Own
<1>3. n = [m EXCEPT !.ans = [m.ans EXCEPT ![d] = c]]
  BY <1>2 DEF addActorNet
<1> HIDE DEF n, d
<1>4. /\ n \in Mem /\ n.obj = m.obj /\ n.owner = m.owner
      /\ n.ans = [m.ans EXCEPT ![d] = c]
  BY <1>1, <1>2, <1>3 DEF Mem
<1>5. Own(n, S \ {c})
  <2>1. \A b \in S \ {c} : n.obj[b].est
    BY <1>4 DEF Own
  <2>2. ASSUME NEW b \in Conns, n.obj[b].est
        PROVE  /\ n.obj[b].life = "live" /\ ~n.obj[b].rf
               /\ n.obj[b].fd \in Fds
               /\ n.owner[n.obj[b].fd] = b
               /\ n.ans[n.obj[b].fd] = (IF b \in S \ {c} THEN None ELSE b)
    <3>1. m.obj[b].est /\ m.obj[b].fd \in Fds /\ m.owner[m.obj[b].fd] = b
      BY <1>4, <2>2 DEF Own
    <3>2. b # c => m.obj[b].fd # d
      BY <1>2, <3>1
    <3> QED
      BY <1>1, <1>2, <1>4, <3>1, <3>2 DEF Own, Mem, d
  <2>3. ASSUME NEW e \in Fds, n.owner[e] # None
        PROVE n.obj[n.owner[e]].est /\ n.obj[n.owner[e]].fd = e
    BY <1>4, <2>3 DEF Own
  <2>4. ASSUME NEW e \in Fds, n.ans[e] # None
        PROVE n.obj[n.ans[e]].est /\ n.obj[n.ans[e]].fd = e
    BY <1>1, <1>2, <1>4, <2>4 DEF Own, Mem, d
  <2> QED
    BY <1>4, <2>1, <2>2, <2>3, <2>4 DEF Own
<1> QED
  BY <1>4, <1>5 DEF n

-----------------------------------------------------------------------------
(* The queue.                                                              *)

\* A lambda is appended: no second addition, and none after other lambdas.
LEMMA Appended ==
  ASSUME NEW q \in Seq(Item), NEW h \in Item, OneAdder(q),
         h.op = "add" => \A i \in 1 .. Len(q) : q[i].c # h.c,
         h.op # "add" => h.c \notin Adders(q)
  PROVE  /\ Append(q, h) \in Seq(Item) /\ OneAdder(Append(q, h))
         /\ Adders(Append(q, h)) = Adders(q) \cup (IF h.op = "add" THEN {h.c} ELSE {})
         /\ \A i \in 1 .. Len(Append(q, h)) :
              Append(q, h)[i] = h \/ \E j \in 1 .. Len(q) : Append(q, h)[i] = q[j]
<1> DEFINE p == Append(q, h)
<1>1. /\ p \in Seq(Item) /\ Len(p) = Len(q) + 1 /\ Len(q) \in Nat
      /\ \A i \in 1 .. Len(q) : p[i] = q[i] /\ q[i] \in Item
      /\ p[Len(q) + 1] = h
  OBVIOUS
<1>2. \A i \in 1 .. Len(p) : i \in 1 .. Len(q) \/ i = Len(q) + 1
  BY <1>1
<1>3. h = [op |-> h.op, c |-> h.c] /\ h.c \in Conns
  BY DEF Item
<1>8. \A i \in 1 .. Len(q) : q[i] = [op |-> q[i].op, c |-> q[i].c]
  BY <1>1 DEF Item
<1> HIDE DEF p
<1>4. OneAdder(p)
  <2> SUFFICES ASSUME NEW i \in 1 .. Len(p), NEW j \in 1 .. Len(p),
                      p[i].op = "add", p[i].c = p[j].c
               PROVE i = j
    BY DEF OneAdder
  <2>1. CASE i \in 1 .. Len(q) /\ j \in 1 .. Len(q)
    BY <1>1, <2>1 DEF OneAdder
  <2>2. CASE i \in 1 .. Len(q) /\ j = Len(q) + 1
    <3>1. q[i].op = "add" /\ q[i].c = h.c
      BY <1>1, <2>2
    <3>2. h.c \in Adders(q)
      BY <1>3, <1>8, <2>2, <3>1 DEF Adders
    <3> QED
      BY <2>2, <3>1, <3>2
  <2>3. CASE i = Len(q) + 1 /\ j \in 1 .. Len(q)
    BY <1>1, <2>3
  <2> QED
    BY <1>2, <2>1, <2>2, <2>3
<1>5. Adders(p) = Adders(q) \cup (IF h.op = "add" THEN {h.c} ELSE {})
  <2>1. ASSUME NEW c \in Adders(p)
        PROVE c \in Adders(q) \/ (h.op = "add" /\ c = h.c)
    <3>1. PICK i \in 1 .. Len(p) : p[i] = [op |-> "add", c |-> c]
      BY DEF Adders
    <3> QED
      BY <1>1, <1>2, <3>1 DEF Adders
  <2>2. ASSUME NEW c \in Adders(q) PROVE c \in Adders(p)
    <3>1. PICK i \in 1 .. Len(q) : q[i] = [op |-> "add", c |-> c]
      BY DEF Adders
    <3>2. i \in 1 .. Len(p) /\ p[i] = [op |-> "add", c |-> c]
      BY <1>1, <3>1
    <3> QED
      BY <3>2 DEF Adders
  <2>3. ASSUME h.op = "add" PROVE h.c \in Adders(p)
    <3>1. Len(q) + 1 \in 1 .. Len(p) /\ p[Len(q) + 1] = [op |-> "add", c |-> h.c]
      BY <1>1, <1>3, <2>3
    <3> QED
      BY <1>3, <3>1 DEF Adders
  <2> QED
    BY <2>1, <2>2, <2>3
<1>6. \A i \in 1 .. Len(p) : p[i] = h \/ \E j \in 1 .. Len(q) : p[i] = q[j]
  BY <1>1, <1>2
<1> QED
  BY <1>1, <1>4, <1>5, <1>6 DEF p

\* The first lambda is taken.
LEMMA Taken ==
  ASSUME NEW q \in Seq(Item), q # <<>>, OneAdder(q)
  PROVE  /\ Tail(q) \in Seq(Item) /\ OneAdder(Tail(q)) /\ Head(q) \in Item
         /\ Head(q) = q[1] /\ 1 \in 1 .. Len(q)
         /\ Head(q).op = "add" => /\ Head(q).c \in Adders(q)
                                  /\ Adders(Tail(q)) = Adders(q) \ {Head(q).c}
         /\ Head(q).op # "add" => /\ Head(q).c \notin Adders(q)
                                  /\ Adders(Tail(q)) = Adders(q)
         /\ \A i \in 1 .. Len(Tail(q)) : \E j \in 1 .. Len(q) : Tail(q)[i] = q[j]
<1> DEFINE p == Tail(q)
           h == Head(q)
<1>1. /\ p \in Seq(Item) /\ Len(p) = Len(q) - 1 /\ Len(q) \in Nat \ {0}
      /\ \A i \in 1 .. Len(p) : p[i] = q[i + 1]
      /\ h = q[1] /\ h \in Item
  OBVIOUS
<1>2. \A i \in 1 .. Len(q) : q[i] = [op |-> q[i].op, c |-> q[i].c] /\ q[i].c \in Conns
  <2>1. \A i \in 1 .. Len(q) : q[i] \in Item
    OBVIOUS
  <2> QED
    BY <2>1 DEF Item
<1> HIDE DEF p, h
<1>3. 1 \in 1 .. Len(q) /\ \A i \in 1 .. Len(p) : i + 1 \in 1 .. Len(q)
  BY <1>1
<1>4. \A i \in 1 .. Len(q) : i = 1 \/ (i - 1 \in 1 .. Len(p) /\ p[i - 1] = q[i])
  BY <1>1
<1>5. OneAdder(p)
  BY SMTT(20), <1>1, <1>3 DEF OneAdder
<1>6. \A c : c \in Adders(p) => c \in Adders(q)
  BY <1>1, <1>3 DEF Adders
<1>7. \A c : c \in Adders(q) => c \in Adders(p) \/ h = [op |-> "add", c |-> c]
  <2> SUFFICES ASSUME NEW c \in Adders(q)
               PROVE c \in Adders(p) \/ h = [op |-> "add", c |-> c]
    OBVIOUS
  <2>1. PICK i \in 1 .. Len(q) : q[i] = [op |-> "add", c |-> c]
    BY DEF Adders
  <2>2. c \in Conns
    BY DEF Adders
  <2> QED
    BY <1>1, <1>4, <2>1, <2>2 DEF Adders
<1>8. h.op = "add" => h.c \in Adders(q)
  BY <1>1, <1>2, <1>3 DEF Adders
<1>9. h.op = "add" => h.c \notin Adders(p)
  <2> SUFFICES ASSUME h.op = "add", h.c \in Adders(p) PROVE FALSE
    OBVIOUS
  <2>1. PICK i \in 1 .. Len(p) : p[i] = [op |-> "add", c |-> h.c]
    BY DEF Adders
  <2>2. q[i + 1].c = q[1].c /\ i + 1 # 1
    BY <1>1, <2>1
  <2> QED
    BY <1>1, <1>3, <2>2 DEF OneAdder
<1>10. h.op # "add" => h.c \notin Adders(q)
  <2> SUFFICES ASSUME h.op # "add", h.c \in Adders(q) PROVE FALSE
    OBVIOUS
  <2>1. PICK i \in 1 .. Len(q) : q[i] = [op |-> "add", c |-> h.c]
    BY DEF Adders
  <2>2. q[i].op = "add" /\ q[i].c = q[1].c
    BY <1>1, <2>1
  <2> QED
    BY <1>1, <1>3, <2>2 DEF OneAdder
<1>11. h.op = "add" => Adders(p) = Adders(q) \ {h.c}
  BY <1>6, <1>7, <1>9
<1>12. h.op # "add" => Adders(p) = Adders(q)
  <2>1. \A c : h = [op |-> "add", c |-> c] => h.op = "add"
    OBVIOUS
  <2> QED
    BY <1>6, <1>7, <2>1
<1>13. \A i \in 1 .. Len(p) : \E j \in 1 .. Len(q) : p[i] = q[j]
  BY <1>1, <1>3
<1> QED
  BY <1>1, <1>3, <1>5, <1>8, <1>10, <1>11, <1>12, <1>13 DEF p, h

-----------------------------------------------------------------------------
(* What a step owes to Sound.                                              *)

\* None is no connection, and lambdas are for connections.
LEMMA NoneApart == \A c \in Conns : c # None
  BY N2HAssumption

LEMMA SoundQueue ==
  ASSUME NEW m, NEW q, NEW k, NEW a, Sound(m, q, k, a)
  PROVE \A i \in 1 .. Len(q) : q[i].c \in Conns
<1>1. \A i \in 1 .. Len(q) : q[i] \in Item
  BY DEF Sound
<1> QED
  BY <1>1 DEF Item

\* A function that Keeps keeps Sound.
LEMMA KeepsSound ==
  ASSUME NEW m, NEW n, NEW q, NEW k, NEW a, Sound(m, q, k, a), Keeps(m, n, Adders(q))
  PROVE Sound(n, q, k, a)
<1>1. \A i \in 1 .. Len(q) : q[i].c \in Conns
  BY SoundQueue
<1>2. a # None => m.obj[a].rc = 1 /\ a \in Conns
  BY DEF Sound
<1>3. Own(n, Adders(q))
  BY DEF Keeps
<1>4. \A i \in 1 .. Len(q) : n.obj[q[i].c].life # "unborn"
  BY <1>1 DEF Sound, Keeps
<1>5. \A c \in Conns : k[c] > 0 => n.obj[c].life # "unborn" /\ c \notin Adders(q)
  BY DEF Sound, Keeps
<1>6. a # None => Live(n, a) /\ a \notin Adders(q)
  BY <1>2 DEF Sound, Keeps
<1>7. \A c \in Conns : n.obj[c].rc = IF c = a THEN 1 ELSE 0
  BY DEF Sound, Keeps
<1> QED
  BY <1>3, <1>4, <1>5, <1>6, <1>7 DEF Sound

\* The facts about Sound that the functions' lemmas ask for.
LEMMA SoundGives ==
  ASSUME NEW m, NEW q, NEW k, NEW a, Sound(m, q, k, a)
  PROVE  /\ Own(m, Adders(q)) /\ Adders(q) \in SUBSET Conns
         /\ \A c \in Conns : k[c] > 0 => c \in Conns \ Adders(q)
         /\ a # None => a \in Conns \ Adders(q) /\ m.obj[a].rc = 1
         /\ \A d \in Fds : m.ans[d] # None =>
              /\ m.ans[d] \in Conns \ Adders(q) /\ m.obj[m.ans[d]].est
              /\ Live(m, m.ans[d])
         /\ k \in [Conns -> Nat] /\ q \in Seq(Item) /\ OneAdder(q)
<1>1. /\ Own(m, Adders(q)) /\ Adders(q) \in SUBSET Conns
      /\ k \in [Conns -> Nat] /\ q \in Seq(Item) /\ OneAdder(q)
      /\ \A c \in Conns : k[c] > 0 => c \in Conns \ Adders(q)
  BY DEF Sound, Adders
<1>2. a # None => a \in Conns \ Adders(q) /\ m.obj[a].rc = 1
  BY DEF Sound
<1> DEFINE S == Adders(q)
<1> HIDE DEF S
<1>3. Own(m, S) /\ None \notin Conns
  BY <1>1, N2HAssumption DEF S
<1>4. ASSUME NEW d \in Fds, m.ans[d] # None
      PROVE m.ans[d] \in Conns \ S /\ m.obj[m.ans[d]].est /\ Live(m, m.ans[d])
  BY <1>3, <1>4 DEF Own, Mem, Live
<1> QED
  BY <1>1, <1>2, <1>4 DEF S

\* The read handler takes c: a reference, and c is cur.
LEMMA TakeSound ==
  ASSUME NEW m, NEW q, NEW k, Sound(m, q, k, None), NEW d \in Fds, m.ans[d] # None
  PROVE Sound(ref(m, m.ans[d]), q, k, m.ans[d])
<1> DEFINE c == m.ans[d]
           n == ref(m, c)
<1>1. /\ Own(m, Adders(q)) /\ Adders(q) \in SUBSET Conns
      /\ c \in Conns \ Adders(q) /\ Live(m, c)
  BY SoundGives
<1>5. \A b \in Conns : m.obj[b].rc = 0
  BY NoneApart DEF Sound
<1> HIDE DEF c
<1>2. /\ Own(n, Adders(q))
      /\ \A b \in Conns : n.obj[b].life = m.obj[b].life
      /\ \A b \in Conns : n.obj[b].rc = IF b = c THEN m.obj[b].rc + 1 ELSE m.obj[b].rc
  BY <1>1, RefOwn
<1> HIDE DEF n
<1>3. \A i \in 1 .. Len(q) : q[i].c \in Conns
  BY SoundQueue
<1>4. Sound(n, q, k, c)
  <2>1. \A b \in Conns : n.obj[b].rc = IF b = c THEN 1 ELSE 0
    <3> SUFFICES ASSUME NEW b \in Conns PROVE n.obj[b].rc = IF b = c THEN 1 ELSE 0
      OBVIOUS
    <3>1. m.obj[b].rc = 0 /\ n.obj[b].rc = IF b = c THEN m.obj[b].rc + 1 ELSE m.obj[b].rc
      BY <1>2, <1>5
    <3>2. m.obj[b].rc + 1 = 1
      BY <3>1
    <3> QED
      BY <3>1, <3>2
  <2>2. Live(n, c)
    BY <1>1, <1>2 DEF Live
  <2>3. \A i \in 1 .. Len(q) : n.obj[q[i].c].life # "unborn"
    BY <1>2, <1>3 DEF Sound
  <2>4. \A b \in Conns : k[b] > 0 => n.obj[b].life # "unborn" /\ b \notin Adders(q)
    BY <1>2 DEF Sound
  <2> QED
    BY <1>1, <1>2, <2>1, <2>2, <2>3, <2>4 DEF Sound
<1> QED
  BY <1>4 DEF n, c

\* It lets go of a.
LEMMA LeaveSound ==
  ASSUME NEW m, NEW q, NEW k, NEW a \in Conns, a # None, Sound(m, q, k, a)
  PROVE Sound(unRef(m, a), q, k, None)
<1> DEFINE n == unRef(m, a)
<1>1. /\ Own(m, Adders(q)) /\ Adders(q) \in SUBSET Conns
      /\ \A b \in Conns : m.obj[b].rc = IF b = a THEN 1 ELSE 0
  BY SoundGives DEF Sound
<1>2. /\ Own(n, Adders(q))
      /\ \A b \in Conns : n.obj[b].rc = IF b = a THEN m.obj[b].rc - 1 ELSE m.obj[b].rc
      /\ \A b \in Conns : m.obj[b].life # "unborn" => n.obj[b].life # "unborn"
  BY <1>1, UnRefOwn
<1> HIDE DEF n
<1>3. \A i \in 1 .. Len(q) : q[i].c \in Conns
  BY SoundQueue
<1>4. \A b \in Conns : n.obj[b].rc = IF b = None THEN 1 ELSE 0
  <2>1. ASSUME NEW b \in Conns PROVE n.obj[b].rc = 0
    <3>1. n.obj[b].rc = IF b = a THEN m.obj[b].rc - 1 ELSE m.obj[b].rc
      BY <1>2
    <3>2. m.obj[b].rc = IF b = a THEN 1 ELSE 0
      BY <1>1
    <3> QED
      BY <3>1, <3>2
  <2> QED
    BY <2>1, NoneApart
<1>5. \A i \in 1 .. Len(q) : n.obj[q[i].c].life # "unborn"
  BY <1>2, <1>3 DEF Sound
<1>6. \A c \in Conns : k[c] > 0 => n.obj[c].life # "unborn" /\ c \notin Adders(q)
  BY <1>2 DEF Sound
<1> QED
  BY <1>2, <1>4, <1>5, <1>6 DEF Sound, n

\* A connection comes up, and its addition is queued.
LEMMA AcceptSound ==
  ASSUME NEW m, NEW q, NEW k, NEW a, Sound(m, q, k, a), NEW c \in Conns, NEW d \in Fds,
         m.obj[c].life = "unborn", m.owner[d] = None
  PROVE Sound(construct(m, c, d), Append(q, [op |-> "add", c |-> c]), k, a)
<1> DEFINE n == construct(m, c, d)
           h == [op |-> "add", c |-> c]
           p == Append(q, h)
<1>1. /\ Own(m, Adders(q)) /\ Adders(q) \in SUBSET Conns
      /\ q \in Seq(Item) /\ OneAdder(q)
  BY SoundGives
<1>2. /\ c \notin Adders(q)
      /\ Own(n, Adders(q) \cup {c})
      /\ \A b \in Conns \ {c} : n.obj[b] = m.obj[b]
      /\ n.obj[c].life = "live"
      /\ n.obj[c].rc = 0
  <2> DEFINE T == Adders(q)
  <2> HIDE DEF T
  <2>1. T \in SUBSET Conns /\ Own(m, T)
    BY <1>1 DEF T
  <2>2. c \notin T
    BY <2>1, ConstructOwn
  <2>3. Own(construct(m, c, d), T \cup {c})
    BY <2>1, ConstructOwn
  <2>4. m \in Mem
    BY <1>1 DEF Own
  <2>5. construct(m, c, d).obj = [m.obj EXCEPT ![c] = Born(d)] /\ m.obj \in [Conns -> Obj]
    BY <2>4, ConstructIs, Fields
  <2>6. Born(d).life = "live" /\ Born(d).rc = 0
    BY DEF Born, Unborn
  <2> QED
    BY <2>2, <2>3, <2>4, <2>5, <2>6 DEF T
<1>3. \A i \in 1 .. Len(q) : q[i].c # c
  BY DEF Sound
<1>4. h \in Item /\ h.op = "add" /\ h.c = c
  BY DEF Item
<1> HIDE DEF n, h
<1>5. /\ p \in Seq(Item) /\ OneAdder(p)
      /\ Adders(p) = Adders(q) \cup {c}
      /\ \A i \in 1 .. Len(p) : p[i] = h \/ \E j \in 1 .. Len(q) : p[i] = q[j]
  BY <1>1, <1>3, <1>4, Appended
<1> HIDE DEF p
<1>6. \A b \in Conns : m.obj[b].life # "unborn" => n.obj[b].life # "unborn" /\ b # c
  BY <1>2
<1>7. \A i \in 1 .. Len(p) : n.obj[p[i].c].life # "unborn"
  <2>1. \A j \in 1 .. Len(q) : q[j].c \in Conns /\ m.obj[q[j].c].life # "unborn"
    <3>1. \A j \in 1 .. Len(q) : q[j].c \in Conns
      BY SoundQueue
    <3>2. \A j \in 1 .. Len(q) : m.obj[q[j].c].life # "unborn"
      BY DEF Sound
    <3> QED
      BY <3>1, <3>2
  <2>2. \A j \in 1 .. Len(q) : n.obj[q[j].c].life # "unborn"
    BY <1>6, <2>1
  <2> QED
    BY <1>2, <1>4, <1>5, <2>2
<1>8. \A b \in Conns : k[b] > 0 => n.obj[b].life # "unborn" /\ b \notin Adders(p)
  BY <1>5, <1>6 DEF Sound
<1>9. a # None => a # c /\ a \in Conns /\ Live(n, a) /\ a \notin Adders(p)
  BY <1>2, <1>5 DEF Sound, Live
<1>10. \A b \in Conns : n.obj[b].rc = IF b = a THEN 1 ELSE 0
  <2>1. c # a
    BY <1>9, NoneApart
  <2>2. \A b \in Conns : m.obj[b].rc = IF b = a THEN 1 ELSE 0
    BY DEF Sound
  <2> SUFFICES ASSUME NEW b \in Conns PROVE n.obj[b].rc = IF b = a THEN 1 ELSE 0
    OBVIOUS
  <2>3. CASE b = c
    <3>1. n.obj[b].rc = 0
      BY <1>2, <2>3
    <3> QED
      BY <2>1, <2>3, <3>1
  <2>4. CASE b # c
    <3>1. n.obj[b] = m.obj[b]
      BY <1>2, <2>4
    <3> QED
      BY <2>2, <3>1
  <2> QED
    BY <2>3, <2>4
<1>11. Sound(n, p, k, a)
  BY <1>2, <1>5, <1>7, <1>8, <1>9, <1>10 DEF Sound
<1> QED
  BY <1>11 DEF n, p, h

\* A connection comes up and is added.
LEMMA ConnSound ==
  ASSUME NEW m, NEW q, NEW k, NEW a, Sound(m, q, k, a), NEW c \in Conns, NEW d \in Fds,
         m.obj[c].life = "unborn", m.owner[d] = None
  PROVE Sound(addActorNet(construct(m, c, d), c), q, k, a)
<1> DEFINE l == construct(m, c, d)
           n == addActorNet(l, c)
           S == Adders(q) \cup {c}
<1>1. /\ Own(m, Adders(q)) /\ Adders(q) \in SUBSET Conns
      /\ q \in Seq(Item) /\ OneAdder(q)
  BY SoundGives
<1>2. /\ c \notin Adders(q)
      /\ Own(l, S)
      /\ \A b \in Conns \ {c} : l.obj[b] = m.obj[b]
      /\ l.obj[c].life = "live"
      /\ l.obj[c].rc = 0
  <2> DEFINE T == Adders(q)
  <2> HIDE DEF T
  <2>1. T \in SUBSET Conns /\ Own(m, T)
    BY <1>1 DEF T
  <2>2. c \notin T
    BY <2>1, ConstructOwn
  <2>3. Own(construct(m, c, d), T \cup {c})
    BY <2>1, ConstructOwn
  <2>4. m \in Mem
    BY <1>1 DEF Own
  <2>5. construct(m, c, d).obj = [m.obj EXCEPT ![c] = Born(d)] /\ m.obj \in [Conns -> Obj]
    BY <2>4, ConstructIs, Fields
  <2>6. Born(d).life = "live" /\ Born(d).rc = 0
    BY DEF Born, Unborn
  <2> QED
    BY <2>2, <2>3, <2>4, <2>5, <2>6 DEF T
<1>3. c \in S /\ S \in SUBSET Conns /\ S \ {c} = Adders(q)
  BY <1>1, <1>2
<1> HIDE DEF l, S
<1>4. Own(n, S \ {c}) /\ n.obj = l.obj
  BY <1>2, <1>3, AddOwn
<1> HIDE DEF n
<1>5. Own(n, Adders(q))
  BY <1>3, <1>4
<1>6. \A b \in Conns : m.obj[b].life # "unborn" => n.obj[b].life # "unborn" /\ b # c
  BY <1>2, <1>4
<1>7. \A i \in 1 .. Len(q) : n.obj[q[i].c].life # "unborn"
  <2>1. \A j \in 1 .. Len(q) : q[j].c \in Conns /\ m.obj[q[j].c].life # "unborn"
    <3>1. \A j \in 1 .. Len(q) : q[j].c \in Conns
      BY SoundQueue
    <3>2. \A j \in 1 .. Len(q) : m.obj[q[j].c].life # "unborn"
      BY DEF Sound
    <3> QED
      BY <3>1, <3>2
  <2> QED
    BY <1>6, <2>1
<1>8. \A b \in Conns : k[b] > 0 => n.obj[b].life # "unborn" /\ b \notin Adders(q)
  BY <1>6 DEF Sound
<1>9. a # None => a # c /\ a \in Conns /\ Live(n, a) /\ a \notin Adders(q)
  BY <1>2, <1>4 DEF Sound, Live
<1>10. \A b \in Conns : n.obj[b].rc = IF b = a THEN 1 ELSE 0
  <2>1. c # a
    BY <1>9, NoneApart
  <2>2. \A b \in Conns : m.obj[b].rc = IF b = a THEN 1 ELSE 0
    BY DEF Sound
  <2> SUFFICES ASSUME NEW b \in Conns PROVE n.obj[b].rc = IF b = a THEN 1 ELSE 0
    OBVIOUS
  <2>3. CASE b = c
    <3>1. n.obj[b].rc = 0
      BY <1>2, <1>4, <2>3
    <3> QED
      BY <2>1, <2>3, <3>1
  <2>4. CASE b # c
    <3>1. n.obj[b] = m.obj[b]
      BY <1>2, <1>4, <2>4
    <3> QED
      BY <2>2, <3>1
  <2> QED
    BY <2>3, <2>4
<1>11. Sound(n, q, k, a)
  BY <1>5, <1>7, <1>8, <1>9, <1>10 DEF Sound
<1> QED
  BY <1>11 DEF n, l

\* Another thread ends a transaction of c.
LEMMA EndSound ==
  ASSUME NEW m, NEW q, NEW k, NEW a, Sound(m, q, k, a), NEW c \in Conns, k[c] > 0,
         NEW op \in Ends
  PROVE  /\ Sound(m, q, [k EXCEPT ![c] = @ - 1], a)
         /\ Sound(m, Append(q, [op |-> op, c |-> c]), [k EXCEPT ![c] = @ - 1], a)
<1> DEFINE h == [op |-> op, c |-> c]
           p == Append(q, h)
           l == [k EXCEPT ![c] = @ - 1]
<1>1. /\ c \notin Adders(q) /\ m.obj[c].life # "unborn"
      /\ q \in Seq(Item) /\ OneAdder(q) /\ k \in [Conns -> Nat]
  BY DEF Sound
<1>2. l \in [Conns -> Nat] /\ \A b \in Conns : l[b] > 0 => k[b] > 0
  BY <1>1
<1>3. h \in Item /\ h.op # "add" /\ h.c = c
  BY DEF Item, Ends
<1> HIDE DEF h, l
<1>4. /\ p \in Seq(Item) /\ OneAdder(p)
      /\ Adders(p) = Adders(q)
      /\ \A i \in 1 .. Len(p) : p[i] = h \/ \E j \in 1 .. Len(q) : p[i] = q[j]
  BY <1>1, <1>3, Appended
<1> HIDE DEF p
<1>5. \A i \in 1 .. Len(p) : m.obj[p[i].c].life # "unborn"
  BY <1>1, <1>3, <1>4 DEF Sound
<1>6. Sound(m, q, l, a)
  BY <1>2 DEF Sound
<1>7. Sound(m, p, l, a)
  BY <1>2, <1>4, <1>5 DEF Sound
<1> QED
  BY <1>6, <1>7 DEF p, h, l

\* What the end of a transaction does, in the lambda or at once.
LEMMA EndKeeps ==
  ASSUME NEW S \in SUBSET Conns, Own(mem, S), NEW h, h.c \in Conns \ S, h.op # "add",
         NEW how \in Outcomes
  PROVE Keeps(mem, Done(h, how), S)
<1>1. "use after free" \in Faults /\ (h.op = "parts") \in BOOLEAN
  BY DEF Faults
<1>2. /\ Keeps(mem, Fault(mem, "use after free"), S)
      /\ Keeps(mem, close(mem, h.c), S)
      /\ Keeps(mem, sendEnd(mem, h.c, how, h.op = "parts"), S)
  BY <1>1, FaultKeeps, CloseKeeps, SendEndKeeps
<1> QED
  BY <1>2 DEF Done

\* The worker runs the first lambda.
LEMMA DoneSound ==
  ASSUME NEW k, NEW a, Sound(mem, queue, k, a), queue # <<>>, NEW how \in Outcomes
  PROVE Sound(Done(Head(queue), how), Tail(queue), k, a)
<1> DEFINE q == queue
           p == Tail(q)
           h == Head(q)
           n == Done(h, how)
<1>1. /\ Own(mem, Adders(q)) /\ Adders(q) \in SUBSET Conns
      /\ q \in Seq(Item) /\ OneAdder(q)
  BY SoundGives
<1>2. /\ p \in Seq(Item) /\ OneAdder(p) /\ h \in Item
      /\ h.op = "add" => h.c \in Adders(q) /\ Adders(p) = Adders(q) \ {h.c}
      /\ h.op # "add" => h.c \notin Adders(q) /\ Adders(p) = Adders(q)
      /\ \A i \in 1 .. Len(p) : \E j \in 1 .. Len(q) : p[i] = q[j]
  BY <1>1, Taken
<1>3. h.c \in Conns
  BY <1>2 DEF Item
<1>4. \A i \in 1 .. Len(p) : mem.obj[p[i].c].life # "unborn"
  BY <1>2 DEF Sound
<1> HIDE DEF p, h
<1>5. CASE h.op = "add"
  <2>1. n = addActorNet(mem, h.c)
    <3>1. mem.obj[h.c].est
      BY <1>1, <1>2, <1>5 DEF Own
    <3>2. Live(mem, h.c)
      BY <1>1, <1>3, <3>1 DEF Own, Live
    <3> QED
      BY <1>5, <3>2 DEF Done
  <2> HIDE DEF n
  <2>2. Own(n, Adders(p)) /\ n.obj = mem.obj
    <3>1. h.c \in Adders(q) /\ Adders(p) = Adders(q) \ {h.c}
      BY <1>2, <1>5
    <3> DEFINE T == Adders(q)
    <3>2. T \in SUBSET Conns /\ Own(mem, T) /\ h.c \in T
      BY <1>1, <3>1
    <3> HIDE DEF T
    <3>3. Own(n, T \ {h.c})
      BY <2>1, <3>2, AddOwn
    <3>4. n.obj = mem.obj
      BY <2>1, <3>2, AddOwn
    <3> QED
      BY <3>1, <3>3, <3>4 DEF T
  <2>3. \A b : b \notin Adders(q) => b \notin Adders(p)
    BY <1>2, <1>5
  <2>4. Sound(n, p, k, a)
    BY <1>2, <1>4, <2>2, <2>3 DEF Sound, Live
  <2> QED
    BY <2>4 DEF n, p, h
<1>6. CASE h.op # "add"
  <2> DEFINE S == Adders(q)
  <2>1. h.c \in Conns \ S /\ Adders(p) = S
    BY <1>2, <1>3, <1>6
  <2>2. Sound(mem, p, k, a)
    BY <1>2, <1>4, <2>1 DEF Sound
  <2>3. S \in SUBSET Conns /\ Own(mem, S)
    BY <1>1
  <2> HIDE DEF S
  <2>4. Keeps(mem, n, S)
    BY <1>6, <2>1, <2>3, EndKeeps
  <2> QED
    BY <2>1, <2>2, <2>4, KeepsSound DEF n, p, h
<1> QED
  BY <1>5, <1>6

\* What the application makes of it when it is told.
LEMMA AfterSound ==
  ASSUME NEW m, NEW n, NEW q, NEW k, NEW a, Sound(n, q, k, a), NEW x \in After(m, n)
  PROVE Sound(x, q, k, a)
<1>1. Own(n, Adders(q)) /\ Adders(q) \in SUBSET Conns
  BY SoundGives
<1>2. Keeps(n, x, Adders(q))
  BY <1>1, AfterKeeps
<1> QED
  BY <1>2, KeepsSound

-----------------------------------------------------------------------------
(* Inv is an invariant.                                                    *)

\* The program starts in Inv.
THEOREM InitInv == Init => Inv
<1> SUFFICES ASSUME Init PROVE Inv
  OBVIOUS
<1> USE DEF Init
<1>1. Adders(queue) = {} /\ queue \in Seq(Item) /\ OneAdder(queue) /\ Len(queue) = 0
  BY DEF Adders, OneAdder
<1>2. Unborn \in Obj /\ ~Unborn.est /\ Unborn.rc = 0
  BY DEF Unborn, Obj
<1>3. mem \in Mem
  BY <1>2 DEF Mem, Faults
<1>4. \A c \in Conns : ~mem.obj[c].est /\ mem.obj[c].rc = 0
  BY <1>2
<1>5. \A d \in Fds : mem.owner[d] = None /\ mem.ans[d] = None
  OBVIOUS
<1>6. Own(mem, Adders(queue))
  <2> HIDE DEF Init
  <2> QED
    BY <1>1, <1>3, <1>4, <1>5 DEF Own
<1>7. kept \in [Conns -> Nat] /\ \A c \in Conns : kept[c] = 0
  OBVIOUS
<1>8. Sound(mem, queue, kept, cur)
  <2>1. cur = None
    OBVIOUS
  <2> HIDE DEF Init
  <2>2. \A c \in Conns : mem.obj[c].rc = IF c = cur THEN 1 ELSE 0
    BY <1>4, <2>1, NoneApart
  <2> QED
    BY <1>1, <1>6, <1>7, <2>1, <2>2 DEF Sound
<1>9. Control
  BY DEF Control
<1> QED
  BY <1>8, <1>9 DEF Inv

\* A frame, or the callback it leads to, that makes m of mem.
LEMMA FrameInv ==
  ASSUME Inv, NEW m, Keeps(mem, m, Adders(queue)), Frame(m),
         kept' \in [Conns -> Nat], \A c \in Conns : kept'[c] > 0 => kept[c] > 0 \/ c = cur
  PROVE Inv'
<1>1. Sound(mem', queue, kept, cur)
  <2>1. Sound(m, queue, kept, cur)
    BY KeepsSound DEF Inv
  <2> QED
    BY <2>1, AfterSound DEF Frame
<1>2. cur # None
  BY DEF Inv, Control, Frame
<1>3. queue' = queue /\ cur' = cur
  BY DEF Frame
<1>4. \A c \in Conns : kept'[c] > 0 => mem'.obj[c].life # "unborn" /\ c \notin Adders(queue)
  BY <1>1, <1>2 DEF Sound, Live
<1>5. Sound(mem', queue, kept', cur)
  BY <1>1, <1>4 DEF Sound
<1>6. Control'
  BY DEF Inv, Control, Frame, osVars
<1> QED
  BY <1>3, <1>5, <1>6 DEF Inv

\* The end of the read handler.
LEMMA LeaveInv ==
  ASSUME Inv, pc \in {"recv", "read"}, NEW flag \in BOOLEAN, Leave(flag), inbox' = inbox
  PROVE Inv'
<1> DEFINE m == IF ~flag /\ mem.obj[cur].est THEN Lost(mem, cur) ELSE mem
           S == Adders(queue)
<1>1. cur # None /\ Sound(mem, queue, kept, cur)
  BY DEF Inv, Control
<1>2. S \in SUBSET Conns /\ Own(mem, S) /\ cur \in Conns \ S
  BY <1>1, SoundGives
<1>3. Keeps(mem, m, S)
  <2> HIDE DEF S
  <2> QED
    BY <1>2, LostKeeps, KeepsSelf
<1>4. mem' \in After(mem, unRef(m, cur)) /\ cur' = None /\ queue' = queue /\ kept' = kept
  BY DEF Leave
<1> HIDE DEF m
<1>5. Sound(m, queue, kept, cur)
  BY <1>1, <1>3, KeepsSound
<1>6. Sound(mem', queue, kept, None)
  <2>1. Sound(unRef(m, cur), queue, kept, None)
    BY <1>1, <1>2, <1>5, LeaveSound
  <2> QED
    BY <1>4, <2>1, AfterSound
<1>7. Control'
  BY DEF Inv, Control, Leave
<1> QED
  BY <1>4, <1>6, <1>7 DEF Inv

\* The worker polls.
LEMMA WaitInv == ASSUME Inv, NEW listen \in BOOLEAN, EpollWait(listen) PROVE Inv'
<1> DEFINE T == [fd : Fds \cup {None}, kind : Events \cup {"listen"}]
<1>1. Own(mem, Adders(queue))
  BY SoundGives DEF Inv
<1>2. ASSUME NEW e \in batch'
      PROVE e \in T /\ (e.kind = "listen" \/ e.fd \in Fds)
  <2>1. PICK k \in [Ready -> Events] :
          batch' = {[fd |-> mem.obj[c].fd, kind |-> k[c]] : c \in Ready}
                   \cup (IF listen THEN {Listen} ELSE {})
    BY DEF EpollWait
  <2>2. CASE e = Listen
    BY <2>2 DEF Listen
  <2>3. ASSUME NEW c \in Ready, e = [fd |-> mem.obj[c].fd, kind |-> k[c]]
        PROVE e \in T /\ e.fd \in Fds
    <3>1. mem.obj[c].fd \in Fds /\ k[c] \in Events
      BY <1>1 DEF Ready, Own
    <3> QED
      BY <2>3, <3>1
  <2> QED
    BY <2>1, <2>2, <2>3
<1> HIDE DEF T
<1>3. edge' \in [Conns -> BOOLEAN]
  BY DEF EpollWait, Inv, Control
<1>4. /\ UNCHANGED <<mem, inbox, sent, peer, kept, queue, cur, curFd, got>>
      /\ pc = "wait" /\ pc' = "dispatch"
  BY DEF EpollWait
<1>5. batch' \subseteq T /\ \A e \in batch' : e.kind = "listen" \/ e.fd \in Fds
  BY <1>2
<1>6. Control'
  BY <1>3, <1>4, <1>5 DEF Inv, Control, T
<1> QED
  BY <1>4, <1>6 DEF Inv

\* Outside the read handler no connection is referred to.
LEMMA Idle == ASSUME Inv, pc \notin {"recv", "read"} PROVE cur = None
  BY DEF Inv, Control

\* Every step keeps Inv.
LEMMA NextInv == ASSUME Inv, [Next]_vars PROVE Inv'
<1> DEFINE S == Adders(queue)
<1>a. /\ Sound(mem, queue, kept, cur)
      /\ S \in SUBSET Conns /\ Own(mem, S)
      /\ kept \in [Conns -> Nat]
      /\ cur # None => cur \in Conns \ S
  BY SoundGives DEF Inv
<1>b. Keeps(mem, mem, S)
  BY <1>a, KeepsSelf
<1>c. \A d \in Fds : mem.ans[d] # None => mem.ans[d] \in Conns \ S /\ mem.obj[mem.ans[d]].est
  BY SoundGives DEF Inv
<1>d. pc = "read" => cur \in Conns \ S
  BY <1>a DEF Inv, Control
<1>e. \A w \in Faults : Keeps(mem, Fault(mem, w), S)
  BY <1>a, FaultKeeps
<1> HIDE DEF S
<1>1. ASSUME NEW listen \in BOOLEAN, EpollWait(listen) PROVE Inv'
  BY <1>1, WaitInv
<1>2. CASE EvnListen
  BY <1>2 DEF EvnListen, Dispatch, Inv, Control, osVars
<1>3. CASE AcceptDone
  BY <1>3 DEF AcceptDone, Inv, Control, osVars
<1>31. ASSUME NEW e \in batch, evnSend(e) PROVE Inv'
  <2>1. e.fd \in Fds /\ mem.ans[e.fd] # None /\ cur = None
    BY <1>31, Idle DEF evnSend, Dispatch, Inv, Control, Events
  <2> DEFINE c == mem.ans[e.fd]
  <2>2. PICK how \in Outcomes : mem' \in After(mem, unRef(evnWrite(ref(mem, c), c, how), c))
    BY <1>31 DEF evnSend
  <2>3. c \in Conns \ S /\ mem.obj[c].est /\ c # None
    BY <1>c, <2>1
  <2>4. Sound(ref(mem, c), queue, kept, c)
    BY <1>a, <2>1, TakeSound
  <2> HIDE DEF c
  <2>5. Own(ref(mem, c), S) /\ ref(mem, c).obj[c].est
    BY <1>a, <2>3, RefOwn
  <2>6. Keeps(ref(mem, c), evnWrite(ref(mem, c), c, how), S)
    BY <1>a, <2>3, <2>5, EvnWriteKeeps
  <2>7. Sound(unRef(evnWrite(ref(mem, c), c, how), c), queue, kept, None)
    BY <2>3, <2>4, <2>6, KeepsSound, LeaveSound DEF S
  <2>8. Sound(mem', queue, kept, cur)
    BY <2>1, <2>2, <2>7, AfterSound
  <2>9. Control'
    BY <1>31 DEF evnSend, Dispatch, Inv, Control, osVars
  <2> QED
    BY <1>31, <2>8, <2>9 DEF evnSend, Inv
<1>4. ASSUME NEW e \in batch, evnRecv(e) PROVE Inv'
  <2>1. e.fd \in Fds /\ mem.ans[e.fd] # None /\ cur = None
    BY <1>4, Idle DEF evnRecv, Dispatch, Inv, Control, Events
  <2>2. Sound(ref(mem, mem.ans[e.fd]), queue, kept, mem.ans[e.fd])
    BY <1>a, <2>1, TakeSound
  <2>3. Control'
    BY <1>4, <2>1 DEF evnRecv, Dispatch, Inv, Control, osVars
  <2> QED
    BY <1>4, <2>2, <2>3 DEF evnRecv, Inv
<1>5. ASSUME NEW e \in batch, evnErro(e) PROVE Inv'
  <2>1. e.fd \in Fds /\ mem.ans[e.fd] # None
    BY <1>5 DEF evnErro, Dispatch, Inv, Control
  <2>2. Keeps(mem, mem', S)
    BY <1>a, <1>c, <1>5, <2>1, RemoveKeeps DEF evnErro
  <2>3. Sound(mem', queue, kept, cur)
    BY <1>a, <2>2, KeepsSound DEF S
  <2>4. Control'
    BY <1>5 DEF evnErro, Dispatch, Inv, Control, osVars
  <2> QED
    BY <1>5, <2>3, <2>4 DEF evnErro, Inv
<1>6. ASSUME NEW e \in batch, EvnStale(e) PROVE Inv'
  BY <1>6 DEF EvnStale, Dispatch, Inv, Control, osVars
<1>7. ASSUME NEW n \in 1 .. MaxFrames, RecvFrames(n) PROVE Inv'
  <2> DEFINE c == Owner
  <2>4. curFd \in Fds
    BY <1>7 DEF RecvFrames, AtRecv, Inv, Control
  <2>5. c \in Conns
    BY <1>a, <1>7, <2>4 DEF RecvFrames, Owner, Own, Mem
  <2>2. /\ inbox \in [Conns -> Nat] /\ n \in 1 .. inbox[c]
        /\ inbox' = [inbox EXCEPT ![c] = @ - n]
    BY <1>7 DEF RecvFrames, Inv, Control
  <2> HIDE DEF c
  <2>3. inbox' \in [Conns -> Nat] /\ n \in Nat /\ n > 0
    BY <2>2, <2>5
  <2>1. Control'
    BY <1>7, <2>3 DEF RecvFrames, AtRecv, Inv, Control
  <2> QED
    BY <1>7, <2>1 DEF RecvFrames, AtRecv, Inv
<1>8. CASE RecvAgain
  BY <1>8, LeaveInv DEF RecvAgain, AtRecv
<1>9. CASE RecvOver
  BY <1>9, LeaveInv DEF RecvOver, AtRecv
<1>11. CASE FrameIgnored
  BY <1>a, <1>b, <1>11, FrameInv DEF FrameIgnored, S
<1>12. CASE FrameRefused
  BY <1>12, LeaveInv DEF FrameRefused
<1>13. CASE evnPing
  <2>1. PICK how \in Outcomes : Frame(send(mem, cur, how))
    BY <1>13 DEF evnPing
  <2>2. Keeps(mem, send(mem, cur, how), S)
    BY <1>a, <1>d, <2>1, SendKeeps DEF Frame
  <2> QED
    BY <1>a, <1>13, <2>1, <2>2, FrameInv DEF evnPing, S
<1>14. CASE CbEnd
  <2>1. PICK how \in Outcomes, parts \in BOOLEAN : Frame(sendEnd(mem, cur, how, parts))
    BY <1>14 DEF CbEnd
  <2>2. Keeps(mem, sendEnd(mem, cur, how, parts), S)
    BY <1>a, <1>d, <2>1, SendEndKeeps DEF Frame
  <2> QED
    BY <1>a, <1>14, <2>1, <2>2, FrameInv DEF CbEnd, S
<1>15. CASE CbFail
  <2>1. Keeps(mem, close(mem, cur), S)
    BY <1>a, <1>d, <1>15, CloseKeeps DEF CbFail, Frame
  <2> QED
    BY <1>a, <1>15, <2>1, FrameInv DEF CbFail, S
<1>16. CASE CbLogin
  <2>1. Keeps(mem, [mem EXCEPT !.obj[cur].fusr = "set"], S)
    BY <1>a, <1>d, <1>16, LoginKeeps DEF CbLogin, Frame
  <2> QED
    BY <1>a, <1>16, <2>1, FrameInv DEF CbLogin, S
<1>17. CASE CbOnUsr
  <2>1. PICK m : Keeps(mem, m, S) /\ Frame(m)
    BY <1>b, <1>e, <1>17 DEF CbOnUsr, Faults
  <2> QED
    BY <1>a, <1>17, <2>1, FrameInv DEF CbOnUsr, S
<1>18. CASE CbKeep
  <2>1. kept' \in [Conns -> Nat] /\ \A c \in Conns : kept'[c] > 0 => kept[c] > 0 \/ c = cur
    <3>1. kept' = [kept EXCEPT ![cur] = @ + 1] /\ cur \in Conns
      BY <1>d, <1>18 DEF CbKeep, Frame
    <3> QED
      BY <1>a, <3>1
  <2> QED
    BY <1>b, <1>18, <2>1, FrameInv DEF CbKeep, S
<1>19. ASSUME NEW c \in Conns, CbKick(c) PROVE Inv'
  <2>1. PICK d \in Fds : mem.ans[d] = c
    BY <1>19 DEF CbKick, InAns
  <2>2. c \in Conns \ S
    BY <1>c, <2>1, NoneApart
  <2>3. Keeps(mem, close(mem, c), S)
    BY <1>a, <2>2, CloseKeeps
  <2> QED
    BY <1>a, <1>19, <2>3, FrameInv DEF CbKick, S
<1>20. CASE Dispatched
  BY <1>20 DEF Dispatched, Inv, Control, osVars
<1>21. CASE DoFuture
  <2>1. PICK how \in Outcomes : mem' \in After(mem, Done(Head(queue), how))
    BY <1>21 DEF DoFuture
  <2>2. Sound(Done(Head(queue), how), Tail(queue), kept, cur)
    BY <1>a, <1>21, DoneSound DEF DoFuture
  <2>4. Sound(mem', Tail(queue), kept, cur)
    BY <2>1, <2>2, AfterSound
  <2>3. Control'
    BY <1>21 DEF DoFuture, Inv, Control, osVars, loopVars
  <2> QED
    BY <1>21, <2>3, <2>4 DEF DoFuture, Inv, loopVars
<1>22. CASE NoFuture
  BY <1>22 DEF NoFuture, Inv, Control, osVars
<1>23. ASSUME NEW c \in Conns, PeerSend(c) PROVE Inv'
  <2>1. Control'
    BY <1>23 DEF PeerSend, Inv, Control, loopVars
  <2> QED
    BY <1>23, <2>1 DEF PeerSend, Inv, loopVars
<1>24. ASSUME NEW c \in Conns, NEW how \in {"closed", "error"}, PeerLeaves(c, how) PROVE Inv'
  <2>1. Control'
    BY <1>24 DEF PeerLeaves, Inv, Control, loopVars
  <2> QED
    BY <1>24, <2>1 DEF PeerLeaves, Inv, loopVars
<1>32. ASSUME NEW c \in Conns, Room(c) PROVE Inv'
  <2>1. Control'
    BY <1>32 DEF Room, Inv, Control, loopVars
  <2> QED
    BY <1>32, <2>1 DEF Room, Inv, loopVars
<1>33. ASSUME NEW c \in Conns, NEW op \in Ends, EndLate(c, op) PROVE Inv'
  <2> DEFINE k == [kept EXCEPT ![c] = @ - 1]
             h == [op |-> op, c |-> c]
  <2>1. kept[c] > 0 /\ kept' = k /\ UNCHANGED <<osVars, queue, loopVars>>
    BY <1>33 DEF EndLate
  <2>2. PICK how \in Outcomes : mem' \in After(mem, Done(h, how))
    BY <1>33 DEF EndLate
  <2>3. Sound(mem, queue, k, cur) /\ c \in Conns \ S
    BY <1>a, <2>1, EndSound, SoundGives DEF S
  <2>4. h.c = c /\ h.op # "add"
    BY DEF Ends
  <2> HIDE DEF h, k
  <2>5. Keeps(mem, Done(h, how), S)
    BY <1>a, <2>3, <2>4, EndKeeps
  <2>6. Sound(mem', queue, k, cur)
    BY <2>2, <2>3, <2>5, KeepsSound, AfterSound DEF S
  <2>7. Control'
    BY <2>1 DEF Inv, Control, osVars, loopVars
  <2> QED
    BY <2>1, <2>6, <2>7 DEF Inv, loopVars
<1>25. ASSUME NEW c \in Conns, NEW op \in Ends, End(c, op) PROVE Inv'
  <2> DEFINE k == [kept EXCEPT ![c] = @ - 1]
             p == Append(queue, [op |-> op, c |-> c])
  <2>1. kept[c] > 0 /\ kept' = k
    BY <1>25 DEF End
  <2>2. Sound(mem, queue, k, cur) /\ Sound(mem, p, k, cur)
    BY <1>a, <2>1, EndSound
  <2>3. Control'
    BY <1>25 DEF End, Inv, Control, osVars, loopVars
  <2>4. cur' = cur
    BY <1>25 DEF End, loopVars
  <2> HIDE DEF k, p
  <2>5. CASE mem' = mem /\ queue' = p
    BY <2>1, <2>2, <2>3, <2>4, <2>5 DEF Inv
  <2>6. CASE mem' = Fault(mem, "use after free") /\ queue' = queue
    <3>1. Sound(mem', queue, k, cur)
      BY <1>e, <2>2, <2>6, KeepsSound DEF S, Faults
    <3> QED
      BY <2>1, <2>3, <2>4, <2>6, <3>1 DEF Inv
  <2> QED
    BY <1>25, <2>5, <2>6 DEF End, p
<1>26. ASSUME NEW c \in Conns, NEW d \in Fds, Accept(c, d) PROVE Inv'
  <2>1. Sound(construct(mem, c, d), Append(queue, [op |-> "add", c |-> c]), kept, cur)
    BY <1>a, <1>26, AcceptSound DEF Accept, Incoming
  <2>2. Control'
    BY <1>26 DEF Accept, Inv, Control, osVars, loopVars
  <2> QED
    BY <1>26, <2>1, <2>2 DEF Accept, Inv, loopVars
<1>27. ASSUME NEW c \in Conns, NEW d \in Fds, evnConn(c, d) PROVE Inv'
  <2>1. Sound(addActorNet(construct(mem, c, d), c), queue, kept, cur)
    BY <1>a, <1>27, ConnSound DEF evnConn, Incoming
  <2>2. Control'
    BY <1>27 DEF evnConn, Inv, Control, osVars, loopVars
  <2> QED
    BY <1>27, <2>1, <2>2 DEF evnConn, Inv, loopVars
<1>28. CASE UNCHANGED vars
  BY <1>28 DEF vars, osVars, loopVars, Inv, Control
<1>29. CASE Loop
  BY <1>29, <1>1, <1>2, <1>3, <1>4, <1>5, <1>6, <1>7, <1>8, <1>9, <1>11, <1>12, <1>13,
     <1>14, <1>15, <1>16, <1>17, <1>18, <1>19, <1>20, <1>21, <1>22, <1>31 DEF Loop
<1>30. CASE Others
  BY <1>30, <1>23, <1>24, <1>25, <1>26, <1>32, <1>33 DEF Others
<1> QED
  BY <1>27, <1>28, <1>29, <1>30 DEF Next

-----------------------------------------------------------------------------

\* Inv holds throughout (Fworker::loop and everything it calls).
THEOREM Invariance == Safety => []Inv
<1>1. Init => Inv
  BY InitInv
<1>2. Inv /\ [Next]_vars => Inv'
  BY NextInv
<1> QED
  BY <1>1, <1>2, PTL DEF Safety

\* TypeOK: the variables have their types, and the only reference to a
\* connection is the read handler's to the one it is at, which is not freed
\* under it (Fworker::evnRecv, Actor::ref, Actor::unRef).
THEOREM TypeCorrect == Safety => []TypeOK
<1>1. Inv => TypeOK
  <2> SUFFICES ASSUME Inv PROVE TypeOK
    OBVIOUS
  <2>1. mem \in Mem
    BY DEF Inv, Sound, Own
  <2>2. queue \in Seq(Item) /\ kept \in [Conns -> Nat] /\ cur \in Conns \cup {None}
    BY DEF Inv, Sound
  <2>3. \A c \in Conns : mem.obj[c].rc > 0 => c = cur
    BY DEF Inv, Sound
  <2>4. cur # None => Live(mem, cur)
    BY DEF Inv, Sound
  <2> QED
    BY <2>1, <2>2, <2>3, <2>4 DEF Inv, Control, TypeOK, Mem, Item
<1> QED
  BY <1>1, Invariance, PTL

\* OwnDescriptors: a connection that is up owns its descriptor and is in ans
\* under it, or its addition is queued; one that is not up is in no table.  So
\* Net::close in Fworker::removeActorNet never gives away the descriptor of
\* another connection, however closes, accepts and lambdas interleave.
THEOREM Ownership == Safety => []OwnDescriptors
<1>1. Inv => OwnDescriptors
  <2> SUFFICES ASSUME Inv PROVE OwnDescriptors
    OBVIOUS
  <2>1. Own(mem, Adders(queue))
    BY DEF Inv, Sound
  <2>2. \A c \in Conns : c \in Adders(queue) <=> Adding(c)
    BY DEF Adders, Adding
  <2>3. \A c \in Conns : mem.obj[c].est =>
          /\ Live(mem, c)
          /\ mem.owner[mem.obj[c].fd] = c
          /\ mem.ans[mem.obj[c].fd] = (IF Adding(c) THEN None ELSE c)
    BY <2>1, <2>2 DEF Own, Live
  <2>4. \A d \in Fds : \A c \in {mem.owner[d], mem.ans[d]} \ {None} :
          mem.obj[c].est /\ mem.obj[c].fd = d
    BY <2>1 DEF Own
  <2> QED
    BY <2>3, <2>4 DEF OwnDescriptors
<1> QED
  BY <1>1, Invariance, PTL

-----------------------------------------------------------------------------
(* No fault, and one report.                                               *)

\* Where nothing faults: callbacks and lambdas look whether the connection is up,
\* and a transaction that was kept is ended on the worker, not in several parts.
Careful == ChecksEst /\ Elsewhere = {} /\ "parts" \notin Late

Safe(m) == m.fault = "none" /\ \A c \in Conns : m.obj[c].est => m.obj[c].fusr # "deleted"

\* The object o of a connection that is up, or not there yet, has not been
\* reported; the others have been, once, and wait for their last reference.
Told(o) ==
  /\ o.est \/ o.life = "unborn" => o.dis = 0
  /\ ~o.est /\ o.life # "unborn" => o.dis = 1 /\ o.fusr # "set"
  /\ ~o.est /\ o.life = "live" => o.rf /\ o.rc > 0

Good(m) == Safe(m) /\ (~BareErrors => \A c \in Conns : Told(m.obj[c]))

Calm ==
  /\ \A i \in 1 .. Len(queue) : queue[i].op = "add"
  /\ Good(mem)
  /\ ~BareErrors => (\A c \in Conns : peer[c] # "error") /\ \A e \in batch : e.kind # "err"

\* Only the object of c changes, to o.
LEMMA PutGood ==
  ASSUME NEW m, NEW n, Good(m), NEW c \in Conns, NEW o, n.fault = m.fault,
         \A b \in Conns : n.obj[b] = IF b = c THEN o ELSE m.obj[b],
         o.est => o.fusr # "deleted", ~BareErrors => Told(o)
  PROVE  Good(n)
<1>1. Safe(n)
  BY DEF Good, Safe
<1>2. ASSUME ~BareErrors PROVE \A b \in Conns : Told(n.obj[b])
  BY <1>2 DEF Good
<1> QED
  BY <1>1, <1>2 DEF Good

\* n is m with the object o for c.
Puts(m, n, c, o) ==
  /\ n \in Mem /\ n.owner = m.owner /\ n.fault = m.fault
  /\ \A b \in Conns : n.obj[b] = IF b = c THEN o ELSE m.obj[b]

LEMMA PutsObj == ASSUME NEW m \in Mem, NEW c \in Conns, NEW o \in Obj, NEW n,
                        n = [m EXCEPT !.obj = [m.obj EXCEPT ![c] = o]]
  PROVE Puts(m, n, c, o)
<1>1. n \in Mem /\ n.owner = m.owner /\ n.fault = m.fault
  BY PutObj
<1>2. \A b \in Conns : n.obj[b] = IF b = c THEN o ELSE m.obj[b]
  <2>1. m.obj \in [Conns -> Obj] /\ n.obj = [m.obj EXCEPT ![c] = o]
    BY Fields DEF Mem
  <2> QED
    BY <2>1
<1> QED
  BY <1>1, <1>2 DEF Puts

LEMMA PutsTrans == ASSUME NEW m, NEW n, NEW l, NEW c \in Conns, NEW o, NEW p,
                          Puts(m, n, c, o), Puts(n, l, c, p)
  PROVE Puts(m, l, c, p)
  BY DEF Puts

\* Actor::del and Actor::unRef on the object alone.
Reaped(o) == IF o.rf /\ o.rc = 0 THEN [o EXCEPT !.life = "freed"] ELSE o

LEMMA ReapIs == ASSUME NEW m \in Mem, NEW c \in Conns
  PROVE Reaped(m.obj[c]) \in Obj /\ Puts(m, Reap(m, c), c, Reaped(m.obj[c]))
<1> DEFINE p == m.obj[c]
           o == [p EXCEPT !.life = "freed"]
<1>1. p \in Obj
  BY Fields
<1>2. o \in Obj
  <2> HIDE DEF p
  <2> QED
    BY <1>1 DEF Obj
<1>3. CASE ~(p.rf /\ p.rc = 0)
  BY <1>1, <1>3 DEF Reap, Reaped, Puts
<1>4. CASE p.rf /\ p.rc = 0
  <2>1. Reap(m, c) = [m EXCEPT !.obj = [m.obj EXCEPT ![c] = o]]
    BY <1>4, Zenon DEF Reap
  <2>2. Reaped(p) = o
    BY <1>4 DEF Reaped
  <2> HIDE DEF o, p
  <2>3. Puts(m, Reap(m, c), c, o)
    BY <1>2, <2>1, PutsObj
  <2> QED
    BY <1>2, <2>2, <2>3 DEF p
<1> QED
  BY <1>3, <1>4

LEMMA DelIs == ASSUME NEW m \in Mem, NEW c \in Conns
  PROVE \E o \in Obj : Puts(m, del(m, c), c, Reaped(o)) /\ o = [m.obj[c] EXCEPT !.rf = TRUE]
<1> DEFINE n == [m EXCEPT !.obj[c].rf = TRUE]
           p == m.obj[c]
           o == [p EXCEPT !.rf = TRUE]
<1>1. p \in Obj
  BY Fields
<1>2. o \in Obj
  <2> HIDE DEF p
  <2> QED
    BY <1>1 DEF Obj
<1>3. n = [m EXCEPT !.obj = [m.obj EXCEPT ![c] = o]]
  BY Zenon
<1>4. del(m, c) = Reap(n, c)
  BY DEF del
<1> HIDE DEF n, o
<1>5. Puts(m, n, c, o)
  BY <1>2, <1>3, PutsObj
<1>6. n \in Mem /\ n.obj[c] = o
  BY <1>5 DEF Puts
<1>7. Puts(n, Reap(n, c), c, Reaped(o))
  BY <1>6, ReapIs
<1>8. Puts(m, del(m, c), c, Reaped(o))
  BY <1>4, <1>5, <1>7, PutsTrans
<1> QED
  BY <1>2, <1>8 DEF o

\* What becomes of a connection that is lost: it is reported, and its object is
\* done with when nothing refers to it.
Ended(p, o) == /\ ~o.est /\ o.dis = p.dis + 1 /\ o.fusr # "set" /\ o.rf /\ o.rc = p.rc
              /\ o.life = IF p.rc = 0 THEN "freed" ELSE p.life

LEMMA EvnDisIs == ASSUME NEW m \in Mem, NEW c \in Conns, m.obj[c].fusr # "deleted"
  PROVE \E o \in Obj : Puts(m, evnDis(m, c), c, o) /\ Ended(m.obj[c], o)
<1> DEFINE p == m.obj[c]
           f == IF p.fusr = "set" THEN "deleted" ELSE p.fusr
           o == [p EXCEPT !.est = FALSE, !.dis = p.dis + 1, !.fusr = f]
           n == [m EXCEPT !.obj[c].est = FALSE, !.obj[c].dis = @ + 1,
                          !.obj[c].fusr = IF @ = "set" THEN "deleted" ELSE @]
<1>1. p \in Obj /\ p.fusr # "deleted"
  BY Fields
<1>2. /\ o \in Obj /\ ~o.est /\ o.dis = p.dis + 1 /\ o.fusr # "set" /\ o.rc = p.rc
      /\ o.life = p.life
  <2>1. f \in {"none", "deleted"} /\ p.dis + 1 \in Nat
    BY <1>1 DEF Obj
  <2> HIDE DEF p, f
  <2> QED
    BY <1>1, <2>1 DEF Obj
<1>3. n = [m EXCEPT !.obj = [m.obj EXCEPT ![c] = o]]
  OBVIOUS
<1>4. evnDis(m, c) = del(n, c)
  BY <1>1 DEF evnDis
<1> HIDE DEF n, o
<1>5. Puts(m, n, c, o)
  BY <1>2, <1>3, PutsObj
<1>6. n \in Mem /\ n.obj[c] = o
  BY <1>5 DEF Puts
<1>7. PICK q \in Obj : Puts(n, del(n, c), c, Reaped(q)) /\ q = [o EXCEPT !.rf = TRUE]
  BY <1>6, DelIs
<1>8. Puts(m, evnDis(m, c), c, Reaped(q))
  BY <1>4, <1>5, <1>7, PutsTrans
<1>9. Reaped(q) \in Obj /\ Ended(p, Reaped(q))
  <2>1. /\ q.rf /\ ~q.est /\ q.dis = p.dis + 1 /\ q.fusr # "set" /\ q.rc = p.rc
        /\ q.life = p.life
    BY <1>2, <1>7 DEF Obj
  <2> HIDE DEF p
  <2>2. CASE p.rc = 0
    <3>1. Reaped(q) = [q EXCEPT !.life = "freed"]
      BY <2>1, <2>2 DEF Reaped
    <3> QED
      BY <2>1, <2>2, <3>1 DEF Ended, Obj
  <2>3. CASE p.rc # 0
    <3>1. Reaped(q) = q
      BY <2>1, <2>3 DEF Reaped
    <3> QED
      BY <2>1, <2>3, <3>1 DEF Ended
  <2> QED
    BY <2>2, <2>3
<1> QED
  BY <1>8, <1>9

LEMMA LostIs ==
  ASSUME NEW m \in Mem, NEW c \in Conns, m.obj[c].fusr # "deleted", m.obj[c].fd \in Fds
  PROVE  \E o \in Obj :
           /\ Ended(m.obj[c], o)
           /\ Lost(m, c).fault = m.fault
           /\ \A b \in Conns : Lost(m, c).obj[b] = IF b = c THEN o ELSE m.obj[b]
<1> DEFINE n == removeActorNet(m, c)
           p == m.obj[c]
           q == [p EXCEPT !.est = FALSE]
           d == p.fd
<1>1. p \in Obj /\ d \in Fds
  BY Fields
<1>2. q \in Obj /\ q.fusr = p.fusr /\ q.dis = p.dis /\ q.rc = p.rc /\ q.life = p.life
  <2> HIDE DEF p
  <2> QED
    BY <1>1 DEF Obj
<1>3. n.fault = m.fault
  BY DEF removeActorNet, Mem
<1>4. n \in Mem /\ \A b \in Conns : n.obj[b] = IF b = c THEN q ELSE m.obj[b]
  <2>1. n = [m EXCEPT !.ans = [m.ans EXCEPT ![d] = None], !.owner = [m.owner EXCEPT ![d] = None],
                      !.obj = [m.obj EXCEPT ![c] = q]]
    BY Zenon DEF removeActorNet
  <2>2. n.obj = [m.obj EXCEPT ![c] = q] /\ m.obj \in [Conns -> Obj]
    BY Fields DEF removeActorNet, Mem
  <2> HIDE DEF d, n, q
  <2>3. n \in Mem
    BY <1>1, <1>2, <2>1, PutTables
  <2> QED
    BY <2>2, <2>3
<1> HIDE DEF n, q
<1>5. n.obj[c] = q /\ q.fusr # "deleted"
  BY <1>2, <1>4
<1>6. PICK o \in Obj : Puts(n, evnDis(n, c), c, o) /\ Ended(q, o)
  BY <1>4, <1>5, EvnDisIs
<1>7. Ended(p, o)
  BY <1>2, <1>6 DEF Ended
<1>8. Lost(m, c) = evnDis(n, c)
  BY DEF Lost, n
<1> QED
  BY <1>3, <1>4, <1>6, <1>7, <1>8 DEF Puts

\* A connection that was up is lost: reported now, and not before.
LEMMA LostGood ==
  ASSUME NEW m, NEW S, Own(m, S), Good(m), NEW c \in Conns, m.obj[c].est
  PROVE Good(Lost(m, c))
<1> DEFINE p == m.obj[c]
           n == Lost(m, c)
<1>1. m \in Mem /\ p.fd \in Fds /\ p \in Obj /\ p.fusr # "deleted" /\ p.life = "live"
  BY Fields DEF Own, Good, Safe
<1>2. PICK o \in Obj : /\ Ended(p, o) /\ n.fault = m.fault
                       /\ \A b \in Conns : n.obj[b] = IF b = c THEN o ELSE m.obj[b]
  BY <1>1, LostIs
<1> HIDE DEF n
<1>3. ASSUME ~BareErrors PROVE Told(o)
  <2>1. Told(p)
    BY <1>3 DEF Good
  <2>2. p.dis = 0 /\ p.rc \in Nat
    BY <1>1, <2>1 DEF Told, Obj
  <2> HIDE DEF p
  <2>3. o.dis = 1
    BY <1>2, <2>2 DEF Ended
  <2> QED
    BY <1>1, <1>2, <2>2, <2>3 DEF Told, Ended
<1>4. ~o.est
  BY <1>2 DEF Ended
<1> QED
  BY <1>2, <1>3, <1>4, PutGood DEF n

\* A flag changes that nothing here is about.
LEMMA WaitingGood ==
  ASSUME NEW m, NEW S, Own(m, S), Good(m), NEW c \in Conns, NEW w \in BOOLEAN, NEW v \in BOOLEAN
  PROVE Good(Waiting(m, c, w, v))
<1> DEFINE n == Waiting(m, c, w, v)
           p == m.obj[c]
<1>1. m \in Mem
  BY DEF Own
<1>2. PICK o \in Obj :
        /\ n = [m EXCEPT !.obj = [m.obj EXCEPT ![c] = o]]
        /\ o.rc = p.rc /\ o.life = p.life
        /\ o.est <=> p.est
        /\ o.rf <=> p.rf
        /\ o.fusr = p.fusr /\ o.dis = p.dis
  BY <1>1, WaitingIs
<1>3. /\ n.fault = m.fault
      /\ \A b \in Conns : n.obj[b] = IF b = c THEN o ELSE m.obj[b]
  <2> HIDE DEF n
  <2>1. n = [m EXCEPT !.obj = [m.obj EXCEPT ![c] = o]]
    BY <1>2
  <2>2. n.fault = m.fault
    BY <1>1, <2>1, PutObj
  <2>3. \A b \in Conns : n.obj[b] = IF b = c THEN o ELSE m.obj[b]
    <3>1. m.obj \in [Conns -> Obj] /\ n.obj = [m.obj EXCEPT ![c] = o]
      BY <1>1, <2>1, Fields DEF Mem
    <3> QED
      BY <3>1
  <2> QED
    BY <2>2, <2>3
<1>4. p.est => p.fusr # "deleted"
  BY DEF Good, Safe
<1>5. ~BareErrors => Told(p)
  BY DEF Good
<1> HIDE DEF n, p
<1>6. o.est => o.fusr # "deleted"
  BY <1>2, <1>4
<1>7. ~BareErrors => Told(o)
  BY <1>2, <1>5 DEF Told
<1> QED
  BY <1>3, <1>6, <1>7, PutGood DEF n, p

LEMMA EvnWriteGood ==
  ASSUME NEW m, NEW S, Own(m, S), Good(m), NEW c \in Conns, m.obj[c].est, NEW how \in Outcomes
  PROVE Good(evnWrite(m, c, how))
<1>1. m \in Mem
  BY DEF Own
<1>2. Good(Lost(m, c)) /\ \A v \in BOOLEAN : Good(Waiting(m, c, FALSE, v))
  BY LostGood, WaitingGood
<1> QED
  BY <1>1, <1>2, EvnWriteIs

LEMMA SendGood ==
  ASSUME NEW m, NEW S, Own(m, S), Good(m), NEW c \in Conns, NEW how \in Outcomes
  PROVE Good(send(m, c, how))
<1>1. Good(Waiting(m, c, TRUE, TRUE))
  BY WaitingGood
<1>2. m.obj[c].est => Good(Lost(m, c))
  BY LostGood
<1> QED
  BY <1>1, <1>2, SendIs

\* A message in parts needs a reference that keeps the connection: the read
\* handler's.
LEMMA SendEndGood ==
  ASSUME NEW m, NEW S \in SUBSET Conns, Own(m, S), Good(m), NEW c \in Conns \ S,
         NEW how \in Outcomes, NEW parts \in BOOLEAN,
         parts => Live(m, c) /\ m.obj[c].rc > 0
  PROVE Good(sendEnd(m, c, how, parts))
<1>1. Keeps(m, send(m, c, how), S)
  BY SendKeeps
<1>2. parts => Live(send(m, c, how), c)
  BY <1>1 DEF Keeps
<1>3. sendEnd(m, c, how, parts) = send(m, c, how)
  BY <1>2 DEF sendEnd
<1> QED
  BY <1>3, SendGood

LEMMA CloseGood ==
  ASSUME NEW m, NEW S, Own(m, S), Good(m), NEW c \in Conns, m.obj[c].est
  PROVE Good(close(m, c))
  BY LostGood DEF close, closeSlient, Lost

\* Whatever the application does when it is told.
LEMMA AfterGood ==
  ASSUME NEW m, NEW n, NEW S \in SUBSET Conns, Own(n, S), Good(n), NEW x \in After(m, n)
  PROVE Good(x)
<1>1. PICK K \in SUBSET {c \in Conns : InAns(n, c)} : x = closeAll(n, K)
  BY DEF After
<1>2. n \in Mem
  BY DEF Own
<1>3. /\ x.fault = n.fault
      /\ \A c \in Conns : x.obj[c] = IF c \in K THEN close(n, c).obj[c] ELSE n.obj[c]
  <2>1. /\ closeAll(n, K).fault = n.fault
        /\ \A c \in Conns : closeAll(n, K).obj[c] =
             IF c \in K THEN close(n, c).obj[c] ELSE n.obj[c]
    BY <1>2, CloseAllIs
  <2> QED
    BY <1>1, <2>1
<1>4. \A c \in K : c \in Conns /\ Good(close(n, c))
  BY InAnsApart, CloseGood
<1>5. \A c \in Conns : \E l : Good(l) /\ x.obj[c] = l.obj[c]
  BY <1>3, <1>4
<1>6. Safe(x)
  BY <1>3, <1>5 DEF Good, Safe
<1>7. ~BareErrors => \A c \in Conns : Told(x.obj[c])
  BY <1>5 DEF Good
<1> QED
  BY <1>6, <1>7 DEF Good

LEMMA CountIs == ASSUME NEW m \in Mem, NEW c \in Conns, NEW r \in Nat
  PROVE \E o \in Obj : Puts(m, Count(m, c, r), c, o) /\ o = [m.obj[c] EXCEPT !.rc = r]
<1> DEFINE p == m.obj[c]
           o == [p EXCEPT !.rc = r]
           n == Count(m, c, r)
<1>1. p \in Obj
  BY Fields
<1>2. o \in Obj
  <2> HIDE DEF p
  <2> QED
    BY <1>1 DEF Obj
<1>3. n = [m EXCEPT !.obj = [m.obj EXCEPT ![c] = o]]
  BY Zenon DEF Count
<1> HIDE DEF n, o
<1>4. Puts(m, n, c, o)
  BY <1>2, <1>3, PutsObj
<1> QED
  BY <1>2, <1>4 DEF n, o

\* Fworker::evnRecv's reference to a connection that is up ...
LEMMA RefGood ==
  ASSUME NEW m, NEW S, Own(m, S), Good(m), NEW c \in Conns, m.obj[c].est
  PROVE Good(ref(m, c))
<1> DEFINE p == m.obj[c]
           r == p.rc + 1
           n == ref(m, c)
<1>1. m \in Mem /\ p \in Obj /\ r \in Nat
  <2>1. m \in Mem /\ p \in Obj
    BY Fields DEF Own
  <2> QED
    BY <2>1 DEF Obj
<1>2. n = Count(m, c, r)
  BY Zenon DEF ref, Count
<1> HIDE DEF r, n
<1>3. PICK o \in Obj : Puts(m, Count(m, c, r), c, o) /\ o = [p EXCEPT !.rc = r]
  BY <1>1, CountIs
<1>4. o.est /\ o.fusr = p.fusr /\ o.dis = p.dis
  <2>1. p.est
    OBVIOUS
  <2> HIDE DEF p
  <2> QED
    BY <1>1, <1>3, <2>1 DEF Obj
<1>5. o.fusr # "deleted" /\ (~BareErrors => Told(o))
  BY <1>4 DEF Good, Safe, Told
<1>6. /\ n.fault = m.fault
      /\ \A b \in Conns : n.obj[b] = IF b = c THEN o ELSE m.obj[b]
  BY <1>2, <1>3 DEF Puts
<1> QED
  BY <1>5, <1>6, PutGood DEF n

\* ... is the last, so that one that is not up goes when it is given back.
LEMMA UnRefGood ==
  ASSUME NEW m, NEW S, Own(m, S), Good(m), NEW c \in Conns, m.obj[c].rc = 1, Live(m, c)
  PROVE Good(unRef(m, c))
<1> DEFINE p == m.obj[c]
           r == p.rc - 1
           n == Count(m, c, r)
<1>1. m \in Mem /\ p \in Obj /\ r = 0 /\ r \in Nat /\ p.life = "live"
  BY Fields DEF Own, Live
<1>2. unRef(m, c) = Reap(n, c)
  BY Zenon DEF unRef, Count
<1> HIDE DEF n
<1>3. PICK o \in Obj : Puts(m, n, c, o) /\ o = [p EXCEPT !.rc = r]
  BY <1>1, CountIs DEF n
<1>4. n \in Mem /\ n.obj[c] = o
  BY <1>3 DEF Puts
<1>5. Reaped(o) \in Obj /\ Puts(n, Reap(n, c), c, Reaped(o))
  BY <1>4, ReapIs
<1>6. Puts(m, Reap(n, c), c, Reaped(o))
  BY <1>3, <1>5, PutsTrans
<1>7. /\ o.rc = 0 /\ o.fusr = p.fusr /\ o.dis = p.dis /\ o.life = "live"
      /\ o.est <=> p.est
      /\ o.rf <=> p.rf
  <2> HIDE DEF p, r
  <2> QED
    BY <1>1, <1>3 DEF Obj
<1>8. p.est => ~p.rf /\ p.fusr # "deleted"
  BY DEF Own, Good, Safe
<1>9. ~BareErrors => Told(p)
  BY DEF Good
<1>10. /\ Reaped(o).est => Reaped(o).fusr # "deleted"
       /\ ~BareErrors => Told(Reaped(o))
  <2> HIDE DEF p
  <2>1. CASE o.rf
    <3>1. Reaped(o) = [o EXCEPT !.life = "freed"]
      BY <1>7, <2>1 DEF Reaped
    <3>2. /\ Reaped(o).life = "freed" /\ Reaped(o).fusr = o.fusr /\ Reaped(o).dis = o.dis
          /\ Reaped(o).est <=> o.est
      BY <3>1 DEF Obj
    <3> QED
      BY <1>1, <1>7, <1>8, <1>9, <2>1, <3>2 DEF Told
  <2>2. CASE ~o.rf
    <3>1. Reaped(o) = o
      BY <2>2 DEF Reaped
    <3> QED
      BY <1>1, <1>7, <1>8, <1>9, <2>2, <3>1 DEF Told
  <2> QED
    BY <2>1, <2>2
<1>11. /\ unRef(m, c).fault = m.fault
       /\ \A b \in Conns : unRef(m, c).obj[b] = IF b = c THEN Reaped(o) ELSE m.obj[b]
  BY <1>2, <1>6 DEF Puts
<1> QED
  BY <1>10, <1>11, PutGood

LEMMA LoginGood ==
  ASSUME NEW m, NEW S, Own(m, S), Good(m), NEW c \in Conns, m.obj[c].est
  PROVE Good([m EXCEPT !.obj[c].fusr = "set"])
<1> DEFINE n == [m EXCEPT !.obj[c].fusr = "set"]
           p == m.obj[c]
<1>1. m \in Mem
  BY DEF Own
<1>2. PICK o \in Obj :
        /\ n = [m EXCEPT !.obj = [m.obj EXCEPT ![c] = o]]
        /\ o.rc = p.rc /\ o.life = p.life
        /\ o.est <=> p.est
        /\ o.rf <=> p.rf
        /\ o.fusr = "set" /\ o.dis = p.dis
  BY <1>1, LoginIs
<1>3. /\ n.fault = m.fault
      /\ \A b \in Conns : n.obj[b] = IF b = c THEN o ELSE m.obj[b]
  <2> HIDE DEF n
  <2>1. n = [m EXCEPT !.obj = [m.obj EXCEPT ![c] = o]]
    BY <1>2
  <2>2. n.fault = m.fault
    BY <1>1, <2>1, PutObj
  <2>3. \A b \in Conns : n.obj[b] = IF b = c THEN o ELSE m.obj[b]
    <3>1. m.obj \in [Conns -> Obj] /\ n.obj = [m.obj EXCEPT ![c] = o]
      BY <1>1, <2>1, Fields DEF Mem
    <3> QED
      BY <3>1
  <2> QED
    BY <2>2, <2>3
<1>4. p.est /\ (~BareErrors => Told(p))
  BY DEF Good
<1> HIDE DEF n, p
<1>5. o.fusr # "deleted" /\ (~BareErrors => Told(o))
  BY <1>2, <1>4 DEF Told
<1>6. Good(n)
  BY <1>3, <1>5, PutGood
<1> QED
  BY <1>6 DEF n

\* A connection comes up.
LEMMA ConstructGood ==
  ASSUME NEW m, NEW S, Own(m, S), Good(m), NEW c \in Conns, NEW d \in Fds
  PROVE Good(construct(m, c, d))
<1> DEFINE l == construct(m, c, d)
<1>1. m \in Mem
  BY DEF Own
<1>2. l.obj = [m.obj EXCEPT ![c] = Born(d)] /\ m.obj \in [Conns -> Obj] /\ l.fault = m.fault
  <2>1. l.obj = [m.obj EXCEPT ![c] = Born(d)] /\ m.obj \in [Conns -> Obj]
    BY <1>1, ConstructIs, Fields
  <2>2. l.fault = m.fault
    BY <1>1 DEF construct, Mem
  <2> QED
    BY <2>1, <2>2
<1>3. Born(d).est /\ Born(d).fusr = "none" /\ Born(d).dis = 0 /\ Born(d).life = "live"
  BY DEF Born, Unborn
<1> HIDE DEF l
<1>4. \A b \in Conns : l.obj[b] = IF b = c THEN Born(d) ELSE m.obj[b]
  BY <1>2
<1>5. Told(Born(d))
  BY <1>3 DEF Told
<1>6. Good(l)
  BY <1>2, <1>3, <1>4, <1>5, PutGood
<1> QED
  BY <1>6 DEF l

\* ... and is added.
LEMMA AddGood ==
  ASSUME NEW m, NEW S \in SUBSET Conns, Own(m, S), Good(m), NEW c \in S
  PROVE Good(addActorNet(m, c))
<1>1. addActorNet(m, c).obj = m.obj
  BY AddOwn
<1>2. addActorNet(m, c).fault = m.fault
  <2>1. m \in Mem
    BY DEF Own
  <2> QED
    BY <2>1 DEF addActorNet, Mem
<1> QED
  BY <1>1, <1>2 DEF Good, Safe

\* Fworker::evnErro leaves the connection unreported.
LEMMA ErroGood ==
  ASSUME NEW m, NEW S, Own(m, S), Good(m), NEW c \in Conns, m.obj[c].est, BareErrors
  PROVE Good(removeActorNet(m, c))
<1>1. m \in Mem
  BY DEF Own
<1>2. /\ removeActorNet(m, c).fault = m.fault
      /\ removeActorNet(m, c).obj = [m.obj EXCEPT ![c] = [m.obj[c] EXCEPT !.est = FALSE]]
  BY <1>1 DEF removeActorNet, Mem
<1>3. ASSUME NEW b \in Conns, removeActorNet(m, c).obj[b].est PROVE removeActorNet(m, c).obj[b] = m.obj[b]
  BY <1>1, <1>2, <1>3 DEF Mem, Obj
<1> QED
  BY <1>2, <1>3 DEF Good, Safe

\* What a frame, or its callback, makes of mem.
LEMMA FrameCalm ==
  ASSUME Inv, Calm, NEW m, Keeps(mem, m, Adders(queue)), Good(m), Frame(m)
  PROVE Calm'
<1>1. Own(m, Adders(queue)) /\ Adders(queue) \in SUBSET Conns
  BY DEF Keeps, Adders
<1>2. mem' \in After(mem, m) /\ queue' = queue /\ batch' = batch /\ peer' = peer
  BY DEF Frame, osVars
<1>3. Good(mem')
  BY <1>1, <1>2, AfterGood
<1> QED
  BY <1>2, <1>3 DEF Calm

\* A handler gives back its reference to c.
LEMMA LetGoGood ==
  ASSUME NEW m, NEW q, NEW k, NEW c \in Conns, c # None, Sound(m, q, k, c), Good(m),
         NEW x \in After(mem, unRef(m, c))
  PROVE Good(x)
<1>1. /\ Own(m, Adders(q)) /\ Adders(q) \in SUBSET Conns /\ m.obj[c].rc = 1 /\ Live(m, c)
  BY SoundGives DEF Sound
<1>2. Good(unRef(m, c))
  BY <1>1, UnRefGood
<1>3. Own(unRef(m, c), Adders(q))
  BY <1>1, UnRefOwn
<1> QED
  BY <1>1, <1>2, <1>3, AfterGood

\* The end of the read handler.
LEMMA LeaveCalm ==
  ASSUME Inv, Calm, pc \in {"recv", "read"}, NEW flag \in BOOLEAN, Leave(flag)
  PROVE Calm'
<1> DEFINE S == Adders(queue)
           m == IF ~flag /\ mem.obj[cur].est THEN Lost(mem, cur) ELSE mem
<1>7. Sound(mem, queue, kept, cur) /\ cur # None
  BY DEF Inv, Control
<1>1. /\ Own(mem, S) /\ S \in SUBSET Conns /\ cur \in Conns \ S /\ cur # None
      /\ Sound(mem, queue, kept, cur)
  BY <1>7, SoundGives
<1>2. Good(m)
  BY <1>1, LostGood DEF Calm
<1>3. Keeps(mem, m, S)
  BY <1>1, LostKeeps, KeepsSelf
<1>4. mem' \in After(mem, unRef(m, cur)) /\ queue' = queue /\ batch' = batch /\ peer' = peer
  BY DEF Leave
<1> HIDE DEF m
<1>5. Sound(m, queue, kept, cur)
  BY <1>1, <1>3, KeepsSound
<1>6. Good(mem')
  BY <1>1, <1>2, <1>4, <1>5, LetGoGood
<1> QED
  BY <1>4, <1>6 DEF Calm

LEMMA InitCalm == Init => Calm
<1> SUFFICES ASSUME Init PROVE Calm
  OBVIOUS
<1>1. ~Unborn.est /\ Unborn.life = "unborn" /\ Unborn.dis = 0
  BY DEF Unborn
<1>2. \A c \in Conns : mem.obj[c] = Unborn
  BY DEF Init
<1>3. Told(Unborn)
  BY <1>1 DEF Told
<1>4. Good(mem)
  BY <1>1, <1>2, <1>3 DEF Init, Good, Safe
<1> QED
  BY <1>4 DEF Init, Calm

LEMMA NextCalm == ASSUME Careful, Inv, Calm, [Next]_vars PROVE Calm'
<1> DEFINE S == Adders(queue)
<1>a. /\ Sound(mem, queue, kept, cur) /\ S \in SUBSET Conns /\ Own(mem, S) /\ Good(mem)
      /\ queue \in Seq(Item)
  BY SoundGives DEF Inv, Calm
<1>b. Keeps(mem, mem, S)
  BY <1>a, KeepsSelf
<1>c. \A d \in Fds : mem.ans[d] # None => mem.ans[d] \in Conns \ S /\ mem.obj[mem.ans[d]].est
  BY <1>a, SoundGives
<1>d. pc = "read" => cur \in Conns \ S /\ Live(mem, cur) /\ mem.obj[cur].rc > 0
  BY <1>a, SoundGives DEF Inv, Control, Sound
<1>e. \A deed : May(deed) => mem.obj[cur].est /\ mem.obj[cur].fusr # "deleted" /\ pc = "read"
  BY <1>a, <1>d DEF Careful, May, Good, Safe
<1> HIDE DEF S
<1>1. ASSUME NEW listen \in BOOLEAN, EpollWait(listen) PROVE Calm'
  <2>1. PICK k \in [Ready -> Events] :
          /\ \A c \in Ready : k[c] \in Kinds(c)
          /\ batch' = {[fd |-> mem.obj[c].fd, kind |-> k[c]] : c \in Ready}
                      \cup (IF listen THEN {Listen} ELSE {})
    BY <1>1 DEF EpollWait
  <2>2. ASSUME ~BareErrors PROVE \A e \in batch' : e.kind # "err"
    <3>1. ASSUME NEW c \in Ready PROVE k[c] # "err"
      <4>1. peer[c] # "error"
        BY <2>2 DEF Calm, Ready
      <4> QED
        BY <2>1, <4>1 DEF Kinds
    <3> QED
      BY <2>1, <3>1 DEF Listen
  <2>3. UNCHANGED <<mem, peer, queue>>
    BY <1>1 DEF EpollWait
  <2> QED
    BY <2>2, <2>3 DEF Calm
<1>2. CASE EvnListen \/ AcceptDone \/ Dispatched \/ NoFuture
  BY <1>2 DEF EvnListen, AcceptDone, Dispatched, NoFuture, Dispatch, Calm, osVars
<1>26. ASSUME NEW e \in batch, evnSend(e) PROVE Calm'
  <2>1. e.fd \in Fds /\ mem.ans[e.fd] # None /\ cur = None
    BY <1>26, Idle DEF evnSend, Dispatch, Inv, Control, Events
  <2> DEFINE c == mem.ans[e.fd]
  <2>2. PICK how \in Outcomes : mem' \in After(mem, unRef(evnWrite(ref(mem, c), c, how), c))
    BY <1>26 DEF evnSend
  <2>3. c \in Conns \ S /\ mem.obj[c].est /\ c # None
    BY <1>c, <2>1
  <2>4. Sound(ref(mem, c), queue, kept, c)
    BY <1>a, <2>1, TakeSound
  <2> HIDE DEF c
  <2>5. Own(ref(mem, c), S) /\ ref(mem, c).obj[c].est
    BY <1>a, <2>3, RefOwn
  <2>6. Keeps(ref(mem, c), evnWrite(ref(mem, c), c, how), S)
    BY <1>a, <2>3, <2>5, EvnWriteKeeps
  <2>7. Sound(evnWrite(ref(mem, c), c, how), queue, kept, c)
    BY <2>4, <2>6, KeepsSound DEF S
  <2>8. Good(ref(mem, c))
    BY <1>a, <2>3, RefGood
  <2>9. Good(evnWrite(ref(mem, c), c, how))
    BY <2>3, <2>5, <2>8, EvnWriteGood
  <2>10. Good(mem')
    BY <2>2, <2>3, <2>7, <2>9, LetGoGood
  <2>11. batch' = batch \ {e} /\ UNCHANGED <<peer, queue>>
    BY <1>26 DEF evnSend, Dispatch, osVars
  <2> QED
    BY <2>10, <2>11 DEF Calm
<1>3. ASSUME NEW e \in batch, evnRecv(e) PROVE Calm'
  <2>1. e.fd \in Fds /\ mem.ans[e.fd] # None
    BY <1>3 DEF evnRecv, Dispatch, Inv, Control, Events
  <2>2. Good(ref(mem, mem.ans[e.fd]))
    BY <1>a, <1>c, <2>1, RefGood
  <2>3. /\ mem' = ref(mem, mem.ans[e.fd]) /\ batch' = batch \ {e}
        /\ UNCHANGED <<peer, queue>>
    BY <1>3 DEF evnRecv, Dispatch, osVars
  <2> QED
    BY <2>2, <2>3 DEF Calm
<1>4. ASSUME NEW e \in batch, evnErro(e) PROVE Calm'
  <2>1. e.fd \in Fds /\ mem.ans[e.fd] # None /\ e.kind = "err"
    BY <1>4 DEF evnErro, Dispatch, Inv, Control
  <2>2. BareErrors
    BY <2>1 DEF Calm
  <2>3. Good(mem')
    BY <1>a, <1>c, <1>4, <2>1, <2>2, ErroGood DEF evnErro
  <2>4. batch' = batch \ {e} /\ UNCHANGED <<peer, queue>>
    BY <1>4 DEF evnErro, Dispatch, osVars
  <2> QED
    BY <2>2, <2>3, <2>4 DEF Calm
<1>5. ASSUME NEW e \in batch, EvnStale(e) PROVE Calm'
  BY <1>5 DEF EvnStale, Dispatch, Calm, osVars
<1>6. ASSUME NEW n \in 1 .. MaxFrames, RecvFrames(n) PROVE Calm'
  BY <1>6 DEF RecvFrames, AtRecv, Calm
<1>7. CASE RecvAgain \/ RecvOver \/ FrameRefused
  BY <1>7, LeaveCalm DEF RecvAgain, RecvOver, FrameRefused, AtRecv
<1>9. CASE FrameIgnored \/ CbKeep
  BY <1>a, <1>b, <1>9, FrameCalm DEF FrameIgnored, CbKeep, S
<1>10. CASE evnPing
  <2>1. PICK how \in Outcomes : Frame(send(mem, cur, how))
    BY <1>10 DEF evnPing
  <2>2. Good(send(mem, cur, how)) /\ Keeps(mem, send(mem, cur, how), S)
    BY <1>a, <1>d, <2>1, SendGood, SendKeeps DEF Frame
  <2> QED
    BY <2>1, <2>2, FrameCalm DEF S
<1>11. CASE CbEnd
  <2>1. PICK how \in Outcomes, parts \in BOOLEAN : Frame(sendEnd(mem, cur, how, parts))
    BY <1>11 DEF CbEnd
  <2>2. Good(sendEnd(mem, cur, how, parts)) /\ Keeps(mem, sendEnd(mem, cur, how, parts), S)
    BY <1>a, <1>d, <2>1, SendEndGood, SendEndKeeps DEF Frame
  <2> QED
    BY <2>1, <2>2, FrameCalm DEF S
<1>12. CASE CbFail
  <2>1. Good(close(mem, cur)) /\ Keeps(mem, close(mem, cur), S)
    BY <1>a, <1>d, <1>e, <1>12, CloseGood, CloseKeeps DEF CbFail
  <2> QED
    BY <1>12, <2>1, FrameCalm DEF CbFail, S
<1>13. CASE CbLogin
  <2> DEFINE m == [mem EXCEPT !.obj[cur].fusr = "set"]
  <2>1. Good(m) /\ Keeps(mem, m, S)
    BY <1>a, <1>d, <1>e, <1>13, LoginGood, LoginKeeps DEF CbLogin
  <2>2. Frame(m)
    BY <1>13 DEF CbLogin
  <2> HIDE DEF m
  <2> QED
    BY <2>1, <2>2, FrameCalm DEF S
<1>14. CASE CbOnUsr
  <2>1. Frame(mem)
    BY <1>e, <1>14 DEF CbOnUsr
  <2> QED
    BY <1>a, <1>b, <2>1, FrameCalm DEF S
<1>16. ASSUME NEW c \in Conns, CbKick(c) PROVE Calm'
  <2>1. c \in Conns \ S /\ mem.obj[c].est
    BY <1>a, <1>16, InAnsApart DEF CbKick
  <2>2. Good(close(mem, c)) /\ Keeps(mem, close(mem, c), S)
    BY <1>a, <2>1, CloseGood, CloseKeeps
  <2> QED
    BY <1>16, <2>2, FrameCalm DEF CbKick, S
<1>17. CASE DoFuture
  <2> DEFINE h == Head(queue)
  <2>1. PICK how \in Outcomes : mem' \in After(mem, Done(h, how))
    BY <1>17 DEF DoFuture
  <2>2. queue # <<>> /\ queue' = Tail(queue) /\ UNCHANGED <<peer, batch>>
    BY <1>17 DEF DoFuture, osVars, loopVars
  <2>3. /\ OneAdder(queue) /\ Own(mem, Adders(queue)) /\ Adders(queue) \in SUBSET Conns
    BY <1>a, SoundGives
  <2>4. /\ h = queue[1] /\ 1 \in 1 .. Len(queue)
        /\ h.op = "add" => h.c \in Adders(queue)
        /\ \A i \in 1 .. Len(Tail(queue)) : \E j \in 1 .. Len(queue) : Tail(queue)[i] = queue[j]
    BY <1>a, <2>2, <2>3, Taken
  <2> HIDE DEF h
  <2>5. h.op = "add" /\ h.c \in Adders(queue)
    BY <2>4 DEF Calm
  <2>6. Live(mem, h.c)
    BY <2>3, <2>5 DEF Own, Live
  <2>7. Done(h, how) = addActorNet(mem, h.c)
    BY <2>5, <2>6 DEF Done
  <2> DEFINE T == Adders(queue)
             n == addActorNet(mem, h.c)
  <2>11. h.c \in T /\ T \in SUBSET Conns /\ Own(mem, T)
    BY <2>3, <2>5
  <2> HIDE DEF T
  <2>8. Own(n, T \ {h.c}) /\ Good(n)
    BY <1>a, <2>11, AddOwn, AddGood
  <2>12. mem' \in After(mem, n)
    BY <2>1, <2>7
  <2> HIDE DEF n
  <2>9. Good(mem')
    BY <2>8, <2>11, <2>12, AfterGood
  <2>10. \A i \in 1 .. Len(queue') : queue'[i].op = "add"
    BY <2>2, <2>4 DEF Calm
  <2> QED
    BY <2>2, <2>9, <2>10 DEF Calm
<1>18. ASSUME NEW c \in Conns, PeerSend(c) \/ Room(c) PROVE Calm'
  BY <1>18 DEF PeerSend, Room, Calm, loopVars
<1>19. ASSUME NEW c \in Conns, NEW how \in {"closed", "error"}, PeerLeaves(c, how) PROVE Calm'
  <2>1. peer' = [peer EXCEPT ![c] = how] /\ peer \in [Conns -> {"up", "closed", "error"}]
    BY <1>19 DEF PeerLeaves, Inv, Control
  <2>2. ~BareErrors => how # "error"
    BY <1>19 DEF PeerLeaves
  <2>3. UNCHANGED <<mem, kept, queue, loopVars>>
    BY <1>19 DEF PeerLeaves
  <2>4. ~BareErrors => \A b \in Conns : peer'[b] # "error"
    BY <2>1, <2>2 DEF Calm
  <2> QED
    BY <2>3, <2>4 DEF Calm, loopVars
<1>20. ASSUME NEW c \in Conns, NEW op \in Ends, End(c, op) PROVE Calm'
  BY <1>20 DEF End, Careful
<1>8. ASSUME NEW c \in Conns, NEW op \in Ends, EndLate(c, op) PROVE Calm'
  <2> DEFINE h == [op |-> op, c |-> c]
  <2>1. /\ kept[c] > 0 /\ op \in Late /\ mem.obj[c].est
        /\ UNCHANGED <<osVars, queue, loopVars>>
    BY <1>8 DEF EndLate, Careful
  <2>2. PICK how \in Outcomes : mem' \in After(mem, Done(h, how))
    BY <1>8 DEF EndLate
  <2>3. h.c = c /\ h.op # "add" /\ h.op # "parts" /\ (h.op = "fail" \/ h.op # "fail")
    BY <2>1 DEF Ends, Careful
  <2>4. c \in Conns \ S /\ Live(mem, c)
    BY <1>a, <2>1 DEF Sound, Own, Live, S
  <2> HIDE DEF h
  <2>5. Good(close(mem, c)) /\ Good(sendEnd(mem, c, how, FALSE))
    BY <1>a, <2>1, <2>4, CloseGood, SendEndGood
  <2>6. Done(h, how) = close(mem, c) \/ Done(h, how) = sendEnd(mem, c, how, FALSE)
    <3>1. (h.op = "parts") = FALSE
      BY <2>3
    <3> QED
      BY <2>3, <2>4, <3>1 DEF Done
  <2>7. Own(Done(h, how), S)
    BY <1>a, <2>3, <2>4, EndKeeps DEF Keeps
  <2>8. Good(mem')
    BY <1>a, <2>2, <2>5, <2>6, <2>7, AfterGood
  <2> QED
    BY <2>1, <2>8 DEF Calm, osVars, loopVars
<1>21. ASSUME NEW c \in Conns, NEW d \in Fds, Accept(c, d) PROVE Calm'
  <2> DEFINE h == [op |-> "add", c |-> c]
  <2>1. Good(construct(mem, c, d))
    BY <1>a, ConstructGood
  <2>2. /\ mem' = construct(mem, c, d) /\ queue' = Append(queue, h)
        /\ UNCHANGED <<peer, batch>>
    BY <1>21 DEF Accept, osVars, loopVars
  <2>3. h.op = "add"
    OBVIOUS
  <2> HIDE DEF h
  <2>4. \A i \in 1 .. Len(queue') : queue'[i].op = "add"
    <3> DEFINE q == queue
    <3>3. q \in Seq(Item)
      BY <1>a
    <3> HIDE DEF q
    <3>2. \A i \in 1 .. Len(Append(q, h)) :
            Append(q, h)[i] = h \/ (i \in 1 .. Len(q) /\ Append(q, h)[i] = q[i])
      BY <3>3
    <3>1. \A i \in 1 .. Len(queue') : queue'[i] = h \/ (i \in 1 .. Len(queue) /\ queue'[i] = queue[i])
      BY <2>2, <3>2 DEF q
    <3> QED
      BY <2>3, <3>1 DEF Calm
  <2> QED
    BY <2>1, <2>2, <2>4 DEF Calm
<1>22. ASSUME NEW c \in Conns, NEW d \in Fds, evnConn(c, d) PROVE Calm'
  <2> DEFINE l == construct(mem, c, d)
             T == S \cup {c}
  <2>1. mem' = addActorNet(l, c) /\ UNCHANGED <<peer, queue, batch>>
    BY <1>22 DEF evnConn, osVars, loopVars
  <2>2. Good(l) /\ Own(l, T) /\ c \in T /\ T \in SUBSET Conns
    BY <1>a, <1>22, ConstructGood, ConstructOwn DEF evnConn, Incoming
  <2> HIDE DEF l, T
  <2>3. Good(mem')
    BY <2>1, <2>2, AddGood
  <2> QED
    BY <2>1, <2>3 DEF Calm
<1>23. CASE UNCHANGED vars
  BY <1>23 DEF vars, osVars, loopVars, Calm
<1>24. CASE Loop
  BY <1>24, <1>1, <1>2, <1>3, <1>4, <1>5, <1>6, <1>7, <1>9, <1>10, <1>11, <1>12, <1>13,
     <1>14, <1>16, <1>17, <1>26 DEF Loop
<1>25. CASE Others
  BY <1>25, <1>8, <1>18, <1>19, <1>20, <1>21 DEF Others
<1> QED
  BY <1>22, <1>23, <1>24, <1>25 DEF Next

\* Nothing freed is used and no user is deleted twice, whoever accepts the worker's
\* connections, if callbacks and lambdas look whether the connection is up before
\* they act, no transaction is ended by another thread, and none that was kept in
\* several parts.  It does not matter what else callbacks do, to their own or to
\* other connections and when they are told of a loss, how sends go, whose data a
\* read is given, and whether epoll reports bare errors (Fworker::evnRecv,
\* Fworker::evnSend, ActorNet::sendBuf, ActorNet::close, StmpNet::sendEnd,
\* StmpN2H::evnDis).
THEOREM NeverFaulty == ASSUME Careful PROVE Safety => []NoFault
<1>1. Init => Calm
  BY InitCalm
<1>2. Inv /\ Calm /\ [Next]_vars => Calm'
  BY NextCalm
<1>3. Calm => NoFault
  BY DEF Calm, Good, Safe, NoFault, Running
<1> QED
  BY <1>1, <1>2, <1>3, Invariance, PTL DEF Safety

\* The application hears once of the end of each connection: before the object
\* goes and before the worker next looks for events, under the same conditions,
\* and if epoll reports no error by itself: evnErro reports nothing
\* (StmpN2H::evnDis, Fworker::evnRecv, Actor::del, Actor::unRef).
THEOREM ReportsOnce == ASSUME Careful, ~BareErrors PROVE Safety => []ReportedOnce
<1>1. Init => Calm
  BY InitCalm
<1>2. Inv /\ Calm /\ [Next]_vars => Calm'
  BY NextCalm
<1>3. Inv /\ Calm => ReportedOnce
  <2> SUFFICES ASSUME Inv, Calm, NEW c \in Conns
               PROVE /\ mem.obj[c].dis <= 1
                     /\ mem.obj[c].life = "freed" => mem.obj[c].dis = 1 /\ mem.obj[c].fusr # "set"
                     /\ Live(mem, c) /\ pc = "wait" => mem.obj[c].est /\ mem.obj[c].dis = 0
    BY DEF ReportedOnce
  <2>1. Told(mem.obj[c])
    BY DEF Calm, Good
  <2>2. mem.obj[c].est => mem.obj[c].life = "live"
    BY DEF Inv, Sound, Own
  <2>3. mem.obj[c].dis = 0 \/ mem.obj[c].dis = 1
    BY <2>1 DEF Told
  <2>4. Live(mem, c) /\ pc = "wait" => mem.obj[c].est
    <3>1. pc = "wait" => mem.obj[c].rc = 0
      BY Idle, NoneApart DEF Inv, Sound
    <3> QED
      BY <2>1, <3>1 DEF Told, Live
  <2> QED
    BY <2>1, <2>2, <2>3, <2>4 DEF Told, Live
<1> QED
  BY <1>1, <1>2, <1>3, Invariance, PTL DEF Safety
=============================================================================
