--------------------------- MODULE ActorNetProofs ---------------------------
(***************************************************************************)
(* For messages of any lengths and a send buffer of any size: the types    *)
(* and the bookkeeping of wbuf (TypeCorrect), that the bytes given are     *)
(* out, tcp and wbuf put together (BytesInOrder), and that each step is    *)
(* one of Stream or changes nothing the peer or the sender could tell      *)
(* (ImplementsStream).                                                     *)
(*                                                                         *)
(* Both invariants are inductive together: that a part sent and its rest   *)
(* are the message, that a message behind others goes to the end, and that *)
(* what leaves the head of wbuf joins the end of tcp.                      *)
(***************************************************************************)
EXTENDS ActorNet, SeqLemmas

-----------------------------------------------------------------------------
(* Bytes.                                                                  *)

\* The bytes from the first to the n-th.
Bytes(n) == [i \in 1 .. n |-> i]

\* The bytes on their way, and where they are: at the peer, in the socket, or
\* waiting.
Line(o, t, w) == (o \o t) \o FlattenSeq(w)

\* A message has the n bytes after those given.
LEMMA MessageType == ASSUME NEW n \in Nat, given \in Nat
  PROVE Message(n) \in Seq(Nat) /\ Len(Message(n)) = n
  BY DEF Message

LEMMA MessageNext == ASSUME NEW n \in Nat, given \in Nat
  PROVE Bytes(given) \o Message(n) = Bytes(given + n)
<1>1. /\ Bytes(given) \in Seq(Nat) /\ Len(Bytes(given)) = given
      /\ \A i \in 1 .. given : Bytes(given)[i] = i
  BY DEF Bytes
<1>2. /\ Message(n) \in Seq(Nat) /\ Len(Message(n)) = n
      /\ \A i \in 1 .. n : Message(n)[i] = given + i
  BY DEF Message
<1>3. /\ Bytes(given + n) \in Seq(Nat) /\ Len(Bytes(given + n)) = given + n
      /\ \A i \in 1 .. given + n : Bytes(given + n)[i] = i
  BY DEF Bytes
<1>4. PICK a \in Seq(Nat), b \in Seq(Nat), c \in Seq(Nat) :
        /\ a = Bytes(given) /\ b = Message(n) /\ c = Bytes(given + n)
  BY <1>1, <1>2, <1>3
<1>5. Len(a) = given /\ Len(b) = n /\ Len(c) = given + n
  BY <1>1, <1>2, <1>3, <1>4
<1>6. (\A i \in 1 .. given : a[i] = i) /\ (\A i \in 1 .. n : b[i] = given + i)
  BY <1>1, <1>2, <1>4
<1>7. \A i \in 1 .. given + n : c[i] = i
  BY <1>3, <1>4
<1>8. /\ Len(c) = Len(a) + Len(b)
      /\ \A i \in 1 .. Len(a) : c[i] = a[i]
      /\ \A i \in 1 .. Len(b) : c[Len(a) + i] = b[i]
  BY <1>5, <1>6, <1>7
<1> QED
  BY <1>4, <1>8, Joined

\* A message cut in two.
LEMMA Cut == ASSUME NEW s \in Seq(Nat), NEW k \in 0 .. Len(s)
  PROVE  /\ SubSeq(s, 1, k) \in Seq(Nat) /\ Len(SubSeq(s, 1, k)) = k
         /\ SubSeq(s, k + 1, Len(s)) \in Seq(Nat)
         /\ Len(SubSeq(s, k + 1, Len(s))) = Len(s) - k
         /\ SubSeq(s, 1, k) \o SubSeq(s, k + 1, Len(s)) = s
<1>1. /\ SubSeq(s, 1, k) \in Seq(Nat) /\ Len(SubSeq(s, 1, k)) = k
      /\ \A i \in 1 .. k : SubSeq(s, 1, k)[i] = s[i]
  OBVIOUS
<1>2. /\ SubSeq(s, k + 1, Len(s)) \in Seq(Nat)
      /\ Len(SubSeq(s, k + 1, Len(s))) = Len(s) - k
      /\ \A i \in 1 .. Len(s) - k : SubSeq(s, k + 1, Len(s))[i] = s[k + i]
  OBVIOUS
<1>3. SubSeq(s, 1, k) \o SubSeq(s, k + 1, Len(s)) = s
  <2>1. PICK a \in Seq(Nat), b \in Seq(Nat) :
          a = SubSeq(s, 1, k) /\ b = SubSeq(s, k + 1, Len(s))
    BY <1>1, <1>2
  <2>2. Len(a) = k /\ Len(b) = Len(s) - k
    BY <1>1, <1>2, <2>1
  <2>3. (\A i \in 1 .. k : s[i] = a[i]) /\ (\A i \in 1 .. Len(s) - k : s[k + i] = b[i])
    BY <1>1, <1>2, <2>1
  <2>4. /\ Len(s) = Len(a) + Len(b)
        /\ \A i \in 1 .. Len(a) : s[i] = a[i]
        /\ \A i \in 1 .. Len(b) : s[Len(a) + i] = b[i]
    BY <2>2, <2>3
  <2> QED
    BY <2>1, <2>4, Joined
<1> QED
  BY <1>1, <1>2, <1>3

\* What the socket takes of s, and what it leaves.
LEMMA Taken == ASSUME TypeOK, NEW s \in Seq(Nat)
  PROVE  /\ Takes(s) \in 0 .. Len(s) /\ Takes(s) <= Room
         /\ SubSeq(s, 1, Takes(s)) \in Seq(Nat) /\ Len(SubSeq(s, 1, Takes(s))) = Takes(s)
         /\ Rest(s) \in Seq(Nat)
         /\ SubSeq(s, 1, Takes(s)) \o Rest(s) = s
         /\ Takes(s) = Len(s) => SubSeq(s, 1, Takes(s)) = s
         /\ Takes(s) # Len(s) => Rest(s) # <<>>
<1>1. Room \in Nat
  BY ActorNetAssumption DEF TypeOK, Room
<1>2. Takes(s) \in 0 .. Len(s) /\ Takes(s) <= Room
  BY <1>1 DEF Takes
<1>3. PICK k \in 0 .. Len(s) : k = Takes(s)
  BY <1>2
<1>4. /\ SubSeq(s, 1, k) \in Seq(Nat) /\ Len(SubSeq(s, 1, k)) = k
      /\ SubSeq(s, k + 1, Len(s)) \in Seq(Nat)
      /\ Len(SubSeq(s, k + 1, Len(s))) = Len(s) - k
      /\ SubSeq(s, 1, k) \o SubSeq(s, k + 1, Len(s)) = s
  BY Cut
<1>5. k = Len(s) => SubSeq(s, 1, k) = s
  BY SubSeqFull
<1>6. k # Len(s) => SubSeq(s, k + 1, Len(s)) # <<>>
  <2>1. PICK r \in Seq(Nat) : r = SubSeq(s, k + 1, Len(s)) /\ Len(r) = Len(s) - k
    BY <1>4
  <2>2. k # Len(s) => Len(r) # 0
    BY <2>1
  <2> QED
    BY <2>1, <2>2
<1> QED
  BY <1>2, <1>3, <1>4, <1>5, <1>6 DEF Rest

LEMMA SysSendType == ASSUME TypeOK, NEW s \in Seq(Nat), SysSend(s)
  PROVE  /\ tcp' \in Seq(Nat) /\ Len(tcp') <= SndBuf
         /\ nospace' \in BOOLEAN /\ errno' \in {"again", "other"}
<1>1. tcp' \in Seq(Nat) /\ Len(tcp') <= SndBuf
  <2>1. CASE broken
    BY <2>1 DEF SysSend, TypeOK
  <2>2. CASE ~broken
    <3>1. PICK p \in Seq(Nat) : p = SubSeq(s, 1, Takes(s)) /\ Len(p) <= Room
      BY Taken
    <3>2. tcp' = tcp \o p /\ tcp \in Seq(Nat)
      BY <2>2, <3>1 DEF SysSend, TypeOK
    <3>3. Len(tcp') = Len(tcp) + Len(p) /\ tcp' \in Seq(Nat)
      BY <3>2
    <3> QED
      BY <3>1, <3>3, ActorNetAssumption DEF Room, TypeOK
  <2> QED
    BY <2>1, <2>2
<1>2. nospace' \in BOOLEAN /\ errno' \in {"again", "other"}
  BY DEF SysSend, ErrnoAfter, TypeOK
<1> QED
  BY <1>1, <1>2

\* What is left of a message that has to wait is not empty.
LEMMA RestType == ASSUME TypeOK, NEW s \in Seq(Nat), MustWait(s)
  PROVE ~broken /\ Rest(s) \in Seq(Nat) /\ Rest(s) # <<>>
<1>1. ~broken
  BY DEF MustWait, ErrnoAfter
<1>2. Takes(s) # Len(s)
  BY <1>1 DEF MustWait, TakesAll
<1> QED
  BY <1>1, <1>2, Taken

-----------------------------------------------------------------------------
(* The types.                                                              *)

\* wbuf holds sequences of bytes, none of them empty.
Waiting(w) == w \in Seq(Seq(Nat)) /\ \A i \in 1 .. Len(w) : w[i] # <<>>

LEMMA WaitingAppend == ASSUME NEW w, Waiting(w), NEW s \in Seq(Nat), s # <<>>
  PROVE Waiting(Append(w, s)) /\ Append(w, s) # <<>>
<1>0. PICK T : T = Seq(Nat)
  OBVIOUS
<1>1. w \in Seq(T) /\ s \in T /\ \A i \in 1 .. Len(w) : w[i] # <<>>
  BY <1>0 DEF Waiting
<1>2. /\ Append(w, s) \in Seq(T) /\ Len(Append(w, s)) = Len(w) + 1 
      /\ \A i \in 1 .. Len(w) + 1 : Append(w, s)[i] = IF i = Len(w) + 1 THEN s ELSE w[i]
  BY <1>1
<1>4. \A i \in 1 .. Len(w) + 1 : Append(w, s)[i] # <<>>
  BY <1>1, <1>2
<1>5. Append(w, s) # <<>>
  BY <1>1
<1> QED
  BY <1>0, <1>2, <1>4, <1>5 DEF Waiting

LEMMA WaitingOne == ASSUME NEW s \in Seq(Nat), s # <<>>
  PROVE Waiting(<<s>>)
<1>0. PICK T : T = Seq(Nat)
  OBVIOUS
<1>1. s \in T
  BY <1>0
<1>2. <<s>> \in Seq(T) /\ Len(<<s>>) = 1 /\ <<s>>[1] = s
  BY <1>1
<1>3. \A i \in 1 .. 1 : <<s>>[i] # <<>>
  BY <1>2
<1> QED
  BY <1>0, <1>2, <1>3 DEF Waiting

LEMMA WaitingTail == ASSUME NEW w, Waiting(w), w # <<>>
  PROVE Head(w) \in Seq(Nat) /\ Head(w) # <<>> /\ Waiting(Tail(w))
<1>0. PICK T : T = Seq(Nat)
  OBVIOUS
<1>1. w \in Seq(T) /\ \A i \in 1 .. Len(w) : w[i] # <<>>
  BY <1>0 DEF Waiting
<1>2. Head(w) = w[1] /\ 1 \in 1 .. Len(w) /\ Head(w) \in T
  BY <1>1
<1>3. /\ Tail(w) \in Seq(T) /\ Len(Tail(w)) = Len(w) - 1
      /\ \A i \in 1 .. Len(w) - 1 : Tail(w)[i] = w[i + 1]
  BY <1>1
<1>4. \A i \in 1 .. Len(w) - 1 : i + 1 \in 1 .. Len(w)
  BY <1>1
<1>5. \A i \in 1 .. Len(Tail(w)) : Tail(w)[i] # <<>>
  BY <1>1, <1>3, <1>4
<1>6. Head(w) # <<>>
  BY <1>1, <1>2
<1>7. Waiting(Tail(w))
  BY <1>0, <1>3, <1>5 DEF Waiting
<1> QED
  BY <1>0, <1>2, <1>6, <1>7 DEF Waiting

LEMMA WaitingHead == ASSUME NEW w, Waiting(w), NEW s \in Seq(Nat), s # <<>>
  PROVE Waiting(<<s>> \o w)
<1>0. PICK T : T = Seq(Nat)
  OBVIOUS
<1>1. w \in Seq(T) /\ s \in T /\ \A i \in 1 .. Len(w) : w[i] # <<>>
  BY <1>0 DEF Waiting
<1>2. <<s>> \in Seq(T) /\ Len(<<s>>) = 1 /\ <<s>>[1] = s
  BY <1>1
<1>3. PICK o \in Seq(T) : o = <<s>> /\ Len(o) = 1 /\ o[1] = s
  BY <1>2
<1>4. /\ o \o w \in Seq(T) /\ Len(o \o w) = Len(w) + 1
      /\ \A i \in 1 .. Len(w) + 1 : (o \o w)[i] = IF i <= 1 THEN o[i] ELSE w[i - 1]
  BY <1>1, <1>3
<1>5. ASSUME NEW i \in 1 .. Len(w) + 1 PROVE (o \o w)[i] # <<>>
  <2>1. CASE i = 1
    BY <1>3, <1>4, <2>1
  <2>2. CASE i # 1
    <3>1. i - 1 \in 1 .. Len(w) /\ ~(i <= 1)
      BY <1>1, <2>2
    <3> QED
      BY <1>1, <1>4, <3>1
  <2> QED
    BY <2>1, <2>2
<1>6. Waiting(o \o w)
  BY <1>0, <1>4, <1>5 DEF Waiting
<1> QED
  BY <1>3, <1>6

LEMMA TypeNext == TypeOK /\ [Next]_vars => TypeOK'
<1> SUFFICES ASSUME TypeOK, [Next]_vars PROVE TypeOK'
  OBVIOUS
<1>a. Waiting(wbuf)
  BY DEF TypeOK, Waiting
<1>b. \A n \in Sizes : /\ n \in Nat /\ n # 0 /\ given + n \in Nat
                       /\ Message(n) \in Seq(Nat) /\ Message(n) # <<>>
  <2> TAKE n \in Sizes
  <2>1. n \in Nat /\ n # 0 /\ given \in Nat
    BY ActorNetAssumption DEF TypeOK
  <2>2. Message(n) \in Seq(Nat) /\ Len(Message(n)) = n
    BY <2>1, MessageType
  <2>3. PICK m \in Seq(Nat) : m = Message(n) /\ Len(m) # 0
    BY <2>1, <2>2
  <2> QED
    BY <2>1, <2>3
<1>1. ASSUME NEW n \in Sizes, SendBehind(n) PROVE TypeOK'
  <2>1. Waiting(wbuf')
    BY <1>a, <1>b, <1>1, WaitingAppend DEF SendBehind
  <2> QED
    BY <1>b, <1>1, <2>1 DEF SendBehind, TypeOK, Waiting, peerVars, loopVars
<1>2. ASSUME NEW n \in Sizes, SendAll(n) PROVE TypeOK'
  <2>1. SysSend(Message(n)) /\ Message(n) \in Seq(Nat)
    BY <1>b, <1>2 DEF SendAll
  <2> QED
    BY <1>b, <1>2, <2>1, SysSendType DEF SendAll, TypeOK, peerVars, loopVars
<1>3. ASSUME NEW n \in Sizes, SendRest(n) PROVE TypeOK'
  <2>1. SysSend(Message(n)) /\ Message(n) \in Seq(Nat) /\ MustWait(Message(n))
    BY <1>b, <1>3 DEF SendRest
  <2>2. Waiting(wbuf')
    BY <1>3, <2>1, RestType, WaitingOne DEF SendRest
  <2>3. ready' \in BOOLEAN /\ wevn' = TRUE
    BY <1>3 DEF SendRest, TypeOK
  <2> QED
    BY <1>b, <1>3, <2>1, <2>2, <2>3, SysSendType DEF SendRest, TypeOK, Waiting, peerVars, loopVars
<1>4. ASSUME NEW n \in Sizes, SendLost(n) PROVE TypeOK'
  <2>1. SysSend(Message(n)) /\ Message(n) \in Seq(Nat)
    BY <1>b, <1>4 DEF SendLost
  <2> QED
    BY <1>b, <1>4, <2>1, SysSendType DEF SendLost, TypeOK, peerVars, loopVars
<1>5. CASE EpollWait
  BY <1>5 DEF EpollWait, TypeOK, sendVars, peerVars
<1>6. CASE EvnSend \/ EvnRecv \/ EvnStale
  BY <1>6 DEF EvnSend, EvnRecv, EvnStale, TypeOK, sendVars, peerVars
<1>7. CASE Recv
  <2>1. rcv' \in Nat
    BY <1>7 DEF Recv, TypeOK
  <2> QED
    BY <1>7, <2>1 DEF Recv, TypeOK, sendVars
<1>8. CASE CallbackReturns \/ RecvAgain \/ RecvLost \/ WriteDone
  BY <1>8 DEF CallbackReturns, RecvAgain, RecvLost, WriteDone, TypeOK, sendVars, peerVars
<1>9. CASE WriteAll
  <2>1. Head(wbuf) \in Seq(Nat) /\ Waiting(wbuf') /\ SysSend(Head(wbuf))
    BY <1>a, <1>9, WaitingTail DEF WriteAll
  <2> QED
    BY <1>9, <2>1, SysSendType DEF WriteAll, TypeOK, Waiting, peerVars, loopVars
<1>10. CASE WritePart
  <2>1. Head(wbuf) \in Seq(Nat) /\ Waiting(Tail(wbuf)) /\ SysSend(Head(wbuf)) /\ MustWait(Head(wbuf))
    BY <1>a, <1>10, WaitingTail DEF WritePart
  <2>2. Waiting(wbuf')
    BY <1>10, <2>1, RestType, WaitingHead DEF WritePart
  <2> QED
    BY <1>10, <2>1, <2>2, SysSendType DEF WritePart, TypeOK, Waiting, peerVars
<1>11. CASE WriteLost
  <2>1. Head(wbuf) \in Seq(Nat) /\ SysSend(Head(wbuf))
    BY <1>a, <1>11, WaitingTail DEF WriteLost
  <2> QED
    BY <1>11, <2>1, SysSendType DEF WriteLost, TypeOK, peerVars
<1>12. CASE PeerSend
  <2>1. rcv' \in Nat /\ arrived' \in Nat
    BY <1>12 DEF PeerSend, TypeOK
  <2> QED
    BY <1>12, <2>1 DEF PeerSend, TypeOK, sendVars, loopVars
<1>13. CASE Elsewhere \/ PeerReset
  BY <1>13 DEF Elsewhere, PeerReset, TypeOK, sendVars, peerVars, loopVars
<1>14. CASE Drain
  <2>1. tcp' \in Seq(Nat) /\ Len(tcp') <= SndBuf /\ out' \in Seq(Nat)
    <3>1. tcp \in Seq(Nat) /\ tcp # <<>> /\ Len(tcp) <= SndBuf /\ out \in Seq(Nat) /\ SndBuf \in Nat
      BY <1>14, ActorNetAssumption DEF Drain, TypeOK
    <3>2. Head(tcp) \in Nat /\ Tail(tcp) \in Seq(Nat) /\ Len(Tail(tcp)) = Len(tcp) - 1
      BY <3>1
    <3> QED
      BY <1>14, <3>1, <3>2 DEF Drain
  <2> QED
    BY <1>14, <2>1 DEF Drain, TypeOK, loopVars
<1>15. CASE UNCHANGED vars
  BY <1>15 DEF vars, sendVars, peerVars, loopVars, TypeOK
<1> QED
  BY <1>1, <1>2, <1>3, <1>4, <1>5, <1>6, <1>7, <1>8,
     <1>9, <1>10, <1>11, <1>12, <1>13, <1>14, <1>15
  DEF Next, Worker, Send

\* The types, that writability is registered while something waits, and that
\* nothing empty waits (ActorNet::sendBuf, ActorNet::evnWrite).
THEOREM TypeCorrect == Safety => []TypeOK
<1>1. ASSUME Init PROVE TypeOK
  <2>1. <<>> \in Seq(Nat) /\ <<>> \in Seq(Seq(Nat)) /\ Len(<<>>) = 0 /\ SndBuf \in Nat
    BY ActorNetAssumption
  <2>2. /\ wbuf \in Seq(Seq(Nat)) /\ tcp \in Seq(Nat) /\ out \in Seq(Nat) /\ Len(tcp) <= SndBuf
        /\ wbuf # <<>> => wevn
        /\ \A i \in 1 .. Len(wbuf) : wbuf[i] # <<>>
    BY <1>1, <2>1 DEF Init
  <2> QED
    BY <1>1, <2>2 DEF Init, TypeOK
<1> QED
  BY <1>1, TypeNext, PTL DEF Safety

-----------------------------------------------------------------------------
(* The order of the bytes.                                                 *)

\* What is sent joins the socket's buffer.
LEMMA Joins == ASSUME TypeOK, NEW s \in Seq(Nat), SysSend(s), ~broken
  PROVE \E p, r \in Seq(Nat) : /\ tcp' = tcp \o p /\ p \o r = s /\ r = Rest(s)
                               /\ TakesAll(s) => p = s
<1>1. PICK p, r \in Seq(Nat) : p = SubSeq(s, 1, Takes(s)) /\ r = Rest(s) /\ p \o r = s
  BY Taken
<1>2. tcp' = tcp \o p
  BY <1>1 DEF SysSend
<1>3. TakesAll(s) => p = s
  BY <1>1, Taken DEF TakesAll
<1> QED
  BY <1>1, <1>2, <1>3

\* Of what waits and the message m behind it, p goes to the socket.
LEMMA GoesOver ==
  ASSUME NEW o \in Seq(Nat), NEW t \in Seq(Nat), NEW f \in Seq(Nat), NEW m \in Seq(Nat),
         NEW p \in Seq(Nat), NEW r \in Seq(Nat), Cat(p, r) = Cat(f, m)
  PROVE Cat(Cat(o, Cat(t, p)), r) = Cat(Cat(Cat(o, t), f), m)
<1>1. Closed(Seq(Nat))
  BY SeqClosed
<1> QED
  BY <1>1, AdvanceT

\* Of what waits, p goes to the socket.
LEMMA Goes ==
  ASSUME NEW o \in Seq(Nat), NEW t \in Seq(Nat), NEW p \in Seq(Nat), NEW r \in Seq(Nat)
  PROVE Cat(Cat(o, Cat(t, p)), r) = Cat(Cat(o, t), Cat(p, r))
<1>1. Closed(Seq(Nat))
  BY SeqClosed
<1> QED
  BY <1>1, FourT

\* The rest r of a message, in front of the others.
LEMMA InFront ==
  ASSUME NEW r \in Seq(Nat), NEW w \in Seq(Seq(Nat))
  PROVE FlattenSeq(<<r>> \o w) = r \o FlattenSeq(w)
<1>1. PICK T : T = Seq(Nat)
  OBVIOUS
<1>2. r \in T /\ w \in Seq(T)
  BY <1>1
<1>3. PICK v : v = <<r>> \o w
  OBVIOUS
<1>4. v \in Seq(T) /\ v # <<>> /\ Head(v) = r /\ Tail(v) = w
  BY <1>2, <1>3
<1>5. FlattenSeq(v) = Head(v) \o FlattenSeq(Tail(v))
  BY <1>1, <1>4, FlattenHead
<1> QED
  BY <1>3, <1>4, <1>5

LEMMA OrderIs == InOrder <=> (est => Line(out, tcp, wbuf) = Bytes(given))
  BY DEF InOrder, Line, Bytes

LEMMA OrderNext == TypeOK /\ InOrder /\ [Next]_vars => InOrder'
<1> SUFFICES ASSUME TypeOK, InOrder, [Next]_vars, est' PROVE Line(out', tcp', wbuf') = Bytes(given')
  BY DEF InOrder, Line, Bytes
<1>a. est
  BY DEF Next, Worker, Send, SendBehind, SendAll, SendRest, SendLost, EpollWait, EvnSend, EvnRecv,
         EvnStale, Recv, CallbackReturns, RecvAgain, RecvLost, WriteAll, WritePart, WriteLost,
         WriteDone, Elsewhere, Drain, PeerSend, PeerReset, vars
<1>b. Line(out, tcp, wbuf) = Bytes(given)
  BY <1>a, OrderIs
<1>c. PICK f \in Seq(Nat) : f = FlattenSeq(wbuf)
  BY FlattenType DEF TypeOK
<1>d. ((out \o tcp) \o f) = Bytes(given) /\ out \in Seq(Nat) /\ tcp \in Seq(Nat)
  BY <1>b, <1>c DEF Line, TypeOK
<1>e. wbuf \in Seq(Seq(Nat)) /\ given \in Nat
  BY DEF TypeOK
<1>1. ASSUME NEW n \in Sizes, SendBehind(n) \/ SendAll(n) \/ SendRest(n)
      PROVE Line(out', tcp', wbuf') = Bytes(given')
  <2>1. PICK m \in Seq(Nat) : m = Message(n) /\ Bytes(given) \o m = Bytes(given')
    <3>1. n \in Nat /\ given' = given + n
      BY <1>1, ActorNetAssumption DEF SendBehind, SendAll, SendRest
    <3> QED
      BY <1>e, <3>1, MessageType, MessageNext
  <2>2. out' = out
    BY <1>1 DEF SendBehind, SendAll, SendRest, peerVars
  <2>3. \E p, r \in Seq(Nat) : tcp' = tcp \o p /\ FlattenSeq(wbuf') = r /\ p \o r = f \o m
    <3>1. CASE SendBehind(n)
      <4>0. f \o m \in Seq(Nat)
        OBVIOUS
      <4>1. FlattenSeq(wbuf') = f \o m
        <5>1. FlattenSeq(Append(wbuf, m)) = FlattenSeq(wbuf) \o m
          BY <1>e, FlattenAppend
        <5>2. wbuf' = Append(wbuf, m)
          BY <2>1, <3>1 DEF SendBehind
        <5> QED
          BY <1>c, <5>1, <5>2
      <4>2. tcp' = tcp \o <<>> /\ <<>> \o (f \o m) = f \o m /\ <<>> \in Seq(Nat)
        BY <1>d, <3>1, <4>0, ConcatEmptySeq DEF SendBehind
      <4> QED
        BY <4>0, <4>1, <4>2
    <3>2. CASE SendAll(n)
      <4>1. tcp' = tcp \o m
        <5>1. SysSend(m) /\ ~broken /\ TakesAll(m)
          BY <2>1, <3>2 DEF SendAll, TakesAll
        <5> QED
          BY <5>1, Joins
      <4>2. wbuf' = <<>> /\ wbuf = <<>>
        BY <3>2 DEF SendAll
      <4>3. FlattenSeq(wbuf') = <<>> /\ f = <<>> /\ m \o <<>> = m /\ <<>> \o m = m /\ <<>> \in Seq(Nat)
        BY <1>c, <4>2, FlattenEmpty, ConcatEmptySeq
      <4> QED
        BY <4>1, <4>3
    <3>3. CASE SendRest(n)
      <4>1. SysSend(m) /\ ~broken
        BY <2>1, <3>3, RestType DEF SendRest
      <4>2. PICK p, r \in Seq(Nat) : tcp' = tcp \o p /\ p \o r = m /\ r = Rest(m)
        BY <4>1, Joins
      <4>3. wbuf' = <<r>> /\ wbuf = <<>>
        BY <2>1, <3>3, <4>2 DEF SendRest
      <4>4. FlattenSeq(wbuf') = r /\ f = <<>> /\ <<>> \o m = m
        BY <1>c, <4>3, FlattenEmpty, FlattenOne, ConcatEmptySeq
      <4> QED
        BY <4>2, <4>4
    <3> QED
      BY <1>1, <3>1, <3>2, <3>3
  <2>4. PICK p, r \in Seq(Nat) : tcp' = tcp \o p /\ FlattenSeq(wbuf') = r /\ p \o r = f \o m
    BY <2>3
  <2>5. (out \o (tcp \o p)) \o r = ((out \o tcp) \o f) \o m
    <3>1. PICK o, t \in Seq(Nat) : o = out /\ t = tcp
      BY <1>d
    <3>2. Cat(p, r) = Cat(f, m)
      BY <2>4 DEF Cat
    <3>3. Cat(Cat(o, Cat(t, p)), r) = Cat(Cat(Cat(o, t), f), m)
      BY <3>2, GoesOver
    <3> QED
      BY <3>1, <3>3 DEF Cat
  <2> QED
    BY <1>d, <2>1, <2>2, <2>4, <2>5 DEF Line
<1>2. CASE WriteAll \/ WritePart
  <2>1. PICK s, g \in Seq(Nat) : s = Head(wbuf) /\ g = FlattenSeq(Tail(wbuf)) /\ f = s \o g
    <3>1. wbuf # <<>>
      BY <1>2 DEF WriteAll, WritePart
    <3>2. Head(wbuf) \in Seq(Nat) /\ Tail(wbuf) \in Seq(Seq(Nat))
      BY <1>e, <3>1
    <3>3. FlattenSeq(Tail(wbuf)) \in Seq(Nat)
      BY <3>2, FlattenType
    <3>4. FlattenSeq(wbuf) = Head(wbuf) \o FlattenSeq(Tail(wbuf))
      BY <1>e, <3>1, FlattenHead
    <3> QED
      BY <1>c, <3>2, <3>3, <3>4
  <2>2. out' = out /\ given' = given
    BY <1>2 DEF WriteAll, WritePart, peerVars
  <2>3. \E p, r \in Seq(Nat) : tcp' = tcp \o p /\ FlattenSeq(wbuf') = r /\ p \o r = f
    <3>1. CASE WriteAll
      <4>1. SysSend(s) /\ ~broken /\ TakesAll(s) /\ wbuf' = Tail(wbuf)
        BY <2>1, <3>1 DEF WriteAll, TakesAll
      <4>2. tcp' = tcp \o s
        BY <4>1, Joins
      <4> QED
        BY <2>1, <4>1, <4>2
    <3>2. CASE WritePart
      <4>1. SysSend(s) /\ ~broken /\ wbuf' = <<Rest(s)>> \o Tail(wbuf) /\ wbuf # <<>>
        BY <2>1, <3>2, RestType DEF WritePart
      <4>2. PICK p, r \in Seq(Nat) : tcp' = tcp \o p /\ p \o r = s /\ r = Rest(s)
        BY <4>1, Joins
      <4>3. FlattenSeq(wbuf') = r \o g
        <5>1. Tail(wbuf) \in Seq(Seq(Nat))
          <6>1. wbuf # <<>>
            BY <4>1
          <6> QED
            BY <1>e, <6>1
        <5>2. FlattenSeq(<<r>> \o Tail(wbuf)) = r \o FlattenSeq(Tail(wbuf))
          BY <5>1, InFront
        <5> QED
          BY <2>1, <4>1, <4>2, <5>2
      <4>4. p \o (r \o g) = (p \o r) \o g
        <5>1. Closed(Seq(Nat))
          BY SeqClosed
        <5>2. Cat(p, Cat(r, g)) = Cat(Cat(p, r), g)
          BY <5>1 DEF Closed
        <5> QED
          BY <5>2 DEF Cat
      <4>5. r \o g \in Seq(Nat)
        OBVIOUS
      <4> QED
        BY <2>1, <4>2, <4>3, <4>4, <4>5
    <3> QED
      BY <1>2, <3>1, <3>2
  <2>4. PICK p, r \in Seq(Nat) : tcp' = tcp \o p /\ FlattenSeq(wbuf') = r /\ p \o r = f
    BY <2>3
  <2>5. (out \o (tcp \o p)) \o r = (out \o tcp) \o (p \o r)
    <3>1. PICK o, t \in Seq(Nat) : o = out /\ t = tcp
      BY <1>d
    <3>2. Cat(Cat(o, Cat(t, p)), r) = Cat(Cat(o, t), Cat(p, r))
      BY Goes
    <3> QED
      BY <3>1, <3>2 DEF Cat
  <2> QED
    BY <1>d, <2>2, <2>4, <2>5 DEF Line
<1>3. CASE Drain
  <2>1. tcp # <<>> /\ out' = Append(out, Head(tcp)) /\ tcp' = Tail(tcp) /\ UNCHANGED <<wbuf, given>>
    BY <1>3 DEF Drain
  <2>2. out' \o tcp' = out \o tcp
    BY <1>d, <2>1, Leaves
  <2> QED
    BY <1>b, <2>1, <2>2 DEF Line
<1>4. CASE \E n \in Sizes : SendLost(n)
  BY <1>4 DEF SendLost
<1>5. CASE \/ EpollWait \/ EvnSend \/ EvnRecv \/ EvnStale
           \/ Recv \/ CallbackReturns \/ RecvAgain \/ RecvLost \/ WriteLost \/ WriteDone
           \/ Elsewhere \/ PeerSend \/ PeerReset \/ UNCHANGED vars
  <2>1. UNCHANGED <<out, tcp, wbuf, given>>
    BY <1>5 DEF EpollWait, EvnSend, EvnRecv, EvnStale, Recv, CallbackReturns, RecvAgain, RecvLost,
                WriteLost, WriteDone, Elsewhere, PeerSend, PeerReset, vars, sendVars, peerVars
  <2> QED
    BY <1>b, <2>1
<1> QED
  BY <1>1, <1>2, <1>3, <1>4, <1>5 DEF Next, Worker, Send

\* What the peer has, what the socket has and what waits are what was given, in
\* order, after any number of partial writes (ActorNet::sendBuf, ActorNet::evnWrite).
THEOREM BytesInOrder == Safety => []InOrder
<1>1. ASSUME Init PROVE InOrder
  <2>1. Line(<<>>, <<>>, <<>>) = <<>> /\ Bytes(0) = <<>>
    BY FlattenEmpty, ConcatEmptySeq DEF Line, Bytes
  <2> QED
    BY <1>1, <2>1, OrderIs DEF Init
<1> QED
  BY <1>1, OrderNext, TypeCorrect, PTL DEF Safety

-----------------------------------------------------------------------------
(* ActorNet implements Stream.                                             *)

\* The next byte for the peer is the one that it lacks first.
LEMMA NextByte == ASSUME TypeOK, InOrder, est, tcp # <<>>
  PROVE Head(tcp) = Len(out) + 1 /\ Len(out) < given
<1>1. PICK f \in Seq(Nat) : f = FlattenSeq(wbuf)
  BY FlattenType DEF TypeOK
<1>2. PICK o \in Seq(Nat), t \in Seq(Nat) : o = out /\ t = tcp
  BY DEF TypeOK
<1>3. PICK l : l = o \o t /\ l \in Seq(Nat)
  <2>1. o \o t \in Seq(Nat)
    OBVIOUS
  <2> QED
    BY <2>1
<1>4. Len(l) = Len(o) + Len(t) /\ Len(t) > 0
  BY <1>2, <1>3
<1>5. l[Len(o) + 1] = t[1] /\ Len(o) + 1 \in 1 .. Len(l)
  BY <1>2, <1>3, <1>4
<1>6. PICK b : b = l \o f
  OBVIOUS
<1>7. Len(b) = Len(l) + Len(f) /\ b[Len(o) + 1] = l[Len(o) + 1]
  BY <1>5, <1>6
<1>8. b = Bytes(given) /\ given \in Nat
  BY <1>1, <1>2, <1>3, <1>6 DEF InOrder, Bytes, TypeOK
<1>9. Len(b) = given /\ \A i \in 1 .. given : b[i] = i
  BY <1>8 DEF Bytes
<1>10. Len(o) + 1 \in 1 .. given
  BY <1>4, <1>7, <1>9
<1>11. t[1] = Len(o) + 1
  BY <1>5, <1>7, <1>9, <1>10
<1>12. Head(t) = t[1]
  BY <1>4
<1>13. Len(o) < given
  BY <1>8, <1>10
<1> QED
  BY <1>2, <1>11, <1>12, <1>13

LEMMA NextRefines == TypeOK /\ InOrder /\ [Next]_vars => [S!Next]_S!svars
<1> SUFFICES ASSUME TypeOK, InOrder, [Next]_vars PROVE [S!Next]_S!svars
  OBVIOUS
<1>1. ASSUME NEW n \in Sizes, SendBehind(n) \/ SendAll(n) \/ SendRest(n) PROVE S!Give
  <2>1. given' = given + n /\ UNCHANGED <<out, est, broken>>
    BY <1>1 DEF SendBehind, SendAll, SendRest, peerVars
  <2> QED
    BY <2>1 DEF S!Give
<1>2. ASSUME NEW n \in Sizes, SendLost(n) PROVE S!GiveUp
  <2>1. given' = given + n /\ out' = out /\ est' = FALSE
    BY <1>2 DEF SendLost, peerVars
  <2> QED
    BY <2>1 DEF S!GiveUp
<1>3. CASE Drain
  <2>1. est /\ ~broken /\ tcp # <<>> /\ out' = Append(out, Head(tcp)) /\ UNCHANGED <<given, est, broken>>
    BY <1>3 DEF Drain
  <2>2. Head(tcp) = Len(out) + 1 /\ Len(out) < given
    BY <2>1, NextByte
  <2>3. S!Deliver
    BY <2>1, <2>2 DEF S!Deliver
  <2> QED
    BY <2>3 DEF S!Next
<1>4. CASE RecvLost \/ WriteLost \/ PeerReset
  <2>1. (est /\ ~broken)' = FALSE /\ UNCHANGED <<given, out>>
    BY <1>4 DEF RecvLost, WriteLost, PeerReset, sendVars, peerVars
  <2> QED
    BY <2>1 DEF S!Next, S!Lose
<1>5. CASE \/ EpollWait \/ EvnSend \/ EvnRecv \/ EvnStale \/ Recv \/ CallbackReturns \/ RecvAgain
           \/ WriteAll \/ WritePart \/ WriteDone \/ Elsewhere \/ PeerSend \/ UNCHANGED vars
  <2>1. UNCHANGED <<given, out, est, broken>>
    BY <1>5 DEF EpollWait, EvnSend, EvnRecv, EvnStale, Recv, CallbackReturns, RecvAgain, WriteAll,
                WritePart, WriteDone, Elsewhere, PeerSend, vars, sendVars, peerVars
  <2> QED
    BY <2>1 DEF S!svars
<1> QED
  BY <1>1, <1>2, <1>3, <1>4, <1>5 DEF Next, Worker, Send, S!Next

\* The safety half of the promise of ActorNet::send, for messages of any length
\* and any room in the socket: each step gives a message, hands the peer its next
\* byte, loses the connection, or changes nothing the two ends could tell.
THEOREM ImplementsStream == Safety => StreamSafety
<1>1. Init => S!Init
  BY DEF Init, S!Init
<1> QED
  BY <1>1, NextRefines, TypeCorrect, BytesInOrder, PTL DEF Safety, StreamSafety, S!Safety
=============================================================================
