--------------------------- MODULE FramingProofs ---------------------------
(***************************************************************************)
(* For any format of the kind (Base), any limit from 4 on, any frames and  *)
(* any way to cut the stream: the frames found are the frames sent, there  *)
(* is room whenever recv is called, and no connection is given up without  *)
(* cause.                                                                  *)
(***************************************************************************)
EXTENDS Framing, Integers, TLAPS

\* The stream is the frames, one after the other.
StreamOK ==
  /\ \A i \in 1 .. Len(sent) : /\ sent[i].at + Len(sent[i].dat) <= Len(stream)
                               /\ sent[i].at + Len(sent[i].dat) = Begin(i)
  /\ \A i \in 1 .. Len(sent) : \A j \in 1 .. Len(sent[i].dat) :
       stream[sent[i].at + j] = sent[i].dat[j]
  /\ Begin(0) = 0

Inv == /\ TypeOK /\ StreamOK /\ InSync /\ FramesInOrder
       /\ RoomLeft /\ NothingWholeWaits /\ ClosedForCause

-----------------------------------------------------------------------------
(* Pieces of sequences.                                                    *)

LEMMA Element == ASSUME NEW S, NEW s \in Seq(S), NEW i \in 1 .. Len(s) PROVE s[i] \in S
OBVIOUS

LEMMA Piece ==
  ASSUME NEW S, NEW s \in Seq(S), NEW a \in Nat, NEW b \in Nat, a <= b, b <= Len(s)
  PROVE  /\ SubSeq(s, a + 1, b) \in Seq(S)
         /\ Len(SubSeq(s, a + 1, b)) = b - a
         /\ \A i \in 1 .. b - a : SubSeq(s, a + 1, b)[i] = s[a + i]
OBVIOUS

LEMMA Joined ==
  ASSUME NEW S, NEW s \in Seq(S), NEW t \in Seq(S)
  PROVE  /\ s \o t \in Seq(S)
         /\ Len(s \o t) = Len(s) + Len(t)
         /\ \A i \in 1 .. Len(s) : (s \o t)[i] = s[i]
         /\ \A i \in 1 .. Len(t) : (s \o t)[Len(s) + i] = t[i]
OBVIOUS

LEMMA SameSeq ==
  ASSUME NEW S, NEW s \in Seq(S), NEW T, NEW t \in Seq(T), Len(s) = Len(t),
         \A i \in 1 .. Len(s) : s[i] = t[i]
  PROVE  s = t
OBVIOUS

LEMMA Frame == ASSUME NEW f \in Frames PROVE f \in Seq(Byte) /\ Len(f) > 0 /\ Len(f) \in Nat
BY FramingAssumption

LEMMA SentFrame ==
  ASSUME TypeOK, NEW i \in 1 .. Len(sent)
  PROVE  /\ sent[i].at \in Nat /\ sent[i].dat \in Frames
         /\ sent[i].dat \in Seq(Byte) /\ Len(sent[i].dat) \in Nat /\ Len(sent[i].dat) > 0
<1>1. sent \in Seq([at : Nat, dat : Frames])
  BY DEF TypeOK
<1>2. sent[i] \in [at : Nat, dat : Frames]
  BY <1>1, Element
<1> QED
  BY <1>2, Frame

-----------------------------------------------------------------------------
(* What evnRead finds at the front of the buffer is the next frame.        *)

\* The frame after those dispatched.
Cur == sent[Len(got) + 1].dat

LEMMA FrameHere ==
  ASSUME TypeOK, StreamOK, InSync, FramesInOrder, pc = "parse", Left > 0
  PROVE  /\ Len(got) < Len(sent)
         /\ Cur \in Frames
         /\ \A i \in 0 .. Left - 1 : i < Len(Cur) => Dat(i) = Cur[i + 1]
<1> DEFINE k == Len(got)
           base == read - Len(rbuf)
<1>1. /\ k \in Nat /\ Len(sent) \in Nat /\ Len(stream) \in Nat /\ Len(rbuf) \in Nat
      /\ read \in Nat /\ at \in Nat /\ at <= Len(rbuf) /\ Len(rbuf) <= read /\ read <= Len(stream)
  BY DEF TypeOK
<1>2. base + at = Begin(k)
  BY DEF InSync
<1>3. at < Len(rbuf)
  BY <1>1 DEF Left
<1>4. k < Len(sent)
  <2>1. SUFFICES ASSUME ~(k < Len(sent)) PROVE FALSE
    OBVIOUS
  <2>2. base + at = Len(stream)
    BY <1>2, <2>1 DEF Begin
  <2> QED
    BY <1>1, <1>3, <2>2
<1>5. sent[k + 1].dat \in Frames /\ base + at = sent[k + 1].at /\ sent[k + 1].at \in Nat
  <2>1. k + 1 \in 1 .. Len(sent)
    BY <1>1, <1>4
  <2>2. sent[k + 1] \in [at : Nat, dat : Frames]
    <3>1. sent \in Seq([at : Nat, dat : Frames])
      BY DEF TypeOK
    <3> HIDE DEF k
    <3> QED
      BY <2>1, <3>1, Element
  <2>3. sent[k + 1].at \in Nat /\ sent[k + 1].dat \in Frames
    BY <2>2
  <2> QED
    BY <1>2, <1>4, <2>3 DEF Begin
<1>6. \A i \in 0 .. Left - 1 : i < Len(Cur) => Dat(i) = Cur[i + 1]
  <2> SUFFICES ASSUME NEW i \in 0 .. Left - 1, i < Len(Cur) PROVE Dat(i) = Cur[i + 1]
    OBVIOUS
  <2>1. i \in Nat /\ at + i + 1 \in 1 .. Len(rbuf)
    BY <1>1 DEF Left
  <2>2. rbuf[at + i + 1] = stream[base + (at + i + 1)]
    BY <2>1 DEF InSync
  <2>3. k + 1 \in 1 .. Len(sent) /\ i + 1 \in 1 .. Len(Cur)
    BY <1>1, <1>4, <1>5, <2>1, Frame DEF Cur
  <2>4. stream[sent[k + 1].at + (i + 1)] = Cur[i + 1]
    BY <2>3 DEF StreamOK, Cur
  <2>5. base + (at + i + 1) = sent[k + 1].at + (i + 1)
    BY <1>1, <1>5, <2>1
  <2> QED
    BY <2>2, <2>4, <2>5 DEF Dat
<1> QED
  BY <1>4, <1>5, <1>6 DEF Cur

\* PING and PONG are recognised, and the length field says where the frame ends.
LEMMA SizeOf ==
  ASSUME TypeOK, StreamOK, InSync, FramesInOrder, pc = "parse", Left > 0
  PROVE  /\ PingPong <=> Cur[1] \in Pings
         /\ PingPong => Len(Cur) = 1
         /\ ~PingPong => Len(Cur) > 1
         /\ ~PingPong /\ Left >= 2 => (Dat(1) = More <=> Huge(Cur))
         /\ ~PingPong /\ Header /\ Dat(1) # More => Size = Len(Cur)
<1>1. /\ Cur \in Frames
      /\ \A i \in 0 .. Left - 1 : i < Len(Cur) => Dat(i) = Cur[i + 1]
  BY FrameHere
<1>2. Cur \in Seq(Byte) /\ Len(Cur) \in Nat /\ Len(Cur) > 0 /\ Encoded(Cur)
  BY <1>1, FramingAssumption
<1>3. Left \in Nat /\ Base \in Nat /\ Base > 2
  BY FramingAssumption DEF TypeOK, Left
<1>4. Dat(0) = Cur[1]
  BY <1>1, <1>2, <1>3
<1>5. PingPong <=> Cur[1] \in Pings
  BY <1>4 DEF PingPong
<1>6. ASSUME ~PingPong
      PROVE  Len(Cur) > 1 /\ (Short(Cur) \/ Long(Cur) \/ Huge(Cur))
  BY <1>2, <1>5, <1>6 DEF Encoded, Short, Long, Huge
<1>7. ASSUME ~PingPong, Left >= 2
      PROVE  Dat(1) = Cur[2] /\ (Dat(1) = More <=> Huge(Cur))
  <2>1. Len(Cur) > 1
    BY <1>6, <1>7
  <2>2. 1 \in 0 .. Left - 1 /\ 1 < Len(Cur)
    BY <1>2, <1>3, <1>7, <2>1
  <2>3. Dat(1) = Cur[1 + 1]
    BY <1>1, <2>2
  <2> QED
    BY <1>2, <1>3, <1>6, <1>7, <2>1, <2>3 DEF Short, Long, Huge, Two, More
<1>8. ASSUME ~PingPong, Header, Dat(1) # More PROVE Size = Len(Cur)
  <2>1. Left >= 3 /\ Left >= 1 + LenSize
    BY <1>8 DEF Header
  <2>2. Dat(1) = Cur[2] /\ ~Huge(Cur)
    BY <1>3, <1>7, <1>8, <2>1
  <2>3. CASE Short(Cur)
    BY <1>2, <1>3, <2>2, <2>3 DEF Short, Size, Two
  <2>4. CASE Long(Cur)
    <3>1. Dat(1) = Two /\ LenSize = 3 /\ Len(Cur) > 3
      BY <2>2, <2>4 DEF Long, LenSize
    <3>2. 2 \in 0 .. Left - 1 /\ 3 \in 0 .. Left - 1 /\ 2 < Len(Cur) /\ 3 < Len(Cur)
      BY <1>2, <1>3, <2>1, <3>1
    <3>3. Dat(2) = Cur[2 + 1] /\ Dat(3) = Cur[3 + 1]
      BY <1>1, <3>2
    <3>4. Cur[3] \in Nat /\ Cur[4] \in Nat /\ Cur[3] * Base \in Nat
      BY SMTT(20), <1>2, <1>3, <3>1 DEF Byte
    <3>5. Size = 1 + 3 + (Cur[3] * Base + Cur[4])
      BY <3>1, <3>3, <1>3 DEF Size, Two
    <3>6. Len(Cur) = 4 + Cur[3] * Base + Cur[4]
      BY <2>4 DEF Long
    <3> QED
      BY SMTT(20), <3>4, <3>5, <3>6
  <2> QED
    BY <1>6, <1>8, <2>2, <2>3, <2>4
<1> QED
  <2>1. PingPong => Len(Cur) = 1
    BY <1>2, <1>5 DEF Encoded
  <2> QED
    BY <1>5, <1>6, <1>7, <1>8, <2>1

\* Once it has come, the bytes taken are the frame.
LEMMA Taken ==
  ASSUME TypeOK, StreamOK, InSync, FramesInOrder, pc = "parse", Left > 0, Left >= Len(Cur)
  PROVE  /\ SubSeq(rbuf, at + 1, at + Len(Cur)) = Cur
         /\ at + Len(Cur) \in 0 .. Len(rbuf)
<1>1. /\ Cur \in Frames
      /\ \A i \in 0 .. Left - 1 : i < Len(Cur) => Dat(i) = Cur[i + 1]
  BY FrameHere
<1>2. Cur \in Seq(Byte) /\ Len(Cur) \in Nat
  BY <1>1, Frame
<1>3. rbuf \in Seq(Byte) /\ at \in Nat /\ at + Len(Cur) \in Nat /\ at + Len(Cur) <= Len(rbuf)
      /\ Len(rbuf) \in Nat
  BY <1>2 DEF TypeOK, Left
<1> DEFINE p == SubSeq(rbuf, at + 1, at + Len(Cur))
<1>4. /\ p \in Seq(Byte) /\ Len(p) = Len(Cur)
      /\ \A i \in 1 .. Len(Cur) : p[i] = rbuf[at + i]
  <2>1. at <= at + Len(Cur)
    BY <1>2, <1>3
  <2>2. (at + Len(Cur)) - at = Len(Cur)
    BY <1>2, <1>3
  <2> QED
    BY <1>3, <2>1, <2>2, Piece
<1> HIDE DEF p
<1>5. ASSUME NEW i \in 1 .. Len(p) PROVE p[i] = Cur[i]
  <2>1. i - 1 \in 0 .. Left - 1 /\ i - 1 < Len(Cur) /\ (i - 1) + 1 = i
    BY <1>2, <1>3, <1>4 DEF Left
  <2>2. Dat(i - 1) = Cur[(i - 1) + 1]
    BY <1>1, <2>1
  <2>3. at + (i - 1) + 1 = at + i
    BY <1>2, <1>3, <1>4
  <2> QED
    BY <1>4, <2>1, <2>2, <2>3 DEF Dat
<1>6. p = Cur
  BY <1>2, <1>4, <1>5, SameSeq
<1> QED
  BY <1>3, <1>6 DEF p

-----------------------------------------------------------------------------
(* The invariant.                                                          *)

LEMMA InitInv == Init => Inv
<1> SUFFICES ASSUME Init PROVE Inv
  OBVIOUS
<1>1. /\ sent \in Seq([at : Nat, dat : Frames]) /\ stream \in Seq(Byte)
      /\ rbuf \in Seq(Byte) /\ got \in Seq(Seq(Byte))
  BY DEF Init
<1>2. /\ Len(sent) = 0 /\ Len(stream) = 0 /\ Len(rbuf) = 0 /\ Len(got) = 0
      /\ read = 0 /\ at = 0 /\ pc = "recv"
  BY DEF Init
<1>3. Mtu \in Nat /\ Mtu > 3
  BY FramingAssumption
<1>4. TypeOK
  <2>1. {shut, wevn} \subseteq BOOLEAN
    BY DEF Init
  <2>2. read \in 0 .. Len(stream) /\ Len(rbuf) <= Mtu /\ Len(rbuf) <= read /\ at \in 0 .. Len(rbuf)
    BY <1>2, <1>3
  <2> QED
    BY <1>1, <1>2, <2>1, <2>2 DEF TypeOK
<1>5. StreamOK
  BY <1>2 DEF StreamOK, Begin
<1>6. Begin(Len(got)) = 0
  BY <1>2 DEF Begin
<1>7. InSync
  BY <1>2, <1>6 DEF InSync
<1>8. FramesInOrder /\ RoomLeft /\ NothingWholeWaits /\ ClosedForCause
  BY <1>2, <1>3 DEF FramesInOrder, RoomLeft, Room, NothingWholeWaits, ClosedForCause
<1> QED
  BY <1>4, <1>5, <1>7, <1>8 DEF Inv

\* A further frame changes nothing about the bytes and frames before it.
LEMMA PeerSendInv == ASSUME Inv, NEW f \in Frames, PeerSend(f) PROVE Inv'
<1> DEFINE new == [at |-> Len(stream), dat |-> f]
<1>1. /\ sent' = Append(sent, new) /\ stream' = stream \o f
      /\ shut' = shut /\ wevn' = wevn /\ read' = read /\ rbuf' = rbuf /\ at' = at /\ pc' = pc /\ got' = got
      /\ ~shut
  BY DEF PeerSend
<1>2. TypeOK /\ StreamOK /\ InSync /\ FramesInOrder /\ RoomLeft /\ NothingWholeWaits /\ ClosedForCause
  BY DEF Inv
<1>3. f \in Seq(Byte) /\ Len(f) \in Nat /\ Len(f) > 0 /\ stream \in Seq(Byte) /\ Len(stream) \in Nat
  BY <1>2, Frame DEF TypeOK
<1>4. /\ stream' \in Seq(Byte) /\ Len(stream') = Len(stream) + Len(f)
      /\ \A i \in 1 .. Len(stream) : stream'[i] = stream[i]
      /\ \A i \in 1 .. Len(f) : stream'[Len(stream) + i] = f[i]
  BY <1>1, <1>3, Joined
<1>5. new \in [at : Nat, dat : Frames] /\ new.at = Len(stream) /\ new.dat = f
  BY <1>3
<1>6. sent \in Seq([at : Nat, dat : Frames]) /\ Len(sent) \in Nat
  BY <1>2 DEF TypeOK
<1> HIDE DEF new
<1>7. /\ sent' \in Seq([at : Nat, dat : Frames]) /\ Len(sent') = Len(sent) + 1
      /\ \A i \in 1 .. Len(sent) : sent'[i] = sent[i]
      /\ sent'[Len(sent) + 1] = new
  BY <1>1, <1>5, <1>6
<1>8. TypeOK'
  BY <1>1, <1>2, <1>3, <1>4, <1>7 DEF TypeOK
<1>9. ASSUME NEW i \in 0 .. Len(sent) PROVE Begin(i)' = Begin(i)
  <2>1. CASE i < Len(sent)
    <3>1. i + 1 \in 1 .. Len(sent) /\ i < Len(sent')
      BY <1>6, <1>7, <2>1
    <3>2. sent'[i + 1] = sent[i + 1]
      BY <1>7, <3>1
    <3> QED
      BY <2>1, <3>1, <3>2 DEF Begin
  <2>2. CASE i = Len(sent)
    <3>1. i < Len(sent') /\ sent'[i + 1].at = Len(stream) /\ ~(i < Len(sent))
      BY <1>5, <1>6, <1>7, <2>2
    <3> QED
      BY <3>1 DEF Begin
  <2> QED
    BY <1>6, <2>1, <2>2
<1>10. ASSUME NEW i, i = Len(sent) + 1 PROVE Begin(i)' = Len(stream) + Len(f)
  BY <1>4, <1>6, <1>7, <1>10 DEF Begin
<1>11. StreamOK'
  <2>1. ASSUME NEW i \in 1 .. Len(sent')
        PROVE  /\ sent'[i].at + Len(sent'[i].dat) <= Len(stream')
               /\ sent'[i].at + Len(sent'[i].dat) = Begin(i)'
               /\ \A j \in 1 .. Len(sent'[i].dat) : stream'[sent'[i].at + j] = sent'[i].dat[j]
    <3>1. CASE i \in 1 .. Len(sent)
      <4>1. sent'[i] = sent[i] /\ sent[i].at \in Nat /\ sent[i].dat \in Frames
        <5>1. sent[i] \in [at : Nat, dat : Frames]
          BY <1>6, <3>1, Element
        <5> QED
          BY <1>7, <3>1, <5>1
      <4>2. Len(sent[i].dat) \in Nat
        BY <4>1, Frame
      <4>3. sent[i].at + Len(sent[i].dat) <= Len(stream) /\ sent[i].at + Len(sent[i].dat) = Begin(i)
        BY <1>2, <3>1 DEF StreamOK
      <4>4. ASSUME NEW j \in 1 .. Len(sent[i].dat) PROVE stream'[sent[i].at + j] = sent[i].dat[j]
        <5>1. sent[i].at + j \in 1 .. Len(stream)
          BY SMTT(20), <1>3, <4>1, <4>2, <4>3
        <5>2. stream[sent[i].at + j] = sent[i].dat[j]
          BY <1>2, <3>1 DEF StreamOK
        <5> QED
          BY <1>4, <5>1, <5>2
      <4>5. i \in 0 .. Len(sent)
        BY <1>6, <3>1
      <4>6. sent[i].at + Len(sent[i].dat) <= Len(stream')
        BY <1>3, <1>4, <4>1, <4>2, <4>3
      <4> QED
        BY <1>9, <4>1, <4>3, <4>4, <4>5, <4>6
    <3>2. CASE i = Len(sent) + 1
      <4>1. sent'[i].at = Len(stream) /\ sent'[i].dat = f
        BY <1>5, <1>7, <3>2
      <4>2. Begin(i)' = Len(stream) + Len(f)
        BY <1>10, <3>2
      <4>3. \A j \in 1 .. Len(f) : stream'[Len(stream) + j] = f[j]
        BY <1>4
      <4>4. Len(stream) + Len(f) <= Len(stream')
        BY <1>3, <1>4
      <4> QED
        BY <4>1, <4>2, <4>3, <4>4
    <3> QED
      BY <1>6, <1>7, <3>1, <3>2
  <2>2. Begin(0)' = 0
    BY <1>2, <1>6, <1>9 DEF StreamOK
  <2> QED
    BY <2>1, <2>2 DEF StreamOK
<1>12. Len(got) \in 0 .. Len(sent) /\ Len(got) \in Nat
  BY <1>2, <1>6 DEF TypeOK, FramesInOrder
<1>13. InSync'
  <2> SUFFICES ASSUME pc # "closed"
               PROVE  /\ read - Len(rbuf) + at = Begin(Len(got))'
                      /\ \A i \in 1 .. Len(rbuf) : rbuf[i] = stream'[read - Len(rbuf) + i]
    BY <1>1 DEF InSync
  <2>1. read - Len(rbuf) + at = Begin(Len(got))
    BY <1>2 DEF InSync
  <2>2. Begin(Len(got))' = Begin(Len(got))
    BY <1>1, <1>9, <1>12
  <2>3. ASSUME NEW i \in 1 .. Len(rbuf) PROVE rbuf[i] = stream'[read - Len(rbuf) + i]
    <3>1. rbuf[i] = stream[read - Len(rbuf) + i]
      BY <1>2 DEF InSync
    <3>2. read - Len(rbuf) + i \in 1 .. Len(stream)
      BY <1>2 DEF TypeOK
    <3> QED
      BY <1>4, <3>1, <3>2
  <2> QED
    BY <2>1, <2>2, <2>3
<1>14. FramesInOrder'
  BY <1>1, <1>2, <1>6, <1>7, <1>12 DEF FramesInOrder
<1>15. RoomLeft'
  BY <1>1, <1>2 DEF RoomLeft, Room
<1>16. ClosedForCause'
  BY SMTT(20), <1>1, <1>2, <1>6, <1>7, <1>12 DEF ClosedForCause, Bad, Huge
<1>17. NothingWholeWaits'
  <2> SUFFICES ASSUME pc = "recv" PROVE LET g == sent'[Len(got) + 1].dat
                                      IN Len(rbuf) < Len(g) \/ (Len(rbuf) = 2 /\ Len(g) = 2)
    BY <1>1 DEF NothingWholeWaits
  <2>1. CASE Len(got) < Len(sent)
    <3>1. Len(got) + 1 \in 1 .. Len(sent)
      BY <1>6, <1>12, <2>1
    <3> QED
      BY <1>2, <1>7, <2>1, <3>1 DEF NothingWholeWaits
  <2>2. CASE Len(got) = Len(sent)
    <3>1. read - Len(rbuf) + at = Len(stream)
      BY <1>2, <2>2 DEF InSync, Begin
    <3>2. Len(rbuf) = 0
      BY <1>2, <1>3, <3>1 DEF TypeOK
    <3> QED
      BY <1>3, <1>5, <1>7, <2>2, <3>2
  <2> QED
    BY <1>6, <1>12, <2>1, <2>2
<1> QED
  BY <1>8, <1>11, <1>13, <1>14, <1>15, <1>16, <1>17 DEF Inv

\* The end of the peer's side.
LEMMA PeerShutInv == ASSUME Inv, PeerShut PROVE Inv'
<1>1. /\ UNCHANGED <<sent, stream, wevn, read, rbuf, at, pc, got>> /\ shut' \in BOOLEAN /\ shut'
  BY DEF PeerShut
<1>2. TypeOK'
  BY <1>1 DEF Inv, TypeOK
<1>3. StreamOK'
  BY <1>1 DEF Inv, StreamOK, Begin
<1>4. InSync'
  BY <1>1 DEF Inv, InSync, Begin
<1>5. FramesInOrder' /\ RoomLeft' /\ NothingWholeWaits'
  BY <1>1 DEF Inv, FramesInOrder, RoomLeft, Room, NothingWholeWaits
<1>6. ClosedForCause'
  BY <1>1 DEF Inv, ClosedForCause, Heard, Bad, Huge
<1> QED
  BY <1>2, <1>3, <1>4, <1>5, <1>6 DEF Inv

\* A recv appends the next bytes of the stream, wherever it stops.
LEMMA RecvInv == ASSUME Inv, NEW n \in 1 .. Mtu, Recv(n) PROVE Inv'
<1> DEFINE piece == SubSeq(stream, read + 1, read + n)
<1>1. /\ pc = "recv" /\ n \in Nat /\ n > 0 /\ n <= Mtu - Len(rbuf) /\ read + n <= Len(stream)
      /\ rbuf' = rbuf \o piece /\ read' = read + n /\ at' = 0 /\ pc' = "parse"
      /\ UNCHANGED <<sent, stream, shut, wevn, got>>
  BY FramingAssumption DEF Recv, Room, envVars
<1>2. TypeOK /\ StreamOK /\ InSync /\ FramesInOrder
  BY DEF Inv
<1>3. /\ read \in Nat /\ rbuf \in Seq(Byte) /\ Len(rbuf) \in Nat /\ stream \in Seq(Byte)
      /\ Len(stream) \in Nat /\ Len(rbuf) <= read /\ at = 0 /\ read + n \in Nat /\ read <= read + n
      /\ Mtu \in Nat
  BY <1>1, <1>2, FramingAssumption DEF TypeOK
<1>4. /\ piece \in Seq(Byte) /\ Len(piece) = (read + n) - read
      /\ \A i \in 1 .. (read + n) - read : piece[i] = stream[read + i]
  BY <1>1, <1>3, Piece
<1>5. Len(piece) = n /\ \A i \in 1 .. n : piece[i] = stream[read + i]
  BY <1>1, <1>3, <1>4
<1> HIDE DEF piece
<1>6. /\ rbuf' \in Seq(Byte) /\ Len(rbuf') = Len(rbuf) + n
      /\ \A i \in 1 .. Len(rbuf) : rbuf'[i] = rbuf[i]
      /\ \A i \in 1 .. n : rbuf'[Len(rbuf) + i] = piece[i]
  <2>1. /\ rbuf \o piece \in Seq(Byte) /\ Len(rbuf \o piece) = Len(rbuf) + Len(piece)
        /\ \A i \in 1 .. Len(rbuf) : (rbuf \o piece)[i] = rbuf[i]
        /\ \A i \in 1 .. Len(piece) : (rbuf \o piece)[Len(rbuf) + i] = piece[i]
    <3>1. rbuf \in Seq(Byte) /\ piece \in Seq(Byte)
      BY <1>3, <1>4
    <3> QED
      BY <3>1
  <2> QED
    BY <1>1, <1>5, <2>1
<1>7. TypeOK'
  <2>1. read' \in 0 .. Len(stream') /\ Len(rbuf') <= Mtu /\ Len(rbuf') <= read'
        /\ at' \in 0 .. Len(rbuf')
    BY <1>1, <1>3, <1>6
  <2> QED
    BY <1>1, <1>2, <1>6, <2>1 DEF TypeOK
<1>8. StreamOK'
  BY <1>1, <1>2 DEF StreamOK, Begin
<1>9. InSync'
  <2>1. read' - Len(rbuf') + at' = read - Len(rbuf) + at
    BY <1>1, <1>3, <1>6
  <2>2. read - Len(rbuf) + at = Begin(Len(got)) /\ Begin(Len(got))' = Begin(Len(got))
    BY <1>1, <1>2 DEF InSync, Begin
  <2>3. ASSUME NEW i \in 1 .. Len(rbuf') PROVE rbuf'[i] = stream[read' - Len(rbuf') + i]
    <3>1. read' - Len(rbuf') + i = read - Len(rbuf) + i
      BY <1>1, <1>3, <1>6
    <3>2. CASE i \in 1 .. Len(rbuf)
      BY <1>1, <1>2, <1>6, <3>1, <3>2 DEF InSync
    <3>3. CASE i > Len(rbuf)
      <4>1. i - Len(rbuf) \in 1 .. n /\ Len(rbuf) + (i - Len(rbuf)) = i
            /\ read + (i - Len(rbuf)) = read - Len(rbuf) + i
        BY <1>3, <1>6, <3>3
      <4> QED
        BY <1>5, <1>6, <3>1, <4>1
    <3> QED
      BY <1>3, <1>6, <3>2, <3>3
  <2> QED
    BY <1>1, <2>1, <2>2, <2>3 DEF InSync
<1>10. FramesInOrder' /\ RoomLeft' /\ NothingWholeWaits' /\ ClosedForCause'
  BY <1>1, <1>2 DEF FramesInOrder, RoomLeft, NothingWholeWaits, ClosedForCause
<1> QED
  BY <1>7, <1>8, <1>9, <1>10 DEF Inv

\* A buffer that holds less than a frame, or the two bytes of one, is at the end
\* of the stream only in the second case.
LEMMA AtTheEnd ==
  ASSUME NEW r \in Nat, NEW l \in Nat, NEW a \in Nat, NEW n \in Nat,
         r - l = a, a + n <= r, l < n \/ (l = 2 /\ n = 2)
  PROVE  n = 2 /\ a + n = r
OBVIOUS

\* A recv that returns 0 is the peer's end, since there is room.
LEMMA RecvZeroInv == ASSUME Inv, RecvZero PROVE Inv'
<1>1. /\ pc = "recv" /\ shut /\ read = Len(stream) /\ pc' = "closed"
      /\ UNCHANGED <<sent, stream, shut, wevn, read, rbuf, at, got>>
  <2>1. pc = "recv" => Room > 0 /\ Room # 0
    <3>1. Len(rbuf) \in Nat /\ Mtu \in Nat
      BY FramingAssumption DEF Inv, TypeOK
    <3>2. Room \in Int
      BY <3>1 DEF Room
    <3>3. pc = "recv" => Room > 0
      BY DEF Inv, RoomLeft
    <3> QED
      BY <3>2, <3>3
  <2> QED
    BY <2>1 DEF RecvZero, envVars
<1>2. TypeOK' /\ StreamOK' /\ InSync' /\ FramesInOrder' /\ RoomLeft' /\ NothingWholeWaits'
  <2>1. TypeOK'
    BY <1>1 DEF Inv, TypeOK
  <2>2. StreamOK'
    BY <1>1 DEF Inv, StreamOK, Begin
  <2> QED
    BY <1>1, <2>1, <2>2 DEF Inv, InSync, FramesInOrder, RoomLeft, NothingWholeWaits
<1>3. Heard
  <2>1. /\ Len(got) \in Nat /\ Len(sent) \in Nat /\ Len(got) <= Len(sent) /\ Len(rbuf) \in Nat
        /\ read \in Nat /\ at = 0
    BY <1>1 DEF Inv, TypeOK, FramesInOrder
  <2>2. SUFFICES ASSUME Len(got) < Len(sent)
                 PROVE  Len(got) + 1 = Len(sent) /\ Len(sent[Len(sent)].dat) = 2
    BY <2>1 DEF Heard
  <2> DEFINE k == Len(got) + 1
             n == Len(sent[k].dat)
  <2>3. read - Len(rbuf) = sent[k].at
    BY <1>1, <2>1, <2>2 DEF Inv, InSync, Begin
  <2>4. k \in 1 .. Len(sent) /\ n \in Nat /\ sent[k].at \in Nat
    <3>1. k \in 1 .. Len(sent)
      BY <2>1, <2>2
    <3> QED
      BY <3>1, SentFrame DEF Inv
  <2>5. sent[k].at + n <= Len(stream) /\ sent[k].at + n = Begin(k)
    BY <2>4 DEF Inv, StreamOK
  <2>6. Len(rbuf) < n \/ (Len(rbuf) = 2 /\ n = 2)
    BY <1>1, <2>2 DEF Inv, NothingWholeWaits
  <2> HIDE DEF n
  <2>7. n = 2 /\ Begin(k) = Len(stream)
    <3> DEFINE a == sent[k].at
    <3>1. /\ read - Len(rbuf) = a /\ a \in Nat /\ a + n <= read /\ a + n = Begin(k)
          /\ read = Len(stream)
      BY <1>1, <2>3, <2>4, <2>5
    <3> HIDE DEF a, k
    <3>2. n = 2 /\ a + n = read
      BY <2>1, <2>4, <2>6, <3>1, AtTheEnd
    <3> QED
      BY <3>1, <3>2
  <2>8. ~(k < Len(sent))
    <3>1. SUFFICES ASSUME k < Len(sent) PROVE FALSE
      OBVIOUS
    <3>2. k + 1 \in 1 .. Len(sent) /\ sent[k + 1].at = Len(stream)
      BY <2>1, <2>7, <3>1 DEF Begin
    <3> HIDE DEF k
    <3>3. sent[k + 1].at + Len(sent[k + 1].dat) <= Len(stream)
      BY <3>2 DEF Inv, StreamOK
    <3>4. Len(sent[k + 1].dat) \in Nat /\ Len(sent[k + 1].dat) > 0 /\ Len(stream) \in Nat
      BY <3>2, SentFrame DEF Inv, TypeOK
    <3> QED
      BY <3>2, <3>3, <3>4
  <2>9. k = Len(sent)
    BY <2>1, <2>2, <2>8
  <2> QED
    BY <2>7, <2>9 DEF n
<1>4. ClosedForCause'
  BY <1>1, <1>3 DEF ClosedForCause, Heard
<1> QED
  BY <1>2, <1>4 DEF Inv

\* evnMsg is called with the whole of the next frame, and evnRead goes on behind
\* it, at the beginning of the one after.
LEMMA DispatchInv ==
  ASSUME Inv, pc = "parse", Left > 0, Left >= Len(Cur), Dispatch(Len(Cur))
  PROVE  Inv'
<1> DEFINE n == Len(Cur)
<1>1. TypeOK /\ StreamOK /\ InSync /\ FramesInOrder
  BY DEF Inv
<1>2. SubSeq(rbuf, at + 1, at + n) = Cur /\ at + n \in 0 .. Len(rbuf)
  BY <1>1, Taken
<1>3. Len(got) < Len(sent) /\ Cur \in Frames
  BY <1>1, FrameHere
<1>4. Cur \in Seq(Byte) /\ n \in Nat /\ n > 0
  BY <1>3, Frame
<1>5. /\ got' = Append(got, Cur) /\ UNCHANGED <<sent, stream, shut, wevn, read, rbuf>>
      /\ (Cur \in Declined => pc' = "closed" /\ at' = at)
      /\ (Cur \notin Declined => at' = at + n /\ pc' = pc)
  BY <1>2 DEF Dispatch, envVars
<1>6. Len(got) \in Nat /\ Len(sent) \in Nat /\ got \in Seq(Seq(Byte))
  BY <1>1 DEF TypeOK
<1>7. /\ got' \in Seq(Seq(Byte)) /\ Len(got') = Len(got) + 1
      /\ \A i \in 1 .. Len(got) : got'[i] = got[i]
      /\ got'[Len(got) + 1] = Cur
  BY <1>4, <1>5, <1>6
<1>8. at' \in 0 .. Len(rbuf) /\ pc' \in {"parse", "closed"}
  BY <1>1, <1>2, <1>5 DEF TypeOK
<1> HIDE DEF n
<1>9. TypeOK'
  BY <1>1, <1>5, <1>7, <1>8 DEF TypeOK
<1>10. StreamOK'
  BY <1>1, <1>5 DEF StreamOK, Begin
<1>11. InSync'
  <2> SUFFICES ASSUME pc' # "closed"
               PROVE  /\ read - Len(rbuf) + at' = Begin(Len(got))'
                      /\ \A i \in 1 .. Len(rbuf) : rbuf[i] = stream[read - Len(rbuf) + i]
    BY <1>5 DEF InSync
  <2>1. at' = at + n
    BY <1>5
  <2>2. read - Len(rbuf) + at = sent[Len(got) + 1].at
    BY <1>1, <1>3 DEF InSync, Begin
  <2>3. Len(got) + 1 \in 1 .. Len(sent)
    BY <1>3, <1>6
  <2>4. sent[Len(got) + 1].at + n = Begin(Len(got) + 1)
    BY <1>1, <2>3 DEF StreamOK, Cur, n
  <2>5. Begin(Len(got))' = Begin(Len(got) + 1)
    BY <1>5, <1>7 DEF Begin
  <2>6. read \in Nat /\ Len(rbuf) \in Nat /\ at \in Nat
    BY <1>1 DEF TypeOK
  <2>7. read - Len(rbuf) + at' = Begin(Len(got))'
    BY <1>4, <2>1, <2>2, <2>4, <2>5, <2>6
  <2> QED
    BY <1>1, <2>7 DEF InSync
<1>12. FramesInOrder'
  <2>1. ASSUME NEW i \in 1 .. Len(got') PROVE got'[i] = sent[i].dat
    <3>1. CASE i \in 1 .. Len(got)
      BY <1>1, <1>7, <3>1 DEF FramesInOrder
    <3>2. CASE i = Len(got) + 1
      BY <1>7, <3>2 DEF Cur
    <3> QED
      BY <1>6, <1>7, <3>1, <3>2
  <2> QED
    BY <1>3, <1>5, <1>6, <1>7, <2>1 DEF FramesInOrder
<1>13. RoomLeft' /\ NothingWholeWaits'
  BY <1>8 DEF RoomLeft, NothingWholeWaits
<1>14. ClosedForCause'
  <2> SUFFICES ASSUME pc' = "closed" PROVE got' # <<>> /\ got'[Len(got')] \in Declined
    BY DEF ClosedForCause
  <2>1. Cur \in Declined
    BY <1>5
  <2> QED
    BY <1>6, <1>7, <2>1
<1> QED
  BY <1>9, <1>10, <1>11, <1>12, <1>13, <1>14 DEF Inv

\* PING, PONG and a message are dispatched at their full length.
LEMMA PingDispatch ==
  ASSUME Inv, Ping
  PROVE  pc = "parse" /\ Left > 0 /\ Left >= Len(Cur) /\ Dispatch(Len(Cur))
<1>1. pc = "parse" /\ Left > 0 /\ PingPong /\ Dispatch(1)
  BY DEF Ping, Parsing
<1>2. Len(Cur) = 1
  BY <1>1, SizeOf DEF Inv
<1>3. Left \in Int
  BY DEF Inv, TypeOK, Left
<1> QED
  BY <1>1, <1>2, <1>3

LEMMA MessageDispatch ==
  ASSUME Inv, Message
  PROVE  pc = "parse" /\ Left > 0 /\ Left >= Len(Cur) /\ Dispatch(Len(Cur))
<1>1. pc = "parse" /\ Left > 0 /\ ~PingPong /\ Header /\ ~TooLong /\ Left >= Size /\ Dispatch(Size)
  BY DEF Message, Parsing, Whole
<1>2. Size = Len(Cur)
  BY <1>1, SizeOf DEF Inv, TooLong
<1> QED
  BY <1>1, <1>2

\* A connection given up while parsing is given up for the frame in front.
LEMMA RefuseInv == ASSUME Inv, Refuse PROVE Inv'
<1>1. /\ pc = "parse" /\ Left > 0 /\ ~PingPong /\ Header
      /\ ~TooLong => Left >= Size /\ SubSeq(rbuf, at + 1, at + Size) \in Spoiled
      /\ pc' = "closed" /\ UNCHANGED <<sent, stream, shut, wevn, read, rbuf, at, got>>
  BY DEF Refuse, Parsing, envVars
<1>2. TypeOK' /\ StreamOK' /\ InSync' /\ FramesInOrder' /\ RoomLeft' /\ NothingWholeWaits'
  <2>1. TypeOK'
    BY <1>1 DEF Inv, TypeOK
  <2>2. StreamOK'
    BY <1>1 DEF Inv, StreamOK, Begin
  <2> QED
    BY <1>1, <2>1, <2>2 DEF Inv, InSync, FramesInOrder, RoomLeft, NothingWholeWaits
<1>3. Len(got) < Len(sent) /\ ~(Cur[1] \in Pings)
  BY <1>1, FrameHere, SizeOf DEF Inv
<1>4. Left >= 2
  <2>1. Left \in Int
    BY DEF Inv, TypeOK, Left
  <2> QED
    BY <1>1, <2>1 DEF Header
<1>5. Bad(Cur)
  <2>1. CASE Dat(1) = More
    BY <1>1, <1>3, <1>4, <2>1, SizeOf DEF Inv, Bad
  <2>2. CASE Dat(1) # More
    <3>1. Size = Len(Cur)
      BY <1>1, <2>2, SizeOf DEF Inv
    <3>2. CASE TooLong
      BY <1>3, <2>2, <3>1, <3>2 DEF TooLong, Bad
    <3>3. CASE ~TooLong
      <4>1. Left >= Len(Cur) /\ SubSeq(rbuf, at + 1, at + Len(Cur)) \in Spoiled
        BY <1>1, <3>1, <3>3
      <4>2. SubSeq(rbuf, at + 1, at + Len(Cur)) = Cur
        BY <1>1, <4>1, Taken DEF Inv
      <4> QED
        BY <1>3, <4>1, <4>2 DEF Bad
    <3> QED
      BY <3>2, <3>3
  <2> QED
    BY <2>1, <2>2
<1>6. ClosedForCause'
  BY <1>1, <1>3, <1>5 DEF ClosedForCause, Cur, Bad, Huge
<1> QED
  BY <1>2, <1>6 DEF Inv

\* What is moved to the front is less than a frame, and so leaves room.
LEMMA CompactInv == ASSUME Inv, Compact PROVE Inv'
<1> DEFINE b == Len(rbuf)
<1>1. /\ pc = "parse"
      /\ Left > 0 => ~PingPong /\ (Header => ~TooLong /\ Left < Size)
      /\ rbuf' = SubSeq(rbuf, at + 1, b) /\ at' = 0 /\ pc' = "recv"
      /\ UNCHANGED <<sent, stream, shut, wevn, read, got>>
  BY DEF Compact, Rest, envVars
<1>2. TypeOK /\ StreamOK /\ InSync /\ FramesInOrder
  BY DEF Inv
<1>3. /\ rbuf \in Seq(Byte) /\ b \in Nat /\ at \in Nat /\ at <= b /\ b <= Mtu /\ b <= read
      /\ read \in Nat /\ Mtu \in Nat /\ Mtu > 3 /\ Left \in Nat /\ Left = b - at
  BY <1>2, FramingAssumption DEF TypeOK, Left
<1>4. /\ rbuf' \in Seq(Byte) /\ Len(rbuf') = b - at
      /\ \A i \in 1 .. b - at : rbuf'[i] = rbuf[at + i]
  BY <1>1, <1>3, Piece
<1>5. TypeOK'
  <2>1. Len(rbuf') <= Mtu /\ Len(rbuf') <= read /\ at' \in 0 .. Len(rbuf')
    BY <1>1, <1>3, <1>4
  <2> QED
    BY <1>1, <1>2, <1>4, <2>1 DEF TypeOK
<1>6. StreamOK'
  BY <1>1, <1>2 DEF StreamOK, Begin
<1>7. InSync'
  <2>1. read - Len(rbuf') + at' = read - b + at
    <3>1. Len(rbuf') = b - at /\ at' = 0 /\ b \in Nat /\ at \in Nat /\ read \in Nat
      BY <1>1, <1>3, <1>4
    <3> HIDE DEF b
    <3> QED
      BY <3>1
  <2>2. read - b + at = Begin(Len(got)) /\ Begin(Len(got))' = Begin(Len(got))
    BY <1>1, <1>2 DEF InSync, Begin
  <2>3. ASSUME NEW i \in 1 .. Len(rbuf') PROVE rbuf'[i] = stream[read - Len(rbuf') + i]
    <3>1. rbuf'[i] = rbuf[at + i] /\ at + i \in 1 .. b
      BY <1>3, <1>4
    <3>2. rbuf[at + i] = stream[read - b + (at + i)]
      BY <1>1, <1>2, <3>1 DEF InSync
    <3>3. read - b + (at + i) = read - Len(rbuf') + i
      BY <1>3, <1>4
    <3> QED
      BY <3>1, <3>2, <3>3
  <2> QED
    BY <1>1, <2>1, <2>2, <2>3 DEF InSync
<1>8. FramesInOrder' /\ ClosedForCause'
  BY <1>1, <1>2 DEF FramesInOrder, ClosedForCause
<1>9. ASSUME Left > 0
      PROVE  /\ Left < Mtu /\ Len(got) < Len(sent) /\ Cur \in Frames
             /\ Left < Len(Cur) \/ (Left = 2 /\ Len(Cur) = 2)
  <2>1. Len(got) < Len(sent) /\ Cur \in Frames
    BY <1>1, <1>2, <1>9, FrameHere
  <2>2. ~PingPong /\ Len(Cur) > 1 /\ Len(Cur) \in Nat
    BY <1>1, <1>2, <1>9, <2>1, SizeOf, Frame
  <2>3. CASE Left < 3
    <3>1. Left = 1 \/ Left = 2
      BY <1>3, <1>9, <2>3
    <3>2. Left < Mtu
      BY <1>3, <3>1
    <3>3. Left < Len(Cur) \/ (Left = 2 /\ Len(Cur) = 2)
      <4>1. CASE Len(Cur) = 2
        BY <3>1, <4>1
      <4>2. CASE Len(Cur) # 2
        <5>1. Len(Cur) > 2
          BY <2>2, <4>2
        <5> QED
          BY <2>2, <3>1, <5>1
      <4> QED
        BY <4>1, <4>2
    <3> QED
      BY <2>1, <3>2, <3>3
  <2>4. CASE Left >= 3 /\ ~Header
    <3>1. Dat(1) = Two /\ Left < 4 /\ Dat(1) # More
      BY <1>3, <2>4 DEF Header, LenSize
    <3>2. Len(Cur) > 3
      <4>1. Dat(1) = Cur[2]
        <5>1. \A i \in 0 .. Left - 1 : i < Len(Cur) => Dat(i) = Cur[i + 1]
          BY <1>1, <1>2, <1>9, FrameHere
        <5>2. 1 \in 0 .. Left - 1 /\ 1 < Len(Cur)
          BY <1>3, <2>2, <2>4
        <5>3. Dat(1) = Cur[1 + 1]
          BY <5>1, <5>2
        <5> QED
          BY <5>3
      <4>2. Encoded(Cur) /\ ~(Cur[1] \in Pings)
        BY <1>1, <1>2, <1>9, <2>1, <2>2, SizeOf, FramingAssumption
      <4> QED
        BY <3>1, <4>1, <4>2, FramingAssumption DEF Encoded, Short, Long, Huge, Two
    <3> QED
      BY <1>3, <2>1, <2>2, <3>1, <3>2
  <2>5. CASE Header
    <3>1. ~TooLong /\ Left < Size
      BY <1>1, <1>9, <2>5
    <3>2. Size = Len(Cur) /\ ~(Size > Mtu)
      BY <1>1, <1>2, <1>9, <2>2, <2>5, <3>1, SizeOf DEF TooLong
    <3> QED
      BY <1>3, <2>1, <2>2, <3>1, <3>2
  <2> QED
    BY <1>3, <2>3, <2>4, <2>5
<1>10. RoomLeft'
  <2>1. Left < Mtu
    BY <1>3, <1>9
  <2> QED
    BY <1>3, <1>4, <2>1 DEF RoomLeft, Room
<1>11. NothingWholeWaits'
  <2> SUFFICES ASSUME Len(got) < Len(sent) PROVE b - at < Len(Cur) \/ (b - at = 2 /\ Len(Cur) = 2)
    BY <1>1, <1>4 DEF NothingWholeWaits, Cur
  <2>1. CASE Left > 0
    BY <1>3, <1>9, <2>1
  <2>2. CASE Left = 0
    <3>1. Len(got) + 1 \in 1 .. Len(sent)
      BY <1>2 DEF TypeOK
    <3>2. Len(Cur) > 0 /\ Len(Cur) \in Nat
      BY <1>2, <3>1, SentFrame DEF Cur
    <3> QED
      BY <1>3, <2>2, <3>2
  <2> QED
    BY <1>3, <2>1, <2>2
<1> QED
  BY <1>5, <1>6, <1>7, <1>8, <1>10, <1>11 DEF Inv

LEMMA NextInv == Inv /\ [Next]_vars => Inv'
<1> SUFFICES ASSUME Inv, [Next]_vars PROVE Inv'
  OBVIOUS
<1>1. CASE Worker
  BY <1>1, RecvInv, RecvZeroInv, DispatchInv, PingDispatch, MessageDispatch, RefuseInv, CompactInv DEF Worker
<1>2. ASSUME NEW f \in Frames, PeerSend(f) PROVE Inv'
  BY <1>2, PeerSendInv
<1>3. CASE PeerShut
  BY <1>3, PeerShutInv
<1>4. CASE AskWrite \/ UNCHANGED vars
  <2>1. UNCHANGED <<sent, stream, shut, read, rbuf, at, pc, got>> /\ wevn' \in {TRUE, wevn}
    BY <1>4 DEF AskWrite, vars, envVars
  <2>2. TypeOK' /\ StreamOK' /\ InSync' /\ FramesInOrder'
    BY <2>1 DEF Inv, TypeOK, StreamOK, Begin, InSync, FramesInOrder
  <2>3. RoomLeft' /\ NothingWholeWaits' /\ ClosedForCause'
    BY <2>1 DEF Inv, RoomLeft, Room, NothingWholeWaits, ClosedForCause, Heard
  <2> QED
    BY <2>2, <2>3 DEF Inv
<1> QED
  BY <1>1, <1>2, <1>3, <1>4 DEF Next

LEMMA Invariance == Spec => []Inv
BY InitInv, NextInv, PTL DEF Spec, Safety

\* The types hold, and evnRead is never in the middle of a parse between calls.
THEOREM FramingTypes == Spec => []TypeOK
BY Invariance, PTL DEF Inv

\* The length fields and the compaction keep the parser at a frame's beginning.
THEOREM StaysInSync == Spec => []InSync
BY Invariance, PTL DEF Inv

\* A recv of nothing never closes a connection that works.
THEOREM RoomForRecv == Spec => []RoomLeft
BY Invariance, PTL DEF Inv

\* No whole frame waits in the buffer for the peer to send more, but for one of
\* two bytes, which evnRead takes for the beginning of a longer one.
THEOREM NoFrameHeldUp == Spec => []NothingWholeWaits
BY Invariance, PTL DEF Inv

\* evnMsg gets what the peer sent, once and in order.
THEOREM FramesAsSent == Spec => []FramesInOrder
BY Invariance, PTL DEF Inv

\* Only the peer's doing closes a connection.
THEOREM ClosedByPeer == Spec => []ClosedForCause
BY Invariance, PTL DEF Inv

-----------------------------------------------------------------------------
(* The frames implement the channel, but for liveness, which TLC checks.   *)

\* The frames sent, without their places.
Given == [i \in 1 .. Len(sent) |-> sent[i].dat]

LEMMA ChannelInit == Init => C!Init
BY DEF Init, C!Init

\* A dispatch is a delivery of the channel.
LEMMA DispatchDelivers ==
  ASSUME Inv, pc = "parse", Left > 0, Left >= Len(Cur), Dispatch(Len(Cur))
  PROVE  C!Next
<1>1. TypeOK /\ StreamOK /\ InSync /\ FramesInOrder
  BY DEF Inv
<1>2. Len(got) < Len(sent) /\ got' = Append(got, Cur) /\ UNCHANGED <<sent, wevn>>
  BY <1>1, FrameHere, Taken DEF Dispatch, envVars
<1>3. Len(got) + 1 \in 1 .. Len(sent) /\ Len(Given) = Len(sent)
  BY <1>1, <1>2 DEF TypeOK, Given
<1>4. Given[Len(got) + 1] = Cur
  BY <1>3 DEF Given, Cur
<1>5. C!Deliver
  BY <1>2, <1>3, <1>4 DEF C!Deliver, Given
<1>6. (pc' # "closed" /\ ~wevn') \in {pc # "closed" /\ ~wevn, FALSE}
  BY <1>2 DEF Dispatch
<1> QED
  BY <1>5, <1>6 DEF C!Next

LEMMA ChannelStep == ASSUME Inv, [Next]_vars PROVE [C!Next]_C!cvars
<1>1. ASSUME NEW f \in Frames, PeerSend(f) PROVE C!Next
  <2>1. /\ sent \in Seq([at : Nat, dat : Frames]) /\ Len(stream) \in Nat
        /\ sent' = Append(sent, [at |-> Len(stream), dat |-> f]) /\ UNCHANGED <<pc, wevn, got>>
    BY <1>1 DEF PeerSend, Inv, TypeOK
  <2>2. /\ Len(sent') = Len(sent) + 1 /\ sent'[Len(sent) + 1].dat = f
        /\ \A i \in 1 .. Len(sent) : sent'[i] = sent[i]
    BY <2>1
  <2>3. Given \in Seq(Frames) /\ Len(Given) = Len(sent)
    <3>1. \A i \in 1 .. Len(sent) : sent[i].dat \in Frames
      BY SentFrame DEF Inv
    <3> QED
      BY <2>1, <3>1 DEF Given
  <2>4. Given' = Append(Given, f)
    <3>1. Given' \in Seq(Frames) /\ Len(Given') = Len(sent) + 1
      <4>1. \A i \in 1 .. Len(sent) + 1 : sent'[i].dat \in Frames
        <5>1. ASSUME NEW i \in 1 .. Len(sent') PROVE sent'[i].dat \in Frames
          <6>1. sent' \in Seq([at : Nat, dat : Frames])
            BY <2>1
          <6>2. sent'[i] \in [at : Nat, dat : Frames]
            BY <6>1, Element
          <6> QED
            BY <6>2
        <5> QED
          BY <2>2, <5>1
      <4>2. Given' = [i \in 1 .. Len(sent) + 1 |-> sent'[i].dat] /\ Len(sent) + 1 \in Nat
        BY <2>1, <2>2 DEF Given
      <4> QED
        BY <4>1, <4>2
    <3>2. Append(Given, f) \in Seq(Frames) /\ Len(Append(Given, f)) = Len(sent) + 1
      BY <2>3
    <3>3. ASSUME NEW i \in 1 .. Len(sent) + 1 PROVE Given'[i] = Append(Given, f)[i]
      <4>1. Given'[i] = sent'[i].dat
        BY <2>2 DEF Given
      <4>2. CASE i \in 1 .. Len(sent)
        BY <2>2, <2>3, <4>1, <4>2 DEF Given
      <4>3. CASE i = Len(sent) + 1
        BY <2>2, <2>3, <4>1, <4>3
      <4> QED
        <5>1. Len(sent) \in Nat
          BY <2>1
        <5>2. i \in 1 .. Len(sent) \/ i = Len(sent) + 1
          BY <5>1
        <5> QED
          BY <4>2, <4>3, <5>2
    <3> HIDE DEF Given
    <3> QED
      BY <3>1, <3>2, <3>3, SameSeq
  <2>5. C!Give
    BY <2>1, <2>4 DEF C!Give, Given
  <2> QED
    BY <2>1, <2>5 DEF C!Next
<1>2. ASSUME NEW n \in 1 .. Mtu, Recv(n) PROVE C!Next
  BY <1>2 DEF Recv, envVars, C!Next
<1>3. ASSUME RecvZero PROVE C!Next
  BY <1>3 DEF RecvZero, envVars, C!Next
<1>4. ASSUME Refuse PROVE C!Next
  BY <1>4 DEF Refuse, envVars, C!Next
<1>5. ASSUME Compact PROVE C!Next
  BY <1>5 DEF Compact, envVars, C!Next
<1>6. ASSUME Ping PROVE C!Next
  BY <1>6, PingDispatch, DispatchDelivers
<1>7. ASSUME Message PROVE C!Next
  BY <1>7, MessageDispatch, DispatchDelivers
<1>8. ASSUME PeerShut PROVE C!Next
  BY <1>8 DEF PeerShut, C!Next
<1>10. ASSUME AskWrite PROVE C!Next
  BY <1>10 DEF AskWrite, C!Next
<1>9. ASSUME UNCHANGED vars PROVE C!Next
  BY <1>9 DEF vars, envVars, C!Next
<1> QED
  BY <1>1, <1>2, <1>3, <1>4, <1>5, <1>6, <1>7, <1>8, <1>9, <1>10 DEF Next, Worker

\* evnRead hands over the frames as the abstract channel does: whatever the cuts,
\* every step is a step of the channel.
THEOREM FramingImplementsChannel == Spec => ChannelSafety
<1>1. Inv /\ [Next]_vars => [C!Next]_C!cvars
  BY ChannelStep
<1> QED
  BY <1>1, ChannelInit, Invariance, PTL DEF Spec, Safety, ChannelSafety, C!Safety
=============================================================================
