--------------------------- MODULE SegmentsProofs ---------------------------
(***************************************************************************)
(* For any length of a segment, any payloads and any transactions: the     *)
(* loops of sendContinue, sendEnd and sendUni cut a message into the PDUs  *)
(* that the peer joins to what was given, and leave nothing half said.     *)
(***************************************************************************)
EXTENDS Segments, TLAPS

-----------------------------------------------------------------------------
(* What a message looks like on the wire, with no loop.                    *)

\* The number of its PDUs.
Count(m) == IF Short(m) THEN 1 ELSE Segs(m) + (IF Remain(m) > 0 THEN 1 ELSE 0)

\* The j-th of them.
Piece(m, j) ==
  IF Short(m) THEN Whole(m)
  ELSE IF j = 1 THEN First(m)
  ELSE IF j <= Segs(m) THEN Part(m, (j - 1) * SegLen, SegLen, HaveNext(m, j - 1))
  ELSE Part(m, Segs(m) * SegLen, Remain(m), FALSE)

\* The payload of the first j.
Upto(m, j) == IF j <= Segs(m) THEN SubSeq(m.dat, 1, j * SegLen) ELSE m.dat

\* What the peer keeps after the first j.
Joined(m, j) == With(First(m), Upto(m, j), TRUE)

\* The number of PDUs up to the k-th message's last.
End(k) == IF k < Len(given) THEN begins[k + 1] ELSE Len(wire)

-----------------------------------------------------------------------------
(* The inductive invariant.                                                *)

\* Each message has its place on the wire, and its pieces there in order.  Only
\* the last one may be under way, or broken off with the connection.
PlacesOK ==
  /\ given = <<>> => wire = <<>>
  /\ given # <<>> => begins[1] = 0
  /\ \A k \in 1 .. Len(given) :
       /\ begins[k] <= End(k) /\ End(k) <= Len(wire)
       /\ End(k) - begins[k] <= Count(given[k])
       /\ End(k) - begins[k] = Count(given[k]) \/ End(k) = Len(wire)
       /\ est /\ (k < Len(given) \/ cur = None) => End(k) - begins[k] = Count(given[k])
  /\ est /\ cur # None => Len(wire) - begins[Len(given)] = seg

WireOK ==
  \A k \in 1 .. Len(given) : \A j \in 1 .. Count(given[k]) :
    j <= End(k) - begins[k] => wire[begins[k] + j] = Piece(given[k], j)

\* The peer has so many messages, and the first PDUs of the next.
Next1 == Len(out) + 1

PeerOK ==
  /\ Len(out) <= Len(given)
  /\ Len(out) = Len(given) =>
       /\ rcvd = Len(wire) /\ half = {}
       /\ given # <<>> => Len(wire) - begins[Len(given)] = Count(given[Len(given)])
  /\ Len(out) < Len(given) =>
       /\ begins[Next1] <= rcvd /\ rcvd <= End(Next1)
       /\ rcvd - begins[Next1] < Count(given[Next1])
       /\ half = IF rcvd = begins[Next1] THEN {}
                 ELSE {Joined(given[Next1], rcvd - begins[Next1])}

OutOK == \A k \in 1 .. Len(out) : Got(out[k]) = Sent(given[k])

Inv == TypeOK /\ SegmentsFit /\ PlacesOK /\ WireOK /\ PeerOK /\ OutOK

-----------------------------------------------------------------------------
(* Lengths.                                                                *)

LEMMA Mono == ASSUME NEW a \in Nat, NEW b \in Nat, a <= b
              PROVE  a * SegLen <= b * SegLen /\ a * SegLen \in Nat
BY SegmentsAssumption

LEMMA Times == ASSUME NEW a \in Nat, a > 0
               PROVE  (a - 1) * SegLen + SegLen = a * SegLen /\ (a - 1) * SegLen \in Nat
BY SegmentsAssumption

LEMMA DivMod ==
  ASSUME NEW n \in Nat
  PROVE  /\ n \div SegLen \in Nat /\ n % SegLen \in Nat
         /\ (n \div SegLen) * SegLen + (n % SegLen) = n /\ n % SegLen < SegLen
BY SegmentsAssumption

\* A message's payload.
LEMMA Payload ==
  ASSUME NEW m \in Messages
  PROVE  /\ m \in Message /\ WellFormed(m) /\ m # None
         /\ ~Short(m) => m.dat \in Seq(Data) /\ Len(m.dat) \in Nat /\ Len(m.dat) > SegLen
BY SegmentsAssumption DEF Message, Short

LEMMA Long ==
  ASSUME NEW m \in Messages, ~Short(m)
  PROVE  /\ Segs(m) \in Nat /\ Remain(m) \in Nat /\ Segs(m) >= 1
         /\ Segs(m) * SegLen + Remain(m) = Len(m.dat) /\ Remain(m) < SegLen
         /\ Segs(m) = 1 => Remain(m) > 0
<1>1. Len(m.dat) \in Nat /\ Len(m.dat) > SegLen
  BY Payload
<1>2. /\ Segs(m) \in Nat /\ Remain(m) \in Nat
      /\ Segs(m) * SegLen + Remain(m) = Len(m.dat) /\ Remain(m) < SegLen
  BY <1>1, DivMod DEF Segs, Remain
<1>3. Segs(m) # 0
  <2> SUFFICES ASSUME Segs(m) = 0 PROVE FALSE
    OBVIOUS
  <2>1. Segs(m) * SegLen = 0
    BY SegmentsAssumption
  <2> QED
    BY <1>1, <1>2, <2>1, SegmentsAssumption
<1>4. Segs(m) = 1 => Remain(m) > 0
  BY <1>1, <1>2, SegmentsAssumption
<1> QED
  BY <1>2, <1>3, <1>4

LEMMA CountType == ASSUME NEW m \in Messages
                   PROVE  /\ Count(m) \in Nat /\ Count(m) >= 1
                          /\ ~Short(m) => Count(m) >= 2 /\ Count(m) >= Segs(m)
BY Long DEF Count

-----------------------------------------------------------------------------
(* The pieces, and what they are joined to.                                *)

LEMMA Cut ==
  ASSUME NEW S, NEW s \in Seq(S), NEW a \in Nat, NEW n \in Nat, a + n <= Len(s)
  PROVE  /\ SubSeq(s, a + 1, a + n) \in Seq(S) /\ Len(SubSeq(s, a + 1, a + n)) = n
OBVIOUS

LEMMA Glue ==
  ASSUME NEW S, NEW s \in Seq(S), NEW a \in Nat, NEW n \in Nat, a + n <= Len(s)
  PROVE  SubSeq(s, 1, a) \o SubSeq(s, a + 1, a + n) = SubSeq(s, 1, a + n)
OBVIOUS

LEMMA All == ASSUME NEW S, NEW s \in Seq(S) PROVE SubSeq(s, 1, Len(s)) = s
OBVIOUS

\* The ids are no None.
LEMMA IdOK ==
  ASSUME NEW m \in Messages
  PROVE  /\ DTID(m.tid) \in Ids /\ DTID(m.tid) # None /\ DTID(m.tid)[1] = "DTID"
         /\ STID(m.tid) \in Ids /\ STID(m.tid) # None /\ STID(m.tid)[1] = "STID"
<1>1. m.tid \in Tids
  BY Payload DEF Message
<1>2. DTID(m.tid) \in {"DTID", "STID"} \X Tids /\ STID(m.tid) \in {"DTID", "STID"} \X Tids
  BY <1>1 DEF DTID, STID
<1> QED
  BY <1>2, SegmentsAssumption DEF Ids, DTID, STID

\* A message in one PDU comes out as it was given.
LEMMA WholeOK ==
  ASSUME NEW m \in Messages, Short(m)
  PROVE  /\ Whole(m) \in PDUs /\ Whole(m).tag # "PART" /\ ~Whole(m).next
         /\ Whole(m).dat # None => Len(Whole(m).dat) <= SegLen
         /\ Decode(Whole(m)) \in Received /\ Got(Decode(Whole(m))) = Sent(m)
<1>1. m \in Message /\ WellFormed(m)
  BY Payload
<1>2. /\ DTID(m.tid) \in Ids /\ DTID(m.tid) # None /\ DTID(m.tid)[1] # "STID"
      /\ None \in Ids /\ RET_SUCCESS \in Rets /\ None \notin Rets
  BY <1>1, IdOK, SegmentsAssumption DEF Ids
<1>3. m.dat # None => Len(m.dat) <= SegLen
  BY DEF Short
<1>4. CASE m.kind = "CONTINUE"
  BY <1>1, <1>2, <1>3, <1>4 DEF Whole, encodeContinue, PDU, PDUs, Message, WellFormed, Decode,
     Received, Got, Sent, Side, Kinds
<1>5. CASE m.kind = "END"
  BY <1>1, <1>2, <1>3, <1>5 DEF Whole, encodeEnd, PDU, PDUs, Message, WellFormed, Decode,
     Received, Got, Sent, Side, Kinds
<1>6. CASE m.kind = "UNI"
  BY <1>1, <1>2, <1>3, <1>6 DEF Whole, encodeUni, PDU, PDUs, Message, WellFormed, Decode,
     Received, Got, Sent, Side, Kinds
<1> QED
  BY <1>1, <1>4, <1>5, <1>6 DEF Message, Kinds

\* The id that the parts of m carry.
IdOf(m) == IF m.kind = "UNI" THEN STID(m.tid) ELSE DTID(m.tid)

\* The first segment of a long one, and what becomes of it with all the payload.
LEMMA FirstOK ==
  ASSUME NEW m \in Messages, ~Short(m)
  PROVE  /\ First(m) \in PDUs /\ First(m).tag # "PART" /\ First(m).next
         /\ First(m).dat = SubSeq(m.dat, 1, SegLen) /\ Len(First(m).dat) = SegLen
         /\ First(m).id = IdOf(m)
         /\ LET p == With(First(m), m.dat, FALSE) IN
              Decode(p) \in Received /\ Got(Decode(p)) = Sent(m)
<1>1. /\ m \in Message /\ WellFormed(m) /\ m.dat \in Seq(Data) /\ Len(m.dat) > SegLen
      /\ Len(m.dat) \in Nat /\ SegLen \in Nat
  BY Payload, SegmentsAssumption
<1>2. /\ DTID(m.tid) \in Ids /\ DTID(m.tid) # None /\ DTID(m.tid)[1] # "STID"
      /\ STID(m.tid) \in Ids /\ STID(m.tid) # None /\ STID(m.tid)[1] = "STID"
      /\ RET_SUCCESS \in Rets /\ None \notin Rets
  BY <1>1, IdOK, SegmentsAssumption
<1> DEFINE dat == SubSeq(m.dat, 1, SegLen)
<1>3. dat \in Seq(Data) /\ Len(dat) = SegLen
  BY <1>1
<1> HIDE DEF dat
<1>4. CASE m.kind = "CONTINUE"
  <2>1. First(m) = PDU("CONTINUE", DTID(m.tid), TRUE, None, None, dat)
    BY <1>4 DEF First, encodeContinueWithPart, dat
  <2>2. /\ First(m) \in PDUs /\ First(m).tag # "PART" /\ First(m).next
        /\ First(m).dat = SubSeq(m.dat, 1, SegLen) /\ Len(First(m).dat) = SegLen
        /\ First(m).id = IdOf(m)
    BY <1>1, <1>2, <1>3, <1>4, <2>1 DEF PDU, PDUs, Message, Kinds, IdOf, dat
  <2>3. With(First(m), m.dat, FALSE) = PDU("CONTINUE", DTID(m.tid), FALSE, None, None, m.dat)
    BY <2>1 DEF PDU, With
  <2>4. Decode(PDU("CONTINUE", DTID(m.tid), FALSE, None, None, m.dat)) = [kind |-> m.kind, id |-> DTID(m.tid), ret |-> m.ret, sid |-> m.sid,
                       dat |-> m.dat]
    BY <1>1, <1>2, <1>4 DEF PDU, Decode, Message, WellFormed
  <2>5. LET r == [kind |-> m.kind, id |-> DTID(m.tid), ret |-> m.ret, sid |-> m.sid,
                  dat |-> m.dat]
        IN  r \in Received /\ Got(r) = Sent(m)
    BY <1>1, <1>2, <1>4 DEF Message, Received, Got, Sent, Side, Kinds
  <2> QED
    BY <2>2, <2>3, <2>4, <2>5
<1>5. CASE m.kind = "END"
  <2>1. First(m) = PDU("END", DTID(m.tid), TRUE, m.ret, m.sid, dat)
    BY <1>5 DEF First, encodeEndWithPart, dat
  <2>2. /\ First(m) \in PDUs /\ First(m).tag # "PART" /\ First(m).next
        /\ First(m).dat = SubSeq(m.dat, 1, SegLen) /\ Len(First(m).dat) = SegLen
        /\ First(m).id = IdOf(m)
    BY <1>1, <1>2, <1>3, <1>5, <2>1 DEF PDU, PDUs, Message, Kinds, IdOf, dat
  <2>3. With(First(m), m.dat, FALSE) = PDU("END", DTID(m.tid), FALSE, m.ret, m.sid, m.dat)
    BY <2>1 DEF PDU, With
  <2>4. Decode(PDU("END", DTID(m.tid), FALSE, m.ret, m.sid, m.dat)) = [kind |-> m.kind, id |-> DTID(m.tid), ret |-> m.ret, sid |-> m.sid,
                       dat |-> m.dat]
    BY <1>1, <1>2, <1>5 DEF PDU, Decode, Message, WellFormed
  <2>5. LET r == [kind |-> m.kind, id |-> DTID(m.tid), ret |-> m.ret, sid |-> m.sid,
                  dat |-> m.dat]
        IN  r \in Received /\ Got(r) = Sent(m)
    BY <1>1, <1>2, <1>5 DEF Message, Received, Got, Sent, Side, Kinds
  <2> QED
    BY <2>2, <2>3, <2>4, <2>5
<1>6. CASE m.kind = "UNI"
  <2>1. First(m) = PDU("END", STID(m.tid), TRUE, None, m.sid, dat)
    BY <1>6 DEF First, encodeUniWithPart, dat
  <2> QED
    BY <1>1, <1>2, <1>3, <1>6, <2>1 DEF PDU, PDUs, Message, WellFormed, Decode,
       Received, Got, Sent, Side, Kinds, IdOf, With, dat
<1> QED
  BY <1>1, <1>4, <1>5, <1>6 DEF Message, Kinds

\* A part: who it belongs to, and whether another follows.
LEMMA PartOK ==
  ASSUME NEW m \in Messages, ~Short(m), NEW ofst \in Nat, NEW n \in Nat, NEW b \in BOOLEAN,
         ofst + n <= Len(m.dat)
  PROVE  /\ Part(m, ofst, n, b) \in PDUs
         /\ Part(m, ofst, n, b).tag = "PART" /\ Part(m, ofst, n, b).id = IdOf(m)
         /\ Part(m, ofst, n, b).next = b /\ Len(Part(m, ofst, n, b).dat) = n
         /\ Part(m, ofst, n, b).dat = SubSeq(m.dat, ofst + 1, ofst + n)
<1> DEFINE dat == SubSeq(m.dat, ofst + 1, ofst + n)
<1>1. dat \in Seq(Data) /\ Len(dat) = n
  BY Payload, Cut
<1>2. IdOf(m) \in Ids
  BY IdOK DEF IdOf
<1>3. Part(m, ofst, n, b) = PDU("PART", IdOf(m), b, None, None, dat)
  BY DEF Part, encodePart, IdOf
<1> HIDE DEF dat
<1> QED
  BY <1>1, <1>2, <1>3 DEF PDU, PDUs, dat

\* Where the j-th piece of a long message lies in its payload.
LEMMA Spot ==
  ASSUME NEW m \in Messages, ~Short(m), NEW j \in 2 .. Count(m)
  PROVE  \E ofst \in Nat, n \in Nat :
           /\ Piece(m, j) \in PDUs /\ Piece(m, j).tag = "PART" /\ Piece(m, j).id = IdOf(m)
           /\ Piece(m, j).next <=> j < Count(m)
           /\ Piece(m, j).dat = SubSeq(m.dat, ofst + 1, ofst + n) /\ Len(Piece(m, j).dat) = n
           /\ ofst = (j - 1) * SegLen /\ n > 0 /\ n <= SegLen /\ ofst + n <= Len(m.dat)
           /\ j <= Segs(m) => ofst + n = j * SegLen
           /\ j > Segs(m) => j - 1 = Segs(m) /\ ofst + n = Len(m.dat)
<1>1. /\ Segs(m) \in Nat /\ Remain(m) \in Nat /\ Segs(m) >= 1 /\ Len(m.dat) \in Nat
      /\ Segs(m) * SegLen + Remain(m) = Len(m.dat) /\ Remain(m) < SegLen
      /\ SegLen \in Nat /\ SegLen > 0
  BY Long, Payload, SegmentsAssumption
<1>2. Count(m) = Segs(m) + (IF Remain(m) > 0 THEN 1 ELSE 0)
  BY DEF Count
<1>3. j \in Nat /\ j > 1 /\ j <= Count(m) /\ j - 1 \in Nat
  BY <1>1, <1>2
<1>4. CASE j <= Segs(m)
  <2>1. (j - 1) * SegLen + SegLen = j * SegLen /\ (j - 1) * SegLen \in Nat
    BY <1>3, Times
  <2>2. j * SegLen <= Segs(m) * SegLen
    BY <1>1, <1>3, <1>4, Mono
  <2>3. HaveNext(m, j - 1) \in BOOLEAN /\ (HaveNext(m, j - 1) <=> j < Count(m))
    BY <1>1, <1>2, <1>3, <1>4 DEF HaveNext
  <2>4. Piece(m, j) = Part(m, (j - 1) * SegLen, SegLen, HaveNext(m, j - 1))
    BY <1>3, <1>4 DEF Piece
  <2>5. (j - 1) * SegLen + SegLen <= Len(m.dat)
    <3>1. Segs(m) * SegLen \in Nat
      BY <1>1, Mono
    <3> QED
      BY <1>1, <2>1, <2>2, <3>1
  <2> DEFINE ofst == (j - 1) * SegLen
             b == HaveNext(m, j - 1)
  <2>6. /\ Part(m, ofst, SegLen, b) \in PDUs
        /\ Part(m, ofst, SegLen, b).tag = "PART" /\ Part(m, ofst, SegLen, b).id = IdOf(m)
        /\ Part(m, ofst, SegLen, b).next = b /\ Len(Part(m, ofst, SegLen, b).dat) = SegLen
        /\ Part(m, ofst, SegLen, b).dat = SubSeq(m.dat, ofst + 1, ofst + SegLen)
    <3>1. ofst \in Nat /\ b \in BOOLEAN /\ ofst + SegLen <= Len(m.dat)
      BY <2>1, <2>3, <2>5
    <3> HIDE DEF ofst, b
    <3> QED
      BY <1>1, <3>1, PartOK
  <2> QED
    BY <1>1, <1>4, <2>1, <2>3, <2>4, <2>5, <2>6
<1>5. CASE j > Segs(m)
  <2>1. Remain(m) > 0 /\ j = Count(m) /\ j - 1 = Segs(m)
    BY <1>1, <1>2, <1>3, <1>5
  <2> DEFINE ofst == Segs(m) * SegLen
             dat == SubSeq(m.dat, ofst + 1, ofst + Remain(m))
  <2>2. Piece(m, j) = [tag |-> "PART", id |-> IdOf(m), next |-> FALSE, ret |-> None,
                       sid |-> None, dne |-> FALSE, dat |-> dat]
    <3>1. ~(j <= Segs(m)) /\ j # 1
      BY <1>1, <1>3, <1>5
    <3> QED
      BY <3>1 DEF Piece, Part, encodePart, PDU, IdOf
  <2>3. ~(j < Count(m)) /\ ofst \in Nat /\ (j - 1) * SegLen = ofst
    BY <1>1, <1>3, <2>1, Mono
  <2>4. /\ ofst + Remain(m) = Len(m.dat) /\ Remain(m) <= SegLen /\ m.dat \in Seq(Data)
        /\ ofst \in Nat /\ Remain(m) \in Nat /\ ofst + Remain(m) <= Len(m.dat)
    BY <1>1, <2>3, Payload
  <2> HIDE DEF ofst
  <2>5. dat \in Seq(Data) /\ Len(dat) = Remain(m)
    BY <2>4, Cut
  <2>6. IdOf(m) \in Ids
    BY IdOK DEF IdOf
  <2> HIDE DEF dat
  <2>7. /\ Piece(m, j) \in PDUs /\ Piece(m, j).tag = "PART" /\ Piece(m, j).id = IdOf(m)
        /\ ~Piece(m, j).next /\ Piece(m, j).dat = dat
    BY <2>2, <2>5, <2>6 DEF PDUs
  <2>8. /\ Piece(m, j).next <=> j < Count(m)
        /\ Piece(m, j).dat = SubSeq(m.dat, ofst + 1, ofst + Remain(m))
        /\ Len(Piece(m, j).dat) = Remain(m)
        /\ ofst = (j - 1) * SegLen /\ Remain(m) > 0
        /\ ~(j <= Segs(m)) /\ j - 1 = Segs(m)
    <3>1. Piece(m, j).next <=> j < Count(m)
      BY <2>3, <2>7
    <3>2. Piece(m, j).dat = SubSeq(m.dat, ofst + 1, ofst + Remain(m))
      BY <2>7 DEF dat
    <3>3. Len(Piece(m, j).dat) = Remain(m)
      BY <2>5, <2>7
    <3>4. ~(j <= Segs(m))
      BY <1>1, <1>3, <1>5
    <3> QED
      BY <2>1, <2>3, <3>1, <3>2, <3>3, <3>4
  <2> USE <2>4
  <2> WITNESS ofst \in Nat, Remain(m) \in Nat
  <2> QED
    BY <2>7, <2>8
<1>6. j <= Segs(m) \/ j > Segs(m)
  BY <1>1, <1>3
<1> QED
  BY <1>4, <1>5, <1>6

\* The first of several has none of its own.
LEMMA FirstDne == ASSUME NEW m \in Messages PROVE First(m).dne = FALSE
<1>1. m.kind \in Kinds
  BY Payload DEF Message
<1> QED
  BY <1>1 DEF First, encodeContinueWithPart, encodeEndWithPart, encodeUniWithPart, PDU, Kinds

\* Only a UNI in one piece has a DNE.
LEMMA DneOK ==
  ASSUME NEW m \in Messages, NEW j \in 1 .. Count(m)
  PROVE  Piece(m, j).dne => Piece(m, j).tag = "UNI"
<1>1. m.kind \in Kinds
  BY Payload DEF Message
<1>2. Short(m) => (Whole(m).dne => Whole(m).tag = "UNI")
  BY <1>1 DEF Whole, encodeContinue, encodeEnd, encodeUni, PDU, Kinds
<1>3. ~First(m).dne
  BY FirstDne
<1>4. \A o, n, b : ~Part(m, o, n, b).dne
  BY DEF Part, encodePart, PDU
<1> QED
  BY <1>2, <1>3, <1>4 DEF Piece

LEMMA Add == ASSUME NEW a \in Nat, NEW b \in Nat, NEW c \in Nat, NEW d \in Nat, a <= b, c <= d
             PROVE  a + c \in Nat /\ b + d \in Nat /\ a + c <= b + d
OBVIOUS

\* What is reserved is enough for the fields.
LEMMA SizeOK ==
  ASSUME NEW p \in PDUs, p.dne => p.tag = "UNI", p.dat # None => Len(p.dat) <= SegLen
  PROVE  Size(p) <= Limit(p)
<1> DEFINE len == IF p.dat = None THEN 0 ELSE Len(p.dat)
           id  == IF p.id = None THEN 0 ELSE Cost["id"]
           nx  == IF p.next THEN Cost["next"] ELSE 0
           ret == IF p.ret = None THEN 0 ELSE Cost["ret"]
           sid == IF p.sid = None THEN 0 ELSE Cost["sid"]
           dne == IF p.dne THEN Cost["dne"] ELSE 0
           dat == IF p.dat = None THEN 0 ELSE Cost["dat"]
           ext == IF p.tag = "UNI" THEN Extra ELSE 0
<1>1. /\ SegLen \in Nat /\ Reserved \in Nat /\ Extra \in Nat
      /\ \A f \in Fields : Cost[f] \in Nat
      /\ Cost["tag"] + Cost["id"] + Cost["next"] + Cost["ret"] + Cost["sid"] + Cost["dat"]
           <= Reserved
      /\ Cost["dne"] <= Extra
  BY SegmentsAssumption DEF Roomy
<1>2. /\ Cost["tag"] \in Nat /\ Cost["id"] \in Nat /\ Cost["next"] \in Nat
      /\ Cost["ret"] \in Nat /\ Cost["sid"] \in Nat /\ Cost["dne"] \in Nat
      /\ Cost["dat"] \in Nat
  BY <1>1 DEF Fields
<1>3. len \in Nat /\ len <= SegLen
  BY <1>1 DEF PDUs
<1>4. id \in Nat /\ id <= Cost["id"]
  BY <1>2
<1>5. nx \in Nat /\ nx <= Cost["next"]
  BY <1>2
<1>6. ret \in Nat /\ ret <= Cost["ret"]
  BY <1>2
<1>7. sid \in Nat /\ sid <= Cost["sid"]
  BY <1>2
<1>8. dat \in Nat /\ dat <= Cost["dat"]
  BY <1>2
<1>9. dne \in Nat /\ ext \in Nat /\ dne <= ext
  BY <1>1, <1>2
<1>10. Size(p) = Cost["tag"] + id + nx + ret + sid + dne + (dat + len)
  <2>1. (IF p.dat = None THEN 0 ELSE Cost["dat"] + Len(p.dat)) = dat + len
    <3>1. CASE p.dat = None
      BY <3>1
    <3>2. CASE p.dat # None
      BY <3>2
    <3> QED
      BY <3>1, <3>2
  <2> QED
    BY <2>1 DEF Size
<1>11. Limit(p) = SegLen + Reserved + ext
  BY DEF Limit
<1> HIDE DEF len, id, nx, ret, sid, dne, dat, ext
<1>12. /\ Cost["tag"] + id + nx + ret + sid + dat \in Nat
       /\ Cost["tag"] + id + nx + ret + sid + dat <= Reserved
  <2> DEFINE A2 == Cost["tag"] + id
             B2 == Cost["tag"] + Cost["id"]
             A3 == A2 + nx
             B3 == B2 + Cost["next"]
             A4 == A3 + ret
             B4 == B3 + Cost["ret"]
             A5 == A4 + sid
             B5 == B4 + Cost["sid"]
             A6 == A5 + dat
             B6 == B5 + Cost["dat"]
  <2>1. B6 <= Reserved
    BY <1>1
  <2> HIDE DEF A6, B6
  <2>2. A2 \in Nat /\ B2 \in Nat /\ A2 <= B2
    BY <1>2, <1>4
  <2> HIDE DEF A2, B2
  <2>3. A3 \in Nat /\ B3 \in Nat /\ A3 <= B3
    BY <1>2, <1>5, <2>2, Add
  <2> HIDE DEF A3, B3
  <2>4. A4 \in Nat /\ B4 \in Nat /\ A4 <= B4
    BY <1>2, <1>6, <2>3, Add
  <2> HIDE DEF A4, B4
  <2>5. A5 \in Nat /\ B5 \in Nat /\ A5 <= B5
    BY <1>2, <1>7, <2>4, Add
  <2> HIDE DEF A5, B5
  <2>6. A6 \in Nat /\ B6 \in Nat /\ A6 <= B6
    BY <1>2, <1>8, <2>5, Add DEF A6, B6
  <2>7. A6 = Cost["tag"] + id + nx + ret + sid + dat
    BY DEF A2, A3, A4, A5, A6
  <2> QED
    BY <1>1, <2>1, <2>6, <2>7
<1>13. Size(p) = (Cost["tag"] + id + nx + ret + sid + dat) + dne + len
  BY <1>2, <1>3, <1>4, <1>5, <1>6, <1>7, <1>8, <1>9, <1>10
<1> DEFINE six == Cost["tag"] + id + nx + ret + sid + dat
<1> HIDE DEF six
<1>14. six \in Nat /\ six <= Reserved /\ Size(p) = six + dne + len
  BY <1>12, <1>13 DEF six
<1> QED
  BY <1>1, <1>3, <1>9, <1>11, <1>14

LEMMA PieceOK ==
  ASSUME NEW m \in Messages, NEW j \in 1 .. Count(m)
  PROVE  /\ Piece(m, j) \in PDUs
         /\ Piece(m, j).tag = "PART" <=> j > 1
         /\ Piece(m, j).next <=> j < Count(m)
         /\ Piece(m, j).dat # None => Len(Piece(m, j).dat) <= SegLen
         /\ Piece(m, j).tag = "PART" => Len(Piece(m, j).dat) > 0
         /\ j > 1 => ~Short(m) /\ Piece(m, j).id = IdOf(m)
<1>1. Count(m) \in Nat /\ (Short(m) => Count(m) = 1) /\ (~Short(m) => Count(m) >= 2)
      /\ SegLen \in Nat
  BY CountType, SegmentsAssumption DEF Count
<1>2. CASE Short(m)
  BY <1>1, <1>2, WholeOK DEF Piece
<1>3. CASE ~Short(m) /\ j = 1
  <2>1. Piece(m, j) = First(m)
    BY <1>3 DEF Piece
  <2>2. j < Count(m) /\ ~(j > 1)
    BY <1>1, <1>3
  <2>3. /\ First(m) \in PDUs /\ First(m).tag # "PART" /\ First(m).next
        /\ Len(First(m).dat) = SegLen
    BY <1>3, FirstOK
  <2> QED
    BY <1>1, <1>3, <2>1, <2>2, <2>3
<1>4. CASE ~Short(m) /\ j > 1
  <2>1. j \in 2 .. Count(m)
    BY <1>1, <1>4
  <2>2. PICK n \in Nat :
          /\ Piece(m, j) \in PDUs /\ Piece(m, j).tag = "PART" /\ Piece(m, j).id = IdOf(m)
          /\ Piece(m, j).next <=> j < Count(m)
          /\ Len(Piece(m, j).dat) = n /\ n > 0 /\ n <= SegLen
    BY <1>4, <2>1, Spot
  <2> QED
    BY <1>4, <2>2
<1> QED
  BY <1>1, <1>2, <1>3, <1>4

\* The peer's joining, piece by piece.
LEMMA JoinOK ==
  ASSUME NEW m \in Messages, ~Short(m)
  PROVE  /\ \A j \in 1 .. Count(m) : Upto(m, j) \in Seq(Data)
         /\ \A j \in 2 .. Count(m) : Upto(m, j - 1) \o Piece(m, j).dat = Upto(m, j)
         /\ Upto(m, Count(m)) = m.dat
         /\ Joined(m, 1) = First(m)
<1>1. /\ Segs(m) \in Nat /\ Remain(m) \in Nat /\ Segs(m) >= 1 /\ Len(m.dat) \in Nat
      /\ Segs(m) * SegLen + Remain(m) = Len(m.dat) /\ Remain(m) < SegLen
      /\ SegLen \in Nat /\ SegLen > 0 /\ m.dat \in Seq(Data)
  BY Long, Payload, SegmentsAssumption
<1>2. Count(m) = Segs(m) + (IF Remain(m) > 0 THEN 1 ELSE 0)
  BY DEF Count
<1>3. ASSUME NEW j \in 1 .. Count(m) PROVE Upto(m, j) \in Seq(Data)
  <2>1. CASE j <= Segs(m)
    <3>1. j * SegLen \in Nat /\ j * SegLen <= Segs(m) * SegLen /\ Segs(m) * SegLen \in Nat
      BY <1>1, <2>1, Mono
    <3>2. j * SegLen <= Len(m.dat)
      BY <1>1, <3>1
    <3> QED
      BY <1>1, <2>1, <3>1, <3>2 DEF Upto
  <2>2. CASE ~(j <= Segs(m))
    BY <1>1, <2>2 DEF Upto
  <2> QED
    BY <2>1, <2>2
<1>4. ASSUME NEW j \in 2 .. Count(m)
      PROVE  Upto(m, j - 1) \o Piece(m, j).dat = Upto(m, j)
  <2>1. PICK ofst \in Nat, n \in Nat :
          /\ Piece(m, j).dat = SubSeq(m.dat, ofst + 1, ofst + n)
          /\ ofst = (j - 1) * SegLen /\ n > 0 /\ n <= SegLen /\ ofst + n <= Len(m.dat)
          /\ j <= Segs(m) => ofst + n = j * SegLen
          /\ j > Segs(m) => j - 1 = Segs(m) /\ ofst + n = Len(m.dat)
    BY Spot
  <2>2. j - 1 <= Segs(m) /\ j \in Nat
    BY <1>1, <1>2
  <2>3. Upto(m, j - 1) = SubSeq(m.dat, 1, ofst)
    BY <2>1, <2>2 DEF Upto
  <2>4. SubSeq(m.dat, 1, ofst) \o SubSeq(m.dat, ofst + 1, ofst + n) = SubSeq(m.dat, 1, ofst + n)
    BY <1>1, <2>1, Glue
  <2>5. Upto(m, j) = SubSeq(m.dat, 1, ofst + n)
    <3>1. CASE j <= Segs(m)
      BY <2>1, <3>1 DEF Upto
    <3>2. CASE ~(j <= Segs(m))
      <4>1. ofst + n = Len(m.dat)
        BY <1>1, <2>1, <2>2, <3>2
      <4> QED
        BY <1>1, <3>2, <4>1, All DEF Upto
    <3> QED
      BY <3>1, <3>2
  <2> QED
    BY <2>1, <2>3, <2>4, <2>5
<1>5. Upto(m, Count(m)) = m.dat
  <2>1. CASE Remain(m) > 0
    BY <1>1, <1>2, <2>1 DEF Upto
  <2>2. CASE Remain(m) = 0
    <3>1. Segs(m) * SegLen = Len(m.dat)
      <4>1. Segs(m) * SegLen \in Nat
        BY <1>1, Mono
      <4> QED
        BY <1>1, <2>2, <4>1
    <3>2. Count(m) = Segs(m)
      BY <1>1, <1>2, <2>2
    <3>3. Upto(m, Count(m)) = SubSeq(m.dat, 1, Len(m.dat))
      BY <1>1, <3>1, <3>2 DEF Upto
    <3> QED
      BY <1>1, <3>3, All
  <2> QED
    BY <1>1, <2>1, <2>2
<1>6. Joined(m, 1) = First(m)
  <2>1. Upto(m, 1) = SubSeq(m.dat, 1, SegLen)
    BY <1>1 DEF Upto
  <2>2. /\ First(m) \in PDUs /\ First(m).next = TRUE /\ First(m).dat = Upto(m, 1)
        /\ First(m).dne = FALSE
    BY <2>1, FirstOK, FirstDne DEF PDUs
  <2> QED
    BY <2>2 DEF Joined, With, PDU, PDUs
<1> QED
  BY <1>3, <1>4, <1>5, <1>6

-----------------------------------------------------------------------------
(* The invariant is kept.                                                  *)

LEMMA Element == ASSUME NEW S, NEW s \in Seq(S), NEW k \in 1 .. Len(s) PROVE s[k] \in S
OBVIOUS

LEMMA Between ==
  ASSUME NEW a \in Nat, NEW b \in Nat, NEW i \in Nat, i <= a + 1 - b, i > a - b
  PROVE  i = a - b + 1
OBVIOUS

LEMMA Place ==
  ASSUME NEW b \in Nat, NEW r \in Nat, NEW c \in Nat, b <= r, r - b < c
  PROVE  \E j \in 1 .. c : r + 1 = b + j
<1>1. r + 1 - b \in 1 .. c /\ r + 1 = b + (r + 1 - b)
  OBVIOUS
<1> QED
  BY <1>1

LEMMA Counted ==
  ASSUME NEW b \in Nat, NEW r \in Nat, NEW j \in Nat, j >= 1, r + 1 = b + j
  PROVE  (r = b <=> j = 1) /\ r - b = j - 1 /\ r + 1 - b = j /\ b <= r + 1 /\ r + 1 # b
OBVIOUS

LEMMA Last ==
  ASSUME NEW b \in Nat, NEW r \in Nat, NEW c \in Nat, NEW e \in Nat,
         r + 1 = b + c, c <= e - b, e - b <= c
  PROVE  r + 1 = e /\ e - b = c
OBVIOUS

LEMMA Empty == ASSUME NEW S, NEW s \in Seq(S), Len(s) = 0 PROVE s = <<>>
OBVIOUS

LEMMA Appended ==
  ASSUME NEW S, NEW s \in Seq(S), NEW x \in S
  PROVE  /\ Append(s, x) \in Seq(S) /\ Len(Append(s, x)) = Len(s) + 1
         /\ Append(s, x)[Len(s) + 1] = x
         /\ \A k \in 1 .. Len(s) : Append(s, x)[k] = s[k]
OBVIOUS

\* The types of what the invariant speaks of.
LEMMA Facts ==
  ASSUME TypeOK
  PROVE  /\ given \in Seq(Messages) /\ Len(given) \in Nat /\ begins \in Seq(Nat)
         /\ Len(begins) = Len(given) /\ wire \in Seq(PDUs) /\ Len(wire) \in Nat
         /\ rcvd \in Nat /\ rcvd <= Len(wire) /\ out \in Seq(Received) /\ Len(out) \in Nat
         /\ \A k \in 1 .. Len(given) : /\ given[k] \in Messages /\ begins[k] \in Nat
                                       /\ Count(given[k]) \in Nat /\ Count(given[k]) >= 1
                                       /\ End(k) \in Nat
         /\ cur # None => /\ Len(given) \in 1 .. Len(given) /\ cur = given[Len(given)]
                          /\ cur \in Messages /\ ~Short(cur) /\ seg \in 1 .. Segs(cur)
<1>1. /\ given \in Seq(Messages) /\ Len(given) \in Nat /\ begins \in Seq(Nat)
      /\ Len(begins) = Len(given) /\ wire \in Seq(PDUs) /\ Len(wire) \in Nat
      /\ rcvd \in Nat /\ rcvd <= Len(wire) /\ out \in Seq(Received) /\ Len(out) \in Nat
  BY DEF TypeOK
<1>2. ASSUME NEW k \in 1 .. Len(given)
      PROVE  /\ given[k] \in Messages /\ begins[k] \in Nat
             /\ Count(given[k]) \in Nat /\ Count(given[k]) >= 1 /\ End(k) \in Nat
  <2>1. given[k] \in Messages /\ begins[k] \in Nat
    BY <1>1, Element
  <2>2. Count(given[k]) \in Nat /\ Count(given[k]) >= 1
    BY <2>1, CountType
  <2>3. CASE k < Len(given)
    <3>1. k + 1 \in 1 .. Len(begins)
      BY <1>1, <2>3
    <3> QED
      BY <1>1, <2>1, <2>2, <2>3, <3>1, Element DEF End
  <2>4. CASE ~(k < Len(given))
    BY <1>1, <2>1, <2>2, <2>4 DEF End
  <2> QED
    BY <2>3, <2>4
<1>3. ASSUME cur # None
      PROVE  /\ Len(given) \in 1 .. Len(given) /\ cur = given[Len(given)]
             /\ cur \in Messages /\ ~Short(cur) /\ seg \in 1 .. Segs(cur)
  <2>1. given # <<>> /\ cur = given[Len(given)] /\ ~Short(cur) /\ seg \in 1 .. Segs(cur)
    BY <1>3 DEF TypeOK
  <2>2. Len(given) \in 1 .. Len(given)
    BY <1>1, <2>1
  <2> QED
    BY <1>2, <2>1, <2>2
<1> QED
  BY <1>1, <1>2, <1>3

LEMMA InitInv == Init => Inv
<1> SUFFICES ASSUME Init PROVE Inv
  OBVIOUS
<1>1. TypeOK
  BY SegmentsAssumption DEF Init, TypeOK
<1>2. SegmentsFit /\ PlacesOK /\ WireOK /\ PeerOK /\ OutOK
  BY DEF Init, SegmentsFit, PlacesOK, WireOK, PeerOK, OutOK
<1> QED
  BY <1>1, <1>2 DEF Inv

\* What a PDU does to the wire.
LEMMA PutOK ==
  ASSUME TypeOK, SegmentsFit, NEW m \in Messages, NEW j \in 1 .. Count(m), Put(Piece(m, j))
  PROVE  /\ wire' \in Seq(PDUs) /\ est' \in BOOLEAN /\ Len(wire') >= Len(wire) /\ SegmentsFit'
         /\ \A k \in 1 .. Len(wire) : wire'[k] = wire[k]
         /\ \/ est /\ est' /\ Len(wire') = Len(wire) + 1 /\ wire'[Len(wire) + 1] = Piece(m, j)
            \/ ~est' /\ wire' = wire
<1>1. /\ wire \in Seq(PDUs) /\ Len(wire) \in Nat /\ est \in BOOLEAN
      /\ Piece(m, j) \in PDUs /\ Size(Piece(m, j)) <= Limit(Piece(m, j))
      /\ (Piece(m, j).tag = "PART" => Len(Piece(m, j).dat) > 0)
  BY PieceOK, DneOK, SizeOK DEF TypeOK
<1>2. CASE est /\ wire' = Append(wire, Piece(m, j)) /\ est' = est
  <2>1. /\ wire' \in Seq(PDUs) /\ Len(wire') = Len(wire) + 1
        /\ wire'[Len(wire) + 1] = Piece(m, j)
        /\ \A k \in 1 .. Len(wire) : wire'[k] = wire[k]
    BY <1>1, <1>2, Appended
  <2>2. SegmentsFit'
    <3> SUFFICES ASSUME NEW k \in 1 .. Len(wire')
                 PROVE  /\ Size(wire'[k]) <= Limit(wire'[k])
                        /\ wire'[k].tag = "PART" => Len(wire'[k].dat) > 0
      BY DEF SegmentsFit
    <3>1. k \in 1 .. Len(wire) \/ k = Len(wire) + 1
      BY <1>1, <2>1
    <3> QED
      BY <1>1, <2>1, <3>1 DEF SegmentsFit
  <2> QED
    BY <1>1, <1>2, <2>1, <2>2
<1>3. CASE est' = FALSE /\ wire' = wire
  <2>1. SegmentsFit'
    BY <1>3 DEF SegmentsFit
  <2>2. wire' \in Seq(PDUs) /\ Len(wire') >= Len(wire)
    BY <1>1, <1>3
  <2>3. est' \in BOOLEAN /\ ~est'
    BY <1>3
  <2> QED
    BY <1>3, <2>1, <2>2, <2>3
<1> QED
  BY <1>2, <1>3 DEF Put

\* A send puts the first piece of a message behind all the others.
LEMMA SendInv == ASSUME Inv, NEW m \in Messages, Send(m) PROVE Inv'
<1>0. PICK n \in Nat : n = Len(given)
  BY Facts DEF Inv
<1>1. TypeOK /\ SegmentsFit /\ PlacesOK /\ WireOK /\ PeerOK /\ OutOK
  BY DEF Inv
<1>2. /\ cur = None /\ n < MaxMessages /\ given' = Append(given, m)
      /\ begins' = Append(begins, Len(wire)) /\ UNCHANGED <<rcvd, half, out>>
  BY <1>0 DEF Send
<1>3. Put(Piece(m, 1)) /\ 1 \in 1 .. Count(m)
  <2>1. IF Short(m) THEN Put(Whole(m)) ELSE Put(First(m))
    BY DEF Send
  <2> QED
    BY <2>1, CountType DEF Piece
<1>4. (Short(m) => cur' = None /\ seg' = seg) /\ (~Short(m) => cur' = m /\ seg' = 1)
  BY <1>2 DEF Send
<1>5. /\ given \in Seq(Messages) /\ n \in Nat /\ begins \in Seq(Nat)
      /\ Len(begins) = n /\ wire \in Seq(PDUs) /\ Len(wire) \in Nat
      /\ rcvd \in Nat /\ rcvd <= Len(wire) /\ out \in Seq(Received) /\ Len(out) \in Nat
      /\ \A k \in 1 .. n : /\ given[k] \in Messages /\ begins[k] \in Nat
                           /\ Count(given[k]) \in Nat /\ Count(given[k]) >= 1 /\ End(k) \in Nat
  BY <1>0, <1>1, Facts
<1>6. /\ wire' \in Seq(PDUs) /\ est' \in BOOLEAN /\ Len(wire') >= Len(wire) /\ SegmentsFit'
      /\ \A k \in 1 .. Len(wire) : wire'[k] = wire[k]
      /\ \/ est /\ est' /\ Len(wire') = Len(wire) + 1 /\ wire'[Len(wire) + 1] = Piece(m, 1)
         \/ ~est' /\ wire' = wire
  BY <1>1, <1>3, PutOK
<1>7. /\ given' \in Seq(Messages) /\ Len(given') = n + 1 /\ given'[n + 1] = m
      /\ \A k \in 1 .. n : given'[k] = given[k]
  BY <1>0, <1>2, <1>5, Appended
<1>8. /\ begins' \in Seq(Nat) /\ Len(begins') = n + 1 /\ begins'[n + 1] = Len(wire)
      /\ \A k \in 1 .. n : begins'[k] = begins[k]
  <2>1. LET b == Append(begins, Len(wire)) IN
          /\ b \in Seq(Nat) /\ Len(b) = Len(begins) + 1 /\ b[Len(begins) + 1] = Len(wire)
          /\ \A k \in 1 .. Len(begins) : b[k] = begins[k]
    BY <1>5, Appended
  <2> QED
    BY <1>2, <1>5, <2>1
<1>9. Len(wire') \in Nat /\ Count(m) \in Nat /\ Count(m) >= 1 /\ (Short(m) => Count(m) = 1)
  BY <1>6, CountType DEF Count
<1>10. TypeOK'
  <2>1. cur' # None => /\ given' # <<>> /\ cur' = given'[Len(given')] /\ ~Short(m)
                       /\ cur' = m /\ seg' \in 1 .. Segs(m)
    BY <1>4, <1>5, <1>7, Long
  <2>2. cur' \in Messages \cup {None} /\ seg' \in Nat
    BY <1>1, <1>4 DEF TypeOK
  <2>3. Len(given') <= MaxMessages
    BY <1>2, <1>5, <1>7, SegmentsAssumption
  <2>4. rcvd' \in 0 .. Len(wire') /\ half' \subseteq PDUs /\ out' \in Seq(Received)
    BY <1>1, <1>2, <1>5, <1>6, <1>9 DEF TypeOK
  <2>5. cur' # None => Short(cur)' = Short(m) /\ Segs(cur)' = Segs(m)
    BY <2>1
  <2> QED
    BY <1>6, <1>7, <1>8, <2>1, <2>2, <2>3, <2>4 DEF TypeOK, Short, Segs
<1>11. /\ \A k \in 1 .. n : End(k)' = End(k)
       /\ End(n + 1)' = Len(wire')
  <2>1. End(n + 1)' = Len(wire')
    BY <1>0, <1>5, <1>7 DEF End
  <2>2. ASSUME NEW k \in 1 .. n PROVE End(k)' = End(k)
    <3>1. End(k)' = begins'[k + 1]
      BY <1>0, <1>5, <1>7 DEF End
    <3>2. CASE k < n
      <4>1. k + 1 \in 1 .. n /\ End(k) = begins[k + 1]
        BY <1>0, <3>2 DEF End
      <4> QED
        BY <1>8, <3>1, <4>1
    <3>3. CASE k = n
      BY <1>0, <1>5, <1>8, <3>1, <3>3 DEF End
    <3> QED
      BY <1>5, <3>2, <3>3
  <2> QED
    BY <2>1, <2>2
<1>12. PlacesOK'
  <2>1. given' # <<>> /\ begins'[1] = 0
    <3>1. given' # <<>>
      BY <1>0, <1>7
    <3>2. CASE n = 0
      <4>1. given = <<>>
        BY <1>0, <1>5, <3>2, Empty
      <4>2. Len(wire) = 0
        BY <1>1, <4>1 DEF PlacesOK
      <4> QED
        BY <1>8, <3>1, <3>2, <4>2
    <3>3. CASE n > 0
      <4>1. given # <<>> /\ 1 \in 1 .. n
        BY <1>0, <1>5, <3>3
      <4>2. begins[1] = 0
        BY <1>1, <4>1 DEF PlacesOK
      <4> QED
        BY <1>8, <3>1, <4>1, <4>2
    <3> QED
      BY <1>0, <3>2, <3>3
  <2>2. ASSUME NEW k \in 1 .. n
        PROVE  /\ begins'[k] <= End(k)' /\ End(k)' <= Len(wire')
               /\ End(k)' - begins'[k] <= Count(given'[k])
               /\ End(k)' - begins'[k] = Count(given'[k]) \/ End(k)' = Len(wire')
               /\ est' => End(k)' - begins'[k] = Count(given'[k])
    <3>1. /\ begins[k] <= End(k) /\ End(k) <= Len(wire)
          /\ End(k) - begins[k] <= Count(given[k])
          /\ End(k) - begins[k] = Count(given[k]) \/ End(k) = Len(wire)
          /\ est => End(k) - begins[k] = Count(given[k])
      BY <1>0, <1>1, <1>2 DEF PlacesOK
    <3>2. begins'[k] = begins[k] /\ given'[k] = given[k] /\ End(k)' = End(k)
      BY <1>7, <1>8, <1>11
    <3>3. begins[k] \in Nat /\ End(k) \in Nat /\ Count(given[k]) \in Nat
      BY <1>5
    <3>4. CASE est /\ est'
      BY <1>5, <1>6, <1>9, <3>1, <3>2, <3>3, <3>4
    <3>5. CASE ~est' /\ wire' = wire
      BY <3>1, <3>2, <3>3, <3>5
    <3> QED
      BY <1>6, <3>4, <3>5
  <2>3. /\ begins'[n + 1] <= End(n + 1)' /\ End(n + 1)' <= Len(wire')
        /\ End(n + 1)' - begins'[n + 1] <= Count(given'[n + 1])
        /\ End(n + 1)' = Len(wire')
        /\ est' => End(n + 1)' - begins'[n + 1] = 1
    BY SMTT(20), <1>5, <1>6, <1>7, <1>8, <1>9, <1>11
  <2>4. est' /\ cur' = None => 1 = Count(given'[n + 1])
    BY <1>3, <1>4, <1>7, <1>9, Payload
  <2>5. est' /\ cur' # None => Len(wire') - begins'[Len(given')] = seg'
    BY <1>4, <1>7, <1>11, <2>3
  <2>6. ASSUME NEW k \in 1 .. Len(given')
        PROVE  /\ begins'[k] <= End(k)' /\ End(k)' <= Len(wire')
               /\ End(k)' - begins'[k] <= Count(given'[k])
               /\ End(k)' - begins'[k] = Count(given'[k]) \/ End(k)' = Len(wire')
               /\ est' /\ (k < Len(given') \/ cur' = None) => End(k)' - begins'[k] = Count(given'[k])
    <3>1. CASE k \in 1 .. n
      BY <2>2, <3>1
    <3>2. CASE k = n + 1
      BY <1>5, <1>7, <2>3, <2>4, <3>2
    <3> QED
      BY <1>5, <1>7, <3>1, <3>2
  <2> QED
    BY <2>1, <2>5, <2>6 DEF PlacesOK
<1>13. WireOK'
  <2> SUFFICES ASSUME NEW k \in 1 .. Len(given'), NEW j \in 1 .. Count(given'[k]),
                      j <= End(k)' - begins'[k]
               PROVE  wire'[begins'[k] + j] = Piece(given'[k], j)
    BY DEF WireOK
  <2>1. CASE k \in 1 .. n
    <3>1. begins'[k] = begins[k] /\ given'[k] = given[k] /\ End(k)' = End(k)
      BY <1>7, <1>8, <1>11, <2>1
    <3>2. begins[k] + j \in 1 .. Len(wire)
      <4>1. End(k) <= Len(wire)
        BY <1>0, <1>1, <2>1 DEF PlacesOK
      <4> QED
        <5>1. /\ begins[k] \in Nat /\ End(k) \in Nat /\ Count(given[k]) \in Nat
              /\ j \in 1 .. Count(given[k]) /\ j <= End(k) - begins[k]
          BY <1>5, <2>1, <3>1
        <5>2. j \in Nat /\ j >= 1 /\ Len(wire) \in Nat
          BY <1>5, <5>1
        <5> QED
          BY <4>1, <5>1, <5>2
    <3> QED
      BY <1>0, <1>1, <1>6, <2>1, <3>1, <3>2 DEF WireOK
  <2>2. CASE k = n + 1
    <3>1. j <= Len(wire') - Len(wire) /\ j \in Nat /\ j >= 1
      BY <1>7, <1>8, <1>9, <1>11, <2>2
    <3>2. j = 1 /\ wire'[Len(wire) + 1] = Piece(m, 1)
      BY <1>5, <1>6, <1>9, <3>1
    <3> QED
      BY <1>7, <1>8, <2>2, <3>2
  <2> QED
    BY <1>5, <1>7, <2>1, <2>2
<1>14. PeerOK' /\ OutOK'
  <2>1. Len(out) <= n
    BY <1>0, <1>1 DEF PeerOK
  <2>2. OutOK'
    <3> SUFFICES ASSUME NEW k \in 1 .. Len(out) PROVE Got(out[k]) = Sent(given'[k])
      BY <1>2 DEF OutOK
    <3>1. k \in 1 .. n
      BY <1>5, <2>1
    <3> QED
      BY <1>1, <1>7, <3>1 DEF OutOK
  <2>3. CASE Len(out) = n
    <3>1. rcvd = Len(wire) /\ half = {}
      BY <1>0, <1>1, <2>3 DEF PeerOK
    <3>2. Next1' = n + 1 /\ End(Next1)' = Len(wire')
      BY <1>2, <1>5, <1>7, <2>3 DEF Next1, End
    <3>3. /\ begins'[n + 1] <= rcvd /\ rcvd <= Len(wire') /\ rcvd = begins'[n + 1]
          /\ rcvd - begins'[n + 1] < Count(given'[n + 1])
      BY <1>5, <1>6, <1>7, <1>8, <1>9, <3>1
    <3>4. Len(out') = n /\ n <= n + 1 /\ n # n + 1
      BY <1>2, <1>5, <2>3
    <3>5. PeerOK'
      BY <1>2, <1>7, <3>1, <3>2, <3>3, <3>4 DEF PeerOK
    <3> QED
      BY <2>2, <3>5
  <2>4. CASE Len(out) < n
    <3>1. Next1 \in 1 .. n /\ Next1' = Next1
      BY <1>2, <1>5, <2>4 DEF Next1
    <3>0. PICK k \in 1 .. n : k = Next1
      BY <3>1
    <3>2. /\ begins[Next1] <= rcvd /\ rcvd <= End(Next1)
          /\ rcvd - begins[Next1] < Count(given[Next1])
          /\ half = IF rcvd = begins[Next1] THEN {}
                    ELSE {Joined(given[Next1], rcvd - begins[Next1])}
      BY <1>0, <1>1, <2>4 DEF PeerOK
    <3>3. /\ begins'[Next1] = begins[Next1] /\ given'[Next1] = given[Next1]
          /\ End(Next1)' = End(Next1)
      <4>1. End(Next1)' = End(k)' /\ End(Next1) = End(k)
        BY <3>0, <3>1
      <4> QED
        BY <1>7, <1>8, <1>11, <3>0, <4>1
    <3>4. Len(out) <= n + 1 /\ Len(out) # n + 1
      BY <1>5, <2>4
    <3> QED
      BY <1>2, <1>7, <2>2, <3>1, <3>2, <3>3, <3>4 DEF PeerOK
  <2> QED
    BY <1>5, <2>1, <2>3, <2>4
<1> QED
  BY <1>6, <1>10, <1>12, <1>13, <1>14 DEF Inv

\* The loop puts the next piece of the message under way.
LEMMA OnwardInv ==
  ASSUME Inv, cur # None, est, NEW j \in 1 .. Count(cur),
         j = Len(wire) - begins[Len(given)] + 1, Put(Piece(cur, j)),
         \/ cur' = cur /\ seg' = j /\ j <= Segs(cur)
         \/ cur' = None /\ seg' \in Nat /\ j = Count(cur),
         UNCHANGED <<given, begins, rcvd, half, out>>
  PROVE  Inv'
<1>0. PICK n \in Nat : n = Len(given)
  BY Facts DEF Inv
<1>1. TypeOK /\ SegmentsFit /\ PlacesOK /\ WireOK /\ PeerOK /\ OutOK
  BY DEF Inv
<1>2. /\ wire \in Seq(PDUs) /\ Len(wire) \in Nat
      /\ rcvd \in Nat /\ rcvd <= Len(wire) /\ out \in Seq(Received) /\ Len(out) \in Nat
      /\ \A k \in 1 .. n : /\ given[k] \in Messages /\ begins[k] \in Nat
                           /\ Count(given[k]) \in Nat /\ Count(given[k]) >= 1 /\ End(k) \in Nat
  BY <1>0, <1>1, Facts
<1>3. Len(wire) \in Nat
  BY <1>2
<1>4. n \in 1 .. n /\ cur = given[n] /\ cur \in Messages /\ ~Short(cur) /\ seg \in 1 .. Segs(cur)
  BY <1>0, <1>1, Facts
<1>5. /\ wire' \in Seq(PDUs) /\ est' \in BOOLEAN /\ Len(wire') >= Len(wire) /\ SegmentsFit'
      /\ \A k \in 1 .. Len(wire) : wire'[k] = wire[k]
      /\ \/ est /\ est' /\ Len(wire') = Len(wire) + 1 /\ wire'[Len(wire) + 1] = Piece(cur, j)
         \/ ~est' /\ wire' = wire
  BY <1>1, <1>4, PutOK
<1>6. /\ Len(wire') \in Nat /\ begins[n] \in Nat /\ Count(cur) \in Nat /\ j \in Nat
      /\ j = Len(wire) - begins[n] + 1 /\ j <= Count(cur) /\ j >= 1 /\ Segs(cur) \in Nat
  BY SMTT(20), <1>0, <1>2, <1>4, <1>5, Long
<1>7. \/ est' /\ Len(wire') = Len(wire) + 1 /\ wire'[Len(wire) + 1] = Piece(cur, j)
      \/ ~est' /\ wire' = wire /\ Len(wire') = Len(wire)
  BY <1>5
<1>8. TypeOK'
  <2>1. cur' # None => cur' = cur /\ seg' \in 1 .. Segs(cur)
    BY <1>6
  <2>2. cur' \in Messages \cup {None} /\ seg' \in Nat
    <3>1. j \in Nat /\ cur \in Messages
      BY <1>4, <1>6
    <3> QED
      BY <3>1
  <2>3. rcvd' \in 0 .. Len(wire')
    BY <1>2, <1>5, <1>6
  <2> QED
    BY <1>1, <1>5, <2>1, <2>2, <2>3 DEF TypeOK, Short, Segs
<1>9. ASSUME NEW k \in 1 .. n
      PROVE  /\ k < n => End(k)' = End(k)
             /\ k = n => End(k) = Len(wire) /\ End(k)' = Len(wire')
  BY <1>0 DEF End
<1>10. PlacesOK'
  <2>1. given' # <<>> /\ begins'[1] = 0
    BY <1>0, <1>1, <1>4 DEF PlacesOK
  <2>2. ASSUME NEW k \in 1 .. n
        PROVE  /\ begins[k] <= End(k)' /\ End(k)' <= Len(wire')
               /\ End(k)' - begins[k] <= Count(given[k])
               /\ End(k)' - begins[k] = Count(given[k]) \/ End(k)' = Len(wire')
               /\ est' /\ (k < n \/ cur' = None) => End(k)' - begins[k] = Count(given[k])
    <3>1. /\ begins[k] <= End(k) /\ End(k) <= Len(wire)
          /\ End(k) - begins[k] <= Count(given[k])
          /\ k < n => End(k) - begins[k] = Count(given[k])
      BY <1>0, <1>1 DEF PlacesOK
    <3>2. begins[k] \in Nat /\ End(k) \in Nat /\ Count(given[k]) \in Nat
      BY <1>2
    <3>3. CASE k < n
      <4>1. End(k)' = End(k) /\ Len(wire) <= Len(wire')
        BY <1>5, <1>9, <3>3
      <4> QED
        BY <1>3, <1>6, <3>1, <3>2, <3>3, <4>1
    <3>4. CASE k = n
      <4>1. given[k] = cur /\ End(k) = Len(wire) /\ End(k)' = Len(wire')
        BY <1>4, <1>9, <3>4
      <4>2. cur' = None => j = Count(cur)
        BY <1>4, SegmentsAssumption
      <4>3. CASE est /\ est' /\ Len(wire') = Len(wire) + 1
        <5>1. End(k)' - begins[k] = j
          BY SMTT(20), <1>3, <1>6, <3>4, <4>1, <4>3
        <5>2. begins[k] <= End(k)' /\ End(k)' - begins[k] <= Count(given[k])
          BY <1>3, <1>6, <3>1, <3>2, <4>1, <4>3, <5>1
        <5> QED
          BY <1>6, <3>4, <4>1, <4>2, <5>1, <5>2
      <4>4. CASE ~est' /\ wire' = wire
        BY <3>1, <3>2, <3>4, <4>1, <4>4
      <4> QED
        BY <1>5, <4>3, <4>4
    <3> QED
      BY <3>3, <3>4
  <2>3. est' /\ cur' # None => Len(wire') - begins[n] = seg'
    BY SMTT(20), <1>3, <1>7, <1>6
  <2> QED
    BY <1>0, <2>1, <2>2, <2>3 DEF PlacesOK
<1>11. WireOK'
  <2> SUFFICES ASSUME NEW k \in 1 .. n, NEW i \in 1 .. Count(given[k]), i <= End(k)' - begins[k]
               PROVE  wire'[begins[k] + i] = Piece(given[k], i)
    BY <1>0 DEF WireOK
  <2>1. /\ begins[k] \in Nat /\ End(k) \in Nat /\ i \in Nat /\ i >= 1 /\ End(k) <= Len(wire)
    BY <1>0, <1>1, <1>2 DEF PlacesOK
  <2>2. CASE i <= End(k) - begins[k]
    <3>1. begins[k] + i \in 1 .. Len(wire)
      BY SMTT(20), <1>3, <2>1, <2>2
    <3>2. wire[begins[k] + i] = Piece(given[k], i)
      BY <1>0, <1>1, <2>2 DEF WireOK
    <3> QED
      BY <1>5, <3>1, <3>2
  <2>3. CASE i > End(k) - begins[k]
    <3>1. k = n
      BY <1>9, <2>1, <2>3
    <3>2. i <= Len(wire') - begins[n] /\ i > Len(wire) - begins[n]
      BY <1>9, <2>3, <3>1
    <3>3. Len(wire') = Len(wire) + 1 /\ wire'[Len(wire) + 1] = Piece(cur, j)
      <4>1. Len(wire') # Len(wire)
        BY <1>3, <1>6, <2>1, <3>2
      <4> QED
        BY <1>7, <4>1
    <3>4. i = j /\ begins[n] + j = Len(wire) + 1
      <4>1. i \in Nat /\ begins[n] \in Nat /\ i <= Len(wire) + 1 - begins[n]
        BY SMTT(20), <1>6, <2>1, <3>2, <3>3
      <4>2. i = Len(wire) - begins[n] + 1
        BY <1>3, <3>2, <4>1, Between
      <4> QED
        BY SMTT(20), <1>3, <1>6, <4>2
    <3> QED
      BY <1>4, <3>1, <3>3, <3>4
  <2> QED
    BY <2>1, <2>2, <2>3
<1>12. PeerOK' /\ OutOK'
  <2>1. OutOK'
    BY <1>1 DEF OutOK
  <2>2. Len(out) < n
    <3>1. Len(out) <= n
      BY <1>0, <1>1 DEF PeerOK
    <3>2. Len(out) # n
      <4> SUFFICES ASSUME Len(out) = n PROVE FALSE
        OBVIOUS
      <4>1. Len(wire) - begins[n] = Count(cur)
        BY <1>0, <1>1, <1>4 DEF PeerOK
      <4> QED
        BY <1>3, <1>6, <4>1
    <3> QED
      BY <1>2, <3>1, <3>2
  <2>3. PICK k \in 1 .. n : k = Next1
    BY <1>2, <2>2 DEF Next1
  <2>4. /\ begins[k] <= rcvd /\ rcvd <= End(k)
        /\ rcvd - begins[k] < Count(given[k])
        /\ half = IF rcvd = begins[k] THEN {} ELSE {Joined(given[k], rcvd - begins[k])}
    BY <1>0, <1>1, <2>2, <2>3 DEF PeerOK
  <2>5. rcvd <= End(k)'
    <3>1. End(k) \in Nat /\ End(k)' \in Nat /\ End(k) <= End(k)'
      BY SMTT(20), <1>2, <1>5, <1>6, <1>9
    <3> QED
      BY <1>2, <2>4, <3>1
  <2>6. Next1' = Next1 /\ End(Next1)' = End(k)'
    BY <2>3 DEF Next1
  <2>7. PeerOK'
    BY <1>0, <2>2, <2>3, <2>4, <2>5, <2>6 DEF PeerOK
  <2> QED
    BY <2>1, <2>7
<1> QED
  BY <1>5, <1>8, <1>10, <1>11, <1>12 DEF Inv

LEMMA SegmentInv == ASSUME Inv, Segment PROVE Inv'
<1>1. /\ cur # None /\ seg < Segs(cur) /\ est /\ seg' = seg + 1
      /\ Put(Part(cur, seg * SegLen, SegLen, HaveNext(cur, seg)))
      /\ UNCHANGED <<given, cur, begins, rcvd, half, out>>
  BY DEF Segment
<1>2. /\ TypeOK /\ cur \in Messages /\ ~Short(cur) /\ seg \in 1 .. Segs(cur)
      /\ Len(wire) - begins[Len(given)] = seg
  BY <1>1, Facts DEF Inv, PlacesOK
<1>3. Segs(cur) \in Nat /\ Count(cur) \in Nat /\ Segs(cur) <= Count(cur)
  BY <1>2, Long, CountType
<1>4. PICK j \in Nat : j = seg + 1
  BY <1>2, <1>3
<1>5. j \in 1 .. Count(cur) /\ j # 1 /\ j <= Segs(cur) /\ j - 1 = seg
  BY <1>1, <1>2, <1>3, <1>4
<1>6. Piece(cur, j) = Part(cur, seg * SegLen, SegLen, HaveNext(cur, seg))
  BY <1>2, <1>5 DEF Piece
<1>7. Put(Piece(cur, j))
  BY <1>1, <1>6
<1>8. j = Len(wire) - begins[Len(given)] + 1 /\ seg' = j
  BY <1>1, <1>2, <1>4
<1> QED
  BY <1>1, <1>5, <1>7, <1>8, OnwardInv

LEMMA RemainderInv == ASSUME Inv, Remainder PROVE Inv'
<1>1. /\ cur # None /\ seg >= Segs(cur) /\ Remain(cur) > 0 /\ est /\ cur' = None
      /\ Put(Part(cur, Segs(cur) * SegLen, Remain(cur), FALSE))
      /\ UNCHANGED <<given, seg, begins, rcvd, half, out>>
  BY DEF Remainder
<1>2. /\ TypeOK /\ cur \in Messages /\ ~Short(cur) /\ seg \in 1 .. Segs(cur)
      /\ Len(wire) - begins[Len(given)] = seg
  BY <1>1, Facts DEF Inv, PlacesOK
<1>3. Segs(cur) \in Nat /\ Segs(cur) >= 1 /\ Count(cur) = Segs(cur) + 1 /\ seg = Segs(cur)
  BY <1>1, <1>2, Long DEF Count
<1>4. PICK j \in Nat : j = seg + 1
  BY <1>2, <1>3
<1>5. j \in 1 .. Count(cur) /\ j # 1 /\ ~(j <= Segs(cur)) /\ j = Count(cur)
  BY <1>3, <1>4
<1>6. Put(Piece(cur, j))
  BY <1>1, <1>2, <1>5 DEF Piece
<1>7. j = Len(wire) - begins[Len(given)] + 1 /\ seg' \in Nat
  BY <1>1, <1>2, <1>3, <1>4
<1> QED
  BY <1>1, <1>5, <1>6, <1>7, OnwardInv

LEMMA ReturnInv == ASSUME Inv, Return PROVE Inv'
<1>1. /\ cur # None /\ (est => seg >= Segs(cur) /\ Remain(cur) = 0) /\ cur' = None
      /\ UNCHANGED <<given, seg, est, wire, begins, rcvd, half, out>>
  BY DEF Return
<1>2. TypeOK /\ cur \in Messages /\ ~Short(cur) /\ seg \in 1 .. Segs(cur)
      /\ cur = given[Len(given)]
  BY <1>1, Facts DEF Inv
<1>3. est => /\ Len(wire) - begins[Len(given)] = Count(given[Len(given)])
             /\ End(Len(given)) = Len(wire)
  <2> SUFFICES ASSUME est PROVE /\ Len(wire) - begins[Len(given)] = Count(given[Len(given)])
                                /\ End(Len(given)) = Len(wire)
    OBVIOUS
  <2>1. Segs(cur) \in Nat /\ Count(cur) = Segs(cur) /\ seg = Segs(cur)
    BY <1>1, <1>2, Long DEF Count
  <2>2. Len(wire) - begins[Len(given)] = seg
    BY <1>1 DEF Inv, PlacesOK
  <2>3. End(Len(given)) = Len(wire)
    BY <1>2 DEF End, TypeOK
  <2> QED
    BY <1>2, <2>1, <2>2, <2>3
<1>4. \A k : End(k)' = End(k)
  BY <1>1 DEF End
<1>5. TypeOK'
  BY <1>1 DEF Inv, TypeOK
<1>6. SegmentsFit' /\ WireOK' /\ PeerOK' /\ OutOK'
  BY <1>1 DEF Inv, SegmentsFit, WireOK, PeerOK, Next1, End, OutOK
<1>7. PlacesOK'
  <2>1. ASSUME NEW k \in 1 .. Len(given), est
        PROVE  End(k) - begins[k] = Count(given[k])
    <3>1. Len(given) \in Nat
      BY <1>2, Facts
    <3>2. CASE k < Len(given)
      BY <2>1, <3>2 DEF Inv, PlacesOK
    <3>3. CASE k = Len(given)
      BY <1>3, <2>1, <3>3
    <3> QED
      BY <3>1, <3>2, <3>3
  <2>2. PlacesOK
    BY DEF Inv
  <2> QED
    BY <1>1, <1>4, <2>1, <2>2 DEF PlacesOK
<1> QED
  BY <1>5, <1>6, <1>7 DEF Inv

LEMMA LoseInv == ASSUME Inv, Lose PROVE Inv'
<1>1. cur = None /\ est /\ ~est' /\ est' = FALSE /\ UNCHANGED <<given, cur, seg, wire, begins, rcvd, half, out>>
  BY DEF Lose
<1>2. TypeOK'
  BY <1>1 DEF Inv, TypeOK
<1>3. SegmentsFit' /\ WireOK' /\ PeerOK' /\ OutOK'
  BY <1>1 DEF Inv, SegmentsFit, WireOK, PeerOK, Next1, End, OutOK
<1>4. PlacesOK'
  BY <1>1 DEF Inv, PlacesOK, End
<1> QED
  BY <1>2, <1>3, <1>4 DEF Inv

\* A PDU with another payload is the same but for that.
LEMMA WithOK ==
  ASSUME NEW p \in PDUs, NEW dat \in Seq(Data), NEW b \in BOOLEAN
  PROVE  /\ With(p, dat, b) \in PDUs /\ With(p, dat, b).next = b /\ With(p, dat, b).id = p.id
         /\ With(p, dat, b).dat = dat
         /\ \A e \in Seq(Data), c \in BOOLEAN : With(With(p, dat, b), e, c) = With(p, e, c)
BY DEF With, PDU, PDUs

\* The next piece of a message makes the peer's part one longer, and the last
\* one makes it the message.
LEMMA Joins ==
  ASSUME NEW m \in Messages, NEW j \in 1 .. Count(m),
         half = IF j = 1 THEN {} ELSE {Joined(m, j - 1)},
         Begins(Piece(m, j)) \/ Continues(Piece(m, j)) \/ Stray(Piece(m, j))
  PROVE  /\ j < Count(m) => half' = {Joined(m, j)} /\ half' \subseteq PDUs /\ out' = out
         /\ j = Count(m) => half' = {} /\ \E r \in Received : /\ Got(r) = Sent(m)
                                                             /\ out' = Append(out, r)
<1> DEFINE p == Piece(m, j)
<1>1. /\ p \in PDUs /\ (p.tag = "PART" <=> j > 1) /\ (p.next <=> j < Count(m))
      /\ (j > 1 => ~Short(m) /\ p.id = IdOf(m))
  BY PieceOK
<1>2. Count(m) \in Nat /\ (Short(m) => Count(m) = 1) /\ (~Short(m) => Count(m) >= 2)
  BY CountType DEF Count
<1>3. Begins(p) \/ Continues(p) \/ Stray(p)
  OBVIOUS
<1>4. CASE Short(m)
  <2>1. j = 1 /\ p = Whole(m) /\ half = {}
    BY <1>2, <1>4 DEF Piece
  <2>2. Begins(p)
    BY <1>1, <1>3, <2>1 DEF Continues, Stray
  <2>3. half' = {} /\ out' = Append(out, Decode(p))
    BY <1>1, <1>2, <1>4, <2>1, <2>2 DEF Begins, Take
  <2>4. Decode(Whole(m)) \in Received /\ Got(Decode(Whole(m))) = Sent(m)
    BY <1>4, WholeOK
  <2> QED
    BY <1>2, <1>4, <2>1, <2>3, <2>4
<1>5. CASE ~Short(m) /\ j = 1
  <2>1. p = First(m) /\ half = {} /\ j < Count(m)
    BY <1>2, <1>5 DEF Piece
  <2>2. Begins(p)
    BY <1>1, <1>3, <1>5 DEF Continues, Stray
  <2>3. half' = {First(m)} /\ out' = out
    BY <1>1, <2>1, <2>2 DEF Begins, Take
  <2>4. Joined(m, 1) = First(m)
    BY <1>5, JoinOK
  <2> QED
    BY <1>1, <1>5, <2>1, <2>3, <2>4
<1>6. CASE ~Short(m) /\ j > 1
  <2> DEFINE h == Joined(m, j - 1)
  <2>1. j \in 2 .. Count(m) /\ j - 1 \in 1 .. Count(m) /\ j # 1
    BY <1>2, <1>6
  <2>2. /\ Upto(m, j - 1) \in Seq(Data) /\ Upto(m, j) \in Seq(Data)
        /\ Upto(m, j - 1) \o p.dat = Upto(m, j)
        /\ Upto(m, Count(m)) = m.dat
    BY <1>6, <2>1, JoinOK
  <2>3. First(m) \in PDUs /\ First(m).id = IdOf(m)
    BY <1>6, FirstOK
  <2>4. /\ h.id = IdOf(m) /\ h.dat = Upto(m, j - 1)
        /\ \A e \in Seq(Data), c \in BOOLEAN : With(h, e, c) = With(First(m), e, c)
    <3> DEFINE f == First(m)
               u == Upto(m, j - 1)
    <3>1. f \in PDUs /\ u \in Seq(Data) /\ TRUE \in BOOLEAN
      BY <2>2, <2>3
    <3>2. h = With(f, u, TRUE)
      BY DEF Joined
    <3>3. f.id = IdOf(m)
      BY <2>3
    <3> HIDE DEF f, u, h
    <3>4. /\ With(f, u, TRUE).id = f.id /\ With(f, u, TRUE).dat = u
          /\ \A e \in Seq(Data), c \in BOOLEAN : With(With(f, u, TRUE), e, c) = With(f, e, c)
      BY <3>1, WithOK
    <3> QED
      BY <3>2, <3>3, <3>4 DEF f, u
  <2>5. half = {h}
    BY <2>1
  <2> HIDE DEF h
  <2> HIDE DEF p
  <2>6. Continues(p)
    <3>1. p.tag = "PART" /\ h.id = p.id
      BY <1>1, <1>6, <2>4
    <3> QED
      BY <1>3, <2>5, <3>1 DEF Begins, Stray
  <2>7. Take({}, With(h, h.dat \o p.dat, p.next))
    <3>1. PICK g \in half : Take(half \ {g}, With(g, g.dat \o p.dat, p.next))
      BY <2>6 DEF Continues
    <3>2. g = h /\ half \ {g} = {}
      BY <2>5
    <3> QED
      BY <3>1, <3>2
  <2>8. Take({}, With(First(m), Upto(m, j), p.next)) /\ p.next \in BOOLEAN
    <3>1. p.next \in BOOLEAN
      BY <1>1 DEF PDUs
    <3>2. With(h, h.dat \o p.dat, p.next) = With(First(m), Upto(m, j), p.next)
      BY <2>2, <2>4, <3>1 DEF p
    <3> QED
      BY <2>7, <3>1, <3>2
  <2>9. CASE j < Count(m)
    <3>1. p.next = TRUE
      BY <1>1, <2>8, <2>9
    <3>2. Take({}, Joined(m, j))
      BY <2>8, <3>1 DEF Joined
    <3>3. Joined(m, j) \in PDUs /\ Joined(m, j).next
      BY <2>2, <2>3, WithOK DEF Joined
    <3> QED
      BY <1>2, <2>9, <3>2, <3>3 DEF Take
  <2>10. CASE j = Count(m)
    <3>1. p.next = FALSE
      BY <1>1, <1>2, <2>8, <2>10
    <3>2. Take({}, With(First(m), m.dat, FALSE))
      BY <2>2, <2>8, <2>10, <3>1
    <3>3. ~With(First(m), m.dat, FALSE).next
      BY DEF With, PDU
    <3>4. half' = {} /\ out' = Append(out, Decode(With(First(m), m.dat, FALSE)))
      BY <3>2, <3>3 DEF Take
    <3>5. LET r == Decode(With(First(m), m.dat, FALSE)) IN r \in Received /\ Got(r) = Sent(m)
      BY <1>6, FirstOK
    <3>6. \E r \in Received : Got(r) = Sent(m) /\ out' = Append(out, r)
      BY <3>4, <3>5
    <3>7. ~(j < Count(m))
      BY <1>2, <2>10
    <3> QED
      BY <3>4, <3>6, <3>7
  <2> QED
    BY <1>2, <2>9, <2>10
<1> QED
  BY <1>2, <1>4, <1>5, <1>6

\* What comes next is the next piece of the message that the peer is at.
LEMMA Coming ==
  ASSUME Inv, rcvd < Len(wire)
  PROVE  \E k \in 1 .. Len(given) : \E j \in 1 .. Count(given[k]) :
           /\ k = Len(out) + 1 /\ Len(out) < Len(given)
           /\ rcvd + 1 = begins[k] + j /\ j <= End(k) - begins[k]
           /\ wire[rcvd + 1] = Piece(given[k], j)
           /\ half = IF j = 1 THEN {} ELSE {Joined(given[k], j - 1)}
<1>0. PICK n \in Nat : n = Len(given)
  BY Facts DEF Inv
<1>1. TypeOK /\ PlacesOK /\ WireOK /\ PeerOK
  BY DEF Inv
<1>3. /\ Len(wire) \in Nat /\ rcvd \in Nat /\ out \in Seq(Received)
      /\ \A k \in 1 .. n : /\ given[k] \in Messages /\ begins[k] \in Nat
                           /\ Count(given[k]) \in Nat /\ Count(given[k]) >= 1 /\ End(k) \in Nat
  BY <1>0, <1>1, Facts
<1>4. PICK o \in Nat : o = Len(out)
  BY <1>3
<1>5. o < n
  BY <1>0, <1>1, <1>3, <1>4 DEF PeerOK
<1>6. PICK k \in 1 .. n : k = o + 1
  BY <1>5
<1> DEFINE m == given[k]
<1>7. /\ begins[k] <= rcvd /\ rcvd <= End(k) /\ rcvd - begins[k] < Count(m)
      /\ half = IF rcvd = begins[k] THEN {} ELSE {Joined(m, rcvd - begins[k])}
  BY <1>0, <1>1, <1>4, <1>5, <1>6 DEF PeerOK, Next1
<1>8. /\ End(k) <= Len(wire) /\ End(k) - begins[k] <= Count(m)
      /\ End(k) - begins[k] = Count(m) \/ End(k) = Len(wire)
  BY <1>0, <1>1 DEF PlacesOK
<1>9. PICK j \in 1 .. Count(m) : rcvd + 1 = begins[k] + j /\ j <= End(k) - begins[k]
  <2>1. /\ begins[k] \in Nat /\ Count(m) \in Nat /\ End(k) \in Nat /\ rcvd \in Nat
        /\ Len(wire) \in Nat
    BY <1>3
  <2>2. begins[k] <= rcvd /\ rcvd - begins[k] < Count(m)
    BY <1>7
  <2>3. PICK j \in 1 .. Count(m) : rcvd + 1 = begins[k] + j
    <3> DEFINE b == begins[k]
               c == Count(m)
    <3>1. b \in Nat /\ c \in Nat /\ rcvd \in Nat /\ b <= rcvd /\ rcvd - b < c
      BY <2>1, <2>2
    <3> HIDE DEF b, c
    <3>2. \E j \in 1 .. c : rcvd + 1 = b + j
      BY <3>1, Place
    <3> QED
      BY <3>2 DEF b, c
  <2>4. rcvd < End(k)
    BY <1>7, <1>8, <2>1
  <2>5. j \in Nat
    BY <2>1
  <2> QED
    BY <2>1, <2>3, <2>4, <2>5
<1>10. wire[rcvd + 1] = Piece(m, j)
  BY <1>0, <1>1, <1>9 DEF WireOK
<1>11. m \in Messages /\ begins[k] \in Nat /\ Count(m) \in Nat /\ End(k) \in Nat /\ j \in Nat
  BY <1>3
<1> HIDE DEF m
<1>12. half = IF j = 1 THEN {} ELSE {Joined(m, j - 1)}
  <2>1. (rcvd = begins[k] <=> j = 1) /\ rcvd - begins[k] = j - 1
    BY SMTT(20), <1>3, <1>9, <1>11, Counted
  <2> QED
    BY <1>7, <2>1
<1> QED
  BY <1>0, <1>4, <1>5, <1>6, <1>9, <1>10, <1>12 DEF m

\* The peer takes the next piece of the message it is at.
LEMMA ReceiveInv == ASSUME Inv, Receive PROVE Inv' /\ [C!Next]_C!cvars
<1>0. PICK n \in Nat : n = Len(given)
  BY Facts DEF Inv
<1>1. TypeOK /\ SegmentsFit /\ PlacesOK /\ WireOK /\ PeerOK /\ OutOK
  BY DEF Inv
<1>2. /\ rcvd < Len(wire) /\ rcvd' = rcvd + 1
      /\ Begins(wire[rcvd + 1]) \/ Continues(wire[rcvd + 1]) \/ Stray(wire[rcvd + 1])
      /\ UNCHANGED <<given, cur, seg, est, wire, begins>>
  BY DEF Receive
<1>3. /\ Len(wire) \in Nat /\ rcvd \in Nat /\ out \in Seq(Received)
      /\ \A k \in 1 .. n : /\ given[k] \in Messages /\ begins[k] \in Nat
                           /\ Count(given[k]) \in Nat /\ Count(given[k]) >= 1 /\ End(k) \in Nat
  BY <1>0, <1>1, Facts
<1>4. PICK o \in Nat : o = Len(out)
  BY <1>3
<1>5. PICK k \in 1 .. n : \E j \in 1 .. Count(given[k]) :
        /\ k = o + 1 /\ o < n /\ rcvd + 1 = begins[k] + j /\ j <= End(k) - begins[k]
        /\ wire[rcvd + 1] = Piece(given[k], j)
        /\ half = IF j = 1 THEN {} ELSE {Joined(given[k], j - 1)}
  BY <1>0, <1>2, <1>4, Coming
<1> DEFINE m == given[k]
<1>6. k = o + 1 /\ o < n
  BY <1>5
<1>8. /\ End(k) <= Len(wire) /\ End(k) - begins[k] <= Count(m)
      /\ End(k) - begins[k] = Count(m) \/ End(k) = Len(wire)
  BY <1>0, <1>1 DEF PlacesOK
<1>9. PICK j \in 1 .. Count(m) : /\ rcvd + 1 = begins[k] + j /\ j <= End(k) - begins[k]
                                 /\ wire[rcvd + 1] = Piece(m, j)
                                 /\ half = IF j = 1 THEN {} ELSE {Joined(m, j - 1)}
  BY <1>5
<1>11. m \in Messages /\ begins[k] \in Nat /\ Count(m) \in Nat /\ End(k) \in Nat /\ j \in Nat
  BY <1>3
<1> HIDE DEF m
<1>13. /\ j < Count(m) => half' = {Joined(m, j)} /\ half' \subseteq PDUs /\ out' = out
       /\ j = Count(m) => half' = {} /\ \E r \in Received : /\ Got(r) = Sent(m)
                                                           /\ out' = Append(out, r)
  BY <1>2, <1>9, <1>11, Joins
<1>14. \A i : End(i)' = End(i)
  BY <1>2 DEF End
<1>15. SegmentsFit' /\ PlacesOK' /\ WireOK'
  BY <1>1, <1>2, <1>14 DEF SegmentsFit, PlacesOK, WireOK
<1>16. rcvd' \in 0 .. Len(wire')
  BY <1>2, <1>3
<1>17. CASE j < Count(m)
  <2>1. TypeOK'
    BY <1>1, <1>2, <1>13, <1>16, <1>17 DEF TypeOK
  <2>2. OutOK'
    BY <1>1, <1>2, <1>13, <1>17 DEF OutOK
  <2>3. /\ begins[k] <= rcvd' /\ rcvd' <= End(k) /\ rcvd' - begins[k] = j
        /\ rcvd' # begins[k]
    BY SMTT(20), <1>2, <1>3, <1>9, <1>11, Counted
  <2>4. Next1' = k /\ Len(out') = o
    BY <1>4, <1>6, <1>13, <1>17 DEF Next1
  <2>5. PeerOK'
    <3>1. given'[k] = m /\ begins'[k] = begins[k] /\ End(Next1)' = End(k)
      BY <1>2, <2>4 DEF m, End
    <3> QED
      BY <1>0, <1>2, <1>6, <1>13, <1>17, <2>3, <2>4, <3>1 DEF PeerOK
  <2>6. UNCHANGED C!cvars
    BY <1>2, <1>13, <1>17 DEF C!cvars
  <2> QED
    BY <1>15, <2>1, <2>2, <2>5, <2>6 DEF Inv
<1>18. CASE j = Count(m)
  <2>1. PICK r \in Received : Got(r) = Sent(m) /\ out' = Append(out, r)
    BY <1>13, <1>18
  <2>2. /\ out' \in Seq(Received) /\ Len(out') = o + 1 /\ out'[o + 1] = r
        /\ \A i \in 1 .. o : out'[i] = out[i]
    BY <1>3, <1>4, <2>1, Appended
  <2>3. TypeOK'
    BY <1>1, <1>2, <1>13, <1>16, <1>18, <2>2 DEF TypeOK
  <2>4. OutOK'
    <3> SUFFICES ASSUME NEW i \in 1 .. Len(out') PROVE Got(out'[i]) = Sent(given'[i])
      BY DEF OutOK
    <3>1. i \in 1 .. o \/ i = o + 1
      BY <2>2
    <3> QED
      BY <1>1, <1>2, <1>4, <1>6, <2>1, <2>2, <3>1 DEF OutOK, m
  <2>5. rcvd' = End(k) /\ End(k) - begins[k] = Count(m)
    <3>1. /\ rcvd \in Nat /\ rcvd + 1 = begins[k] + Count(m) /\ Count(m) <= End(k) - begins[k]
          /\ End(k) - begins[k] <= Count(m)
      BY <1>3, <1>8, <1>9, <1>18
    <3> QED
      BY <1>2, <1>11, <3>1, Last
  <2>6. PeerOK'
    <3>1. CASE k = n
      <4>1. End(k) = Len(wire)
        BY <1>0, <3>1 DEF End
      <4>2. Len(out') = n /\ rcvd' = Len(wire) /\ half' = {}
        BY <1>6, <1>13, <1>18, <2>2, <2>5, <3>1, <4>1
      <4>3. Len(wire) - begins[n] = Count(given[n])
        BY <2>5, <3>1, <4>1 DEF m
      <4> QED
        BY <1>0, <1>2, <4>2, <4>3 DEF PeerOK
    <3>2. CASE k < n
      <4>1. PICK i \in 1 .. n : i = k + 1
        BY <3>2
      <4>2. Len(out') = k /\ Next1' = i
        BY <1>6, <2>2, <4>1 DEF Next1
      <4>3. begins[i] = rcvd'
        BY <1>0, <2>5, <3>2, <4>1 DEF End
      <4>4. begins[i] <= End(i)
        BY <1>0, <1>1 DEF PlacesOK
      <4>5. /\ begins[i] <= rcvd' /\ rcvd' <= End(i) /\ rcvd' - begins[i] < Count(given[i])
        <5>1. Count(given[i]) \in Nat /\ Count(given[i]) >= 1 /\ begins[i] \in Nat
          BY <1>3
        <5> QED
          BY <4>3, <4>4, <5>1
      <4>6. given'[i] = given[i] /\ begins'[i] = begins[i] /\ End(Next1)' = End(i)
        BY <1>2, <4>2 DEF End
      <4> QED
        BY <1>0, <1>2, <1>13, <1>18, <3>2, <4>2, <4>3, <4>5, <4>6 DEF PeerOK
    <3> QED
      BY <3>1, <3>2
  <2>7. C!Next
    <3> DEFINE S == [i \in 1 .. Len(given) |-> Sent(given[i])]
               G == [i \in 1 .. Len(out) |-> Got(out[i])]
               H == [i \in 1 .. Len(out') |-> Got(out'[i])]
    <3>1. Len(S) = n /\ Len(G) = o
      BY <1>0, <1>4
    <3>2. S[o + 1] = Sent(m)
      BY <1>0, <1>6 DEF m
    <3>3. H = Append(G, S[Len(G) + 1])
      <4>1. G = [i \in 1 .. o |-> Got(out[i])] /\ H = [i \in 1 .. o + 1 |-> Got(out'[i])]
        BY <1>4, <2>2
      <4>2. Append(G, Sent(m)) = [i \in 1 .. o + 1 |-> IF i = o + 1 THEN Sent(m) ELSE G[i]]
        BY <3>1, <4>1
      <4>3. \A i \in 1 .. o + 1 : Got(out'[i]) = IF i = o + 1 THEN Sent(m) ELSE G[i]
        BY <2>1, <2>2, <4>1
      <4> HIDE DEF G, H
      <4> QED
        BY <3>1, <3>2, <4>1, <4>2, <4>3
    <3>4. Len(G) < Len(S)
      BY <1>6, <3>1
    <3>5. C!Deliver
      BY <1>2, <3>3, <3>4 DEF C!Deliver
    <3> QED
      BY <1>2, <3>5 DEF C!Next
  <2> QED
    BY <1>13, <1>15, <1>18, <2>3, <2>4, <2>6, <2>7 DEF Inv
<1> QED
  BY <1>11, <1>17, <1>18

LEMMA NextInv == ASSUME Inv, [Next]_vars PROVE Inv'
<1>1. CASE UNCHANGED vars
  BY <1>1 DEF vars, Inv, TypeOK, SegmentsFit, PlacesOK, WireOK, PeerOK, OutOK, End, Next1
<1> QED
  BY <1>1, SendInv, SegmentInv, RemainderInv, ReturnInv, LoseInv, ReceiveInv DEF Next, Call

LEMMA Invariance == Spec => []Inv
<1>1. Inv /\ [Next]_vars => Inv'
  BY NextInv
<1> QED
  BY <1>1, InitInv, PTL DEF Spec, Safety

-----------------------------------------------------------------------------
(* What follows from it.                                                   *)

LEMMA InvNothingHalf == Inv => NothingHalf
<1> SUFFICES ASSUME Inv, est, cur = None, rcvd = Len(wire)
             PROVE  half = {} /\ Len(out) = Len(given)
  BY DEF NothingHalf
<1>1. TypeOK /\ PlacesOK /\ PeerOK
  BY DEF Inv
<1>2. Len(out) = Len(given)
  <2> SUFFICES ASSUME Len(out) # Len(given) PROVE FALSE
    OBVIOUS
  <2>1. Len(out) < Len(given)
    BY <1>1, Facts DEF PeerOK
  <2>2. PICK k \in 1 .. Len(given) : k = Next1
    BY <1>1, <2>1, Facts DEF Next1
  <2>3. begins[k] <= rcvd /\ rcvd - begins[k] < Count(given[k])
    BY <1>1, <2>1, <2>2 DEF PeerOK
  <2>4. End(k) - begins[k] = Count(given[k]) /\ End(k) <= Len(wire)
    BY <1>1 DEF PlacesOK
  <2>5. /\ begins[k] \in Nat /\ End(k) \in Nat /\ Count(given[k]) \in Nat /\ rcvd \in Nat
        /\ Len(wire) \in Nat
    BY <1>1, Facts
  <2> QED
    BY <2>3, <2>4, <2>5
<1> QED
  BY <1>1, <1>2 DEF PeerOK

LEMMA InvOneAtATime == Inv => OneAtATime
<1> SUFFICES ASSUME Inv PROVE OneAtATime
  OBVIOUS
<1>1. \A g, h \in half : g = h
  BY Facts DEF Inv, PeerOK
<1>2. ASSUME rcvd < Len(wire) PROVE wire[rcvd + 1].tag = "PART" <=> half # {}
  <2>1. PICK k \in 1 .. Len(given) : \E j \in 1 .. Count(given[k]) :
          /\ wire[rcvd + 1] = Piece(given[k], j)
          /\ half = IF j = 1 THEN {} ELSE {Joined(given[k], j - 1)}
    BY <1>2, Coming
  <2>2. PICK j \in 1 .. Count(given[k]) :
          /\ wire[rcvd + 1] = Piece(given[k], j)
          /\ half = IF j = 1 THEN {} ELSE {Joined(given[k], j - 1)}
    BY <2>1
  <2>3. given[k] \in Messages /\ Count(given[k]) \in Nat
    BY Facts DEF Inv
  <2>4. Piece(given[k], j).tag = "PART" <=> j > 1
    BY <2>3, PieceOK
  <2> QED
    BY <2>2, <2>3, <2>4
<1> QED
  BY <1>1, <1>2 DEF OneAtATime

\* The types hold, and a call that is not over is in its loop.
THEOREM SegmentsTypes == Spec => []TypeOK
BY Invariance, PTL DEF Inv

\* Whatever the payload and the bytes that its fields take, if what is reserved is
\* enough for them: no PDU with all its fields is over the peer's limit, a UNI in
\* one piece by its DNE at the most, and no part is empty.
THEOREM EverySegmentFits == Spec => []SegmentsFit
BY Invariance, PTL DEF Inv

\* A send that is over, on a connection that is up, has sent the last segment and
\* has said that it is.
THEOREM NothingHalfSaid == Spec => []NothingHalf
BY Invariance, InvNothingHalf, PTL

\* The segments of two messages are never mixed, and none is without a message.
THEOREM OneMessageAtATime == Spec => []OneAtATime
BY Invariance, InvOneAtATime, PTL

-----------------------------------------------------------------------------
(* The segments implement the channel, but for liveness, which TLC checks. *)

LEMMA ChannelInit == Init => C!Init
BY DEF Init, C!Init

\* The messages given, as the channel sees them.
Given == [k \in 1 .. Len(given) |-> Sent(given[k])]

LEMMA ChannelStep == ASSUME Inv, [Next]_vars PROVE [C!Next]_C!cvars
<1>1. ASSUME NEW m \in Messages, Send(m) PROVE C!Next
  <2>1. given \in Seq(Messages) /\ Len(given) \in Nat
    BY Facts DEF Inv
  <2>2. given' = Append(given, m) /\ UNCHANGED out /\ est' \in {est, FALSE}
    BY <1>1 DEF Send, Put
  <2>3. PICK n \in Nat : n = Len(given)
    BY <2>1
  <2>4. /\ Len(given') = n + 1 /\ given'[n + 1] = m
        /\ \A k \in 1 .. n : given'[k] = given[k]
    BY <2>1, <2>2, <2>3, Appended
  <2>5. Given' = Append(Given, Sent(m))
    <3>1. Given = [k \in 1 .. n |-> Sent(given[k])] /\ Given' = [k \in 1 .. n + 1 |-> Sent(given'[k])]
      BY <2>3, <2>4 DEF Given
    <3>2. Append(Given, Sent(m)) = [k \in 1 .. n + 1 |-> IF k = n + 1 THEN Sent(m) ELSE Given[k]]
      BY <3>1
    <3>3. \A k \in 1 .. n + 1 : Sent(given'[k]) = IF k = n + 1 THEN Sent(m) ELSE Given[k]
      BY <2>3, <2>4, <3>1
    <3> HIDE DEF Given
    <3> QED
      BY <3>1, <3>2, <3>3
  <2>6. C!Give
    BY <2>2, <2>5 DEF C!Give, Given
  <2> QED
    BY <2>2, <2>6 DEF C!Next
<1>2. ASSUME Call PROVE C!Next
  BY <1>2 DEF Call, Segment, Remainder, Return, Put, C!Next
<1>3. ASSUME Lose PROVE C!Next
  BY <1>3 DEF Lose, C!Next
<1>4. ASSUME Receive PROVE [C!Next]_C!cvars
  BY <1>4, ReceiveInv
<1>5. ASSUME UNCHANGED vars PROVE C!Next
  BY <1>5 DEF vars, C!Next
<1> QED
  BY <1>1, <1>2, <1>3, <1>4, <1>5 DEF Next

\* What is cut up and joined again comes out as the channel hands it over, for
\* any segment length and any messages: every step is a step of the channel.
THEOREM SegmentsImplementChannel == Spec => ChannelSafety
<1>1. Inv /\ [Next]_vars => [C!Next]_C!cvars
  BY ChannelStep
<1> QED
  BY <1>1, ChannelInit, Invariance, PTL DEF Spec, Safety, ChannelSafety, C!Safety
=============================================================================
