------------------------------ MODULE Segments ------------------------------
(***************************************************************************)
(* Messages that may be longer than a PDU (StmpNet::sendContinue, sendEnd, *)
(* sendUni and encode* in stmp/StmpNet.cpp).  A payload over SegLen is cut *)
(* into segments: the first goes in a PDU of the message's own kind, which *)
(* says that a part follows, the others in PDUs PART that carry the        *)
(* transaction's id, and the last of them does not say so.                 *)
(*                                                                         *)
(* A send may find the connection broken; the rest is then not sent.  The  *)
(* call runs on the worker of the connection, so nothing else is sent and  *)
(* no event of the connection is handled in between.  The peer, which puts *)
(* the parts together again by their id, is external: evnPart of the       *)
(* library is a stub.  A PDU is a frame, which Framing brings across.      *)
(***************************************************************************)
EXTENDS Integers, Sequences

CONSTANTS
  SegLen,       \* peer_mtu - STMP_PDU_RESERVED
  Reserved,     \* STMP_PDU_RESERVED
  Extra,        \* what encodeUni adds to it
  Cost,         \* the bytes of each field, without the payload itself
  Data,         \* the payload's bytes
  Tids,         \* ids of transactions
  Rets,         \* what an END returns
  RET_SUCCESS,
  Sids,         \* ids of subscriptions
  Messages,     \* what is sent
  MaxMessages,  \* bound on the messages sent
  None          \* a field, or a message, that is not there

Kinds == {"CONTINUE", "END", "UNI"}

\* A message as the caller gives it: an END may have no payload (end == NULL),
\* an END and a UNI may belong to a subscription.
Message == [kind : Kinds, tid : Tids, ret : Rets, sid : Sids \cup {None},
            dat : Seq(Data) \cup {None}]

WellFormed(m) == /\ m.dat = None => m.kind = "END"
                 /\ m.kind # "END" => m.ret = RET_SUCCESS
                 /\ m.kind = "CONTINUE" => m.sid = None

Fields == {"tag", "id", "next", "ret", "sid", "dne", "dat"}

\* The buffers that encode* allocate hold what they write.
Roomy == /\ Reserved \in Nat /\ Extra \in Nat /\ Cost \in [Fields -> Nat]
         /\ Cost["tag"] + Cost["id"] + Cost["next"] + Cost["ret"] + Cost["sid"] + Cost["dat"]
              <= Reserved
         /\ Cost["dne"] <= Extra

ASSUME SegmentsAssumption ==
  /\ SegLen \in Nat /\ SegLen > 0
  /\ Roomy
  /\ None \notin Seq(Data) /\ None \notin Message /\ None \notin Rets
  /\ None \notin {"DTID", "STID"} \X Tids
  /\ RET_SUCCESS \in Rets
  /\ \A m \in Messages : m \in Message /\ WellFormed(m)
  /\ MaxMessages \in Nat

VARIABLES
  given,   \* the messages given to a send
  cur,     \* the message in a send that is not over, None if there is none
  seg,       \* the loop's counter
  est,     \* ActorNet::est
  wire,    \* the PDUs handed to TCP
  begins,  \* how many of them were sent before each message of given
  rcvd,    \* how many of them the peer has got
  half,    \* the messages of which the peer has a part: their first PDUs, with
           \* what has come of the payload
  out      \* the messages the peer has whole

vars == <<given, cur, seg, est, wire, begins, rcvd, half, out>>

Init == /\ given = <<>> /\ cur = None /\ seg = 0 /\ est = TRUE
        /\ wire = <<>> /\ begins = <<>> /\ rcvd = 0 /\ half = {} /\ out = <<>>

-----------------------------------------------------------------------------
(* The PDUs.  encode* write them back to front; what is read is this.      *)

DTID(n) == <<"DTID", n>>
STID(n) == <<"STID", n>>

Ids == {None} \cup ({"DTID", "STID"} \X Tids)

PDUs == [tag : Kinds \cup {"PART"}, id : Ids, next : BOOLEAN, ret : Rets \cup {None},
         sid : Sids \cup {None}, dne : BOOLEAN, dat : Seq(Data) \cup {None}]

PDU(tag, id, next, ret, sid, dat) ==
  [tag |-> tag, id |-> id, next |-> next, ret |-> ret, sid |-> sid, dne |-> FALSE, dat |-> dat]

encodeContinue(tid, dat) == PDU("CONTINUE", DTID(tid), FALSE, None, None, dat)

encodeContinueWithPart(tid, dat) == PDU("CONTINUE", DTID(tid), TRUE, None, None, dat)

\* No news is good news: a success is not written.
encodeEnd(tid, ret, dat, sid) ==
  PDU("END", DTID(tid), FALSE, IF ret = RET_SUCCESS THEN None ELSE ret, sid, dat)

\* Mutant: the same as encodeContinueWithPart.
encodeEndAsContinue(tid, ret, sid, dat) == PDU("CONTINUE", DTID(tid), TRUE, ret, sid, dat)

encodeEndWithPart(tid, ret, sid, dat) == PDU("END", DTID(tid), TRUE, ret, sid, dat)

\* With a name of its own, a fresh DNE, that no other PDU has.
encodeUni(sid, dat) == [PDU("UNI", None, FALSE, None, sid, dat) EXCEPT !.dne = TRUE]

\* The tag is that of an END.
encodeUniWithPart(tid, sid, dat) == PDU("END", STID(tid), TRUE, None, sid, dat)

encodePart(id, dat, haveNext) == PDU("PART", id, haveNext, None, None, dat)

\* The whole of a short message in one PDU.
Whole(m) == CASE m.kind = "CONTINUE" -> encodeContinue(m.tid, m.dat)
              [] m.kind = "END"      -> encodeEnd(m.tid, m.ret, m.dat, m.sid)
              [] m.kind = "UNI"      -> encodeUni(m.sid, m.dat)

\* The first segment of a long one.
First(m) ==
  LET dat == SubSeq(m.dat, 1, SegLen) IN
    CASE m.kind = "CONTINUE" -> encodeContinueWithPart(m.tid, dat)
      [] m.kind = "END"      -> encodeEndWithPart(m.tid, m.ret, m.sid, dat)
      [] m.kind = "UNI"      -> encodeUniWithPart(m.tid, m.sid, dat)

\* The other segments.
Part(m, ofst, len, haveNext) ==
  encodePart(IF m.kind = "UNI" THEN STID(m.tid) ELSE DTID(m.tid),
             SubSeq(m.dat, ofst + 1, ofst + len), haveNext)

-----------------------------------------------------------------------------
(* sendContinue, sendEnd and sendUni.                                      *)

Segs(m) == Len(m.dat) \div SegLen
Remain(m) == Len(m.dat) % SegLen

\* Mutant: the peer's limit is taken for the length of a segment.
ShortLoose(m) == m.dat # None => Len(m.dat) <= SegLen + Reserved

Short(m) == m.dat # None => Len(m.dat) <= SegLen

\* this->send: a connection that is gone, or found broken, takes nothing.
Put(p) == \/ est /\ wire' = Append(wire, p) /\ UNCHANGED est
          \/ est' = FALSE /\ UNCHANGED wire

\* Mutant: the loop starts from 0, where the first segment is.
SendAgain(m) ==
  /\ cur = None /\ Len(given) < MaxMessages
  /\ given' = Append(given, m) /\ begins' = Append(begins, Len(wire))
  /\ IF Short(m) THEN Put(Whole(m)) /\ UNCHANGED <<cur, seg>>
                 ELSE Put(First(m)) /\ cur' = m /\ seg' = 0
  /\ UNCHANGED <<rcvd, half, out>>

Send(m) ==
  /\ cur = None /\ Len(given) < MaxMessages
  /\ given' = Append(given, m) /\ begins' = Append(begins, Len(wire))
  /\ IF Short(m) THEN Put(Whole(m)) /\ UNCHANGED <<cur, seg>>
                 ELSE Put(First(m)) /\ cur' = m /\ seg' = 1
  /\ UNCHANGED <<rcvd, half, out>>

\* Mutant: the last segment of the loop says that nothing follows, whatever is
\* left.
HaveNextInLoop(m, k) == k # Segs(m) - 1

HaveNext(m, k) == Remain(m) # 0 \/ k # Segs(m) - 1

Segment ==
  /\ cur # None /\ seg < Segs(cur) /\ est
  /\ Put(Part(cur, seg * SegLen, SegLen, HaveNext(cur, seg)))
  /\ seg' = seg + 1
  /\ UNCHANGED <<given, cur, begins, rcvd, half, out>>

Remainder ==
  /\ cur # None /\ seg >= Segs(cur) /\ Remain(cur) > 0 /\ est
  /\ Put(Part(cur, Segs(cur) * SegLen, Remain(cur), FALSE))
  /\ cur' = None
  /\ UNCHANGED <<given, seg, begins, rcvd, half, out>>

\* Mutant: a send gives up where a segment is to follow.
ReturnEarly ==
  /\ cur # None
  /\ cur' = None
  /\ UNCHANGED <<given, seg, est, wire, begins, rcvd, half, out>>

Return ==
  /\ cur # None
  /\ est => seg >= Segs(cur) /\ Remain(cur) = 0
  /\ cur' = None
  /\ UNCHANGED <<given, seg, est, wire, begins, rcvd, half, out>>

\* An event of the connection, which the worker handles between two calls.
Lose ==
  /\ cur = None /\ est
  /\ est' = FALSE
  /\ UNCHANGED <<given, cur, seg, wire, begins, rcvd, half, out>>

-----------------------------------------------------------------------------
(* The peer.                                                               *)

Received == [kind : Kinds, id : Ids, ret : Rets, sid : Sids \cup {None},
             dat : Seq(Data) \cup {None}]

\* A PDU, or the parts joined, read as a message.
Decode(p) == [kind |-> p.tag, id |-> p.id, ret |-> IF p.ret = None THEN RET_SUCCESS ELSE p.ret,
              sid |-> p.sid, dat |-> p.dat]

\* What is known of p's message is complete, or is kept.
Take(rest, p) ==
  IF p.next THEN half' = rest \cup {p} /\ UNCHANGED out
            ELSE half' = rest /\ out' = Append(out, Decode(p))

Begins(p) == p.tag # "PART" /\ Take(half, p)

\* The PDU h with another payload.
With(h, dat, next) == PDU(h.tag, h.id, next, h.ret, h.sid, dat)

Continues(p) ==
  /\ p.tag = "PART"
  /\ \E h \in half : h.id = p.id /\ Take(half \ {h}, With(h, h.dat \o p.dat, p.next))

\* A part of nothing is of no use.
Stray(p) == /\ p.tag = "PART" /\ \A h \in half : h.id # p.id
            /\ UNCHANGED <<half, out>>

Receive ==
  /\ rcvd < Len(wire)
  /\ rcvd' = rcvd + 1
  /\ LET p == wire[rcvd + 1] IN Begins(p) \/ Continues(p) \/ Stray(p)
  /\ UNCHANGED <<given, cur, seg, est, wire, begins>>

-----------------------------------------------------------------------------
Call == Segment \/ Remainder \/ Return

Next == (\E m \in Messages : Send(m)) \/ Call \/ Lose \/ Receive

Safety == Init /\ [][Next]_vars

\* A call of the worker comes to its end, and TCP and the peer take what is
\* sent; nobody has to send.
Spec == Safety /\ WF_vars(Call) /\ WF_vars(Receive)

-----------------------------------------------------------------------------
(* Properties.                                                             *)

\* The types; a call that is not over is that of the last message, and at least
\* the first segment has been sent for it.
TypeOK ==
  /\ given \in Seq(Messages) /\ Len(given) <= MaxMessages
  /\ begins \in Seq(Nat) /\ Len(begins) = Len(given)
  /\ cur # None => /\ given # <<>> /\ cur = given[Len(given)] /\ ~Short(cur)
                   /\ seg \in 1 .. Segs(cur)
  /\ seg \in Nat /\ est \in BOOLEAN
  /\ wire \in Seq(PDUs) /\ rcvd \in 0 .. Len(wire)
  /\ half \subseteq PDUs /\ out \in Seq(Received)

\* The bytes of a PDU.
Size(p) ==
  Cost["tag"] + (IF p.id = None THEN 0 ELSE Cost["id"])
    + (IF p.next THEN Cost["next"] ELSE 0) + (IF p.ret = None THEN 0 ELSE Cost["ret"])
    + (IF p.sid = None THEN 0 ELSE Cost["sid"]) + (IF p.dne THEN Cost["dne"] ELSE 0)
    + (IF p.dat = None THEN 0 ELSE Cost["dat"] + Len(p.dat))

\* The peer's limit is one for all PDUs (StmpNet.cpp:78).  A UNI in one piece is
\* cut for it like the others (:224) but has a DNE besides, for which encodeUni
\* makes room in the buffer and nobody makes room under the limit (:367, 376).
Limit(p) == SegLen + Reserved + (IF p.tag = "UNI" THEN Extra ELSE 0)

\* With all its fields, no PDU is over the limit the peer reads, but for a UNI in
\* one piece, which may be over by its DNE; and no part is empty
\* (StmpNet.cpp:118-119, 142, 150).
SegmentsFit ==
  \A k \in 1 .. Len(wire) :
    LET p == wire[k] IN
      /\ Size(p) <= Limit(p)
      /\ p.tag = "PART" => Len(p.dat) > 0

\* While the connection is up, a send that is over has left nothing half said:
\* the peer waits for no part that is not on its way (StmpNet.cpp:134-157).
NothingHalf == est /\ cur = None /\ rcvd = Len(wire) => half = {} /\ Len(out) = Len(given)

\* The peer never has parts of two messages, nor a part of none.
OneAtATime ==
  /\ \A g, h \in half : g = h
  /\ rcvd < Len(wire) => (wire[rcvd + 1].tag = "PART" <=> half # {})

\* A UNI arrives as a UNI (StmpNet.cpp:217).
UniArrivesAsUni ==
  \A k \in 1 .. Len(out) : given[k].kind = "UNI" => out[k].kind = "UNI"

\* What the two ends have to agree on: all of the message, but for the kind and
\* the id of a UNI, which its PDUs do not carry alike.
Side(kind, tid) == IF kind = "UNI" THEN None ELSE <<kind, DTID(tid)>>
Sent(m) == [to |-> Side(m.kind, m.tid), ret |-> m.ret, sid |-> m.sid, dat |-> m.dat]
Got(m) ==
  [to |-> IF m.id = None \/ m.id[1] = "STID" THEN None ELSE <<m.kind, m.id>>,
   ret |-> m.ret, sid |-> m.sid, dat |-> m.dat]

\* The messages come out as they were given: the payload whole, with its
\* transaction, result and subscription.
C == INSTANCE Channel WITH Held <- {}, Messages <- {Sent(m) : m \in Messages},
       given <- [k \in 1 .. Len(given) |-> Sent(given[k])],
       out <- [k \in 1 .. Len(out) |-> Got(out[k])], open <- est
ChannelSpec == C!Spec
ChannelSafety == C!Safety
=============================================================================
