------------------------------ MODULE Framing ------------------------------
(***************************************************************************)
(* The receive buffer of one connection and the frames found in it         *)
(* (StmpNet::evnRead in stmp/StmpNet.cpp, and the read loop of             *)
(* Fworker::evnRecv).  TCP hands over the bytes in order but cut anywhere; *)
(* recv adds what has come to rbuf as far as there is room, evnRead takes  *)
(* every whole frame from its front, and what is left is moved to the      *)
(* front for the next recv.                                                *)
(*                                                                         *)
(* A frame is a byte PING or PONG, or a tag, a length and a value.  The    *)
(* length is one byte, or the mark 0xFE and two bytes, the high one first; *)
(* the mark 0xFF is refused.  Base is 256 in the code.  A callback that    *)
(* closes the connection and lets evnRead go on is N2H's subject.  That    *)
(* readable data may be passed over once writability has been asked for is *)
(* ActorNet's; here it is a reason for the worker to owe nothing.          *)
(***************************************************************************)
EXTENDS Naturals, Sequences

CONSTANTS
  Base,       \* number of byte values
  Pings,      \* the tags PING and PONG
  Mtu,        \* Fsc::peer_mtu, the size of rbuf
  Frames,     \* what the peer sends
  Spoiled,    \* frames that stmpdec_unpack does not accept
  Declined,   \* frames that evnMsg answers with false
  MaxFrames   \* bound on the frames sent

Byte == 0 .. Base - 1
Two == Base - 2     \* the mark 0xFE: two bytes of length follow
More == Base - 1    \* the mark 0xFF: more than two

\* The frames of a peer that keeps the format.  The value may be empty.
Short(f) == Len(f) > 1 /\ f[2] < Two /\ Len(f) = 2 + f[2]
Long(f)  == Len(f) > 3 /\ f[2] = Two /\ Len(f) = 4 + f[3] * Base + f[4]
Huge(f)  == Len(f) > 2 /\ f[2] = More
Encoded(f) == IF f[1] \in Pings THEN Len(f) = 1 ELSE Short(f) \/ Long(f) \/ Huge(f)

ASSUME FramingAssumption ==
  /\ Base \in Nat /\ Base > 2
  /\ Pings \subseteq Byte
  /\ Mtu \in Nat /\ Mtu > 3
  /\ \A f \in Frames : f \in Seq(Byte) /\ f # <<>> /\ Encoded(f)
  /\ MaxFrames \in Nat

VARIABLES
  sent,     \* the frames the peer has sent, each with its place in the stream
  stream,   \* all the bytes of them
  shut,     \* the peer has closed its side
  wevn,     \* a send had to wait, and writability has been asked for
  read,     \* how many bytes recv has taken
  rbuf,     \* the first dlen bytes of the buffer
  at,       \* how far evnRead has come in it: dat - rbuf
  pc,       \* recv, parse or closed
  got       \* the frames evnMsg has been called with

envVars == <<sent, stream, shut, wevn>>
vars == <<envVars, read, rbuf, at, pc, got>>

Init == /\ sent = <<>> /\ stream = <<>> /\ shut = FALSE /\ wevn = FALSE
        /\ read = 0 /\ rbuf = <<>> /\ at = 0 /\ pc = "recv" /\ got = <<>>

-----------------------------------------------------------------------------
(* The peer, and the send side.                                            *)

PeerSend(f) ==
  /\ ~shut /\ Len(sent) < MaxFrames
  /\ sent' = Append(sent, [at |-> Len(stream), dat |-> f])
  /\ stream' = stream \o f
  /\ UNCHANGED <<shut, wevn, read, rbuf, at, pc, got>>

PeerShut ==
  /\ ~shut
  /\ shut' = TRUE
  /\ UNCHANGED <<sent, stream, wevn, read, rbuf, at, pc, got>>

\* ActorNet::sendBuf, in a callback or anywhere else on the worker.
AskWrite ==
  /\ ~wevn
  /\ wevn' = TRUE
  /\ UNCHANGED <<sent, stream, shut, read, rbuf, at, pc, got>>

-----------------------------------------------------------------------------
(* Fworker::evnRecv.                                                       *)

\* Mutant: dlen is not taken off.
RoomWhole == Mtu

Room == Mtu - Len(rbuf)

\* recv(rbuf + dlen, peer_mtu - dlen) finds something; evnRead is called.
Recv(n) ==
  /\ pc = "recv" /\ n > 0 /\ n <= Room /\ read + n <= Len(stream)
  /\ rbuf' = rbuf \o SubSeq(stream, read + 1, read + n)
  /\ read' = read + n
  /\ at' = 0
  /\ pc' = "parse"
  /\ UNCHANGED <<envVars, got>>

\* recv returns 0, at the end of the stream and also when it is asked for
\* nothing: the connection is closed.
RecvZero ==
  /\ pc = "recv"
  /\ Room = 0 \/ (shut /\ read = Len(stream))
  /\ pc' = "closed"
  /\ UNCHANGED <<envVars, read, rbuf, at, got>>

-----------------------------------------------------------------------------
(* StmpNet::evnRead.  Dat(i) is dat[i]; Left is len.                       *)

Left == Len(rbuf) - at
Dat(i) == rbuf[at + i + 1]

\* The bytes of the length field, mark included.
LenSize == IF Dat(1) = Two THEN 3 ELSE 1

\* Mutant: the mark is not counted.
SizeUnmarked == IF Dat(1) < Two THEN 2 + Dat(1) ELSE LenSize + (Dat(2) * Base + Dat(3))

Size == IF Dat(1) < Two THEN 2 + Dat(1) ELSE 1 + LenSize + (Dat(2) * Base + Dat(3))

\* The length field is there.
Header == Left >= 3 /\ (Dat(1) = More \/ Left >= 1 + LenSize)

\* Mutant: a frame of exactly the limit is refused.
TooLongAtLimit == Dat(1) = More \/ Size >= Mtu

TooLong == Dat(1) = More \/ Size > Mtu

Parsing == pc = "parse" /\ Left > 0
PingPong == Dat(0) \in Pings

\* Mutant: one frame for each call of evnRead.
DispatchOnce(n) ==
  LET f == SubSeq(rbuf, at + 1, at + n) IN
    /\ got' = Append(got, f)
    /\ rbuf' = SubSeq(rbuf, at + n + 1, Len(rbuf)) /\ at' = 0
    /\ pc' = IF f \in Declined THEN "closed" ELSE "recv"
    /\ UNCHANGED <<envVars, read>>

\* evnMsg is called with the next n bytes, and evnRead goes on after them or,
\* if it says no, returns false.
Dispatch(n) ==
  LET f == SubSeq(rbuf, at + 1, at + n) IN
    /\ got' = Append(got, f)
    /\ IF f \in Declined THEN pc' = "closed" /\ UNCHANGED at
                         ELSE at' = at + n /\ UNCHANGED pc
    /\ UNCHANGED <<envVars, read, rbuf>>

Ping == Parsing /\ PingPong /\ Dispatch(1)

Whole == Header /\ ~TooLong /\ Left >= Size

Message ==
  /\ Parsing /\ ~PingPong /\ Whole
  /\ SubSeq(rbuf, at + 1, at + Size) \notin Spoiled
  /\ Dispatch(Size)

\* A frame that cannot be read, or one over the limit.
Refuse ==
  /\ Parsing /\ ~PingPong /\ Header
  /\ ~TooLong => Left >= Size /\ SubSeq(rbuf, at + 1, at + Size) \in Spoiled
  /\ pc' = "closed"
  /\ UNCHANGED <<envVars, read, rbuf, at, got>>

\* Mutant: nothing is moved when everything has been taken.
RestKept == IF Left = 0 THEN rbuf ELSE SubSeq(rbuf, at + 1, Len(rbuf))

\* Mutant: every evnRead starts with an empty buffer.
RestDropped == <<>>

\* What is moved to the front of rbuf; dlen is its length.
Rest == SubSeq(rbuf, at + 1, Len(rbuf))

\* The loop ends: everything is taken, or the rest is not a whole frame yet.
Compact ==
  /\ pc = "parse"
  /\ Left > 0 => ~PingPong /\ (Header => ~TooLong /\ Left < Size)
  /\ rbuf' = Rest
  /\ at' = 0
  /\ pc' = "recv"
  /\ UNCHANGED <<envVars, read, got>>

-----------------------------------------------------------------------------
Worker == \/ \E n \in 1 .. Mtu : Recv(n)
          \/ RecvZero \/ Ping \/ Message \/ Refuse \/ Compact

Next == Worker \/ (\E f \in Frames : PeerSend(f)) \/ PeerShut \/ AskWrite

Safety == Init /\ [][Next]_vars

\* The worker reads what has come as long as writability has not been asked for
\* (Fworker.cpp:54-58); nobody has to send or to close.
Spec == Safety /\ WF_vars(~wevn /\ Worker)

-----------------------------------------------------------------------------
(* Properties.                                                             *)

\* The types; between two calls of evnRead nothing has been parsed.
TypeOK ==
  /\ sent \in Seq([at : Nat, dat : Frames])
  /\ stream \in Seq(Byte) /\ {shut, wevn} \subseteq BOOLEAN
  /\ read \in 0 .. Len(stream)
  /\ rbuf \in Seq(Byte) /\ Len(rbuf) <= Mtu /\ Len(rbuf) <= read
  /\ at \in 0 .. Len(rbuf) /\ (pc = "recv" => at = 0)
  /\ pc \in {"recv", "parse", "closed"}
  /\ got \in Seq(Seq(Byte))

\* Where in the stream the frame after the first k begins.
Begin(k) == IF k < Len(sent) THEN sent[k + 1].at ELSE Len(stream)

\* However the stream was cut, evnRead is at the beginning of a frame, the one
\* after those it has dispatched, and the buffer holds the bytes the peer sent
\* there: no length field and no compaction shifts it (StmpNet.cpp:65-76,
\* 101-110).
InSync ==
  pc # "closed" =>
    /\ read - Len(rbuf) + at = Begin(Len(got))
    /\ \A i \in 1 .. Len(rbuf) : rbuf[i] = stream[read - Len(rbuf) + i]

\* There is room whenever recv is called; without, a connection that works
\* would be taken for closed (Fworker.cpp:145-148, StmpNet.cpp:58-83).
RoomLeft == pc = "recv" => Room > 0

\* evnRead leaves nothing whole behind: what waits in rbuf for the next recv is
\* less than a frame, so that no frame is held up until the peer sends more
\* (StmpNet.cpp:26, 66, 83).  A frame of two bytes, a tag and the length 0, is
\* the exception: less than three bytes are too short for evnRead (:58), and
\* the frame waits for whatever comes behind it.
NothingWholeWaits ==
  pc = "recv" /\ Len(got) < Len(sent) =>
    LET f == sent[Len(got) + 1].dat IN Len(rbuf) < Len(f) \/ (Len(rbuf) = 2 /\ Len(f) = 2)

\* evnMsg gets the frames the peer sent, each once and in order.
FramesInOrder ==
  /\ Len(got) <= Len(sent)
  /\ \A i \in 1 .. Len(got) : got[i] = sent[i].dat

\* A frame the peer must not have sent: over the limit, or not to be read.
Bad(f) == ~(f[1] \in Pings) /\ (Huge(f) \/ Len(f) > Mtu \/ f \in Spoiled)

\* All the frames sent have been dispatched, but for a last one of two bytes.
Heard == \/ Len(got) = Len(sent)
         \/ Len(got) + 1 = Len(sent) /\ Len(sent[Len(sent)].dat) = 2

\* A connection is given up only for the peer's doing: it closed it, evnMsg
\* said no to the last frame, or the next one is over the limit or cannot be
\* read; a frame of exactly the limit is taken (StmpNet.cpp:60, 78, 86, 94).
ClosedForCause ==
  pc = "closed" =>
    \/ shut /\ Heard
    \/ got # <<>> /\ got[Len(got)] \in Declined
    \/ Len(got) < Len(sent) /\ Bad(sent[Len(got) + 1].dat)

\* The frames that are held up when nothing follows them.
Bare == {f \in Frames : Len(f) = 2}

\* Each frame of the peer comes out once and in order, and all of them do in the
\* end, but for a last frame of two bytes, unless the connection is closed or
\* writability has been asked for.
C == INSTANCE Channel WITH Messages <- Frames, Held <- Bare,
       given <- [i \in 1 .. Len(sent) |-> sent[i].dat],
       out <- got, open <- pc # "closed" /\ ~wevn
ChannelSpec == C!Spec
ChannelSafety == C!Safety
=============================================================================
