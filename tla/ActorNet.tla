------------------------------ MODULE ActorNet ------------------------------
(***************************************************************************)
(* The bytes of one connection (actor/ActorNet.cpp, and the part of        *)
(* core/Fworker.cpp that brings it its events).  A message goes straight   *)
(* to the socket while wbuf is empty; what the socket does not take waits  *)
(* in wbuf, and from the first time on the worker is told of writability   *)
(* as well as readability, by one edge triggered event for both.           *)
(*                                                                         *)
(* Everything of the connection runs on its worker.  The peer drains the   *)
(* socket's buffer, sends and resets at any time.  The bytes of a message  *)
(* are numbers; what the peer sends is counted only.                       *)
(***************************************************************************)
EXTENDS Naturals, Sequences, SequencesExt

CONSTANTS
  Sizes,       \* lengths of the messages the application sends
  SndBuf,      \* capacity of the socket's send buffer
  MaxGiven,    \* bound on the bytes sent
  MaxRcv       \* bound on what the peer sends

ASSUME ActorNetAssumption ==
  /\ Sizes \subseteq Nat \ {0}
  /\ {SndBuf, MaxGiven, MaxRcv} \subseteq Nat \ {0}

VARIABLES
  given,    \* bytes given to send so far
  wbuf,     \* the messages, or ends of messages, that wait: dat from pos on
  wevn,     \* writability is registered
  est,      \* the connection is up
  errno,    \* of the worker's thread: "again", or something else
  tcp,      \* the socket's send buffer
  nospace,  \* the socket has refused bytes and owes an event when it has room
  rcv,      \* what waits in the receive buffer
  arrived,  \* what the peer has sent so far
  broken,   \* the peer has reset the connection
  ready,    \* the socket is on epoll's ready list
  out,      \* what the peer has received
  pc,       \* idle, event, recv, callback or write
  mask      \* what epoll_wait reported

sendVars == <<given, wbuf, wevn, tcp, nospace>>
peerVars == <<rcv, arrived, broken, out>>
loopVars == <<pc, mask>>
vars     == <<sendVars, peerVars, loopVars, est, errno, ready>>

Init ==
  /\ given = 0 /\ wbuf = <<>> /\ wevn = FALSE /\ est = TRUE
  /\ errno \in {"again", "other"}
  /\ tcp = <<>> /\ nospace = FALSE
  /\ rcv = 0 /\ arrived = 0 /\ broken = FALSE /\ out = <<>>
  /\ ready = FALSE /\ pc = "idle" /\ mask = {}

Room == SndBuf - Len(tcp)
Readable == rcv > 0 \/ broken
Writable == Room > 0 \/ broken

-----------------------------------------------------------------------------
(* ::send, with MSG_DONTWAIT: it takes what there is room for.  Only a call*)
(* that takes nothing sets errno; one that takes a part leaves the errno   *)
(* of an earlier call, which the code then reads.                          *)

Takes(dat) == IF Room < Len(dat) THEN Room ELSE Len(dat)
ErrnoAfter(dat) == CASE broken -> "other" [] ~broken /\ Takes(dat) = 0 -> "again" [] OTHER -> errno

SysSend(dat) ==
  /\ tcp' = IF broken THEN tcp ELSE tcp \o SubSeq(dat, 1, Takes(dat))
  /\ nospace' = (nospace \/ (~broken /\ Takes(dat) < Len(dat)))
  /\ errno' = ErrnoAfter(dat)

TakesAll(dat) == ~broken /\ Takes(dat) = Len(dat)
MustWait(dat) == ~TakesAll(dat) /\ ErrnoAfter(dat) = "again"
MustClose(dat) == ~TakesAll(dat) /\ ErrnoAfter(dat) = "other"

Rest(dat) == SubSeq(dat, Takes(dat) + 1, Len(dat))

-----------------------------------------------------------------------------
(* ActorNet::send and sendBuf, called by whatever code the worker runs: a  *)
(* callback of this connection, or other handlers and lambdas.             *)

Message(n) == [i \in 1 .. n |-> given + i]

CanSend(n) == /\ pc \in {"idle", "event", "callback"}
              /\ est
              /\ n \in Sizes /\ given + n <= MaxGiven

\* Something waits already.
SendBehind(n) ==
  /\ CanSend(n) /\ wbuf # <<>>
  /\ given' = given + n
  /\ wbuf' = Append(wbuf, Message(n))
  /\ UNCHANGED <<wevn, tcp, nospace, peerVars, loopVars, est, errno, ready>>

SendAll(n) ==
  /\ CanSend(n) /\ wbuf = <<>> /\ TakesAll(Message(n))
  /\ given' = given + n
  /\ SysSend(Message(n))
  /\ UNCHANGED <<wbuf, wevn, peerVars, loopVars, est, ready>>

\* Mutant: what waits, with nobody to tell when it may go.
SendRestUnwatched(n) ==
  /\ CanSend(n) /\ wbuf = <<>> /\ MustWait(Message(n))
  /\ given' = given + n
  /\ SysSend(Message(n))
  /\ wbuf' = <<Rest(Message(n))>>
  /\ UNCHANGED <<wevn, ready, peerVars, loopVars, est>>

\* The rest waits.  Fworker::addCfd4Write registers both events once, and
\* EPOLL_CTL_MOD puts on the ready list a socket that has one of them.
SendRest(n) ==
  /\ CanSend(n) /\ wbuf = <<>> /\ MustWait(Message(n))
  /\ given' = given + n
  /\ SysSend(Message(n))
  /\ wbuf' = <<Rest(Message(n))>>
  /\ wevn' = TRUE
  /\ ready' = (ready \/ (~wevn /\ (Readable \/ Len(tcp') < SndBuf)))
  /\ UNCHANGED <<peerVars, loopVars, est>>

SendLost(n) ==
  /\ CanSend(n) /\ wbuf = <<>> /\ MustClose(Message(n))
  /\ given' = given + n
  /\ SysSend(Message(n))
  /\ est' = FALSE
  /\ UNCHANGED <<wbuf, wevn, peerVars, loopVars, ready>>

Send(n) == SendBehind(n) \/ SendAll(n) \/ SendRest(n) \/ SendLost(n)

-----------------------------------------------------------------------------
(* Fworker::loop, as far as this connection goes.                          *)

\* Being reported takes the socket off the ready list.
EpollWait ==
  /\ pc = "idle" /\ est /\ ready
  /\ ready' = FALSE
  /\ mask' = (IF Readable THEN {"IN"} ELSE {}) \cup (IF wevn /\ Writable THEN {"OUT"} ELSE {})
  /\ pc' = IF mask' = {} THEN "idle" ELSE "event"
  /\ UNCHANGED <<sendVars, peerVars, est, errno>>

\* The loop looks for EPOLLOUT first and goes on to the next event.
EvnSend ==
  /\ pc = "event" /\ est /\ "OUT" \in mask
  /\ pc' = "write"
  /\ UNCHANGED <<sendVars, peerVars, mask, est, errno, ready>>

EvnRecv ==
  /\ pc = "event" /\ est /\ "OUT" \notin mask
  /\ pc' = "recv"
  /\ UNCHANGED <<sendVars, peerVars, mask, est, errno, ready>>

\* The connection was lost before its event came up.
EvnStale ==
  /\ pc \in {"event", "recv", "write"} /\ ~est
  /\ pc' = "idle"
  /\ UNCHANGED <<sendVars, peerVars, mask, est, errno, ready>>

\* Fworker::evnRecv: read, let the callback run, read again.
Recv ==
  /\ pc = "recv" /\ est /\ rcv > 0
  /\ \E n \in 1 .. rcv : rcv' = rcv - n
  /\ pc' = "callback"
  /\ UNCHANGED <<sendVars, arrived, broken, out, mask, est, errno, ready>>

\* Mutant: one read for each event.
RecvOnce ==
  /\ pc = "callback"
  /\ pc' = "idle"
  /\ UNCHANGED <<sendVars, peerVars, mask, est, errno, ready>>

CallbackReturns ==
  /\ pc = "callback"
  /\ pc' = "recv"
  /\ UNCHANGED <<sendVars, peerVars, mask, est, errno, ready>>

RecvAgain ==
  /\ pc = "recv" /\ est /\ rcv = 0 /\ ~broken
  /\ errno' = "again"
  /\ pc' = "idle"
  /\ UNCHANGED <<sendVars, peerVars, mask, est, ready>>

RecvLost ==
  /\ pc = "recv" /\ est /\ rcv = 0 /\ broken
  /\ errno' = "other"
  /\ est' = FALSE
  /\ pc' = "idle"
  /\ UNCHANGED <<sendVars, peerVars, mask, ready>>

\* Mutant: one message for each event.
WriteOnce ==
  /\ pc = "write" /\ est /\ wbuf # <<>> /\ TakesAll(Head(wbuf))
  /\ SysSend(Head(wbuf))
  /\ wbuf' = Tail(wbuf)
  /\ pc' = "idle"
  /\ UNCHANGED <<given, wevn, peerVars, mask, est, ready>>

\* ActorNet::evnWrite, one turn of its loop.
WriteAll ==
  /\ pc = "write" /\ est /\ wbuf # <<>> /\ TakesAll(Head(wbuf))
  /\ SysSend(Head(wbuf))
  /\ wbuf' = Tail(wbuf)
  /\ UNCHANGED <<given, wevn, peerVars, loopVars, est, ready>>

\* Mutant: the position stays where it was.
WriteForgets ==
  /\ pc = "write" /\ est /\ wbuf # <<>> /\ MustWait(Head(wbuf))
  /\ SysSend(Head(wbuf))
  /\ pc' = "idle"
  /\ UNCHANGED <<given, wbuf, wevn, peerVars, mask, est, ready>>

WritePart ==
  /\ pc = "write" /\ est /\ wbuf # <<>> /\ MustWait(Head(wbuf))
  /\ SysSend(Head(wbuf))
  /\ wbuf' = <<Rest(Head(wbuf))>> \o Tail(wbuf)
  /\ pc' = "idle"
  /\ UNCHANGED <<given, wevn, peerVars, mask, est, ready>>

WriteLost ==
  /\ pc = "write" /\ est /\ wbuf # <<>> /\ MustClose(Head(wbuf))
  /\ SysSend(Head(wbuf))
  /\ est' = FALSE
  /\ pc' = "idle"
  /\ UNCHANGED <<given, wbuf, wevn, peerVars, mask, ready>>

WriteDone ==
  /\ pc = "write" /\ est /\ wbuf = <<>>
  /\ pc' = "idle"
  /\ UNCHANGED <<sendVars, peerVars, mask, est, errno, ready>>

\* Other code of the worker makes a call that fails.
Elsewhere ==
  /\ est /\ pc \in {"idle", "event", "callback"}
  /\ errno' = "other"
  /\ UNCHANGED <<sendVars, peerVars, loopVars, est, ready>>

-----------------------------------------------------------------------------
(* The peer and the network.                                               *)

\* The socket tells of room when all its buffer is free, and may do so before.
Drain ==
  /\ est /\ ~broken /\ tcp # <<>>
  /\ out' = Append(out, Head(tcp))
  /\ tcp' = Tail(tcp)
  /\ \E tells \in {nospace /\ Len(tcp) = 1, nospace} :
       nospace' = (nospace /\ ~tells) /\ ready' = (ready \/ (tells /\ wevn))
  /\ UNCHANGED <<given, wbuf, wevn, rcv, arrived, broken, loopVars, est, errno>>

PeerSend ==
  /\ est /\ ~broken /\ arrived < MaxRcv
  /\ arrived' = arrived + 1 /\ rcv' = rcv + 1
  /\ ready' = TRUE
  /\ UNCHANGED <<sendVars, broken, out, loopVars, est, errno>>

PeerReset ==
  /\ est /\ ~broken
  /\ broken' = TRUE
  /\ ready' = TRUE
  /\ UNCHANGED <<sendVars, rcv, arrived, out, loopVars, est, errno>>

Worker == \/ EpollWait \/ EvnSend \/ EvnRecv \/ EvnStale
          \/ Recv \/ CallbackReturns \/ RecvAgain \/ RecvLost
          \/ WriteAll \/ WritePart \/ WriteLost \/ WriteDone

Next == \/ Worker \/ Elsewhere
        \/ \E n \in Sizes : Send(n)
        \/ Drain \/ PeerSend \/ PeerReset

Safety == Init /\ [][Next]_vars

\* The worker runs and the peer reads; nobody has to send.
Spec == Safety /\ WF_vars(Worker) /\ WF_vars(Drain)

-----------------------------------------------------------------------------
(* Properties.                                                             *)

\* The types, and the bookkeeping that the flushing depends on: while something
\* waits, writability is registered, and nothing empty waits.
TypeOK ==
  /\ given \in Nat /\ wbuf \in Seq(Seq(Nat)) /\ {wevn, est} \subseteq BOOLEAN
  /\ errno \in {"again", "other"}
  /\ tcp \in Seq(Nat) /\ Len(tcp) <= SndBuf /\ nospace \in BOOLEAN
  /\ rcv \in Nat /\ arrived \in Nat /\ {broken, ready} \subseteq BOOLEAN
  /\ out \in Seq(Nat)
  /\ pc \in {"idle", "event", "recv", "callback", "write"}
  /\ mask \subseteq {"IN", "OUT"}
  /\ wbuf # <<>> => wevn
  /\ \A i \in 1 .. Len(wbuf) : wbuf[i] # <<>>

\* What the peer has, what the socket has and what waits are, put together,
\* what was given, in order, as long as the connection is up; no partial write
\* and no message sent meanwhile shifts, repeats or drops a byte
\* (ActorNet::sendBuf, ActorNet::evnWrite).
InOrder == est => out \o tcp \o FlattenSeq(wbuf) = [i \in 1 .. given |-> i]

\* ... and in the end the peer has it all, unless the connection is lost: reset by
\* the peer, or given up by the library, which it also does to one in good order,
\* when a send or a flush goes only in part and errno is left from an earlier call
\* (SendLost, WriteLost; ActorNet.cpp:89,126).
S == INSTANCE Stream WITH open <- est /\ ~broken
StreamSpec == S!Spec
StreamSafety == S!Safety

\* What the peer sends is read while the connection works (Fworker.cpp:69).
AllRead == rcv > 0 ~> rcv = 0 \/ ~est \/ broken

\* The same, as long as writability has never been asked for.
ReadUnlessBlocked == rcv > 0 ~> rcv = 0 \/ ~est \/ wevn
=============================================================================
