-------------------------------- MODULE N2H --------------------------------
(***************************************************************************)
(* The life of the connections of one Fworker: accept, the table ans, the  *)
(* read and write handlers and the callbacks they run, transactions ended  *)
(* later, disconnection, reference counting and deletion                   *)
(* (core/Fworker.cpp, actor/Actor.cpp, actor/ActorNet.cpp,                 *)
(* stmp/StmpN2H.cpp and stmp/StmpTrans.cpp).                               *)
(*                                                                         *)
(* The worker is one thread, so its handlers are cut only where another    *)
(* thread can get in between: the descriptor table of the process and the  *)
(* queue of lambdas are shared, the objects are not.  What a handler does  *)
(* between two cuts is a composition of the code's functions, each here a  *)
(* function on mem, the memory and descriptors they work on.               *)
(*                                                                         *)
(* Frames arrive whole (StmpNet::evnRead's parsing is not looked at).  Of  *)
(* what is sent only this is kept: that something waits in wbuf, and that  *)
(* writability has been asked for.  The queue wakes the worker as Fworker  *)
(* proves it does.  SSC is a stub in the code and is left out.             *)
(***************************************************************************)
EXTENDS Naturals, Sequences

CONSTANTS
  Conns,        \* the connections that may come up, one object each
  Fds,          \* the descriptors that Fsc::hashWk gives to this worker
  None,         \* no connection
  OwnAcceptor,  \* this worker is Fsc::wks[0], which accepts
  Does,         \* what the application's callbacks may do: a set of Deeds
  ChecksEst,    \* callbacks first look whether the connection is still up
  BareErrors,   \* epoll may report an error without EPOLLIN
  PeersClose,   \* peers may close
  Late,         \* how a lambda of this worker may end a transaction that was kept
  Elsewhere,    \* how another thread may
  MaxFrames,    \* bound on the frames the peers send
  MaxKept       \* bound on the transactions kept per connection

\* end: end the transaction at once; fail: end it with RET_FAILURE;
\* parts: end it with a message of several parts; login: create the
\* connection's fusr; onusr: use it; keep: leave the end of the transaction for
\* later; kick: close another connection of this worker.
Ends  == {"end", "fail", "parts"}
Deeds == Ends \cup {"login", "onusr", "keep", "kick"}

ASSUME N2HAssumption ==
  /\ None \notin Conns \cup Fds
  /\ Does \subseteq Deeds /\ Late \subseteq Ends /\ Elsewhere \subseteq Ends
  /\ {OwnAcceptor, ChecksEst, BareErrors, PeersClose} \subseteq BOOLEAN
  /\ {MaxFrames, MaxKept} \subseteq Nat

VARIABLES
  mem,     \* the worker's objects, its ans, and the descriptor table
  inbox,   \* inbox[c]: frames in the receive buffer of c's socket
  sent,    \* frames the peers have sent
  peer,    \* peer[c]: up, closed, or an error pending on the socket
  edge,    \* edge[c]: something happened on c's socket that epoll_wait has not
           \* reported
  kept,    \* kept[c]: transactions of c that somebody is still to end
  queue,   \* the worker's lambdas: [op, c]
  pc,      \* where the worker is in Fworker::loop and below
  batch,   \* events of the last epoll_wait not dispatched: [fd, kind]
  cur,     \* an, the connection the read handler is at
  curFd,   \* evn->data.fd, the descriptor it was called for
  got      \* frames in an->rbuf not dispatched yet

osVars   == <<inbox, sent, peer, edge>>
loopVars == <<pc, batch, cur, curFd, got>>
vars     == <<mem, osVars, kept, queue, loopVars>>

Obj == [life : {"unborn", "live", "freed"}, est : BOOLEAN, rf : BOOLEAN, rc : Nat,
        fd : Fds \cup {None}, fusr : {"none", "set", "deleted"}, dis : Nat,
        waits : BOOLEAN, wevn : BOOLEAN]

Unborn == [life |-> "unborn", est |-> FALSE, rf |-> FALSE, rc |-> 0,
           fd |-> None, fusr |-> "none", dis |-> 0, waits |-> FALSE, wevn |-> FALSE]

Faults == {"none", "use after free", "double delete"}

Init ==
  /\ mem = [obj |-> [c \in Conns |-> Unborn], ans |-> [d \in Fds |-> None],
            owner |-> [d \in Fds |-> None], fault |-> "none"]
  /\ inbox = [c \in Conns |-> 0]
  /\ sent = 0
  /\ peer = [c \in Conns |-> "up"]
  /\ edge = [c \in Conns |-> FALSE]
  /\ kept = [c \in Conns |-> 0]
  /\ queue = <<>>
  /\ pc = "wait" /\ batch = {} /\ cur = None /\ curFd = None /\ got = 0

-----------------------------------------------------------------------------
(* The code's functions on mem.  After a fault the program's behaviour is  *)
(* undefined, and the model stops.                                         *)

Fault(m, what) == [m EXCEPT !.fault = what]
Live(m, c) == m.obj[c].life = "live"

\* Net::close gives the descriptor back whoever owns it now.
removeActorNet(m, c) ==
  LET d == m.obj[c].fd IN
    [m EXCEPT !.ans[d] = None, !.owner[d] = None, !.obj[c].est = FALSE]

\* Actor::del and Actor::unRef: the object goes with its last reference.
Reap(m, c) == IF m.obj[c].rf /\ m.obj[c].rc = 0
              THEN [m EXCEPT !.obj[c].life = "freed"] ELSE m
del(m, c) == Reap([m EXCEPT !.obj[c].rf = TRUE], c)
ref(m, c) == [m EXCEPT !.obj[c].rc = @ + 1]
unRef(m, c) == Reap([m EXCEPT !.obj[c].rc = @ - 1], c)

\* StmpN2H::evnDis tells and deletes fusr, and does not forget the pointer.  What
\* the application does when it is told is in After.
evnDis(m, c) ==
  IF m.obj[c].fusr = "deleted" THEN Fault(m, "double delete")
  ELSE del([m EXCEPT !.obj[c].est = FALSE, !.obj[c].dis = @ + 1,
                     !.obj[c].fusr = IF @ = "set" THEN "deleted" ELSE @], c)

Lost(m, c) == evnDis(removeActorNet(m, c), c)

\* Mutant: the second close of a connection is not stopped.
closeAgain(m, c) == removeActorNet(m, c)

closeSlient(m, c) == IF m.obj[c].est THEN removeActorNet(m, c) ELSE m
close(m, c) == evnDis(closeSlient(m, c), c)

\* What ::send makes of a message: all of it goes, or the socket is full, or
\* broken (or taken for broken: see ActorNet, where the bytes are counted).
Outcomes == {"sent", "full", "broken"}

\* Mutant: a broken socket is removed and nobody told.
sendBufSilent(m, c, how) ==
  IF m.obj[c].waits \/ how = "sent" THEN m
  ELSE IF how = "full" THEN [m EXCEPT !.obj[c].waits = TRUE, !.obj[c].wevn = TRUE]
  ELSE removeActorNet(m, c)

\* ActorNet::sendBuf: behind what waits, nothing is tried.
sendBuf(m, c, how) ==
  IF m.obj[c].waits \/ how = "sent" THEN m
  ELSE IF how = "full" THEN [m EXCEPT !.obj[c].waits = TRUE, !.obj[c].wevn = TRUE]
  ELSE Lost(m, c)

\* ActorNet::send.
send(m, c, how) == IF m.obj[c].est THEN sendBuf(m, c, how) ELSE m

\* ActorNet::evnWrite: sent here means all that waited.
evnWrite(m, c, how) ==
  IF ~m.obj[c].waits \/ how = "full" THEN m
  ELSE IF how = "sent" THEN [m EXCEPT !.obj[c].waits = FALSE]
  ELSE Lost(m, c)

\* StmpNet::sendEnd: a message of several parts looks at est between them.
sendEnd(m, c, how, parts) ==
  LET n == send(m, c, how) IN
    IF parts /\ ~Live(n, c) THEN Fault(n, "use after free") ELSE n

addActorNet(m, c) ==
  LET d == m.obj[c].fd IN IF m.ans[d] # None THEN m ELSE [m EXCEPT !.ans[d] = c]

\* The connections of K closed, which are up and in ans.
closeAll(m, K) ==
  [m EXCEPT !.obj   = [c \in Conns |-> IF c \in K THEN close(m, c).obj[c] ELSE @[c]],
            !.ans   = [d \in Fds |-> IF @[d] \in K THEN None ELSE @[d]],
            !.owner = [d \in Fds |-> IF @[d] \in K THEN None ELSE @[d]]]

InAns(m, c) == m.obj[c].est /\ \E d \in Fds : m.ans[d] = c

\* The application is told when the connection of a fusr is lost (StmpFusr::
\* evnDis), and may then close others, or lose them in a send, and be told of
\* those.  A step that made n of m so far may make any of these.
After(m, n) ==
  LET told == \E c \in Conns : m.obj[c].fusr = "set" /\ n.obj[c].fusr = "deleted"
      up   == {c \in Conns : InAns(n, c)}
  IN  {closeAll(n, K) : K \in IF told /\ "kick" \in Does THEN SUBSET up ELSE {{}}}

Running == mem.fault = "none"

-----------------------------------------------------------------------------
(* Peers, and accept.                                                      *)

Up(c) == Live(mem, c) /\ mem.obj[c].est /\ peer[c] = "up"

PeerSend(c) ==
  /\ Running /\ Up(c) /\ sent < MaxFrames
  /\ sent' = sent + 1
  /\ inbox' = [inbox EXCEPT ![c] = @ + 1]
  /\ edge' = [edge EXCEPT ![c] = TRUE]
  /\ UNCHANGED <<mem, peer, kept, queue, loopVars>>

PeerLeaves(c, how) ==
  /\ Running /\ Up(c)
  /\ how = "closed" => PeersClose
  /\ how = "error" => BareErrors
  /\ peer' = [peer EXCEPT ![c] = how]
  /\ edge' = [edge EXCEPT ![c] = TRUE]
  /\ UNCHANGED <<mem, inbox, sent, kept, queue, loopVars>>

\* The socket's buffer has room again, or writability is asked for when it has.
Room(c) ==
  /\ Running /\ Live(mem, c) /\ mem.obj[c].est /\ mem.obj[c].wevn
  /\ edge' = [edge EXCEPT ![c] = TRUE]
  /\ UNCHANGED <<mem, inbox, sent, peer, kept, queue, loopVars>>

\* ::accept and the constructor of StmpN2H.
construct(m, c, d) ==
  [m EXCEPT !.owner[d] = c,
            !.obj[c] = [Unborn EXCEPT !.life = "live", !.est = TRUE, !.fd = d]]

\* A peer has connected; accept may return any descriptor that is free.
Incoming(c, d) == mem.obj[c].life = "unborn" /\ mem.owner[d] = None

\* Fworker::evnConn on another worker: the rest is a lambda for this one.
Accept(c, d) ==
  /\ Running /\ ~OwnAcceptor
  /\ Incoming(c, d)
  /\ mem' = construct(mem, c, d)
  /\ queue' = Append(queue, [op |-> "add", c |-> c])
  /\ UNCHANGED <<osVars, kept, loopVars>>

\* Fworker::evnConn on this worker: future runs the lambda at once.
evnConn(c, d) ==
  /\ Running /\ pc = "accept"
  /\ Incoming(c, d)
  /\ mem' = addActorNet(construct(mem, c, d), c)
  /\ UNCHANGED <<osVars, kept, queue, loopVars>>

AcceptDone ==
  /\ Running /\ pc = "accept"
  /\ pc' = "dispatch"
  /\ UNCHANGED <<mem, osVars, kept, queue, batch, cur, curFd, got>>

-----------------------------------------------------------------------------
(* Fworker::loop and its handlers.                                         *)

\* How Fworker::loop may take what epoll_wait reports of c: EPOLLOUT, which may be
\* set once it has been asked for, before all else, and an error only without
\* EPOLLIN.
Kinds(c) ==
  (IF mem.obj[c].wevn THEN {"out"} ELSE {})
  \cup (IF inbox[c] > 0 \/ peer[c] = "closed" THEN {"in"} ELSE {})
  \cup (IF inbox[c] = 0 /\ peer[c] = "error" THEN {"err"} ELSE {})

\* Connections of which there is something to report.
Ready == {c \in Conns : /\ Live(mem, c) /\ mem.obj[c].est /\ edge[c] /\ Kinds(c) # {}
                        /\ mem.ans[mem.obj[c].fd] = c}

Events == {"in", "out", "err"}
Listen == [fd |-> None, kind |-> "listen"]

EpollWait(listen) ==
  /\ Running /\ pc = "wait"
  /\ listen => OwnAcceptor /\ \E c \in Conns : mem.obj[c].life = "unborn"
  /\ listen \/ Ready # {} \/ queue # <<>>
  /\ \E k \in [Ready -> Events] :
       /\ \A c \in Ready : k[c] \in Kinds(c)
       /\ batch' = {[fd |-> mem.obj[c].fd, kind |-> k[c]] : c \in Ready}
                   \cup (IF listen THEN {Listen} ELSE {})
  /\ edge' = [c \in Conns |-> edge[c] /\ c \notin Ready]
  /\ pc' = "dispatch"
  /\ UNCHANGED <<mem, inbox, sent, peer, kept, queue, cur, curFd, got>>

\* An event of the batch, in any order; ans tells whose it is now.
Dispatch(e) == Running /\ pc = "dispatch" /\ e \in batch /\ batch' = batch \ {e}

EvnListen ==
  /\ Dispatch(Listen)
  /\ pc' = "accept"
  /\ UNCHANGED <<mem, osVars, kept, queue, cur, curFd, got>>

\* Fworker::evnSend, whatever else the event says.
evnSend(e) ==
  /\ e.kind = "out" /\ Dispatch(e) /\ mem.ans[e.fd] # None
  /\ LET c == mem.ans[e.fd] IN
       \E how \in Outcomes : mem' \in After(mem, unRef(evnWrite(ref(mem, c), c, how), c))
  /\ UNCHANGED <<osVars, kept, queue, pc, cur, curFd, got>>

\* Mutant: no reference is taken.
evnRecvUnreferenced(e) ==
  /\ e.kind = "in" /\ Dispatch(e) /\ mem.ans[e.fd] # None
  /\ cur' = mem.ans[e.fd] /\ curFd' = e.fd
  /\ pc' = "recv"
  /\ UNCHANGED <<mem, osVars, kept, queue, got>>

\* Fworker::evnRecv takes a reference for the time it works on the connection.
evnRecv(e) ==
  /\ e.kind = "in" /\ Dispatch(e) /\ mem.ans[e.fd] # None
  /\ cur' = mem.ans[e.fd] /\ curFd' = e.fd
  /\ mem' = ref(mem, mem.ans[e.fd])
  /\ pc' = "recv"
  /\ UNCHANGED <<osVars, kept, queue, got>>

evnErro(e) ==
  /\ e.kind = "err" /\ Dispatch(e) /\ mem.ans[e.fd] # None
  /\ mem' = removeActorNet(mem, mem.ans[e.fd])
  /\ UNCHANGED <<osVars, kept, queue, pc, cur, curFd, got>>

\* Nobody has the descriptor any more.
EvnStale(e) ==
  /\ e.fd \in Fds /\ Dispatch(e) /\ mem.ans[e.fd] = None
  /\ UNCHANGED <<mem, osVars, kept, queue, pc, cur, curFd, got>>

\* Mutant: est is not asked, so that a callback that closed the connection is
\* followed by a second disconnection.
LeaveUnasked(flag) ==
  /\ mem' \in After(mem, unRef(IF ~flag THEN Lost(mem, cur) ELSE mem, cur))
  /\ pc' = "dispatch" /\ cur' = None /\ curFd' = None /\ got' = 0
  /\ UNCHANGED <<sent, peer, edge, kept, queue, batch>>

\* The end of evnRecv.
Leave(flag) ==
  /\ mem' \in After(mem, unRef(IF ~flag /\ mem.obj[cur].est THEN Lost(mem, cur) ELSE mem, cur))
  /\ pc' = "dispatch" /\ cur' = None /\ curFd' = None /\ got' = 0
  /\ UNCHANGED <<sent, peer, edge, kept, queue, batch>>

\* ::recv on the descriptor of the event, which a callback may have closed, and
\* accept, on another thread, may have given to another connection since: then
\* what is read is that one's.
AtRecv == Running /\ pc = "recv"
Owner == mem.owner[curFd]

RecvFrames(n) ==
  /\ AtRecv /\ Owner # None
  /\ n \in 1 .. inbox[Owner]
  /\ inbox' = [inbox EXCEPT ![Owner] = @ - n]
  /\ got' = n /\ pc' = "read"
  /\ UNCHANGED <<mem, sent, peer, edge, kept, queue, batch, cur, curFd>>

RecvAgain ==
  /\ AtRecv /\ Owner # None /\ inbox[Owner] = 0 /\ peer[Owner] = "up"
  /\ Leave(TRUE)
  /\ UNCHANGED inbox

\* Nothing, an error, or EBADF because a callback closed the connection.
Over == \A c \in {Owner} \ {None} : inbox[c] = 0 /\ peer[c] # "up"

\* Mutant: a recv of 0 bytes is taken for one that would block.
RecvZero == /\ AtRecv /\ Over
            /\ Leave(Owner # None /\ peer[Owner] = "closed")
            /\ UNCHANGED inbox

RecvOver == /\ AtRecv /\ Over
            /\ Leave(FALSE)
            /\ UNCHANGED inbox

-----------------------------------------------------------------------------
(* StmpNet::evnRead hands the frames it has to evnMsg one after the other; *)
(* m is what the message or its callback makes of mem.                     *)

\* Mutant: one recv for each event.
FrameOnce(m) ==
  /\ Running /\ pc = "read"
  /\ got' = got - 1
  /\ IF got = 1 THEN /\ mem' \in After(mem, unRef(m, cur))
                    /\ pc' = "dispatch" /\ cur' = None /\ curFd' = None
     ELSE mem' \in After(mem, m) /\ UNCHANGED <<pc, cur, curFd>>
  /\ UNCHANGED <<osVars, queue, batch>>

Frame(m) ==
  /\ Running /\ pc = "read"
  /\ mem' \in After(mem, m)
  /\ got' = got - 1
  /\ pc' = IF got = 1 THEN "recv" ELSE "read"
  /\ UNCHANGED <<osVars, queue, batch, cur, curFd>>

\* Tags that StmpN2H ignores, and callbacks that do nothing.
FrameIgnored == Frame(mem) /\ UNCHANGED kept

\* StmpN2H::evnPing.
evnPing == /\ \E how \in Outcomes : Frame(send(mem, cur, how))
           /\ UNCHANGED kept

\* A frame that does not parse, or that evnMsg refuses.
FrameRefused ==
  /\ Running /\ pc = "read"
  /\ Leave(FALSE)
  /\ UNCHANGED inbox

\* StmpN2H::evnBegin calls a callback of the application; what a transaction
\* does on its own worker, future does at once.
\* A callback that looks at est first does so by means of its own: one that is
\* registered for users is given fusr alone, set or deleted.
May(deed) == pc = "read" /\ deed \in Does /\ (ChecksEst => mem.obj[cur].est)

CbEnd == /\ \/ May("end") /\ \E how \in Outcomes : Frame(sendEnd(mem, cur, how, FALSE))
            \/ May("parts") /\ \E how \in Outcomes : Frame(sendEnd(mem, cur, how, TRUE))
         /\ UNCHANGED kept

CbFail == May("fail") /\ Frame(close(mem, cur)) /\ UNCHANGED kept

CbLogin == /\ May("login") /\ mem.obj[cur].fusr = "none"
           /\ Frame([mem EXCEPT !.obj[cur].fusr = "set"])
           /\ UNCHANGED kept

CbOnUsr == /\ May("onusr")
           /\ Frame(IF mem.obj[cur].fusr = "deleted" THEN Fault(mem, "use after free") ELSE mem)
           /\ UNCHANGED kept

CbKeep == /\ May("keep") /\ kept[cur] < MaxKept
          /\ kept' = [kept EXCEPT ![cur] = @ + 1]
          /\ Frame(mem)

CbKick(c) == /\ May("kick") /\ c # cur
             /\ InAns(mem, c)
             /\ Frame(close(mem, c))
             /\ UNCHANGED kept

-----------------------------------------------------------------------------
(* StmpTrans: a transaction that was kept is ended.  Neither it nor a      *)
(* lambda holds a reference.                                               *)

\* Another thread looks at the connection (Actor::future reads its type and
\* worker), and so does the lambda.
End(c, op) ==
  /\ Running /\ kept[c] > 0 /\ op \in Elsewhere
  /\ kept' = [kept EXCEPT ![c] = @ - 1]
  /\ IF Live(mem, c)
     THEN queue' = Append(queue, [op |-> op, c |-> c]) /\ UNCHANGED mem
     ELSE mem' = Fault(mem, "use after free") /\ UNCHANGED queue
  /\ UNCHANGED <<osVars, loopVars>>

\* What a lambda does, and how its sends go.
Done(h, how) ==
  IF ~Live(mem, h.c) THEN Fault(mem, "use after free")
  ELSE IF h.op = "add" THEN addActorNet(mem, h.c)
  ELSE IF h.op = "fail" THEN close(mem, h.c)
  ELSE sendEnd(mem, h.c, how, h.op = "parts")

\* A lambda of the application on this worker: future runs the end at once.  One
\* that looks first asks whether the connection's user is still there, of whose
\* end it has been told otherwise.
EndLate(c, op) ==
  /\ Running /\ pc = "future" /\ kept[c] > 0 /\ op \in Late
  /\ ChecksEst => mem.obj[c].fusr = "set" /\ mem.obj[c].est
  /\ kept' = [kept EXCEPT ![c] = @ - 1]
  /\ \E how \in Outcomes : mem' \in After(mem, Done([op |-> op, c |-> c], how))
  /\ UNCHANGED <<osVars, queue, loopVars>>

Dispatched ==
  /\ Running /\ pc = "dispatch" /\ batch = {}
  /\ pc' = "future"
  /\ UNCHANGED <<mem, osVars, kept, queue, batch, cur, curFd, got>>

DoFuture ==
  /\ Running /\ pc = "future" /\ queue # <<>>
  /\ \E how \in Outcomes : mem' \in After(mem, Done(Head(queue), how))
  /\ queue' = Tail(queue)
  /\ UNCHANGED <<osVars, kept, loopVars>>

NoFuture ==
  /\ Running /\ pc = "future" /\ queue = <<>>
  /\ pc' = "wait"
  /\ UNCHANGED <<mem, osVars, kept, queue, batch, cur, curFd, got>>

-----------------------------------------------------------------------------

Loop == \/ \E listen \in BOOLEAN : EpollWait(listen)
        \/ EvnListen \/ AcceptDone
        \/ \E e \in batch : evnSend(e) \/ evnRecv(e) \/ evnErro(e) \/ EvnStale(e)
        \/ (\E n \in 1 .. MaxFrames : RecvFrames(n))
        \/ RecvAgain \/ RecvOver
        \/ FrameIgnored \/ FrameRefused \/ evnPing
        \/ CbEnd \/ CbFail \/ CbLogin \/ CbOnUsr \/ CbKeep
        \/ (\E c \in Conns : CbKick(c))
        \/ Dispatched \/ DoFuture \/ NoFuture

Others == \/ \E c \in Conns : PeerSend(c) \/ PeerLeaves(c, "closed") \/ PeerLeaves(c, "error")
          \/ \E c \in Conns : Room(c)
          \/ \E c \in Conns : \E op \in Ends : End(c, op) \/ EndLate(c, op)
          \/ \E c \in Conns, d \in Fds : Accept(c, d)

Next == Loop \/ Others \/ \E c \in Conns, d \in Fds : evnConn(c, d)

Safety == Init /\ [][Next]_vars

\* The worker keeps running; peers, acceptor and application owe nothing.
Spec == Safety /\ WF_vars(Loop)

-----------------------------------------------------------------------------
(* Properties.                                                             *)

TypeOK ==
  /\ mem \in [obj : [Conns -> Obj], ans : [Fds -> Conns \cup {None}],
              owner : [Fds -> Conns \cup {None}], fault : Faults]
  /\ inbox \in [Conns -> Nat] /\ sent \in Nat
  /\ peer \in [Conns -> {"up", "closed", "error"}]
  /\ edge \in [Conns -> BOOLEAN]
  /\ kept \in [Conns -> Nat]
  /\ queue \in Seq([op : Ends \cup {"add"}, c : Conns])
  /\ pc \in {"wait", "dispatch", "accept", "recv", "read", "future"}
  /\ batch \subseteq [fd : Fds \cup {None}, kind : Events \cup {"listen"}]
  /\ cur \in Conns \cup {None} /\ curFd \in Fds \cup {None} /\ got \in Nat
  /\ \A c \in Conns : mem.obj[c].rc > 0 => c = cur
  /\ cur # None <=> pc \in {"recv", "read"}
  /\ cur # None => Live(mem, cur)

Adding(c) == \E i \in 1 .. Len(queue) : queue[i] = [op |-> "add", c |-> c]

\* A connection that is up owns its descriptor and is in ans under it, or will
\* be; one that is not up owns nothing and is in no table.  So removeActorNet
\* never closes, and addActorNet never meets, the descriptor of another
\* (Fworker::addActorNet, Fworker::removeActorNet, Fworker::evnConn).
OwnDescriptors ==
  /\ \A c \in Conns : mem.obj[c].est =>
       /\ Live(mem, c)
       /\ mem.owner[mem.obj[c].fd] = c
       /\ mem.ans[mem.obj[c].fd] = (IF Adding(c) THEN None ELSE c)
  /\ \A d \in Fds : \A c \in {mem.owner[d], mem.ans[d]} \ {None} :
       mem.obj[c].est /\ mem.obj[c].fd = d

\* Nothing freed is used or freed again, as long as callbacks and lambdas look
\* whether the connection is up (ChecksEst), no transaction is ended by another
\* thread (Elsewhere), and none late with a message of several parts (Late), after
\* whose broken send sendEnd looks at a connection that nobody holds
\* (StmpNet.cpp:197).
NoFault == Running

\* The application hears of the end of a connection once: evnDis has run when
\* the object is gone, never runs twice, and has run whenever the worker looks
\* for events and the connection is not up.  fusr goes with it.
ReportedOnce ==
  \A c \in Conns :
    /\ mem.obj[c].dis <= 1
    /\ mem.obj[c].life = "freed" => mem.obj[c].dis = 1 /\ mem.obj[c].fusr # "set"
    /\ Live(mem, c) /\ pc = "wait" => mem.obj[c].est /\ mem.obj[c].dis = 0

\* A connection that its peer has closed gives its descriptor and its memory
\* back, and what a peer sends is taken from the socket while the connection
\* lasts, though epoll reports each event only once: unless writability has been
\* asked for, after which an event may be taken for writability alone
\* (Fworker.cpp:54-58).
PeerCloseFrees ==
  \A c \in Conns : peer[c] = "closed" ~> mem.obj[c].life = "freed" \/ mem.obj[c].wevn
FramesRead ==
  \A c \in Conns : inbox[c] > 0 ~> inbox[c] = 0 \/ ~mem.obj[c].est \/ mem.obj[c].wevn

\* "No more thread refers to this actor, we will delete it" (Actor.cpp:54,67):
\* no transaction, and no lambda, refers to a connection that is gone.
NobodyRefers ==
  \A c \in Conns : mem.obj[c].life = "freed" =>
    kept[c] = 0 /\ \A i \in 1 .. Len(queue) : queue[i].c # c
=============================================================================
