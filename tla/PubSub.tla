------------------------------- MODULE PubSub -------------------------------
(***************************************************************************)
(* Subscribe and publish (stmp/StmpNet.cpp:534-626).  Each worker lists    *)
(* the subscribers that live on it.  publishMsg gives each worker a        *)
(* lambda, which copies the lists of the two topics, takes a reference for *)
(* each entry, sends to one after the other and drops the reference.  The  *)
(* lambdas of a publication share the message and a counter; the last one  *)
(* deletes them.                                                           *)
(*                                                                         *)
(* A send may find its connection broken.  evnDis then runs in the middle  *)
(* of the lambda.  It calls the application if the connection has a user   *)
(* (stmp/StmpN2H.cpp:32), which may publish or close another connection in *)
(* turn: a thread has a stack of what it is in.  The library takes no lost *)
(* connection off the lists: a user's evnDis has to, and does here, and a  *)
(* connection without a user stays listed when it is deleted.              *)
(*                                                                         *)
(* A lambda for another worker waits in its queue, which Fworker shows to  *)
(* be in order and to be run.                                              *)
(***************************************************************************)
EXTENDS Naturals, SequencesExt

CONSTANTS
  N,          \* Fsc::worker
  Outsiders,  \* threads that are not workers
  Conns,      \* connections, up at first, one object each
  Home,       \* Home[c]: the worker c lives on
  Users,      \* connections with a fusr, whose evnDis calls unSubscribe
  Topics,     \* message names, and message names with a path
  Sids,       \* session ids, chosen by the peer
  Pubs,       \* publications
  Of,         \* Of[p]: <<root, path>>, the topics of p
  MaxSubs     \* bound on the entries of a worker's lists

Workers == 1 .. N
Threads == Workers \cup Outsiders

ASSUME PubSubAssumption ==
  /\ N \in Nat /\ N > 0 /\ Workers \cap Outsiders = {}
  /\ Home \in [Conns -> Workers]
  /\ Users \subseteq Conns
  /\ Of \in [Pubs -> Topics \X Topics]
  /\ MaxSubs \in Nat

VARIABLES
  subscribers,  \* [w][t]: the list of topic t on worker w
  conn,         \* the connections
  pub,          \* the message and the counter of each publication
  queue,        \* [w]: the publications whose lambda waits for w
  stack,        \* [t]: what thread t is in, the innermost last
  told,         \* [c]: what has been sent to c, in order
  due,          \* [p]: the entries there when p was published, and ever since
  ended,        \* [t]: the publications whose publishMsg has returned on t
  past          \* [p]: those of p's thread when p was published

history == <<told, due, ended, past>>
vars == <<subscribers, conn, pub, queue, stack, history>>

\* The topic and the number are not in the code's entries: they tell apart, for the
\* properties, two subscriptions of one id.
Entry == [c : Conns, sid : Sids, topic : Topics, n : Nat]

Frame == [op : {"publish"}, p : Pubs, i : 1 .. N + 1]
           \cup [op : {"find"}, p : Pubs]
           \cup [op : {"send", "unref"}, p : Pubs, li : Seq(Entry), i : Nat]
           \cup [op : {"dis", "del", "recv"}, c : Conns]

Init ==
  /\ subscribers = [w \in Workers |-> [t \in Topics |-> <<>>]]
  /\ conn = [c \in Conns |-> [life |-> "live", est |-> TRUE, rc |-> 0, rf |-> FALSE]]
  /\ pub = [p \in Pubs |-> [life |-> "unborn", counter |-> 0]]
  /\ queue = [w \in Workers |-> <<>>]
  /\ stack = [t \in Threads |-> <<>>]
  /\ told = [c \in Conns |-> <<>>]
  /\ due = [p \in Pubs |-> {}]
  /\ ended = [t \in Threads |-> {}]
  /\ past = [p \in Pubs |-> {}]

-----------------------------------------------------------------------------
(* The stack.  Only a thread that is in nothing takes up an event.         *)

Publishing(p, i) == [op |-> "publish", p |-> p, i |-> i]
Lambda(p) == [op |-> "find", p |-> p]
Sending(op, p, li, i) == [op |-> op, p |-> p, li |-> li, i |-> i]
On(op, c) == [op |-> op, c |-> c]

Idle(t) == stack[t] = <<>>

Top(t) == Last(stack[t])

At(t, op) == ~Idle(t) /\ Top(t).op = op

\* t goes into fs, and comes back to what it was in.
Enter(t, fs) == stack' = [stack EXCEPT ![t] = @ \o fs]

\* The innermost is done; fs comes in its place.
Turn(t, fs) == stack' = [stack EXCEPT ![t] = Front(@) \o fs]

-----------------------------------------------------------------------------
(* The lists.                                                              *)

\* The subscriptions of worker w.
Subscriptions(w) == UNION {ToSet(subscribers[w][t]) : t \in Topics}

\* A subscription of c to t, the n-th with that id that is in the list.
Entered(c, t, sid, n) == [c |-> c, sid |-> sid, topic |-> t, n |-> n]

\* this is pushed on the list of the running worker, which is c's, whether or not
\* it is there already with that id; the number is the first that is free.
Subscribe(c, t, sid) ==
  /\ Idle(Home[c]) /\ conn[c].life = "live"
  /\ Cardinality(Subscriptions(Home[c])) < MaxSubs
  /\ \E n \in 0 .. Len(subscribers[Home[c]][t]) :
       LET li == subscribers[Home[c]][t] IN
         /\ ~Contains(li, Entered(c, t, sid, n))
         /\ \A m \in 0 .. n - 1 : Contains(li, Entered(c, t, sid, m))
         /\ subscribers' = [subscribers EXCEPT ![Home[c]][t] = Append(li, Entered(c, t, sid, n))]
  /\ UNCHANGED <<conn, pub, queue, stack, history>>

\* What the erasing loop leaves of a list.
Without(li, c) ==
  LET kept[k \in 0 .. Len(li)] ==
        IF k = 0 THEN <<>> ELSE IF li[k].c = c THEN kept[k - 1] ELSE Append(kept[k - 1], li[k])
  IN  kept[Len(li)]

\* The lists without c, and what is due without c.
unSubscribe(c) ==
  [subscribers EXCEPT ![Home[c]] = [t \in Topics |-> Without(@[t], c)]]
Undue(c) == [p \in Pubs |-> {e \in due[p] : e.c # c}]

UnSubscribe(c) ==
  /\ Idle(Home[c]) /\ conn[c].life = "live"
  /\ subscribers' = unSubscribe(c) /\ due' = Undue(c)
  /\ UNCHANGED <<conn, pub, queue, stack, told, ended, past>>

-----------------------------------------------------------------------------
(* publishMsg.                                                             *)

\* What c, the subscriber of e, is sent.
Message(p, e) == [p |-> p, sid |-> e.sid, topic |-> e.topic, n |-> e.n]

\* Who has subscribed to a topic of p.
Subscribed(p, lists) == UNION {ToSet(lists[w][Of[p][k]]) : w \in Workers, k \in 1 .. 2}

\* The message and its counter; what the lists and what is due are then.
Create(t, p, lists, rest) ==
  /\ pub[p].life = "unborn"
  /\ pub' = [pub EXCEPT ![p] = [life |-> "live", counter |-> 0]]
  /\ due' = [rest EXCEPT ![p] = Subscribed(p, lists)]
  /\ past' = [past EXCEPT ![p] = ended[t]]

Publish(t, p) ==
  /\ Idle(t) /\ Create(t, p, subscribers, due) /\ Enter(t, <<Publishing(p, 1)>>)
  /\ UNCHANGED <<subscribers, conn, queue, told, ended>>

\* Mutant: the publisher's own worker gets the lambda twice.
FutureTwice(t, p, i) ==
  /\ Turn(t, IF i = t THEN <<Publishing(p, i + 1), Lambda(p)>> ELSE <<Publishing(p, i + 1)>>)
  /\ queue' = [queue EXCEPT ![i] = Append(@, p)]

\* wk->future: in place on the worker itself, else queued.
Future(t, p, i) ==
  IF i = t THEN Turn(t, <<Publishing(p, i + 1), Lambda(p)>>) /\ UNCHANGED queue
           ELSE Turn(t, <<Publishing(p, i + 1)>>) /\ queue' = [queue EXCEPT ![i] = Append(@, p)]

Hand(t) ==
  /\ At(t, "publish") /\ Top(t).i <= N
  /\ Future(t, Top(t).p, Top(t).i)
  /\ UNCHANGED <<subscribers, conn, pub, history>>

Published(t) ==
  /\ At(t, "publish") /\ Top(t).i > N
  /\ Turn(t, <<>>)
  /\ ended' = [ended EXCEPT ![t] = @ \cup {Top(t).p}]
  /\ UNCHANGED <<subscribers, conn, pub, queue, told, due, past>>

-----------------------------------------------------------------------------
(* The lambda.                                                             *)

\* Mutant: the lambda queued last runs first.
DoFutureLast(w) ==
  /\ Idle(w) /\ queue[w] # <<>>
  /\ queue' = [queue EXCEPT ![w] = Front(@)]
  /\ Enter(w, <<Lambda(Last(queue[w]))>>)
  /\ UNCHANGED <<subscribers, conn, pub, history>>

DoFuture(w) ==
  /\ Idle(w) /\ queue[w] # <<>>
  /\ queue' = [queue EXCEPT ![w] = Tail(@)]
  /\ Enter(w, <<Lambda(Head(queue[w]))>>)
  /\ UNCHANGED <<subscribers, conn, pub, history>>

\* The last to count itself deletes the message and the counter.
Count(p) ==
  LET n == pub[p].counter + 1 IN
    pub' = [pub EXCEPT ![p].counter = n, ![p].life = IF n = N THEN "freed" ELSE @]

\* The entries of li from i on are left to send to; with none left the lambda is
\* counted and over.
Onward(w, p, li, i) ==
  IF i > Len(li) THEN Count(p) /\ Turn(w, <<>>)
                 ELSE UNCHANGED pub /\ Turn(w, <<Sending("send", p, li, i)>>)

\* Mutant: the copy takes no references.
NoRef(li) == conn

\* A reference for each entry.
Ref(li) == [c \in Conns |->
  [conn[c] EXCEPT !.rc = @ + Cardinality({j \in DOMAIN li : li[j].c = c})]]

\* Mutant: the second loop goes over the first list again.
CopyRootTwice(w, p) == subscribers[w][Of[p][1]] \o subscribers[w][Of[p][1]]

\* Mutant: one topic without a subscriber is enough to send to nobody.
CopyBoth(w, p) ==
  LET li0 == subscribers[w][Of[p][1]]  li1 == subscribers[w][Of[p][2]]
  IN  IF li0 = <<>> \/ li1 = <<>> THEN <<>> ELSE li0 \o li1

Copy(w, p) == subscribers[w][Of[p][1]] \o subscribers[w][Of[p][2]]

\* Mutant: a lambda that finds nobody returns without counting itself.
FindUncounted(w) ==
  /\ At(w, "find") /\ \A e \in ToSet(Copy(w, Top(w).p)) : conn[e.c].life = "live"
  /\ LET p == Top(w).p  li == Copy(w, Top(w).p) IN
       /\ conn' = Ref(li)
       /\ IF li = <<>> THEN Turn(w, <<>>) /\ UNCHANGED pub ELSE Onward(w, p, li, 1)
  /\ UNCHANGED <<subscribers, queue, history>>

\* The references are taken through the lists' pointers.  One to a connection that
\* is deleted, left by a connection without a user, has no defined outcome: the
\* model takes the lambda no further.
Find(w) ==
  /\ At(w, "find") /\ \A e \in ToSet(Copy(w, Top(w).p)) : conn[e.c].life = "live"
  /\ LET p == Top(w).p  li == Copy(w, Top(w).p) IN conn' = Ref(li) /\ Onward(w, p, li, 1)
  /\ UNCHANGED <<subscribers, queue, history>>

\* Mutant: the object stays when the last reference goes.
unRefOnly(c) == [conn EXCEPT ![c].rc = @ - 1]

unRef(c) ==
  [conn EXCEPT ![c].rc = @ - 1,
               ![c].life = IF conn[c].rc - 1 < 1 /\ conn[c].rf THEN "freed" ELSE @]

\* sendUni and unRef; a connection that is gone is passed over.
Send(w) ==
  /\ At(w, "send")
  /\ LET f == Top(w)  e == f.li[f.i] IN
       /\ told' = IF conn[e.c].est THEN [told EXCEPT ![e.c] = Append(@, Message(f.p, e))] ELSE told
       /\ conn' = unRef(e.c)
       /\ Onward(w, f.p, f.li, f.i + 1)
  /\ UNCHANGED <<subscribers, queue, due, ended, past>>

\* sendUni finds the connection broken: removeActorNet, evnDis, and then unRef.
SendFails(w) ==
  /\ At(w, "send")
  /\ LET f == Top(w)  c == f.li[f.i].c IN
       /\ conn[c].est
       /\ conn' = [conn EXCEPT ![c].est = FALSE]
       /\ Turn(w, <<Sending("unref", f.p, f.li, f.i), On("dis", c)>>)
  /\ UNCHANGED <<subscribers, pub, queue, history>>

Unref(w) ==
  /\ At(w, "unref")
  /\ LET f == Top(w) IN
       conn' = unRef(f.li[f.i].c) /\ Onward(w, f.p, f.li, f.i + 1)
  /\ UNCHANGED <<subscribers, queue, history>>

-----------------------------------------------------------------------------
(* A connection is lost.                                                   *)

\* The read handler finds the peer gone: ref, removeActorNet, evnDis, unRef.
Hup(c) ==
  /\ Idle(Home[c]) /\ conn[c].est
  /\ conn' = [conn EXCEPT ![c].est = FALSE, ![c].rc = @ + 1]
  /\ Enter(Home[c], <<On("recv", c), On("dis", c)>>)
  /\ UNCHANGED <<subscribers, pub, queue, history>>

Recv(w) ==
  /\ At(w, "recv")
  /\ conn' = unRef(Top(w).c)
  /\ Turn(w, <<>>)
  /\ UNCHANGED <<subscribers, pub, queue, history>>

\* Deleted at once, or when nobody refers to it.
del(c) == [conn EXCEPT ![c].rf = TRUE, ![c].life = IF conn[c].rc < 1 THEN "freed" ELSE @]

Del(w) ==
  /\ At(w, "del")
  /\ conn' = del(Top(w).c)
  /\ Turn(w, <<>>)
  /\ UNCHANGED <<subscribers, pub, queue, history>>

\* The lists, and what is due, after evnDis of c.
Delisted(c) == IF c \in Users THEN unSubscribe(c) ELSE subscribers
Released(c) == IF c \in Users THEN Undue(c) ELSE due

\* evnDis: a user takes the connection off the lists, and may publish or close
\* another connection of the worker before the library deletes it.
Gone(w) ==
  /\ At(w, "dis")
  /\ subscribers' = Delisted(Top(w).c)
  /\ UNCHANGED <<queue, told, ended>>

Dis(w) ==
  /\ Gone(w)
  /\ conn' = del(Top(w).c) /\ Turn(w, <<>>)
  /\ due' = Released(Top(w).c) /\ UNCHANGED <<pub, past>>

DisPublish(w, p) ==
  /\ Gone(w) /\ Top(w).c \in Users
  /\ Create(w, p, unSubscribe(Top(w).c), Undue(Top(w).c))
  /\ Turn(w, <<On("del", Top(w).c), Publishing(p, 1)>>)
  /\ UNCHANGED conn

DisClose(w, d) ==
  /\ Gone(w) /\ Top(w).c \in Users /\ Home[d] = w /\ conn[d].est
  /\ conn' = [conn EXCEPT ![d].est = FALSE]
  /\ Turn(w, <<On("del", Top(w).c), On("dis", d)>>)
  /\ due' = Undue(Top(w).c) /\ UNCHANGED <<pub, past>>

-----------------------------------------------------------------------------
\* What t is in goes on.
Run(t) == Hand(t) \/ Published(t) \/ Find(t) \/ Send(t) \/ SendFails(t) \/ Unref(t)
            \/ Recv(t) \/ Dis(t) \/ Del(t)
            \/ (\E p \in Pubs : DisPublish(t, p)) \/ (\E d \in Conns : DisClose(t, d))

Next ==
  \/ \E t \in Threads : Run(t) \/ \E p \in Pubs : Publish(t, p)
  \/ \E w \in Workers : DoFuture(w)
  \/ \E c \in Conns : \/ Hup(c) \/ UnSubscribe(c)
                      \/ \E t \in Topics, sid \in Sids : Subscribe(c, t, sid)

Safety == Init /\ [][Next]_vars

-----------------------------------------------------------------------------
(* Properties.                                                             *)

\* The types; a counter never passes the number of workers, and only a worker
\* is in a lambda or at the end of a connection.
TypeOK ==
  /\ subscribers \in [Workers -> [Topics -> Seq(Entry)]]
  /\ conn \in [Conns -> [life : {"live", "freed"}, est : BOOLEAN, rc : Nat, rf : BOOLEAN]]
  /\ pub \in [Pubs -> [life : {"unborn", "live", "freed"}, counter : 0 .. N]]
  /\ queue \in [Workers -> Seq(Pubs)]
  /\ stack \in [Threads -> Seq(Frame)]
  /\ \A t \in Outsiders : \A k \in DOMAIN stack[t] : stack[t][k].op = "publish"
  /\ told \in [Conns -> Seq([p : Pubs, sid : Sids, topic : Topics, n : Nat])]
  /\ due \in [Pubs -> SUBSET Entry]
  /\ ended \in [Threads -> SUBSET Pubs] /\ past \in [Pubs -> SUBSET Pubs]

\* The connections, and the publications, that a lambda or a handler will use
\* without looking anything up.
UsesConn(f) ==
  CASE f.op \in {"send", "unref"}       -> {f.li[j].c : j \in f.i .. Len(f.li)}
    [] f.op \in {"dis", "del", "recv"} -> {f.c}
    [] OTHER                            -> {}

UsesPub(f) == IF f.op \in {"find", "send", "unref"} THEN {f.p} ELSE {}

\* No lambda under way has a connection that is deleted, whoever is lost in the
\* middle of a publication (StmpNet.cpp:611-616), and no list has one whose user
\* takes it off (597-610); no lambda that is to come, or is under way, has a message
\* that is deleted (617-623).  A connection without a user is left in the lists.
NothingFreedUsed ==
  /\ \A w \in Workers, t \in Topics : \A e \in ToSet(subscribers[w][t]) :
       e.c \in Users => conn[e.c].life = "live"
  /\ \A t \in Threads : \A f \in ToSet(stack[t]) :
       /\ \A c \in UsesConn(f) : conn[c].life = "live"
       /\ \A p \in UsesPub(f) : pub[p].life = "live"
  /\ \A w \in Workers : \A p \in ToSet(queue[w]) : pub[p].life = "live"

\* The references f has to c: the entries left to send to, and the read handler's.
Refers(f, c) ==
  CASE f.op \in {"send", "unref"} -> {j \in f.i .. Len(f.li) : f.li[j].c = c}
    [] f.op = "recv"              -> IF f.c = c THEN {0} ELSE {}
    [] OTHER                      -> {}

\* All that the worker's stack owes to c.
Owed(c) == UNION {{k} \X Refers(stack[Home[c]][k], c) : k \in DOMAIN stack[Home[c]]}

\* The count of references is what the stack of the worker owes, with lambdas
\* inside of lambdas; a lost connection is deleted with the last of them.
RefsBalanced ==
  \A c \in Conns :
    /\ conn[c].rc = Cardinality(Owed(c))
    /\ conn[c].life = "freed" <=> conn[c].rf /\ conn[c].rc = 0

\* A subscription is told of a publication once, whatever is subscribed or lost
\* between the lambdas; but for a publication whose two topics are the same, where
\* both loops go over one list (StmpNet.cpp:595-610).  To subscribe twice with one
\* id makes two subscriptions (535-547).
ToldOnce ==
  \A c \in Conns : \A i, j \in DOMAIN told[c] :
    LET p == told[c][i].p IN
      told[c][i] = told[c][j] => i = j \/ Of[p][1] = Of[p][2]

\* When the message is deleted, all that subscribed before it was published have
\* been told, but for those that have unsubscribed and those that are lost.
AllTold ==
  \A p \in Pubs : pub[p].life = "freed" =>
    \A e \in due[p] : conn[e.c].est =>
      Contains(told[e.c], Message(p, e))

\* Of two publications of a thread, where the first call of publishMsg had returned
\* when the second was made, no subscriber hears the second first.  One made by an
\* evnDis inside of a lambda has the outer one still under way, and overtakes it at
\* the subscribers that are left (StmpNet.cpp:611-616).
InOrder ==
  \A c \in Conns : \A j \in DOMAIN told[c] : \A i \in 1 .. j :
    told[c][j].p \notin past[told[c][i].p]

\* When nothing is under way, no message and no lost connection is left.
NothingLeft ==
  (\A t \in Threads : Idle(t)) /\ (\A w \in Workers : queue[w] = <<>>) =>
    /\ \A p \in Pubs : pub[p].life # "live"
    /\ \A c \in Conns : conn[c].est \/ conn[c].life = "freed"
=============================================================================
