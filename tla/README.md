# libfsc in TLA+

libfsc is a C++ library: an actor scheduler (one event loop per worker thread,
lambdas sent between threads) with a TCP server and the RPC protocol STMP on top.
This directory models the parts of it whose correctness depends on interleavings,
on the order of events or on partial results, checks them with TLC and proves the
central properties with TLAPS.

Paths below are relative to `src/`.

## 1. Inventory

| Part | State | Operations | Interacts through |
|---|---|---|---|
| ITC scheduling: `actor/Actor.cpp`, `core/Fworker.cpp` | per worker: queue `afs` under a spinlock, an eventfd, an epoll set; nested callbacks | `Actor::future`, `Fworker::push`, `loop`, `evnItc`, `doFuture` | every thread may call `future`; the eventfd wakes the worker |
| Blocking actors: `actor/ActorBlocking.cpp`, `ActorSingleThread.cpp` | queue under a mutex and a condition variable, `busy`, the pool's threads | constructor, `push`, `svc` | `future`; its lambdas call `future` on other actors |
| Connection lifecycle: `core/Fworker.cpp`, `actor/Actor.cpp`, `actor/ActorNet.cpp`, `stmp/StmpN2H.cpp`, `stmp/StmpTrans.cpp` | table `ans` (descriptor to connection), `est`, `rc`, `rf`, `fusr`; the kernel's descriptor table and epoll set | `evnConn`, `addActorNet`, `removeActorNet`, `evnRecv`, `evnErro`, `evnDis`, `close`, `ref`, `unRef`, `del`, `StmpTrans::end` | lambdas from the accepting worker and from threads that end transactions; callbacks of the application |
| Socket buffering: `actor/ActorNet.cpp` | `wbuf`, `wevn`, errno, the socket's buffers | `send`, `sendBuf`, `evnWrite`, `addCfd4Write` | edge triggered events of epoll |
| STMP framing: `StmpNet::evnRead` | `rbuf`, `dlen` | parse, dispatch, compact | called by `evnRecv` |
| STMP segmentation: `sendContinue`, `sendEnd`, `sendUni`, `encode*` | none | split a payload into PDUs | `ActorNet::send` |
| Subscribe and publish: `StmpNet::subscribe`, `unSubscribe`, `publishMsg` | per worker `subscribers`; a counter and a message shared by the lambdas of one publication | as named | one lambda per worker |
| Registry and dispatch: `Fsc::reg*`, `StmpNet::decodeBegin`, `StmpN2H::evnBegin` | `stmpN2HMsgs` | register, look up, decode | called at start and for every BEGIN |
| Start-up and tick: `core/Fsc.cpp` | `wks` | `init`, `publish`, `hold` | starts the workers; `hold` sends one lambda per second to each |
| SSC, initiative transactions, timers, H2N | none: stubs and empty classes | none | |
| Configuration, log, statistics | settings and counters | read, add | no decision depends on them |

What is hard in this code: the write of the eventfd comes after the unlock; epoll is
edge triggered, so a condition that is not dealt with when reported is not reported
again; descriptors are numbers the kernel gives out again while events, lambdas and
loops still hold them; objects are reference counted but most of their users hold no
reference; callbacks run inside the read loop of the connection they may close; a send
may take a part of what it is given; a pool is signalled for some lambdas only.

What makes each part correct:

- *scheduling*: every lambda runs exactly once, on its actor's thread, in the order its
  sender gave them, in the end; no worker sleeps on work;
- *blocking actors*: exactly once, in the end; no stranded queue;
- *connections*: the table, `est` and the descriptors agree; the application hears of the
  end once; nothing freed is used; what a peer closed is freed; what a peer sends is read;
- *buffering*: the peer receives the bytes given, in order, all of them;
- *framing*: the frames dispatched are the frames sent, however the stream is cut;
- *segmentation*: the parts joined are the payload, the last and only the last says so;
- *publish*: each subscription is told each message once and in the publisher's order,
  nothing that is deleted is used, and the message is deleted once, last.

`PROJECT.json` lists under "hazards" where each of these can go wrong, by line, and
the properties that watch it.

## 2. Modules

| Module | Models | Uses |
|---|---|---|
| `Mailbox` | abstract: what `future` promises (exactly once, in order per sender, in the end) | |
| `Fworker` | scheduling | refines `Mailbox` |
| `FworkerProofs` | its theorems | `Fworker`, TLAPS |
| `ActorBlocking` | blocking actors | with one thread, refines `Mailbox` |
| `ActorBlockingProofs` | its theorems | `ActorBlocking`, TLAPS |
| `N2H` | connection lifecycle on one worker | |
| `N2HProofs` | its theorems | `N2H`, TLAPS |
| `Stream` | abstract: what `ActorNet::send` promises | |
| `ActorNet` | socket buffering of one connection | refines `Stream` |
| `ActorNetProofs` | its theorems | `ActorNet`, `SeqLemmas`, TLAPS |
| `Channel` | abstract: what one direction of STMP promises (messages out are messages given, in order, in the end) | |
| `Framing` | the receive buffer and `evnRead` | refines `Channel` |
| `FramingProofs` | its theorems | `Framing`, TLAPS |
| `Segments` | sends of messages longer than a PDU, and a peer that joins the parts | refines `Channel` |
| `SegmentsProofs` | its theorems | `Segments`, TLAPS |
| `PubSub` | subscribe and publish on several workers | |
| `PubSubProofs` | its theorems | `PubSub`, `SeqLemmas`, TLAPS |
| `SeqLemmas` | facts about numbers and sequences that several proofs need | TLAPS |
| `MC...` | constants for TLC | the module named |

Operators named "Mutant" in a module are changed versions of the definition that
follows them. No specification uses them: they record, for each property, a plausible
mistake in the code that the property notices (`PROJECT.json`, "mutants").

### Fworker

A worker `w` is at `pc[w]` in `Fworker::loop`: `boot` (thread started, eventfd not
registered), `wait` (in or before `epoll_wait`), `dispatch` (the batch), `future`
(`doFuture`). `depth[w]` counts the callbacks it is in: a socket handler, a lambda, and
the lambdas these run in place by calling `future` on an actor of the same worker
(`FutureInline`). A thread that calls `future` on an actor of another worker does it
in two steps, as the code does: `Push` up to the unlock, `WriteEvn` after it. The
eventfd is two bits: `evn[w]` (counter not zero) and `edge[w]` (on epoll's ready list);
a report takes it off the list, a write puts it on again.

Each critical section is one action, since `afs` is touched nowhere else. The flag
`busy` is written and never read. `Fsc::hold` and the application's own threads are
"outsiders". `Quota` bounds the lambdas per pair; nothing else is bounded.

### ActorBlocking

`pc[p]` follows `svc`: `top` (writes `busy`), `lock`, `wait`, `taken`, `run`. `Push`
appends and notes, under the mutex, whether it will signal; `Signal` comes later and
wakes any one sleeper, or nobody. `Spurious` is a return of `pthread_cond_wait` for no
reason. `Create` may fail, as the code does not notice: it compares the error number
that `pthread_create` returns with -1, and goes on to detach a thread whose name was not
written. That may do nothing, or end the process (`ended`) before anybody can use the
actor.

### N2H

One worker and the connections whose descriptors `Fsc::hashWk` gives it. `mem` is the
memory the handlers work on (objects, `ans`, who owns each descriptor), and every
function of the code is a function on it: `removeActorNet`, `evnDis`, `closeSlient`,
`close`, `send`, `sendBuf`, `evnWrite`, `sendEnd`, `ref`, `unRef`, `del`, `addActorNet`. An
action composes them as the code's handlers do. Handlers are cut only where another thread
can get in between and matters: `recv` (descriptors may have been given out again), each
frame, each accepted connection, each lambda.

An event is dispatched as the loop does it (`Kinds`): EPOLLOUT, which may be set once
writability has been asked for (`wevn`), runs `evnSend` and nothing else, whatever else is
set; an error is one only without EPOLLIN; the rest is a read. Of the bytes sent only this
is kept: that something waits, and that writability is asked for; a send finds room, a full
socket or a broken one (`Outcomes`). What becomes of the bytes is `ActorNet`'s subject.

With `OwnAcceptor` the worker is `Fsc::wks[0]`, which accepts and adds at once; without,
another worker accepts and sends the addition as a lambda. Then a descriptor that a
callback has closed may be another connection's when `evnRecv` reads from it again, and
the model reads that one's frames for the old one, as the code does. `Does` says what
callbacks may do: end a transaction at once, with failure or in several parts, create or
use `fusr`, leave the end for later, close another connection. What was left is ended late
by a lambda of the worker (`Late`) or by another thread (`Elsewhere`). With `ChecksEst` all
of these first look at `est`. When a connection's user is told of a loss, the application
may close any other connections (`After`), whose users are told in turn. A use of a freed
object or a second `delete` is a fault, after which the model stops.

Left out: `StmpTrans::continu` (it dereferences a list it never creates), the branch
for descriptors over the peer limit, and a callback that uses `fusr` before it is set.
Frames arrive whole here. The queue wakes the worker as `Fworker` proves.

### ActorNet

The bytes given are numbered; `out \o tcp \o wbuf` is where they are: received by the
peer, in the socket's buffer, waiting in the library. `SysSend` is send(2) with
`MSG_DONTWAIT`: it takes what fits; only a call that takes nothing sets errno.
`errno` is the thread's, and other calls may leave any value in it (`Elsewhere`). After a
refusal the kernel owes a write event, at the latest when its buffer has emptied
(`Drain`). `EpollWait` and the actions after it are the loop as it sees this connection:
an event with EPOLLOUT runs `evnWrite` and nothing else. `ActorNet::send` lines 45-60
are dead code: `wbuf` is created by the constructor and never reset.

The modules of one connection stack up: a message of the application is given to
`Segments`, whose `wire` is a sequence of PDUs; each PDU is a message of `ActorNet`,
whose bytes arrive as `Stream` says; at a library that receives, the bytes are the
`stream` of `Framing`, which finds the frames again.  `N2H` takes it from there.

### Framing

`stream` is what the peer has sent, `read` how much of it recv has taken, `rbuf` the first
`dlen` bytes of the buffer and `at` is `dat - rbuf`. `Recv` takes any number of bytes that
there is room for; then evnRead takes frames (`Ping`, `Message`), gives up (`Refuse`, or a
frame `evnMsg` declines) or moves the rest to the front (`Compact`). `RecvZero` is a recv
that returns 0, at the end of the stream and also when asked for nothing. The parser is the
code's: `LenSize`, `Size`, `Header`, `TooLong` are its lines one by one, over bytes of base
`Base` (256 in the code), the last two values of which mark longer length fields. The frames
the peer sends are any that follow the format, one of a tag and the length 0 included:
`Size` makes it whole with two bytes, `Header` wants three, and it waits for what comes
behind it. Whether `stmpdec_unpack` accepts a frame (`Spoiled`) and what `evnMsg` answers
(`Declined`) are given by sets. `AskWrite` is the send side's registration of writability,
after which the worker may pass over what is readable. `sent` remembers where each frame
begins and is there for the properties.

### Segments

`Send` is one of the three calls up to its first PDU; `Segment` is a turn of its loop,
`Remainder` the last segment, `Return` the end. Every `encode*` has an operator of its name
that gives the fields of the PDU, the DNE of a UNI in one piece included; `Cost` is what
each field takes, and `Size` what the PDU takes with all of them. `Put` is `ActorNet::send`:
a connection that is lost, or found broken now, takes nothing, and the loop stops at `est`.
The peer is external (the library's own `evnPart` is a stub): it keeps the first PDUs of
messages it has in part (`half`) and joins to them the parts that carry their id. A PDU
without a result reads as a success, as the encoders mean it ("no news is good news").
`begins` is history for the proofs.

### PubSub

Each thread has a stack of what it is in: `publish` (the loop of `publishMsg`), `find`,
`send` and `unref` (the lambda: before the lists are copied, at the next entry of the copy,
after a send that failed), `recv`, `dis` and `del` (the read handler and `evnDis`). That is
needed because these nest: a send finds its connection broken, `evnDis` tells the
application, and that publishes again, or closes another connection, whose `evnDis` does the
same. Steps of different workers interleave at every frame.

The library does not take a lost connection off the lists. Where it has a user (`Users`),
`evnDis` calls the application, which has to, and does in the model (`Delisted`); where it
has none (StmpN2H.cpp:32) nobody is called, and the connection stays listed when it is
deleted. A lambda that then finds it takes a reference through a dead pointer: `Find` is
not defined there and the lambda goes no further. A connection may subscribe again with the
same id; the entries of the model are numbered, for the properties only. `told`, `due`,
`ended` and `past` are history. The messages are not cut here (`Segments`), and the copy of
the two lists is one step, as nothing of the worker runs in between.

## 3. Runs

| Run | Specification | Shows | Bounds |
|---|---|---|---|
| `fworker` | Spec | types; no lost wakeup; order; refines Mailbox with liveness | 2 workers, 2 outsiders; 5 lambdas |
| `blocking` | Spec | types; exactly once; no stranded queue; every lambda starts | pool of 2, 2 outsiders, lambdas that give lambdas; 5 lambdas |
| `single_thread` | Spec | refines Mailbox | pool of 1; 4 lambdas |
| `n2h` | Spec | no fault; reported once; tables and descriptors agree; freed; read | another worker accepts; 2 connections, 2 descriptors, 3 frames, 1 kept transaction each; callbacks look at `est`, no thread but the worker ends transactions |
| `n2h_descriptors` | Safety | types; tables and descriptors agree under all deeds | the worker accepts; 3 connections, 2 descriptors, 2 frames, 1 kept transaction each; callbacks look at nothing, bare errors, ends of every kind |
| `actornet` | Spec | types; order; refines Stream with liveness; reading | buffer of 2, messages of 1 to 3, 6 bytes; peer sends 2 |
| `framing` | Spec | types; in sync; room; nothing whole waits; frames as sent; closed for a cause; refines Channel with liveness | base 4, limit 6; 10 frames, streams of 3 |
| `segments` | Spec | types; PDUs fit; nothing half said; one message at a time; refines Channel with liveness | segments of 2, payloads of 0 to 7 bytes, 2 messages of any kind |
| `pubsub` | Safety | types; nothing freed used; references balanced; told once; all told; in order; nothing left | 2 workers, 2 connections on one, one of them without a user, 2 publications, 2 subscriptions at a time |
| `n2h_kept` | Safety | violated: see findings | 2 connections, 1 descriptor |
| `actornet_read` | Spec | violated: see findings | buffer of 2, 4 bytes; peer sends 1 |
| `segments_uni` | Safety | violated: see findings | as `segments`, 1 message |

Why the bounds are enough to mean something. `fworker`: a wakeup can be lost only between
one push, one write and one round of the loop, and order can break only between two lambdas
of a sender; the quota has both, several senders, an inline call, and a worker that answers
another. `blocking`: the hazard is a push that finds the queue not empty while threads fall
asleep, which takes two lambdas of different callers and two threads. `n2h`: two connections
in one batch, two frames in one read (so that the second finds the connection closed), a
third for the other connection, and a descriptor that is given to the second connection
under the read handler of the first. `n2h_descriptors`: the third connection takes a
descriptor while a lambda for an earlier one waits; and it has the acceptor and the error
events that `n2h` has not. `actornet`: a message longer than the buffer, one that fits
exactly, and one queued behind another. `framing`: lengths in both forms, a frame of exactly
the limit and one over it, values that look like tags and marks, and three frames, so that
one read ends in the middle of a frame with whole ones before it. `segments`: every
remainder modulo the segment for up to three segments, and a second message that could meet
what the first has left. `pubsub`: a worker with subscribers and one without, so that both
exits of the lambda count; two connections and two subscriptions, of one connection to one
topic twice, to both topics, or of two connections, so that a lambda still has one in its
copy when the other is lost; a second publication that may begin inside the first, on the
same worker or the other.

`CHECK_DEADLOCK FALSE` stands where the program may really stop for want of input: the
quotas, frames, messages or publications are used up and everybody waits. `fworker` needs
none, as its sockets may always have an event.

Fairness. A thread that can take a step takes one in the end (weak fairness, per thread):
the operating system schedules runnable threads. Callbacks return, which the README demands
of all actors but blocking ones; for pools, that lambdas end is the separate assumption
`LambdasEnd`. A pool thread that stays runnable gets the mutex. In `ActorNet` the peer goes
on reading. In `Framing` the worker reads what has come as long as writability has not been
asked for, since after that an event may be taken for writability alone; in `Segments` a
call comes to its end, and TCP and the peer take what is sent. `PubSub` needs no fairness:
its properties say what holds when a publication is over, and that lambdas run is
`Fworker`'s liveness. Nobody is assumed to call `future`, to connect, to send or to close.

### Findings

- `n2h_kept`: a connection is deleted with "no more thread refer to this actor"
  (Actor.cpp:54, 67) although a transaction (StmpTrans.cpp:40, 47) still points to it.
- `actornet_read`: once writability has been asked for, an event with both conditions
  runs the write handler only (Fworker.cpp:54-58); being edge triggered, what was to be
  read stays unread, and a close unnoticed, until something else arrives.
- `segments_uni`: the first segment of a UNI longer than a PDU ends with the tag of an END
  (StmpNet.cpp:395; compare :377), so the peer sees the end of a transaction. The comment
  at :217 calls the function that sends it "STMP-UNI". But for the kind, and for the id,
  which a UNI of one PDU does not carry and its parts do, the parts joined are the message:
  that is what `ChannelSpec` of `segments` says.

Read in the code while modelling it, and in the modules as it is, without a run of its own:

- Of two lambdas pushed before the first woken pool thread has run, only the first is
  signalled for (ActorBlocking.cpp:53-57); the second starts when the first has ended,
  though other threads of the pool sleep.
- `ActorNet::close` calls `evnDis` also when the connection is gone (ActorNet.cpp:140-144),
  and `evnRead` goes on after a callback closed it: two frames read together whose
  callbacks both fail without looking at `est` run `evnDis` twice. `n2h` therefore has
  callbacks that look (`ChecksEst`).
- In the same way a callback registered for users is called with a `fusr` that is deleted
  when the frame before it ended the connection (StmpN2H.cpp:118, 129).
- After a callback closed its connection `evnRecv` calls recv once more on the number
  (Fworker.cpp:145), which an accepting thread may have been given meanwhile. On every
  worker but `wks[0]`, the accepting one, it may so read the bytes of a new connection into
  the buffer of the old one. In `n2h` it does (`Owner`, `RecvFrames`).
- A transaction that was kept and is ended late in several parts: if the first send finds
  the connection broken and nobody holds a reference, `sendEnd` looks at a deleted
  connection (StmpNet.cpp:197). `n2h` has no such ends (`Late`).
- After a send that took a part errno is that of an earlier call, but decides whether to
  wait or to close (ActorNet.cpp:89, 126; `Elsewhere`). It goes well as long as the last
  failing call of the thread was one that would have blocked; otherwise a connection in good
  order is dropped, and `StreamSpec` says nothing of what it still owed.
- A frame of a tag and the length 0 is whole with two bytes (StmpNet.cpp:70) and too short
  for the loop (:58): it is dispatched when something comes behind it, and never if nothing
  does.
- The segments of a UNI leave room for `STMP_PDU_RESERVED` below the limit (StmpNet.cpp:224);
  the DNE of a UNI in one piece is not in it (:367 gives the buffer 128 bytes for it, :376
  writes it). Whether a UNI with a payload of nearly a segment passes the peer's limit (:78)
  depends on how much of `STMP_PDU_RESERVED`, which is libmisc's, the other fields leave.
- A subscriber without a user is not taken off the lists when it is lost, and used by the
  next publication after it is deleted (StmpN2H.cpp:32, StmpNet.cpp:599).
- A publication that evnDis makes in the middle of a lambda reaches the subscribers the
  lambda has left before the publication the lambda is for (StmpNet.cpp:611-616).
- A publication whose two topics are the same is told twice to each subscriber
  (StmpNet.cpp:595-610), and a connection that subscribes twice with one id is told once for
  each (535-547).

## 4. Proofs

All theorems hold for every value of the constants allowed by the modules' assumptions:
any finite or infinite sets of workers, callers and pool threads, any quotas.

`FworkerProofs`:

- `TypeCorrect`: `Safety => []TypeOK`. `TypeOK` is inductive by itself.
- `NoWakeupIsLost`: `Safety => []NoLostWakeup`. The invariant is strengthened by what
  holds between the read of the eventfd and `doFuture`: the eventfd can only be readable
  without being on the ready list while its report is in the batch. The step that needs
  the order of the code is `EvnItc`: it may clear the eventfd only because `doFuture`
  still comes.
- `SendersServedInOrder`: `Safety => []InOrder`. `Ordered` relates the queue to the two
  counters of each sender; lemmas say that an append and a removal of the head keep it.
- `ImplementsMailbox`: `Safety => MailboxSafety`: initial states map to initial states,
  and each step is a step of `Mailbox` or a stutter. `DoFuture` is `Run` because by
  `InOrder` the head of the queue is the next of its sender.

`ActorBlockingProofs`:

- `TypeCorrect`: `Safety => []TypeOK`.
- `QueueNeverStranded`: `Safety => []NoStrandedQueue`. A thread goes to sleep only when it
  sees the queue empty, and who fills an empty queue is in `signalling` until a sleeper,
  if there is one, has been woken.
- `EveryLambdaOnce`: `Safety => []ExactlyOnce`.
- `OneThreadIsMailbox`: when the pool is one thread, `Safety => MailboxSafety`. The invariant
  `Fifo` says that of two lambdas of a sender the later is further back: behind it in the
  queue, or queued while the other is taken, or either while the other has started. With
  `ExactlyOnce` it follows that the lambda that starts has the number after the last of its
  sender, so `Start` is `Run`. A larger pool does not keep this order: two threads may have
  taken lambdas of one sender, and either may start first.

`N2HProofs`, for any connections and descriptors, whoever accepts, whatever the callbacks
do (`ChecksEst` or not), and with `MaxFrames` and `MaxKept` any bounds:

- `Ownership`: `Safety => []OwnDescriptors`, and `TypeCorrect`: `Safety => []TypeOK`,
  which contains that the connection the read handler is at is alive and is the only one
  referred to. `OwnDescriptors` alone is not inductive. The strengthening `Inv` adds:
  `rf` excludes `est`, so what `unRef` frees is in no table; a connection is added by one
  lambda at most, and while that lambda waits it is alone in the queue and nothing reads
  or keeps the connection, so no lambda meets a connection before it is in `ans`; the
  reference count is 1 for `cur` and 0 for the others, so a close under the read handler
  cannot free the object; and every event of the batch but the acceptor's names a
  descriptor. The proof follows the code: one lemma per function on `mem`
  (`removeActorNet`, `del`, `evnDis`, `close`, `send`, `evnWrite`, `sendEnd`, `ref`, `unRef`,
  `construct`, `addActorNet`, and what the application does when it is told, `After`) saying
  that it keeps the tables in step (`Keeps`), then one step per action.

`FramingProofs`, for any base, limit, frames, and answers of `evnMsg`: `FramingTypes`,
`StaysInSync`, `RoomForRecv`, `NoFrameHeldUp`, `FramesAsSent`, `ClosedByPeer` and
`FramingImplementsChannel`. None of these is inductive alone. The invariant has, besides
`TypeOK` and `InSync`, where the frames of `sent` lie in `stream` (one after the other from
the first byte), and that between two reads less than a frame within the limit is left.
The heart is a lemma about the parser: at the beginning of a frame `f` of the format, `Header`
and `Size` computed from the bytes in `rbuf` are those of `f` as soon as they are there, so
`Message` takes `f` and nothing else, and `Compact` leaves a beginning of `f`.

`SegmentsProofs`, for any length of segment, payloads and messages: `SegmentsTypes`,
`EverySegmentFits`, `NothingHalfSaid`, `OneMessageAtATime`, `SegmentsImplementChannel`. The
invariant says what is on the wire from `begins[k]` on: for each message sent and over,
all its PDUs; for the last, the first `seg` of them, as many as were sent before the
connection was lost; and what `half` and `out` are when the peer has received the first
`rcvd`. That the last segment, and only it, says that nothing follows comes down to the
arithmetic of `Segs` and `Remain`, which lemmas state: the pieces joined up to any place
are the beginning of the payload up to there.

`N2HProofs` also has two theorems with hypotheses on the application. `Careful` says that
callbacks and lambdas look at `est` before they act, that no transaction is ended by another
thread, and that none is ended late in several parts; `~BareErrors`, that epoll reports no
error without data or a hangup. These are the settings of the run `n2h`, and each is needed:
a callback that does not look runs `evnDis` twice, `n2h_kept` shows what another thread
meets, a late end in parts looks at a deleted connection (section 3), and `evnErro` reports
nothing. Who accepts does not matter, nor how sends go, nor whose frames a read is given.

- `NeverFaulty`: `Careful` implies `Safety => []NoFault`.
- `ReportsOnce`: `Careful` and `~BareErrors` imply `Safety => []ReportedOnce`.

Both come from `Calm`, which is inductive relative to `Inv`: no object whose `est` is set has a
deleted `fusr`; for each object `est`, the number of reports and `rf` go together (`Told`);
and only additions are in the queue. One lemma per function on `mem` says that it keeps this
(`Good`). That the object under the read handler is there is `Inv`'s part.

`ActorNetProofs`, for a send buffer of any size and messages of any lengths:

- `TypeCorrect`: `Safety => []TypeOK`; in particular no message in `wbuf` is empty and no
  buffer is longer than the socket's.
- `BytesInOrder`: `Safety => []InOrder`: the bytes given are `out \o tcp \o wbuf` put together.
  The two are inductive together. What has to be shown of each action is that a message cut
  in two is put together again (`SysSend`, `Rest`), that a message goes behind all others
  (`sendBuf`), and that what leaves the head of `wbuf` comes to the end of `tcp` (`evnWrite`).
- `ImplementsStream`: `Safety => StreamSafety`, each step a step of `Stream` or a stutter. A
  connection that the library gives up counts as lost, for whatever errno it does so.

`FlattenSeq` is a fold, and what it computes would take an induction over the sequence, which
the provers cannot be given. `SeqLemmas` does without: a set of numbers that is not empty has
a least element (`Least`), so a property of 1 that goes from each number up to `k` to the
next holds for `k` (`UpTo`); applied to the function that the fold is defined by, it gives
what `FlattenSeq` makes of a sequence with one more element in front or at the end, and in
`PubSub` what `Without` leaves of a list.

`PubSubProofs`, for any workers, other threads, connections, with users and without,
topics, publications and lists of any length:

| Theorem | States | Strengthened by |
|---|---|---|
| `TypeCorrect` | `TypeOK` | all of `Core` |
| `RefsAreBalanced` | `RefsBalanced` | `Tied` |
| `NoUseAfterFree` | `NothingFreedUsed` | `Core` |
| `NothingIsLeft` | `NothingLeft` | `Core` |
| `ToldInOrder` | `InOrder` | `Told` |
| `ToldOnceEach` | `ToldOnce` | `Told`, `NotYet` |
| `AllAreTold` | `AllTold` | `DueSoon` |

The proof first turns each action into what it does to the frames on the stacks, by depth: a
step takes one frame away and puts a set of frames in its place (`Swap`), or goes into one from
nothing (`Push`). Then:

- `Tied` is about connections. Every frame belongs to the worker of its connection, and a
  copy has no doubles; a lost connection is in exactly one `dis` or `del` frame until it is
  deleted; lists have, of the connections with a user, only
  such as are up or in a `dis` frame; and `rc` is the size of
  `Owed`, the set of places on the stack that still refer to the connection. A set, because
  then each action adds or removes elements it can name, and its size follows.
- `Single` and `Counted` are about publications. For each worker a publication is yet to be
  handed over, or queued, or in one lambda, never two of these; the counter is the number of
  workers for which it is none of them. All actions come down to six effects: nothing, a
  publication begins, is handed over, is taken from the queue, a lambda ends, `publishMsg`
  ends. From this it follows that the message is deleted by the last lambda and by no other.
- `Told` is about order. Nobody is told of a publication for which the worker still has to
  copy its lists (`ToldLate`); a lambda that a publisher runs in place is deeper on the stack
  than the publisher (`Inside`); a publication that has ended on its thread is nowhere ahead of
  a worker behind one that came later (`Ended`, `Order`). So when a later one of a thread is
  told, the earlier has been told already, or will never be (`ToldOrder`). Earlier means that
  its `publishMsg` had returned: one that is still under way on the stack may be overtaken.
  It needs `Inside` because evnDis may publish in the middle of a lambda.
- `NotYet`: what is left of a copy has not been told, by entries, not by connections: a
  connection with two subscriptions is told twice. It needs the two topics of a publication to
  be two; the entries are told apart by their numbers.
- `DueSoon`: who was on a list when the publication began, has not unsubscribed and is up, has
  been told, or is in what is left of the copy of a lambda, or is on its list and the lambda of its
  worker has yet to copy it. When the message is deleted the last two cannot be.

Only model-checked: the liveness properties and the liveness half of the refinements
(`EveryLambdaStarts`, `PeerCloseFrees`, `FramesRead`, `ReadUnlessBlocked`; the mailbox, the
stream, the channels), which are out of the prover's reach, as is ENABLED. Every invariant
of a run that passes is a theorem, and so is the safety half of every refinement.

## 5. Not modelled

The registry of messages (`Fsc::reg*`, `decodeBegin`): it is filled before the workers
start and only looked up afterwards; `N2H` takes a BEGIN as refused or as calling some
callback. SSC (a stub: `StmpSsc::get` returns NULL), initiative transactions, H2N and timers (empty
classes; the heartbeat, zombie and timeout settings of Fsc.h:42-45 are read and not
used), configuration, logging, statistics, protobuf and libmisc (external; they appear
through what the code does with their results). Threads that open descriptors of their
own are not modelled beyond the accepting worker. `~ActorBlocking` leaves its detached
threads running and is not modelled.

## 6. Plan

Done: `Mailbox`, `Fworker`, `ActorBlocking`, `N2H`, `Stream`, `ActorNet`, `Channel`,
`Framing`, `Segments`, `PubSub`, and as theorems every invariant that a passing run checks.
Next:

- Registry: registration and dispatch, in particular UNI registrations, which pass a
  NULL descriptor that `regStmpN2HMsg` dereferences (Fsc.cpp:130).
