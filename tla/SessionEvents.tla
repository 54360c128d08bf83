---------------------------- MODULE SessionEvents ----------------------------
(***************************************************************************)
(* The events of a session on their way to the client: Session::send_json  *)
(* and take_event_queue (server/session.rs), the bounded output channel    *)
(* the socket task reads, and the replay of send_initial_state             *)
(* (api/ws/handler.rs), composed with the life of the session.             *)
(*                                                                         *)
(* send_json loads `paused` without a lock and acts on it later, so it is  *)
(* two steps.  A producer is any task that calls it: a track monitor, the  *)
(* voice event forwarder, a request, the player updates of a greeting.     *)
(* Events are numbered in the order their producers start to send them.    *)
(***************************************************************************)
EXTENDS Session, Sequences

CONSTANTS
    Producers,      \* tasks that send events
    MaxEvents,      \* bound on the events of a behaviour
    EventSize,      \* the length of the JSON text of each event
    MaxQueue,       \* Session::max_queue_size
    MaxBytes,       \* Session::max_queue_bytes
    ChannelCap      \* SESSION_OUTPUT_QUEUE_CAPACITY

Events == 1 .. MaxEvents

ASSUME EventsAssumption ==
    /\ MaxEvents \in Nat /\ MaxQueue \in Nat /\ MaxBytes \in Nat
    /\ ChannelCap \in Nat \ {0}
    /\ EventSize \in [Events -> Nat \ {0}]

VARIABLES
    emitted,        \* how many events were started
    sending,        \* for each producer, the events it is sending: none or one
    by,             \* for each started event, its session and branch
    queue,          \* Session::event_queue
    queueBytes,     \* Session::queue_bytes
    channel,        \* the output channel each connection reads
    received,       \* what the sockets of a session were given, in order
    evicted         \* events the caps of the queue dropped

eventVars == <<emitted, sending, by, queue, queueBytes, channel, received, evicted>>
allVars   == <<vars, eventVars>>

Sending == [ev : Events, sess : Sessions, sawPaused : BOOLEAN]

EventsTypeOK ==
    /\ emitted \in 0 .. MaxEvents
    /\ sending \in [Producers -> SUBSET Sending]
    /\ \A p \in Producers : \A m, n \in sending[p] : m = n
    /\ by \in Seq([sess : Sessions, queued : BOOLEAN])
    /\ Len(by) = emitted
    /\ queue \in [Sessions -> Seq(Events)]
    /\ queueBytes \in [Sessions -> Nat]
    /\ channel \in [Conns -> Seq(Events)]
    /\ received \in [Sessions -> Seq(Events)]
    /\ evicted \subseteq Events

EventsInit ==
    /\ Init
    /\ emitted = 0
    /\ sending = [p \in Producers |-> {}]
    /\ by = <<>>
    /\ queue = [s \in Sessions |-> <<>>]
    /\ queueBytes = [s \in Sessions |-> 0]
    /\ channel = [c \in Conns |-> <<>>]
    /\ received = [s \in Sessions |-> <<>>]
    /\ evicted = {}

ItemsOf(q) == {q[i] : i \in DOMAIN q}
Once(q) == \A i, j \in DOMAIN q : q[i] = q[j] => i = j

\* The bytes of the events of a queue, front to back.
BytesOf(q) ==
    LET sum[i \in 0 .. Len(q)] == IF i = 0 THEN 0 ELSE sum[i - 1] + EventSize[q[i]]
    IN  sum[Len(q)]

-----------------------------------------------------------------------------
\* send_json: the unlocked load of paused.
LoadPaused(p, s) ==
    /\ sending[p] = {}
    /\ emitted < MaxEvents
    /\ Created(s) /\ s \notin down
    /\ emitted' = emitted + 1
    /\ by' = Append(by, [sess |-> s, queued |-> paused[s]])
    /\ sending' = [sending EXCEPT ![p] =
                      {[ev |-> emitted + 1, sess |-> s, sawPaused |-> paused[s]]}]
    /\ UNCHANGED <<vars, queue, queueBytes, channel, received, evicted>>

\* Fault: the byte cap is met before the new event is counted.
VictimsWithoutNewEvent(s, e) ==
    LET q == queue[s]
        Room(k) == /\ Len(q) - k < MaxQueue
                   /\ queueBytes[s] - BytesOf(SubSeq(q, 1, k)) <= MaxBytes
    IN  CHOOSE k \in 0 .. Len(q) : /\ Room(k) \/ k = Len(q)
                                   /\ \A j \in 0 .. k - 1 : ~Room(j)

\* send_json under the queue's lock: the smallest number of oldest events whose
\* removal meets the count cap and then the byte cap; the whole queue when even
\* that does not meet them.
Victims(s, e) ==
    LET q == queue[s]
        Room(k) == /\ Len(q) - k < MaxQueue
                   /\ queueBytes[s] - BytesOf(SubSeq(q, 1, k)) + EventSize[e] <= MaxBytes
    IN  CHOOSE k \in 0 .. Len(q) : /\ Room(k) \/ k = Len(q)
                                   /\ \A j \in 0 .. k - 1 : ~Room(j)

\* Fault: no return after the push, so the event is sent as well.
PushQueueAndSend(p) ==
    \E m \in sending[p] :
        LET s == m.sess
        IN  /\ m.sawPaused
            /\ sending' = [sending EXCEPT ![p] = {}]
            /\ queue' = [queue EXCEPT ![s] = Append(@, m.ev)]
            /\ queueBytes' = [queueBytes EXCEPT ![s] = @ + EventSize[m.ev]]
            /\ channel' = [channel EXCEPT ![sender[s]] = Append(@, m.ev)]
            /\ UNCHANGED <<vars, emitted, by, received, evicted>>

\* send_json saw paused: a zero-sized queue and an oversized event drop the
\* event; otherwise the oldest events make room and the event is pushed.
PushQueue(p) ==
    \E m \in sending[p] :
        LET s == m.sess
            k == Victims(s, m.ev)
        IN  /\ m.sawPaused
            /\ sending' = [sending EXCEPT ![p] = {}]
            /\ IF MaxQueue = 0 \/ EventSize[m.ev] > MaxBytes
                 THEN /\ evicted' = evicted \cup {m.ev}
                      /\ UNCHANGED <<queue, queueBytes>>
                 ELSE /\ queue' = [queue EXCEPT ![s] =
                                      Append(SubSeq(@, k + 1, Len(@)), m.ev)]
                      /\ queueBytes' = [queueBytes EXCEPT ![s] =
                             @ - BytesOf(SubSeq(queue[s], 1, k)) + EventSize[m.ev]]
                      /\ evicted' = evicted \cup ItemsOf(SubSeq(queue[s], 1, k))
            /\ UNCHANGED <<vars, emitted, by, channel, received>>

\* send_json did not see paused: try_send on the channel that is in the session
\* now.  A full channel and one whose reader is gone drop the event.
TrySend(p) ==
    \E m \in sending[p] :
        LET c == sender[m.sess]
        IN  /\ ~m.sawPaused
            /\ sending' = [sending EXCEPT ![p] = {}]
            /\ channel' = IF pc[c] # "gone" /\ Len(channel[c]) < ChannelCap
                            THEN [channel EXCEPT ![c] = Append(@, m.ev)]
                            ELSE channel
            /\ UNCHANGED <<vars, emitted, by, queue, queueBytes, received, evicted>>

\* handle_socket: the select! loop forwards a message of its channel.
Forward(c) ==
    /\ pc[c] = "open"
    /\ channel[c] # <<>>
    /\ received' = [received EXCEPT ![sess[c]] = Append(@, Head(channel[c]))]
    /\ channel' = [channel EXCEPT ![c] = Tail(@)]
    /\ UNCHANGED <<vars, emitted, sending, by, queue, queueBytes, evicted>>

\* Fault: the queue is taken and not written to the socket.
GreetDroppingQueue(c) ==
    /\ Greet(c)
    /\ queue' = [queue EXCEPT ![sess[c]] = <<>>]
    /\ queueBytes' = [queueBytes EXCEPT ![sess[c]] = 0]
    /\ UNCHANGED <<emitted, sending, by, channel, received, evicted>>

\* send_initial_state: a resumed connection takes the whole queue and writes it
\* to the socket before the loop forwards anything.
GreetReplaying(c) ==
    /\ Greet(c)
    /\ IF resumed[c]
         THEN /\ received' = [received EXCEPT ![sess[c]] = @ \o queue[sess[c]]]
              /\ queue' = [queue EXCEPT ![sess[c]] = <<>>]
              /\ queueBytes' = [queueBytes EXCEPT ![sess[c]] = 0]
         ELSE UNCHANGED <<received, queue, queueBytes>>
    /\ UNCHANGED <<emitted, sending, by, channel, evicted>>

LifeStep ==
    /\ \/ \E c \in Conns :
             \/ \E sid \in Sessions \cup {NoSession} : Upgrade(c, sid)
             \/ Resolve(c)
             \/ LeaveLoop(c)
             \/ Close(c)
       \/ \E s \in Sessions, resuming \in BOOLEAN : UpdateSession(s, resuming)
       \/ \E t \in timers : Expire(t)
    /\ UNCHANGED eventVars

EventsNext ==
    \/ LifeStep
    \/ \E c \in Conns : GreetReplaying(c) \/ Forward(c)
    \/ \E p \in Producers :
          \/ \E s \in Sessions : LoadPaused(p, s)
          \/ PushQueue(p)
          \/ TrySend(p)

EventsSpec == EventsInit /\ [][EventsNext]_allVars

-----------------------------------------------------------------------------
(***************************************************************************)
(* Properties.                                                             *)
(***************************************************************************)
\* The queue of a paused session never exceeds its count cap or its byte cap,
\* and queue_bytes, which is kept beside the queue, is what the queue holds.
QueueWithinCaps ==
    \A s \in Sessions :
        /\ Len(queue[s]) <= MaxQueue
        /\ queueBytes[s] <= MaxBytes
        /\ queueBytes[s] = BytesOf(queue[s])

\* The channel in a session is read by a connection of that session.
SenderServes == \A s \in Sessions : Created(s) => sess[sender[s]] = s

\* An event that is being sent is recorded under its session and branch, is sent
\* by one producer and is nowhere else yet.
SendingIsFresh ==
    \A p \in Producers : \A m \in sending[p] :
        /\ m.ev <= emitted /\ Created(m.sess)
        /\ by[m.ev] = [sess |-> m.sess, queued |-> m.sawPaused]
        /\ \A o \in Producers : \A n \in sending[o] : n.ev = m.ev => o = p
        /\ \A s \in Sessions : m.ev \notin ItemsOf(queue[s]) \cup ItemsOf(received[s])
        /\ \A c \in Conns : m.ev \notin ItemsOf(channel[c])

\* A queue holds events of its session that took the queue branch, each once,
\* and none that was delivered.
QueueIsFresh ==
    \A s \in Sessions :
        /\ Once(queue[s])
        /\ \A e \in ItemsOf(queue[s]) : /\ e <= emitted
                                        /\ by[e] = [sess |-> s, queued |-> TRUE]
                                        /\ e \notin ItemsOf(received[s])

\* A channel holds events of the session its connection serves that took the
\* other branch, each in one channel and once, and none that was delivered.
ChannelIsFresh ==
    \A c \in Conns :
        /\ Once(channel[c])
        /\ \A e \in ItemsOf(channel[c]) :
              /\ e <= emitted
              /\ by[e] = [sess |-> sess[c], queued |-> FALSE]
              /\ e \notin ItemsOf(received[sess[c]])
              /\ \A d \in Conns \ {c} : e \notin ItemsOf(channel[d])

ReceivedIsEmitted ==
    \A s \in Sessions : \A e \in ItemsOf(received[s]) : e <= emitted

\* The queue keeps its types, its caps and its byte count at every step, and an
\* event is in one place at a time on its way.
EventsInv ==
    /\ EventsTypeOK
    /\ QueueWithinCaps
    /\ SenderServes
    /\ SendingIsFresh
    /\ QueueIsFresh
    /\ ChannelIsFresh
    /\ ReceivedIsEmitted

\* An event that send_json took the queue branch for is not lost to a race of
\* pausing, resuming and expiring: it is still to be pushed, it waits in the
\* queue, a connection wrote it to its socket, or a cap dropped it.
QueuedEventAccounted ==
    \A e \in DOMAIN by :
        by[e].queued =>
            \/ e \in evicted
            \/ \E p \in Producers : \E m \in sending[p] : m.ev = e
            \/ e \in ItemsOf(queue[by[e].sess])
            \/ e \in ItemsOf(received[by[e].sess])

\* Over all the connections of its session, no event reaches the client twice,
\* and only events of the session do.
DeliveredOnce ==
    \A s \in Sessions :
        /\ Once(received[s])
        /\ \A e \in ItemsOf(received[s]) : by[e].sess = s
=============================================================================
