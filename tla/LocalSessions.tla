--------------------------- MODULE LocalSessions ---------------------------
(***************************************************************************)
(* Sessions of local clients with the daemon (ipc/server.rs), the event    *)
(* streams of their subscriptions (stream_hub.rs), and the client that     *)
(* renders what it is sent (ipc/client.rs, local_renderer.rs).             *)
(*                                                                         *)
(* All sessions are about one request.  A connection takes a slot of the   *)
(* pool and a decode ticket when it is accepted; a resume that finds no    *)
(* request waits for the tickets before its own, a second submission for   *)
(* the one in flight.  The runner publishes text and activity to bounded   *)
(* queues; the handler forwards them while the outbox worker writes the    *)
(* final frames on the same socket.  How the worker claims and retries a   *)
(* bundle is the subject of ResultDelivery; here a claim is one step.      *)
(*                                                                         *)
(* A frame is applied to the client's renderer when it is written, what    *)
(* the client does about it is a step of the client.  A definition named   *)
(* Name_Variant is a deliberately wrong variant of Name that no            *)
(* specification uses.                                                     *)
(***************************************************************************)
EXTENDS Naturals, Sequences, FiniteSets

CONSTANTS
    Conns,        \* connections that clients open for an operation
    Slots,        \* MAX_CONNECTIONS
    EventLimit,   \* events of a subscription, one of them kept for the gap
    ByteLimit,    \* bytes queued in all subscriptions; a text delta is one
    MaxEvents,    \* bound: events the run publishes
    MaxLeaves     \* bound: clients that are interrupted

ASSUME SlotsAssumption == IsFiniteSet(Conns) /\ Slots \in Nat \ {0}
ASSUME LimitsAssumption == EventLimit \in Nat \ {0, 1} /\ ByteLimit \in Nat \ {0}
ASSUME BoundsAssumption == {MaxEvents, MaxLeaves} \subseteq Nat

VARIABLES
    handler,   \* the task of each connection
    ack,       \* the connection on which a client acknowledges its result
    tickets,   \* next_ticket of the decode registry
    request,   \* the durable request and its result
    missed,    \* connections that were told the request does not exist
    queue,     \* the queue of each subscription
    bytes,     \* queued_bytes of the hub
    publish,   \* the event being published, the subscribers still to get it
    published, \* text deltas and events published
    worker,    \* the outbox worker
    final,     \* the final frames of each connection
    client,    \* the renderer of each client
    stopping,  \* the flag of begin_shutdown
    snapped,   \* whether it has taken its snapshot of the sinks
    notices,   \* sinks that begin_shutdown has still to write to
    leaves     \* clients interrupted so far

hubVars == <<queue, bytes, publish, published>>
resultVars == <<request, worker, final>>
stopVars == <<stopping, snapped, notices>>
vars == <<handler, ack, tickets, request, missed, queue, bytes, publish, published, worker,
          final, client, stopping, snapped, notices, leaves>>

Gone == {"acking", "recovering", "failed", "left"}

HandlerRecords ==
    [op : {"submit", "resume"},
     pc : {"none", "backlog", "spawned", "registered", "open", "waiting", "storing", "stored", "resolve",
           "read", "prior", "resolve_again", "read_again", "subscribe", "greet", "stream",
           "poll", "closed"},
     ticket : Nat, guard : BOOLEAN, sub : BOOLEAN, seen : {"absent", "active", "done", "delivered"},
     opened : BOOLEAN]

\* Events and frames: what they are, and the number of a text delta.
Frames == {"accepted", "text", "activity", "gap", "begin", "end", "error", "bye"} \X Nat
Frame(kind) == <<kind, 0>>
QueueRecords == [events : Seq(Frames), muted : BOOLEAN, since : Nat]
ClientRecords == [mode : {"waiting", "accepted", "final", "verified"} \cup Gone, last : Nat, gap : BOOLEAN,
                  hole : BOOLEAN]

NewHandler == [op |-> "submit", pc |-> "none", ticket |-> 0, guard |-> FALSE, sub |-> FALSE,
               seen |-> "absent", opened |-> FALSE]
EmptyQueue == [events |-> <<>>, muted |-> FALSE, since |-> 0]
NoEvent == [event |-> Frame("activity"), left |-> {}]

Init ==
    /\ handler = [c \in Conns |-> NewHandler]
    /\ ack = [c \in Conns |-> "none"]
    /\ tickets = 0 /\ request = "absent" /\ missed = {}
    /\ queue = [c \in Conns |-> EmptyQueue]
    /\ bytes = 0 /\ publish = NoEvent /\ published = [deltas |-> 0, events |-> 0]
    /\ worker = "idle" /\ final = [c \in Conns |-> "none"]
    /\ client = [c \in Conns |-> [mode |-> "waiting", last |-> 0, gap |-> FALSE, hole |-> FALSE]]
    /\ stopping = FALSE /\ snapped = FALSE /\ notices = {} /\ leaves = 0

-----------------------------------------------------------------------------
(* Frames and the renderer.                                                *)

\* LocalRenderer::handle; a client reads nothing after its result.
Seen(r, frame) ==
    LET kind == frame[1]
        n == frame[2] IN
    IF r.mode \in Gone \cup {"verified"} THEN r
    ELSE IF r.mode = "final"
    THEN [r EXCEPT !.mode = CASE kind = "bye" -> "recovering"
                              [] kind = "end" -> "verified"
                              [] OTHER        -> "failed"]
    ELSE CASE kind = "bye"             -> [r EXCEPT !.mode = "recovering"]
           [] kind \in {"error", "end"} -> [r EXCEPT !.mode = "failed"]
           [] kind = "begin"           -> [r EXCEPT !.mode = "final"]
           [] kind = "accepted"        -> [r EXCEPT !.mode = "accepted"]
           [] kind = "activity"        -> r
           [] kind = "gap"             -> [r EXCEPT !.gap = TRUE]
           [] kind = "text"            ->
                [r EXCEPT !.last = n, !.hole = @ \/ r.gap \/ (r.last # 0 /\ n # r.last + 1)]

Write(c, frame) == client' = [client EXCEPT ![c] = Seen(@, frame)]

\* Both ends of a socket: a write to a client that has gone fails.
Reads(c) == client[c].mode \notin Gone

Live(c) == handler[c].pc \notin {"none", "backlog", "closed"}
Registered(c) == Live(c) /\ handler[c].pc # "spawned"
InUse == Cardinality({c \in Conns : Live(c)}) + Cardinality({c \in Conns : ack[c] = "open"})

Goto(c, pc) == handler' = [handler EXCEPT ![c].pc = pc]

-----------------------------------------------------------------------------
(* Admission (Server::run, the decode and submission registries).          *)

Connect(c, op) ==
    /\ handler[c].pc = "none" /\ ~stopping
    /\ handler' = [handler EXCEPT ![c].pc = "backlog", ![c].op = op]
    /\ UNCHANGED <<ack, tickets, missed, hubVars, resultVars, client, stopVars, leaves>>

Accept(c) ==
    /\ handler[c].pc = "backlog" /\ ~stopping /\ InUse < Slots
    /\ handler' = [handler EXCEPT ![c].pc = "spawned", ![c].ticket = tickets]
    /\ tickets' = tickets + 1
    /\ UNCHANGED <<ack, missed, hubVars, resultVars, client, stopVars, leaves>>

InFlight == \E c \in Conns : handler[c].guard

\* A decode guard lives until the frame is decoded, and that of a second
\* submission until the first has ended.
PriorPending(c) ==
    \E d \in Conns :
      handler[d].pc \in {"spawned", "registered", "open", "waiting"} /\ handler[d].ticket < handler[c].ticket

\* What is left of a connection whose handler returns.
Closed(h, opened) == [NewHandler EXCEPT !.pc = "closed", !.ticket = h.ticket,
                                        !.opened = h.opened \/ opened]

\* A text delta is one byte, an activity event carries no text.
Size(event) == IF event[1] = "text" THEN 1 ELSE 0
Held(c) == c \in publish.left
Texts(q) == Cardinality({i \in DOMAIN q.events : q.events[i][1] = "text"})

Unsubscribe_Leak(c) == queue' = [queue EXCEPT ![c] = EmptyQueue] /\ UNCHANGED bytes
\* Drop for SubscriptionState gives the bytes back, once no publisher holds it.
Unsubscribe(c) ==
    IF Held(c) THEN UNCHANGED <<queue, bytes>>
    ELSE queue' = [queue EXCEPT ![c] = EmptyQueue] /\ bytes' = bytes - Texts(queue[c])

\* The handler returns; with close() the sink is opened for good.
Return(c, opened) ==
    /\ handler' = [handler EXCEPT ![c] = Closed(@, opened)]
    /\ Unsubscribe(c)
    /\ UNCHANGED <<publish, published>>

IsShuttingDown == stopping

\* The sink is registered before the first look at the shutdown flag.
Register(c) ==
    /\ handler[c].pc = "spawned"
    /\ Goto(c, "registered")
    /\ UNCHANGED <<ack, tickets, missed, hubVars, resultVars, client, stopVars, leaves>>

CheckFlag(c) ==
    /\ handler[c].pc = "registered"
    /\ IF IsShuttingDown THEN Write(c, Frame("bye")) /\ Return(c, TRUE)
       ELSE Goto(c, "open") /\ UNCHANGED <<hubVars, client>>
    /\ UNCHANGED <<ack, tickets, missed, resultVars, stopVars, leaves>>

\* A subscription sees what is published from now on.
Subscribed(c, pc, guard) ==
    /\ handler' = [handler EXCEPT ![c].pc = pc, ![c].guard = guard, ![c].sub = TRUE]
    /\ queue' = [queue EXCEPT ![c].since = published.deltas]
    /\ UNCHANGED <<bytes, publish, published>>

Admit_NoGuard(c) ==
    IF handler[c].op = "resume" THEN Goto(c, "resolve") /\ UNCHANGED hubVars
    ELSE Subscribed(c, "storing", FALSE)
\* A submission registers before its decode guard is dropped.
Admit(c) ==
    IF handler[c].op = "resume" THEN Goto(c, "resolve") /\ UNCHANGED hubVars
    ELSE IF InFlight THEN Goto(c, "waiting") /\ UNCHANGED hubVars
    ELSE Subscribed(c, "storing", TRUE)

\* The frame is read, and the shutdown flag is looked at again.
Decode(c) ==
    /\ handler[c].pc = "open"
    /\ IF IsShuttingDown THEN Write(c, Frame("bye")) /\ Return(c, TRUE)
       ELSE Admit(c) /\ UNCHANGED client
    /\ UNCHANGED <<ack, tickets, missed, resultVars, stopVars, leaves>>

\* A malformed frame, or none before the deadline.
DecodeFails(c) ==
    /\ handler[c].pc = "open" /\ leaves < MaxLeaves
    /\ leaves' = leaves + 1
    /\ Write(c, Frame("error")) /\ Return(c, TRUE)
    /\ UNCHANGED <<ack, tickets, missed, resultVars, stopVars>>

\* A second submission goes on without a guard.
StopWaiting(c) ==
    /\ handler[c].pc = "waiting" /\ ~InFlight
    /\ Subscribed(c, "storing", FALSE)
    /\ UNCHANGED <<ack, tickets, missed, resultVars, client, stopVars, leaves>>

-----------------------------------------------------------------------------
(* Submit and resume.                                                      *)

\* submit_for_actor commits; the guard is dropped in a later step.
Store(c) ==
    /\ handler[c].pc = "storing"
    /\ request' = IF request = "absent" THEN "active" ELSE request
    /\ Goto(c, "stored")
    /\ UNCHANGED <<ack, tickets, missed, hubVars, worker, final, client, stopVars, leaves>>

\* The request ID was used with a different text; the actor stays available.
Refuse(c) ==
    /\ handler[c].pc = "storing" /\ request # "absent" /\ leaves < MaxLeaves
    /\ leaves' = leaves + 1
    /\ Write(c, Frame("error")) /\ Return(c, TRUE)
    /\ UNCHANGED <<ack, tickets, missed, resultVars, stopVars>>

Stored(c) ==
    /\ handler[c].pc = "stored"
    /\ handler' = [handler EXCEPT ![c].pc = "greet", ![c].guard = FALSE]
    /\ UNCHANGED <<ack, tickets, missed, hubVars, resultVars, client, stopVars, leaves>>

Greet_NotOpened(c) ==
    /\ handler[c].pc = "greet"
    /\ IF Reads(c)
       THEN Write(c, Frame("accepted")) /\ Goto(c, "stream") /\ UNCHANGED hubVars
       ELSE Return(c, FALSE) /\ UNCHANGED client
    /\ UNCHANGED <<ack, tickets, missed, resultVars, stopVars, leaves>>
\* The Accepted frame, then open_delivery.  If the write fails the handler
\* returns with the sink closed.
Greet(c) ==
    /\ handler[c].pc = "greet"
    /\ IF Reads(c)
       THEN /\ Write(c, Frame("accepted"))
            /\ handler' = [handler EXCEPT ![c].pc = "stream", ![c].opened = TRUE]
            /\ UNCHANGED hubVars
       ELSE Return(c, FALSE) /\ UNCHANGED client
    /\ UNCHANGED <<ack, tickets, missed, resultVars, stopVars, leaves>>

\* wait_for, before each look at the request.
WaitForSubmission(c) ==
    /\ handler[c].pc \in {"resolve", "resolve_again"} /\ ~InFlight
    /\ Goto(c, IF handler[c].pc = "resolve" THEN "read" ELSE "read_again")
    /\ UNCHANGED <<ack, tickets, missed, hubVars, resultVars, client, stopVars, leaves>>

Resolve(c) ==
    /\ handler[c].pc \in {"read", "read_again"}
    /\ IF request # "absent"
       THEN /\ handler' = [handler EXCEPT ![c].pc = "subscribe", ![c].seen = request]
            /\ UNCHANGED <<missed, hubVars, client>>
       ELSE IF handler[c].pc = "read"
       THEN Goto(c, "prior") /\ UNCHANGED <<missed, hubVars, client>>
       ELSE missed' = missed \cup {c} /\ Write(c, Frame("error")) /\ Return(c, TRUE)
    /\ UNCHANGED <<ack, tickets, resultVars, stopVars, leaves>>

WaitForPrior(c) ==
    /\ handler[c].pc = "prior" /\ ~PriorPending(c)
    /\ Goto(c, "resolve_again")
    /\ UNCHANGED <<ack, tickets, missed, hubVars, resultVars, client, stopVars, leaves>>

\* subscribe_delivery, subscribe, and the first turn of serve_durable_request.
Subscribe(c) ==
    /\ handler[c].pc = "subscribe"
    /\ handler' = [handler EXCEPT ![c].sub = TRUE,
                     ![c].pc = IF handler[c].seen = "active" THEN "greet" ELSE "poll",
                     ![c].opened = handler[c].seen # "active"]
    /\ queue' = [queue EXCEPT ![c].since = published.deltas]
    /\ UNCHANGED <<ack, tickets, missed, bytes, publish, published, resultVars, client, stopVars,
                   leaves>>

\* A delivered result is replayed by the handler, whole.
Replay(c) ==
    /\ handler[c].pc = "poll" /\ request = "delivered" /\ final[c] = "none"
    /\ client' = [client EXCEPT ![c] = Seen(Seen(@, Frame("begin")), Frame("end"))]
    /\ Return(c, TRUE)
    /\ UNCHANGED <<ack, tickets, missed, resultVars, stopVars, leaves>>

\* The loops of submit and serve_durable_request.
Forward(c) ==
    /\ handler[c].pc = "stream" /\ queue[c].events # <<>> /\ Reads(c)
    /\ Write(c, Head(queue[c].events))
    /\ queue' = [queue EXCEPT ![c].events = Tail(@)]
    /\ bytes' = bytes - Size(Head(queue[c].events))
    /\ UNCHANGED <<handler, ack, tickets, missed, publish, published, resultVars, stopVars, leaves>>

SeeDisconnect(c) ==
    /\ handler[c].pc \in {"stream", "poll"} /\ ~Reads(c)
    /\ Return(c, TRUE)
    /\ UNCHANGED <<ack, tickets, missed, resultVars, client, stopVars, leaves>>

-----------------------------------------------------------------------------
(* The run publishes, then commits a result (stream_hub.rs).               *)

Subscribers == {c \in Conns : handler[c].sub /\ handler[c].seen \in {"absent", "active"}}

\* An event for the subscriptions that exist now; a subscription that is
\* dropped meanwhile takes nothing.
Publish(kind) ==
    /\ request = "active" /\ publish.left = {} /\ published.events < MaxEvents
    /\ published' = [deltas |-> IF kind = "text" THEN published.deltas + 1 ELSE published.deltas,
                     events |-> published.events + 1]
    /\ publish' = [event |-> <<kind, IF kind = "text" THEN published'.deltas ELSE 0>>,
                   left |-> Subscribers]
    /\ UNCHANGED <<handler, ack, tickets, missed, queue, bytes, resultVars, client, stopVars,
                   leaves>>

Enqueued_NoMute(q, event) ==
    IF Len(q.events) < EventLimit - 1 /\ bytes + Size(event) <= ByteLimit
    THEN [q EXCEPT !.events = Append(@, event)]
    ELSE IF q.muted THEN q
    ELSE [q EXCEPT !.events = Append(@, Frame("gap")), !.muted = TRUE]
\* SubscriptionState::enqueue.
Enqueued(q, event) ==
    IF event[1] = "text" /\ q.muted THEN q
    ELSE IF Len(q.events) < EventLimit - 1 /\ bytes + Size(event) <= ByteLimit
    THEN [q EXCEPT !.events = Append(@, event)]
    ELSE IF q.muted THEN q
    ELSE [q EXCEPT !.events = Append(@, Frame("gap")), !.muted = TRUE]

PublishTo(c) ==
    /\ c \in publish.left
    /\ publish' = IF publish.left = {c} THEN NoEvent ELSE [publish EXCEPT !.left = @ \ {c}]
    /\ queue' = [queue EXCEPT ![c] = IF handler[c].sub THEN Enqueued(@, publish.event) ELSE EmptyQueue]
    /\ bytes' = bytes + Texts(queue'[c]) - Texts(queue[c])
    /\ UNCHANGED <<handler, ack, tickets, missed, published, resultVars, client, stopVars, leaves>>

\* finalize_run; the runner publishes nothing after it.
Finish ==
    /\ request = "active" /\ publish.left = {}
    /\ request' = "done"
    /\ UNCHANGED <<handler, ack, tickets, missed, hubVars, worker, final, client, stopVars, leaves>>

-----------------------------------------------------------------------------
(* The outbox worker on these sockets (outbox_worker.rs).                  *)

\* A claim and the snapshot of its recipients.
Transmit ==
    /\ worker = "idle" /\ request = "done"
    /\ LET recipients == {c \in Conns : handler[c].sub /\ final[c] = "none"} IN
       /\ recipients # {}
       /\ final' = [c \in Conns |-> IF c \in recipients THEN "due" ELSE final[c]]
    /\ worker' = "sending"
    /\ UNCHANGED <<handler, ack, tickets, request, missed, hubVars, client, stopVars, leaves>>

\* send_shared waits for open_delivery, then for the writer.
SendFinal(c) ==
    /\ final[c] \in {"due", "begun"} /\ handler[c].opened
    /\ IF handler[c].pc = "closed" \/ ~Reads(c)
       THEN final' = [final EXCEPT ![c] = "failed"] /\ UNCHANGED client
       ELSE /\ final' = [final EXCEPT ![c] = IF @ = "due" THEN "begun" ELSE "sent"]
            /\ Write(c, Frame(IF final[c] = "due" THEN "begin" ELSE "end"))
    /\ UNCHANGED <<handler, ack, tickets, request, missed, hubVars, worker, stopVars, leaves>>

\* The sends have ended; the wait for an acknowledgement ends with one, or
\* when every recipient has disconnected (its deadline: ResultDelivery).
TransmissionEnds ==
    /\ worker = "sending" /\ \A c \in Conns : final[c] \notin {"due", "begun"}
    /\ request = "delivered" \/ \A c \in Conns : final[c] # "none" => handler[c].pc = "closed"
    /\ worker' = "idle"
    /\ UNCHANGED <<handler, ack, tickets, request, missed, hubVars, final, client, stopVars, leaves>>

-----------------------------------------------------------------------------
(* Clients.                                                                *)

\* An interrupt of the client.
ClientLeaves(c) ==
    /\ client[c].mode \in {"waiting", "accepted", "final"} /\ handler[c].pc # "none"
    /\ leaves < MaxLeaves
    /\ client' = [client EXCEPT ![c].mode = "left"]
    /\ leaves' = leaves + 1
    /\ UNCHANGED <<handler, ack, tickets, missed, hubVars, resultVars, stopVars>>

\* A closed socket: the listener was dropped, or the handler has returned.
SeeEnd(c) ==
    /\ Reads(c) /\ client[c].mode # "verified"
    /\ \/ handler[c].pc = "closed"
       \/ handler[c].pc = "backlog" /\ stopping /\ \A d \in Conns : ~Live(d)
    /\ client' = [client EXCEPT ![c].mode = "recovering"]
    /\ IF handler[c].pc = "backlog" THEN Goto(c, "closed") ELSE UNCHANGED handler
    /\ UNCHANGED <<ack, tickets, missed, hubVars, resultVars, stopVars, leaves>>

\* drive_operation closes the stream before it acknowledges on a new one.
ConnectAck(c) ==
    /\ client[c].mode = "verified" /\ ack[c] = "none"
    /\ ack' = [ack EXCEPT ![c] = "backlog"]
    /\ client' = [client EXCEPT ![c].mode = "acking"]
    /\ UNCHANGED <<handler, tickets, missed, hubVars, resultVars, stopVars, leaves>>

AcceptAck(c) ==
    /\ ack[c] = "backlog" /\ ~stopping /\ InUse < Slots
    /\ ack' = [ack EXCEPT ![c] = "open"]
    /\ UNCHANGED <<handler, tickets, missed, hubVars, resultVars, client, stopVars, leaves>>

Acknowledge(c) ==
    /\ ack[c] = "open"
    /\ ack' = [ack EXCEPT ![c] = "done"]
    /\ request' = IF stopping THEN request ELSE "delivered"
    /\ UNCHANGED <<handler, tickets, missed, hubVars, worker, final, client, stopVars, leaves>>

-----------------------------------------------------------------------------
(* Shutdown of the server.                                                 *)

BeginShutdown ==
    /\ ~stopping
    /\ stopping' = TRUE
    /\ UNCHANGED <<handler, ack, tickets, missed, hubVars, resultVars, client, snapped, notices,
                   leaves>>

\* The sinks that are registered once the flag is set.
SnapshotSinks ==
    /\ stopping /\ ~snapped
    /\ snapped' = TRUE
    /\ notices' = {c \in Conns : Registered(c)}
    /\ UNCHANGED <<handler, ack, tickets, missed, hubVars, resultVars, client, stopping, leaves>>

Notify(c) ==
    /\ c \in notices
    /\ notices' = notices \ {c}
    /\ IF handler[c].pc = "closed" THEN UNCHANGED client ELSE Write(c, Frame("bye"))
    /\ UNCHANGED <<handler, ack, tickets, missed, hubVars, resultVars, stopping, snapped, leaves>>

-----------------------------------------------------------------------------
HandlerStep(c) ==
    \/ Register(c) \/ CheckFlag(c) \/ Decode(c) \/ StopWaiting(c) \/ Store(c) \/ Stored(c) \/ Greet(c)
    \/ WaitForSubmission(c) \/ Resolve(c) \/ WaitForPrior(c) \/ Subscribe(c) \/ Replay(c)
    \/ Forward(c) \/ SeeDisconnect(c)

ServerStep ==
    \/ \E c \in Conns : Accept(c) \/ AcceptAck(c) \/ HandlerStep(c) \/ Acknowledge(c) \/ Notify(c)
    \/ SnapshotSinks
WorkerStep == Transmit \/ TransmissionEnds \/ \E c \in Conns : SendFinal(c)
RunStep == Finish \/ \E c \in Conns : PublishTo(c)
ClientStep == \E c \in Conns : SeeEnd(c) \/ ConnectAck(c)

Next ==
    \/ \E c \in Conns, op \in {"submit", "resume"} : Connect(c, op)
    \/ \E c \in Conns : DecodeFails(c) \/ Refuse(c) \/ ClientLeaves(c)
    \/ \E kind \in {"text", "activity"} : Publish(kind)
    \/ ServerStep \/ WorkerStep \/ RunStep \/ ClientStep
    \/ BeginShutdown

Spec == Init /\ [][Next]_vars

\* The tasks of the executor run, the run ends, and a client does what follows
\* on the frames it reads.
Fairness == WF_vars(ServerStep) /\ WF_vars(WorkerStep) /\ WF_vars(RunStep) /\ WF_vars(ClientStep)

FairSpec == Spec /\ Fairness

-----------------------------------------------------------------------------
(* Properties.                                                             *)

TypeOK ==
    /\ handler \in [Conns -> HandlerRecords]
    /\ ack \in [Conns -> {"none", "backlog", "open", "done"}]
    /\ tickets \in Nat
    /\ request \in {"absent", "active", "done", "delivered"}
    /\ missed \subseteq Conns
    /\ queue \in [Conns -> QueueRecords]
    /\ bytes \in Nat
    /\ publish \in [event : Frames, left : SUBSET Conns]
    /\ published \in [deltas : Nat, events : Nat]
    /\ worker \in {"idle", "sending"}
    /\ final \in [Conns -> {"none", "due", "begun", "sent", "failed"}]
    /\ client \in [Conns -> ClientRecords]
    /\ {stopping, snapped} \subseteq BOOLEAN /\ notices \subseteq Conns
    /\ leaves \in Nat

\* A client that is told its request does not exist may submit it again: no
\* submission accepted before its own connection can still commit (the decode
\* tickets and the submission registry).
MissingIsDefinitive ==
    \A c \in missed, d \in Conns :
      Live(d) /\ handler[d].op = "submit" /\ handler[d].ticket < handler[c].ticket
        => handler[d].pc \notin {"spawned", "registered", "open", "waiting", "storing", "stored"}

\* A terminal shows the text without a hole, up to the last delta, or up to a
\* gap marker and nothing after it (enqueue, and the renderer's gap flag).
NoSilentLoss ==
    \A c \in Conns :
      /\ ~client[c].hole
      /\ client[c].mode = "accepted" /\ handler[c].pc = "stream" /\ queue[c].events = <<>> /\ ~Held(c)
           => client[c].gap \/ queue[c].since = published.deltas \/ client[c].last = published.deltas

\* The hub's count of queued bytes is what the queues hold, those of
\* connections that went away while an event was published to them included,
\* and stays in its limit: no departure uses up the budget of the others.
BudgetIsExact ==
    /\ bytes = Cardinality({x \in Conns \X (1 .. EventLimit) :
                              x[2] \in DOMAIN queue[x[1]].events /\ queue[x[1]].events[x[2]][1] = "text"})
    /\ bytes <= ByteLimit
    /\ \A c \in Conns : Len(queue[c].events) <= EventLimit
    /\ \A c \in Conns : ~handler[c].sub /\ ~Held(c) => queue[c].events = <<>>

\* Everyone who was accepted while the run went on is served: the client ends
\* with the result, or with an error after which it resumes; every session ends
\* after a shutdown began, and its client was told or saw the end of the stream
\* (register, begin_shutdown and their two flag checks); and a full pool never
\* keeps a verified result from being acknowledged.
EverySessionEnds ==
    /\ \A c \in Conns :
         handler[c].pc = "stream" /\ request = "active" ~> ~Reads(c) \/ stopping
    /\ stopping ~> \A c \in Conns : ~Live(c) /\ (handler[c].pc = "closed" => ~Reads(c))
    /\ \A c \in Conns : client[c].mode \in {"verified", "acking"} ~> request = "delivered" \/ stopping

=============================================================================
