---------------------------- MODULE ResultDelivery ----------------------------
(***************************************************************************)
(* Delivery of the result of one local request: the row of result_bundles, *)
(* the outbox worker that claims it and sends it to the subscribers, the   *)
(* IPC sessions that subscribe by Submit or Resume, their delivery sinks,  *)
(* and the clients, which acknowledge on a connection of their own.        *)
(*                                                                         *)
(* Every action is one SQLite transaction, one write to a socket, or one   *)
(* await of the worker, of a session or of a client.  Sessions run as      *)
(* tasks of their own; the sends of one transmission run inside the        *)
(* worker's task, so they advance only while the worker awaits them.       *)
(*                                                                         *)
(* Abstractions: a claim's deadline, a retry time and the ACK deadline are *)
(* Booleans or choices; a FinalBegin .. FinalEnd sequence is one write     *)
(* that holds the sink's lock while it waits for the socket; stored        *)
(* bundles are well formed; transient stream events are left out.  The     *)
(* commit of the result is the environment (module ActorMailbox).          *)
(* MaxPauses and MaxCrashes bound the instance.                            *)
(*                                                                         *)
(* A definition named Name_Variant is a deliberately wrong variant of Name *)
(* that no specification uses: substituted for Name it breaks a property.  *)
(***************************************************************************)
EXTENDS Integers, FiniteSets

CONSTANTS
    Conns,       \* operation connections, each used by one Submit or Resume
    MaxPauses,   \* bound: suspensions of the daemon that outlast the claim
    MaxCrashes   \* bound: crashes and shutdowns

ASSUME BoundsAssumption == MaxPauses \in Nat /\ MaxCrashes \in Nat

VARIABLES
    request,  \* the row of local_requests
    bundle,   \* the row of result_bundles
    pc,       \* where the outbox worker is
    send,     \* the worker's send to each recipient of the transmission
    session,  \* the server's side of each connection, with its sink
    client,   \* the client at the other end
    pauses,   \* suspensions spent
    crashes   \* crashes spent

rowVars    == <<request, bundle>>
workerVars == <<pc, send>>
boundVars  == <<pauses, crashes>>
vars == <<request, bundle, pc, send, session, client, pauses, crashes>>

\* "detached": active without a work item.
RequestStates == {"absent", "active", "detached", "terminal"}

BundleRecords ==
    [state : {"none", "pending", "delivering", "failed_retryable", "delivered"},
     owner : {"none", "worker", "dead"}, expired : BOOLEAN, due : BOOLEAN]

WorkerStates ==
    {"idle", "claim", "slot", "load", "snapshot", "sending", "ack",
     "abort_retry", "abort_fenced", "retry", "down"}

\* "opening" waits for the sink to open, "writing" is in the middle of a frame
\* and holds the sink's writer.
SendStates == {"none", "opening", "writing", "ok", "failed"}

SessionRecords ==
    [phase : {"none", "submit", "reread", "resolve", "subscribe", "dispatch", "accept",
              "stream", "poll", "replay", "park", "closing", "done"},
     seen : {"absent", "active", "detached", "undelivered", "delivered"},
     subscribed : BOOLEAN, open : BOOLEAN, shut : BOOLEAN,
     part : {"none", "transmission", "replay"}, begun : Nat]

\* "served" has the whole sequence in its socket, "final" has verified it and
\* closed the connection, "unacked" was interrupted before it acknowledged.
ClientStates == {"none", "reading", "served", "final", "acked", "unacked", "left"}

Stored(state) == [state |-> state, owner |-> "none", expired |-> FALSE, due |-> TRUE]
NoSends == [c \in Conns |-> "none"]
NewSession(phase) ==
    [phase |-> phase, seen |-> "absent", subscribed |-> FALSE, open |-> FALSE,
     shut |-> FALSE, part |-> "none", begun |-> 0]

Init ==
    /\ request = "absent" /\ bundle = Stored("none")
    /\ pc = "idle" /\ send = NoSends
    /\ session = [c \in Conns |-> NewSession("none")]
    /\ client = [c \in Conns |-> "none"]
    /\ pauses = 0 /\ crashes = 0

Up == pc # "down"
Connected(c) == client[c] \in {"reading", "served"}
Subscribers == {c \in Conns : session[c].subscribed}
Recipients == {c \in Conns : send[c] # "none"}

Phase(c, phase) == session' = [session EXCEPT ![c].phase = phase]

-----------------------------------------------------------------------------
(* The request and its result (other components).                          *)

\* finalize_run, cancel_run or record_failure stores the bundle.
CommitResult ==
    /\ request = "active" /\ Up
    /\ request' = "terminal" /\ bundle' = Stored("pending")
    /\ UNCHANGED <<workerVars, session, client, boundVars>>

\* A failed run detaches the request's event; attach_next_run reassigns it.
DetachOrAssign ==
    /\ Up
    /\ \/ request = "active" /\ request' = "detached"
       \/ request = "detached" /\ request' = "active"
    /\ UNCHANGED <<bundle, workerVars, session, client, boundVars>>

-----------------------------------------------------------------------------
(* Sessions (ipc/server.rs).                                               *)

SubmissionInFlight == \E c \in Conns : session[c].phase = "submit"

\* The submission is registered and subscribes before it is durable.
ConnectSubmit(c) ==
    /\ Up /\ session[c].phase = "none" /\ ~SubmissionInFlight
    /\ session' = [session EXCEPT ![c] =
                     [NewSession("submit") EXCEPT !.subscribed = TRUE]]
    /\ client' = [client EXCEPT ![c] = "reading"]
    /\ UNCHANGED <<rowVars, workerVars, boundVars>>

ConnectResume(c) ==
    /\ Up /\ session[c].phase = "none"
    /\ session' = [session EXCEPT ![c] = NewSession("resolve")]
    /\ client' = [client EXCEPT ![c] = "reading"]
    /\ UNCHANGED <<rowVars, workerVars, boundVars>>

\* What resolve_local_request reads.
Record ==
    IF request # "terminal" THEN request
    ELSE IF bundle.state = "delivered" THEN "delivered" ELSE "undelivered"

\* submit_for_actor: a duplicate that still has a work item is accepted like a
\* new submission, whatever became of it.
SubmitForActor(c) ==
    /\ session[c].phase = "submit"
    /\ request' = IF request = "absent" THEN "active" ELSE request
    /\ IF request = "detached"
       THEN Phase(c, "reread")
       ELSE Phase(c, "accept")
    /\ UNCHANGED <<bundle, workerVars, client, boundVars>>

\* resume waits for a submission in flight, reads the request, subscribes.
Resolve(c) ==
    /\ session[c].phase = "resolve" /\ ~SubmissionInFlight
    /\ session' = [session EXCEPT ![c].phase = "subscribe", ![c].seen = Record]
    /\ UNCHANGED <<rowVars, workerVars, client, boundVars>>

SubscribeDelivery(c) ==
    /\ session[c].phase = "subscribe"
    /\ session' = [session EXCEPT ![c].phase = "dispatch",
                                  ![c].subscribed = session[c].seen # "absent"]
    /\ UNCHANGED <<rowVars, workerVars, client, boundVars>>

Ended(s) == [s EXCEPT !.phase = "done", !.subscribed = FALSE]

ReserveReplay_Always(s) == TRUE

\* A connection that took part in the transmission gets no replay.
ReserveReplay(s) == s.part # "transmission"

\* A FinalBegin goes out; whoever is sent two has been sent too many.
Begin(s) == [s EXCEPT !.begun = IF @ < 2 THEN @ + 1 ELSE @]

\* serve_durable_request: what to do about the record that was read.
Dispatched(s) ==
    CASE s.seen = "absent" -> Ended(s)
      [] s.seen = "active" -> [s EXCEPT !.phase = "accept"]
      [] s.seen = "detached" -> [s EXCEPT !.phase = "poll"]
      [] s.seen = "undelivered" -> [s EXCEPT !.phase = "poll", !.open = TRUE]
      [] s.seen = "delivered" /\ ReserveReplay(s) ->
           [Begin(s) EXCEPT !.phase = "replay", !.open = TRUE, !.part = "replay"]
      [] OTHER -> [s EXCEPT !.phase = "park", !.open = TRUE]

ServeDurableRequest(c) ==
    /\ session[c].phase = "dispatch"
    /\ session' = [session EXCEPT ![c] = Dispatched(@)]
    /\ UNCHANGED <<rowVars, workerVars, client, boundVars>>

\* The Accepted frame, then open_delivery.  When the write fails the handler
\* returns at once, with the sink still closed.
SendAccepted(c) ==
    /\ session[c].phase = "accept"
    /\ session' = [session EXCEPT ![c] =
         IF Connected(c) /\ ~@.shut THEN [@ EXCEPT !.phase = "stream", !.open = TRUE]
         ELSE Ended(@)]
    /\ UNCHANGED <<rowVars, workerVars, client, boundVars>>

\* The request is read again every 50 ms (only a change matters), and once
\* after a duplicate submission found it without a work item.
PollRecord(c) ==
    /\ \/ session[c].phase = "poll" /\ Record # session[c].seen
       \/ session[c].phase = "reread"
    /\ session' = [session EXCEPT ![c].phase = "dispatch", ![c].seen = Record]
    /\ UNCHANGED <<rowVars, workerVars, client, boundVars>>

\* OutboxWorker::replay to the end, or to the first failing write.
Replay(c) ==
    /\ session[c].phase = "replay"
    /\ IF Connected(c) /\ ~session[c].shut
       THEN /\ Phase(c, "closing")
            /\ client' = [client EXCEPT ![c] = "served"]
       ELSE /\ session' = [session EXCEPT ![c] = Ended(@)]
            /\ UNCHANGED client
    /\ UNCHANGED <<rowVars, workerVars, boundVars>>

\* wait_for_disconnect returns and the handler closes the sink, which opens it
\* first and then needs its writer.
SeeDisconnect(c) ==
    /\ session[c].phase \in {"stream", "poll", "park"} /\ ~Connected(c)
    /\ session' = [session EXCEPT ![c].phase = "closing", ![c].open = TRUE]
    /\ UNCHANGED <<rowVars, workerVars, client, boundVars>>

Close(c) ==
    /\ session[c].phase = "closing" /\ send[c] # "writing"
    /\ session' = [session EXCEPT ![c] = [Ended(@) EXCEPT !.open = TRUE, !.shut = TRUE]]
    /\ UNCHANGED <<rowVars, workerVars, client, boundVars>>

-----------------------------------------------------------------------------
(* Clients (interfaces/cli.rs).                                            *)

\* The user interrupts the client, or it dies.
ClientLeaves(c) ==
    /\ client[c] \in {"reading", "served", "final"}
    /\ client' = [client EXCEPT ![c] = IF @ = "final" THEN "unacked" ELSE "left"]
    /\ UNCHANGED <<rowVars, workerVars, session, boundVars>>

\* The end of the stream before FinalEnd.
SeeEndOfStream(c) ==
    /\ client[c] = "reading" /\ (session[c].shut \/ session[c].phase = "done")
    /\ client' = [client EXCEPT ![c] = "left"]
    /\ UNCHANGED <<rowVars, workerVars, session, boundVars>>

\* The bundle is verified and the operation's connection closed.
VerifyFinal(c) ==
    /\ client[c] = "served"
    /\ client' = [client EXCEPT ![c] = "final"]
    /\ UNCHANGED <<rowVars, workerVars, session, boundVars>>

\* acknowledge_bundle, from a fresh connection.
AcknowledgeBundle(c) ==
    /\ Up /\ client[c] = "final"
    /\ client' = [client EXCEPT ![c] = "acked"]
    /\ bundle' = IF bundle.state \in {"delivering", "failed_retryable"}
                 THEN Stored("delivered") ELSE bundle
    /\ UNCHANGED <<request, workerVars, session, boundVars>>

-----------------------------------------------------------------------------
(* The outbox worker (outbox_worker.rs, sqlite/bundles.rs).                *)

Goto(next) == pc' = next /\ UNCHANGED send

\* run_once: nothing is claimed unless somebody is subscribed.
LookForSubscribers ==
    /\ pc = "idle" /\ Subscribers # {}
    /\ Goto("claim")
    /\ UNCHANGED <<rowVars, session, client, boundVars>>

ExpireClaim(b) ==
    IF b.state = "delivering" /\ b.expired THEN Stored("failed_retryable") ELSE b

Claimable_OnlyOnce(b) == b.state = "pending"
Claimable(b) == b.state \in {"pending", "failed_retryable"} /\ b.due

\* claim_ready_bundle_refs: expired claims are reset first.
ClaimReadyBundle ==
    /\ pc = "claim"
    /\ LET b == ExpireClaim(bundle) IN
         IF Claimable(b)
         THEN /\ bundle' = [state |-> "delivering", owner |-> "worker",
                            expired |-> FALSE, due |-> TRUE]
              /\ Goto("slot")
         ELSE bundle' = b /\ Goto("idle")
    /\ UNCHANGED <<request, session, client, boundVars>>

\* The same transaction on behalf of a subscriber of another request.
ExpireForOthers ==
    /\ pc = "idle" /\ ExpireClaim(bundle) # bundle
    /\ bundle' = ExpireClaim(bundle)
    /\ UNCHANGED <<request, workerVars, session, client, boundVars>>

\* The fence of renew_bundle, load_claimed_bundle and fail_bundle_retryable.
OwnsClaim ==
    bundle.state = "delivering" /\ bundle.owner = "worker" /\ ~bundle.expired

\* The transmission slot is granted and the claim renewed, or fenced.
AwaitTransmissionSlot ==
    /\ pc = "slot"
    /\ Goto(IF OwnsClaim THEN "load" ELSE "idle")
    /\ UNCHANGED <<rowVars, session, client, boundVars>>

LoadClaimedBundle ==
    /\ pc = "load"
    /\ Goto(IF OwnsClaim THEN "snapshot" ELSE "idle")
    /\ UNCHANGED <<rowVars, session, client, boundVars>>

\* reserve_snapshot: the subscribers that are not served by a replay.
Reservable == {c \in Subscribers : session[c].part # "replay"}

AfterSnapshot_NoRetry == IF Reservable = {} THEN "idle" ELSE "sending"
AfterSnapshot == IF Reservable = {} THEN "retry" ELSE "sending"

Snapshot ==
    /\ pc = "snapshot"
    /\ pc' = AfterSnapshot
    /\ send' = [c \in Conns |-> IF c \in Reservable THEN "opening" ELSE "none"]
    /\ session' = [c \in Conns |->
         IF c \in Reservable THEN [session[c] EXCEPT !.part = "transmission"]
         ELSE session[c]]
    /\ UNCHANGED <<rowVars, client, boundVars>>

SendTo(c, state) == send' = [send EXCEPT ![c] = state] /\ UNCHANGED pc

Writable(c) == Connected(c) /\ ~session[c].shut

IsOpen_Always(c) == TRUE
IsOpen(c) == session[c].open

\* send_shared: wait_until_open, then the frames.
BeginSend(c) ==
    /\ pc = "sending" /\ send[c] = "opening" /\ IsOpen(c) /\ Writable(c)
    /\ SendTo(c, "writing")
    /\ session' = [session EXCEPT ![c] = Begin(@)]
    /\ UNCHANGED <<rowVars, client, boundVars>>

EndSend(c) ==
    /\ pc = "sending" /\ send[c] = "writing" /\ Writable(c)
    /\ SendTo(c, "ok")
    /\ client' = [client EXCEPT ![c] = "served"]
    /\ UNCHANGED <<rowVars, session, boundVars>>

FailSend(c) ==
    /\ pc = "sending" /\ ~Writable(c)
    /\ send[c] \in {"opening", "writing"}
    /\ send[c] = "opening" => IsOpen(c)
    /\ SendTo(c, "failed")
    /\ session' = [session EXCEPT ![c].shut = TRUE]
    /\ UNCHANGED <<rowVars, client, boundVars>>

SendsEnd ==
    /\ pc = "sending"
    /\ \A c \in Conns : send[c] \in {"none", "ok", "failed"}
    /\ IF \E c \in Conns : send[c] = "ok" THEN Goto("ack")
       ELSE pc' = "retry" /\ send' = NoSends
    /\ UNCHANGED <<rowVars, session, client, boundVars>>

\* A renewal finds the claim gone; a bundle that was acknowledged meanwhile is
\* no reason to stop the other sends.
Fenced_AlsoByAck == ~OwnsClaim
Fenced == ~OwnsClaim /\ bundle.state # "delivered"

FencedWhileSending ==
    /\ pc = "sending" /\ Fenced
    /\ Goto("abort_fenced")
    /\ UNCHANGED <<rowVars, session, client, boundVars>>

\* wait_for_ack: the poll or a renewal sees the acknowledgement ...
SeeDelivered ==
    /\ pc = "ack" /\ bundle.state = "delivered"
    /\ pc' = "idle" /\ send' = NoSends
    /\ UNCHANGED <<rowVars, session, client, boundVars>>

\* ... or the deadline elapses or every recipient has gone ...
GiveUpOnAck ==
    /\ pc = "ack"
    /\ Goto("abort_retry")
    /\ UNCHANGED <<rowVars, session, client, boundVars>>

\* ... or a renewal finds the claim gone.
FencedWhileWaiting ==
    /\ pc = "ack" /\ Fenced
    /\ Goto("abort_fenced")
    /\ UNCHANGED <<rowVars, session, client, boundVars>>

Aborting == pc \in {"abort_retry", "abort_fenced"}

CloseSink(s) == [s EXCEPT !.open = TRUE, !.shut = TRUE]

\* abort_recipients closes each sink, for which it needs the sink's writer.
AbortRecipient(c) ==
    /\ Aborting /\ send[c] \notin {"none", "writing"}
    /\ session' = [session EXCEPT ![c] = CloseSink(@)]
    /\ SendTo(c, "none")
    /\ UNCHANGED <<rowVars, client, boundVars>>

AbortEnds ==
    /\ Aborting /\ Recipients = {}
    /\ Goto(IF pc = "abort_retry" THEN "retry" ELSE "idle")
    /\ UNCHANGED <<rowVars, session, client, boundVars>>

BackingOff == [Stored("failed_retryable") EXCEPT !.due = FALSE]

Retried_Unfenced(b) == BackingOff

\* With the claim gone or the bundle delivered, nothing is written.
Retried(b) == IF OwnsClaim THEN BackingOff ELSE b

FailBundleRetryable ==
    /\ pc = "retry"
    /\ bundle' = Retried(bundle)
    /\ Goto("idle")
    /\ UNCHANGED <<request, session, client, boundVars>>

-----------------------------------------------------------------------------
(* Time, crashes, shutdown and restart.                                    *)

BackoffElapses ==
    /\ bundle.state = "failed_retryable" /\ ~bundle.due
    /\ bundle' = [bundle EXCEPT !.due = TRUE]
    /\ UNCHANGED <<request, workerVars, session, client, boundVars>>

\* A dead process' claim runs out; a live one renews its own in time unless
\* the machine is suspended or its clock jumps.
DeadClaimExpires ==
    /\ bundle.owner = "dead" /\ ~bundle.expired
    /\ bundle' = [bundle EXCEPT !.expired = TRUE]
    /\ UNCHANGED <<request, workerVars, session, client, boundVars>>

LiveClaimExpires ==
    /\ OwnsClaim /\ pauses < MaxPauses
    /\ pauses' = pauses + 1
    /\ bundle' = [bundle EXCEPT !.expired = TRUE]
    /\ UNCHANGED <<request, workerVars, session, client, crashes>>

\* The process ends and every connection with it.
ProcessEnds ==
    /\ Up /\ crashes < MaxCrashes
    /\ crashes' = crashes + 1
    /\ pc' = "down" /\ send' = NoSends
    /\ session' = [c \in Conns |->
         IF session[c].phase = "none" THEN session[c] ELSE CloseSink(Ended(session[c]))]
    /\ UNCHANGED <<request, client, pauses>>

Crash ==
    /\ ProcessEnds
    /\ bundle' = IF bundle.owner = "worker" THEN [bundle EXCEPT !.owner = "dead"]
                 ELSE bundle

\* recover_shutdown gives the process' own claims back.
Shutdown ==
    /\ ProcessEnds
    /\ bundle' = IF bundle.owner = "worker" THEN Stored("failed_retryable") ELSE bundle

\* recover_startup resets the claims that have expired.
Restart ==
    /\ pc = "down"
    /\ pc' = "idle" /\ bundle' = ExpireClaim(bundle)
    /\ UNCHANGED <<request, send, session, client, boundVars>>

-----------------------------------------------------------------------------
SessionStep(c) ==
    \/ SubmitForActor(c) \/ Resolve(c) \/ SubscribeDelivery(c)
    \/ ServeDurableRequest(c) \/ SendAccepted(c) \/ PollRecord(c) \/ Replay(c)
    \/ SeeDisconnect(c) \/ Close(c)

ClientStep(c) == SeeEndOfStream(c) \/ VerifyFinal(c) \/ AcknowledgeBundle(c)

SendStep(c) == BeginSend(c) \/ EndSend(c) \/ FailSend(c) \/ AbortRecipient(c)

WorkerStep ==
    \/ LookForSubscribers
    \/ ClaimReadyBundle
    \/ AwaitTransmissionSlot
    \/ LoadClaimedBundle
    \/ Snapshot
    \/ SendsEnd
    \/ FencedWhileSending
    \/ SeeDelivered
    \/ GiveUpOnAck
    \/ FencedWhileWaiting
    \/ AbortEnds
    \/ FailBundleRetryable

Next ==
    \/ CommitResult \/ DetachOrAssign
    \/ \E c \in Conns : \/ ConnectSubmit(c) \/ ConnectResume(c) \/ ClientLeaves(c)
                        \/ SessionStep(c) \/ ClientStep(c) \/ SendStep(c)
    \/ WorkerStep \/ ExpireForOthers
    \/ BackoffElapses \/ DeadClaimExpires \/ LiveClaimExpires
    \/ Crash \/ Shutdown \/ Restart

Spec == Init /\ [][Next]_vars

\* Tasks of the executor run; a client that stays reads what it is sent, and
\* acknowledges unless it is interrupted; deadlines of the clock pass; a dead
\* daemon is started again (Restart=always).
Fairness ==
    /\ \A c \in Conns : /\ WF_vars(SessionStep(c))
                        /\ WF_vars(ClientStep(c))
                        /\ WF_vars(SendStep(c))
    /\ WF_vars(WorkerStep)
    /\ WF_vars(BackoffElapses)
    /\ WF_vars(DeadClaimExpires)
    /\ WF_vars(Restart)

FairSpec == Spec /\ Fairness

-----------------------------------------------------------------------------
(* Properties.                                                             *)

\* The rows, the worker, the sessions and the clients hold values of their type.
TypeOK ==
    /\ request \in RequestStates
    /\ bundle \in BundleRecords
    /\ pc \in WorkerStates
    /\ send \in [Conns -> SendStates]
    /\ session \in [Conns -> SessionRecords]
    /\ client \in [Conns -> ClientStates]
    /\ pauses \in 0..MaxPauses
    /\ crashes \in 0..MaxCrashes

\* A connection is sent one bundle sequence at most: the transmission, a
\* later transmission of the same bundle and the replay by its own handler
\* exclude each other, or the client would reject the second FinalBegin.
OneSequencePerConnection == \A c \in Conns : session[c].begun <= 1

\* No final frame precedes the Accepted frame of its connection, although the
\* worker finds the subscriber while the handler is still reading the request.
FinalAfterAccepted ==
    \A c \in Conns :
      session[c].phase \in {"submit", "resolve", "subscribe", "accept"} =>
        session[c].begun = 0

ClaimHolding == {"slot", "load", "snapshot", "sending", "ack", "abort_retry", "retry"}

\* The worker's belief about its claim and the row agree: while it works on a
\* bundle nobody else takes the claim or resets it (only an ACK ends it), and
\* a claim it walks away from is one that expires, never one that is renewed
\* or kept alive with nobody working on it.
ClaimFollowsWorker ==
    /\ pc \in ClaimHolding =>
         \/ bundle.state = "delivered"
         \/ bundle.state = "delivering" /\ bundle.owner = "worker"
    /\ pc \in {"idle", "claim"} /\ bundle.owner = "worker" => bundle.expired

\* An acknowledgement by one client never makes the worker cut off the send to
\* another client of the same bundle.
AckNeverTruncates ==
    [][\A c \in Conns :
         pc = "sending" /\ send[c] \in {"opening", "writing"} /\ pc' \notin {"sending", "down"}
           => bundle.state # "delivered"]_vars

\* The detailed protocol keeps the promise of ResultContract.
ContractResult ==
    CASE bundle.state = "none" -> "none"
      [] bundle.state = "pending" -> "stored"
      [] bundle.state = "delivering" -> "offered"
      [] bundle.state = "failed_retryable" -> "withdrawn"
      [] bundle.state = "delivered" -> "delivered"
ContractReaders == {c \in Conns : client[c] \in {"final", "acked", "unacked"}}

Contract ==
    INSTANCE ResultContract WITH
      Clients <- Conns, result <- ContractResult, readers <- ContractReaders

\* Every step of worker, sessions and clients is a step of the contract or
\* changes nothing it speaks of: a bundle becomes delivered only after a client
\* verified all of it, and is never claimed or retried again.
ImplementsContract == Contract!Spec

Waiting(c) == client[c] = "reading" /\ session[c].subscribed

\* The worker waits for a sink whose handler ended without opening it
\* (serve_durable_request), or for the writers of a fenced transmission.
Blocked ==
    \/ pc = "abort_fenced"
    \/ \E c \in Conns : /\ client[c] = "left" /\ ~session[c].open
                        /\ session[c].subscribed \/ send[c] = "opening"

\* A stored result for which a client waits is eventually acknowledged, or no
\* client waits for it any more, through crashes, suspensions and disconnects,
\* unless the worker itself is blocked (run_once, serve_durable_request).
ResultReachesAClient ==
    request = "terminal" /\ bundle.state # "delivered" /\ (\E c \in Conns : Waiting(c))
      ~> bundle.state = "delivered" \/ (~\E c \in Conns : Waiting(c)) \/ Blocked

=============================================================================
