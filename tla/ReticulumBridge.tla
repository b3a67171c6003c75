-------------------------- MODULE ReticulumBridge --------------------------
(***************************************************************************)
(* The Reticulum gateway as the two processes it is: the worker of         *)
(* GatewayDelivery, the Python bridge that it starts and talks to through  *)
(* two pipes (interfaces/reticulum/bridge.rs and bridge.py), the LXMF      *)
(* router in the bridge, whose callbacks run in threads of their own, and  *)
(* the messages from the network that the worker handles between and       *)
(* during its deliveries (interfaces/reticulum/ingress.rs).                *)
(*                                                                         *)
(* The bridge writes one line per event to a pipe of limited size, and the *)
(* worker reads it only while it waits: for the outcome of a delivery, or  *)
(* for half a second after a claim that found nothing.  One peer sends     *)
(* the messages from the network, and gets the answers.  The deliveries of *)
(* Telegram are those of GatewayDelivery; here its worker only has to stop.*)
(*                                                                         *)
(* A definition named Name_Variant is a deliberately wrong variant of Name *)
(* that no specification uses.                                             *)
(***************************************************************************)
EXTENDS GatewayDelivery

CONSTANTS
    Inbounds,   \* messages from the network; each also names its answer's row
    PipeLimit,  \* bound: events that fit into the pipe
    None

ASSUME BridgeAssumption ==
    /\ Inbounds \subseteq Messages
    /\ Peers # {} /\ PipeLimit \in Nat \ {0}

VARIABLES
    bridge,    \* the bridge: its main thread and the deliveries it owes an outcome
    command,   \* the send command that is written and not yet read
    pipe,      \* the events that are written and not yet read
    air,       \* LXMF messages the router has not called back for, by delivery
    inbound,   \* what became of each message from the network
    held,      \* the worker's wait for an event, or the message it is handling
    admitted   \* whether the peer is linked to an actor that is enabled

bridgeVars == <<bridge, command, pipe, air, inbound, held, admitted>>
allVars == <<vars, bridgeVars>>

NoBridge == [pc |-> "none", of |-> None, active |-> {}]
NoneHeld == [of |-> None, step |-> "none"]
Polling == [of |-> None, step |-> "polling"]
NoAir == [d \in Deliveries |-> 0]

Ready == [type |-> "ready", of |-> None, answer |-> "unknown"]
Torn == [type |-> "torn", of |-> None, answer |-> "unknown"]
InboundEvent(i) == [type |-> "inbound", of |-> i, answer |-> "unknown"]
DeliveryEvent(d, answer) == [type |-> "delivery", of |-> d, answer |-> answer]

BridgeInit ==
    /\ Init
    /\ bridge = [NoBridge EXCEPT !.pc = "reading"]
    /\ command = None /\ pipe = <<>>
    /\ air = NoAir
    /\ inbound = [i \in Inbounds |-> "none"] /\ held = NoneHeld
    /\ admitted = TRUE

\* The life of a bridge is over: what it had written or was about to is lost.
Ended ==
    /\ bridge' = NoBridge /\ command' = None /\ pipe' = <<>> /\ air' = NoAir
    /\ inbound' = [i \in Inbounds |-> IF inbound[i] = "out" THEN "lost" ELSE inbound[i]]
    /\ held' = NoneHeld

Spend == faults < MaxFaults /\ faults' = faults + 1
BoundsOnly == UNCHANGED <<queue, row, outcome, tg, rn, process, stops>>

-----------------------------------------------------------------------------
(* The bridge (bridge.py).                                                 *)

Alive == bridge.pc \in {"starting", "reading", "sending"}

\* emit: a writer that finds no room blocks, and with it every other writer.
Emit(event) == Len(pipe) < PipeLimit /\ pipe' = Append(pipe, event)

BridgeReady ==
    /\ bridge.pc = "starting"
    /\ Emit(Ready)
    /\ bridge' = [bridge EXCEPT !.pc = "reading"]
    /\ UNCHANGED <<vars, command, air, inbound, held, admitted>>

\* The callback is registered before the bridge says that it is ready.  A
\* message that is not a signed text without a title never gets this far.
BridgeInbound(i) ==
    /\ Alive /\ inbound[i] = "none"
    /\ Emit(InboundEvent(i))
    /\ inbound' = [inbound EXCEPT ![i] = "out"]
    /\ UNCHANGED <<vars, bridge, command, air, held, admitted>>

ReadCommand ==
    /\ bridge.pc = "reading" /\ command # None
    /\ bridge' = IF command \in bridge.active
                 THEN [bridge EXCEPT !.pc = "dead"]
                 ELSE [pc |-> "sending", of |-> command, active |-> bridge.active \cup {command}]
    /\ command' = None
    /\ UNCHANGED <<vars, pipe, air, inbound, held, admitted>>

Listening(active) == [pc |-> "reading", of |-> None, active |-> active]

Report_Always(d, answer, b) ==
    /\ Emit(DeliveryEvent(d, answer))
    /\ bridge' = [b EXCEPT !.active = @ \ {d}]
\* delivery: only the first outcome of a command is reported.
Report(d, answer, b) ==
    IF d \in bridge.active
    THEN Emit(DeliveryEvent(d, answer)) /\ bridge' = [b EXCEPT !.active = @ \ {d}]
    ELSE UNCHANGED pipe /\ bridge' = b

HandOver ==
    /\ bridge.pc = "sending"
    /\ air' = [air EXCEPT ![bridge.of] = @ + 1]
    /\ bridge' = Listening(bridge.active)
    /\ UNCHANGED <<vars, command, pipe, inbound, held, admitted>>

\* A command that is invalid, or whose recipient is not known after 15 s.
AnswerAtOnce(answer) ==
    /\ bridge.pc = "sending"
    /\ Report(bridge.of, answer, Listening(bridge.active))
    /\ IF answer = "retryable" THEN Spend ELSE UNCHANGED faults
    /\ BoundsOnly
    /\ UNCHANGED <<command, air, inbound, held, admitted>>

\* handle_outbound raises: the router may have taken the message all the same.
HandOverFails ==
    /\ bridge.pc = "sending" /\ Spend
    /\ Report(bridge.of, "retryable", Listening(bridge.active))
    /\ \E n \in {0, 1} : air' = [air EXCEPT ![bridge.of] = @ + n]
    /\ BoundsOnly
    /\ UNCHANGED <<command, inbound, held, admitted>>

\* The delivery and failure callbacks of a message, in threads of the router.
CallBack(d, answer) ==
    /\ Alive /\ air[d] > 0
    /\ Report(d, answer, bridge)
    /\ air' = [air EXCEPT ![d] = @ - 1]
    /\ IF answer = "retryable" THEN Spend ELSE UNCHANGED faults
    /\ BoundsOnly
    /\ UNCHANGED <<command, inbound, held, admitted>>

\* The process ends, or raises, says fatal and ends: the worker reads what is
\* left in the pipe and then an error.
BridgeDies ==
    /\ Alive /\ Spend
    /\ bridge' = [bridge EXCEPT !.pc = "dead"]
    /\ BoundsOnly
    /\ UNCHANGED <<command, pipe, air, inbound, held, admitted>>

BridgeMain ==
    \/ BridgeReady \/ ReadCommand \/ HandOver \/ HandOverFails
    \/ \E answer \in {"terminal", "retryable"} : AnswerAtOnce(answer)

-----------------------------------------------------------------------------
(* The worker and its bridge (reticulum.rs, bridge.rs).                    *)

\* One thing at a time: the worker is neither waiting nor handling a message.
Busy == held # NoneHeld

\* A claim that finds nothing is followed by a wait of 500 ms for an event.
Claim(expired, backoff) ==
    /\ ~Busy
    /\ RnClaim(expired, backoff)
    /\ held' = IF rn'.pc = "idle" THEN Polling ELSE held
    /\ UNCHANGED <<bridge, command, pipe, air, inbound, admitted>>

\* send: writing to a bridge that has gone fails.
Submit ==
    /\ rn.pc = "guarded"
    /\ outcome' = [outcome EXCEPT ![Sending] = "doubt"]
    /\ IF bridge.pc = "dead"
       THEN RnMoves([rn EXCEPT !.pc = "lost", !.answer = "unknown"]) /\ UNCHANGED command
       ELSE RnMoves([rn EXCEPT !.pc = "awaiting"]) /\ command' = Sending
    /\ UNCHANGED <<row, faults, bridge, pipe, air, inbound, held, admitted>>

\* Where the worker awaits next_event.
Waits == held = Polling \/ (rn.pc = "awaiting" /\ ~Busy)

Reads_DeliveringOnly(type) ==
    rn.pc = "awaiting" /\ ~Busy /\ pipe # <<>> /\ Head(pipe).type = type
Reads(type) == Waits /\ pipe # <<>> /\ Head(pipe).type = type

ReadInbound ==
    /\ Reads("inbound")
    /\ held' = [of |-> Head(pipe).of, step |-> "read"]
    /\ pipe' = Tail(pipe)
    /\ UNCHANGED <<vars, bridge, command, air, inbound, admitted>>

Expected == rn.pc = "awaiting" /\ Head(pipe).of = Sending

\* An outcome nobody waits for ends the worker.
ReadOutcome ==
    /\ Reads("delivery")
    /\ IF Expected
       THEN /\ outcome' = [outcome EXCEPT ![Sending] = Head(pipe).answer]
            /\ RnMoves([rn EXCEPT !.pc = "answered", !.answer = Head(pipe).answer])
       ELSE UNCHANGED outcome /\ RnMoves(RnFails)
    /\ pipe' = Tail(pipe) /\ held' = NoneHeld
    /\ UNCHANGED <<row, faults, bridge, command, air, inbound, admitted>>

\* The rest of a line, or the end of the pipe.
ReadError ==
    /\ Reads("torn") \/ (Waits /\ pipe = <<>> /\ bridge.pc = "dead")
    /\ RnMoves(IF rn.pc = "awaiting" THEN [rn EXCEPT !.pc = "lost", !.answer = "unknown"] ELSE RnFails)
    /\ held' = NoneHeld
    /\ UNCHANGED <<row, outcome, faults, bridge, command, pipe, air, inbound, admitted>>

\* next_event is dropped while it reads a line, and read_protocol_line forgets
\* the part it has consumed.
TearLine ==
    /\ pipe # <<>> /\ Head(pipe).type # "torn"
    /\ pipe' = [pipe EXCEPT ![1] = Torn]
    /\ inbound' = IF Head(pipe).type = "inbound"
                  THEN [inbound EXCEPT ![Head(pipe).of] = "lost"] ELSE inbound

\* The wait is over, with no line or a part of one: timeout looks for the event
\* first.
PollEnds ==
    /\ held = Polling
    /\ TearLine \/ (pipe = <<>> /\ bridge.pc # "dead" /\ UNCHANGED <<pipe, inbound>>)
    /\ held' = NoneHeld
    /\ UNCHANGED <<vars, bridge, command, air, admitted>>

\* A tick of the renewal, which select! may take before the event.
RenewClaim ==
    /\ ~Busy
    /\ RnRenew
    /\ TearLine \/ UNCHANGED <<pipe, inbound>>
    /\ UNCHANGED <<bridge, command, air, held, admitted>>

-----------------------------------------------------------------------------
(* A message from the network (ingress.rs).                                *)

Handled == inbound' = [inbound EXCEPT ![held.of] = "handled"] /\ held' = NoneHeld

\* The message the worker was handling, if any, is lost.
Dropped ==
    /\ held' = NoneHeld
    /\ inbound' = [i \in Inbounds |-> IF i = held.of THEN "lost" ELSE inbound[i]]

\* A peer that is not admitted, or that sends a command, gets an answer; a code
\* it redeems may admit it, before the answer is stored.
ResolveIdentity ==
    /\ held.step = "read"
    /\ \/ admitted /\ held' = [held EXCEPT !.step = "resolved"] /\ UNCHANGED admitted
       \/ held' = [held EXCEPT !.step = "refused"] /\ admitted' \in {admitted, TRUE}
    /\ UNCHANGED <<vars, bridge, command, pipe, air, inbound>>

EnqueueResponse ==
    /\ held.step = "refused"
    /\ \E a \in Peers : EnqueueGatewayDelivery(held.of, a)
    /\ Handled
    /\ UNCHANGED <<bridge, command, pipe, air, admitted>>

\* The identity is read again inside the transaction, and its loss is an error.
IngestMessage ==
    /\ held.step = "resolved"
    /\ IF admitted
       THEN Handled /\ UNCHANGED vars
       ELSE Dropped /\ RnMoves(RnFails) /\ UNCHANGED <<row, outcome, faults>>
    /\ UNCHANGED <<bridge, command, pipe, air, admitted>>

\* Administration disables the peer's actor, deletes it or enables it.
Administer ==
    /\ Spend
    /\ admitted' = ~admitted
    /\ BoundsOnly
    /\ UNCHANGED <<bridge, command, pipe, air, inbound, held>>

-----------------------------------------------------------------------------
(* How the worker ends.                                                    *)

\* A store call fails, in the handling of a message too.
WorkerFails ==
    /\ held # Polling
    /\ RnError
    /\ Dropped
    /\ UNCHANGED <<bridge, command, pipe, air, admitted>>

\* The select! over run_delivery_once drops a message that is being handled in
\* there; one that was read after it is handled to its end.
Interrupt ==
    /\ rn.pc = "idle" => held.of = None
    /\ RnInterrupt
    /\ Dropped
    /\ UNCHANGED <<bridge, command, pipe, air, admitted>>

\* The bridge is told to stop, and killed after five seconds; not if the
\* transition was refused.
Cleanup ==
    /\ RnCleanup
    /\ IF rn.active # NoClaim /\ ~Fence(rn.active)
       THEN UNCHANGED <<bridge, command, pipe, air, inbound, held>>
       ELSE Ended
    /\ UNCHANGED admitted

-----------------------------------------------------------------------------
(* Processes.                                                              *)

\* The daemon and its bridge die together (kill_on_drop, end of standard input).
DaemonEnds ==
    /\ Exit \/ Crash
    /\ Ended
    /\ UNCHANGED admitted

SpawnBridge ==
    /\ process = "down" /\ bridge.pc = "none"
    /\ bridge' = [NoBridge EXCEPT !.pc = "starting"]
    /\ UNCHANGED <<vars, command, pipe, air, inbound, held, admitted>>

\* The daemon serves once the first event of the bridge is that it is ready.
Serve ==
    /\ pipe # <<>> /\ Head(pipe).type = "ready"
    /\ Restart
    /\ pipe' = Tail(pipe)
    /\ UNCHANGED <<bridge, command, air, inbound, held, admitted>>

\* Any other event, or none in time, and the daemon ends.
StartFails ==
    /\ process = "down" /\ bridge.pc # "none"
    /\ IF pipe # <<>> THEN Head(pipe).type # "ready" ELSE bridge.pc = "dead"
    /\ Ended
    /\ UNCHANGED <<vars, admitted>>

-----------------------------------------------------------------------------
\* The rows that answers will need stay free.
Unanswered == {i \in Inbounds : New(i)}

Produce ==
    /\ \E S \in SUBSET (Messages \ Inbounds), a \in Peers : Project(S, a)
    /\ Len(queue') + Cardinality(Unanswered) <= MaxRows
    /\ UNCHANGED bridgeVars

Worker ==
    \/ \E expired \in SUBSET Claimed(Peers), backoff \in SUBSET BackingOff(Peers) :
         Claim(expired, backoff)
    \/ (RnReject \/ RnGuard \/ RnRecord \/ RnDone) /\ UNCHANGED bridgeVars
    \/ Submit \/ RenewClaim \/ PollEnds
    \/ ReadInbound \/ ReadOutcome \/ ReadError
    \/ ResolveIdentity \/ EnqueueResponse \/ IngestMessage
    \/ WorkerFails \/ Interrupt \/ Cleanup

BridgeNext ==
    \/ Produce
    \/ Worker
    \/ BridgeMain \/ BridgeDies
    \/ \E i \in Inbounds : BridgeInbound(i)
    \/ \E d \in Deliveries, answer \in {"delivered", "terminal", "retryable"} : CallBack(d, answer)
    \/ Administer
    \/ (TgStop \/ Shutdown) /\ UNCHANGED bridgeVars
    \/ DaemonEnds \/ SpawnBridge \/ Serve \/ StartFails

\* The worker's task goes on where it can, and of its claim queries some come when
\* every deadline has passed; the bridge goes on; the router calls back for every
\* message (it retries, and gives up in the end); a daemon that is down is
\* started again.
Progress ==
    \/ (RnGuard \/ RnRecord \/ RnDone) /\ UNCHANGED bridgeVars
    \/ Submit \/ PollEnds \/ ReadInbound \/ ReadOutcome \/ ReadError
    \/ ResolveIdentity \/ EnqueueResponse \/ IngestMessage \/ Interrupt \/ Cleanup
CallsBack(d) == \E answer \in {"delivered", "terminal"} : CallBack(d, answer)

BridgeFairness ==
    /\ WF_allVars(Progress) /\ SF_allVars(Claim(Claimed(Peers), {}))
    /\ WF_allVars(TgStop /\ UNCHANGED bridgeVars)
    /\ WF_allVars(BridgeReady \/ ReadCommand \/ HandOver)
    /\ \A d \in Deliveries : WF_allVars(CallsBack(d))
    /\ WF_allVars(DaemonEnds /\ UNCHANGED stops) /\ WF_allVars(SpawnBridge \/ Serve \/ StartFails)

BridgeSpec == BridgeInit /\ [][BridgeNext]_allVars /\ BridgeFairness

-----------------------------------------------------------------------------
(* Properties.                                                             *)

\* Neither side is ever told what it would refuse: an outcome that the bridge
\* reports is of the delivery that the worker is waiting for, although the
\* router may call back late for an earlier attempt of the same delivery
\* (delivery in bridge.py: the first report of a command is its last); and the
\* bridge never gets a command for a delivery it is still working on.
Watched ==
    process # "down" /\ rn.pc \notin {"lost", "recorded_lost", "cleanup", "cleanup_failed",
                                      "stopped", "failed"}
ProtocolAgrees ==
    Watched =>
      /\ \A k \in DOMAIN pipe : pipe[k].type = "delivery" => rn.pc = "awaiting" /\ pipe[k].of = Sending
      /\ command # None => command \notin bridge.active

\* Nothing that enters at either end is forgotten while the daemon serves: a
\* delivery is settled in the end, although the bridge answers through a pipe
\* that messages from the network fill, and a message that the bridge has
\* taken is handled, although the worker reads it only while it waits
\* (run_inner, run_delivery_once, emit).
NothingIsForgotten ==
    /\ EveryDeliverySettles
    /\ \A i \in Inbounds : inbound[i] = "out" ~> inbound[i] = "handled" \/ process = "down"

=============================================================================
