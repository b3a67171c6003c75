---------------------- MODULE ReticulumBridge_proofs ----------------------
(***************************************************************************)
(* Theorems about ReticulumBridge for every set of messages and peers, and *)
(* every size of the pipe: the worker and its bridge keep to one protocol, *)
(* and what GatewayDelivery promises of rows, claims and chunks holds with *)
(* the bridge as a process of its own, whatever it does.                   *)
(***************************************************************************)
EXTENDS ReticulumBridge, GatewayDelivery_proofs

-----------------------------------------------------------------------------
(* The inductive invariant.                                                *)

Reported == {"delivered", "terminal", "retryable"}

\* The events of a bridge, by what they are about.
Events ==
    {e \in [type : {"ready", "torn", "inbound", "delivery"},
            of : Deliveries \cup Inbounds \cup {None}, answer : Reported \cup {"unknown"}] :
       /\ e.type = "inbound" => e.of \in Inbounds
       /\ e.type = "delivery" => e.of \in Deliveries /\ e.answer \in Reported}

BridgeTypes ==
    /\ bridge \in [pc : {"none", "starting", "reading", "sending", "dead"},
                   of : Deliveries \cup {None}, active : SUBSET Deliveries]
    /\ bridge.pc = "sending" => bridge.of \in Deliveries
    /\ command \in Deliveries \cup {None}
    /\ pipe \in Seq(Events)
    /\ air \in [Deliveries -> Nat]
    /\ inbound \in [Inbounds -> {"none", "out", "handled", "lost"}]
    /\ held \in [of : Inbounds \cup {None},
                 step : {"none", "polling", "read", "resolved", "refused"}]
    /\ held.step \in {"read", "resolved", "refused"} => held.of \in Inbounds
    /\ admitted \in BOOLEAN

Outcome(k) == pipe[k].type = "delivery"
Unread == \E k \in DOMAIN pipe : Outcome(k)

\* Nothing is under way between the worker and the bridge.
Quiet == command = None /\ bridge.active = {} /\ ~Unread

\* What is under way is the worker's delivery, and it is in one place: a command,
\* an attempt of the bridge, or an outcome in the pipe.
OneOfSending ==
    /\ command # None => command = Sending /\ bridge.active = {} /\ ~Unread
    /\ bridge.active \subseteq {Sending}
    /\ bridge.active # {} => ~Unread
    /\ \A k \in DOMAIN pipe : Outcome(k) => pipe[k].of = Sending
    /\ \A k, l \in DOMAIN pipe : Outcome(k) /\ Outcome(l) => k = l

\* A worker that has given its bridge up never comes back to it.
ProtocolInv ==
    /\ process = "down" => rn.pc = "stopped" /\ held = NoneHeld /\ Quiet
    /\ Watched /\ rn.pc # "awaiting" => Quiet
    /\ Watched /\ rn.pc = "awaiting" => OneOfSending

BridgeInv == GatewayInv /\ BridgeTypes /\ ProtocolInv

-----------------------------------------------------------------------------
(* The pipe.                                                               *)

\* No outcome appears in the pipe; those in it stay in their order.
NoNewOutcome ==
    \E s \in {0, 1} : \A k \in DOMAIN pipe' :
      pipe'[k].type = "delivery" => k + s \in DOMAIN pipe /\ pipe'[k] = pipe[k + s]

LEMMA PipeKept ==
    ASSUME BridgeTypes, pipe' = pipe
    PROVE  NoNewOutcome
<1>1. \A k \in DOMAIN pipe : k + 0 = k
  BY DEF BridgeTypes
<1> QED
  BY <1>1 DEF NoNewOutcome

\* The writer's end: emit.
LEMMA PipeWritten ==
    ASSUME BridgeTypes, NEW e \in Events, pipe' = Append(pipe, e)
    PROVE  /\ pipe' \in Seq(Events)
           /\ \A k \in DOMAIN pipe' : \/ k \in DOMAIN pipe /\ pipe'[k] = pipe[k]
                                      \/ k = Len(pipe) + 1 /\ pipe'[k] = e
           /\ e.type # "delivery" => NoNewOutcome
<1>1. pipe \in Seq(Events)
  BY DEF BridgeTypes
<1>2. pipe' \in Seq(Events) /\ Len(pipe') = Len(pipe) + 1 /\ Len(pipe) \in Nat
      /\ DOMAIN pipe = 1 .. Len(pipe) /\ DOMAIN pipe' = 1 .. Len(pipe) + 1
  BY <1>1
<1>3. \A k \in 1 .. Len(pipe) : pipe'[k] = pipe[k] /\ k + 0 = k
  BY <1>1
<1>4. pipe'[Len(pipe) + 1] = e
  BY <1>1
<1>5. \A n \in Nat : \A k \in 1 .. n + 1 : k \in 1 .. n \/ k = n + 1
  OBVIOUS
<1>6. \A k \in DOMAIN pipe' : \/ k \in DOMAIN pipe /\ pipe'[k] = pipe[k]
                              \/ k = Len(pipe) + 1 /\ pipe'[k] = e
  BY <1>2, <1>3, <1>4, <1>5
<1>7. e.type # "delivery" => NoNewOutcome
  BY <1>2, <1>3, <1>6 DEF NoNewOutcome
<1> QED
  BY <1>2, <1>6, <1>7

\* The reader's end: next_event.
LEMMA PipeRead ==
    ASSUME BridgeTypes, pipe # <<>>, pipe' = Tail(pipe)
    PROVE  /\ pipe' \in Seq(Events)
           /\ Head(pipe) \in Events /\ 1 \in DOMAIN pipe /\ Head(pipe) = pipe[1]
           /\ \A k \in DOMAIN pipe' : k + 1 \in DOMAIN pipe /\ pipe'[k] = pipe[k + 1]
           /\ \A k \in DOMAIN pipe' : k + 1 # 1
           /\ NoNewOutcome
<1>1. pipe \in Seq(Events)
  BY DEF BridgeTypes
<1>2. pipe' \in Seq(Events) /\ Len(pipe) \in Nat \ {0} /\ Len(pipe') = Len(pipe) - 1
      /\ DOMAIN pipe = 1 .. Len(pipe) /\ DOMAIN pipe' = 1 .. Len(pipe) - 1
  BY <1>1
<1>3. Head(pipe) \in Events /\ 1 \in DOMAIN pipe /\ Head(pipe) = pipe[1]
  BY <1>1, <1>2
<1>4. \A k \in 1 .. Len(pipe) - 1 : pipe'[k] = pipe[k + 1]
  BY <1>1, <1>2
<1>5. \A n \in Nat : \A k \in 1 .. n - 1 : k + 1 \in 1 .. n /\ k + 1 # 1
  OBVIOUS
<1>6. \A k \in DOMAIN pipe' : k + 1 \in DOMAIN pipe /\ pipe'[k] = pipe[k + 1] /\ k + 1 # 1
  BY <1>2, <1>4, <1>5
<1>7. NoNewOutcome
  BY <1>6 DEF NoNewOutcome
<1> QED
  BY <1>2, <1>3, <1>6, <1>7

\* A line of which a part was read: read_protocol_line.
LEMMA PipeTorn ==
    ASSUME BridgeTypes, TearLine
    PROVE  /\ pipe' \in Seq(Events) /\ NoNewOutcome
           /\ inbound' \in [Inbounds -> {"none", "out", "handled", "lost"}]
<1>1. pipe \in Seq(Events) /\ pipe # <<>>
  BY DEF BridgeTypes, TearLine
<1>2. Torn \in Events /\ Torn.type = "torn"
  BY DEF Torn, Events
<1>3. pipe' = [pipe EXCEPT ![1] = Torn]
  BY DEF TearLine
<1>4. pipe' \in Seq(Events) /\ DOMAIN pipe' = DOMAIN pipe
  BY <1>1, <1>2, <1>3
<1>5. \A k \in DOMAIN pipe' : pipe'[k].type = "delivery" => k + 0 = k /\ pipe'[k] = pipe[k]
  BY <1>1, <1>2, <1>3
<1>6. NoNewOutcome
  BY <1>4, <1>5 DEF NoNewOutcome
<1>7. inbound' \in [Inbounds -> {"none", "out", "handled", "lost"}]
  BY DEF TearLine, BridgeTypes
<1> QED
  BY <1>4, <1>6, <1>7

-----------------------------------------------------------------------------
(* What is under way.                                                      *)

LEMMA QuietIsOne ==
    Quiet => OneOfSending
BY DEF Quiet, OneOfSending, Unread

LEMMA NothingAppears ==
    ASSUME BridgeTypes, NoNewOutcome, ~Unread
    PROVE  ~Unread'
BY DEF NoNewOutcome, Unread, Outcome

\* When nothing is under way, nobody can be told anything.
LEMMA QuietSuffices ==
    ASSUME Quiet', process' = "down" => rn'.pc = "stopped" /\ held' = NoneHeld
    PROVE  ProtocolInv'
<1>1. OneOfSending'
  BY DEF Quiet, OneOfSending, Unread
<1> QED
  BY <1>1 DEF ProtocolInv

\* What is under way stays where it is.
LEMMA NothingMoves ==
    ASSUME BridgeTypes, BridgeTypes', ProtocolInv, command' = command, bridge'.active = bridge.active,
           NoNewOutcome,
           process' = "down" => process = "down" /\ rn'.pc = "stopped" /\ held' = NoneHeld,
           Watched' /\ rn'.pc # "awaiting" => process = "down" \/ (Watched /\ rn.pc # "awaiting"),
           Watched' /\ rn'.pc = "awaiting" => Watched /\ rn.pc = "awaiting" /\ Sending' = Sending
    PROVE  ProtocolInv'
<1>1. Quiet => Quiet'
  BY NothingAppears DEF Quiet
<1>2. ASSUME OneOfSending, Sending' = Sending PROVE OneOfSending'
  <2>1. ~Unread => ~Unread'
    BY NothingAppears
  <2>2. PICK s \in {0, 1} : \A k \in DOMAIN pipe' :
          pipe'[k].type = "delivery" => k + s \in DOMAIN pipe /\ pipe'[k] = pipe[k + s]
    BY DEF NoNewOutcome
  <2>3. \A k \in DOMAIN pipe' : Outcome(k)' => pipe'[k].of = Sending'
    BY <1>2, <2>2 DEF OneOfSending, Outcome
  <2>4. ASSUME NEW k \in DOMAIN pipe', NEW l \in DOMAIN pipe', Outcome(k)', Outcome(l)'
        PROVE  k = l
    <3>1. k + s = l + s
      BY <1>2, <2>2, <2>4 DEF OneOfSending, Outcome
    <3>2. k \in Nat /\ l \in Nat
      BY DEF BridgeTypes
    <3> QED
      BY <3>1, <3>2
  <2> QED
    BY <1>2, <2>1, <2>3, <2>4 DEF OneOfSending
<1> QED
  BY <1>1, <1>2 DEF ProtocolInv

\* The worker and what it waits for stay; what is under way stays too.
LEMMA WorkerStays ==
    ASSUME BridgeTypes, BridgeTypes', ProtocolInv, command' = command,
           bridge'.active = bridge.active, NoNewOutcome, UNCHANGED <<rn, process, held>>
    PROVE  ProtocolInv'
<1>1. Watched' => Watched
  BY DEF Watched
<1>2. process = "down" => rn.pc = "stopped" /\ held = NoneHeld
  BY DEF ProtocolInv
<1>3. Sending' = Sending
  BY DEF Sending
<1> QED
  BY <1>1, <1>2, <1>3, NothingMoves

-----------------------------------------------------------------------------
(* The steps of the bridge.                                                *)

LEMMA OnlyFaults ==
    ASSUME GatewayInv, faults' \in Nat, BoundsOnly
    PROVE  GatewayInv'
<1>1. rn' \in RnRecords
  BY DEF GatewayInv, TypeOK, RnRecords, BoundsOnly
<1>2. Rows' = Rows /\ Untouched(Peers)
  BY DEF Rows, Untouched, BoundsOnly
<1>3. \A d \in Rows : row'[d].address = row[d].address
  BY DEF BoundsOnly
<1>4. RnInv'
  BY <1>2, <1>3, RnFrame DEF BoundsOnly, GatewayInv
<1> QED
  BY <1>1, <1>4, WorkerMovesAlone DEF BoundsOnly

LEMMA NothingHappens ==
    ASSUME GatewayInv, UNCHANGED vars
    PROVE  GatewayInv'
BY NextKeepsInv

LEMMA BridgeReadyKeepsInv ==
    ASSUME BridgeInv, BridgeReady
    PROVE  BridgeInv'
<1>1. GatewayInv'
  BY NothingHappens DEF BridgeReady, BridgeInv
<1>2. Ready \in Events /\ Ready.type = "ready"
  BY DEF Ready, Events
<1>3. pipe' = Append(pipe, Ready)
  BY DEF BridgeReady, Emit
<1>4. pipe' \in Seq(Events) /\ NoNewOutcome
  BY <1>2, <1>3, PipeWritten DEF BridgeInv
<1>5. BridgeTypes'
  BY <1>4 DEF BridgeReady, BridgeInv, BridgeTypes
<1>6. ProtocolInv'
  BY <1>4, <1>5, WorkerStays DEF BridgeReady, BridgeInv, BridgeTypes, vars
<1> QED
  BY <1>1, <1>5, <1>6 DEF BridgeInv

LEMMA BridgeInboundKeepsInv ==
    ASSUME BridgeInv, NEW i \in Inbounds, BridgeInbound(i)
    PROVE  BridgeInv'
<1>1. GatewayInv'
  BY NothingHappens DEF BridgeInbound, BridgeInv
<1>2. InboundEvent(i) \in Events /\ InboundEvent(i).type = "inbound"
  BY DEF InboundEvent, Events
<1>3. pipe' = Append(pipe, InboundEvent(i))
  BY DEF BridgeInbound, Emit
<1>4. pipe' \in Seq(Events) /\ NoNewOutcome
  BY <1>2, <1>3, PipeWritten DEF BridgeInv
<1>5. BridgeTypes'
  BY <1>4 DEF BridgeInbound, BridgeInv, BridgeTypes
<1>6. ProtocolInv'
  BY <1>4, <1>5, WorkerStays DEF BridgeInbound, BridgeInv, vars
<1> QED
  BY <1>1, <1>5, <1>6 DEF BridgeInv

LEMMA HandOverKeepsInv ==
    ASSUME BridgeInv, HandOver
    PROVE  BridgeInv'
<1>1. GatewayInv'
  BY NothingHappens DEF HandOver, BridgeInv
<1>2. bridge' = Listening(bridge.active)
      /\ UNCHANGED <<vars, command, pipe, inbound, held, admitted>>
      /\ bridge.of \in Deliveries /\ air' = [air EXCEPT ![bridge.of] = @ + 1]
  BY DEF HandOver, BridgeInv, BridgeTypes
<1>3. BridgeTypes' /\ bridge'.active = bridge.active
  BY <1>2 DEF BridgeInv, BridgeTypes, Listening
<1>4. ProtocolInv'
  BY <1>2, <1>3, PipeKept, WorkerStays DEF BridgeInv, vars
<1> QED
  BY <1>1, <1>3, <1>4 DEF BridgeInv

LEMMA BridgeDiesKeepsInv ==
    ASSUME BridgeInv, BridgeDies
    PROVE  BridgeInv'
<1>1. GatewayInv'
  BY OnlyFaults DEF BridgeDies, BridgeInv, Spend, GatewayInv, TypeOK
<1>2. BridgeTypes' /\ bridge'.active = bridge.active
  BY DEF BridgeDies, BridgeInv, BridgeTypes
<1>3. ProtocolInv'
  BY <1>2, PipeKept, WorkerStays DEF BridgeDies, BridgeInv, BoundsOnly
<1> QED
  BY <1>1, <1>2, <1>3 DEF BridgeInv

\* The bridge takes the command of the delivery the worker waits for.
LEMMA ReadCommandKeepsInv ==
    ASSUME BridgeInv, ReadCommand
    PROVE  BridgeInv'
<1>1. GatewayInv'
  BY NothingHappens DEF ReadCommand, BridgeInv
<1>2. /\ UNCHANGED <<vars, pipe, air, inbound, held, admitted>> /\ command' = None
      /\ command # None /\ command \in Deliveries
      /\ bridge'.active = IF command \in bridge.active THEN bridge.active
                          ELSE bridge.active \cup {command}
  BY DEF ReadCommand, BridgeInv, BridgeTypes
<1>3. BridgeTypes'
  BY <1>2 DEF ReadCommand, BridgeInv, BridgeTypes
<1>4. ProtocolInv'
  <2>1. Watched' => Watched /\ rn.pc = "awaiting" /\ rn'.pc = "awaiting" /\ Sending' = Sending
    BY <1>2 DEF BridgeInv, ProtocolInv, Quiet, Watched, Sending, vars
  <2>2. process' # "down"
    BY <1>2 DEF BridgeInv, ProtocolInv, Quiet, vars
  <2>3. ASSUME Watched' PROVE OneOfSending'
    <3>1. OneOfSending /\ command = Sending /\ bridge.active = {} /\ ~Unread
      BY <1>2, <2>1, <2>3 DEF BridgeInv, ProtocolInv, OneOfSending
    <3>2. bridge'.active = {Sending} /\ command' = None /\ ~Unread'
      BY <1>2, <3>1 DEF Unread, Outcome
    <3> QED
      BY <2>1, <2>3, <3>2 DEF OneOfSending, Unread
  <2> QED
    BY <2>1, <2>2, <2>3 DEF ProtocolInv
<1> QED
  BY <1>1, <1>3, <1>4 DEF BridgeInv

BridgeRecords ==
    [pc : {"none", "starting", "reading", "sending", "dead"},
     of : Deliveries \cup {None}, active : SUBSET Deliveries]

\* The bridge answers a command once, and only one the worker waits for.
LEMMA ReportKeepsInv ==
    ASSUME BridgeInv, NEW d \in Deliveries, NEW answer \in Reported, NEW b \in BridgeRecords,
           b.active = bridge.active, b.pc = "sending" => b.of \in Deliveries,
           Report(d, answer, b), air' \in [Deliveries -> Nat], faults' \in Nat,
           BoundsOnly, UNCHANGED <<command, inbound, held, admitted>>
    PROVE  BridgeInv'
<1>1. GatewayInv'
  BY OnlyFaults DEF BridgeInv
<1>2. CASE d \notin bridge.active
  <2>1. bridge' = b /\ pipe' = pipe
    BY <1>2 DEF Report
  <2>2. BridgeTypes'
    BY <2>1 DEF BridgeInv, BridgeTypes, BridgeRecords
  <2>3. ProtocolInv'
    BY <2>1, <2>2, PipeKept, WorkerStays DEF BridgeInv, BoundsOnly
  <2> QED
    BY <1>1, <2>2, <2>3 DEF BridgeInv
<1>3. CASE d \in bridge.active
  <2> DEFINE e == DeliveryEvent(d, answer)
  <2>1. bridge' = [b EXCEPT !.active = @ \ {d}] /\ pipe' = Append(pipe, e)
    BY <1>3 DEF Report, Emit
  <2>2. e \in Events /\ e.of = d
    BY DEF DeliveryEvent, Events, Reported
  <2> HIDE DEF e
  <2>3. /\ pipe' \in Seq(Events)
        /\ \A k \in DOMAIN pipe' : \/ k \in DOMAIN pipe /\ pipe'[k] = pipe[k]
                                   \/ k = Len(pipe) + 1 /\ pipe'[k] = e
    BY <2>1, <2>2, PipeWritten DEF BridgeInv
  <2>4. BridgeTypes' /\ bridge'.active = bridge.active \ {d}
    BY <2>1, <2>3 DEF BridgeInv, BridgeTypes, BridgeRecords
  <2>5. process # "down" /\ (Watched => rn.pc = "awaiting" /\ OneOfSending)
    BY <1>3 DEF BridgeInv, ProtocolInv, Quiet
  <2>6. process' = process /\ rn' = rn /\ (Watched' => Watched) /\ Sending' = Sending
    BY DEF BoundsOnly, Watched, Sending
  <2>7. ASSUME Watched PROVE OneOfSending'
    <3>1. bridge.active = {Sending} /\ d = Sending /\ command = None /\ ~Unread
      BY <1>3, <2>5, <2>7 DEF OneOfSending
    <3>2. \A k \in DOMAIN pipe' : Outcome(k)' => k = Len(pipe) + 1 /\ pipe'[k].of = Sending
      BY <2>2, <2>3, <3>1 DEF Outcome, Unread
    <3>3. bridge'.active = {} /\ command' = None
      BY <2>4, <3>1
    <3> QED
      BY <2>6, <3>2, <3>3 DEF OneOfSending
  <2>8. ProtocolInv'
    BY <2>5, <2>6, <2>7 DEF ProtocolInv
  <2> QED
    BY <1>1, <2>4, <2>8 DEF BridgeInv
<1> QED
  BY <1>2, <1>3

LEMMA AnswerAtOnceKeepsInv ==
    ASSUME BridgeInv, NEW answer \in Reported, AnswerAtOnce(answer) \/ HandOverFails
    PROVE  BridgeInv'
<1> DEFINE b == Listening(bridge.active)
           d == bridge.of
<1>1. d \in Deliveries
  BY DEF AnswerAtOnce, HandOverFails, BridgeInv, BridgeTypes
<1>2. b \in BridgeRecords /\ b.active = bridge.active /\ b.pc # "sending"
  BY DEF Listening, BridgeRecords, BridgeInv, BridgeTypes
<1>3. PICK a \in Reported : Report(d, a, b)
  BY DEF AnswerAtOnce, HandOverFails, Reported
<1>4. BoundsOnly /\ UNCHANGED <<command, inbound, held, admitted>>
  BY DEF AnswerAtOnce, HandOverFails
<1>5. faults' \in Nat
  BY DEF AnswerAtOnce, HandOverFails, Spend, BridgeInv, GatewayInv, TypeOK
<1>6. air' \in [Deliveries -> Nat]
  BY DEF AnswerAtOnce, HandOverFails, BridgeInv, BridgeTypes
<1> HIDE DEF b, d
<1> QED
  BY <1>1, <1>2, <1>3, <1>4, <1>5, <1>6, ReportKeepsInv

LEMMA CallBackKeepsInv ==
    ASSUME BridgeInv, NEW d \in Deliveries, NEW answer \in Reported, CallBack(d, answer)
    PROVE  BridgeInv'
<1>1. bridge \in BridgeRecords /\ (bridge.pc = "sending" => bridge.of \in Deliveries)
  BY DEF BridgeInv, BridgeTypes, BridgeRecords
<1>2. air' \in [Deliveries -> Nat]
  BY DEF CallBack, BridgeInv, BridgeTypes
<1>3. faults' \in Nat
  BY DEF CallBack, Spend, BridgeInv, GatewayInv, TypeOK
<1>4. /\ Report(d, answer, bridge) /\ BoundsOnly
      /\ UNCHANGED <<command, inbound, held, admitted>>
  BY DEF CallBack
<1> QED
  BY <1>1, <1>2, <1>3, <1>4, ReportKeepsInv

-----------------------------------------------------------------------------
(* The steps of the worker.                                                *)

Abandoned == {"lost", "recorded_lost", "cleanup", "cleanup_failed", "stopped", "failed"}

\* The worker moves while nothing is under way, or gives the bridge up.
LEMMA WorkerGoesOn ==
    ASSUME BridgeTypes, BridgeTypes', ProtocolInv, command' = command,
           bridge'.active = bridge.active, NoNewOutcome, process' = process, process # "down",
           rn'.pc # "awaiting",
           rn'.pc \in Abandoned \/ rn.pc \in {"idle", "claimed", "guarded", "answered", "recorded"}
    PROVE  ProtocolInv'
<1>1. Watched' => Watched /\ rn.pc # "awaiting"
  BY DEF Watched, Abandoned
<1> QED
  BY <1>1, NothingMoves

LEMMA WorkerRecords ==
    ASSUME BridgeInv
    PROVE  /\ rn \in RnRecords
           /\ rn.pc \notin Abandoned => process # "down"
           /\ \A pc \in Abandoned : [rn EXCEPT !.pc = pc].pc = pc
           /\ RnFails.pc = "cleanup_failed"
<1>1. rn \in RnRecords
  BY DEF BridgeInv, GatewayInv, TypeOK, RnRecords
<1>2. rn.pc \notin Abandoned => process # "down"
  BY DEF BridgeInv, ProtocolInv, Abandoned
<1>3. \A pc \in Abandoned : [rn EXCEPT !.pc = pc].pc = pc
  BY <1>1 DEF RnRecords
<1>4. RnFails.pc = "cleanup_failed"
  BY <1>1 DEF RnFails, RnRecords
<1> QED
  BY <1>1, <1>2, <1>3, <1>4

LEMMA ClaimKeepsInv ==
    ASSUME BridgeInv, NEW expired \in SUBSET Claimed(Peers), NEW backoff,
           Claim(expired, backoff)
    PROVE  BridgeInv'
<1>1. RnClaim(expired, backoff) /\ UNCHANGED <<bridge, command, pipe, air, inbound, admitted>>
  BY DEF Claim
<1>2. GatewayInv'
  BY <1>1, RnClaimKeepsInv DEF BridgeInv
<1>3. BridgeTypes'
  BY DEF Claim, BridgeInv, BridgeTypes, Polling
<1>4. process' = process /\ process # "down" /\ rn.pc = "idle"
  BY <1>1 DEF RnClaim, RnMoves
<1>5. rn'.pc \in {"idle", "claimed"}
  BY <1>1, WorkerRecords DEF RnClaim, RnMoves, RnRecords
<1> QED
  BY <1>1, <1>2, <1>3, <1>4, <1>5, PipeKept, WorkerGoesOn DEF BridgeInv

LEMMA WorkerAloneKeepsInv ==
    ASSUME BridgeInv, RnReject \/ RnGuard \/ RnRecord \/ RnDone, UNCHANGED bridgeVars
    PROVE  BridgeInv'
<1>1. GatewayInv'
  BY RnRejectKeepsInv, RnGuardKeepsInv, RnRecordKeepsInv, RnDoneKeepsInv DEF BridgeInv
<1>2. BridgeTypes'
  BY DEF bridgeVars, BridgeInv, BridgeTypes
<1>3. rn \in RnRecords /\ process' = process
  BY WorkerRecords DEF RnReject, RnGuard, RnRecord, RnDone, RnMoves
<1>4. process # "down"
  BY DEF RnReject, RnGuard, RnRecord, RnDone, BridgeInv, ProtocolInv
<1>5. /\ rn'.pc # "awaiting"
      /\ rn'.pc \in Abandoned \/ rn.pc \in {"idle", "claimed", "guarded", "answered", "recorded"}
  <2>1. CASE RnReject
    BY <2>1, <1>3 DEF RnReject, RnMoves, RnFails, RnStart, RnRecords, Abandoned
  <2>2. CASE RnGuard
    BY <2>2, <1>3 DEF RnGuard, RnMoves, RnFails, RnRecords, Abandoned
  <2>3. CASE RnRecord
    BY <2>3, <1>3 DEF RnRecord, RnMoves, RnFails, RnRecords, Abandoned
  <2>4. CASE RnDone
    BY <2>4, <1>3 DEF RnDone, RnMoves, RnStart, RnRecords, Abandoned
  <2> QED
    BY <2>1, <2>2, <2>3, <2>4
<1> QED
  BY <1>1, <1>2, <1>3, <1>4, <1>5, PipeKept, WorkerGoesOn DEF BridgeInv, bridgeVars

\* The command is written when nothing else is under way.
LEMMA SubmitKeepsInv ==
    ASSUME BridgeInv, Submit
    PROVE  BridgeInv'
<1>1. /\ rn.pc = "guarded" /\ UNCHANGED <<row, faults, bridge, pipe, air, inbound, held, admitted>>
      /\ outcome' = [outcome EXCEPT ![Sending] = "doubt"]
      /\ UNCHANGED <<queue, tg, process, stops>>
  BY DEF Submit, RnMoves
<1>2. RnHolds /\ rn \in RnRecords /\ Sending \in Deliveries /\ process # "down"
  BY <1>1, WorkerRecords DEF BridgeInv, GatewayInv, RnInv, RnHolds, ProtocolInv
<1>3. \/ rn' = [rn EXCEPT !.pc = "lost", !.answer = "unknown"] /\ command' = command
      \/ rn' = [rn EXCEPT !.pc = "awaiting"] /\ command' = Sending
  BY DEF Submit, RnMoves
<1>4. /\ rn' \in RnRecords /\ rn'.claim = rn.claim /\ rn'.active = rn.active
      /\ rn'.pc \in {"awaiting", "lost"} /\ (rn'.pc = "lost" => rn'.answer = "unknown")
      /\ rn'.pc = "awaiting" => command' = Sending
      /\ rn'.pc = "lost" => command' = command
  BY <1>2, <1>3 DEF RnRecords, Answers
<1>5. GatewayInv'
  <2>1. "doubt" \in Outcomes /\ faults' \in Nat /\ GatewayInv
    BY <1>1 DEF Outcomes, BridgeInv, GatewayInv, TypeOK
  <2>2. /\ rn'.pc \in {"awaiting", "answered", "lost"}
        /\ rn'.pc = "answered" => Says(rn'.answer, "doubt")
    BY <1>4
  <2> QED
    BY <1>1, <1>2, <1>4, <2>1, <2>2, RnHolding
<1>6. BridgeTypes'
  BY <1>1, <1>2, <1>3 DEF BridgeInv, BridgeTypes
<1>7. Quiet
  BY <1>1, <1>2 DEF BridgeInv, ProtocolInv, Watched
<1>8. CASE rn'.pc = "awaiting"
  <2>1. ~Unread' /\ bridge'.active = {} /\ command' = Sending'
    BY <1>1, <1>4, <1>7, <1>8 DEF Quiet, Unread, Outcome, Sending
  <2>2. OneOfSending'
    BY <2>1 DEF OneOfSending, Unread
  <2> QED
    BY <1>1, <1>2, <1>5, <1>6, <1>8, <2>2 DEF BridgeInv, ProtocolInv
<1>9. CASE rn'.pc = "lost"
  <2>1. ProtocolInv'
    BY <1>1, <1>2, <1>4, <1>6, <1>9, PipeKept, WorkerGoesOn DEF BridgeInv, Abandoned
  <2> QED
    BY <1>5, <1>6, <2>1 DEF BridgeInv
<1> QED
  BY <1>4, <1>8, <1>9

LEMMA ReadInboundKeepsInv ==
    ASSUME BridgeInv, ReadInbound
    PROVE  BridgeInv'
<1>1. GatewayInv'
  BY NothingHappens DEF ReadInbound, BridgeInv
<1>2. pipe # <<>> /\ Head(pipe).type = "inbound" /\ pipe' = Tail(pipe) /\ Waits
      /\ held' = [of |-> Head(pipe).of, step |-> "read"]
      /\ UNCHANGED <<vars, bridge, command, air, inbound, admitted>>
  BY DEF ReadInbound, Reads
<1>3. pipe' \in Seq(Events) /\ Head(pipe) \in Events /\ NoNewOutcome
  BY <1>2, PipeRead DEF BridgeInv
<1>4. Head(pipe).of \in Inbounds
  BY <1>2, <1>3 DEF Events
<1>5. BridgeTypes'
  BY <1>2, <1>3, <1>4 DEF BridgeInv, BridgeTypes
<1>6. process # "down"
  BY <1>2 DEF Waits, BridgeInv, ProtocolInv, Polling, NoneHeld
<1>7. ProtocolInv'
  <2>1. process' = process /\ rn' = rn /\ Sending' = Sending /\ (Watched' => Watched)
    BY <1>2 DEF vars, Sending, Watched
  <2> QED
    BY <1>2, <1>3, <1>5, <1>6, <2>1, NothingMoves DEF BridgeInv
<1> QED
  BY <1>1, <1>5, <1>7 DEF BridgeInv

\* What the worker has: its claim while it waits, which ends a call that fails.
LEMMA GivesUp ==
    ASSUME BridgeInv, BridgeTypes', rn' = RnFails,
           UNCHANGED <<queue, row, outcome, tg, process, faults, stops>>,
           command' = command, bridge'.active = bridge.active, NoNewOutcome, process # "down"
    PROVE  BridgeInv'
<1>1. GatewayInv'
  <2>1. rn' = [rn EXCEPT !.pc = "cleanup_failed"] /\ faults' \in Nat
    BY DEF RnFails, BridgeInv, GatewayInv, TypeOK
  <2> QED
    BY <2>1, RnLeaves DEF BridgeInv
<1>2. rn'.pc = "cleanup_failed"
  BY WorkerRecords
<1>3. ProtocolInv'
  BY <1>2, WorkerGoesOn DEF BridgeInv, Abandoned
<1> QED
  BY <1>1, <1>3 DEF BridgeInv

\* The outcome the worker reads is the one that was under way.
LEMMA ReadOutcomeKeepsInv ==
    ASSUME BridgeInv, ReadOutcome
    PROVE  BridgeInv'
<1>1. /\ Waits /\ pipe # <<>> /\ Head(pipe).type = "delivery"
      /\ pipe' = Tail(pipe) /\ held' = NoneHeld
      /\ UNCHANGED <<row, faults, bridge, command, air, inbound, admitted>>
      /\ UNCHANGED <<queue, tg, process, stops>>
  BY DEF ReadOutcome, Reads, RnMoves
<1>2. /\ pipe' \in Seq(Events) /\ Head(pipe) \in Events /\ NoNewOutcome
      /\ 1 \in DOMAIN pipe /\ Head(pipe) = pipe[1]
      /\ \A k \in DOMAIN pipe' : k + 1 \in DOMAIN pipe /\ pipe'[k] = pipe[k + 1] /\ k + 1 # 1
  BY <1>1, PipeRead DEF BridgeInv
<1>3. process # "down"
  BY <1>1 DEF Waits, BridgeInv, ProtocolInv, Polling, NoneHeld
<1>4. BridgeTypes'
  BY <1>1, <1>2 DEF BridgeInv, BridgeTypes, NoneHeld
<1>5. CASE ~Expected
  <2>1. rn' = RnFails /\ UNCHANGED outcome
    BY <1>5 DEF ReadOutcome, RnMoves
  <2> QED
    BY <1>1, <1>2, <1>3, <1>4, <2>1, GivesUp
<1>6. CASE Expected
  <2> DEFINE answer == Head(pipe).answer
  <2>1. /\ outcome' = [outcome EXCEPT ![Sending] = answer]
        /\ rn' = [rn EXCEPT !.pc = "answered", !.answer = answer]
    BY <1>6 DEF ReadOutcome, RnMoves
  <2>2. answer \in Reported
    BY <1>1, <1>2 DEF Events
  <2> HIDE DEF answer
  <2>3. rn.pc = "awaiting" /\ RnHolds /\ rn \in RnRecords
    BY <1>6, WorkerRecords DEF Expected, BridgeInv, GatewayInv, RnInv
  <2>4. /\ rn' \in RnRecords /\ rn'.claim = rn.claim /\ rn'.active = rn.active
        /\ rn'.pc = "answered" /\ rn'.answer = answer
    BY <2>1, <2>2, <2>3 DEF RnRecords, Answers, Reported
  <2>5. GatewayInv'
    <3>1. answer \in Outcomes /\ Says(answer, answer)
      BY <2>2 DEF Reported, Outcomes, Says
    <3>2. GatewayInv /\ faults' \in Nat
      BY <1>1 DEF BridgeInv, GatewayInv, TypeOK
    <3>3. rn'.pc \in {"awaiting", "answered", "lost"} /\ rn'.pc # "lost"
      BY <2>4
    <3> QED
      BY <1>1, <2>1, <2>3, <2>4, <3>1, <3>2, <3>3, RnHolding
  <2>6. Watched
    BY <1>3, <2>3 DEF Watched
  <2>7. OneOfSending
    BY <2>3, <2>6 DEF BridgeInv, ProtocolInv
  <2>8. Unread
    BY <1>1, <1>2 DEF Unread, Outcome
  <2>9. ~Unread'
    BY <1>1, <1>2, <2>7 DEF OneOfSending, Unread, Outcome
  <2>10. Quiet'
    BY <1>1, <2>7, <2>8, <2>9 DEF OneOfSending, Quiet
  <2>11. process' # "down"
    BY <1>1, <1>3
  <2>12. ProtocolInv'
    BY <2>10, <2>11, QuietSuffices
  <2> QED
    BY <1>4, <2>5, <2>12 DEF BridgeInv
<1> QED
  BY <1>5, <1>6

LEMMA ReadErrorKeepsInv ==
    ASSUME BridgeInv, ReadError
    PROVE  BridgeInv'
<1>1. /\ Waits /\ held' = NoneHeld
      /\ UNCHANGED <<row, outcome, faults, bridge, command, pipe, air, inbound, admitted>>
      /\ UNCHANGED <<queue, tg, process, stops>>
      /\ rn' = IF rn.pc = "awaiting" THEN [rn EXCEPT !.pc = "lost", !.answer = "unknown"]
               ELSE RnFails
  BY DEF ReadError, Reads, RnMoves
<1>2. process # "down"
  BY <1>1 DEF Waits, BridgeInv, ProtocolInv, Polling, NoneHeld
<1>3. BridgeTypes' /\ NoNewOutcome
  BY <1>1, PipeKept DEF BridgeInv, BridgeTypes, NoneHeld
<1>4. CASE rn.pc # "awaiting"
  BY <1>1, <1>2, <1>3, <1>4, GivesUp
<1>5. CASE rn.pc = "awaiting"
  <2>1. RnHolds /\ rn \in RnRecords /\ Sending \in Deliveries
    BY <1>5, WorkerRecords DEF BridgeInv, GatewayInv, RnInv, RnHolds
  <2>2. /\ rn' \in RnRecords /\ rn'.claim = rn.claim /\ rn'.active = rn.active
        /\ rn'.pc = "lost" /\ rn'.answer = "unknown"
    BY <1>1, <1>5, <2>1 DEF RnRecords, Answers
  <2>3. GatewayInv'
    <3>1. /\ GatewayInv /\ faults' \in Nat /\ outcome[Sending] \in Outcomes
          /\ outcome' = [outcome EXCEPT ![Sending] = outcome[Sending]]
      BY <1>1, <2>1 DEF BridgeInv, GatewayInv, TypeOK
    <3>2. rn'.pc \in {"awaiting", "answered", "lost"} /\ rn'.pc # "answered"
      BY <2>2
    <3> QED
      BY <1>1, <2>1, <2>2, <3>1, <3>2, RnHolding
  <2>4. ProtocolInv'
    BY <1>1, <1>2, <1>3, <2>2, WorkerGoesOn DEF BridgeInv, Abandoned
  <2> QED
    BY <1>3, <2>3, <2>4 DEF BridgeInv
<1> QED
  BY <1>4, <1>5

LEMMA PollEndsKeepsInv ==
    ASSUME BridgeInv, PollEnds
    PROVE  BridgeInv'
<1>1. GatewayInv'
  BY NothingHappens DEF PollEnds, BridgeInv
<1>2. /\ TearLine \/ UNCHANGED <<pipe, inbound>>
      /\ held' = NoneHeld /\ UNCHANGED <<vars, bridge, command, air, admitted>>
  BY DEF PollEnds
<1>3. /\ pipe' \in Seq(Events) /\ NoNewOutcome
      /\ inbound' \in [Inbounds -> {"none", "out", "handled", "lost"}]
  BY <1>2, PipeTorn, PipeKept DEF BridgeInv, BridgeTypes
<1>4. BridgeTypes'
  BY <1>2, <1>3 DEF BridgeInv, BridgeTypes, NoneHeld
<1>5. process' = process /\ rn' = rn /\ Sending' = Sending /\ (Watched' => Watched)
  BY <1>2 DEF vars, Sending, Watched
<1>6. ProtocolInv'
  BY <1>2, <1>3, <1>4, <1>5, NothingMoves DEF BridgeInv, ProtocolInv
<1> QED
  BY <1>1, <1>4, <1>6 DEF BridgeInv

LEMMA RenewClaimKeepsInv ==
    ASSUME BridgeInv, RenewClaim
    PROVE  BridgeInv'
<1>1. GatewayInv'
  BY RnRenewKeepsInv DEF RenewClaim, BridgeInv
<1>2. /\ TearLine \/ UNCHANGED <<pipe, inbound>>
      /\ rn.pc = "awaiting" /\ UNCHANGED <<bridge, command, air, held, admitted>>
      /\ process' = process
      /\ rn' = [rn EXCEPT !.claim.renewals = @ + 1] \/ rn' = RnFails
  BY DEF RenewClaim, RnRenew, RnMoves
<1>3. /\ pipe' \in Seq(Events) /\ NoNewOutcome
      /\ inbound' \in [Inbounds -> {"none", "out", "handled", "lost"}]
  BY <1>2, PipeTorn, PipeKept DEF BridgeInv, BridgeTypes
<1>4. BridgeTypes'
  BY <1>2, <1>3 DEF BridgeInv, BridgeTypes
<1>5. process # "down"
  BY <1>2 DEF BridgeInv, ProtocolInv
<1>6. CASE rn' = RnFails
  <2>1. rn'.pc = "cleanup_failed"
    BY <1>6, WorkerRecords
  <2>2. ProtocolInv'
    BY <1>2, <1>3, <1>4, <1>5, <2>1, WorkerGoesOn DEF BridgeInv, Abandoned
  <2> QED
    BY <1>1, <1>4, <2>2 DEF BridgeInv
<1>7. CASE rn' = [rn EXCEPT !.claim.renewals = @ + 1]
  <2>1. RnHolds
    BY <1>2 DEF BridgeInv, GatewayInv, RnInv
  <2>2. rn.claim \in Claims
    BY <2>1, HeldClaim DEF BridgeInv
  <2>3. rn'.pc = rn.pc /\ Sending' = Sending
    BY <1>7, <2>2, WorkerRecords DEF RnRecords, Claims, Sending
  <2>4. ProtocolInv'
    BY <1>2, <1>3, <1>4, <1>5, <2>3, NothingMoves DEF BridgeInv, Watched
  <2> QED
    BY <1>1, <1>4, <2>4 DEF BridgeInv
<1> QED
  BY <1>2, <1>6, <1>7

-----------------------------------------------------------------------------
(* Messages from the network.                                              *)

\* The worker handles a message only while the daemon is up.
LEMMA HandlingIsUp ==
    ASSUME BridgeInv, held.step \in {"read", "resolved", "refused"}
    PROVE  process # "down" /\ held.of \in Inbounds
BY DEF BridgeInv, BridgeTypes, ProtocolInv, NoneHeld

LEMMA ResolveIdentityKeepsInv ==
    ASSUME BridgeInv, ResolveIdentity
    PROVE  BridgeInv'
<1>1. GatewayInv'
  BY NothingHappens DEF ResolveIdentity, BridgeInv
<1>2. /\ UNCHANGED <<vars, bridge, command, pipe, air, inbound>> /\ held.step = "read"
      /\ admitted' \in BOOLEAN
      /\ held' = [held EXCEPT !.step = "resolved"] \/ held' = [held EXCEPT !.step = "refused"]
  BY DEF ResolveIdentity, BridgeInv, BridgeTypes
<1>3. process # "down" /\ held.of \in Inbounds
  BY <1>2, HandlingIsUp
<1>4. BridgeTypes'
  BY <1>2, <1>3 DEF BridgeInv, BridgeTypes
<1>5. process' = process /\ rn' = rn /\ Sending' = Sending /\ (Watched' => Watched)
  BY <1>2 DEF vars, Sending, Watched
<1>6. ProtocolInv'
  BY <1>2, <1>3, <1>4, <1>5, PipeKept, NothingMoves DEF BridgeInv
<1> QED
  BY <1>1, <1>4, <1>6 DEF BridgeInv

LEMMA EnqueueResponseKeepsInv ==
    ASSUME BridgeInv, EnqueueResponse
    PROVE  BridgeInv'
<1>1. PICK a \in Peers : EnqueueGatewayDelivery(held.of, a)
  BY DEF EnqueueResponse
<1>2. process # "down" /\ held.of \in Inbounds
  BY HandlingIsUp DEF EnqueueResponse
<1>3. held.of \in Messages /\ a \in Addresses
  BY <1>2, BridgeAssumption DEF BridgeAssumption, Addresses
<1>4. GatewayInv'
  BY <1>1, <1>3, EnqueueKeepsInv DEF BridgeInv
<1>5. BridgeTypes'
  BY DEF EnqueueResponse, Handled, BridgeInv, BridgeTypes, NoneHeld
<1>6. process' = process /\ rn' = rn /\ Sending' = Sending /\ (Watched' => Watched)
  BY <1>1 DEF EnqueueGatewayDelivery, Insert, Sending, Watched
<1>7. ProtocolInv'
  BY <1>2, <1>5, <1>6, PipeKept, NothingMoves DEF BridgeInv, EnqueueResponse
<1> QED
  BY <1>4, <1>5, <1>7 DEF BridgeInv

LEMMA IngestMessageKeepsInv ==
    ASSUME BridgeInv, IngestMessage
    PROVE  BridgeInv'
<1>1. process # "down"
  BY HandlingIsUp DEF IngestMessage
<1>2. /\ UNCHANGED <<bridge, command, pipe, air, admitted>> /\ held' = NoneHeld
      /\ UNCHANGED vars \/ (RnMoves(RnFails) /\ UNCHANGED <<row, outcome, faults>>)
  BY DEF IngestMessage, Handled, Dropped
<1>3. BridgeTypes' /\ NoNewOutcome
  BY <1>2, PipeKept DEF IngestMessage, Handled, Dropped, BridgeInv, BridgeTypes, NoneHeld
<1>4. CASE UNCHANGED vars
  <2>1. GatewayInv'
    BY <1>4, NothingHappens DEF BridgeInv
  <2>2. process' = process /\ rn' = rn /\ Sending' = Sending /\ (Watched' => Watched)
    BY <1>4 DEF vars, Sending, Watched
  <2>3. ProtocolInv'
    BY <1>1, <1>2, <1>3, <2>2, NothingMoves DEF BridgeInv
  <2> QED
    BY <1>3, <2>1, <2>3 DEF BridgeInv
<1>5. CASE RnMoves(RnFails) /\ UNCHANGED <<row, outcome, faults>>
  BY <1>1, <1>2, <1>3, <1>5, GivesUp DEF RnMoves
<1> QED
  BY <1>2, <1>4, <1>5

LEMMA AdministerKeepsInv ==
    ASSUME BridgeInv, Administer
    PROVE  BridgeInv'
<1>1. GatewayInv'
  BY OnlyFaults DEF Administer, BridgeInv, Spend, GatewayInv, TypeOK
<1>2. BridgeTypes'
  BY DEF Administer, BridgeInv, BridgeTypes
<1>3. ProtocolInv'
  BY <1>2, PipeKept, WorkerStays DEF Administer, BridgeInv, BoundsOnly
<1> QED
  BY <1>1, <1>2, <1>3 DEF BridgeInv

-----------------------------------------------------------------------------
(* How the worker, the bridge and the daemon end and begin.                *)

LEMMA EndedIsQuiet ==
    ASSUME BridgeInv, Ended, UNCHANGED admitted
    PROVE  BridgeTypes' /\ Quiet' /\ held' = NoneHeld
<1>1. /\ bridge' = NoBridge /\ command' = None /\ pipe' = <<>> /\ air' = NoAir /\ held' = NoneHeld
      /\ inbound' = [i \in Inbounds |-> IF inbound[i] = "out" THEN "lost" ELSE inbound[i]]
  BY DEF Ended
<1>2. inbound' \in [Inbounds -> {"none", "out", "handled", "lost"}]
  BY <1>1 DEF BridgeInv, BridgeTypes
<1>3. air' \in [Deliveries -> Nat]
  BY <1>1 DEF NoAir
<1>4. pipe' \in Seq(Events) /\ DOMAIN pipe' = {}
  BY <1>1
<1>5. BridgeTypes'
  BY <1>1, <1>2, <1>3, <1>4 DEF BridgeInv, BridgeTypes, NoBridge, NoneHeld
<1>6. Quiet'
  BY <1>1, <1>4 DEF Quiet, Unread, NoBridge
<1> QED
  BY <1>1, <1>5, <1>6

LEMMA WorkerFailsKeepsInv ==
    ASSUME BridgeInv, WorkerFails \/ Interrupt
    PROVE  BridgeInv'
<1>1. (RnError \/ RnInterrupt) /\ Dropped /\ UNCHANGED <<bridge, command, pipe, air, admitted>>
  BY DEF WorkerFails, Interrupt
<1>2. GatewayInv'
  BY <1>1, RnErrorKeepsInv DEF BridgeInv
<1>3. BridgeTypes' /\ NoNewOutcome
  BY <1>1, PipeKept DEF Dropped, BridgeInv, BridgeTypes, NoneHeld
<1>4. process' = process /\ rn'.pc \in Abandoned
  BY <1>1, WorkerRecords DEF RnError, RnInterrupt, RnMoves, RnRecords, Abandoned
<1>5. process # "down"
  BY <1>1 DEF RnError, RnInterrupt, BridgeInv, ProtocolInv
<1>6. ProtocolInv'
  BY <1>1, <1>3, <1>4, <1>5, WorkerGoesOn DEF BridgeInv, Abandoned
<1> QED
  BY <1>2, <1>3, <1>6 DEF BridgeInv

LEMMA CleanupKeepsInv ==
    ASSUME BridgeInv, Cleanup
    PROVE  BridgeInv'
<1>1. RnCleanup /\ UNCHANGED admitted
  BY DEF Cleanup
<1>2. GatewayInv'
  BY <1>1, RnCleanupKeepsInv DEF BridgeInv
<1>3. process' = process /\ rn'.pc \in {"stopped", "failed"} /\ process # "down"
  BY <1>1 DEF RnCleanup, RnMoves, RnStart, BridgeInv, ProtocolInv
<1>4. CASE Ended
  <2>1. BridgeTypes' /\ Quiet' /\ held' = NoneHeld
    BY <1>1, <1>4, EndedIsQuiet
  <2>2. ProtocolInv'
    BY <1>3, <2>1, QuietSuffices
  <2> QED
    BY <1>2, <2>1, <2>2 DEF BridgeInv
<1>5. CASE UNCHANGED <<bridge, command, pipe, air, inbound, held>>
  <2>1. BridgeTypes' /\ NoNewOutcome
    BY <1>1, <1>5, PipeKept DEF BridgeInv, BridgeTypes
  <2>2. ProtocolInv'
    BY <1>3, <1>5, <2>1, WorkerGoesOn DEF BridgeInv, Abandoned
  <2> QED
    BY <1>2, <2>1, <2>2 DEF BridgeInv
<1> QED
  BY <1>4, <1>5 DEF Cleanup

LEMMA DaemonEndsKeepsInv ==
    ASSUME BridgeInv, DaemonEnds
    PROVE  BridgeInv'
<1>1. (Exit \/ Crash) /\ Ended /\ UNCHANGED admitted
  BY DEF DaemonEnds
<1>2. GatewayInv'
  <2>1. [Next]_vars
    BY <1>1 DEF Next
  <2> QED
    BY <2>1, NextKeepsInv DEF BridgeInv
<1>3. rn'.pc = "stopped"
  BY <1>1 DEF Exit, Crash, Die, RnStart
<1>4. BridgeTypes' /\ Quiet' /\ held' = NoneHeld
  BY <1>1, EndedIsQuiet
<1>5. ProtocolInv'
  BY <1>3, <1>4, QuietSuffices
<1> QED
  BY <1>2, <1>4, <1>5 DEF BridgeInv

LEMMA SpawnBridgeKeepsInv ==
    ASSUME BridgeInv, SpawnBridge
    PROVE  BridgeInv'
<1>1. GatewayInv'
  BY NothingHappens DEF SpawnBridge, BridgeInv
<1>2. /\ process = "down" /\ UNCHANGED <<vars, command, pipe, air, inbound, held, admitted>>
      /\ bridge' = [NoBridge EXCEPT !.pc = "starting"]
  BY DEF SpawnBridge
<1>3. BridgeTypes'
  BY <1>2 DEF BridgeInv, BridgeTypes, NoBridge
<1>4. rn' = rn /\ rn.pc = "stopped" /\ held' = NoneHeld /\ Quiet
  BY <1>2 DEF vars, BridgeInv, ProtocolInv
<1>5. bridge'.active = {} /\ command' = None /\ ~Unread'
  BY <1>2, <1>4 DEF NoBridge, Quiet, Unread, Outcome
<1>6. Quiet'
  BY <1>5 DEF Quiet
<1>7. ProtocolInv'
  BY <1>4, <1>6, QuietSuffices
<1> QED
  BY <1>1, <1>3, <1>7 DEF BridgeInv

LEMMA ServeKeepsInv ==
    ASSUME BridgeInv, Serve
    PROVE  BridgeInv'
<1>1. /\ Restart /\ pipe # <<>> /\ pipe' = Tail(pipe)
      /\ UNCHANGED <<bridge, command, air, inbound, held, admitted>>
  BY DEF Serve
<1>2. GatewayInv'
  BY <1>1, RestartKeepsInv DEF BridgeInv
<1>3. pipe' \in Seq(Events) /\ NoNewOutcome
  BY <1>1, PipeRead DEF BridgeInv
<1>4. BridgeTypes'
  BY <1>1, <1>3 DEF BridgeInv, BridgeTypes
<1>5. process = "down" /\ process' = "running"
  BY <1>1 DEF Restart
<1>6. Quiet
  BY <1>5 DEF BridgeInv, ProtocolInv
<1>7. ~Unread'
  BY <1>3, <1>6, NothingAppears DEF BridgeInv, Quiet
<1>8. Quiet'
  BY <1>1, <1>6, <1>7 DEF Quiet
<1>9. ProtocolInv'
  BY <1>5, <1>8, QuietSuffices
<1> QED
  BY <1>2, <1>4, <1>9 DEF BridgeInv

LEMMA StartFailsKeepsInv ==
    ASSUME BridgeInv, StartFails
    PROVE  BridgeInv'
<1>1. process = "down" /\ Ended /\ UNCHANGED <<vars, admitted>>
  BY DEF StartFails
<1>2. GatewayInv'
  BY <1>1, NothingHappens DEF BridgeInv
<1>3. BridgeTypes' /\ Quiet' /\ held' = NoneHeld
  BY <1>1, EndedIsQuiet
<1>4. rn'.pc = "stopped"
  BY <1>1 DEF vars, BridgeInv, ProtocolInv
<1>5. ProtocolInv'
  BY <1>3, <1>4, QuietSuffices
<1> QED
  BY <1>2, <1>3, <1>5 DEF BridgeInv

\* Messages of runs, the other worker, and the shutdown leave the bridge alone.
LEMMA OthersKeepInv ==
    ASSUME BridgeInv, Produce \/ ((TgStop \/ Shutdown) /\ UNCHANGED bridgeVars)
    PROVE  BridgeInv'
<1>1. UNCHANGED bridgeVars
  BY DEF Produce
<1>2. CASE Produce
  <2>1. PICK S \in SUBSET Messages, a \in Addresses : Project(S, a)
    BY <1>2 DEF Produce, Addresses
  <2>2. GatewayInv' /\ rn' = rn /\ process' = process
    BY <2>1, ProjectKeepsInv DEF BridgeInv, Project, Insert
  <2> QED
    BY <1>1, <2>2, PipeKept, WorkerStays DEF BridgeInv, BridgeTypes, bridgeVars
<1>3. CASE TgStop \/ Shutdown
  <2>1. GatewayInv' /\ rn' = rn /\ process # "down" /\ process' # "down"
    BY <1>3, TgEndBatchKeepsInv, ShutdownKeepsInv DEF BridgeInv, TgStop, Shutdown
  <2>2. BridgeTypes' /\ NoNewOutcome /\ command' = command /\ bridge'.active = bridge.active
    BY <1>1, PipeKept DEF BridgeInv, BridgeTypes, bridgeVars
  <2>3. Sending' = Sending /\ (Watched' => Watched)
    BY <2>1 DEF Sending, Watched
  <2>4. ProtocolInv'
    BY <2>1, <2>2, <2>3, NothingMoves DEF BridgeInv
  <2> QED
    BY <2>1, <2>2, <2>4 DEF BridgeInv
<1> QED
  BY <1>2, <1>3

-----------------------------------------------------------------------------
(* The theorems.                                                           *)

LEMMA BridgeInitInv ==
    ASSUME BridgeInit
    PROVE  BridgeInv
<1>1. GatewayInv
  BY InitInv DEF BridgeInit
<1>2. /\ bridge = [NoBridge EXCEPT !.pc = "reading"] /\ command = None /\ pipe = <<>>
      /\ air = NoAir /\ inbound = [i \in Inbounds |-> "none"] /\ held = NoneHeld
      /\ admitted = TRUE /\ process = "running"
  BY DEF BridgeInit, Init
<1>3. pipe \in Seq(Events) /\ DOMAIN pipe = {} /\ air \in [Deliveries -> Nat]
  BY <1>2 DEF NoAir
<1>4. BridgeTypes
  BY <1>2, <1>3 DEF BridgeTypes, NoBridge, NoneHeld
<1>5. Quiet
  BY <1>2, <1>3 DEF Quiet, Unread, NoBridge
<1>6. ProtocolInv
  BY <1>2, <1>5, QuietIsOne DEF ProtocolInv
<1> QED
  BY <1>1, <1>4, <1>6 DEF BridgeInv

LEMMA WorkerKeepsBridgeInv ==
    ASSUME BridgeInv, Worker
    PROVE  BridgeInv'
<1>1. ASSUME NEW expired \in SUBSET Claimed(Peers), NEW backoff \in SUBSET BackingOff(Peers),
             Claim(expired, backoff)
      PROVE  BridgeInv'
  BY <1>1, ClaimKeepsInv
<1>2. CASE (RnReject \/ RnGuard \/ RnRecord \/ RnDone) /\ UNCHANGED bridgeVars
  BY <1>2, WorkerAloneKeepsInv
<1> QED
  BY <1>1, <1>2, SubmitKeepsInv, RenewClaimKeepsInv, PollEndsKeepsInv, ReadInboundKeepsInv,
     ReadOutcomeKeepsInv, ReadErrorKeepsInv, ResolveIdentityKeepsInv, EnqueueResponseKeepsInv,
     IngestMessageKeepsInv, WorkerFailsKeepsInv, CleanupKeepsInv DEF Worker

LEMMA BridgeNextKeepsInv ==
    ASSUME BridgeInv, [BridgeNext]_allVars
    PROVE  BridgeInv'
<1>1. CASE UNCHANGED allVars
  <2>1. UNCHANGED vars /\ UNCHANGED bridgeVars
    BY <1>1 DEF allVars
  <2>2. GatewayInv'
    BY <2>1, NothingHappens DEF BridgeInv
  <2>3. BridgeTypes'
    BY <2>1 DEF BridgeInv, BridgeTypes, bridgeVars
  <2>4. ProtocolInv'
    BY <2>1, <2>3, PipeKept, WorkerStays DEF BridgeInv, bridgeVars, vars
  <2> QED
    BY <2>2, <2>3, <2>4 DEF BridgeInv
<1>2. ASSUME NEW i \in Inbounds, BridgeInbound(i) PROVE BridgeInv'
  BY <1>2, BridgeInboundKeepsInv
<1>3. ASSUME NEW d \in Deliveries, NEW answer \in {"delivered", "terminal", "retryable"},
             CallBack(d, answer)
      PROVE  BridgeInv'
  BY <1>3, CallBackKeepsInv DEF Reported
<1>4. CASE BridgeMain
  <2>1. ASSUME NEW answer \in {"terminal", "retryable"}, AnswerAtOnce(answer)
        PROVE  BridgeInv'
    BY <2>1, AnswerAtOnceKeepsInv DEF Reported
  <2>2. CASE HandOverFails
    <3>1. "retryable" \in Reported
      BY DEF Reported
    <3> QED
      BY <2>2, <3>1, AnswerAtOnceKeepsInv
  <2> QED
    BY <1>4, <2>1, <2>2, BridgeReadyKeepsInv, ReadCommandKeepsInv, HandOverKeepsInv
       DEF BridgeMain
<1>5. CASE Produce \/ ((TgStop \/ Shutdown) /\ UNCHANGED bridgeVars)
  BY <1>5, OthersKeepInv
<1> QED
  BY <1>1, <1>2, <1>3, <1>4, <1>5, WorkerKeepsBridgeInv, BridgeDiesKeepsInv, AdministerKeepsInv,
     DaemonEndsKeepsInv, SpawnBridgeKeepsInv, ServeKeepsInv, StartFailsKeepsInv DEF BridgeNext

\* The inductive invariant holds in every reachable state of the worker and its
\* bridge: what is under way is in one place, and is the worker's delivery.
THEOREM BridgeInvariant == BridgeSpec => []BridgeInv
<1>1. BridgeInit => BridgeInv
  BY BridgeInitInv
<1>2. BridgeInv /\ [BridgeNext]_allVars => BridgeInv'
  BY BridgeNextKeepsInv
<1> QED
  BY <1>1, <1>2, PTL DEF BridgeSpec

\* Neither side is ever told what it would refuse: every outcome in the pipe is of
\* the delivery the worker waits for, and the bridge never gets a command for a
\* delivery it still works on (delivery in bridge.py, next_event in bridge.rs).
THEOREM ProtocolAlwaysAgrees == BridgeSpec => []ProtocolAgrees
<1>1. BridgeInv => ProtocolAgrees
  <2> SUFFICES ASSUME BridgeInv, Watched
               PROVE  /\ \A k \in DOMAIN pipe : pipe[k].type = "delivery" =>
                           rn.pc = "awaiting" /\ pipe[k].of = Sending
                      /\ command # None => command \notin bridge.active
    BY DEF ProtocolAgrees
  <2>1. CASE rn.pc = "awaiting"
    BY <2>1 DEF BridgeInv, ProtocolInv, OneOfSending, Outcome
  <2>2. CASE rn.pc # "awaiting"
    BY <2>2 DEF BridgeInv, ProtocolInv, Quiet, Unread, Outcome
  <2> QED
    BY <2>1, <2>2
<1> QED
  BY <1>1, BridgeInvariant, PTL

\* Chunks stay in order, rows tell outcomes, claims hold and the queue is never
\* stuck also when the bridge is a process that may answer late, die, or block
\* (run_delivery_once on top of bridge.rs and bridge.py).
THEOREM BridgeKeepsPromises ==
    BridgeSpec => [](TypeOK /\ RowTellsOutcome /\ ChunksInOrder /\ LiveClaimsHold /\ QueueNeverStuck)
<1>1. GatewayInv => TypeOK /\ RowTellsOutcome
  BY DEF GatewayInv
<1>2. GatewayInv => QueueNeverStuck
  BY NeverStuck DEF QueueNeverStuck
<1>3. BridgeInv => TypeOK /\ RowTellsOutcome /\ ChunksInOrder /\ LiveClaimsHold /\ QueueNeverStuck
  BY <1>1, <1>2, InvOrdersChunks, InvHoldsClaims DEF BridgeInv
<1> QED
  BY <1>3, BridgeInvariant, PTL

\* The rows move by the worker's own steps: those of GatewayDelivery.
LEMMA RowsMoveAsBefore ==
    ASSUME BridgeInv, [BridgeNext]_allVars
    PROVE  [Next]_vars \/ UNCHANGED row
<1>1. CASE Produce
  BY <1>1 DEF Produce, Addresses, Next
<1>2. CASE EnqueueResponse
  <2>1. held.of \in Messages
    BY <1>2, HandlingIsUp, BridgeAssumption DEF EnqueueResponse, BridgeAssumption
  <2> QED
    BY <1>2, <2>1 DEF EnqueueResponse, Addresses, Next
<1>3. ASSUME NEW expired \in SUBSET Claimed(Peers), NEW backoff \in SUBSET BackingOff(Peers),
             Claim(expired, backoff)
      PROVE  [Next]_vars
  BY <1>3 DEF Claim, RnStep, Next
<1>4. CASE RnReject \/ RnGuard \/ RnRecord \/ RnDone \/ RnRenew \/ RnError \/ RnInterrupt
           \/ RnCleanup \/ TgStop \/ Shutdown \/ Exit \/ Crash \/ Restart
  BY <1>4 DEF RnStep, Next
<1>5. CASE UNCHANGED allVars \/ UNCHANGED vars \/ BoundsOnly
  BY <1>5 DEF allVars, BoundsOnly
<1>6. CASE Submit \/ ReadOutcome \/ ReadError \/ IngestMessage
  BY <1>6 DEF Submit, ReadOutcome, ReadError, IngestMessage, vars
<1>7. CASE Worker
  BY <1>2, <1>3, <1>4, <1>5, <1>6, <1>7 DEF Worker, RenewClaim, PollEnds, ReadInbound,
     ResolveIdentity, WorkerFails, Interrupt, Cleanup
<1>8. CASE BridgeMain
  BY <1>5, <1>8 DEF BridgeMain, BridgeReady, ReadCommand, HandOver, HandOverFails, AnswerAtOnce
<1> QED
  BY <1>1, <1>4, <1>5, <1>7, <1>8 DEF BridgeNext, BridgeDies, BridgeInbound, CallBack, Administer,
     DaemonEnds, SpawnBridge, Serve, StartFails

\* With the bridge as a process too, nothing whose outcome is in doubt is handed to
\* it again: a late callback, a bridge that died or a torn line never make the worker
\* claim such a delivery (claim_gateway_deliveries).
THEOREM BridgeNeverRepeatsDoubt == BridgeSpec => NeverRepeatedInDoubt
<1>1. ASSUME BridgeInv, [BridgeNext]_allVars, NEW d \in Deliveries
      PROVE  ~Resubmitted(d)
  <2>1. CASE [Next]_vars
    BY <1>1, <2>1, StepRepeatsNothing DEF BridgeInv, Resubmitted
  <2>2. CASE UNCHANGED row
    <3>1. row[d].attempts \in Nat
      BY <1>1 DEF BridgeInv, GatewayInv, TypeOK, RowRecords
    <3> QED
      BY <2>2, <3>1 DEF Resubmitted
  <2> QED
    BY <1>1, <2>1, <2>2, RowsMoveAsBefore
<1>2. BridgeInv /\ [BridgeNext]_allVars => [\A d \in Deliveries : ~Resubmitted(d)]_vars
  BY <1>1
<1> QED
  BY <1>2, BridgeInvariant, PTL DEF BridgeSpec, NeverRepeatedInDoubt

=============================================================================
