----------------------- MODULE ResultDelivery_proofs -----------------------
(***************************************************************************)
(* Theorems about ResultDelivery for every set of connections and every    *)
(* bound: type correctness, the safety properties, and the refinement of   *)
(* ResultContract.                                                         *)
(***************************************************************************)
EXTENDS ResultDelivery, TLAPS

USE BoundsAssumption DEF BoundsAssumption

-----------------------------------------------------------------------------
(* The inductive invariants.                                               *)

\* A result exists once the request is terminal, and exactly a bundle that is
\* being delivered has an owner.
RowsAgree ==
    /\ bundle.state = "none" <=> request # "terminal"
    /\ bundle.owner = "none" <=> bundle.state # "delivering"

\* ClaimFollowsWorker, and what it rests on: a worker that stops because it
\* was fenced leaves an expired claim, and a dead process holds none as "worker".
ClaimInv ==
    /\ ClaimFollowsWorker
    /\ pc = "abort_fenced" /\ bundle.owner = "worker" => bundle.expired
    /\ pc = "down" => bundle.owner # "worker"

Offered == bundle.state \notin {"none", "pending"}

\* A client has the whole result only when it was offered, a session replays
\* only what it read as delivered, and a connection is used once.
KnowledgeInv ==
    \A c \in Conns :
      /\ client[c] \in {"served", "final", "acked", "unacked"} => Offered
      /\ session[c].seen \in {"undelivered", "delivered"} => request = "terminal"
      /\ session[c].seen = "delivered" => bundle.state = "delivered"
      /\ session[c].phase = "replay" => session[c].seen = "delivered"
      /\ session[c].phase = "none" => client[c] = "none"

\* The handler may still have to send Accepted.
BeforeAccepted(s) ==
    \/ s.phase \in {"none", "submit", "reread", "resolve", "subscribe", "accept"}
    \/ s.phase \in {"poll", "dispatch"} /\ s.seen \in {"absent", "active", "detached"}

\* Before Accepted the sink is closed, or shut as well.
AcceptedInv ==
    \A c \in Conns :
      /\ BeforeAccepted(session[c]) =>
           session[c].begun = 0 /\ (session[c].open => session[c].shut)
      /\ session[c].phase = "poll" => session[c].seen \in {"detached", "undelivered"}
      /\ session[c].phase = "none" => ~session[c].subscribed /\ send[c] = "none"

\* A connection that was sent a transmission is being sent it still, is shut,
\* or belongs to a bundle that is never claimed again.
SequenceInv ==
    \A c \in Conns :
      /\ session[c].begun <= 1
      /\ session[c].part = "none" => session[c].begun = 0
      /\ session[c].part = "replay" => session[c].phase \in {"replay", "closing", "done"}
      /\ send[c] # "none" => session[c].part = "transmission"
      /\ session[c].part = "transmission" /\ session[c].begun > 0 =>
           \/ session[c].shut
           \/ pc \in {"sending", "ack", "abort_retry", "abort_fenced"}
                /\ send[c] \in {"writing", "ok"}
           \/ pc \in {"idle", "claim"} /\ bundle.state = "delivered"

DeliveryInv ==
    /\ TypeOK
    /\ RowsAgree
    /\ ClaimInv
    /\ KnowledgeInv
    /\ AcceptedInv
    /\ SequenceInv

-----------------------------------------------------------------------------
(* Type correctness.                                                       *)

\* The rows and records that the actions build have their types.
LEMMA RowTypes ==
  /\ \A x \in {"none", "pending", "failed_retryable", "delivered"} : Stored(x) \in BundleRecords
  /\ \A b \in BundleRecords : ExpireClaim(b) \in BundleRecords /\ Retried(b) \in BundleRecords
  /\ \A x \in {"none", "submit", "resolve"} : NewSession(x) \in SessionRecords
  /\ \A s \in SessionRecords : Ended(s) \in SessionRecords /\ CloseSink(s) \in SessionRecords
  BY DEF BundleRecords, SessionRecords, Stored, ExpireClaim, Retried, BackingOff,
     NewSession, Ended, CloseSink

\* A FinalBegin keeps the type of its session.
LEMMA BeginType == \A s \in SessionRecords : Begin(s) \in SessionRecords
  <1> SUFFICES ASSUME NEW s \in SessionRecords PROVE Begin(s) \in SessionRecords
    OBVIOUS
  <1> DEFINE n == IF s.begun < 2 THEN s.begun + 1 ELSE s.begun
  <1>1. n \in Nat
    BY DEF SessionRecords
  <1>2. Begin(s) = [s EXCEPT !.begun = n]
    BY DEF Begin
  <1> HIDE DEF n
  <1> QED BY <1>1, <1>2 DEF SessionRecords

\* Every decision about a record keeps the type of the session.
LEMMA DispatchedType == \A s \in SessionRecords : Dispatched(s) \in SessionRecords
  <1> SUFFICES ASSUME NEW s \in SessionRecords PROVE Dispatched(s) \in SessionRecords
    OBVIOUS
  <1>1. /\ Ended(s) \in SessionRecords
        /\ [s EXCEPT !.phase = "accept"] \in SessionRecords
        /\ [s EXCEPT !.phase = "poll"] \in SessionRecords
        /\ [s EXCEPT !.phase = "poll", !.open = TRUE] \in SessionRecords
        /\ [s EXCEPT !.phase = "park", !.open = TRUE] \in SessionRecords
    BY RowTypes, ZenonT(40) DEF SessionRecords
  <1>2. [Begin(s) EXCEPT !.phase = "replay", !.open = TRUE, !.part = "replay"]
          \in SessionRecords
    BY BeginType DEF SessionRecords
  <1> QED BY <1>1, <1>2 DEF Dispatched

Phases == {"none", "submit", "reread", "resolve", "subscribe", "dispatch", "accept",
           "stream", "poll", "replay", "park", "closing", "done"}

\* The updates of a session that the actions make keep its type.
LEMMA SessionUpdate ==
  ASSUME NEW f \in [Conns -> SessionRecords], NEW c \in Conns
  PROVE  /\ \A r \in SessionRecords : [f EXCEPT ![c] = r] \in [Conns -> SessionRecords]
         /\ \A x \in Phases : /\ [f[c] EXCEPT !.phase = x] \in SessionRecords
                              /\ [f EXCEPT ![c].phase = x] \in [Conns -> SessionRecords]
         /\ Ended(f[c]) \in SessionRecords
  <1>1. ASSUME NEW x \in Phases PROVE [f[c] EXCEPT !.phase = x] \in SessionRecords
    BY DEF SessionRecords, Phases
  <1>2. ASSUME NEW x \in Phases
        PROVE  [f EXCEPT ![c].phase = x] \in [Conns -> SessionRecords]
    BY DEF SessionRecords, Phases
  <1> QED BY <1>1, <1>2, RowTypes

\* The empty database and an idle worker have the right types.
LEMMA InitTypeOK == Init => TypeOK
  BY RowTypes DEF Init, TypeOK, NoSends, RequestStates, WorkerStates, SendStates, ClientStates

\* What a session does keeps the types.
LEMMA SessionTypeOK ==
  ASSUME TypeOK, NEW c \in Conns,
         ConnectSubmit(c) \/ ConnectResume(c) \/ SessionStep(c)
  PROVE  TypeOK'
  <1> DEFINE s == session[c]
  <1>s. session \in [Conns -> SessionRecords] /\ s \in SessionRecords
    BY DEF TypeOK
  <1>u. \A r \in SessionRecords : [session EXCEPT ![c] = r] \in [Conns -> SessionRecords]
    BY <1>s, SessionUpdate
  <1>p. \A x \in Phases : [session EXCEPT ![c].phase = x] \in [Conns -> SessionRecords]
    BY <1>s, SessionUpdate
  <1>e. Ended(s) \in SessionRecords
    BY <1>s, RowTypes
  <1>r. Record \in {"absent", "active", "detached", "undelivered", "delivered"}
    BY DEF Record, TypeOK, RequestStates
  <1>k. SUFFICES /\ session' \in [Conns -> SessionRecords]
                 /\ request' \in RequestStates
                 /\ client' \in [Conns -> ClientStates]
                 /\ UNCHANGED <<bundle, workerVars, boundVars>>
    BY DEF TypeOK, workerVars, boundVars
  <1> USE DEF rowVars, Phase, Phases
  <1>t. request \in RequestStates /\ client \in [Conns -> ClientStates]
    BY DEF TypeOK
  <1>1. CASE ConnectSubmit(c)
    <2>1. [NewSession("submit") EXCEPT !.subscribed = TRUE] \in SessionRecords
      BY DEF NewSession, SessionRecords
    <2> QED BY <1>1, <1>u, <1>t, <2>1 DEF ConnectSubmit, ClientStates
  <1>2. CASE ConnectResume(c)
    <2>1. NewSession("resolve") \in SessionRecords
      BY RowTypes
    <2> QED BY <1>2, <1>u, <1>t, <2>1 DEF ConnectResume, ClientStates
  <1>3. CASE SubmitForActor(c)
    BY <1>3, <1>p, <1>t DEF SubmitForActor, RequestStates
  <1>4. CASE Resolve(c)
    <2>1. [s EXCEPT !.phase = "subscribe", !.seen = Record] \in SessionRecords
      BY <1>s, <1>r DEF SessionRecords
    <2>2. session' = [session EXCEPT ![c] = [s EXCEPT !.phase = "subscribe", !.seen = Record]]
      BY <1>4 DEF Resolve
    <2> QED BY <1>4, <1>u, <1>t, <2>1, <2>2 DEF Resolve
  <1>5. CASE SubscribeDelivery(c)
    <2> DEFINE r == [s EXCEPT !.phase = "dispatch", !.subscribed = (s.seen # "absent")]
    <2>1. r \in SessionRecords
      BY <1>s DEF SessionRecords
    <2>2. session' = [session EXCEPT ![c] = r]
      BY <1>5 DEF SubscribeDelivery
    <2> QED BY <1>5, <1>u, <1>t, <2>1, <2>2 DEF SubscribeDelivery
  <1>6. CASE ServeDurableRequest(c)
    <2>1. Dispatched(s) \in SessionRecords
      BY <1>s, DispatchedType
    <2>2. session' = [session EXCEPT ![c] = Dispatched(s)]
      BY <1>6 DEF ServeDurableRequest
    <2> QED BY <1>6, <1>u, <1>t, <2>1, <2>2 DEF ServeDurableRequest
  <1>7. CASE SendAccepted(c)
    <2>1. [s EXCEPT !.phase = "stream", !.open = TRUE] \in SessionRecords
      BY <1>s DEF SessionRecords
    <2>2. PICK r \in SessionRecords : session' = [session EXCEPT ![c] = r]
      BY <1>7, <1>e, <2>1 DEF SendAccepted
    <2> QED BY <1>7, <1>u, <1>t, <2>2 DEF SendAccepted
  <1>8. CASE PollRecord(c)
    <2>1. [s EXCEPT !.phase = "dispatch", !.seen = Record] \in SessionRecords
      BY <1>s, <1>r DEF SessionRecords
    <2>2. session' = [session EXCEPT ![c] = [s EXCEPT !.phase = "dispatch", !.seen = Record]]
      BY <1>8 DEF PollRecord
    <2> QED BY <1>8, <1>u, <1>t, <2>1, <2>2 DEF PollRecord
  <1>9. CASE Replay(c)
    <2>1. \/ session' = [session EXCEPT ![c] = Ended(s)]
          \/ session' = [session EXCEPT ![c].phase = "closing"]
      BY <1>9 DEF Replay
    <2> QED BY <1>9, <1>u, <1>p, <1>e, <1>t, <2>1 DEF Replay, ClientStates
  <1>10. CASE SeeDisconnect(c)
    <2>1. [s EXCEPT !.phase = "closing", !.open = TRUE] \in SessionRecords
      BY <1>s DEF SessionRecords
    <2>2. session' = [session EXCEPT ![c] = [s EXCEPT !.phase = "closing", !.open = TRUE]]
      BY <1>10 DEF SeeDisconnect
    <2> QED BY <1>10, <1>u, <1>t, <2>1, <2>2 DEF SeeDisconnect
  <1>11. CASE Close(c)
    <2> DEFINE r == [Ended(s) EXCEPT !.open = TRUE, !.shut = TRUE]
    <2>1. r \in SessionRecords
      BY <1>e DEF SessionRecords
    <2>2. session' = [session EXCEPT ![c] = r]
      BY <1>11 DEF Close
    <2> QED BY <1>11, <1>u, <1>t, <2>1, <2>2 DEF Close
  <1> QED
    BY <1>1, <1>2, <1>3, <1>4, <1>5, <1>6, <1>7, <1>8, <1>9, <1>10, <1>11 DEF SessionStep

\* What a client does, and the worker's send to it, keeps the types.
LEMMA ClientTypeOK ==
  ASSUME TypeOK, NEW c \in Conns,
         ClientLeaves(c) \/ ClientStep(c) \/ SendStep(c)
  PROVE  TypeOK'
  <1> USE DEF TypeOK, rowVars, workerVars, boundVars, SendTo
  <1>1. CASE ClientLeaves(c)
    BY <1>1 DEF ClientLeaves, ClientStates
  <1>2. CASE SeeEndOfStream(c)
    BY <1>2 DEF SeeEndOfStream, ClientStates
  <1>3. CASE VerifyFinal(c)
    BY <1>3 DEF VerifyFinal, ClientStates
  <1>4. CASE AcknowledgeBundle(c)
    BY <1>4, RowTypes DEF AcknowledgeBundle, ClientStates
  <1>5. CASE BeginSend(c)
    <2>1. Begin(session[c]) \in SessionRecords
      BY BeginType
    <2>2. session' = [session EXCEPT ![c] = Begin(session[c])]
      BY <1>5 DEF BeginSend
    <2>3. session' \in [Conns -> SessionRecords]
      BY <2>1, <2>2
    <2> QED BY <1>5, <2>3 DEF BeginSend, SendStates
  <1>6. CASE EndSend(c)
    BY <1>6 DEF EndSend, SendStates, ClientStates
  <1>7. CASE FailSend(c)
    BY <1>7, ZenonT(40) DEF FailSend, SendStates, SessionRecords
  <1>8. CASE AbortRecipient(c)
    BY <1>8, ZenonT(40) DEF AbortRecipient, SendStates, CloseSink, SessionRecords
  <1> QED
    BY <1>1, <1>2, <1>3, <1>4, <1>5, <1>6, <1>7, <1>8 DEF ClientStep, SendStep

\* The worker's own steps keep the types.
LEMMA WorkerTypeOK ==
  ASSUME TypeOK, WorkerStep \/ ExpireForOthers
  PROVE  TypeOK'
  <1> USE DEF TypeOK, rowVars, workerVars, boundVars, Goto, WorkerStates
  <1>0. NoSends \in [Conns -> SendStates]
    BY DEF NoSends, SendStates
  <1>1. CASE ClaimReadyBundle
    <2>1. bundle' \in BundleRecords
      <3>1. ExpireClaim(bundle) \in BundleRecords
        BY RowTypes
      <3>2. [state |-> "delivering", owner |-> "worker", expired |-> FALSE, due |-> TRUE]
              \in BundleRecords
        BY DEF BundleRecords
      <3> QED BY <1>1, <3>1, <3>2 DEF ClaimReadyBundle
    <2>2. pc' \in WorkerStates /\ UNCHANGED send
      BY <1>1 DEF ClaimReadyBundle
    <2> QED BY <1>1, <2>1, <2>2 DEF ClaimReadyBundle
  <1>2. CASE Snapshot
    <2>1. send' \in [Conns -> SendStates]
      BY <1>2 DEF Snapshot, SendStates
    <2>2. session' \in [Conns -> SessionRecords]
      BY <1>2 DEF Snapshot, SessionRecords
    <2> QED BY <1>2, <2>1, <2>2 DEF Snapshot, AfterSnapshot
  <1>3. CASE FailBundleRetryable \/ ExpireForOthers
    BY <1>3, RowTypes DEF FailBundleRetryable, ExpireForOthers
  <1>4. CASE LookForSubscribers \/ AwaitTransmissionSlot \/ LoadClaimedBundle
    BY <1>4 DEF LookForSubscribers, AwaitTransmissionSlot, LoadClaimedBundle
  <1>5. CASE SendsEnd \/ FencedWhileSending \/ SeeDelivered
    BY <1>5, <1>0 DEF SendsEnd, FencedWhileSending, SeeDelivered
  <1>6. CASE GiveUpOnAck \/ FencedWhileWaiting \/ AbortEnds
    BY <1>6 DEF GiveUpOnAck, FencedWhileWaiting, AbortEnds
  <1> QED
    BY <1>1, <1>2, <1>3, <1>4, <1>5, <1>6 DEF WorkerStep

\* Time, the request's own fate, crashes and restarts keep the types.
LEMMA OtherTypeOK ==
  ASSUME TypeOK,
         \/ CommitResult \/ DetachOrAssign
         \/ BackoffElapses \/ DeadClaimExpires \/ LiveClaimExpires
         \/ Crash \/ Shutdown \/ Restart
  PROVE  TypeOK'
  <1> USE DEF TypeOK, rowVars, workerVars, boundVars
  <1>1. CASE CommitResult \/ DetachOrAssign
    BY <1>1, RowTypes DEF CommitResult, DetachOrAssign, RequestStates
  <1>2. CASE BackoffElapses \/ DeadClaimExpires \/ LiveClaimExpires
    <2>1. bundle' \in BundleRecords
      BY <1>2 DEF BackoffElapses, DeadClaimExpires, LiveClaimExpires, BundleRecords
    <2>2. pauses' \in 0..MaxPauses /\ crashes' = crashes
      BY <1>2 DEF BackoffElapses, DeadClaimExpires, LiveClaimExpires
    <2> QED
      BY <1>2, <2>1, <2>2 DEF BackoffElapses, DeadClaimExpires, LiveClaimExpires
  <1>3. CASE Crash \/ Shutdown
    <2>1. ProcessEnds
      BY <1>3 DEF Crash, Shutdown
    <2>2. session' \in [Conns -> SessionRecords]
      BY <2>1, RowTypes DEF ProcessEnds
    <2>3. send' \in [Conns -> SendStates] /\ pc' \in WorkerStates
      BY <2>1 DEF ProcessEnds, NoSends, SendStates, WorkerStates
    <2>4. bundle' \in BundleRecords
      BY <1>3, RowTypes DEF Crash, Shutdown, BundleRecords
    <2> QED BY <2>1, <2>2, <2>3, <2>4 DEF ProcessEnds
  <1>4. CASE Restart
    BY <1>4, RowTypes DEF Restart, WorkerStates
  <1> QED BY <1>1, <1>2, <1>3, <1>4

\* Every step keeps the types.
LEMMA NextTypeOK == TypeOK /\ [Next]_vars => TypeOK'
  <1> SUFFICES ASSUME TypeOK, [Next]_vars PROVE TypeOK' OBVIOUS
  <1>1. CASE UNCHANGED vars
    BY <1>1 DEF vars, TypeOK
  <1> QED
    BY <1>1, SessionTypeOK, ClientTypeOK, WorkerTypeOK, OtherTypeOK DEF Next

\* The rows, the worker, the sessions and the clients always hold values of
\* their type.
THEOREM DeliveryTypeCorrect == Spec => []TypeOK
  BY InitTypeOK, NextTypeOK, PTL DEF Spec

-----------------------------------------------------------------------------
(* The rows: what no step undoes.                                          *)

\* A terminal request, an offered bundle and a delivered one stay so.
RowsAdvance ==
    /\ request = "terminal" => request' = "terminal"
    /\ Offered => Offered'
    /\ bundle.state = "delivered" => bundle' = bundle

\* Every step keeps the rows in agreement and moves them forward only.
LEMMA RowStep ==
  ASSUME TypeOK, RowsAgree, [Next]_vars
  PROVE  RowsAgree' /\ RowsAdvance
  <1> USE DEF RowsAgree, RowsAdvance, Offered, rowVars
  <1>t. bundle \in BundleRecords
    BY DEF TypeOK
  <1>0. ASSUME UNCHANGED <<request, bundle>> PROVE RowsAgree' /\ RowsAdvance
    BY <1>0
  <1>1. CASE UNCHANGED vars
    BY <1>0, <1>1 DEF vars
  <1>2. CASE CommitResult
    BY <1>2 DEF CommitResult, Stored
  <1>3. CASE DetachOrAssign
    BY <1>3 DEF DetachOrAssign
  <1>4. ASSUME NEW c \in Conns, ConnectSubmit(c) \/ ConnectResume(c) \/ SessionStep(c)
        PROVE  RowsAgree' /\ RowsAdvance
    <2>1. CASE SubmitForActor(c)
      BY <2>1 DEF SubmitForActor
    <2>2. CASE ~SubmitForActor(c)
      BY <1>0, <1>4, <2>2
      DEF ConnectSubmit, ConnectResume, SessionStep, Resolve, SubscribeDelivery,
          ServeDurableRequest, SendAccepted, PollRecord, Replay, SeeDisconnect, Close
    <2> QED BY <2>1, <2>2
  <1>5. ASSUME NEW c \in Conns, ClientLeaves(c) \/ ClientStep(c) \/ SendStep(c)
        PROVE  RowsAgree' /\ RowsAdvance
    <2>1. CASE AcknowledgeBundle(c)
      BY <2>1 DEF AcknowledgeBundle, Stored
    <2>2. CASE ~AcknowledgeBundle(c)
      BY <1>0, <1>5, <2>2
      DEF ClientLeaves, ClientStep, SeeEndOfStream, VerifyFinal, SendStep, BeginSend,
          EndSend, FailSend, AbortRecipient
    <2> QED BY <2>1, <2>2
  <1>6. CASE WorkerStep
    <2>1. CASE ClaimReadyBundle
      BY <2>1 DEF ClaimReadyBundle, ExpireClaim, Claimable, Stored
    <2>2. CASE FailBundleRetryable
      BY <2>2, <1>t DEF FailBundleRetryable, Retried, OwnsClaim, BackingOff, Stored, BundleRecords
    <2>3. CASE ~ClaimReadyBundle /\ ~FailBundleRetryable
      BY <1>0, <1>6, <2>3
      DEF WorkerStep, LookForSubscribers, AwaitTransmissionSlot, LoadClaimedBundle,
          Snapshot, SendsEnd, FencedWhileSending, SeeDelivered, GiveUpOnAck,
          FencedWhileWaiting, AbortEnds
    <2> QED BY <2>1, <2>2, <2>3
  <1>7. CASE ExpireForOthers \/ Restart
    BY <1>7 DEF ExpireForOthers, Restart, ExpireClaim, Stored
  <1>8. CASE BackoffElapses \/ DeadClaimExpires \/ LiveClaimExpires
    BY <1>8, <1>t DEF BackoffElapses, DeadClaimExpires, LiveClaimExpires, OwnsClaim, BundleRecords
  <1>9. CASE Crash \/ Shutdown
    BY <1>9, <1>t DEF Crash, Shutdown, ProcessEnds, Stored, BundleRecords
  <1> QED BY <1>1, <1>2, <1>3, <1>4, <1>5, <1>6, <1>7, <1>8, <1>9 DEF Next

-----------------------------------------------------------------------------
(* The worker and its claim.                                               *)

\* Every step keeps what the worker believes of its claim true.
LEMMA ClaimStep ==
  ASSUME TypeOK, RowsAgree, ClaimInv, [Next]_vars
  PROVE  ClaimInv'
  <1> USE DEF RowsAgree, ClaimInv, ClaimFollowsWorker, ClaimHolding, rowVars, workerVars, Goto
  <1>t. bundle \in BundleRecords /\ pc \in WorkerStates
    BY DEF TypeOK
  <1>0. ASSUME UNCHANGED <<bundle, pc>> PROVE ClaimInv'
    BY <1>0
  <1>1. CASE UNCHANGED vars
    BY <1>0, <1>1 DEF vars
  <1>2. CASE CommitResult
    BY <1>2, <1>t DEF CommitResult, Stored, BundleRecords
  <1>3. CASE DetachOrAssign
    BY <1>0, <1>3 DEF DetachOrAssign
  <1>4. ASSUME NEW c \in Conns, ConnectSubmit(c) \/ ConnectResume(c) \/ SessionStep(c)
        PROVE  ClaimInv'
    BY <1>0, <1>4
    DEF ConnectSubmit, ConnectResume, SessionStep, SubmitForActor, Resolve,
        SubscribeDelivery, ServeDurableRequest, SendAccepted, PollRecord, Replay,
        SeeDisconnect, Close
  <1>5. ASSUME NEW c \in Conns, ClientLeaves(c) \/ ClientStep(c) \/ SendStep(c)
        PROVE  ClaimInv'
    <2>1. CASE AcknowledgeBundle(c)
      BY <2>1 DEF AcknowledgeBundle, Stored
    <2>2. CASE ~AcknowledgeBundle(c)
      BY <1>0, <1>5, <2>2
      DEF ClientLeaves, ClientStep, SeeEndOfStream, VerifyFinal, SendStep, BeginSend,
          EndSend, FailSend, AbortRecipient, SendTo
    <2> QED BY <2>1, <2>2
  <1>6. CASE WorkerStep
    <2>1. CASE ClaimReadyBundle
      BY <2>1 DEF ClaimReadyBundle, ExpireClaim, Claimable, Stored
    <2>2. CASE FailBundleRetryable
      BY <2>2, <1>t DEF FailBundleRetryable, Retried, OwnsClaim, BackingOff, Stored
    <2>3. CASE LookForSubscribers
      BY <2>3 DEF LookForSubscribers
    <2>4. CASE AwaitTransmissionSlot \/ LoadClaimedBundle
      BY <2>4, <1>t DEF AwaitTransmissionSlot, LoadClaimedBundle, OwnsClaim
    <2>5. CASE Snapshot
      BY <2>5 DEF Snapshot, AfterSnapshot
    <2>6. CASE SendsEnd \/ SeeDelivered \/ GiveUpOnAck
      BY <2>6 DEF SendsEnd, SeeDelivered, GiveUpOnAck
    <2>7. CASE FencedWhileSending \/ FencedWhileWaiting
      BY <2>7 DEF FencedWhileSending, FencedWhileWaiting, Fenced, OwnsClaim
    <2>8. CASE AbortEnds
      BY <2>8 DEF AbortEnds, Aborting
    <2> QED
      BY <1>6, <2>1, <2>2, <2>3, <2>4, <2>5, <2>6, <2>7, <2>8 DEF WorkerStep
  <1>7. CASE ExpireForOthers \/ Restart
    BY <1>7 DEF ExpireForOthers, Restart, ExpireClaim, Stored
  <1>8. CASE BackoffElapses \/ DeadClaimExpires \/ LiveClaimExpires
    BY <1>8, <1>t DEF BackoffElapses, DeadClaimExpires, LiveClaimExpires, OwnsClaim, BundleRecords
  <1>9. CASE Crash \/ Shutdown
    BY <1>9, <1>t DEF Crash, Shutdown, ProcessEnds, Stored, BundleRecords
  <1> QED BY <1>1, <1>2, <1>3, <1>4, <1>5, <1>6, <1>7, <1>8, <1>9 DEF Next

-----------------------------------------------------------------------------
(* What sessions and clients know of the result.                           *)

\* What one connection and its session know.
Knows(c) ==
    /\ client[c] \in {"served", "final", "acked", "unacked"} => Offered
    /\ session[c].seen \in {"undelivered", "delivered"} => request = "terminal"
    /\ session[c].seen = "delivered" => bundle.state = "delivered"
    /\ session[c].phase = "replay" => session[c].seen = "delivered"
    /\ session[c].phase = "none" => client[c] = "none"

\* A step of one connection leaves the others as they are.
OnlyConn(c) ==
    \A d \in Conns \ {c} : session'[d] = session[d] /\ client'[d] = client[d]

\* A session's step keeps what it knows true.
LEMMA SessionKnows ==
  ASSUME TypeOK, RowsAgree, RowsAdvance, NEW c \in Conns, Knows(c),
         ConnectSubmit(c) \/ ConnectResume(c) \/ SessionStep(c)
  PROVE  Knows(c)' /\ OnlyConn(c)
  <1> USE DEF Knows, OnlyConn, RowsAdvance, rowVars, Phase
  <1>t. /\ session \in [Conns -> SessionRecords] /\ session[c] \in SessionRecords
        /\ client \in [Conns -> ClientStates]
    BY DEF TypeOK
  <1>1. CASE ConnectSubmit(c)
    BY <1>1, <1>t DEF ConnectSubmit, NewSession
  <1>2. CASE ConnectResume(c)
    BY <1>2, <1>t DEF ConnectResume, NewSession
  <1>3. CASE SubmitForActor(c)
    BY <1>3, <1>t DEF SubmitForActor, SessionRecords
  <1>4. CASE Resolve(c)
    BY <1>4, <1>t DEF Resolve, Record, SessionRecords
  <1>5. CASE SubscribeDelivery(c)
    BY <1>5, <1>t DEF SubscribeDelivery, SessionRecords
  <1>6. CASE ServeDurableRequest(c)
    <2>1. /\ Dispatched(session[c]).seen = session[c].seen
          /\ Dispatched(session[c]).phase # "none"
          /\ Dispatched(session[c]).phase = "replay" => session[c].seen = "delivered"
      BY <1>t DEF Dispatched, Begin, Ended, SessionRecords
    <2> QED BY <1>6, <1>t, <2>1 DEF ServeDurableRequest
  <1>7. CASE SendAccepted(c)
    BY <1>7, <1>t DEF SendAccepted, Ended, SessionRecords
  <1>8. CASE PollRecord(c)
    BY <1>8, <1>t DEF PollRecord, Record, SessionRecords
  <1>9. CASE Replay(c)
    <2>0. \/ session' = [session EXCEPT ![c] = Ended(session[c])]
          \/ session' = [session EXCEPT ![c].phase = "closing"]
      BY <1>9 DEF Replay
    <2>1. /\ session[c].seen = "delivered" /\ session'[c].seen = session[c].seen
          /\ session'[c].phase \in {"closing", "done"}
      <3>1. session[c].seen = "delivered"
        BY <1>9 DEF Replay
      <3> QED BY <2>0, <3>1, <1>t DEF Ended, SessionRecords
    <2>2. bundle.state = "delivered" /\ bundle' = bundle /\ request' = request
      BY <1>9, <2>1 DEF Replay
    <2>3. \A d \in Conns \ {c} : session'[d] = session[d] /\ client'[d] = client[d]
      BY <1>9, <1>t DEF Replay
    <2> QED BY <2>1, <2>2, <2>3 DEF Offered
  <1>10. CASE SeeDisconnect(c)
    BY <1>10, <1>t DEF SeeDisconnect, SessionRecords
  <1>11. CASE Close(c)
    BY <1>11, <1>t DEF Close, Ended, SessionRecords
  <1> QED
    BY <1>1, <1>2, <1>3, <1>4, <1>5, <1>6, <1>7, <1>8, <1>9, <1>10, <1>11 DEF SessionStep

\* So does a client's step, and the worker's send to it.
LEMMA ClientKnows ==
  ASSUME TypeOK, RowsAgree, RowsAdvance, ClaimInv, NEW c \in Conns, Knows(c),
         ClientLeaves(c) \/ ClientStep(c) \/ SendStep(c)
  PROVE  Knows(c)' /\ OnlyConn(c)
  <1> USE DEF Knows, OnlyConn, RowsAdvance, rowVars
  <1>t. /\ session \in [Conns -> SessionRecords] /\ session[c] \in SessionRecords
        /\ client \in [Conns -> ClientStates]
    BY DEF TypeOK
  <1>1. CASE ClientLeaves(c) \/ SeeEndOfStream(c) \/ VerifyFinal(c)
    BY <1>1, <1>t DEF ClientLeaves, SeeEndOfStream, VerifyFinal, ClientStates
  <1>2. CASE AcknowledgeBundle(c)
    BY <1>2, <1>t DEF AcknowledgeBundle, ClientStates
  <1>3. CASE BeginSend(c)
    BY <1>3, <1>t DEF BeginSend, Begin, SessionRecords
  <1>4. CASE EndSend(c)
    <2>1. Offered
      BY <1>4 DEF EndSend, ClaimInv, ClaimFollowsWorker, ClaimHolding, Offered
    <2> QED BY <1>4, <1>t, <2>1 DEF EndSend, ClientStates, Writable, Connected
  <1>5. CASE FailSend(c)
    BY <1>5, <1>t DEF FailSend, SessionRecords
  <1>6. CASE AbortRecipient(c)
    BY <1>6, <1>t DEF AbortRecipient, CloseSink, SessionRecords
  <1> QED BY <1>1, <1>2, <1>3, <1>4, <1>5, <1>6 DEF ClientStep, SendStep

\* Steps that keep every session's knowledge: what a session has seen and
\* where it is, and what its client holds.
SameKnowledge ==
    \A c \in Conns :
      /\ session'[c].seen = session[c].seen
      /\ \/ session'[c].phase = session[c].phase
         \/ session[c].phase # "none" /\ session'[c].phase = "done"
      /\ client'[c] = client[c]

\* Every other step keeps what they know true.
LEMMA OtherKnows ==
  ASSUME TypeOK,
         \/ CommitResult \/ DetachOrAssign
         \/ WorkerStep \/ ExpireForOthers
         \/ BackoffElapses \/ DeadClaimExpires \/ LiveClaimExpires
         \/ Crash \/ Shutdown \/ Restart
  PROVE  SameKnowledge
  <1> USE DEF SameKnowledge
  <1>t. session \in [Conns -> SessionRecords]
    BY DEF TypeOK
  <1>0. ASSUME UNCHANGED <<session, client>> PROVE SameKnowledge
    BY <1>0
  <1>1. CASE Snapshot
    BY <1>1, <1>t DEF Snapshot, SessionRecords
  <1>2. CASE Crash \/ Shutdown
    <2>1. UNCHANGED client
      BY <1>2 DEF Crash, Shutdown, ProcessEnds
    <2>2. ASSUME NEW c \in Conns
          PROVE  /\ session'[c].seen = session[c].seen
                 /\ \/ session'[c].phase = session[c].phase
                    \/ session[c].phase # "none" /\ session'[c].phase = "done"
      <3>0. ProcessEnds
        BY <1>2 DEF Crash, Shutdown
      <3>1. \/ session'[c] = session[c]
            \/ session[c].phase # "none" /\ session'[c] = CloseSink(Ended(session[c]))
        BY <3>0 DEF ProcessEnds
      <3>2. /\ CloseSink(Ended(session[c])).seen = session[c].seen
            /\ CloseSink(Ended(session[c])).phase = "done"
        BY <1>t DEF CloseSink, Ended, SessionRecords
      <3> QED BY <3>1, <3>2
    <2> QED BY <2>1, <2>2
  <1>3. CASE CommitResult \/ DetachOrAssign \/ Restart
    BY <1>0, <1>3 DEF CommitResult, DetachOrAssign, Restart
  <1>4. CASE BackoffElapses \/ DeadClaimExpires \/ LiveClaimExpires \/ ExpireForOthers
    BY <1>0, <1>4
    DEF BackoffElapses, DeadClaimExpires, LiveClaimExpires, ExpireForOthers
  <1>5. CASE WorkerStep /\ ~Snapshot
    BY <1>0, <1>5
    DEF WorkerStep, LookForSubscribers, ClaimReadyBundle, AwaitTransmissionSlot,
        LoadClaimedBundle, SendsEnd, FencedWhileSending, SeeDelivered, GiveUpOnAck,
        FencedWhileWaiting, AbortEnds, FailBundleRetryable
  <1> QED BY <1>1, <1>2, <1>3, <1>4, <1>5

\* Every step keeps what sessions and clients know true.
LEMMA KnowledgeStep ==
  ASSUME TypeOK, RowsAgree, ClaimInv, KnowledgeInv, [Next]_vars
  PROVE  KnowledgeInv'
  <1>1. RowsAdvance
    BY RowStep
  <1>2. \A c \in Conns : Knows(c)
    BY DEF KnowledgeInv, Knows
  <1>3. SUFFICES \A c \in Conns : Knows(c)'
    BY DEF KnowledgeInv, Knows, Offered
  <1>4. ASSUME NEW c \in Conns, Knows(c)' /\ OnlyConn(c) PROVE \A d \in Conns : Knows(d)'
    <2> SUFFICES ASSUME NEW d \in Conns \ {c} PROVE Knows(d)'
      BY <1>4
    <2>1. Knows(d) /\ session'[d] = session[d] /\ client'[d] = client[d]
      BY <1>2, <1>4 DEF OnlyConn
    <2> QED BY <1>1, <2>1 DEF Knows, RowsAdvance
  <1>5. ASSUME SameKnowledge PROVE \A c \in Conns : Knows(c)'
    BY <1>1, <1>2, <1>5 DEF Knows, SameKnowledge, RowsAdvance
  <1>6. CASE UNCHANGED vars
    BY <1>5, <1>6 DEF vars, SameKnowledge
  <1>7. ASSUME NEW c \in Conns,
               \/ ConnectSubmit(c) \/ ConnectResume(c) \/ SessionStep(c)
               \/ ClientLeaves(c) \/ ClientStep(c) \/ SendStep(c)
        PROVE  \A d \in Conns : Knows(d)'
    BY <1>1, <1>2, <1>4, <1>7, SessionKnows, ClientKnows
  <1> QED BY <1>5, <1>6, <1>7, OtherKnows DEF Next

-----------------------------------------------------------------------------
(* What is sent on one connection, and when.                               *)

\* AcceptedInv and SequenceInv of one connection.
Orderly(c) ==
    /\ BeforeAccepted(session[c]) =>
         session[c].begun = 0 /\ (session[c].open => session[c].shut)
    /\ session[c].phase = "poll" => session[c].seen \in {"detached", "undelivered"}
    /\ session[c].phase = "none" => ~session[c].subscribed /\ send[c] = "none"
    /\ session[c].begun <= 1
    /\ session[c].part = "none" => session[c].begun = 0
    /\ session[c].part = "replay" => session[c].phase \in {"replay", "closing", "done"}
    /\ send[c] # "none" => session[c].part = "transmission"
    /\ session[c].part = "transmission" /\ session[c].begun > 0 =>
         \/ session[c].shut
         \/ pc \in {"sending", "ack", "abort_retry", "abort_fenced"}
              /\ send[c] \in {"writing", "ok"}
         \/ pc \in {"idle", "claim"} /\ bundle.state = "delivered"

\* A session's step keeps its connection orderly.
LEMMA SessionOrderly ==
  ASSUME TypeOK, RowsAgree, NEW c \in Conns, Orderly(c), Knows(c),
         ConnectSubmit(c) \/ ConnectResume(c) \/ SessionStep(c)
  PROVE  /\ Orderly(c)'
         /\ UNCHANGED <<pc, send, bundle>>
         /\ \A d \in Conns \ {c} : session'[d] = session[d]
  <1>t. session \in [Conns -> SessionRecords] /\ session[c] \in SessionRecords
    BY DEF TypeOK
  <1>u. UNCHANGED <<pc, send, bundle>>
    BY DEF ConnectSubmit, ConnectResume, SessionStep, SubmitForActor, Resolve,
       SubscribeDelivery, ServeDurableRequest, SendAccepted, PollRecord, Replay,
       SeeDisconnect, Close, rowVars, workerVars
  <1>1. CASE ConnectSubmit(c) \/ ConnectResume(c)
    <2>1. /\ session'[c].phase \in {"submit", "resolve"} /\ session'[c].part = "none"
          /\ session'[c].begun = 0 /\ ~session'[c].open
          /\ \A d \in Conns \ {c} : session'[d] = session[d]
      <3>1. CASE ConnectSubmit(c)
        BY <3>1, <1>t DEF ConnectSubmit, NewSession
      <3>2. CASE ConnectResume(c)
        BY <3>2, <1>t DEF ConnectResume, NewSession
      <3> QED BY <1>1, <3>1, <3>2
    <2>2. send[c] = "none"
      BY <1>1 DEF ConnectSubmit, ConnectResume, Orderly
    <2> QED BY <1>u, <2>1, <2>2 DEF Orderly
  <1>2. CASE SubmitForActor(c)
    <2>1. \E x \in {"reread", "accept"} : session' = [session EXCEPT ![c].phase = x]
      BY <1>2 DEF SubmitForActor, Phase
    <2>2. session[c].phase = "submit"
      BY <1>2 DEF SubmitForActor
    <2> QED BY <1>t, <1>u, <2>1, <2>2 DEF Orderly, BeforeAccepted, SessionRecords
  <1>3. CASE Resolve(c)
    BY <1>3, <1>t, <1>u DEF Resolve, Orderly, BeforeAccepted, SessionRecords
  <1>4. CASE SubscribeDelivery(c)
    BY <1>4, <1>t, <1>u DEF SubscribeDelivery, Orderly, BeforeAccepted, SessionRecords
  <1>5. CASE ServeDurableRequest(c)
    <2> DEFINE s == session[c]
               t == Dispatched(s)
    <2>1. session[c].phase = "dispatch" /\ session' = [session EXCEPT ![c] = t]
      BY <1>5 DEF ServeDurableRequest
    <2>2. t.seen = s.seen /\ t.shut = s.shut /\ t.phase # "none"
      BY <1>t DEF Dispatched, Ended, Begin, SessionRecords
    <2>3. BeforeAccepted(t) => BeforeAccepted(s) /\ t.begun = s.begun /\ t.open = s.open
      BY <1>t, <2>1 DEF BeforeAccepted, Dispatched, Ended, Begin, SessionRecords
    <2>4. t.phase = "poll" => s.seen \in {"detached", "undelivered"}
      BY <1>t DEF Dispatched, Ended, Begin, SessionRecords
    <2>5. \/ t.part = s.part /\ t.begun = s.begun
          \/ s.part # "transmission" /\ t.part = "replay" /\ t.phase = "replay"
               /\ t.begun = Begin(s).begun
      BY <1>t DEF Dispatched, Ended, Begin, SessionRecords, ReserveReplay
    <2>6. s.part # "transmission" => s.begun = 0 /\ Begin(s).begun = 1
      <3>1. s.part # "transmission" => s.part = "none"
        BY <1>t, <2>1 DEF Orderly, SessionRecords
      <3> QED BY <1>t, <3>1 DEF Orderly, Begin, SessionRecords
    <2>7. session'[c] = t /\ \A d \in Conns \ {c} : session'[d] = session[d]
      BY <1>t, <2>1
    <2> HIDE DEF t
    <2> QED BY <1>u, <2>1, <2>2, <2>3, <2>4, <2>5, <2>6, <2>7 DEF Orderly
  <1>6. CASE SendAccepted(c)
    BY <1>6, <1>t, <1>u DEF SendAccepted, Ended, Orderly, BeforeAccepted, SessionRecords
  <1>7. CASE PollRecord(c)
    <2> DEFINE s == session[c]
               t == [s EXCEPT !.phase = "dispatch", !.seen = Record]
    <2>1. session' = [session EXCEPT ![c] = t]
      BY <1>7 DEF PollRecord
    <2>2. Record \in {"absent", "active", "detached"} => BeforeAccepted(s)
      <3>1. CASE s.phase = "reread"
        BY <3>1 DEF BeforeAccepted
      <3>2. CASE s.phase = "poll" /\ s.seen = "detached"
        BY <3>2 DEF BeforeAccepted
      <3>3. CASE s.phase = "poll" /\ s.seen = "undelivered"
        BY <3>3 DEF Knows, Record
      <3> QED BY <1>7, <3>1, <3>2, <3>3 DEF PollRecord, Orderly
    <2>3. BeforeAccepted(t) => Record \in {"absent", "active", "detached"}
      BY <1>t DEF BeforeAccepted, SessionRecords
    <2>4. s.phase \in {"reread", "poll"}
      BY <1>7 DEF PollRecord
    <2>5. /\ t.phase = "dispatch" /\ t.begun = s.begun /\ t.open = s.open
          /\ t.shut = s.shut /\ t.part = s.part
      BY <1>t DEF SessionRecords
    <2>6. session'[c] = t /\ \A d \in Conns \ {c} : session'[d] = session[d]
      BY <1>t, <2>1
    <2> HIDE DEF t
    <2> QED BY <1>u, <2>2, <2>3, <2>4, <2>5, <2>6 DEF Orderly
  <1>8. CASE Replay(c)
    <2>1. \/ session' = [session EXCEPT ![c] = Ended(session[c])]
          \/ session' = [session EXCEPT ![c].phase = "closing"]
      BY <1>8 DEF Replay, Phase
    <2>2. /\ session'[c].phase \in {"closing", "done"}
          /\ session'[c].begun = session[c].begun /\ session'[c].part = session[c].part
          /\ session'[c].shut = session[c].shut
          /\ \A d \in Conns \ {c} : session'[d] = session[d]
      <3>1. /\ Ended(session[c]).phase = "done"
            /\ Ended(session[c]).begun = session[c].begun
            /\ Ended(session[c]).part = session[c].part
            /\ Ended(session[c]).shut = session[c].shut
        BY <1>t DEF Ended, SessionRecords
      <3>2. CASE session' = [session EXCEPT ![c] = Ended(session[c])]
        BY <1>t, <3>1, <3>2
      <3>3. CASE session' = [session EXCEPT ![c].phase = "closing"]
        BY <1>t, <3>3 DEF SessionRecords
      <3> QED BY <2>1, <3>2, <3>3
    <2> QED BY <1>u, <2>2 DEF Orderly, BeforeAccepted
  <1>9. CASE SeeDisconnect(c)
    BY <1>9, <1>t, <1>u DEF SeeDisconnect, Orderly, BeforeAccepted, SessionRecords
  <1>10. CASE Close(c)
    <2> DEFINE t == [Ended(session[c]) EXCEPT !.open = TRUE, !.shut = TRUE]
    <2>1. session' = [session EXCEPT ![c] = t]
      BY <1>10 DEF Close
    <2>2. /\ t.phase = "done" /\ t.shut /\ t.begun = session[c].begun
          /\ t.part = session[c].part /\ ~BeforeAccepted(t)
      BY <1>t DEF Ended, BeforeAccepted, SessionRecords
    <2>3. session'[c] = t /\ \A d \in Conns \ {c} : session'[d] = session[d]
      BY <1>t, <2>1
    <2> HIDE DEF t
    <2> QED BY <1>u, <2>2, <2>3 DEF Orderly
  <1> QED
    BY <1>u, <1>1, <1>2, <1>3, <1>4, <1>5, <1>6, <1>7, <1>8, <1>9, <1>10 DEF SessionStep

\* A client's step, and the worker's send to it, keeps every connection orderly.
LEMMA ClientOrderly ==
  ASSUME TypeOK, RowsAgree, \A d \in Conns : Orderly(d), NEW c \in Conns,
         ClientLeaves(c) \/ ClientStep(c) \/ SendStep(c)
  PROVE  \A d \in Conns : Orderly(d)'
  <1>t. /\ session \in [Conns -> SessionRecords] /\ session[c] \in SessionRecords
        /\ send \in [Conns -> SendStates]
    BY DEF TypeOK
  <1>1. CASE ClientLeaves(c) \/ SeeEndOfStream(c) \/ VerifyFinal(c)
    BY <1>1 DEF ClientLeaves, SeeEndOfStream, VerifyFinal, Orderly, rowVars, workerVars
  <1>2. CASE AcknowledgeBundle(c)
    <2>1. /\ UNCHANGED <<pc, send, session>>
          /\ bundle.state = "delivered" => bundle'.state = "delivered"
      BY <1>2 DEF AcknowledgeBundle, workerVars
    <2> QED BY <2>1 DEF Orderly
  <1>3. CASE BeginSend(c)
    <2>1. session[c].begun = 0 /\ ~BeforeAccepted(session[c])
      BY <1>3, <1>t DEF BeginSend, IsOpen, Writable, Orderly, SessionRecords
    <2>2. /\ Begin(session[c]).begun = 1
          /\ Begin(session[c]).phase = session[c].phase
          /\ Begin(session[c]).seen = session[c].seen
          /\ Begin(session[c]).part = session[c].part
          /\ Begin(session[c]).open = session[c].open
          /\ Begin(session[c]).shut = session[c].shut
          /\ Begin(session[c]).subscribed = session[c].subscribed
      BY <1>t, <2>1 DEF Begin, SessionRecords
    <2>3. /\ session'[c] = Begin(session[c]) /\ send'[c] = "writing"
          /\ pc = "sending" /\ send[c] = "opening"
          /\ \A d \in Conns \ {c} : session'[d] = session[d] /\ send'[d] = send[d]
          /\ UNCHANGED <<pc, bundle>>
      BY <1>3, <1>t DEF BeginSend, SendTo, rowVars
    <2>4. Orderly(c)'
      BY <2>1, <2>2, <2>3 DEF Orderly, BeforeAccepted
    <2>5. ASSUME NEW d \in Conns \ {c} PROVE Orderly(d)'
      BY <2>3 DEF Orderly
    <2> QED BY <2>4, <2>5
  <1>4. CASE EndSend(c)
    <2>1. /\ session' = session /\ send'[c] = "ok" /\ send[c] = "writing"
          /\ \A d \in Conns \ {c} : send'[d] = send[d]
          /\ UNCHANGED <<pc, bundle>>
      BY <1>4, <1>t DEF EndSend, SendTo, rowVars
    <2> QED BY <2>1 DEF Orderly
  <1>5. CASE FailSend(c) \/ AbortRecipient(c)
    <2>1. /\ session'[c].shut
          /\ session'[c].begun = session[c].begun /\ session'[c].phase = session[c].phase
          /\ session'[c].part = session[c].part /\ session'[c].seen = session[c].seen
          /\ session'[c].subscribed = session[c].subscribed
          /\ \A d \in Conns \ {c} : session'[d] = session[d]
      <3>1. CASE FailSend(c)
        BY <3>1, <1>t DEF FailSend, SessionRecords
      <3>2. CASE AbortRecipient(c)
        BY <3>2, <1>t DEF AbortRecipient, CloseSink, SessionRecords
      <3> QED BY <1>5, <3>1, <3>2
    <2>2. /\ send[c] # "none"
          /\ \A d \in Conns \ {c} : send'[d] = send[d]
          /\ UNCHANGED <<pc, bundle>>
      BY <1>5, <1>t DEF FailSend, AbortRecipient, SendTo, rowVars
    <2> QED BY <2>1, <2>2 DEF Orderly, BeforeAccepted
  <1> QED BY <1>1, <1>2, <1>3, <1>4, <1>5 DEF ClientStep, SendStep

\* The worker's own steps keep every connection orderly.
LEMMA WorkerOrderly ==
  ASSUME TypeOK, RowsAgree, ClaimInv, \A d \in Conns : Orderly(d), WorkerStep
  PROVE  \A d \in Conns : Orderly(d)'
  <1>t. /\ session \in [Conns -> SessionRecords]
        /\ send \in [Conns -> SendStates] /\ pc \in WorkerStates
    BY DEF TypeOK
  <1>1. CASE ClaimReadyBundle
    <2>1. /\ UNCHANGED <<session, send>> /\ pc = "claim"
          /\ bundle.state = "delivered" => pc' = "idle" /\ bundle' = bundle
      BY <1>1 DEF ClaimReadyBundle, ExpireClaim, Claimable, Goto
    <2> QED BY <2>1 DEF Orderly
  <1>2. CASE Snapshot
    <2>1. ASSUME NEW d \in Conns PROVE Orderly(d)'
      <3>1. session'[d] = IF d \in Reservable
                          THEN [session[d] EXCEPT !.part = "transmission"] ELSE session[d]
        BY <1>2 DEF Snapshot
      <3>2. send'[d] = IF d \in Reservable THEN "opening" ELSE "none"
        BY <1>2 DEF Snapshot
      <3>3. pc = "snapshot" /\ bundle' = bundle
        BY <1>2 DEF Snapshot, rowVars
      <3>4. CASE d \in Reservable
        <4>1. session[d].part # "replay" /\ session[d].phase # "none"
          BY <3>4 DEF Reservable, Subscribers, Orderly
        <4>2. /\ session'[d].part = "transmission"
              /\ session'[d].begun = session[d].begun /\ session'[d].phase = session[d].phase
              /\ session'[d].open = session[d].open /\ session'[d].seen = session[d].seen
              /\ session'[d].shut = session[d].shut
          BY <1>t, <3>1, <3>4 DEF SessionRecords
        <4>3. session[d].begun = 0 \/ session[d].shut
          BY <1>t, <3>3, <4>1 DEF Orderly, SessionRecords
        <4> QED BY <1>t, <4>1, <4>2, <4>3 DEF Orderly, BeforeAccepted, SessionRecords
      <3>5. CASE d \notin Reservable
        BY <3>1, <3>2, <3>3, <3>5 DEF Orderly
      <3> QED BY <3>4, <3>5
    <2> QED BY <2>1
  <1>3. CASE SendsEnd
    <2>1. /\ UNCHANGED <<session, bundle>> /\ pc = "sending"
          /\ \/ pc' = "ack" /\ send' = send
             \/ pc' = "retry" /\ send' = NoSends /\ \A d \in Conns : send[d] \notin {"writing", "ok"}
      BY <1>3 DEF SendsEnd, Goto, rowVars
    <2> QED BY <2>1 DEF Orderly, NoSends
  <1>4. CASE SeeDelivered
    <2>1. /\ UNCHANGED <<session, bundle>> /\ pc' = "idle" /\ send' = NoSends
          /\ bundle.state = "delivered"
      BY <1>4 DEF SeeDelivered, rowVars
    <2> QED BY <2>1 DEF Orderly, NoSends
  <1>5. CASE FencedWhileSending \/ GiveUpOnAck \/ FencedWhileWaiting
    <2>1. /\ UNCHANGED <<session, bundle, send>>
          /\ pc \in {"sending", "ack"} /\ pc' \in {"abort_retry", "abort_fenced"}
      BY <1>5 DEF FencedWhileSending, GiveUpOnAck, FencedWhileWaiting, Goto, rowVars
    <2> QED BY <2>1 DEF Orderly
  <1>6. CASE AbortEnds
    <2>1. /\ UNCHANGED <<session, bundle, send>>
          /\ pc \in {"abort_retry", "abort_fenced"}
          /\ \A d \in Conns : send[d] = "none"
      BY <1>6 DEF AbortEnds, Aborting, Recipients, Goto, rowVars
    <2> QED BY <2>1 DEF Orderly
  <1>7. CASE LookForSubscribers \/ AwaitTransmissionSlot \/ LoadClaimedBundle \/ FailBundleRetryable
    <2>1. /\ UNCHANGED <<session, send>>
          /\ bundle.state = "delivered" => bundle' = bundle
          /\ pc \in {"idle", "slot", "load", "retry"}
          /\ pc = "idle" => pc' = "claim"
      BY <1>7
      DEF LookForSubscribers, AwaitTransmissionSlot, LoadClaimedBundle,
          FailBundleRetryable, Retried, OwnsClaim, Goto, rowVars
    <2> QED BY <2>1 DEF Orderly
  <1> QED BY <1>1, <1>2, <1>3, <1>4, <1>5, <1>6, <1>7 DEF WorkerStep

\* Time, the request's own fate, crashes and restarts keep every connection
\* orderly.
LEMMA OtherOrderly ==
  ASSUME TypeOK, RowsAgree, \A d \in Conns : Orderly(d),
         \/ CommitResult \/ DetachOrAssign \/ ExpireForOthers
         \/ BackoffElapses \/ DeadClaimExpires \/ LiveClaimExpires
         \/ Crash \/ Shutdown \/ Restart
  PROVE  \A d \in Conns : Orderly(d)'
  <1>1. CASE CommitResult \/ DetachOrAssign \/ ExpireForOthers
    <2>1. /\ UNCHANGED <<session, send, pc>>
          /\ bundle.state = "delivered" => bundle'.state = "delivered"
      BY <1>1 DEF CommitResult, DetachOrAssign, ExpireForOthers, ExpireClaim, RowsAgree, workerVars
    <2> QED BY <2>1 DEF Orderly
  <1>2. CASE BackoffElapses \/ DeadClaimExpires \/ LiveClaimExpires
    <2>1. /\ UNCHANGED <<session, send, pc>>
          /\ bundle.state = "delivered" => bundle'.state = "delivered"
      BY <1>2
      DEF BackoffElapses, DeadClaimExpires, LiveClaimExpires, OwnsClaim, RowsAgree,
          TypeOK, BundleRecords, workerVars
    <2> QED BY <2>1 DEF Orderly
  <1>3. CASE Crash \/ Shutdown
    <2>1. ASSUME NEW d \in Conns PROVE Orderly(d)'
      <3>1. ProcessEnds
        BY <1>3 DEF Crash, Shutdown
      <3>2. /\ send'[d] = "none"
            /\ session'[d] = IF session[d].phase = "none" THEN session[d]
                             ELSE CloseSink(Ended(session[d]))
        BY <3>1 DEF ProcessEnds, NoSends
      <3>3. session[d] \in SessionRecords
        BY DEF TypeOK
      <3>4. LET t == CloseSink(Ended(session[d])) IN
              /\ t.phase = "done" /\ t.shut
              /\ t.begun = session[d].begun /\ t.part = session[d].part
        BY <3>3 DEF CloseSink, Ended, SessionRecords
      <3>5. session[d].phase = "none" => session[d].begun = 0
        BY DEF Orderly, BeforeAccepted
      <3> QED BY <3>2, <3>4, <3>5 DEF Orderly, BeforeAccepted
    <2> QED BY <2>1
  <1>4. CASE Restart
    <2>1. /\ UNCHANGED <<session, send>> /\ pc = "down"
      BY <1>4 DEF Restart
    <2> QED BY <2>1 DEF Orderly
  <1> QED BY <1>1, <1>2, <1>3, <1>4

-----------------------------------------------------------------------------
(* The theorems.                                                           *)

\* The empty database and an idle worker satisfy the invariant.
LEMMA InitDelivery == Init => DeliveryInv
  <1> SUFFICES ASSUME Init PROVE DeliveryInv
    OBVIOUS
  <1>1. TypeOK
    BY InitTypeOK
  <1>2. RowsAgree /\ ClaimInv
    BY DEF Init, Stored, RowsAgree, ClaimInv, ClaimFollowsWorker, ClaimHolding
  <1>3. KnowledgeInv /\ AcceptedInv /\ SequenceInv
    BY DEF Init, NewSession, NoSends, KnowledgeInv, AcceptedInv, SequenceInv, BeforeAccepted
  <1> QED BY <1>1, <1>2, <1>3 DEF DeliveryInv

\* Every step keeps every connection orderly.
LEMMA OrderlyStep ==
  ASSUME DeliveryInv, [Next]_vars
  PROVE  AcceptedInv' /\ SequenceInv'
  <1> USE DEF DeliveryInv
  <1>1. \A c \in Conns : Orderly(c) /\ Knows(c)
    BY DEF AcceptedInv, SequenceInv, KnowledgeInv, Orderly, Knows
  <1>2. SUFFICES \A c \in Conns : Orderly(c)'
    BY DEF AcceptedInv, SequenceInv, Orderly, BeforeAccepted
  <1>3. CASE UNCHANGED vars
    BY <1>1, <1>3 DEF vars, Orderly
  <1>4. ASSUME NEW c \in Conns, ConnectSubmit(c) \/ ConnectResume(c) \/ SessionStep(c)
        PROVE  \A d \in Conns : Orderly(d)'
    <2>1. /\ Orderly(c)'
          /\ UNCHANGED <<pc, send, bundle>>
          /\ \A d \in Conns \ {c} : session'[d] = session[d]
      BY <1>1, <1>4, SessionOrderly
    <2> QED BY <1>1, <2>1 DEF Orderly
  <1>5. ASSUME NEW c \in Conns, ClientLeaves(c) \/ ClientStep(c) \/ SendStep(c)
        PROVE  \A d \in Conns : Orderly(d)'
    BY <1>1, <1>5, ClientOrderly
  <1> QED BY <1>1, <1>3, <1>4, <1>5, WorkerOrderly, OtherOrderly DEF Next

\* The strengthened invariant is inductive.
LEMMA DeliveryInductive == DeliveryInv /\ [Next]_vars => DeliveryInv'
  <1> SUFFICES ASSUME DeliveryInv, [Next]_vars PROVE DeliveryInv'
    OBVIOUS
  <1>1. TypeOK' /\ RowsAgree' /\ ClaimInv' /\ KnowledgeInv'
    BY NextTypeOK, RowStep, ClaimStep, KnowledgeStep DEF DeliveryInv
  <1> QED BY <1>1, OrderlyStep DEF DeliveryInv

\* The invariant holds throughout.
LEMMA DeliveryInvariant == Spec => []DeliveryInv
  BY InitDelivery, DeliveryInductive, PTL DEF Spec

\* While the worker works on a bundle nobody else takes or resets its claim,
\* and every claim it walks away from is one that has expired.
THEOREM ClaimAlwaysFollowsWorker == Spec => []ClaimFollowsWorker
  <1>1. DeliveryInv => ClaimFollowsWorker
    BY DEF DeliveryInv, ClaimInv
  <1> QED BY <1>1, DeliveryInvariant, PTL

\* However often a bundle is claimed, and whoever replays it, no connection is
\* ever sent a second FinalBegin.
THEOREM AtMostOneSequencePerConnection == Spec => []OneSequencePerConnection
  <1>1. DeliveryInv => OneSequencePerConnection
    BY DEF DeliveryInv, SequenceInv, OneSequencePerConnection
  <1> QED BY <1>1, DeliveryInvariant, PTL

\* No final frame precedes the Accepted frame of its connection.
THEOREM FinalNeverBeforeAccepted == Spec => []FinalAfterAccepted
  <1>1. DeliveryInv => FinalAfterAccepted
    BY DEF DeliveryInv, AcceptedInv, FinalAfterAccepted, BeforeAccepted
  <1> QED BY <1>1, DeliveryInvariant, PTL

\* An acknowledgement by one client never cuts off the send to another.
THEOREM AckNeverTruncatesSends == Spec => AckNeverTruncates
  <1>1. ASSUME [Next]_vars, NEW c \in Conns,
               pc = "sending", send[c] \in {"opening", "writing"},
               pc' \notin {"sending", "down"}
        PROVE  bundle.state # "delivered"
    <2>1. CASE FencedWhileSending
      BY <2>1 DEF FencedWhileSending, Fenced
    <2>2. CASE WorkerStep /\ ~FencedWhileSending
      BY <1>1, <2>2
      DEF WorkerStep, LookForSubscribers, ClaimReadyBundle, AwaitTransmissionSlot,
          LoadClaimedBundle, Snapshot, SendsEnd, SeeDelivered, GiveUpOnAck,
          FencedWhileWaiting, AbortEnds, Aborting, FailBundleRetryable
    <2>3. CASE \E d \in Conns : \/ ConnectSubmit(d) \/ ConnectResume(d) \/ SessionStep(d)
                               \/ ClientLeaves(d) \/ ClientStep(d) \/ SendStep(d)
      BY <1>1, <2>3
      DEF ConnectSubmit, ConnectResume, SessionStep, SubmitForActor, Resolve,
          SubscribeDelivery, ServeDurableRequest, SendAccepted, PollRecord, Replay,
          SeeDisconnect, Close, ClientLeaves, ClientStep, SeeEndOfStream, VerifyFinal,
          AcknowledgeBundle, SendStep, BeginSend, EndSend, FailSend, AbortRecipient,
          SendTo, workerVars
    <2>4. CASE \/ UNCHANGED vars \/ CommitResult \/ DetachOrAssign \/ ExpireForOthers
               \/ BackoffElapses \/ DeadClaimExpires \/ LiveClaimExpires
               \/ Crash \/ Shutdown \/ Restart
      BY <1>1, <2>4
      DEF vars, CommitResult, DetachOrAssign, ExpireForOthers, BackoffElapses,
          DeadClaimExpires, LiveClaimExpires, Crash, Shutdown, ProcessEnds, Restart,
          workerVars
    <2> QED BY <1>1, <2>1, <2>2, <2>3, <2>4 DEF Next
  <1>2. [Next]_vars =>
          [\A c \in Conns :
             pc = "sending" /\ send[c] \in {"opening", "writing"} /\ pc' \notin {"sending", "down"}
               => bundle.state # "delivered"]_vars
    BY <1>1
  <1> QED BY <1>2, PTL DEF Spec, AckNeverTruncates

-----------------------------------------------------------------------------
(* Refinement of ResultContract.                                           *)

\* A step that reads nothing new moves the result as the contract allows.
ResultMoves ==
    \/ bundle'.state = bundle.state
    \/ bundle.state = "none" /\ bundle'.state = "pending"
    \/ bundle.state \in {"pending", "failed_retryable"} /\ bundle'.state = "delivering"
    \/ bundle.state = "delivering" /\ bundle'.state = "failed_retryable"
    \/ /\ bundle.state \in {"delivering", "failed_retryable"} /\ bundle'.state = "delivered"
       /\ ContractReaders # {}

\* Those moves are steps of the contract.
LEMMA MoveIsContractStep ==
  ASSUME TypeOK, ResultMoves, ContractReaders' = ContractReaders
  PROVE  [Contract!Next]_(Contract!vars)
  <1> USE DEF ContractResult, Contract!vars
  <1>1. CASE bundle'.state = bundle.state
    BY <1>1
  <1>2. CASE bundle.state = "none" /\ bundle'.state = "pending"
    BY <1>2 DEF Contract!Next, Contract!Store
  <1>3. CASE bundle.state \in {"pending", "failed_retryable"} /\ bundle'.state = "delivering"
    BY <1>3 DEF Contract!Next, Contract!Offer
  <1>4. CASE bundle.state = "delivering" /\ bundle'.state = "failed_retryable"
    BY <1>4 DEF Contract!Next, Contract!Withdraw
  <1>5. CASE /\ bundle.state \in {"delivering", "failed_retryable"} /\ bundle'.state = "delivered"
             /\ ContractReaders # {}
    BY <1>5 DEF Contract!Next, Contract!Acknowledge
  <1> QED BY <1>1, <1>2, <1>3, <1>4, <1>5 DEF ResultMoves

\* Every step but the one in which a client verifies the result moves the
\* result as the contract allows, and changes no reader.
LEMMA StepMoves ==
  ASSUME DeliveryInv, [Next]_vars, ~\E c \in Conns : VerifyFinal(c)
  PROVE  ResultMoves /\ ContractReaders' = ContractReaders
  <1>t. bundle \in BundleRecords /\ client \in [Conns -> ClientStates]
    BY DEF DeliveryInv, TypeOK
  <1> USE DEF ResultMoves, rowVars
  <1>0. ASSUME UNCHANGED client PROVE ContractReaders' = ContractReaders
    BY <1>0 DEF ContractReaders
  <1>1. CASE UNCHANGED vars
    BY <1>0, <1>1 DEF vars
  <1>2. CASE CommitResult \/ DetachOrAssign
    BY <1>0, <1>2 DEF CommitResult, DetachOrAssign, Stored, DeliveryInv, RowsAgree
  <1>3. ASSUME NEW c \in Conns, ConnectSubmit(c) \/ ConnectResume(c) \/ SessionStep(c)
        PROVE  ResultMoves /\ ContractReaders' = ContractReaders
    <2>1. bundle' = bundle
      BY <1>3
      DEF ConnectSubmit, ConnectResume, SessionStep, SubmitForActor, Resolve,
          SubscribeDelivery, ServeDurableRequest, SendAccepted, PollRecord, Replay,
          SeeDisconnect, Close
    <2>2. CASE ConnectSubmit(c) \/ ConnectResume(c)
      <3>1. client[c] = "none" /\ client' = [client EXCEPT ![c] = "reading"]
        BY <2>2 DEF ConnectSubmit, ConnectResume, DeliveryInv, KnowledgeInv
      <3> QED BY <1>t, <2>1, <3>1 DEF ContractReaders
    <2>3. CASE Replay(c)
      <3>1. \/ UNCHANGED client
            \/ client[c] \in {"reading", "served"} /\ client' = [client EXCEPT ![c] = "served"]
        BY <2>3 DEF Replay, Connected
      <3> QED BY <1>t, <2>1, <3>1 DEF ContractReaders
    <2>4. CASE SessionStep(c) /\ ~Replay(c)
      BY <1>0, <2>1, <2>4
      DEF SessionStep, SubmitForActor, Resolve, SubscribeDelivery, ServeDurableRequest,
          SendAccepted, PollRecord, SeeDisconnect, Close
    <2> QED BY <1>3, <2>2, <2>3, <2>4
  <1>4. ASSUME NEW c \in Conns, ClientLeaves(c) \/ ClientStep(c) \/ SendStep(c)
        PROVE  ResultMoves /\ ContractReaders' = ContractReaders
    <2>1. CASE ClientLeaves(c) \/ SeeEndOfStream(c)
      BY <1>t, <2>1 DEF ClientLeaves, SeeEndOfStream, ContractReaders
    <2>2. CASE AcknowledgeBundle(c)
      <3>1. c \in ContractReaders /\ ContractReaders' = ContractReaders
        BY <1>t, <2>2 DEF AcknowledgeBundle, ContractReaders
      <3> QED BY <2>2, <3>1 DEF AcknowledgeBundle, Stored
    <2>3. CASE EndSend(c)
      BY <1>t, <2>3 DEF EndSend, Writable, Connected, ContractReaders
    <2>4. CASE BeginSend(c) \/ FailSend(c) \/ AbortRecipient(c)
      BY <1>0, <2>4 DEF BeginSend, FailSend, AbortRecipient
    <2> QED BY <1>4, <2>1, <2>2, <2>3, <2>4 DEF ClientStep, SendStep
  <1>5. CASE WorkerStep
    <2>1. UNCHANGED client
      BY <1>5
      DEF WorkerStep, LookForSubscribers, ClaimReadyBundle, AwaitTransmissionSlot,
          LoadClaimedBundle, Snapshot, SendsEnd, FencedWhileSending, SeeDelivered,
          GiveUpOnAck, FencedWhileWaiting, AbortEnds, FailBundleRetryable
    <2>2. CASE ClaimReadyBundle
      BY <1>0, <2>1, <2>2, <1>t DEF ClaimReadyBundle, ExpireClaim, Claimable, Stored, BundleRecords
    <2>3. CASE FailBundleRetryable
      BY <1>0, <2>1, <2>3 DEF FailBundleRetryable, Retried, OwnsClaim, BackingOff, Stored
    <2>4. CASE ~ClaimReadyBundle /\ ~FailBundleRetryable
      BY <1>0, <1>5, <2>1, <2>4
      DEF WorkerStep, LookForSubscribers, AwaitTransmissionSlot,
          LoadClaimedBundle, Snapshot, SendsEnd, FencedWhileSending, SeeDelivered,
          GiveUpOnAck, FencedWhileWaiting, AbortEnds
    <2> QED BY <2>2, <2>3, <2>4
  <1>6. CASE ExpireForOthers \/ Restart
    BY <1>0, <1>6 DEF ExpireForOthers, Restart, ExpireClaim, Stored
  <1>7. CASE BackoffElapses \/ DeadClaimExpires \/ LiveClaimExpires
    BY <1>0, <1>7, <1>t DEF BackoffElapses, DeadClaimExpires, LiveClaimExpires, BundleRecords
  <1>8. CASE Crash \/ Shutdown
    BY <1>0, <1>8, <1>t
    DEF Crash, Shutdown, ProcessEnds, Stored, BundleRecords, DeliveryInv, RowsAgree
  <1> QED BY <1>1, <1>2, <1>3, <1>4, <1>5, <1>6, <1>7, <1>8 DEF Next

\* A client that verifies the result reads it in the contract.
LEMMA VerifyIsRead ==
  ASSUME DeliveryInv, NEW c \in Conns, VerifyFinal(c)
  PROVE  [Contract!Next]_(Contract!vars)
  <1>1. /\ client[c] = "served" /\ client' = [client EXCEPT ![c] = "final"]
        /\ bundle' = bundle
    BY DEF VerifyFinal, rowVars
  <1>2. client \in [Conns -> ClientStates] /\ bundle \in BundleRecords
    BY DEF DeliveryInv, TypeOK
  <1>3. ContractReaders' = ContractReaders \cup {c}
    BY <1>1, <1>2 DEF ContractReaders
  <1>4. bundle.state \in {"delivering", "failed_retryable", "delivered"}
    BY <1>1, <1>2 DEF DeliveryInv, KnowledgeInv, Offered, BundleRecords
  <1>5. ContractResult \in {"offered", "withdrawn", "delivered"}
    BY <1>4 DEF ContractResult
  <1>6. ContractResult' = ContractResult
    BY <1>1 DEF ContractResult
  <1>7. Contract!Read(c)
    BY <1>3, <1>5, <1>6 DEF Contract!Read
  <1> QED BY <1>7 DEF Contract!Next

\* Whatever workers, sessions, clients, expiries and crashes do, the result is
\* delivered only after a client has read all of it, and is never offered
\* again: ResultDelivery implements ResultContract.
THEOREM DeliveryImplementsContract == Spec => ImplementsContract
  <1>1. Init => Contract!Init
    BY DEF Init, Stored, Contract!Init, ContractResult, ContractReaders
  <1>2. DeliveryInv /\ [Next]_vars => [Contract!Next]_(Contract!vars)
    <2> SUFFICES ASSUME DeliveryInv, [Next]_vars PROVE [Contract!Next]_(Contract!vars)
      OBVIOUS
    <2>1. CASE \E c \in Conns : VerifyFinal(c)
      BY <2>1, VerifyIsRead
    <2>2. CASE ~\E c \in Conns : VerifyFinal(c)
      BY <2>2, StepMoves, MoveIsContractStep DEF DeliveryInv
    <2> QED BY <2>1, <2>2
  <1> QED BY <1>1, <1>2, DeliveryInvariant, PTL DEF Spec, ImplementsContract, Contract!Spec

=============================================================================
