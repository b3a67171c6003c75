------------------------- MODULE ActorMailbox_proofs -------------------------
(***************************************************************************)
(* Theorems about ActorMailbox for every value of its constants.  First    *)
(* type correctness, the agreement of runs and work items, and the         *)
(* runner's exclusive ownership of the run it executes; then, on top of    *)
(* them, that events, local_requests, run_events and work items stay in    *)
(* step, that messages of a work item are attached in order, that an actor *)
(* that was found ready has something to attach, why a quantum may stop    *)
(* the daemon, when recovery may be skipped, and, for an actor without     *)
(* tools and faults, that pending work stays open and that cancellations   *)
(* settle the requests they name.                                          *)
(***************************************************************************)
EXTENDS ActorMailbox, TLAPS, FiniteSetTheorems

USE BoundsAssumption, LimitsAssumption, AudienceAssumption, InputAssumption
    DEF BoundsAssumption, LimitsAssumption, AudienceAssumption, InputAssumption

-----------------------------------------------------------------------------
(* Updates of a table stay in the table's type.                            *)

\* The updates of a work_items row that the transactions make keep its type.
LEMMA WorkUpdate ==
  ASSUME NEW f \in [Works -> WorkRecords], NEW w
  PROVE  /\ \A x \in WorkStates : [f EXCEPT ![w].state = x] \in [Works -> WorkRecords]
         /\ \A k \in {"interactive", "external"}, a \in Audiences :
              [f EXCEPT ![w] = OpenWork(k, a)] \in [Works -> WorkRecords]
         /\ \A n \in 0..FailureLimit, d \in BOOLEAN :
              [f EXCEPT ![w].failures = n, ![w].due = d] \in [Works -> WorkRecords]
         /\ [f EXCEPT ![w].due = TRUE] \in [Works -> WorkRecords]
  <1>1. ASSUME NEW x \in WorkStates
        PROVE  [f EXCEPT ![w].state = x] \in [Works -> WorkRecords]
    BY DEF WorkRecords
  <1>2. ASSUME NEW k \in {"interactive", "external"}, NEW a \in Audiences
        PROVE  [f EXCEPT ![w] = OpenWork(k, a)] \in [Works -> WorkRecords]
    <2>1. OpenWork(k, a) \in WorkRecords
      BY DEF WorkRecords, OpenWork, WorkStates
    <2> QED BY <2>1
  <1>3. ASSUME NEW n \in 0..FailureLimit, NEW d \in BOOLEAN
        PROVE  [f EXCEPT ![w].failures = n, ![w].due = d] \in [Works -> WorkRecords]
    BY DEF WorkRecords
  <1>4. [f EXCEPT ![w].due = TRUE] \in [Works -> WorkRecords]
    BY DEF WorkRecords
  <1> QED BY <1>1, <1>2, <1>3, <1>4

\* The updates of a runs row that the transactions make keep its type.
LEMMA RunUpdate ==
  ASSUME NEW f \in [Runs -> RunRecords], NEW r
  PROVE  /\ \A x \in AttemptStates : [f EXCEPT ![r].attempt = x] \in [Runs -> RunRecords]
         /\ \A x \in RunStates : [f EXCEPT ![r].state = x] \in [Runs -> RunRecords]
         /\ \A x \in SUBSET Seqs : [f EXCEPT ![r].incorporated = x] \in [Runs -> RunRecords]
  <1>1. ASSUME NEW x \in AttemptStates
        PROVE  [f EXCEPT ![r].attempt = x] \in [Runs -> RunRecords]
    BY DEF RunRecords
  <1>2. ASSUME NEW x \in RunStates
        PROVE  [f EXCEPT ![r].state = x] \in [Runs -> RunRecords]
    BY DEF RunRecords
  <1>3. ASSUME NEW x \in SUBSET Seqs
        PROVE  [f EXCEPT ![r].incorporated = x] \in [Runs -> RunRecords]
    BY DEF RunRecords
  <1> QED BY <1>1, <1>2, <1>3

\* Settling events and their requests keeps the types of both tables.
LEMMA SettleUpdate ==
  ASSUME TypeOK, NEW S, NEW x \in TerminalStates
  PROVE  /\ SettleEvents(S, x) \in [Seqs -> EventRecords]
         /\ SettleRequests(S, x) \in [Seqs -> RequestRecords]
  <1>1. SettleEvents(S, x) \in [Seqs -> EventRecords]
    BY DEF TypeOK, SettleEvents, EventRecords, EventStates
  <1>2. SettleRequests(S, x) \in [Seqs -> RequestRecords]
    BY DEF TypeOK, SettleRequests, RequestRecords, RequestStates
  <1> QED BY <1>1, <1>2

\* An attachment keeps the types of events and runs and names a run.
LEMMA AttachUpdate ==
  ASSUME NEW evs \in [Seqs -> EventRecords], NEW wks,
         NEW rs \in [Runs -> RunRecords], NEW r \in Runs,
         lease \in LeaseRecords, AttachEvents(evs, wks, rs, r)
  PROVE  /\ events' \in [Seqs -> EventRecords]
         /\ runs' \in [Runs -> RunRecords]
         /\ cur' \in Runs \cup {None}
  <1>1. events' \in [Seqs -> EventRecords]
    BY DEF AttachEvents, EventRecords, EventStates
  <1>2. rs[r].attached \cup Batch(evs, wks, rs, r) \in SUBSET Seqs
    BY DEF Batch, Attachable, RunRecords
  <1>3. PICK o \in Seqs \cup {0} :
          runs' = [rs EXCEPT ![r].attached = rs[r].attached \cup Batch(evs, wks, rs, r),
                             ![r].observed = o,
                             ![r].generation = lease.generation]
    BY DEF AttachEvents
  <1>4. lease.generation \in Nat
    BY DEF LeaseRecords
  <1>5. runs' \in [Runs -> RunRecords]
    <2> DEFINE row == [rs[r] EXCEPT !.attached = rs[r].attached \cup Batch(evs, wks, rs, r),
                                    !.observed = o, !.generation = lease.generation]
    <2>1. row \in RunRecords
      <3>1. rs[r] \in RunRecords
        OBVIOUS
      <3> QED BY <3>1, <1>2, <1>4 DEF RunRecords
    <2>2. runs' = [rs EXCEPT ![r] = row]
      BY <1>3
    <2> QED BY <2>1, <2>2
  <1> QED BY <1>1, <1>5 DEF AttachEvents
-----------------------------------------------------------------------------
(* Type correctness.                                                       *)

\* The empty database and an idle dispatcher have the right types.
LEMMA InitTypeOK == Init => TypeOK
  <1> SUFFICES ASSUME Init PROVE TypeOK OBVIOUS
  <1> USE DEF EventRecords, RequestRecords, WorkRecords, RunRecords,
         LeaseRecords, NoLease, EventStates, RequestStates, WorkStates,
         RunStates, AttemptStates, RunnerStates, TerminalStates, Seqs, Works,
         Runs, None
  <1>1. nextSeq \in 0..MaxSeq BY DEF Init
  <1>2. events \in [Seqs -> EventRecords] BY DEF Init
  <1>3. requests \in [Seqs -> RequestRecords] BY DEF Init
  <1>4. works \in [Works -> WorkRecords] BY DEF Init
  <1>5. runs \in [Runs -> RunRecords] BY DEF Init
  <1>6. lease \in LeaseRecords BY DEF Init
  <1>7. pc \in RunnerStates /\ cur \in Runs \cup {None} /\ ctl \in Seqs \cup {None}
    BY DEF Init
  <1>8. steps \in 0..ModelSteps BY DEF Init
  <1>10. progressed \in BOOLEAN BY DEF Init
  <1>9. faults \in 0..MaxFaults /\ crashes \in 0..MaxCrashes BY DEF Init
  <1> QED
    BY <1>1, <1>2, <1>3, <1>4, <1>5, <1>6, <1>7, <1>8, <1>9, <1>10 DEF TypeOK

\* An appended event takes a free mailbox sequence.
LEMMA AppendType ==
  ASSUME TypeOK, NEW e \in EventRecords, AppendEvent(e)
  PROVE  /\ nextSeq' \in 0..MaxSeq
         /\ nextSeq + 1 \in Seqs
         /\ events' \in [Seqs -> EventRecords]
  BY DEF TypeOK, AppendEvent, Seqs

\* Ingress keeps the types.
LEMMA IngressTypeOK == TypeOK /\ Ingress => TypeOK'
  <1> SUFFICES ASSUME TypeOK, Ingress PROVE TypeOK' OBVIOUS
  <1> USE DEF runnerVars, boundVars
  <1>1. ASSUME NEW a \in Audiences, NEW w \in Works
        PROVE  UserMessage(a, w) \in EventRecords
    BY DEF UserMessage, EventRecords, EventStates
  <1>2. ASSUME NEW a \in Audiences PROVE IngressWork(a) \subseteq Works
    BY DEF IngressWork, Joinable, Fresh
  <1>3. ASSUME NEW a \in Audiences, NEW w \in Works, JoinOrOpen(w, a)
        PROVE  works' \in [Works -> WorkRecords]
    BY <1>3, WorkUpdate DEF TypeOK, JoinOrOpen
  <1>4. CASE SubmitForActor
    <2>1. PICK w \in Works :
            /\ AppendEvent(UserMessage(ActorPrivate, w))
            /\ JoinOrOpen(w, ActorPrivate)
            /\ requests' = [requests EXCEPT ![nextSeq + 1] =
                              [state |-> "active", work |-> w]]
      BY <1>2, <1>4 DEF SubmitForActor
    <2>2. UserMessage(ActorPrivate, w) \in EventRecords
      BY <1>1
    <2>3. requests' \in [Seqs -> RequestRecords]
      BY <2>1 DEF TypeOK, RequestRecords, RequestStates
    <2> QED
      BY <1>3, <1>4, <2>1, <2>2, <2>3, AppendType DEF TypeOK, SubmitForActor
  <1>5. ASSUME NEW a \in Audiences, Ingest(a) PROVE TypeOK'
    <2>1. PICK w \in Works :
            AppendEvent(UserMessage(a, w)) /\ JoinOrOpen(w, a)
      BY <1>2, <1>5 DEF Ingest
    <2>2. UserMessage(a, w) \in EventRecords
      BY <1>1
    <2> QED BY <1>3, <1>5, <2>1, <2>2, AppendType DEF TypeOK, Ingest
  <1>6. CASE IngestWebhook
    <2>1. PICK w \in Works :
            /\ AppendEvent(UserMessage(ActorPrivate, w))
            /\ works' = [works EXCEPT ![w] = OpenWork("external", ActorPrivate)]
      BY <1>6 DEF IngestWebhook, Fresh
    <2>2. UserMessage(ActorPrivate, w) \in EventRecords
      BY <1>1
    <2>3. works' \in [Works -> WorkRecords]
      BY <2>1, WorkUpdate DEF TypeOK
    <2> QED BY <1>6, <2>1, <2>2, <2>3, AppendType DEF TypeOK, IngestWebhook
  <1>7. ASSUME NEW s \in Seqs, CancelForActor(s) PROVE TypeOK'
    <2> DEFINE Row(w, reqs) ==
          [state |-> "pending", kind |-> "cancel_requested",
           audience |-> ActorPrivate, work |-> w,
           targets |-> CancelTargets(reqs, w)]
    <2>1. PICK w \in Works :
            /\ nextSeq < MaxSeq /\ nextSeq' = nextSeq + 1
            /\ requests' = [requests EXCEPT ![s].work = w]
            /\ events' = [events EXCEPT
                 ![s].work = IF /\ requests[s].work = None /\ @ = None
                                /\ events[s].state = "pending"
                             THEN w ELSE @,
                 ![nextSeq + 1] = Row(w, requests')]
            /\ \/ works' = [works EXCEPT ![w] =
                    [OpenWork("interactive", ActorPrivate) EXCEPT !.cancelRequested = TRUE]]
               \/ works' = [works EXCEPT ![w] =
                    [works[w] EXCEPT !.cancelRequested = TRUE]]
      BY <1>7 DEF CancelForActor, Fresh, TypeOK, RequestRecords, None
    <2>2. requests' \in [Seqs -> RequestRecords]
      BY <2>1 DEF TypeOK, RequestRecords
    <2>3. Row(w, requests') \in EventRecords
      BY DEF CancelTargets, EventRecords, EventStates
    <2>4. events' \in [Seqs -> EventRecords]
      <3> HIDE DEF Row
      <3>1. [events EXCEPT ![s].work =
                 IF requests[s].work = None /\ @ = None /\ events[s].state = "pending"
                 THEN w ELSE @] \in [Seqs -> EventRecords]
        BY DEF TypeOK, EventRecords
      <3> QED BY <2>1, <2>3, <3>1
    <2>5. works' \in [Works -> WorkRecords]
      <3>1. OpenWork("interactive", ActorPrivate) \in WorkRecords
        BY DEF OpenWork, WorkRecords, WorkStates
      <3>2. \A row \in WorkRecords : [row EXCEPT !.cancelRequested = TRUE] \in WorkRecords
        BY DEF WorkRecords
      <3>3. works \in [Works -> WorkRecords]
        BY DEF TypeOK
      <3> QED BY <2>1, <3>1, <3>2, <3>3
    <2>6. nextSeq' \in 0..MaxSeq
      BY <2>1 DEF TypeOK
    <2> QED BY <1>7, <2>2, <2>4, <2>5, <2>6 DEF TypeOK, CancelForActor
  <1> QED BY <1>4, <1>5, <1>6, <1>7 DEF Ingress

\* Taking the lease and attaching events keep the types.
LEMMA AttachTypeOK ==
  TypeOK /\ (AcquireReadyActor \/ AttachNextRun \/ ReattachRun) => TypeOK'
  <1> SUFFICES ASSUME TypeOK, AcquireReadyActor \/ AttachNextRun \/ ReattachRun
               PROVE  TypeOK'
    OBVIOUS
  <1> USE DEF ingressVars, boundVars
  <1>1. CASE AcquireReadyActor
    <2>1. lease' \in LeaseRecords
      BY <1>1 DEF TypeOK, AcquireReadyActor, Acquire, LeaseRecords
    <2>2. pc' \in RunnerStates /\ steps' \in 0..ModelSteps
      BY <1>1 DEF AcquireReadyActor, RunnerStates
    <2>3. progressed' \in BOOLEAN
      BY <1>1 DEF AcquireReadyActor
    <2> QED BY <1>1, <2>1, <2>2, <2>3 DEF TypeOK, AcquireReadyActor
  <1>2. ASSUME NEW r \in Runs, NEW next \in RunnerStates, ResumeRun(r, next)
        PROVE  TypeOK'
    BY <1>2, AttachUpdate DEF TypeOK, ResumeRun
  <1>3. ASSUME NEW evs \in [Seqs -> EventRecords], NEW wks,
               NEW next \in RunnerStates, StartRun(evs, wks, next)
        PROVE  /\ events' \in [Seqs -> EventRecords]
               /\ runs' \in [Runs -> RunRecords]
               /\ cur' \in Runs \cup {None}
               /\ pc' \in RunnerStates
    <2>1. PICK s \in Seqs, r \in Runs :
            /\ AttachEvents(evs, wks,
                 [runs EXCEPT ![r] =
                    [state |-> "active", work |-> evs[s].work, observed |-> 0,
                     attached |-> {}, incorporated |-> {}, attempt |-> "clear",
                     generation |-> lease.generation]], r)
            /\ pc' = next
      BY <1>3 DEF StartRun, FirstByKind, Startable, Fresh
    <2> DEFINE row == [state |-> "active", work |-> evs[s].work, observed |-> 0,
                       attached |-> {}, incorporated |-> {}, attempt |-> "clear",
                       generation |-> lease.generation]
    <2>2. row \in RunRecords
      BY DEF TypeOK, RunRecords, RunStates, AttemptStates, EventRecords, LeaseRecords
    <2>3. [runs EXCEPT ![r] = row] \in [Runs -> RunRecords]
      <3> HIDE DEF row
      <3> QED BY <2>2 DEF TypeOK
    <2> QED BY <2>1, <2>3, AttachUpdate DEF TypeOK
  <1>4. ASSUME NEW next \in RunnerStates, NewRun(next) PROVE TypeOK'
    <2>1. CASE StartRun(events, works, next) /\ UNCHANGED <<requests, works>>
      BY <1>3, <1>4, <2>1 DEF TypeOK, NewRun
    <2>2. ASSUME NEW s \in Unassigned, NEW w \in Fresh(works, Works),
                 StartRun(AssignEvent(s, w), works', next),
                 works' = [works EXCEPT ![w] = OpenWork("interactive", events[s].audience)],
                 requests' = AssignRequest(s, w)
          PROVE  TypeOK'
      <3>1. s \in Seqs /\ w \in Works
        BY DEF Unassigned, Fresh
      <3>2. AssignEvent(s, w) \in [Seqs -> EventRecords]
        BY <3>1 DEF AssignEvent, TypeOK, EventRecords
      <3>3. requests' \in [Seqs -> RequestRecords]
        BY <2>2, <3>1 DEF AssignRequest, TypeOK, RequestRecords
      <3>4. events[s].audience \in Audiences
        BY <3>1 DEF TypeOK, EventRecords
      <3>5. works' \in [Works -> WorkRecords]
        BY <2>2, <3>4, WorkUpdate DEF TypeOK
      <3> QED BY <1>3, <1>4, <2>2, <3>2, <3>3, <3>5 DEF TypeOK, NewRun
    <2> QED BY <1>4, <2>1, <2>2 DEF NewRun
  <1>5. {"incorporate", "reincorporate"} \subseteq RunnerStates
    BY DEF RunnerStates
  <1> QED BY <1>1, <1>2, <1>4, <1>5 DEF AttachNextRun, ReattachRun

\* The steps of the quantum that touch no table but the run's row keep the
\* types.
QuantumRunStep ==
    \/ Incorporate \/ NoUnresolvedAttempt \/ WaitForDecision \/ RecoverPrepared
    \/ RecoverRunning \/ CheckpointObservation \/ FindControl
    \/ BeginModelStep \/ YieldAfterLastStep \/ ModelAnswers \/ ModelCallsTool
    \/ StartTool \/ FinishTool \/ Preempted \/ NoProgress

LEMMA RunStepTypeOK == TypeOK /\ QuantumRunStep => TypeOK'
  <1> SUFFICES ASSUME TypeOK, QuantumRunStep PROVE TypeOK' OBVIOUS
  <1>1. runs' \in [Runs -> RunRecords]
    <2>1. \A x \in AttemptStates : SetAttempt(x) => runs' \in [Runs -> RunRecords]
      BY RunUpdate DEF TypeOK, SetAttempt
    <2>2. {"clear", "known", "outcome_unknown", "running", "prepared"} \subseteq AttemptStates
      BY DEF AttemptStates
    <2>3. ASSUME NEW next, IncorporateEvents(next)
          PROVE  runs' \in [Runs -> RunRecords]
      <3>1. CASE cur \in Runs
        <4>1. runs[cur].attached \in SUBSET Seqs
          BY <3>1 DEF TypeOK, RunRecords
        <4> QED BY <2>3, <4>1, RunUpdate DEF TypeOK, IncorporateEvents
      <3>2. CASE cur \notin Runs
        BY <2>3, <3>2 DEF TypeOK, IncorporateEvents
      <3> QED BY <3>1, <3>2
    <2>4. Incorporate => runs' \in [Runs -> RunRecords]
      BY <2>3 DEF Incorporate
    <2>5. RecoverPrepared \/ RecoverRunning \/ CheckpointObservation
            \/ ModelCallsTool \/ StartTool \/ FinishTool
          => runs' \in [Runs -> RunRecords]
      BY <2>1, <2>2 DEF RecoverPrepared, RecoverRunning, CheckpointObservation,
         ModelCallsTool, StartTool, FinishTool
    <2>6. NoUnresolvedAttempt \/ WaitForDecision \/ FindControl \/ BeginModelStep
            \/ YieldAfterLastStep \/ ModelAnswers \/ Preempted \/ NoProgress
          => runs' = runs
      BY DEF NoUnresolvedAttempt, WaitForDecision, FindControl, BeginModelStep,
         YieldAfterLastStep, ModelAnswers, Preempted, NoProgress, durableVars
    <2> QED BY <2>4, <2>5, <2>6 DEF TypeOK, QuantumRunStep
  <1>2. /\ UNCHANGED <<nextSeq, events, requests, works, lease, boundVars, cur>>
        /\ pc' \in RunnerStates
    BY DEF QuantumRunStep, Incorporate, IncorporateEvents, NoUnresolvedAttempt,
       WaitForDecision, RecoverPrepared, RecoverRunning, CheckpointObservation,
       FindControl, FoundCancel, BeginModelStep, YieldAfterLastStep,
       ModelAnswers, ModelCallsTool, StartTool, FinishTool, Preempted,
       NoProgress, Goto, Progress, SetAttempt, durableVars, ingressVars,
       boundVars, RunnerStates
  <1>3. ctl' \in Seqs \cup {None}
    <2>1. NewerControl \subseteq Seqs
      BY DEF NewerControl, FirstByKind, Controls
    <2> QED
      BY <2>1 DEF TypeOK, QuantumRunStep, Incorporate, IncorporateEvents,
         NoUnresolvedAttempt, WaitForDecision, RecoverPrepared, RecoverRunning,
         CheckpointObservation, FindControl, FoundCancel, BeginModelStep,
         YieldAfterLastStep, ModelAnswers, ModelCallsTool, StartTool,
         FinishTool, Preempted, NoProgress, Goto, Progress
  <1>4. steps' \in 0..ModelSteps
    BY DEF TypeOK, QuantumRunStep, Incorporate, IncorporateEvents,
       NoUnresolvedAttempt, WaitForDecision, RecoverPrepared, RecoverRunning,
       CheckpointObservation, FindControl, FoundCancel, BeginModelStep,
       YieldAfterLastStep, ModelAnswers, ModelCallsTool, StartTool,
       FinishTool, Preempted, NoProgress, Goto, Progress
  <1>5. progressed' \in BOOLEAN
    <2>1. UNCHANGED progressed \/ progressed' = TRUE
      BY DEF QuantumRunStep, Incorporate, IncorporateEvents,
         NoUnresolvedAttempt, WaitForDecision, RecoverPrepared, RecoverRunning,
         CheckpointObservation, FindControl, FoundCancel, BeginModelStep,
         YieldAfterLastStep, ModelAnswers, ModelCallsTool, StartTool,
         FinishTool, Preempted, NoProgress, Goto, Progress
    <2> QED BY <2>1 DEF TypeOK
  <1> QED BY <1>1, <1>2, <1>3, <1>4, <1>5 DEF TypeOK, boundVars

\* The steps that end the run, the quantum or its failure keep the types.
LEMMA SettleTypeOK ==
  TypeOK /\ (FinalizeRun \/ CancelRun \/ BlockUnknownAttempt) => TypeOK'
  <1> SUFFICES ASSUME TypeOK, FinalizeRun \/ CancelRun \/ BlockUnknownAttempt
               PROVE  TypeOK'
    OBVIOUS
  <1>0. TerminalStates \subseteq RunStates /\ TerminalStates \subseteq WorkStates
    BY DEF RunStates, WorkStates
  <1>1. CASE FinalizeRun
    <2>1. PICK state \in TerminalStates :
            /\ events' = SettleEvents(runs[cur].incorporated, state)
            /\ requests' = SettleRequests(runs[cur].incorporated, state)
            /\ SettleRun(state)
            /\ faults' = IF state = "completed" THEN faults ELSE faults + 1
            /\ state = "completed" \/ faults < MaxFaults
      BY <1>1 DEF FinalizeRun, FinalStates, TerminalStates
    <2>2. works' \in [Works -> WorkRecords] /\ runs' \in [Runs -> RunRecords]
      BY <1>0, <2>1, WorkUpdate, RunUpdate DEF TypeOK, SettleRun
    <2>3. faults' \in 0..MaxFaults
      BY <2>1 DEF TypeOK
    <2>4. progressed' \in BOOLEAN
      BY <1>1 DEF FinalizeRun, Progress
    <2>5. pc' \in RunnerStates
      BY <1>1 DEF FinalizeRun, Progress, RunnerStates
    <2> QED
      BY <1>1, <2>1, <2>2, <2>3, <2>4, <2>5, SettleUpdate
      DEF TypeOK, FinalizeRun, Progress
  <1>2. CASE CancelRun
    <2>1. "cancelled" \in TerminalStates
      BY DEF TerminalStates
    <2>2. events' \in [Seqs -> EventRecords] /\ requests' \in [Seqs -> RequestRecords]
      BY <1>2, <2>1, SettleUpdate DEF CancelRun
    <2>3. works' \in [Works -> WorkRecords]
      BY <1>0, <1>2, <2>1, WorkUpdate DEF CancelRun, TypeOK
    <2>4. runs' \in [Runs -> RunRecords]
      <3>1. CASE cur \in Runs
        <4>1. StopAttempt(cur) \in AttemptStates
          BY <3>1 DEF StopAttempt, TypeOK, RunRecords, AttemptStates
        <4> QED BY <1>0, <1>2, <2>1, <4>1, ZenonT(40) DEF CancelRun, TypeOK, RunRecords
      <3>2. CASE cur \notin Runs
        BY <1>2, <3>2 DEF CancelRun, TypeOK
      <3> QED BY <3>1, <3>2
    <2>5. pc' \in RunnerStates
      BY <1>2 DEF CancelRun, Progress, RunnerStates
    <2>6. progressed' \in BOOLEAN
      BY <1>2 DEF CancelRun, Progress
    <2> QED
      BY <1>2, <2>2, <2>3, <2>4, <2>5, <2>6 DEF TypeOK, CancelRun, Progress, boundVars
  <1>3. CASE BlockUnknownAttempt
    <2>1. "waiting_for_decision" \in AttemptStates \cap WorkStates
      BY DEF AttemptStates, WorkStates
    <2>2. works' \in [Works -> WorkRecords] /\ runs' \in [Runs -> RunRecords]
      BY <1>3, <2>1, WorkUpdate, RunUpdate DEF TypeOK, BlockUnknownAttempt, SetAttempt
    <2>3. pc' \in RunnerStates
      BY <1>3 DEF BlockUnknownAttempt, Goto, RunnerStates
    <2> QED
      BY <1>3, <2>2, <2>3 DEF TypeOK, BlockUnknownAttempt, Goto, boundVars
  <1> QED BY <1>1, <1>2, <1>3

\* Errors, retries, terminal failures and recorded progress keep the types.
LEMMA FailureTypeOK ==
  TypeOK /\ (WorkError \/ ExecutionTimeout \/ Retry \/ Terminalize \/ RecordProgress)
  => TypeOK'
  <1> SUFFICES ASSUME TypeOK,
                 WorkError \/ ExecutionTimeout \/ Retry \/ Terminalize \/ RecordProgress
               PROVE  TypeOK'
    OBVIOUS
  <1> USE DEF boundVars
  <1>1. CASE WorkError
    <2>1. pc' \in RunnerStates
      BY <1>1 DEF WorkError, Goto, RunnerStates
    <2>2. faults' \in 0..MaxFaults
      BY <1>1 DEF WorkError, SpendFault, TypeOK
    <2> QED BY <1>1, <2>1, <2>2 DEF TypeOK, WorkError, Goto, durableVars
  <1>2. CASE ExecutionTimeout
    <2>1. NewerCancel \subseteq Seqs
      BY DEF NewerCancel, NewerControl, FirstByKind, Controls
    <2>2. /\ pc' \in RunnerStates /\ ctl' \in Seqs \cup {None}
          /\ UNCHANGED <<cur, steps, progressed>>
      BY <1>2, <2>1 DEF ExecutionTimeout, FoundCancel, Goto, RunnerStates, TypeOK
    <2>3. faults' \in 0..MaxFaults
      BY <1>2 DEF ExecutionTimeout, SpendFault, TypeOK
    <2> QED BY <1>2, <2>2, <2>3 DEF TypeOK, ExecutionTimeout, durableVars
  <1>3. CASE Retry
    <2>1. works' \in [Works -> WorkRecords]
      <3>1. CASE runs[cur].work \in Works
        <4>1. works[runs[cur].work].failures \in 0..FailureLimit
          BY <3>1 DEF TypeOK, WorkRecords
        <4>2. FailureCount(runs[cur].work) \in 0..FailureLimit
          BY <1>3, <4>1 DEF Retry, FailureCount
        <4> QED BY <1>3, <4>2, WorkUpdate DEF Retry, TypeOK
      <3>2. CASE runs[cur].work \notin Works
        BY <1>3, <3>2 DEF Retry, TypeOK
      <3> QED BY <3>1, <3>2
    <2>2. pc' \in RunnerStates
      BY <1>3 DEF Retry, Goto, RunnerStates
    <2> QED BY <1>3, <2>1, <2>2 DEF TypeOK, Retry, Goto
  <1>4. CASE Terminalize
    <2>0. "failed_terminal" \in TerminalStates \cap WorkStates \cap RunStates
      BY DEF TerminalStates, WorkStates, RunStates
    <2>1. /\ SettleEvents(FailedEvents(cur), "failed_terminal") \in [Seqs -> EventRecords]
          /\ SettleRequests(FailedEvents(cur), "failed_terminal") \in [Seqs -> RequestRecords]
      BY <2>0, SettleUpdate
    <2>2. events' \in [Seqs -> EventRecords]
      <3>1. \A s \in Seqs :
              [events[s] EXCEPT !.state = "pending", !.work = None] \in EventRecords
        <4> SUFFICES ASSUME NEW s \in Seqs
                     PROVE  [events[s] EXCEPT !.state = "pending", !.work = None]
                              \in EventRecords
          OBVIOUS
        <4>1. events[s] \in EventRecords
          BY DEF TypeOK
        <4>2. "pending" \in EventStates
          BY DEF EventStates
        <4> QED BY <4>1, <4>2 DEF EventRecords
      <3> QED BY <1>4, <2>1, <3>1 DEF Terminalize
    <2>3. requests' \in [Seqs -> RequestRecords]
      <3>1. \A s \in Seqs : [requests[s] EXCEPT !.work = None] \in RequestRecords
        BY DEF TypeOK, RequestRecords
      <3> QED BY <1>4, <2>1, <3>1 DEF Terminalize
    <2>4. works' \in [Works -> WorkRecords]
      <3>1. [works EXCEPT ![runs[cur].work].state = "failed_terminal"]
              \in [Works -> WorkRecords]
        BY <2>0, WorkUpdate DEF TypeOK
      <3>2. works' = [[works EXCEPT ![runs[cur].work].state = "failed_terminal"]
                        EXCEPT ![runs[cur].work].failures = FailureLimit,
                               ![runs[cur].work].due = TRUE]
        BY <1>4 DEF Terminalize
      <3>3. FailureLimit \in 0..FailureLimit
        OBVIOUS
      <3> QED BY <3>1, <3>2, <3>3, WorkUpdate
    <2>5. runs' \in [Runs -> RunRecords]
      <3>1. CASE cur \in Runs
        <4>1. KeptEvents(cur) \in SUBSET Seqs
          BY <3>1 DEF KeptEvents, TypeOK, RunRecords
        <4>2. StopAttempt(cur) \in AttemptStates /\ "known" \in AttemptStates
          BY <3>1 DEF StopAttempt, TypeOK, RunRecords, AttemptStates
        <4>3. PICK a \in AttemptStates :
                runs' = [runs EXCEPT ![cur].state = "failed_terminal",
                                     ![cur].attached = KeptEvents(cur),
                                     ![cur].attempt = a]
          <5> DEFINE old == runs[cur].attempt
                     a == IF old = "prepared" THEN "known" ELSE StopAttempt(cur)
          <5>1. a \in AttemptStates
            BY <4>2
          <5>2. runs' = [runs EXCEPT ![cur].state = "failed_terminal",
                                     ![cur].attached = KeptEvents(cur),
                                     ![cur].attempt = a]
            BY <1>4 DEF Terminalize
          <5> QED BY <5>1, <5>2
        <4> DEFINE row == [runs[cur] EXCEPT !.state = "failed_terminal",
                              !.attached = KeptEvents(cur), !.attempt = a]
        <4>4. row \in RunRecords
          <5>1. runs[cur] \in RunRecords
            BY <3>1 DEF TypeOK
          <5> QED BY <2>0, <4>1, <5>1 DEF RunRecords
        <4>5. runs' = [runs EXCEPT ![cur] = row]
          BY <4>3 DEF TypeOK
        <4> QED BY <4>4, <4>5 DEF TypeOK
      <3>2. CASE cur \notin Runs
        BY <1>4, <3>2 DEF Terminalize, TypeOK
      <3> QED BY <3>1, <3>2
    <2>6. pc' \in RunnerStates
      BY <1>4 DEF Terminalize, Goto, RunnerStates
    <2> QED
      BY <1>4, <2>2, <2>3, <2>4, <2>5, <2>6 DEF TypeOK, Terminalize, Goto
  <1>5. CASE RecordProgress
    <2>0. 0 \in 0..FailureLimit
      OBVIOUS
    <2>1. works' \in [Works -> WorkRecords]
      BY <1>5, <2>0, WorkUpdate, Zenon DEF RecordProgress, TypeOK
    <2>2. pc' \in RunnerStates
      BY <1>5 DEF RecordProgress, Goto, RunnerStates
    <2> QED BY <1>5, <2>1, <2>2 DEF TypeOK, RecordProgress, Goto
  <1> QED BY <1>1, <1>2, <1>3, <1>4, <1>5

\* The end of a quantum, the clock, crashes and restarts keep the types.
LEMMA EndTypeOK ==
  TypeOK /\ \/ FenceRejected \/ FailureRejected \/ AuthorityLost \/ ReleaseLease
            \/ (\E w \in Works : BackoffElapses(w))
            \/ LeaseExpires \/ Crash \/ Shutdown \/ ExitAfterFailure \/ Restart
  => TypeOK'
  <1>1. ASSUME TypeOK, NEW next \in RunnerStates, EndQuantum(next)
        PROVE  /\ nextSeq' \in 0..MaxSeq
               /\ events' \in [Seqs -> EventRecords]
               /\ requests' \in [Seqs -> RequestRecords]
               /\ works' \in [Works -> WorkRecords]
               /\ runs' \in [Runs -> RunRecords]
               /\ pc' \in RunnerStates
               /\ cur' \in Runs \cup {None}
               /\ ctl' \in Seqs \cup {None}
               /\ steps' \in 0..ModelSteps
               /\ progressed' \in BOOLEAN
    <2>1. progressed' \in BOOLEAN
      BY <1>1 DEF EndQuantum
    <2>2. steps' \in 0..ModelSteps
      BY <1>1 DEF EndQuantum
    <2> QED BY <1>1, <2>1, <2>2 DEF TypeOK, EndQuantum, ingressVars
  <1>2. {"idle", "stopped", "down"} \subseteq RunnerStates
    BY DEF RunnerStates
  <1>3. NoLease \in LeaseRecords
    BY DEF NoLease, LeaseRecords
  <1>4. TypeOK => Orphaned \in LeaseRecords /\ ShutdownLease \in LeaseRecords
    BY <1>3 DEF TypeOK, Orphaned, ShutdownLease, LeaseRecords
  <1> SUFFICES ASSUME TypeOK,
                 \/ FenceRejected \/ FailureRejected \/ AuthorityLost \/ ReleaseLease
                 \/ (\E w \in Works : BackoffElapses(w))
                 \/ LeaseExpires \/ Crash \/ Shutdown \/ ExitAfterFailure \/ Restart
               PROVE  TypeOK'
    OBVIOUS
  <1>5. CASE FenceRejected \/ FailureRejected \/ ReleaseLease \/ ExitAfterFailure
    BY <1>1, <1>2, <1>3, <1>4, <1>5
    DEF TypeOK, FenceRejected, FailureRejected, ReleaseLease, ExitAfterFailure,
        AuthorityUnavailable, StopProcess, boundVars
  <1>6. CASE AuthorityLost \/ Crash \/ Shutdown
    <2>1. crashes' \in 0..MaxCrashes
      BY <1>6 DEF TypeOK, AuthorityLost, Crash, Shutdown
    <2> QED
      BY <1>1, <1>2, <1>3, <1>4, <1>6, <2>1
      DEF TypeOK, AuthorityLost, Crash, Shutdown, AuthorityUnavailable, StopProcess
  <1>7. ASSUME NEW w \in Works, BackoffElapses(w) PROVE TypeOK'
    <2>1. works' \in [Works -> WorkRecords]
      BY <1>7, WorkUpdate DEF TypeOK, BackoffElapses
    <2> QED BY <1>7, <2>1 DEF TypeOK, BackoffElapses, runnerVars, boundVars
  <1>8. CASE LeaseExpires
    <2>1. lease' \in LeaseRecords
      BY <1>8 DEF TypeOK, LeaseExpires, LeaseRecords
    <2> QED
      BY <1>8, <2>1 DEF TypeOK, LeaseExpires, ingressVars, runnerVars, boundVars
  <1>9. CASE Restart
    <2>1. runs' \in [Runs -> RunRecords]
      <3>1. "outcome_unknown" \in AttemptStates
        BY DEF AttemptStates
      <3>2. \A r \in Runs : [runs[r] EXCEPT !.attempt = "outcome_unknown"] \in RunRecords
        BY <3>1 DEF TypeOK, RunRecords
      <3> QED BY <1>9, <3>2 DEF TypeOK, Restart
    <2>2. works' \in [Works -> WorkRecords]
      <3>1. \A w \in Works :
              [works[w] EXCEPT !.state = "waiting_for_decision"] \in WorkRecords
        BY DEF TypeOK, WorkRecords, WorkStates
      <3> QED BY <1>9, <3>1 DEF TypeOK, Restart
    <2>3. lease' \in LeaseRecords /\ pc' \in RunnerStates
      BY <1>2, <1>3, <1>9 DEF TypeOK, Restart
    <2> QED BY <1>9, <2>1, <2>2, <2>3 DEF TypeOK, Restart, boundVars
  <1> QED BY <1>5, <1>6, <1>7, <1>8, <1>9

\* Every table and every variable of the runner keeps its type, whatever
\* ingress, the runner, errors, crashes and restarts do.
THEOREM TypeCorrect == Spec => []TypeOK
  <1>1. TypeOK /\ [Next]_vars => TypeOK'
    <2> SUFFICES ASSUME TypeOK, [Next]_vars PROVE TypeOK' OBVIOUS
    <2>1. CASE Next
      BY <2>1, IngressTypeOK, AttachTypeOK, RunStepTypeOK, SettleTypeOK,
         FailureTypeOK, EndTypeOK
      DEF Next, QuantumStep, QuantumRunStep
    <2>2. CASE UNCHANGED vars
      BY <2>2 DEF TypeOK, vars
    <2> QED BY <2>1, <2>2
  <1> QED BY <1>1, InitTypeOK, PTL DEF Spec

-----------------------------------------------------------------------------
(* Runs, work items and the runner's ownership.                            *)

\* The inductive invariant behind RunAndWorkAgree and RunnerOwnsRun.  The two
\* need each other: a run only settles its work item correctly because the
\* runner still owns it, and ownership survives because the work item can
\* only change together with its run.  What neither says: a run id without a
\* row names no work item, and the quantum holds the lease before it attaches.
NoRowNoWork == \A r \in Runs : runs[r].state = "absent" => runs[r].work = None
QuantumHoldsLease == pc = "attach" => lease.status = "held"

RunTableInv ==
    /\ TypeOK
    /\ RunAndWorkAgree
    /\ RunnerOwnsRun
    /\ NoRowNoWork
    /\ QuantumHoldsLease

SameRuns ==
    \A r \in Runs : runs'[r].state = runs[r].state /\ runs'[r].work = runs[r].work

\* A fresh row opened for a new work item leaves every other row as it was.
KeepsRows ==
    \A w \in Works : works[w].state # "absent" =>
      works'[w].state = works[w].state /\ (works[w].due => works'[w].due)

\* The fields of an active run's row, and where its work item can be.
LEMMA RunRow ==
  ASSUME RunTableInv, NEW r \in Runs
  PROVE  /\ runs[r].state \in RunStates
         /\ runs[r].state # "absent" =>
              runs[r].work \in Works /\ works[runs[r].work].state # "absent"
         /\ runs[r].work = None \/ works[runs[r].work].state # "absent"
  BY DEF RunTableInv, TypeOK, RunAndWorkAgree, NoRowNoWork, RunRecords,
         RunStates, TerminalStates

\* Runs and work items agree after a step that changes neither the state of a
\* run nor the state of a work item that exists.
LEMMA KeepAgree ==
  ASSUME RunTableInv, SameRuns, KeepsRows
  PROVE  RunAndWorkAgree' /\ NoRowNoWork'
  <1>1. \A r \in Runs : runs[r].state # "absent" =>
          works'[runs[r].work].state = works[runs[r].work].state
    BY RunRow DEF KeepsRows
  <1>2. NoRowNoWork'
    BY DEF RunTableInv, SameRuns, NoRowNoWork
  <1>3. "absent" \notin TerminalStates
    BY DEF TerminalStates
  <1> QED
    BY <1>1, <1>2, <1>3 DEF RunTableInv, SameRuns, RunAndWorkAgree

\* Runs and work items agree after a step that settles an active run together
\* with its work item.
LEMMA SettleAgree ==
  ASSUME RunTableInv, NEW c \in Runs, runs[c].state = "active",
         NEW x \in TerminalStates,
         \A r \in Runs : runs'[r].work = runs[r].work,
         \A r \in Runs : runs'[r].state = IF r = c THEN x ELSE runs[r].state,
         \A w \in Works :
           works'[w].state = IF w = runs[c].work THEN x ELSE works[w].state
  PROVE  RunAndWorkAgree' /\ NoRowNoWork'
  <1>0. "absent" \notin TerminalStates /\ "active" \notin TerminalStates
    BY DEF TerminalStates
  <1>1. NoRowNoWork'
    BY <1>0 DEF RunTableInv, NoRowNoWork
  <1>2. \A r \in Runs : r # c /\ runs[r].state # "absent" => runs[r].work # runs[c].work
    BY RunRow DEF RunTableInv, RunAndWorkAgree, None, Works
  <1>3. ASSUME NEW r \in Runs, r # c, runs[r].state # "absent"
        PROVE  works'[runs[r].work].state = works[runs[r].work].state
    BY <1>2, <1>3, RunRow
  <1>4. runs[c].work \in Works
    BY RunRow
  <1> QED BY <1>0, <1>1, <1>3, <1>4 DEF RunTableInv, RunAndWorkAgree

\* Runs and work items agree after a step that only makes work items with an
\* active run wait for a decision.
LEMMA WaitAgree ==
  ASSUME RunTableInv, SameRuns,
         \A w \in Works :
           \/ works'[w].state = works[w].state
           \/ /\ works'[w].state = "waiting_for_decision"
              /\ \E c \in Runs : runs[c].state = "active" /\ runs[c].work = w
  PROVE  RunAndWorkAgree' /\ NoRowNoWork'
  <1>1. NoRowNoWork'
    BY DEF RunTableInv, SameRuns, NoRowNoWork
  <1>2. ASSUME NEW r \in Runs, runs[r].state \in TerminalStates
        PROVE  works'[runs[r].work].state = works[runs[r].work].state
    BY <1>2, RunRow DEF RunTableInv, RunAndWorkAgree, TerminalStates
  <1>3. ASSUME NEW r \in Runs, runs[r].state = "active"
        PROVE  works'[runs[r].work].state \in {"ready", "waiting_for_decision"}
    BY <1>3, RunRow DEF RunTableInv, RunAndWorkAgree
  <1> QED
    BY <1>1, <1>2, <1>3 DEF RunTableInv, SameRuns, RunAndWorkAgree

\* The runner still owns its run after a step that leaves the run's row, the
\* lease and the work items that exist as they were.
LEMMA KeepOwn ==
  ASSUME RunTableInv, SameRuns, KeepsRows,
         \A r \in Runs : runs'[r].generation = runs[r].generation,
         cur' = cur, lease' = lease,
         pc' \in ExecutingStates => pc \in ExecutingStates,
         HasBlocked =>
           /\ runs'[cur].attempt = runs[cur].attempt
           /\ pc' \in {"blocked", "cancel", "fail"} \/ pc' \notin ExecutingStates
  PROVE  RunnerOwnsRun'
  <1> SUFFICES ASSUME pc' \in ExecutingStates PROVE
        /\ cur' \in Runs
        /\ runs'[cur'].state = "active"
        /\ runs'[cur'].generation = lease'.generation
        /\ lease'.status = "held"
        /\ Due(runs[cur].work)' \/ HasBlocked'
    BY DEF RunnerOwnsRun, SameRuns, Due
  <1>1. /\ cur \in Runs /\ runs[cur].state = "active"
        /\ runs[cur].generation = lease.generation
        /\ lease.status = "held"
        /\ Due(runs[cur].work) \/ HasBlocked
    BY DEF RunTableInv, RunnerOwnsRun
  <1>2. runs[cur].work \in Works /\ runs'[cur].work = runs[cur].work
    BY <1>1, RunRow DEF SameRuns
  <1>3. CASE Due(runs[cur].work)
    <2>1. Due(runs[cur].work)'
      BY <1>2, <1>3 DEF KeepsRows, Due
    <2> QED BY <1>1, <2>1 DEF SameRuns
  <1>4. CASE HasBlocked
    <2>1. works'[runs[cur].work].state = "waiting_for_decision"
      BY <1>2, <1>4 DEF KeepsRows, HasBlocked
    <2>2. HasBlocked'
      BY <1>2, <1>4, <2>1 DEF HasBlocked
    <2> QED BY <1>1, <2>2 DEF SameRuns
  <1> QED BY <1>1, <1>3, <1>4

\* The initial database has no runs and the dispatcher no lease.
LEMMA InitRunTable == Init => RunTableInv
  <1> SUFFICES ASSUME Init PROVE RunTableInv OBVIOUS
  <1>1. RunAndWorkAgree /\ NoRowNoWork
    BY DEF Init, RunAndWorkAgree, NoRowNoWork, TerminalStates
  <1>2. RunnerOwnsRun /\ QuantumHoldsLease
    BY DEF Init, RunnerOwnsRun, QuantumHoldsLease, ExecutingStates
  <1> QED BY <1>1, <1>2, InitTypeOK DEF RunTableInv

\* Ingress changes no run and no work item that exists, but its flag.
LEMMA IngressKeepsRows ==
  RunTableInv /\ Ingress => KeepsRows /\ UNCHANGED <<runs, lease, pc, cur, ctl>>
  <1> SUFFICES ASSUME RunTableInv, Ingress
               PROVE  KeepsRows /\ UNCHANGED <<runs, lease, pc, cur, ctl>>
    OBVIOUS
  <1> USE DEF runnerVars, boundVars
  <1>1. /\ UNCHANGED <<runs, lease, pc, cur, ctl>>
    BY DEF Ingress, SubmitForActor, Ingest, IngestWebhook, CancelForActor
  <1>2. KeepsRows
    <2> SUFFICES ASSUME NEW w \in Works, works[w].state # "absent"
                 PROVE  /\ works'[w].state = works[w].state
                        /\ works[w].due => works'[w].due
      BY DEF KeepsRows
    <2>0. works \in [Works -> WorkRecords]
      BY DEF RunTableInv, TypeOK
    <2>1. ASSUME NEW v, NEW a, JoinOrOpen(v, a)
          PROVE  works'[w] = works[w]
      BY <2>0, <2>1 DEF JoinOrOpen
    <2>2. CASE SubmitForActor \/ \E a \in Audiences : Ingest(a)
      BY <2>1, <2>2 DEF SubmitForActor, Ingest
    <2>3. CASE IngestWebhook
      BY <2>0, <2>3 DEF IngestWebhook, Fresh
    <2>4. ASSUME NEW s \in Seqs, CancelForActor(s)
          PROVE  /\ works'[w].state = works[w].state
                 /\ works[w].due => works'[w].due
      <3>1. PICK v :
              /\ v \in IF requests[s].work = None THEN Fresh(works, Works)
                       ELSE {requests[s].work}
              /\ works' = [works EXCEPT ![v] =
                   [(IF requests[s].work = None
                     THEN OpenWork("interactive", ActorPrivate)
                     ELSE works[v]) EXCEPT !.cancelRequested = TRUE]]
        BY <2>4 DEF CancelForActor
      <3>2. CASE w # v
        BY <2>0, <3>1, <3>2
      <3>3. CASE w = v
        <4>1. requests[s].work # None
          BY <3>1, <3>3 DEF Fresh
        <4>2. works' = [works EXCEPT ![v] = [works[v] EXCEPT !.cancelRequested = TRUE]]
          BY <3>1, <4>1
        <4>3. works[w] \in WorkRecords
          BY <2>0
        <4>4. works'[w] = [works[w] EXCEPT !.cancelRequested = TRUE]
          BY <2>0, <3>3, <4>2
        <4> QED BY <4>3, <4>4 DEF WorkRecords
      <3> QED BY <3>2, <3>3
    <2> QED BY <2>2, <2>3, <2>4 DEF Ingress
  <1> QED BY <1>1, <1>2

\* So the runs and their work items agree after it.
LEMMA IngressRunTable == RunTableInv /\ Ingress => RunTableInv'
  <1> SUFFICES ASSUME RunTableInv, Ingress PROVE RunTableInv' OBVIOUS
  <1>1. KeepsRows /\ UNCHANGED <<runs, lease, pc, cur>>
    BY IngressKeepsRows
  <1>2. SameRuns
    BY <1>1 DEF SameRuns
  <1>3. TypeOK'
    BY IngressTypeOK DEF RunTableInv
  <1> QED
    BY <1>1, <1>2, <1>3, KeepAgree, KeepOwn
    DEF RunTableInv, QuantumHoldsLease, HasBlocked

\* The steps of the quantum that leave states and work items alone.
LEMMA RunStepRunTable == RunTableInv /\ QuantumRunStep => RunTableInv'
  <1> SUFFICES ASSUME RunTableInv, QuantumRunStep PROVE RunTableInv' OBVIOUS
  <1>1. SameRuns /\ \A r \in Runs : runs'[r].generation = runs[r].generation
    <2>0. runs \in [Runs -> RunRecords]
      BY DEF RunTableInv, TypeOK
    <2>1. \A x : SetAttempt(x) =>
            SameRuns /\ \A r \in Runs : runs'[r].generation = runs[r].generation
      BY <2>0 DEF SetAttempt, SameRuns, RunRecords
    <2>2. \A next : IncorporateEvents(next) =>
            SameRuns /\ \A r \in Runs : runs'[r].generation = runs[r].generation
      BY <2>0 DEF IncorporateEvents, SameRuns, RunRecords
    <2>3. UNCHANGED runs =>
            SameRuns /\ \A r \in Runs : runs'[r].generation = runs[r].generation
      BY DEF SameRuns
    <2> QED
      BY <2>1, <2>2, <2>3
      DEF QuantumRunStep, Incorporate, NoUnresolvedAttempt, WaitForDecision,
          RecoverPrepared, RecoverRunning, CheckpointObservation, FindControl,
          BeginModelStep, YieldAfterLastStep, ModelAnswers, ModelCallsTool,
          StartTool, FinishTool, Preempted, NoProgress, durableVars
  <1>2. /\ UNCHANGED <<works, lease, cur>>
        /\ pc' # "attach"
        /\ pc' \in ExecutingStates => pc \in ExecutingStates
    BY DEF QuantumRunStep, Incorporate, IncorporateEvents, NoUnresolvedAttempt,
       WaitForDecision, RecoverPrepared, RecoverRunning, CheckpointObservation,
       FindControl, FoundCancel, BeginModelStep, YieldAfterLastStep,
       ModelAnswers, ModelCallsTool, StartTool, FinishTool, Preempted,
       NoProgress, Goto, Progress, SetAttempt, durableVars, ingressVars,
       ExecutingStates
  <1>3. KeepsRows
    BY <1>2 DEF KeepsRows
  <1>4. TypeOK'
    BY RunStepTypeOK DEF RunTableInv
  <1>5. HasBlocked => UNCHANGED runs /\ pc' \notin ExecutingStates
    BY DEF HasBlocked, QuantumRunStep, Incorporate, NoUnresolvedAttempt,
       WaitForDecision, RecoverPrepared, RecoverRunning, CheckpointObservation,
       FindControl, BeginModelStep, YieldAfterLastStep, ModelAnswers,
       ModelCallsTool, StartTool, FinishTool, Preempted, NoProgress, Goto,
       durableVars, ExecutingStates
  <1> QED
    BY <1>1, <1>2, <1>3, <1>4, <1>5, KeepAgree, KeepOwn
    DEF RunTableInv, QuantumHoldsLease

\* The rows an attachment leaves alone, and the row it takes over.
LEMMA AttachRows ==
  ASSUME NEW evs, NEW wks, NEW rs \in [Runs -> RunRecords], NEW r \in Runs,
         AttachEvents(evs, wks, rs, r)
  PROVE  /\ \A x \in Runs : runs'[x].state = rs[x].state /\ runs'[x].work = rs[x].work
         /\ runs'[r].generation = lease.generation
         /\ cur' = r
  <1>1. PICK o : runs' = [rs EXCEPT ![r].attached = rs[r].attached \cup Batch(evs, wks, rs, r),
                                    ![r].observed = o,
                                    ![r].generation = lease.generation]
    BY DEF AttachEvents
  <1> DEFINE row == [rs[r] EXCEPT !.attached = rs[r].attached \cup Batch(evs, wks, rs, r),
                                  !.observed = o, !.generation = lease.generation]
  <1>2. rs[r] \in RunRecords
    OBVIOUS
  <1>3. runs' = [rs EXCEPT ![r] = row]
    BY <1>1
  <1>4. row.state = rs[r].state /\ row.work = rs[r].work /\ row.generation = lease.generation
    BY <1>2 DEF RunRecords
  <1> HIDE DEF row
  <1> QED BY <1>3, <1>4 DEF AttachEvents

\* A resumed run is due and passes to the lease that resumes it.
LEMMA ResumeRunTable ==
  ASSUME RunTableInv, NEW r \in Runs, NEW next \in ExecutingStates,
         lease.status = "held", ResumeRun(r, next)
  PROVE  RunTableInv'
  <1>1. runs \in [Runs -> RunRecords]
    BY DEF RunTableInv, TypeOK
  <1>2. /\ SameRuns /\ cur' = r
        /\ runs'[r].generation = lease.generation
    BY <1>1, AttachRows DEF ResumeRun, SameRuns
  <1>3. UNCHANGED <<works, lease>> /\ pc' = next
    BY DEF ResumeRun
  <1>4. KeepsRows
    BY <1>3 DEF KeepsRows
  <1>5. TypeOK'
    <2>1. next \in RunnerStates
      BY DEF ExecutingStates, RunnerStates
    <2> QED BY <2>1, AttachUpdate DEF RunTableInv, TypeOK, ResumeRun, boundVars
  <1>6. RunnerOwnsRun'
    BY <1>2, <1>3 DEF RunnerOwnsRun, ResumeRun, DueRuns, SameRuns, Due
  <1>7. QuantumHoldsLease'
    BY <1>3 DEF QuantumHoldsLease, ExecutingStates
  <1> QED BY <1>2, <1>4, <1>5, <1>6, <1>7, KeepAgree DEF RunTableInv

\* A new run is the first of its work item: no active run is due, and the work
\* item is ready and due, so it has no active run and no finished one either.
LEMMA StartRunTable ==
  ASSUME RunTableInv, lease.status = "held", DueRuns = {},
         NEW evs \in [Seqs -> EventRecords], NEW wks \in [Works -> WorkRecords],
         \A w \in Works : works[w].state # "absent" => wks[w] = works[w],
         NEW next \in ExecutingStates, StartRun(evs, wks, next),
         works' = wks, lease' = lease
  PROVE  RunAndWorkAgree' /\ NoRowNoWork' /\ RunnerOwnsRun' /\ QuantumHoldsLease'
  <1>1. PICK s \in Seqs, r \in Runs :
          /\ evs[s].work # None
          /\ wks[evs[s].work].state = "ready" /\ wks[evs[s].work].due
          /\ runs[r].state = "absent"
          /\ AttachEvents(evs, wks,
               [runs EXCEPT ![r] =
                  [state |-> "active", work |-> evs[s].work, observed |-> 0,
                   attached |-> {}, incorporated |-> {}, attempt |-> "clear",
                   generation |-> lease.generation]], r)
          /\ pc' = next
    BY DEF StartRun, FirstByKind, Startable, Fresh
  <1> DEFINE row == [state |-> "active", work |-> evs[s].work, observed |-> 0,
                     attached |-> {}, incorporated |-> {}, attempt |-> "clear",
                     generation |-> lease.generation]
             rs  == [runs EXCEPT ![r] = row]
             v   == evs[s].work
  <1>2. row \in RunRecords
    BY DEF RunTableInv, TypeOK, RunRecords, RunStates, AttemptStates,
       EventRecords, LeaseRecords
  <1>3. row.state = "active" /\ row.work = v
    OBVIOUS
  <1>4. AttachEvents(evs, wks, rs, r)
    BY <1>1
  <1> HIDE DEF row
  <1>5. rs \in [Runs -> RunRecords]
    BY <1>2 DEF RunTableInv, TypeOK
  <1>6. /\ \A x \in Runs : runs'[x].state = rs[x].state /\ runs'[x].work = rs[x].work
        /\ runs'[r].generation = lease.generation
        /\ cur' = r
    BY <1>4, <1>5, AttachRows
  <1>7. /\ runs'[r].state = "active" /\ runs'[r].work = v
        /\ \A x \in Runs : x # r =>
             runs'[x].state = runs[x].state /\ runs'[x].work = runs[x].work
    BY <1>3, <1>6 DEF RunTableInv, TypeOK
  <1>8. v \in Works
    BY <1>1 DEF EventRecords
  <1>9. \A x \in Runs : runs[x].work # v
    <2> SUFFICES ASSUME NEW x \in Runs, runs[x].work = v PROVE FALSE
      OBVIOUS
    <2>1. works[v].state # "absent" /\ wks[v] = works[v]
      BY <1>1, <1>8, RunRow
    <2>2. works[v].state = "ready" /\ works[v].due
      BY <1>1, <2>1
    <2>3. runs[x].state # "absent"
      BY <1>1 DEF RunTableInv, NoRowNoWork
    <2>4. runs[x].state \in TerminalStates \cup {"active"}
      BY <2>3, RunRow DEF RunStates
    <2>5. runs[x].state = "active"
      BY <2>2, <2>4 DEF RunTableInv, RunAndWorkAgree, TerminalStates
    <2> QED BY <2>2, <2>5 DEF DueRuns, Due
  <1>10. \A x \in Runs : x # r /\ runs[x].state # "absent" =>
           works'[runs[x].work].state = works[runs[x].work].state
    BY RunRow
  <1>11. NoRowNoWork'
    BY <1>7 DEF RunTableInv, NoRowNoWork
  <1>12. RunAndWorkAgree'
    <2>1. ASSUME NEW x \in Runs
          PROVE  /\ runs'[x].state = "active" =>
                      /\ runs'[x].work # None
                      /\ works'[runs'[x].work].state \in {"ready", "waiting_for_decision"}
                 /\ runs'[x].state \in TerminalStates =>
                      /\ runs'[x].work # None
                      /\ works'[runs'[x].work].state = runs'[x].state
      <3>1. CASE x = r
        BY <1>1, <1>7, <3>1 DEF TerminalStates
      <3>2. CASE x # r
        BY <1>7, <1>10, <3>2 DEF RunTableInv, RunAndWorkAgree, TerminalStates
      <3> QED BY <3>1, <3>2
    <2>2. ASSUME NEW x \in Runs, NEW y \in Runs, runs'[x].work = runs'[y].work,
                 runs'[x].work # None
          PROVE  x = y
      BY <1>7, <1>9, <2>2 DEF RunTableInv, RunAndWorkAgree
    <2> QED BY <2>1, <2>2 DEF RunAndWorkAgree
  <1>13. RunnerOwnsRun'
    BY <1>1, <1>6, <1>7 DEF RunnerOwnsRun, Due
  <1>14. QuantumHoldsLease'
    BY <1>1 DEF QuantumHoldsLease, ExecutingStates
  <1> QED BY <1>11, <1>12, <1>13, <1>14

\* Taking the lease and attaching events.
LEMMA AttachRunTable ==
  RunTableInv /\ (AcquireReadyActor \/ AttachNextRun \/ ReattachRun) => RunTableInv'
  <1> SUFFICES ASSUME RunTableInv, AcquireReadyActor \/ AttachNextRun \/ ReattachRun
               PROVE  RunTableInv'
    OBVIOUS
  <1>0. TypeOK /\ TypeOK'
    BY AttachTypeOK DEF RunTableInv
  <1>1. CASE AcquireReadyActor
    <2>1. SameRuns /\ KeepsRows
      BY <1>1 DEF AcquireReadyActor, SameRuns, KeepsRows, ingressVars
    <2>2. RunnerOwnsRun' /\ QuantumHoldsLease'
      BY <1>1 DEF AcquireReadyActor, Acquire, RunnerOwnsRun, QuantumHoldsLease,
         ExecutingStates
    <2> QED BY <1>0, <2>1, <2>2, KeepAgree DEF RunTableInv
  <1>2. {"incorporate", "reincorporate"} \subseteq ExecutingStates
    BY DEF ExecutingStates
  <1>3. CASE ReattachRun
    <2>1. lease.status = "held"
      BY <1>3 DEF ReattachRun, RunTableInv, RunnerOwnsRun, ExecutingStates
    <2> QED BY <1>2, <1>3, <2>1, ResumeRunTable DEF ReattachRun
  <1>4. CASE AttachNextRun
    <2>1. lease.status = "held"
      BY <1>4 DEF AttachNextRun, RunTableInv, QuantumHoldsLease
    <2>2. CASE \E r \in Runs : ResumeRun(r, "incorporate")
      BY <1>2, <2>1, <2>2, ResumeRunTable
    <2>3. CASE NewRun("incorporate")
      <3>1. DueRuns = {} /\ lease' = lease
        BY <2>3 DEF NewRun
      <3>2. CASE StartRun(events, works, "incorporate") /\ UNCHANGED works
        BY <1>0, <1>2, <2>1, <3>1, <3>2, StartRunTable DEF RunTableInv, TypeOK
      <3>3. ASSUME NEW s \in Unassigned, NEW w \in Fresh(works, Works),
                   StartRun(AssignEvent(s, w), works', "incorporate"),
                   works' = [works EXCEPT ![w] = OpenWork("interactive", events[s].audience)]
            PROVE  RunTableInv'
        <4>1. AssignEvent(s, w) \in [Seqs -> EventRecords]
          <5>1. events \in [Seqs -> EventRecords]
            BY <1>0 DEF TypeOK
          <5>2. w \in Works
            BY DEF Fresh
          <5>3. \A e \in EventRecords : [e EXCEPT !.work = w] \in EventRecords
            BY <5>2 DEF EventRecords
          <5> QED BY <5>1, <5>3 DEF AssignEvent
        <4>2. works' \in [Works -> WorkRecords]
          BY <1>0 DEF TypeOK
        <4>3. \A x \in Works : works[x].state # "absent" => works'[x] = works[x]
          BY <1>0, <3>3 DEF Fresh, TypeOK
        <4> QED
          BY <1>0, <1>2, <2>1, <3>1, <3>3, <4>1, <4>2, <4>3, StartRunTable
          DEF RunTableInv
      <3> QED BY <2>3, <3>2, <3>3 DEF NewRun
    <2> QED BY <1>4, <2>2, <2>3 DEF AttachNextRun
  <1> QED BY <1>1, <1>3, <1>4

\* An answer, a cancellation or a terminal failure settles the run with its
\* work item.
LEMMA SettleRunTable ==
  RunTableInv /\ (FinalizeRun \/ CancelRun \/ Terminalize) => RunTableInv'
  <1> SUFFICES ASSUME RunTableInv, FinalizeRun \/ CancelRun \/ Terminalize
               PROVE  RunTableInv'
    OBVIOUS
  <1>0. /\ TypeOK /\ TypeOK'
        /\ runs \in [Runs -> RunRecords] /\ works \in [Works -> WorkRecords]
    BY SettleTypeOK, FailureTypeOK DEF RunTableInv, TypeOK
  <1>1. cur \in Runs /\ runs[cur].state = "active" /\ runs[cur].work \in Works
    <2>1. pc \in ExecutingStates
      BY DEF FinalizeRun, CancelRun, Terminalize, ExecutingStates
    <2>2. cur \in Runs /\ runs[cur].state = "active"
      BY <2>1 DEF RunTableInv, RunnerOwnsRun
    <2> QED BY <2>2, RunRow
  <1>2. PICK x \in TerminalStates :
          /\ \A r \in Runs : runs'[r].work = runs[r].work
          /\ \A r \in Runs : runs'[r].state = IF r = cur THEN x ELSE runs[r].state
          /\ \A w \in Works :
               works'[w].state = IF w = runs[cur].work THEN x ELSE works[w].state
    <2>0. {"completed", "cancelled", "failed_terminal"} = TerminalStates
      BY DEF TerminalStates
    <2>1. CASE FinalizeRun
      <3>1. PICK x \in TerminalStates : SettleRun(x)
        BY <2>0, <2>1 DEF FinalizeRun, FinalStates
      <3>2. /\ runs' = [runs EXCEPT ![cur].state = x]
            /\ works' = [works EXCEPT ![runs[cur].work].state = x]
        BY <3>1 DEF SettleRun
      <3> QED BY <1>0, <1>1, <3>2 DEF RunRecords, WorkRecords
    <2>2. CASE CancelRun
      <3>1. /\ runs' = [runs EXCEPT ![cur].state = "cancelled",
                                    ![cur].attempt = StopAttempt(cur)]
            /\ works' = [works EXCEPT ![runs[cur].work].state = "cancelled"]
        BY <2>2 DEF CancelRun
      <3>2. /\ \A r \in Runs : runs'[r].work = runs[r].work
            /\ \A r \in Runs :
                 runs'[r].state = IF r = cur THEN "cancelled" ELSE runs[r].state
        BY <1>0, <1>1, <3>1 DEF RunRecords
      <3>3. \A w \in Works :
              works'[w].state = IF w = runs[cur].work THEN "cancelled"
                                ELSE works[w].state
        BY <1>0, <1>1, <3>1 DEF WorkRecords
      <3> QED BY <2>0, <3>2, <3>3
    <2>3. CASE Terminalize
      <3>1. PICK a :
              /\ runs' = [runs EXCEPT ![cur].state = "failed_terminal",
                                      ![cur].attached = KeptEvents(cur),
                                      ![cur].attempt = a]
              /\ works' = [works EXCEPT ![runs[cur].work].state = "failed_terminal",
                                        ![runs[cur].work].failures = FailureLimit,
                                        ![runs[cur].work].due = TRUE]
        <4> DEFINE a == IF runs[cur].attempt = "prepared" THEN "known"
                        ELSE StopAttempt(cur)
        <4>1. runs' = [runs EXCEPT ![cur].state = "failed_terminal",
                                   ![cur].attached = KeptEvents(cur),
                                   ![cur].attempt = a]
          BY <2>3 DEF Terminalize
        <4>2. works' = [works EXCEPT ![runs[cur].work].state = "failed_terminal",
                                     ![runs[cur].work].failures = FailureLimit,
                                     ![runs[cur].work].due = TRUE]
          BY <2>3 DEF Terminalize
        <4> HIDE DEF a
        <4> QED BY <4>1, <4>2
      <3> DEFINE row == [runs[cur] EXCEPT !.state = "failed_terminal",
                            !.attached = KeptEvents(cur), !.attempt = a]
                 item == [works[runs[cur].work] EXCEPT !.state = "failed_terminal",
                            !.failures = FailureLimit, !.due = TRUE]
      <3>2. row.state = "failed_terminal" /\ row.work = runs[cur].work
        <4>1. runs[cur] \in RunRecords
          BY <1>0, <1>1
        <4> QED BY <4>1 DEF RunRecords
      <3>3. item.state = "failed_terminal"
        <4>1. works[runs[cur].work] \in WorkRecords
          BY <1>0, <1>1
        <4> QED BY <4>1 DEF WorkRecords
      <3>4. runs' = [runs EXCEPT ![cur] = row]
        BY <1>0, <3>1
      <3>5. works' = [works EXCEPT ![runs[cur].work] = item]
        BY <1>0, <3>1
      <3> HIDE DEF row, item
      <3>6. /\ \A r \in Runs : runs'[r].work = runs[r].work
            /\ \A r \in Runs :
                 runs'[r].state = IF r = cur THEN "failed_terminal" ELSE runs[r].state
        BY <1>0, <3>2, <3>4
      <3>7. \A w \in Works :
              works'[w].state = IF w = runs[cur].work THEN "failed_terminal"
                                ELSE works[w].state
        BY <1>0, <3>3, <3>5
      <3> QED BY <2>0, <3>6, <3>7
    <2> QED BY <2>1, <2>2, <2>3
  <1>3. RunAndWorkAgree' /\ NoRowNoWork'
    BY <1>1, <1>2, SettleAgree
  <1>4. RunnerOwnsRun' /\ QuantumHoldsLease'
    BY DEF FinalizeRun, CancelRun, Terminalize, Goto, Progress, RunnerOwnsRun,
       QuantumHoldsLease, ExecutingStates
  <1> QED BY <1>0, <1>3, <1>4 DEF RunTableInv

\* A decision the work item waits for, in the quantum or after a restart.
LEMMA WaitRunTable == RunTableInv /\ (BlockUnknownAttempt \/ Restart) => RunTableInv'
  <1> SUFFICES ASSUME RunTableInv, BlockUnknownAttempt \/ Restart PROVE RunTableInv'
    OBVIOUS
  <1>0. /\ TypeOK /\ TypeOK'
        /\ runs \in [Runs -> RunRecords] /\ works \in [Works -> WorkRecords]
    BY SettleTypeOK, EndTypeOK DEF RunTableInv, TypeOK
  <1>1. CASE BlockUnknownAttempt
    <2>1. cur \in Runs /\ runs[cur].state = "active"
      BY <1>1 DEF BlockUnknownAttempt, RunTableInv, RunnerOwnsRun, ExecutingStates
    <2>2. SameRuns
      BY <1>0, <1>1 DEF BlockUnknownAttempt, SetAttempt, SameRuns, RunRecords
    <2>3. \A w \in Works :
            works'[w].state = IF w = runs[cur].work THEN "waiting_for_decision"
                              ELSE works[w].state
      BY <1>0, <1>1 DEF BlockUnknownAttempt, WorkRecords
    <2>4. HasBlocked'
      <3>1. runs[cur].work \in Works
        BY <2>1, RunRow
      <3>2. /\ cur' = cur /\ pc' = "blocked"
            /\ runs' = [runs EXCEPT ![cur].attempt = "waiting_for_decision"]
        BY <1>1 DEF BlockUnknownAttempt, Goto, SetAttempt
      <3>3. /\ runs'[cur].attempt = "waiting_for_decision"
            /\ runs'[cur].work = runs[cur].work
        BY <1>0, <2>1, <3>2 DEF RunRecords
      <3> QED BY <2>3, <3>1, <3>2, <3>3 DEF HasBlocked
    <2>5. QuantumHoldsLease'
      BY <1>1 DEF BlockUnknownAttempt, Goto, QuantumHoldsLease
    <2>6. RunnerOwnsRun'
      <3>1. /\ runs[cur].generation = lease.generation /\ lease.status = "held"
            /\ cur' = cur /\ lease' = lease
        BY <1>1 DEF BlockUnknownAttempt, Goto, RunTableInv, RunnerOwnsRun,
           ExecutingStates
      <3>2. runs'[cur].generation = runs[cur].generation
        BY <1>0, <1>1, <2>1 DEF BlockUnknownAttempt, SetAttempt, RunRecords
      <3> QED BY <2>1, <2>2, <2>4, <3>1, <3>2 DEF RunnerOwnsRun, SameRuns
    <2> QED BY <1>0, <2>1, <2>2, <2>3, <2>5, <2>6, WaitAgree DEF RunTableInv
  <1>2. CASE Restart
    <2>1. SameRuns
      BY <1>0, <1>2 DEF Restart, SameRuns, RunRecords
    <2>2. \A w \in Works :
            \/ works'[w].state = works[w].state
            \/ /\ works'[w].state = "waiting_for_decision"
               /\ \E c \in Runs : runs[c].state = "active" /\ runs[c].work = w
      BY <1>0, <1>2 DEF Restart, Orphans, WorkRecords
    <2>3. RunnerOwnsRun' /\ QuantumHoldsLease'
      BY <1>2 DEF Restart, RunnerOwnsRun, QuantumHoldsLease, ExecutingStates
    <2> QED BY <1>0, <2>1, <2>2, <2>3, WaitAgree DEF RunTableInv
  <1> QED BY <1>1, <1>2

\* Errors, recorded progress, the clock and the end of a quantum.
LEMMA OtherRunTable ==
  RunTableInv /\ \/ WorkError \/ ExecutionTimeout \/ Retry \/ RecordProgress
                 \/ FenceRejected \/ FailureRejected \/ AuthorityLost \/ ReleaseLease
                 \/ (\E w \in Works : BackoffElapses(w))
                 \/ LeaseExpires \/ Crash \/ Shutdown \/ ExitAfterFailure
  => RunTableInv'
  <1>0. RunTableInv => /\ runs \in [Runs -> RunRecords]
                       /\ works \in [Works -> WorkRecords]
    BY DEF RunTableInv, TypeOK
  <1>1. ASSUME RunTableInv, WorkError \/ ExecutionTimeout
        PROVE  RunTableInv'
    <2>1. SameRuns /\ KeepsRows /\ UNCHANGED <<runs, lease, cur>>
      BY <1>1 DEF WorkError, ExecutionTimeout, FoundCancel, Goto, durableVars,
         SameRuns, KeepsRows
    <2>2. (pc' \in ExecutingStates => pc \in ExecutingStates) /\ pc' # "attach"
      BY <1>1 DEF WorkError, ExecutionTimeout, FoundCancel, Goto, ExecutingStates
    <2>3. TypeOK'
      BY <1>1, FailureTypeOK DEF RunTableInv
    <2>4. pc' \in {"cancel", "fail"}
      BY <1>1 DEF WorkError, ExecutionTimeout, FoundCancel, Goto
    <2> QED
      BY <1>1, <2>1, <2>2, <2>3, <2>4, KeepAgree, KeepOwn
      DEF RunTableInv, QuantumHoldsLease
  <1>2. ASSUME RunTableInv, Retry \/ RecordProgress PROVE RunTableInv'
    <2>1. /\ UNCHANGED runs /\ pc' = "release"
          /\ \A w \in Works : works'[w].state = works[w].state
      BY <1>0, <1>2 DEF Retry, RecordProgress, Goto, WorkRecords
    <2>2. RunAndWorkAgree' /\ NoRowNoWork'
      BY <1>2, <2>1, WaitAgree DEF SameRuns
    <2>3. RunnerOwnsRun' /\ QuantumHoldsLease'
      BY <2>1 DEF RunnerOwnsRun, QuantumHoldsLease, ExecutingStates
    <2>4. TypeOK'
      BY <1>2, FailureTypeOK DEF RunTableInv
    <2> QED BY <2>2, <2>3, <2>4 DEF RunTableInv
  <1>3. ASSUME RunTableInv,
          \/ FenceRejected \/ FailureRejected \/ AuthorityLost \/ ReleaseLease
          \/ Crash \/ Shutdown \/ ExitAfterFailure
        PROVE  RunTableInv'
    <2>1. UNCHANGED <<works, runs>> /\ pc' \in {"idle", "stopped", "down"}
      BY <1>3 DEF FenceRejected, FailureRejected, AuthorityLost, ReleaseLease,
         Crash, Shutdown, ExitAfterFailure, AuthorityUnavailable, StopProcess,
         EndQuantum, ingressVars
    <2>2. RunAndWorkAgree' /\ NoRowNoWork'
      BY <1>3, <2>1, KeepAgree DEF SameRuns, KeepsRows
    <2>3. RunnerOwnsRun' /\ QuantumHoldsLease'
      BY <2>1 DEF RunnerOwnsRun, QuantumHoldsLease, ExecutingStates
    <2>4. TypeOK'
      BY <1>3, EndTypeOK DEF RunTableInv
    <2> QED BY <2>2, <2>3, <2>4 DEF RunTableInv
  <1>4. ASSUME RunTableInv, NEW w \in Works, BackoffElapses(w) PROVE RunTableInv'
    <2>1. UNCHANGED <<runs, lease, pc, cur>>
      BY <1>4 DEF BackoffElapses, runnerVars
    <2>2. KeepsRows
      BY <1>0, <1>4 DEF BackoffElapses, KeepsRows, WorkRecords
    <2>3. TypeOK'
      BY <1>4, EndTypeOK DEF RunTableInv
    <2> QED
      BY <1>4, <2>1, <2>2, <2>3, KeepAgree, KeepOwn
      DEF RunTableInv, QuantumHoldsLease, SameRuns, HasBlocked
  <1>5. ASSUME RunTableInv, LeaseExpires PROVE RunTableInv'
    <2>1. /\ UNCHANGED <<runs, works, pc, cur>> /\ lease.status # "held"
      BY <1>5 DEF LeaseExpires, ingressVars, runnerVars
    <2>2. pc \notin ExecutingStates /\ pc # "attach"
      BY <1>5, <2>1 DEF RunTableInv, RunnerOwnsRun, QuantumHoldsLease
    <2>3. RunAndWorkAgree' /\ NoRowNoWork'
      BY <1>5, <2>1, KeepAgree DEF SameRuns, KeepsRows
    <2>4. TypeOK'
      BY <1>5, EndTypeOK DEF RunTableInv
    <2> QED
      BY <2>1, <2>2, <2>3, <2>4 DEF RunTableInv, RunnerOwnsRun, QuantumHoldsLease
  <1> QED BY <1>1, <1>2, <1>3, <1>4, <1>5

\* The strengthened invariant is inductive.
LEMMA RunTableInductive == RunTableInv /\ [Next]_vars => RunTableInv'
  <1> SUFFICES ASSUME RunTableInv, [Next]_vars PROVE RunTableInv' OBVIOUS
  <1>1. CASE Next
    BY <1>1, IngressRunTable, AttachRunTable, RunStepRunTable, SettleRunTable,
       WaitRunTable, OtherRunTable
    DEF Next, QuantumStep, QuantumRunStep
  <1>2. CASE UNCHANGED vars
    BY <1>2 DEF vars, RunTableInv, TypeOK, RunAndWorkAgree, RunnerOwnsRun,
       NoRowNoWork, QuantumHoldsLease, Due, HasBlocked
  <1> QED BY <1>1, <1>2

\* A run and its work item end together and in the same state, and no work
\* item ever has a second run.
THEOREM RunAndWorkAlwaysAgree == Spec => []RunAndWorkAgree
  <1>1. RunTableInv => RunAndWorkAgree
    BY DEF RunTableInv
  <1> QED BY <1>1, InitRunTable, RunTableInductive, PTL DEF Spec

\* From attachment to the end of the quantum the run stays active under the
\* lease's generation and its work item ready and due, unless the quantum itself
\* made it wait for a decision, so that no write of the runner is fenced off by
\* what other tasks ingest.
THEOREM RunnerAlwaysOwnsRun == Spec => []RunnerOwnsRun
  <1>1. RunTableInv => RunnerOwnsRun
    BY DEF RunTableInv
  <1> QED BY <1>1, InitRunTable, RunTableInductive, PTL DEF Spec

-----------------------------------------------------------------------------
(* The inductive invariant of the tables around events.                    *)

\* run_events as a relation between the tables: an attached event belongs to
\* its run's work item and to no other run, is processing while the run is
\* active and settled once it has ended, and nothing else is processing.
Attachments(evs, rs) ==
    /\ \A r \in Runs : rs[r].incorporated \subseteq rs[r].attached
    /\ \A r \in Runs : rs[r].state = "absent" => rs[r].attached = {}
    /\ \A r1, r2 \in Runs : rs[r1].attached \cap rs[r2].attached # {} => r1 = r2
    /\ \A r \in Runs : \A s \in rs[r].attached :
         /\ evs[s].work = rs[r].work
         /\ rs[r].state = "active" => evs[s].state = "processing"
         /\ rs[r].state \in TerminalStates => evs[s].state \in TerminalStates
    /\ \A s \in Seqs : evs[s].state = "processing" =>
         \E r \in Runs : rs[r].state = "active" /\ s \in rs[r].attached

\* A message is never attached while an older one of its work item waits.
InOrder(evs) ==
    \A s, t \in Seqs :
      /\ s < t
      /\ evs[s].state = "pending" /\ evs[s].kind = "user_message"
      /\ evs[s].work # None /\ evs[s].work = evs[t].work
      => evs[t].state # "processing"

\* Where an event's work item is: every event past "pending" has one, a named
\* one exists, and the one of a settled message has ended.
EventRows(evs, wks) ==
    \A s \in Seqs :
      /\ evs[s].state \notin {"absent", "pending"} => evs[s].work # None
      /\ evs[s].work # None => wks[evs[s].work].state # "absent"
      /\ evs[s].kind = "user_message" /\ evs[s].state \in TerminalStates =>
           wks[evs[s].work].state \in TerminalStates

\* A request belongs to a message, follows it to its work item and is settled
\* with it.
RequestRows(reqs, evs) ==
    \A s \in Seqs : reqs[s].state # "absent" =>
      /\ evs[s].state # "absent" /\ evs[s].kind = "user_message"
      /\ reqs[s].work = evs[s].work
      /\ reqs[s].state \in TerminalStates => evs[s].state = reqs[s].state

\* Sequences above next_mailbox_sequence have no row.
NoRowAhead == \A s \in Seqs : s > nextSeq => events[s].state = "absent"

\* Once the quantum has incorporated, it has incorporated every attached event.
IncorporatedStates ==
    {"recover", "step", "model", "finalize", "start", "tool", "observe"}
AllIncorporated ==
    pc \in IncorporatedStates => runs[cur].attached = runs[cur].incorporated

\* The cancellation the quantum found is still to be processed.
CancelInHand ==
    pc = "cancel" =>
      /\ ctl \in Seqs
      /\ events[ctl].state = "pending" /\ events[ctl].kind = "cancel_requested"
      /\ events[ctl].work # None

MailboxInv ==
    /\ RunTableInv
    /\ Attachments(events, runs)
    /\ InOrder(events)
    /\ EventRows(events, works)
    /\ RequestRows(requests, events)
    /\ NoRowAhead
    /\ AllIncorporated
    /\ CancelInHand
    /\ AcquiredActorHasWork

-----------------------------------------------------------------------------
(* Frames: what a step that leaves most of the tables alone keeps.         *)

\* The types of the tables, by row.
LEMMA MailboxTypes ==
  ASSUME MailboxInv
  PROVE  /\ TypeOK
         /\ events \in [Seqs -> EventRecords]
         /\ requests \in [Seqs -> RequestRecords]
         /\ works \in [Works -> WorkRecords]
         /\ runs \in [Runs -> RunRecords]
         /\ \A s \in Seqs : /\ events[s].state \in EventStates
                            /\ events[s].work \in Works \cup {None}
                            /\ events[s].kind \in {"user_message", "cancel_requested"}
                            /\ requests[s].state \in RequestStates
                            /\ requests[s].work \in Works \cup {None}
         /\ \A r \in Runs : /\ runs[r].state \in RunStates
                            /\ runs[r].attached \in SUBSET Seqs
                            /\ runs[r].incorporated \in SUBSET Seqs
                            /\ runs[r].work \in Works \cup {None}
         /\ \A w \in Works : works[w].state \in WorkStates
  BY DEF MailboxInv, RunTableInv, TypeOK, EventRecords, RequestRecords,
         RunRecords, WorkRecords

\* Which states are not terminal.
LEMMA NotTerminal ==
  /\ "absent" \notin TerminalStates /\ "pending" \notin TerminalStates
  /\ "processing" \notin TerminalStates /\ "active" \notin TerminalStates
  /\ "ready" \notin TerminalStates /\ "waiting_for_decision" \notin TerminalStates
  BY DEF TerminalStates

SameAttachments ==
    \A r \in Runs :
      /\ runs'[r].state = runs[r].state /\ runs'[r].work = runs[r].work
      /\ runs'[r].attached = runs[r].attached
      /\ runs'[r].incorporated = runs[r].incorporated

\* Work items that exist go on existing, and settled ones stay settled.
KeepsSettled ==
    \A w \in Works :
      /\ works[w].state # "absent" => works'[w].state # "absent"
      /\ works[w].state \in TerminalStates => works'[w].state \in TerminalStates

\* A work item that only changes its due time, its failure count, or from
\* ready to waiting is not settled by that.
LEMMA KeepSettled ==
  ASSUME MailboxInv,
         \A w \in Works : \/ works'[w].state = works[w].state
                          \/ /\ works[w].state \notin TerminalStates
                             /\ works'[w].state # "absent"
  PROVE  KeepsSettled
  BY NotTerminal DEF KeepsSettled

\* An event's work item after a step that leaves the events alone.
LEMMA KeepEventRows ==
  ASSUME MailboxInv, events' = events, KeepsSettled
  PROVE  EventRows(events', works')
  <1>1. EventRows(events, works)
    BY DEF MailboxInv
  <1> SUFFICES ASSUME NEW s \in Seqs
               PROVE  /\ events[s].state \notin {"absent", "pending"} =>
                           events[s].work # None
                      /\ events[s].work # None => works'[events[s].work].state # "absent"
                      /\ events[s].kind = "user_message"
                           /\ events[s].state \in TerminalStates =>
                           works'[events[s].work].state \in TerminalStates
    BY DEF EventRows
  <1>2. events[s].work \in Works \cup {None}
    BY MailboxTypes
  <1>3. /\ events[s].state \notin {"absent", "pending"} => events[s].work # None
        /\ events[s].work # None => works[events[s].work].state # "absent"
        /\ events[s].kind = "user_message" /\ events[s].state \in TerminalStates =>
             works[events[s].work].state \in TerminalStates
    BY <1>1 DEF EventRows
  <1> QED BY <1>2, <1>3, NotTerminal DEF KeepsSettled

\* The tables are in step after a step that leaves events, requests and
\* attachments alone and settles no work item twice.
LEMMA KeepTables ==
  ASSUME MailboxInv, events' = events, requests' = requests, nextSeq' = nextSeq,
         SameAttachments, KeepsSettled
  PROVE  /\ Attachments(events', runs') /\ InOrder(events')
         /\ EventRows(events', works') /\ RequestRows(requests', events')
         /\ NoRowAhead'
  <1>1. Attachments(events', runs')
    <2>1. Attachments(events, runs)
      BY DEF MailboxInv
    <2> QED BY <2>1 DEF SameAttachments, Attachments
  <1> QED BY <1>1, KeepEventRows DEF MailboxInv, NoRowAhead

-----------------------------------------------------------------------------
(* Steps that leave the mailbox alone.                                     *)

\* The empty database is in step.
LEMMA InitMailbox == Init => MailboxInv
  <1> SUFFICES ASSUME Init PROVE MailboxInv OBVIOUS
  <1>1. RunTableInv
    BY InitRunTable
  <1>2. Attachments(events, runs)
    BY DEF Init, Attachments
  <1>3. InOrder(events) /\ EventRows(events, works) /\ RequestRows(requests, events)
    BY NotTerminal DEF Init, InOrder, EventRows, RequestRows
  <1>4. NoRowAhead /\ AllIncorporated /\ CancelInHand /\ AcquiredActorHasWork
    BY DEF Init, NoRowAhead, AllIncorporated, IncorporatedStates, CancelInHand,
       AcquiredActorHasWork
  <1> QED BY <1>1, <1>2, <1>3, <1>4 DEF MailboxInv

\* A control event the quantum found is a pending cancellation.
LEMMA FoundCancelInHand ==
  ASSUME MailboxInv, NEW s \in NewerControl, events[s].kind = "cancel_requested"
  PROVE  s \in Seqs /\ events[s].state = "pending" /\ events[s].work # None
  <1>1. PICK r \in Runs : runs[r].state = "active" /\ runs[r].work = events[s].work
    BY DEF NewerControl, FirstByKind, Controls
  <1>2. runs[r].work # None
    BY <1>1 DEF MailboxInv, RunTableInv, RunAndWorkAgree
  <1> QED BY <1>1, <1>2 DEF NewerControl, FirstByKind, Controls

\* The quantum's own steps between attachment and settlement.
LEMMA RunStepMailbox == MailboxInv /\ QuantumRunStep => MailboxInv'
  <1> SUFFICES ASSUME MailboxInv, QuantumRunStep PROVE MailboxInv' OBVIOUS
  <1>0. /\ RunTableInv' /\ runs \in [Runs -> RunRecords]
        /\ UNCHANGED <<events, requests, nextSeq, works>>
    <2>1. UNCHANGED <<events, requests, nextSeq, works>>
      BY DEF QuantumRunStep, Incorporate, IncorporateEvents,
         NoUnresolvedAttempt, WaitForDecision, RecoverPrepared, RecoverRunning,
         CheckpointObservation, FindControl, FoundCancel, BeginModelStep,
         YieldAfterLastStep, ModelAnswers, ModelCallsTool, StartTool,
         FinishTool, Preempted, NoProgress, Goto, Progress, SetAttempt,
         durableVars, ingressVars
    <2> QED BY <2>1, RunStepRunTable, MailboxTypes DEF MailboxInv
  <1>1. KeepsSettled
    BY <1>0 DEF KeepsSettled
  <1>2. CancelInHand'
    <2>1. pc' = "cancel" =>
            /\ ctl' \in Seqs
            /\ events[ctl'].state = "pending" /\ events[ctl'].kind = "cancel_requested"
            /\ events[ctl'].work # None
      BY FoundCancelInHand
      DEF QuantumRunStep, Incorporate, IncorporateEvents, NoUnresolvedAttempt,
         WaitForDecision, RecoverPrepared, RecoverRunning,
         CheckpointObservation, FindControl, FoundCancel, BeginModelStep,
         YieldAfterLastStep, ModelAnswers, ModelCallsTool, StartTool,
         FinishTool, Preempted, NoProgress, Goto, Progress
    <2> QED BY <1>0, <2>1 DEF CancelInHand
  <1>3. AcquiredActorHasWork'
    BY DEF AcquiredActorHasWork, QuantumRunStep, Incorporate, IncorporateEvents,
       NoUnresolvedAttempt, WaitForDecision, RecoverPrepared, RecoverRunning,
       CheckpointObservation, FindControl, FoundCancel, BeginModelStep,
       YieldAfterLastStep, ModelAnswers, ModelCallsTool, StartTool, FinishTool,
       Preempted, NoProgress, Goto, Progress
  <1>4. CASE Incorporate
    <2>1. PICK next : IncorporateEvents(next)
      BY <1>4 DEF Incorporate
    <2>2. cur \in Runs /\ cur' = cur
      BY <1>4 DEF Incorporate, IncorporateEvents, Goto, MailboxInv, RunTableInv,
         RunnerOwnsRun, ExecutingStates
    <2>3. runs' = [runs EXCEPT ![cur].incorporated = runs[cur].attached]
      BY <2>1 DEF IncorporateEvents
    <2>4. /\ \A r \in Runs : /\ runs'[r].state = runs[r].state
                             /\ runs'[r].work = runs[r].work
                             /\ runs'[r].attached = runs[r].attached
                             /\ r # cur => runs'[r].incorporated = runs[r].incorporated
          /\ runs'[cur].incorporated = runs[cur].attached
      BY <1>0, <2>2, <2>3 DEF RunRecords
    <2>5. Attachments(events', runs')
      <3>1. Attachments(events, runs)
        BY DEF MailboxInv
      <3> QED BY <1>0, <2>2, <2>4, <3>1 DEF Attachments
    <2>6. AllIncorporated'
      BY <2>2, <2>4 DEF AllIncorporated
    <2> QED
      BY <1>0, <1>1, <1>2, <1>3, <2>5, <2>6, KeepEventRows
      DEF MailboxInv, NoRowAhead
  <1>5. CASE ~Incorporate
    <2>1. SameAttachments
      <3>1. \A x : SetAttempt(x) => SameAttachments
        BY <1>0 DEF SetAttempt, SameAttachments, RunRecords
      <3>2. UNCHANGED runs => SameAttachments
        BY DEF SameAttachments
      <3> QED
        BY <1>5, <3>1, <3>2
        DEF QuantumRunStep, NoUnresolvedAttempt, WaitForDecision,
            RecoverPrepared, RecoverRunning, CheckpointObservation, FindControl,
            BeginModelStep, YieldAfterLastStep, ModelAnswers, ModelCallsTool,
            StartTool, FinishTool, Preempted, NoProgress, durableVars
    <2>2. AllIncorporated'
      <3>1. cur' = cur /\ (pc' \in IncorporatedStates => pc \in IncorporatedStates)
        BY <1>5 DEF QuantumRunStep, NoUnresolvedAttempt, WaitForDecision,
           RecoverPrepared, RecoverRunning, CheckpointObservation, FindControl,
           FoundCancel, BeginModelStep, YieldAfterLastStep, ModelAnswers,
           ModelCallsTool, StartTool, FinishTool, Preempted, NoProgress, Goto,
           Progress, IncorporatedStates
      <3>2. pc \in IncorporatedStates => cur \in Runs
        BY DEF MailboxInv, RunTableInv, RunnerOwnsRun, ExecutingStates,
           IncorporatedStates
      <3> QED
        BY <2>1, <3>1, <3>2 DEF MailboxInv, AllIncorporated, SameAttachments
    <2> QED
      BY <1>0, <1>1, <1>2, <1>3, <2>1, <2>2, KeepTables DEF MailboxInv
  <1> QED BY <1>4, <1>5

\* An actor stays ready when nothing but due times that elapse changes.
LEMMA StillReady ==
  ASSUME MailboxInv, ActorReady, UNCHANGED <<events, runs>>,
         \A w \in Works :
           /\ works'[w].state = works[w].state
           /\ works'[w].cancelRequested = works[w].cancelRequested
           /\ works[w].due => works'[w].due
  PROVE  ActorReady'
  <1>1. Unassigned' = Unassigned
    BY DEF Unassigned
  <1>2. DueRuns \subseteq DueRuns'
    <2> SUFFICES ASSUME NEW r \in DueRuns PROVE r \in DueRuns'
      OBVIOUS
    <2>1. r \in Runs /\ runs[r].state = "active" /\ Due(runs[r].work)
      BY DEF DueRuns
    <2>2. runs[r].work \in Works
      BY <2>1, RunRow DEF MailboxInv
    <2> QED BY <2>1, <2>2 DEF DueRuns, Due
  <1>3. Startable(events, works) \subseteq Startable(events', works')
    <2> SUFFICES ASSUME NEW s \in Startable(events, works)
                 PROVE  s \in Startable(events, works')
      OBVIOUS
    <2>1. s \in Seqs /\ events[s].work # None
      BY DEF Startable
    <2>2. events[s].work \in Works
      BY <2>1, MailboxTypes
    <2> QED BY <2>1, <2>2 DEF Startable
  <1> QED BY <1>1, <1>2, <1>3 DEF ActorReady

\* Errors, retries, recorded progress, waiting for a decision, the end of a
\* quantum, the clock, crashes and restarts, and taking the lease: none of
\* them touches an event, a request or an attachment.
OtherStep ==
    \/ WorkError \/ ExecutionTimeout \/ Retry \/ RecordProgress
    \/ FenceRejected \/ FailureRejected \/ AuthorityLost \/ ReleaseLease
    \/ (\E w \in Works : BackoffElapses(w))
    \/ LeaseExpires \/ Crash \/ Shutdown \/ ExitAfterFailure
    \/ BlockUnknownAttempt \/ Restart \/ AcquireReadyActor

LEMMA OtherMailbox == MailboxInv /\ OtherStep => MailboxInv'
  <1> SUFFICES ASSUME MailboxInv, OtherStep PROVE MailboxInv' OBVIOUS
  <1>0. RunTableInv'
    BY OtherRunTable, WaitRunTable, AttachRunTable DEF MailboxInv, OtherStep
  <1>1. UNCHANGED <<events, requests, nextSeq>>
    BY DEF OtherStep, WorkError, ExecutionTimeout, Retry, RecordProgress,
       FenceRejected, FailureRejected, AuthorityLost, ReleaseLease,
       BackoffElapses, LeaseExpires, Crash, Shutdown, ExitAfterFailure,
       BlockUnknownAttempt, Restart, AcquireReadyActor, AuthorityUnavailable,
       StopProcess, EndQuantum, durableVars, ingressVars
  <1>2. works \in [Works -> WorkRecords] /\ runs \in [Runs -> RunRecords]
    BY MailboxTypes
  <1>3. SameAttachments
    <2>1. UNCHANGED runs \/ BlockUnknownAttempt \/ Restart
      BY DEF OtherStep, WorkError, ExecutionTimeout, Retry, RecordProgress,
         FenceRejected, FailureRejected, AuthorityLost, ReleaseLease,
         BackoffElapses, LeaseExpires, Crash, Shutdown, ExitAfterFailure,
         AcquireReadyActor, AuthorityUnavailable, StopProcess, EndQuantum,
         durableVars
    <2>2. UNCHANGED runs => SameAttachments
      BY DEF SameAttachments
    <2>3. BlockUnknownAttempt => SameAttachments
      BY <1>2 DEF BlockUnknownAttempt, SetAttempt, SameAttachments, RunRecords
    <2>4. Restart => SameAttachments
      BY <1>2 DEF Restart, SameAttachments, RunRecords
    <2> QED BY <2>1, <2>2, <2>3, <2>4
  <1>4. KeepsSettled
    <2>1. SUFFICES \A w \in Works :
            \/ works'[w].state = works[w].state
            \/ works[w].state \notin TerminalStates /\ works'[w].state # "absent"
      BY KeepSettled
    <2>2. UNCHANGED works \/ Retry \/ RecordProgress \/ BlockUnknownAttempt
            \/ Restart \/ \E w \in Works : BackoffElapses(w)
      BY DEF OtherStep, WorkError, ExecutionTimeout, FenceRejected,
         FailureRejected, AuthorityLost, ReleaseLease, LeaseExpires, Crash,
         Shutdown, ExitAfterFailure, AcquireReadyActor, AuthorityUnavailable,
         StopProcess, EndQuantum, durableVars, ingressVars
    <2>3. CASE Retry \/ RecordProgress \/ \E w \in Works : BackoffElapses(w)
      BY <1>2, <2>3 DEF Retry, RecordProgress, BackoffElapses, WorkRecords
    <2>4. CASE BlockUnknownAttempt
      <3>1. works[runs[cur].work].state = "ready"
        BY <2>4 DEF BlockUnknownAttempt, MailboxInv, RunTableInv, RunnerOwnsRun,
           ExecutingStates, Due, HasBlocked
      <3>2. \A w \in Works :
              works'[w].state = IF w = runs[cur].work THEN "waiting_for_decision"
                                ELSE works[w].state
        BY <1>2, <2>4 DEF BlockUnknownAttempt, WorkRecords
      <3> QED BY <3>1, <3>2, NotTerminal
    <2>5. CASE Restart
      BY <1>2, <2>5, NotTerminal DEF Restart, Orphans, WorkRecords
    <2> QED BY <2>2, <2>3, <2>4, <2>5
  <1>5. AllIncorporated'
    <2>1. \/ pc' \notin IncorporatedStates
          \/ UNCHANGED <<pc, cur, runs>>
      BY DEF OtherStep, WorkError, ExecutionTimeout, FoundCancel, Retry,
         RecordProgress, FenceRejected, FailureRejected, AuthorityLost,
         ReleaseLease, Crash, Shutdown, ExitAfterFailure, BlockUnknownAttempt,
         Restart, AcquireReadyActor, AuthorityUnavailable, StopProcess,
         EndQuantum, Goto, IncorporatedStates, BackoffElapses, LeaseExpires,
         runnerVars
    <2> QED BY <2>1 DEF MailboxInv, AllIncorporated
  <1>6. CancelInHand'
    <2>1. \/ pc' # "cancel"
          \/ UNCHANGED <<pc, ctl>>
          \/ \E s \in NewerCancel : ctl' = s
      BY DEF OtherStep, WorkError, ExecutionTimeout, FoundCancel, Retry,
         RecordProgress, FenceRejected, FailureRejected, AuthorityLost,
         ReleaseLease, Crash, Shutdown, ExitAfterFailure, BlockUnknownAttempt,
         Restart, AcquireReadyActor, AuthorityUnavailable, StopProcess,
         EndQuantum, Goto, BackoffElapses, LeaseExpires, runnerVars
    <2> QED
      BY <1>1, <2>1, FoundCancelInHand DEF MailboxInv, CancelInHand, NewerCancel
  <1>7. AcquiredActorHasWork'
    <2>1. \/ pc' # "attach" \/ AcquireReadyActor
          \/ LeaseExpires \/ \E w \in Works : BackoffElapses(w)
      BY DEF OtherStep, WorkError, ExecutionTimeout, FoundCancel, Retry,
         RecordProgress, FenceRejected, FailureRejected, AuthorityLost,
         ReleaseLease, Crash, Shutdown, ExitAfterFailure, BlockUnknownAttempt,
         Restart, AuthorityUnavailable, StopProcess, EndQuantum, Goto
    <2>2. CASE AcquireReadyActor
      <3>1. ActorReady /\ UNCHANGED <<runs, events, works>>
        BY <2>2 DEF AcquireReadyActor, ingressVars
      <3> QED BY <3>1, StillReady DEF AcquiredActorHasWork
    <2>3. CASE LeaseExpires
      <3>1. UNCHANGED <<runs, events, works, pc>>
        BY <2>3 DEF LeaseExpires, ingressVars, runnerVars
      <3> QED BY <3>1, StillReady DEF AcquiredActorHasWork, MailboxInv
    <2>4. ASSUME NEW w \in Works, BackoffElapses(w) PROVE AcquiredActorHasWork'
      <3>1. UNCHANGED <<runs, events, pc>>
        BY <2>4 DEF BackoffElapses, runnerVars
      <3>2. \A v \in Works :
              /\ works'[v].state = works[v].state
              /\ works'[v].cancelRequested = works[v].cancelRequested
              /\ works[v].due => works'[v].due
        BY <1>2, <2>4 DEF BackoffElapses, WorkRecords
      <3> QED BY <3>1, <3>2, StillReady DEF AcquiredActorHasWork, MailboxInv
    <2> QED BY <2>1, <2>2, <2>3, <2>4 DEF AcquiredActorHasWork
  <1> QED
    BY <1>0, <1>1, <1>3, <1>4, <1>5, <1>6, <1>7, KeepTables DEF MailboxInv

-----------------------------------------------------------------------------
(* Attachment.                                                             *)

\* The mailbox of the instance is finite.
LEMMA SeqsFinite == IsFiniteSet(Seqs)
  <1>1. 1 \in Int /\ MaxSeq \in Int
    OBVIOUS
  <1> QED BY <1>1, FS_Interval DEF Seqs

\* A batch is an initial part of what may be attached: with an event every
\* older attachable one.
LEMMA BatchIsInitial ==
  ASSUME NEW evs, NEW wks, NEW rs, NEW r,
         Cardinality(rs[r].attached) \in Nat,
         NEW t \in Batch(evs, wks, rs, r),
         NEW s \in Attachable(evs, wks, rs[r].work), s < t
  PROVE  s \in Batch(evs, wks, rs, r)
  <1> DEFINE S == Attachable(evs, wks, rs[r].work)
             Below(x) == {y \in S : y < x}
  <1>1. S \subseteq Seqs /\ t \in S /\ Seqs \subseteq Int
    BY DEF Batch, Attachable, Seqs
  <1>2. IsFiniteSet(Seqs)
    BY SeqsFinite
  <1>3. IsFiniteSet(Below(t))
    <2>1. Below(t) \subseteq Seqs
      BY <1>1
    <2> QED BY <1>2, <2>1, FS_Subset
  <1>4. Below(s) \subseteq Below(t)
    <2> SUFFICES ASSUME NEW y \in S, y < s PROVE y < t
      OBVIOUS
    <2>1. s \in Int /\ t \in Int /\ y \in Int
      BY <1>1
    <2> QED BY <2>1
  <1>5. Cardinality(Below(s)) <= Cardinality(Below(t))
    BY <1>3, <1>4, FS_Subset
  <1>6. Cardinality(Below(s)) \in Nat /\ Cardinality(Below(t)) \in Nat
    BY <1>3, <1>4, FS_Subset, FS_CardinalityType
  <1>7. Cardinality(Below(t)) + Cardinality(rs[r].attached) < AttachLimit
    BY DEF Batch
  <1> QED BY <1>5, <1>6, <1>7 DEF Batch

\* An attachment to an active run keeps the tables in step and, because its
\* batch is an initial part of the waiting messages, in order.
LEMMA AttachTables ==
  ASSUME NEW evs \in [Seqs -> EventRecords], NEW wks, NEW reqs,
         NEW rs \in [Runs -> RunRecords], NEW r \in Runs,
         rs[r].state = "active", rs[r].work # None,
         Attachments(evs, rs), InOrder(evs), EventRows(evs, wks),
         RequestRows(reqs, evs), \A s \in Seqs : reqs[s].state \in RequestStates,
         AttachEvents(evs, wks, rs, r)
  PROVE  /\ Attachments(events', runs') /\ InOrder(events')
         /\ EventRows(events', wks) /\ RequestRows(reqs, events')
         /\ \A s \in Seqs : evs[s].state = "absent" => events'[s].state = "absent"
  <1> DEFINE batch == Batch(evs, wks, rs, r)
             all   == rs[r].attached \cup batch
  <1>1. /\ batch \subseteq Seqs
        /\ \A s \in batch : /\ evs[s].state = "pending" /\ evs[s].work = rs[r].work
                            /\ evs[s].kind = "user_message"
    BY DEF Batch, Attachable
  <1>2. \A s \in Seqs :
          /\ events'[s].kind = evs[s].kind /\ events'[s].work = evs[s].work
          /\ events'[s].state = IF s \in batch THEN "processing" ELSE evs[s].state
    <2>1. events' = [s \in Seqs |-> IF s \in batch THEN [evs[s] EXCEPT !.state = "processing"]
                                    ELSE evs[s]]
      BY DEF AttachEvents
    <2> HIDE DEF batch
    <2> QED BY <2>1 DEF EventRecords
  <1>3. /\ \A x \in Runs : /\ runs'[x].state = rs[x].state
                           /\ runs'[x].work = rs[x].work
                           /\ runs'[x].incorporated = rs[x].incorporated
                           /\ x # r => runs'[x].attached = rs[x].attached
        /\ runs'[r].attached = all
    <2>1. PICK o : runs' = [rs EXCEPT ![r].attached = all, ![r].observed = o,
                                      ![r].generation = lease.generation]
      BY DEF AttachEvents
    <2> HIDE DEF all
    <2> QED BY <2>1 DEF RunRecords
  <1>4. \A x \in Runs : /\ rs[x].attached \in SUBSET Seqs
                        /\ rs[x].state \in RunStates
    BY DEF RunRecords
  <1>5. \A x \in Runs : \A s \in batch : s \notin rs[x].attached
    <2> SUFFICES ASSUME NEW x \in Runs, NEW s \in batch, s \in rs[x].attached
                 PROVE  FALSE
      OBVIOUS
    <2>1. evs[s].state = "pending" /\ rs[x].state # "absent"
      BY <1>1 DEF Attachments
    <2>2. rs[x].state = "active" \/ rs[x].state \in TerminalStates
      BY <1>4, <2>1 DEF RunStates
    <2> QED BY <2>1, <2>2, NotTerminal DEF Attachments
  <1>6. Attachments(events', runs')
    <2> HIDE DEF batch
    <2>1. \A x \in Runs : runs'[x].incorporated \subseteq runs'[x].attached
      BY <1>3 DEF Attachments
    <2>2. \A x \in Runs : runs'[x].state = "absent" => runs'[x].attached = {}
      BY <1>3 DEF Attachments
    <2>3. ASSUME NEW x \in Runs, NEW y \in Runs, runs'[x].attached \cap runs'[y].attached # {}
          PROVE  x = y
      BY <1>3, <1>5, <2>3 DEF Attachments
    <2>4. ASSUME NEW x \in Runs, NEW s \in runs'[x].attached
          PROVE  /\ events'[s].work = runs'[x].work
                 /\ runs'[x].state = "active" => events'[s].state = "processing"
                 /\ runs'[x].state \in TerminalStates => events'[s].state \in TerminalStates
      <3>1. CASE s \in batch
        <4>1. x = r
          BY <1>3, <1>5, <3>1
        <4> QED BY <1>1, <1>2, <1>3, <3>1, <4>1, NotTerminal
      <3>2. CASE s \notin batch
        <4>1. s \in rs[x].attached /\ s \in Seqs
          BY <1>3, <1>4, <3>2
        <4> QED BY <1>2, <1>3, <3>2, <4>1 DEF Attachments
      <3> QED BY <3>1, <3>2
    <2>5. ASSUME NEW s \in Seqs, events'[s].state = "processing"
          PROVE  \E x \in Runs : runs'[x].state = "active" /\ s \in runs'[x].attached
      <3>1. CASE s \in batch
        BY <1>3, <3>1
      <3>2. CASE s \notin batch
        <4>1. PICK x \in Runs : rs[x].state = "active" /\ s \in rs[x].attached
          BY <1>2, <2>5, <3>2 DEF Attachments
        <4>2. s \in runs'[x].attached /\ runs'[x].state = "active"
          BY <1>3, <4>1
        <4> QED BY <4>2
      <3> QED BY <3>1, <3>2
    <2> QED BY <2>1, <2>2, <2>3, <2>4, <2>5 DEF Attachments
  <1>7. InOrder(events')
    <2> SUFFICES ASSUME NEW s \in Seqs, NEW t \in Seqs, s < t,
                   events'[s].state = "pending", events'[s].kind = "user_message",
                   events'[s].work # None, events'[s].work = events'[t].work,
                   events'[t].state = "processing"
                 PROVE  FALSE
      BY DEF InOrder
    <2>1. /\ s \notin batch /\ evs[s].state = "pending" /\ evs[s].kind = "user_message"
          /\ evs[s].work # None /\ evs[s].work = evs[t].work
      BY <1>2
    <2>2. t \in batch
      BY <1>2, <2>1 DEF InOrder
    <2>3. s \in Attachable(evs, wks, rs[r].work)
      <3>1. t \in Attachable(evs, wks, rs[r].work)
        BY <2>2 DEF Batch
      <3>2. \A c \in Seqs : s < t /\ t < c => s < c
        BY DEF Seqs
      <3> QED BY <2>1, <3>1, <3>2 DEF Attachable
    <2>4. Cardinality(rs[r].attached) \in Nat
      BY <1>4, SeqsFinite, FS_Subset, FS_CardinalityType
    <2> QED BY <2>1, <2>2, <2>3, <2>4, BatchIsInitial
  <1>8. EventRows(events', wks)
    <2> HIDE DEF batch
    <2> QED BY <1>1, <1>2, NotTerminal DEF EventRows
  <1>9. RequestRows(reqs, events')
    <2> HIDE DEF batch
    <2> SUFFICES ASSUME NEW s \in Seqs, reqs[s].state # "absent"
                 PROVE  /\ events'[s].state # "absent"
                        /\ events'[s].kind = "user_message"
                        /\ reqs[s].work = events'[s].work
                        /\ reqs[s].state \in TerminalStates =>
                             events'[s].state = reqs[s].state
      BY DEF RequestRows
    <2>1. /\ evs[s].state # "absent" /\ evs[s].kind = "user_message"
          /\ reqs[s].work = evs[s].work
          /\ reqs[s].state \in TerminalStates => evs[s].state = reqs[s].state
      BY DEF RequestRows
    <2> QED BY <1>1, <1>2, <2>1, NotTerminal
  <1>10. \A s \in Seqs : evs[s].state = "absent" => events'[s].state = "absent"
    <2> HIDE DEF batch
    <2> QED BY <1>1, <1>2
  <1> QED BY <1>6, <1>7, <1>8, <1>9, <1>10

\* What holds of the quantum when it goes on to incorporate.
LEMMA AfterAttach ==
  ASSUME pc' \in {"incorporate", "reincorporate"}
  PROVE  AllIncorporated' /\ CancelInHand' /\ AcquiredActorHasWork'
  BY DEF AllIncorporated, IncorporatedStates, CancelInHand, AcquiredActorHasWork

\* A resumed run takes over further events of its work item.
LEMMA ResumeMailbox ==
  ASSUME MailboxInv, NEW r \in Runs, NEW next \in {"incorporate", "reincorporate"},
         lease.status = "held", ResumeRun(r, next)
  PROVE  MailboxInv'
  <1>1. RunTableInv'
    <2>1. next \in ExecutingStates
      BY DEF ExecutingStates
    <2> QED BY <2>1, ResumeRunTable DEF MailboxInv
  <1>2. /\ AttachEvents(events, works, runs, r) /\ pc' = next
        /\ UNCHANGED <<requests, works, nextSeq>>
        /\ runs[r].state = "active"
    BY DEF ResumeRun, DueRuns
  <1>3. runs[r].work # None
    BY <1>2 DEF MailboxInv, RunTableInv, RunAndWorkAgree
  <1>4. /\ Attachments(events', runs') /\ InOrder(events')
        /\ EventRows(events', works) /\ RequestRows(requests, events')
        /\ \A s \in Seqs : events[s].state = "absent" => events'[s].state = "absent"
    BY <1>2, <1>3, MailboxTypes, AttachTables DEF MailboxInv
  <1> QED BY <1>1, <1>2, <1>4, AfterAttach DEF MailboxInv, NoRowAhead

\* A new run starts without events and attaches those of its work item.
LEMMA StartMailbox ==
  ASSUME MailboxInv, NEW evs \in [Seqs -> EventRecords], NEW wks, NEW reqs,
         Attachments(evs, runs), InOrder(evs), EventRows(evs, wks),
         RequestRows(reqs, evs), \A s \in Seqs : reqs[s].state \in RequestStates,
         \A s \in Seqs : events[s].state = "absent" => evs[s].state = "absent",
         NEW next, StartRun(evs, wks, next), nextSeq' = nextSeq
  PROVE  /\ Attachments(events', runs') /\ InOrder(events')
         /\ EventRows(events', wks) /\ RequestRows(reqs, events')
         /\ NoRowAhead' /\ pc' = next
  <1>1. PICK s \in Seqs, r \in Runs :
          /\ evs[s].work # None
          /\ runs[r].state = "absent"
          /\ AttachEvents(evs, wks,
               [runs EXCEPT ![r] =
                  [state |-> "active", work |-> evs[s].work, observed |-> 0,
                   attached |-> {}, incorporated |-> {}, attempt |-> "clear",
                   generation |-> lease.generation]], r)
          /\ pc' = next
    BY DEF StartRun, FirstByKind, Startable, Fresh
  <1> DEFINE row == [state |-> "active", work |-> evs[s].work, observed |-> 0,
                     attached |-> {}, incorporated |-> {}, attempt |-> "clear",
                     generation |-> lease.generation]
             rs  == [runs EXCEPT ![r] = row]
  <1>2. row \in RunRecords
    BY MailboxTypes DEF TypeOK, RunRecords, RunStates, AttemptStates,
       EventRecords, LeaseRecords
  <1>3. /\ row.state = "active" /\ row.work = evs[s].work
        /\ row.attached = {} /\ row.incorporated = {}
    OBVIOUS
  <1>4. AttachEvents(evs, wks, rs, r)
    BY <1>1
  <1> HIDE DEF row
  <1>5. /\ rs \in [Runs -> RunRecords]
        /\ rs[r].state = "active" /\ rs[r].work # None
        /\ rs[r].attached = {} /\ rs[r].incorporated = {}
        /\ \A x \in Runs : x # r => rs[x] = runs[x]
    BY <1>1, <1>2, <1>3, MailboxTypes
  <1> HIDE DEF rs
  <1>6. Attachments(evs, rs)
    <2>1. ASSUME NEW x \in Runs, NEW t \in rs[x].attached
          PROVE  /\ evs[t].work = rs[x].work
                 /\ rs[x].state = "active" => evs[t].state = "processing"
                 /\ rs[x].state \in TerminalStates => evs[t].state \in TerminalStates
      BY <1>5, <2>1 DEF Attachments
    <2>2. ASSUME NEW t \in Seqs, evs[t].state = "processing"
          PROVE  \E x \in Runs : rs[x].state = "active" /\ t \in rs[x].attached
      <3>1. PICK x \in Runs : runs[x].state = "active" /\ t \in runs[x].attached
        BY <2>2 DEF Attachments
      <3>2. rs[x] = runs[x]
        BY <1>1, <1>5, <3>1
      <3> QED BY <3>1, <3>2
    <2>3. /\ \A x \in Runs : rs[x].incorporated \subseteq rs[x].attached
          /\ \A x \in Runs : rs[x].state = "absent" => rs[x].attached = {}
          /\ \A x, y \in Runs : rs[x].attached \cap rs[y].attached # {} => x = y
      BY <1>5 DEF Attachments
    <2> QED BY <2>1, <2>2, <2>3 DEF Attachments
  <1>7. /\ Attachments(events', runs') /\ InOrder(events')
        /\ EventRows(events', wks) /\ RequestRows(reqs, events')
        /\ \A x \in Seqs : evs[x].state = "absent" => events'[x].state = "absent"
    BY <1>4, <1>5, <1>6, AttachTables
  <1> QED BY <1>1, <1>7 DEF MailboxInv, NoRowAhead

\* The oldest unassigned event gets a work item of its own, and its request
\* follows it there.
LEMMA AssignTables ==
  ASSUME MailboxInv, NEW s \in Unassigned, NEW w \in Fresh(works, Works),
         NEW wks \in [Works -> WorkRecords], wks[w].state = "ready",
         \A v \in Works : v # w => wks[v] = works[v]
  PROVE  /\ AssignEvent(s, w) \in [Seqs -> EventRecords]
         /\ Attachments(AssignEvent(s, w), runs)
         /\ InOrder(AssignEvent(s, w))
         /\ EventRows(AssignEvent(s, w), wks)
         /\ RequestRows(AssignRequest(s, w), AssignEvent(s, w))
         /\ \A x \in Seqs : AssignRequest(s, w)[x].state \in RequestStates
         /\ \A x \in Seqs : events[x].state = "absent" =>
                              AssignEvent(s, w)[x].state = "absent"
  <1> DEFINE evs == AssignEvent(s, w)
             reqs == AssignRequest(s, w)
  <1>1. /\ s \in Seqs /\ events[s].state = "pending" /\ events[s].work = None
        /\ w \in Works /\ works[w].state = "absent" /\ w # None
    BY DEF Unassigned, Fresh, Works, None
  <1>2. /\ \A x \in Seqs : /\ evs[x].state = events[x].state
                           /\ evs[x].kind = events[x].kind
                           /\ x # s => evs[x].work = events[x].work
        /\ evs[s].work = w
    BY <1>1, MailboxTypes DEF AssignEvent, EventRecords
  <1>3. /\ \A x \in Seqs : /\ reqs[x].state = requests[x].state
                           /\ x # s => reqs[x].work = requests[x].work
        /\ reqs[s].state # "absent" => reqs[s].work = w
    BY <1>1, MailboxTypes DEF AssignRequest, RequestRecords
  <1>4. evs \in [Seqs -> EventRecords]
    <2>1. \A e \in EventRecords : [e EXCEPT !.work = w] \in EventRecords
      BY <1>1 DEF EventRecords
    <2> QED BY <2>1, MailboxTypes DEF AssignEvent
  <1> HIDE DEF evs, reqs
  <1>5. Attachments(evs, runs)
    <2>1. \A r \in Runs : s \notin runs[r].attached
      <3> SUFFICES ASSUME NEW r \in Runs, s \in runs[r].attached PROVE FALSE
        OBVIOUS
      <3>1. runs[r].state \in TerminalStates \cup {"active"}
        BY MailboxTypes DEF MailboxInv, Attachments, RunStates
      <3> QED BY <1>1, <3>1, NotTerminal DEF MailboxInv, Attachments
    <2>2. \A r \in Runs : runs[r].attached \subseteq Seqs
      BY MailboxTypes
    <2>3. Attachments(events, runs)
      BY DEF MailboxInv
    <2> QED BY <1>2, <2>1, <2>2, <2>3 DEF Attachments
  <1>6. \A x \in Seqs : events[x].work # w
    BY <1>1 DEF MailboxInv, EventRows
  <1>7. InOrder(evs)
    BY <1>1, <1>2, <1>6 DEF MailboxInv, InOrder
  <1>8. EventRows(evs, wks)
    <2> SUFFICES ASSUME NEW x \in Seqs
                 PROVE  /\ evs[x].state \notin {"absent", "pending"} => evs[x].work # None
                        /\ evs[x].work # None => wks[evs[x].work].state # "absent"
                        /\ evs[x].kind = "user_message" /\ evs[x].state \in TerminalStates
                             => wks[evs[x].work].state \in TerminalStates
      BY DEF EventRows
    <2>1. CASE x = s
      BY <1>1, <1>2, <2>1, NotTerminal
    <2>2. CASE x # s
      <3>1. /\ events[x].state \notin {"absent", "pending"} => events[x].work # None
            /\ events[x].work # None => works[events[x].work].state # "absent"
            /\ events[x].kind = "user_message" /\ events[x].state \in TerminalStates
                 => works[events[x].work].state \in TerminalStates
        BY DEF MailboxInv, EventRows
      <3>2. events[x].work \in Works \cup {None}
        BY MailboxTypes
      <3> QED BY <1>2, <1>6, <2>2, <3>1, <3>2, NotTerminal
    <2> QED BY <2>1, <2>2
  <1>9. RequestRows(reqs, evs)
    BY <1>1, <1>2, <1>3, NotTerminal DEF MailboxInv, RequestRows
  <1>10. /\ \A x \in Seqs : reqs[x].state \in RequestStates
         /\ \A x \in Seqs : events[x].state = "absent" => evs[x].state = "absent"
    BY <1>2, <1>3, MailboxTypes
  <1> QED BY <1>4, <1>5, <1>7, <1>8, <1>9, <1>10 DEF evs, reqs

\* Attachment of events to a resumed or a new run.
LEMMA AttachMailbox == MailboxInv /\ (AttachNextRun \/ ReattachRun) => MailboxInv'
  <1> SUFFICES ASSUME MailboxInv, AttachNextRun \/ ReattachRun PROVE MailboxInv'
    OBVIOUS
  <1>1. lease.status = "held"
    BY DEF AttachNextRun, ReattachRun, MailboxInv, RunTableInv, RunnerOwnsRun,
       QuantumHoldsLease, ExecutingStates
  <1>2. CASE ReattachRun \/ \E r \in Runs : ResumeRun(r, "incorporate")
    BY <1>1, <1>2, ResumeMailbox DEF ReattachRun
  <1>3. CASE AttachNextRun /\ NewRun("incorporate")
    <2>0. RunTableInv' /\ nextSeq' = nextSeq
      BY <1>3, AttachRunTable DEF MailboxInv, NewRun
    <2>1. CASE StartRun(events, works, "incorporate") /\ UNCHANGED <<requests, works>>
      <3>1. /\ Attachments(events', runs') /\ InOrder(events')
            /\ EventRows(events', works) /\ RequestRows(requests, events')
            /\ NoRowAhead' /\ pc' = "incorporate"
        BY <2>0, <2>1, MailboxTypes, StartMailbox DEF MailboxInv
      <3> QED BY <2>0, <2>1, <3>1, AfterAttach DEF MailboxInv
    <2>2. ASSUME NEW s \in Unassigned, NEW w \in Fresh(works, Works),
                 StartRun(AssignEvent(s, w), works', "incorporate"),
                 works' = [works EXCEPT ![w] = OpenWork("interactive", events[s].audience)],
                 requests' = AssignRequest(s, w)
          PROVE  MailboxInv'
      <3>1. works' \in [Works -> WorkRecords]
        BY <2>0 DEF RunTableInv, TypeOK
      <3>2. works'[w].state = "ready" /\ \A v \in Works : v # w => works'[v] = works[v]
        BY <2>2, MailboxTypes DEF OpenWork, Fresh
      <3>3. /\ AssignEvent(s, w) \in [Seqs -> EventRecords]
            /\ Attachments(AssignEvent(s, w), runs)
            /\ InOrder(AssignEvent(s, w))
            /\ EventRows(AssignEvent(s, w), works')
            /\ RequestRows(requests', AssignEvent(s, w))
            /\ \A x \in Seqs : requests'[x].state \in RequestStates
            /\ \A x \in Seqs : events[x].state = "absent" =>
                                 AssignEvent(s, w)[x].state = "absent"
        BY <2>2, <3>1, <3>2, AssignTables
      <3>4. /\ Attachments(events', runs') /\ InOrder(events')
            /\ EventRows(events', works') /\ RequestRows(requests', events')
            /\ NoRowAhead' /\ pc' = "incorporate"
        BY <2>0, <2>2, <3>3, StartMailbox
      <3> QED BY <2>0, <3>4, AfterAttach DEF MailboxInv
    <2> QED BY <1>3, <2>1, <2>2 DEF NewRun
  <1> QED BY <1>2, <1>3 DEF AttachNextRun

-----------------------------------------------------------------------------
(* Settlement.                                                             *)

\* The rows that settling events or requests changes.
LEMMA SettledRows ==
  ASSUME MailboxInv, NEW S, NEW x
  PROVE  /\ \A s \in Seqs :
              /\ SettleEvents(S, x)[s].state = IF s \in S THEN x ELSE events[s].state
              /\ SettleEvents(S, x)[s].kind = events[s].kind
              /\ SettleEvents(S, x)[s].work = events[s].work
         /\ \A s \in Seqs :
              /\ SettleRequests(S, x)[s].state =
                   IF s \in S /\ requests[s].state = "active" THEN x
                   ELSE requests[s].state
              /\ SettleRequests(S, x)[s].work = requests[s].work
  BY MailboxTypes DEF SettleEvents, SettleRequests, EventRecords, RequestRecords

\* From tables in step, run c of rs, the events S and those of their requests
\* that are active end in the state x, and so does the run's work item.  The
\* events are open and of the work item, but for a cancellation of another.
SettlesFrom(evs, reqs, rs, c, S, x) ==
    /\ evs \in [Seqs -> EventRecords] /\ reqs \in [Seqs -> RequestRecords]
    /\ rs \in [Runs -> RunRecords]
    /\ c \in Runs /\ S \in SUBSET Seqs /\ x \in TerminalStates
    /\ Attachments(evs, rs) /\ InOrder(evs)
    /\ EventRows(evs, works) /\ RequestRows(reqs, evs)
    /\ rs[c].state = "active" /\ rs[c].work \in Works
    /\ \A r \in Runs : rs[r].work = rs[c].work => r = c
    /\ rs[c].attached \subseteq S
    /\ \A s \in S :
         /\ evs[s].state \in {"pending", "processing"}
         /\ \/ evs[s].work = rs[c].work
            \/ /\ evs[s].state = "pending" /\ evs[s].kind = "cancel_requested"
               /\ evs[s].work # None
    /\ \A s \in Seqs :
         /\ events'[s].state = IF s \in S THEN x ELSE evs[s].state
         /\ events'[s].kind = evs[s].kind /\ events'[s].work = evs[s].work
    /\ \A s \in Seqs :
         /\ requests'[s].work = reqs[s].work
         /\ \/ requests'[s].state = reqs[s].state
            \/ reqs[s].state = "active" /\ s \in S /\ requests'[s].state = x
    /\ \A r \in Runs :
         /\ runs'[r].state = IF r = c THEN x ELSE rs[r].state
         /\ runs'[r].work = rs[r].work
         /\ runs'[r].attached = rs[r].attached
         /\ runs'[r].incorporated = rs[r].incorporated
    /\ \A w \in Works :
         works'[w].state = IF w = rs[c].work THEN x ELSE works[w].state

\* Such a settlement keeps the tables in step.
LEMMA SettleTables ==
  ASSUME NEW evs, NEW reqs, NEW rs, NEW c, NEW S, NEW x,
         SettlesFrom(evs, reqs, rs, c, S, x)
  PROVE  /\ Attachments(events', runs') /\ InOrder(events')
         /\ EventRows(events', works') /\ RequestRows(requests', events')
         /\ \A s \in Seqs : evs[s].state = "absent" => events'[s].state = "absent"
  <1> USE DEF SettlesFrom
  <1>0. /\ rs[c].work # None
        /\ \A r \in Runs : rs[r].attached \subseteq Seqs /\ rs[r].state \in RunStates
        /\ \A s \in Seqs : evs[s].work \in Works \cup {None}
    BY DEF RunRecords, EventRecords, Works, None
  <1>1. ASSUME NEW r \in Runs, r # c, NEW s \in rs[r].attached
        PROVE  s \notin S
    <2> SUFFICES ASSUME s \in S PROVE FALSE
      OBVIOUS
    <2>1. evs[s].work = rs[r].work
      BY DEF Attachments
    <2>2. evs[s].work # rs[c].work
      BY <1>1, <2>1
    <2>3. evs[s].state = "pending"
      BY <2>2
    <2>4. rs[r].state \in TerminalStates \cup {"active"}
      BY <1>0 DEF Attachments, RunStates
    <2> QED BY <2>3, <2>4, NotTerminal DEF Attachments
  <1>2. Attachments(events', runs')
    <2>1. /\ \A r \in Runs : runs'[r].incorporated \subseteq runs'[r].attached
          /\ \A r \in Runs : runs'[r].state = "absent" => runs'[r].attached = {}
          /\ \A r1, r2 \in Runs : runs'[r1].attached \cap runs'[r2].attached # {} => r1 = r2
      BY NotTerminal DEF Attachments
    <2>2. ASSUME NEW r \in Runs, NEW s \in runs'[r].attached
          PROVE  /\ events'[s].work = runs'[r].work
                 /\ runs'[r].state = "active" => events'[s].state = "processing"
                 /\ runs'[r].state \in TerminalStates => events'[s].state \in TerminalStates
      <3>1. s \in rs[r].attached /\ s \in Seqs
        BY <1>0, <2>2
      <3>2. CASE r = c
        BY <3>1, <3>2, NotTerminal DEF Attachments
      <3>3. CASE r # c
        BY <1>1, <3>1, <3>3 DEF Attachments
      <3> QED BY <3>2, <3>3
    <2>3. ASSUME NEW s \in Seqs, events'[s].state = "processing"
          PROVE  \E r \in Runs : runs'[r].state = "active" /\ s \in runs'[r].attached
      <3>1. s \notin S /\ evs[s].state = "processing"
        BY <2>3, NotTerminal
      <3>2. PICK r \in Runs : rs[r].state = "active" /\ s \in rs[r].attached
        BY <3>1 DEF Attachments
      <3>3. r # c
        BY <3>1, <3>2
      <3> QED BY <3>2, <3>3
    <2> QED BY <2>1, <2>2, <2>3 DEF Attachments
  <1>3. InOrder(events')
    BY NotTerminal DEF InOrder
  <1>4. EventRows(events', works')
    <2> SUFFICES ASSUME NEW s \in Seqs
                 PROVE  /\ events'[s].state \notin {"absent", "pending"} =>
                             events'[s].work # None
                        /\ events'[s].work # None =>
                             works'[events'[s].work].state # "absent"
                        /\ events'[s].kind = "user_message"
                             /\ events'[s].state \in TerminalStates =>
                             works'[events'[s].work].state \in TerminalStates
      BY DEF EventRows
    <2>1. /\ evs[s].state \notin {"absent", "pending"} => evs[s].work # None
          /\ evs[s].work # None => works[evs[s].work].state # "absent"
          /\ evs[s].kind = "user_message" /\ evs[s].state \in TerminalStates =>
               works[evs[s].work].state \in TerminalStates
      BY DEF EventRows
    <2>2. \A w \in Works :
            /\ works[w].state # "absent" => works'[w].state # "absent"
            /\ works[w].state \in TerminalStates => works'[w].state \in TerminalStates
      BY NotTerminal
    <2>3. CASE s \in S
      BY <1>0, <2>1, <2>2, <2>3
    <2>4. CASE s \notin S
      BY <1>0, <2>1, <2>2, <2>4, NotTerminal
    <2> QED BY <2>3, <2>4
  <1>5. RequestRows(requests', events')
    <2> SUFFICES ASSUME NEW s \in Seqs, requests'[s].state # "absent"
                 PROVE  /\ events'[s].state # "absent"
                        /\ events'[s].kind = "user_message"
                        /\ requests'[s].work = events'[s].work
                        /\ requests'[s].state \in TerminalStates =>
                             events'[s].state = requests'[s].state
      BY DEF RequestRows
    <2>1. reqs[s].state # "absent"
      BY NotTerminal
    <2>2. /\ evs[s].state # "absent" /\ evs[s].kind = "user_message"
          /\ reqs[s].work = evs[s].work
          /\ reqs[s].state \in TerminalStates => evs[s].state = reqs[s].state
      BY <2>1 DEF RequestRows
    <2> QED BY <2>2, NotTerminal
  <1>6. \A s \in Seqs : evs[s].state = "absent" => events'[s].state = "absent"
    OBVIOUS
  <1> QED BY <1>2, <1>3, <1>4, <1>5, <1>6

\* What holds of the quantum once its run is settled.
LEMMA AfterSettle ==
  ASSUME pc' \in {"report", "release"}
  PROVE  AllIncorporated' /\ CancelInHand' /\ AcquiredActorHasWork'
  BY DEF AllIncorporated, IncorporatedStates, CancelInHand, AcquiredActorHasWork

\* The run that is settled: active, and the only one of its work item.
LEMMA SettlingRun ==
  ASSUME MailboxInv, pc \in {"finalize", "cancel", "fail"}
  PROVE  /\ cur \in Runs /\ runs[cur].state = "active" /\ runs[cur].work \in Works
         /\ works[runs[cur].work].state \in {"ready", "waiting_for_decision"}
         /\ \A r \in Runs : runs[r].work = runs[cur].work => r = cur
  <1>1. /\ cur \in Runs /\ runs[cur].state = "active"
        /\ works[runs[cur].work].state \in {"ready", "waiting_for_decision"}
    BY DEF MailboxInv, RunTableInv, RunnerOwnsRun, ExecutingStates, Due, HasBlocked
  <1>2. runs[cur].work \in Works
    BY <1>1, RunRow DEF MailboxInv
  <1>3. runs[cur].work # None
    BY <1>2 DEF Works, None
  <1>4. \A r \in Runs : runs[r].work = runs[cur].work => r = cur
    BY <1>1, <1>3 DEF MailboxInv, RunTableInv, RunAndWorkAgree
  <1> QED BY <1>1, <1>2, <1>4

\* An answer settles the attached events, all of which were incorporated.
LEMMA FinalizeMailbox == MailboxInv /\ FinalizeRun => MailboxInv'
  <1> SUFFICES ASSUME MailboxInv, FinalizeRun PROVE MailboxInv' OBVIOUS
  <1>0. RunTableInv' /\ nextSeq' = nextSeq /\ pc' = "report" /\ pc = "finalize"
    BY SettleRunTable DEF MailboxInv, FinalizeRun, Progress
  <1>1. PICK x \in TerminalStates :
          /\ events' = SettleEvents(runs[cur].incorporated, x)
          /\ requests' = SettleRequests(runs[cur].incorporated, x)
          /\ SettleRun(x)
    BY DEF FinalizeRun, FinalStates, TerminalStates
  <1> DEFINE S == runs[cur].incorporated
  <1>2. /\ cur \in Runs /\ runs[cur].state = "active" /\ runs[cur].work \in Works
        /\ \A r \in Runs : runs[r].work = runs[cur].work => r = cur
    BY <1>0, SettlingRun
  <1>3. runs[cur].attached = S /\ S \in SUBSET Seqs
    BY <1>0, <1>2, MailboxTypes DEF MailboxInv, AllIncorporated, IncorporatedStates
  <1>4. \A s \in S :
          /\ events[s].state \in {"pending", "processing"}
          /\ \/ events[s].work = runs[cur].work
             \/ /\ events[s].state = "pending" /\ events[s].kind = "cancel_requested"
                /\ events[s].work # None
    BY <1>2, <1>3 DEF MailboxInv, Attachments
  <1>5. /\ \A s \in Seqs :
             /\ events'[s].state = IF s \in S THEN x ELSE events[s].state
             /\ events'[s].kind = events[s].kind /\ events'[s].work = events[s].work
        /\ \A s \in Seqs :
             /\ requests'[s].work = requests[s].work
             /\ \/ requests'[s].state = requests[s].state
                \/ requests[s].state = "active" /\ s \in S /\ requests'[s].state = x
    BY <1>1, SettledRows
  <1>6. /\ \A r \in Runs :
             /\ runs'[r].state = IF r = cur THEN x ELSE runs[r].state
             /\ runs'[r].work = runs[r].work
             /\ runs'[r].attached = runs[r].attached
             /\ runs'[r].incorporated = runs[r].incorporated
        /\ \A w \in Works :
             works'[w].state = IF w = runs[cur].work THEN x ELSE works[w].state
    BY <1>1, <1>2, MailboxTypes DEF SettleRun, RunRecords, WorkRecords
  <1>7. /\ Attachments(events, runs) /\ InOrder(events) /\ EventRows(events, works)
        /\ RequestRows(requests, events)
        /\ events \in [Seqs -> EventRecords] /\ requests \in [Seqs -> RequestRecords]
        /\ runs \in [Runs -> RunRecords]
    BY MailboxTypes DEF MailboxInv
  <1> HIDE DEF S
  <1>8. runs[cur].attached \subseteq S
    BY <1>3
  <1>9. SettlesFrom(events, requests, runs, cur, S, x)
    BY <1>2, <1>3, <1>4, <1>5, <1>6, <1>7, <1>8 DEF SettlesFrom
  <1>10. /\ Attachments(events', runs') /\ InOrder(events')
         /\ EventRows(events', works') /\ RequestRows(requests', events')
         /\ \A s \in Seqs : events[s].state = "absent" => events'[s].state = "absent"
    BY <1>9, SettleTables
  <1> QED BY <1>0, <1>10, AfterSettle DEF MailboxInv, NoRowAhead

\* A cancellation settles its control event and the open events of the run's
\* work item; the requests it snapshotted that are on the work item are among
\* those events' requests.
LEMMA CancelMailbox == MailboxInv /\ CancelRun => MailboxInv'
  <1> SUFFICES ASSUME MailboxInv, CancelRun PROVE MailboxInv' OBVIOUS
  <1> DEFINE w == runs[cur].work
             S == {ctl} \cup OpenEvents(w)
             T == SettledByCancel(ctl, w)
             x == "cancelled"
  <1>0. RunTableInv' /\ nextSeq' = nextSeq /\ pc' = "report" /\ pc = "cancel"
    BY SettleRunTable DEF MailboxInv, CancelRun, Progress
  <1>1. /\ events' = SettleEvents(S, x)
        /\ requests' = SettleRequests(T, x)
        /\ runs' = [runs EXCEPT ![cur].state = x, ![cur].attempt = StopAttempt(cur)]
        /\ works' = [works EXCEPT ![w].state = x]
    BY DEF CancelRun
  <1>2. /\ cur \in Runs /\ runs[cur].state = "active" /\ w \in Works
        /\ works[w].state \in {"ready", "waiting_for_decision"}
        /\ \A r \in Runs : runs[r].work = runs[cur].work => r = cur
    BY <1>0, SettlingRun
  <1>3. /\ ctl \in Seqs /\ events[ctl].state = "pending"
        /\ events[ctl].kind = "cancel_requested" /\ events[ctl].work # None
    BY <1>0 DEF MailboxInv, CancelInHand
  <1>4. /\ S \in SUBSET Seqs /\ x \in TerminalStates
        /\ \A s \in S :
             /\ events[s].state \in {"pending", "processing"}
             /\ \/ events[s].work = runs[cur].work
                \/ /\ events[s].state = "pending" /\ events[s].kind = "cancel_requested"
                   /\ events[s].work # None
    BY <1>3 DEF OpenEvents, TerminalStates
  <1>5. runs[cur].attached \subseteq S
    BY <1>2, MailboxTypes DEF OpenEvents, MailboxInv, Attachments
  <1>6. \A s \in Seqs : s \in T /\ requests[s].state = "active" => s \in S
    <2> SUFFICES ASSUME NEW s \in Seqs, s \in T, requests[s].state = "active"
                 PROVE  events[s].work = w /\ events[s].state \in {"pending", "processing"}
      BY DEF OpenEvents
    <2>1. /\ events[s].state # "absent" /\ events[s].kind = "user_message"
          /\ events[s].work = w
      BY DEF SettledByCancel, MailboxInv, RequestRows
    <2>2. events[s].state \notin TerminalStates
      BY <1>2, <2>1, NotTerminal DEF MailboxInv, EventRows
    <2> QED BY <2>1, <2>2, MailboxTypes DEF EventStates
  <1>7. /\ \A s \in Seqs :
             /\ events'[s].state = IF s \in S THEN x ELSE events[s].state
             /\ events'[s].kind = events[s].kind /\ events'[s].work = events[s].work
        /\ \A s \in Seqs :
             /\ requests'[s].work = requests[s].work
             /\ \/ requests'[s].state = requests[s].state
                \/ requests[s].state = "active" /\ s \in S /\ requests'[s].state = x
    <2> HIDE DEF S, T, x
    <2> QED BY <1>1, <1>6, SettledRows
  <1>8. \A r \in Runs :
          /\ runs'[r].state = IF r = cur THEN x ELSE runs[r].state
          /\ runs'[r].work = runs[r].work
          /\ runs'[r].attached = runs[r].attached
          /\ runs'[r].incorporated = runs[r].incorporated
    BY <1>1, <1>2, MailboxTypes DEF RunRecords
  <1>9. \A v \in Works :
          works'[v].state = IF v = runs[cur].work THEN x ELSE works[v].state
    BY <1>1, <1>2, MailboxTypes DEF WorkRecords
  <1>10. /\ Attachments(events, runs) /\ InOrder(events) /\ EventRows(events, works)
         /\ RequestRows(requests, events)
         /\ events \in [Seqs -> EventRecords] /\ requests \in [Seqs -> RequestRecords]
         /\ runs \in [Runs -> RunRecords]
    BY MailboxTypes DEF MailboxInv
  <1>11. SettlesFrom(events, requests, runs, cur, S, x)
    <2> HIDE DEF S, T, x
    <2> QED BY <1>2, <1>4, <1>5, <1>7, <1>8, <1>9, <1>10 DEF SettlesFrom
  <1>12. /\ Attachments(events', runs') /\ InOrder(events')
         /\ EventRows(events', works') /\ RequestRows(requests', events')
         /\ \A s \in Seqs : events[s].state = "absent" => events'[s].state = "absent"
    <2> HIDE DEF S, T, x
    <2> QED BY <1>11, SettleTables
  <1> QED BY <1>0, <1>12, AfterSettle DEF MailboxInv, NoRowAhead

\* Detaching the events of a run that it has not incorporated returns them to
\* the mailbox without a work item, and the tables stay in step.
Detached == runs[cur].attached \ runs[cur].incorporated
DetachedEvents ==
    [s \in Seqs |-> IF s \in Detached
                    THEN [events[s] EXCEPT !.state = "pending", !.work = None]
                    ELSE events[s]]
DetachedRequests ==
    [s \in Seqs |-> IF s \in Detached /\ requests[s].state # "absent"
                    THEN [requests[s] EXCEPT !.work = None] ELSE requests[s]]
DetachedRuns == [runs EXCEPT ![cur].attached = runs[cur].incorporated]

LEMMA DetachTables ==
  ASSUME MailboxInv, cur \in Runs, runs[cur].state = "active"
  PROVE  /\ DetachedEvents \in [Seqs -> EventRecords]
         /\ DetachedRequests \in [Seqs -> RequestRecords]
         /\ DetachedRuns \in [Runs -> RunRecords]
         /\ Attachments(DetachedEvents, DetachedRuns)
         /\ InOrder(DetachedEvents) /\ EventRows(DetachedEvents, works)
         /\ RequestRows(DetachedRequests, DetachedEvents)
         /\ \A s \in Seqs : events[s].state = "absent" => DetachedEvents[s].state = "absent"
         /\ \A r \in Runs :
              /\ DetachedRuns[r].state = runs[r].state
              /\ DetachedRuns[r].work = runs[r].work
              /\ DetachedRuns[r].incorporated = runs[r].incorporated
              /\ DetachedRuns[r].attached =
                   IF r = cur THEN runs[r].incorporated ELSE runs[r].attached
         /\ \A s \in Seqs :
              /\ DetachedEvents[s].kind = events[s].kind
              /\ DetachedEvents[s].state =
                   IF s \in Detached THEN "pending" ELSE events[s].state
              /\ DetachedEvents[s].work = IF s \in Detached THEN None ELSE events[s].work
              /\ DetachedRequests[s].state = requests[s].state
              /\ requests[s].state # "absent" =>
                   DetachedRequests[s].work =
                     IF s \in Detached THEN None ELSE requests[s].work
              /\ requests[s].state = "absent" =>
                   DetachedRequests[s].work = requests[s].work
  <1> DEFINE evs == DetachedEvents
             reqs == DetachedRequests
             rs == DetachedRuns
  <1>0. /\ Attachments(events, runs) /\ InOrder(events) /\ EventRows(events, works)
        /\ RequestRows(requests, events)
    BY DEF MailboxInv
  <1>1. /\ evs \in [Seqs -> EventRecords] /\ reqs \in [Seqs -> RequestRecords]
        /\ rs \in [Runs -> RunRecords]
    <2>1. \A e \in EventRecords :
            [e EXCEPT !.state = "pending", !.work = None] \in EventRecords
      BY DEF EventRecords, EventStates
    <2>2. \A q \in RequestRecords : [q EXCEPT !.work = None] \in RequestRecords
      BY DEF RequestRecords
    <2>3. runs[cur].incorporated \in SUBSET Seqs
      BY MailboxTypes
    <2>4. \A q \in RunRecords, A \in SUBSET Seqs : [q EXCEPT !.attached = A] \in RunRecords
      BY DEF RunRecords
    <2> QED
      BY <2>1, <2>2, <2>3, <2>4, MailboxTypes
      DEF DetachedEvents, DetachedRequests, DetachedRuns
  <1>2. \A r \in Runs :
          /\ rs[r].state = runs[r].state
          /\ rs[r].work = runs[r].work
          /\ rs[r].incorporated = runs[r].incorporated
          /\ rs[r].attached = IF r = cur THEN runs[r].incorporated ELSE runs[r].attached
    BY MailboxTypes DEF DetachedRuns, RunRecords
  <1>3. \A s \in Seqs :
          /\ evs[s].kind = events[s].kind
          /\ evs[s].state = IF s \in Detached THEN "pending" ELSE events[s].state
          /\ evs[s].work = IF s \in Detached THEN None ELSE events[s].work
    BY MailboxTypes DEF DetachedEvents, EventRecords
  <1>4. \A s \in Seqs :
          /\ reqs[s].state = requests[s].state
          /\ requests[s].state # "absent" =>
               reqs[s].work = IF s \in Detached THEN None ELSE requests[s].work
          /\ requests[s].state = "absent" => reqs[s].work = requests[s].work
    BY MailboxTypes DEF DetachedRequests, RequestRecords
  <1>5. \A r \in Runs, s \in Seqs : s \in rs[r].attached => s \notin Detached
    BY <1>0, <1>2 DEF Detached, Attachments
  <1>6. Detached \subseteq Seqs /\ \A s \in Detached : events[s].state = "processing"
    BY <1>0, MailboxTypes DEF Detached, Attachments
  <1> HIDE DEF evs, reqs, rs
  <1>7. Attachments(evs, rs)
    <2>1. /\ \A r \in Runs : rs[r].incorporated \subseteq rs[r].attached
          /\ \A r \in Runs : rs[r].state = "absent" => rs[r].attached = {}
          /\ \A r1, r2 \in Runs : rs[r1].attached \cap rs[r2].attached # {} => r1 = r2
      BY <1>0, <1>2 DEF Attachments
    <2>2. ASSUME NEW r \in Runs, NEW s \in rs[r].attached
          PROVE  /\ evs[s].work = rs[r].work
                 /\ rs[r].state = "active" => evs[s].state = "processing"
                 /\ rs[r].state \in TerminalStates => evs[s].state \in TerminalStates
      <3>1. s \in runs[r].attached /\ s \in Seqs
        BY <1>0, <1>2, <2>2, MailboxTypes DEF Attachments
      <3>2. s \notin Detached
        BY <1>5, <2>2, <3>1
      <3> QED BY <1>0, <1>2, <1>3, <3>1, <3>2 DEF Attachments
    <2>3. ASSUME NEW s \in Seqs, evs[s].state = "processing"
          PROVE  \E r \in Runs : rs[r].state = "active" /\ s \in rs[r].attached
      <3>1. s \notin Detached /\ events[s].state = "processing"
        BY <1>3, <2>3
      <3>2. PICK r \in Runs : runs[r].state = "active" /\ s \in runs[r].attached
        BY <1>0, <3>1 DEF Attachments
      <3>3. rs[r].state = "active" /\ s \in rs[r].attached
        BY <1>2, <3>1, <3>2 DEF Detached
      <3> QED BY <3>3
    <2> QED BY <2>1, <2>2, <2>3 DEF Attachments
  <1>8. InOrder(evs)
    BY <1>0, <1>3 DEF InOrder
  <1>9. EventRows(evs, works)
    BY <1>0, <1>3, NotTerminal DEF EventRows
  <1>10. RequestRows(reqs, evs)
    <2> SUFFICES ASSUME NEW s \in Seqs, reqs[s].state # "absent"
                 PROVE  /\ evs[s].state # "absent" /\ evs[s].kind = "user_message"
                        /\ reqs[s].work = evs[s].work
                        /\ reqs[s].state \in TerminalStates => evs[s].state = reqs[s].state
      BY DEF RequestRows
    <2>1. /\ events[s].state # "absent" /\ events[s].kind = "user_message"
          /\ requests[s].work = events[s].work
          /\ requests[s].state \in TerminalStates => events[s].state = requests[s].state
      BY <1>0, <1>4 DEF RequestRows
    <2> QED BY <1>3, <1>4, <1>6, <2>1, NotTerminal
  <1>11. \A s \in Seqs : events[s].state = "absent" => evs[s].state = "absent"
    BY <1>3, <1>6
  <1> QED
    BY <1>1, <1>2, <1>3, <1>4, <1>7, <1>8, <1>9, <1>10, <1>11 DEF evs, reqs, rs

\* A terminal failure detaches what the run has not incorporated and settles
\* the rest.
LEMMA TerminalizeMailbox == MailboxInv /\ Terminalize => MailboxInv'
  <1> SUFFICES ASSUME MailboxInv, Terminalize PROVE MailboxInv' OBVIOUS
  <1> DEFINE S == runs[cur].incorporated
             x == "failed_terminal"
  <1>0. RunTableInv' /\ nextSeq' = nextSeq /\ pc' = "release" /\ pc = "fail"
    BY SettleRunTable DEF MailboxInv, Terminalize, Goto
  <1>1. /\ cur \in Runs /\ runs[cur].state = "active" /\ runs[cur].work \in Works
        /\ \A r \in Runs : runs[r].work = runs[cur].work => r = cur
    BY <1>0, SettlingRun
  <1>2. S \in SUBSET Seqs /\ S \cap Detached = {} /\ x \in TerminalStates
    BY <1>1, MailboxTypes DEF Detached, TerminalStates
  <1>3. /\ \A s \in Seqs :
             /\ events'[s].state = IF s \in S THEN x ELSE DetachedEvents[s].state
             /\ events'[s].kind = DetachedEvents[s].kind
             /\ events'[s].work = DetachedEvents[s].work
    <2>1. events' = [s \in Seqs |-> IF s \in Detached
                      THEN [events[s] EXCEPT !.state = "pending", !.work = None]
                      ELSE SettleEvents(S, x)[s]]
      BY DEF Terminalize, FailedEvents, Detached
    <2> SUFFICES ASSUME NEW s \in Seqs
                 PROVE  /\ events'[s].state = IF s \in S THEN x ELSE DetachedEvents[s].state
                        /\ events'[s].kind = DetachedEvents[s].kind
                        /\ events'[s].work = DetachedEvents[s].work
      OBVIOUS
    <2>2. CASE s \in Detached
      <3>1. events'[s] = DetachedEvents[s]
        BY <2>1, <2>2 DEF DetachedEvents
      <3>2. s \notin S
        BY <1>2, <2>2
      <3> HIDE DEF S, x
      <3> QED BY <3>1, <3>2
    <2>3. CASE s \notin Detached
      <3>1. events'[s] = SettleEvents(S, x)[s] /\ DetachedEvents[s] = events[s]
        BY <2>1, <2>3 DEF DetachedEvents
      <3> HIDE DEF S, x
      <3> QED BY <3>1, SettledRows
    <2> QED BY <2>2, <2>3
  <1>4. \A s \in Seqs :
          /\ requests'[s].work = DetachedRequests[s].work
          /\ \/ requests'[s].state = DetachedRequests[s].state
             \/ DetachedRequests[s].state = "active" /\ s \in S /\ requests'[s].state = x
    <2>1. requests' = [s \in Seqs |-> IF s \in Detached /\ requests[s].state # "absent"
                        THEN [requests[s] EXCEPT !.work = None]
                        ELSE SettleRequests(S, x)[s]]
      BY DEF Terminalize, FailedEvents, Detached
    <2> SUFFICES ASSUME NEW s \in Seqs
                 PROVE  /\ requests'[s].work = DetachedRequests[s].work
                        /\ \/ requests'[s].state = DetachedRequests[s].state
                           \/ /\ DetachedRequests[s].state = "active" /\ s \in S
                              /\ requests'[s].state = x
      OBVIOUS
    <2>2. CASE s \in Detached /\ requests[s].state # "absent"
      BY <2>1, <2>2 DEF DetachedRequests
    <2>3. CASE ~(s \in Detached /\ requests[s].state # "absent")
      <3>1. requests'[s] = SettleRequests(S, x)[s] /\ DetachedRequests[s] = requests[s]
        BY <2>1, <2>3 DEF DetachedRequests
      <3> HIDE DEF S, x
      <3> QED BY <3>1, SettledRows
    <2> QED BY <2>2, <2>3
  <1>5. \A r \in Runs :
          /\ runs'[r].state = IF r = cur THEN x ELSE DetachedRuns[r].state
          /\ runs'[r].work = DetachedRuns[r].work
          /\ runs'[r].attached = DetachedRuns[r].attached
          /\ runs'[r].incorporated = DetachedRuns[r].incorporated
    <2>1. PICK a : runs' = [runs EXCEPT ![cur].state = x, ![cur].attached = S,
                                        ![cur].attempt = a]
      <3> DEFINE a == IF runs[cur].attempt = "prepared" THEN "known"
                      ELSE StopAttempt(cur)
      <3>1. runs' = [runs EXCEPT ![cur].state = x, ![cur].attached = S,
                                 ![cur].attempt = a]
        BY DEF Terminalize, KeptEvents
      <3> HIDE DEF a
      <3> QED BY <3>1
    <2>2. \A r \in Runs :
            /\ runs'[r].state = IF r = cur THEN x ELSE runs[r].state
            /\ runs'[r].work = runs[r].work
            /\ runs'[r].attached = IF r = cur THEN S ELSE runs[r].attached
            /\ runs'[r].incorporated = runs[r].incorporated
      <3> HIDE DEF S, x
      <3>1. runs \in [Runs -> RunRecords]
        BY MailboxTypes
      <3>2. runs' = [runs EXCEPT ![cur] = [runs[cur] EXCEPT !.state = x,
                                             !.attached = S, !.attempt = a]]
        BY <1>1, <2>1, <3>1
      <3> QED BY <1>1, <3>1, <3>2 DEF RunRecords
    <2> QED BY <1>1, <2>2, DetachTables
  <1>6. \A v \in Works :
          works'[v].state = IF v = DetachedRuns[cur].work THEN x ELSE works[v].state
    <2>1. works' = [works EXCEPT ![runs[cur].work].state = x,
                                 ![runs[cur].work].failures = FailureLimit,
                                 ![runs[cur].work].due = TRUE]
      BY DEF Terminalize
    <2>2. DetachedRuns[cur].work = runs[cur].work
      BY <1>1, DetachTables
    <2> QED BY <1>1, <2>1, <2>2, MailboxTypes DEF WorkRecords
  <1>7. \A s \in S : /\ DetachedEvents[s].state \in {"pending", "processing"}
                     /\ DetachedEvents[s].work = DetachedRuns[cur].work
    BY <1>1, <1>2, DetachTables DEF MailboxInv, Attachments
  <1>8. /\ DetachedRuns[cur].state = "active" /\ DetachedRuns[cur].work \in Works
        /\ \A r \in Runs : DetachedRuns[r].work = DetachedRuns[cur].work => r = cur
        /\ DetachedRuns[cur].attached \subseteq S
    BY <1>1, DetachTables
  <1>9. /\ Attachments(DetachedEvents, DetachedRuns) /\ InOrder(DetachedEvents)
        /\ EventRows(DetachedEvents, works)
        /\ RequestRows(DetachedRequests, DetachedEvents)
        /\ DetachedEvents \in [Seqs -> EventRecords]
        /\ DetachedRequests \in [Seqs -> RequestRecords]
        /\ DetachedRuns \in [Runs -> RunRecords]
    BY <1>1, DetachTables
  <1> HIDE DEF S, x
  <1>10. SettlesFrom(DetachedEvents, DetachedRequests, DetachedRuns, cur, S, x)
    BY <1>1, <1>2, <1>3, <1>4, <1>5, <1>6, <1>7, <1>8, <1>9 DEF SettlesFrom
  <1>11. /\ Attachments(events', runs') /\ InOrder(events')
         /\ EventRows(events', works') /\ RequestRows(requests', events')
         /\ \A s \in Seqs : DetachedEvents[s].state = "absent" =>
                              events'[s].state = "absent"
    BY <1>10, SettleTables
  <1>12. NoRowAhead'
    BY <1>0, <1>1, <1>11, DetachTables DEF MailboxInv, NoRowAhead
  <1> QED BY <1>0, <1>11, <1>12, AfterSettle DEF MailboxInv

-----------------------------------------------------------------------------
(* Ingress.                                                                *)

\* What every ingress transaction does to the rows: it appends a pending event
\* of the work item w and leaves the others as they were, except that a
\* cancellation flags w, and may have opened it for an event without one.
Appends(w) ==
    LET n == nextSeq + 1 IN
    /\ n \in Seqs /\ w \in Works /\ nextSeq' = n
    /\ events'[n].state = "pending" /\ events'[n].work = w
    /\ \A s \in Seqs \ {n} :
         /\ events'[s].state = events[s].state /\ events'[s].kind = events[s].kind
         /\ \/ events'[s].work = events[s].work
            \/ /\ events[s].state = "pending" /\ events[s].work = None
               /\ events'[s].work = w /\ works[w].state = "absent"
               /\ events'[n].kind = "cancel_requested"
         /\ requests'[s].state = requests[s].state
         /\ requests[s].state # "absent" => requests'[s].work = events'[s].work
    /\ requests'[n].state # "absent" =>
         /\ requests'[n].state = "active" /\ requests'[n].work = w
         /\ events'[n].kind = "user_message"
    /\ works'[w].state # "absent"
    /\ works[w].state = "absent" => works'[w].state = "ready" /\ works'[w].due
    /\ \A v \in Works : works[v].state # "absent" =>
         \/ works'[v].cancelRequested = works[v].cancelRequested
         \/ v = w /\ events'[n].kind = "cancel_requested"

\* The sequence an ingress transaction takes has no event and no request yet.
LEMMA FreeSequence ==
  ASSUME MailboxInv, nextSeq + 1 \in Seqs
  PROVE  /\ events[nextSeq + 1].state = "absent"
         /\ requests[nextSeq + 1].state = "absent"
         /\ nextSeq \in Nat
  <1>1. nextSeq \in Nat
    BY MailboxTypes DEF TypeOK
  <1>2. events[nextSeq + 1].state = "absent"
    BY <1>1 DEF MailboxInv, NoRowAhead
  <1> QED BY <1>1, <1>2 DEF MailboxInv, RequestRows

\* An actor that was ready stays ready: what a cancellation withdraws from the
\* startable events it replaces by its own control event.
LEMMA AppendReady ==
  ASSUME MailboxInv, NEW w, Appends(w), KeepsRows, UNCHANGED runs, ActorReady
  PROVE  ActorReady'
  <1> DEFINE n == nextSeq + 1
  <1>1. n \in Seqs /\ events[n].state = "absent" /\ w \in Works
    BY FreeSequence DEF Appends
  <1>2. \A v \in Works : works[v].state = "ready" /\ works[v].due =>
          works'[v].state = "ready" /\ works'[v].due
    BY DEF KeepsRows
  <1>3. \A s \in Seqs \ {n} :
          /\ events'[s].state = events[s].state /\ events'[s].kind = events[s].kind
          /\ \/ events'[s].work = events[s].work
             \/ /\ events[s].work = None /\ works[w].state = "absent"
                /\ events'[n].kind = "cancel_requested"
    BY DEF Appends
  <1>4. /\ events'[n].state = "pending" /\ events'[n].work = w /\ w # None
        /\ works[w].state = "absent" => works'[w].state = "ready" /\ works'[w].due
    BY DEF Appends, Works, None
  <1>5. ASSUME events'[n].kind = "cancel_requested",
               works'[w].state = "ready", works'[w].due
        PROVE  ActorReady'
    <2>1. n \in Startable(events', works')
      BY <1>1, <1>4, <1>5 DEF Startable
    <2> QED BY <2>1 DEF ActorReady
  <1>6. CASE DueRuns # {}
    <2>1. PICK r \in Runs : runs[r].state = "active" /\ Due(runs[r].work)
      BY <1>6 DEF DueRuns
    <2>2. runs[r].work \in Works
      BY <2>1, RunRow DEF MailboxInv
    <2>3. r \in DueRuns'
      BY <1>2, <2>1, <2>2 DEF DueRuns, Due
    <2> QED BY <2>3 DEF ActorReady
  <1>7. CASE Unassigned # {}
    <2>1. PICK s \in Seqs : events[s].state = "pending" /\ events[s].work = None
      BY <1>7 DEF Unassigned
    <2>2. s # n
      BY <1>1, <2>1
    <2>3. CASE events'[s].work = events[s].work
      <3>1. s \in Unassigned'
        BY <1>3, <2>1, <2>2, <2>3 DEF Unassigned
      <3> QED BY <3>1 DEF ActorReady
    <2>4. CASE events'[s].work # events[s].work
      BY <1>3, <1>4, <1>5, <2>2, <2>4
    <2> QED BY <2>3, <2>4
  <1>8. CASE Startable(events, works) # {}
    <2>1. PICK s \in Seqs :
            /\ events[s].state = "pending" /\ events[s].work # None
            /\ works[events[s].work].state = "ready" /\ works[events[s].work].due
            /\ \/ ~works[events[s].work].cancelRequested
               \/ events[s].kind = "cancel_requested"
      BY <1>8 DEF Startable
    <2>2. s # n /\ events[s].work \in Works
      BY <1>1, <2>1, MailboxTypes
    <2>3. events'[s].state = "pending" /\ events'[s].work = events[s].work
            /\ events'[s].kind = events[s].kind
      BY <1>3, <2>1, <2>2
    <2>4. works'[events[s].work].state = "ready" /\ works'[events[s].work].due
      BY <1>2, <2>1, <2>2
    <2>5. \/ works'[events[s].work].cancelRequested = works[events[s].work].cancelRequested
          \/ events[s].work = w /\ events'[n].kind = "cancel_requested"
      BY <2>1, <2>2 DEF Appends
    <2>6. CASE works'[events[s].work].cancelRequested = works[events[s].work].cancelRequested
      <3>1. s \in Startable(events', works')
        BY <2>1, <2>3, <2>4, <2>6 DEF Startable
      <3> QED BY <3>1 DEF ActorReady
    <2>7. CASE events[s].work = w /\ events'[n].kind = "cancel_requested"
      BY <1>5, <2>4, <2>7
    <2> QED BY <2>5, <2>6, <2>7
  <1> QED BY <1>6, <1>7, <1>8 DEF ActorReady

\* Such a transaction keeps the tables in step.
LEMMA AppendMailbox ==
  ASSUME MailboxInv, Ingress, NEW w, Appends(w)
  PROVE  MailboxInv'
  <1> DEFINE n == nextSeq + 1
  <1>0. /\ RunTableInv' /\ KeepsRows
        /\ UNCHANGED <<runs, lease, pc, cur, ctl>>
    BY IngressRunTable, IngressKeepsRows DEF MailboxInv
  <1>1. /\ n \in Seqs /\ events[n].state = "absent" /\ requests[n].state = "absent"
        /\ w \in Works /\ w # None /\ nextSeq \in Nat /\ nextSeq' = n
        /\ events'[n].state = "pending" /\ events'[n].work = w
    BY FreeSequence DEF Appends, Works, None
  <1>2. /\ Attachments(events, runs) /\ InOrder(events) /\ EventRows(events, works)
        /\ RequestRows(requests, events)
    BY DEF MailboxInv
  <1>3. \A s \in Seqs \ {n} :
          /\ events'[s].state = events[s].state /\ events'[s].kind = events[s].kind
          /\ \/ events'[s].work = events[s].work
             \/ /\ events[s].state = "pending" /\ events[s].work = None
                /\ events'[s].work = w /\ works[w].state = "absent"
    BY DEF Appends
  <1>4. Attachments(events', runs')
    <2>1. ASSUME NEW r \in Runs, NEW s \in runs[r].attached
          PROVE  events'[s].state = events[s].state /\ events'[s].work = events[s].work
      <3>1. s \in Seqs /\ runs[r].state \in TerminalStates \cup {"active"}
        BY <1>2, <2>1, MailboxTypes DEF Attachments, RunStates
      <3>2. events[s].state \notin {"absent", "pending"}
        BY <1>2, <2>1, <3>1, NotTerminal DEF Attachments
      <3> QED BY <1>1, <1>3, <3>1, <3>2
    <2>2. \A s \in Seqs : events'[s].state = "processing" => events[s].state = "processing"
      BY <1>1, <1>3
    <2> QED BY <1>0, <1>2, <2>1, <2>2 DEF Attachments
  <1>5. InOrder(events')
    <2> SUFFICES ASSUME NEW s \in Seqs, NEW t \in Seqs, s < t,
                   events'[s].state = "pending", events'[s].kind = "user_message",
                   events'[s].work # None, events'[s].work = events'[t].work,
                   events'[t].state = "processing"
                 PROVE  FALSE
      BY DEF InOrder
    <2>1. t # n /\ events[t].state = "processing" /\ events'[t].work = events[t].work
      BY <1>1, <1>3
    <2>2. s # n
      <3>1. ~(t > nextSeq)
        BY <2>1 DEF MailboxInv, NoRowAhead
      <3>2. t \in Int
        BY DEF Seqs
      <3> QED BY <1>1, <3>1, <3>2
    <2>3. events'[s].work = events[s].work
      <3> SUFFICES ASSUME events'[s].work # events[s].work PROVE FALSE
        OBVIOUS
      <3>1. events[t].work = w /\ works[w].state = "absent"
        BY <1>3, <2>1, <2>2
      <3> QED BY <1>1, <1>2, <3>1 DEF EventRows
    <2> QED BY <1>2, <1>3, <2>1, <2>2, <2>3 DEF InOrder
  <1>6. EventRows(events', works')
    <2> SUFFICES ASSUME NEW s \in Seqs
                 PROVE  /\ events'[s].state \notin {"absent", "pending"} =>
                             events'[s].work # None
                        /\ events'[s].work # None =>
                             works'[events'[s].work].state # "absent"
                        /\ events'[s].kind = "user_message"
                             /\ events'[s].state \in TerminalStates =>
                             works'[events'[s].work].state \in TerminalStates
      BY DEF EventRows
    <2>1. works'[w].state # "absent"
      BY DEF Appends
    <2>2. CASE s = n \/ events'[s].work # events[s].work
      BY <1>1, <1>3, <2>1, <2>2, NotTerminal
    <2>3. CASE s # n /\ events'[s].work = events[s].work
      <3>1. /\ events[s].state \notin {"absent", "pending"} => events[s].work # None
            /\ events[s].work # None => works[events[s].work].state # "absent"
            /\ events[s].kind = "user_message" /\ events[s].state \in TerminalStates =>
                 works[events[s].work].state \in TerminalStates
        BY <1>2 DEF EventRows
      <3>2. events[s].work \in Works \cup {None}
        BY MailboxTypes
      <3>3. \A v \in Works : works[v].state # "absent" => works'[v].state = works[v].state
        BY <1>0 DEF KeepsRows
      <3> QED BY <1>3, <2>3, <3>1, <3>2, <3>3, NotTerminal
    <2> QED BY <2>2, <2>3
  <1>7. RequestRows(requests', events')
    <2> SUFFICES ASSUME NEW s \in Seqs, requests'[s].state # "absent"
                 PROVE  /\ events'[s].state # "absent"
                        /\ events'[s].kind = "user_message"
                        /\ requests'[s].work = events'[s].work
                        /\ requests'[s].state \in TerminalStates =>
                             events'[s].state = requests'[s].state
      BY DEF RequestRows
    <2>1. CASE s = n
      BY <1>1, <2>1, NotTerminal DEF Appends
    <2>2. CASE s # n
      <3>1. /\ requests'[s].state = requests[s].state
            /\ requests[s].state # "absent" => requests'[s].work = events'[s].work
        BY <2>2 DEF Appends
      <3> QED BY <1>2, <1>3, <2>2, <3>1 DEF RequestRows
    <2> QED BY <2>1, <2>2
  <1>8. NoRowAhead'
    <2> SUFFICES ASSUME NEW s \in Seqs, s > n PROVE events'[s].state = "absent"
      BY <1>1 DEF NoRowAhead
    <2>1. s \in Int
      BY DEF Seqs
    <2>2. s # n /\ s > nextSeq
      BY <1>1, <2>1
    <2> QED BY <1>3, <2>2 DEF MailboxInv, NoRowAhead
  <1>9. AllIncorporated'
    BY <1>0 DEF MailboxInv, AllIncorporated
  <1>10. CancelInHand'
    <2> SUFFICES ASSUME pc = "cancel"
                 PROVE  /\ ctl \in Seqs /\ events'[ctl].state = "pending"
                        /\ events'[ctl].kind = "cancel_requested"
                        /\ events'[ctl].work # None
      BY <1>0 DEF CancelInHand
    <2>1. /\ ctl \in Seqs /\ events[ctl].state = "pending"
          /\ events[ctl].kind = "cancel_requested" /\ events[ctl].work # None
      BY DEF MailboxInv, CancelInHand
    <2> QED BY <1>1, <1>3, <2>1
  <1>11. AcquiredActorHasWork'
    BY <1>0, AppendReady DEF MailboxInv, AcquiredActorHasWork
  <1> QED
    BY <1>0, <1>4, <1>5, <1>6, <1>7, <1>8, <1>9, <1>10, <1>11 DEF MailboxInv

\* A message that joins or opens a work item.
LEMMA MessageAppends ==
  ASSUME MailboxInv, NEW a \in Audiences, NEW w \in Works,
         AppendEvent(UserMessage(a, w)),
         \/ JoinOrOpen(w, a)
         \/ /\ w \in Fresh(works, Works)
            /\ works' = [works EXCEPT ![w] = OpenWork("external", a)],
         \/ UNCHANGED requests
         \/ requests' = [requests EXCEPT ![nextSeq + 1] = [state |-> "active", work |-> w]]
  PROVE  Appends(w)
  <1> DEFINE n == nextSeq + 1
  <1>0. /\ n \in Seqs /\ nextSeq' = n
        /\ events' = [events EXCEPT ![n] = UserMessage(a, w)]
    BY MailboxTypes DEF AppendEvent, TypeOK, Seqs
  <1>1. events[n].state = "absent" /\ requests[n].state = "absent"
    BY <1>0, FreeSequence
  <1>2. /\ events'[n].state = "pending" /\ events'[n].work = w
        /\ events'[n].kind = "user_message"
        /\ \A s \in Seqs \ {n} : events'[s] = events[s]
    BY <1>0, MailboxTypes DEF UserMessage
  <1>3. /\ \A s \in Seqs \ {n} : requests'[s] = requests[s]
        /\ requests'[n].state # "absent" =>
             requests'[n].state = "active" /\ requests'[n].work = w
    BY <1>0, <1>1, MailboxTypes
  <1>4. /\ works'[w].state # "absent"
        /\ works[w].state = "absent" => works'[w].state = "ready" /\ works'[w].due
        /\ \A v \in Works : works[v].state # "absent" =>
             works'[v].cancelRequested = works[v].cancelRequested
    BY MailboxTypes DEF JoinOrOpen, OpenWork, Fresh
  <1>5. \A s \in Seqs : requests[s].state # "absent" => requests[s].work = events[s].work
    BY DEF MailboxInv, RequestRows
  <1> QED BY <1>0, <1>2, <1>3, <1>4, <1>5 DEF Appends

\* A cancellation of the request s.
LEMMA CancelAppends ==
  ASSUME MailboxInv, NEW s \in Seqs, CancelForActor(s)
  PROVE  \E w \in Works : Appends(w)
  <1> DEFINE n == nextSeq + 1
             detached == requests[s].work = None
             Row(w, reqs) ==
               [state |-> "pending", kind |-> "cancel_requested",
                audience |-> ActorPrivate, work |-> w,
                targets |-> CancelTargets(reqs, w)]
             Item(w) == IF detached THEN OpenWork("interactive", ActorPrivate)
                        ELSE works[w]
  <1>1. PICK w \in Works :
          /\ nextSeq < MaxSeq /\ nextSeq' = n
          /\ IF detached THEN w \in Fresh(works, Works) ELSE w = requests[s].work
          /\ requests' = [requests EXCEPT ![s].work = w]
          /\ events' = [events EXCEPT
               ![s].work = IF detached /\ @ = None /\ events[s].state = "pending"
                           THEN w ELSE @,
               ![n] = Row(w, requests')]
          /\ works' = [works EXCEPT ![w] = [Item(w) EXCEPT !.cancelRequested = TRUE]]
    BY MailboxTypes DEF CancelForActor, Fresh, None
  <1>2. n \in Seqs
    BY <1>1, MailboxTypes DEF TypeOK, Seqs
  <1>3. /\ events[n].state = "absent" /\ requests[n].state = "absent"
        /\ requests[s].state = "active" /\ s # n
    BY <1>2, FreeSequence DEF CancelForActor
  <1>4. /\ events[s].state # "absent" /\ requests[s].work = events[s].work
        /\ detached => events[s].state = "pending"
    BY <1>3, MailboxTypes, NotTerminal DEF MailboxInv, RequestRows, EventRows
  <1>5. /\ events'[n].state = "pending" /\ events'[n].work = w
        /\ events'[n].kind = "cancel_requested"
    <2>1. events'[n] = Row(w, requests')
      <3> HIDE DEF Row
      <3> QED BY <1>1, <1>2, MailboxTypes
    <2> QED BY <2>1
  <1>6. /\ \A t \in Seqs \ {n, s} : events'[t] = events[t]
        /\ events'[s].state = events[s].state /\ events'[s].kind = events[s].kind
        /\ events'[s].work = w
        /\ detached => events[s].work = None /\ works[w].state = "absent"
        /\ ~detached => events'[s].work = events[s].work
    <2>1. /\ \A t \in Seqs \ {n, s} : events'[t] = events[t]
          /\ events'[s] = [events[s] EXCEPT !.work =
               IF detached /\ @ = None /\ events[s].state = "pending" THEN w ELSE @]
      <3> HIDE DEF Row, detached
      <3> QED BY <1>1, <1>2, <1>3, MailboxTypes
    <2>2. events[s] \in EventRecords
      BY MailboxTypes
    <2>3. /\ events'[s].state = events[s].state /\ events'[s].kind = events[s].kind
          /\ events'[s].work = IF detached /\ events[s].work = None
                                    /\ events[s].state = "pending"
                               THEN w ELSE events[s].work
      BY <2>1, <2>2 DEF EventRecords
    <2>4. detached => w \in Fresh(works, Works)
      BY <1>1
    <2>5. ~detached => w = requests[s].work
      BY <1>1
    <2> QED BY <1>4, <2>1, <2>3, <2>4, <2>5 DEF Fresh
  <1>7. /\ \A t \in Seqs \ {s} : requests'[t] = requests[t]
        /\ requests'[s].state = requests[s].state /\ requests'[s].work = w
    BY <1>1, MailboxTypes DEF RequestRecords
  <1>8. /\ works'[w].state # "absent"
        /\ works[w].state = "absent" => works'[w].state = "ready" /\ works'[w].due
        /\ \A v \in Works \ {w} : works'[v] = works[v]
    <2>1. works'[w] = [Item(w) EXCEPT !.cancelRequested = TRUE]
            /\ \A v \in Works \ {w} : works'[v] = works[v]
      <3> HIDE DEF Item
      <3> QED BY <1>1, MailboxTypes
    <2>2. CASE detached
      BY <2>1, <2>2 DEF OpenWork
    <2>3. CASE ~detached
      <3>1. works[w].state # "absent"
        <4>1. w = events[s].work /\ w # None
          BY <1>1, <1>4, <2>3
        <4> QED BY <4>1 DEF MailboxInv, EventRows
      <3>2. works[w] \in WorkRecords
        BY MailboxTypes
      <3> QED BY <2>1, <2>3, <3>1, <3>2 DEF WorkRecords
    <2> QED BY <2>1, <2>2, <2>3
  <1>9. \A t \in Seqs : requests[t].state # "absent" => requests[t].work = events[t].work
    BY DEF MailboxInv, RequestRows
  <1>10. Appends(w)
    <2>1. \A t \in Seqs \ {n} :
            /\ events'[t].state = events[t].state /\ events'[t].kind = events[t].kind
            /\ \/ events'[t].work = events[t].work
               \/ /\ events[t].state = "pending" /\ events[t].work = None
                  /\ events'[t].work = w /\ works[w].state = "absent"
                  /\ events'[n].kind = "cancel_requested"
            /\ requests'[t].state = requests[t].state
            /\ requests[t].state # "absent" => requests'[t].work = events'[t].work
      <3> SUFFICES ASSUME NEW t \in Seqs \ {n}
                   PROVE  /\ events'[t].state = events[t].state
                          /\ events'[t].kind = events[t].kind
                          /\ \/ events'[t].work = events[t].work
                             \/ /\ events[t].state = "pending" /\ events[t].work = None
                                /\ events'[t].work = w /\ works[w].state = "absent"
                                /\ events'[n].kind = "cancel_requested"
                          /\ requests'[t].state = requests[t].state
                          /\ requests[t].state # "absent" =>
                               requests'[t].work = events'[t].work
        OBVIOUS
      <3>1. CASE t = s /\ detached
        BY <1>4, <1>5, <1>6, <1>7, <3>1
      <3>3. CASE t = s /\ ~detached
        BY <1>4, <1>6, <1>7, <3>3
      <3>2. CASE t # s
        <4>1. events'[t] = events[t] /\ requests'[t] = requests[t]
          BY <1>6, <1>7, <3>2
        <4> QED BY <1>9, <4>1
      <3> QED BY <3>1, <3>2, <3>3
    <2>2. nextSeq' = n /\ requests'[n].state = "absent"
      BY <1>1, <1>2, <1>3, <1>7
    <2>3. \A v \in Works : works[v].state # "absent" =>
            \/ works'[v].cancelRequested = works[v].cancelRequested
            \/ v = w /\ events'[n].kind = "cancel_requested"
      BY <1>5, <1>8
    <2> HIDE DEF detached
    <2> QED BY <1>2, <1>5, <1>8, <2>1, <2>2, <2>3 DEF Appends
  <1> QED BY <1>10

\* Ingress keeps the tables in step, at any moment of a quantum.
LEMMA IngressMailbox == MailboxInv /\ Ingress => MailboxInv'
  <1> SUFFICES ASSUME MailboxInv, Ingress PROVE MailboxInv' OBVIOUS
  <1>1. \A a \in Audiences : IngressWork(a) \subseteq Works
    BY DEF IngressWork, Joinable, Fresh
  <1>2. CASE SubmitForActor
    <2>1. PICK w \in Works :
            /\ AppendEvent(UserMessage(ActorPrivate, w)) /\ JoinOrOpen(w, ActorPrivate)
            /\ requests' = [requests EXCEPT ![nextSeq + 1] =
                              [state |-> "active", work |-> w]]
      BY <1>1, <1>2 DEF SubmitForActor
    <2> QED BY <2>1, MessageAppends, AppendMailbox
  <1>3. ASSUME NEW a \in Audiences, Ingest(a) PROVE MailboxInv'
    <2>1. PICK w \in Works :
            /\ AppendEvent(UserMessage(a, w)) /\ JoinOrOpen(w, a)
            /\ UNCHANGED requests
      BY <1>1, <1>3 DEF Ingest
    <2> QED BY <2>1, MessageAppends, AppendMailbox
  <1>4. CASE IngestWebhook
    <2>1. PICK w \in Works :
            /\ w \in Fresh(works, Works)
            /\ AppendEvent(UserMessage(ActorPrivate, w))
            /\ works' = [works EXCEPT ![w] = OpenWork("external", ActorPrivate)]
            /\ UNCHANGED requests
      BY <1>4 DEF IngestWebhook, Fresh
    <2> QED BY <2>1, MessageAppends, AppendMailbox
  <1>5. ASSUME NEW s \in Seqs, CancelForActor(s) PROVE MailboxInv'
    BY <1>5, CancelAppends, AppendMailbox
  <1> QED BY <1>2, <1>3, <1>4, <1>5 DEF Ingress

-----------------------------------------------------------------------------
(* The theorems.                                                           *)

\* The strengthened invariant is inductive.
LEMMA MailboxInductive == MailboxInv /\ [Next]_vars => MailboxInv'
  <1> SUFFICES ASSUME MailboxInv, [Next]_vars PROVE MailboxInv' OBVIOUS
  <1>1. CASE Next
    BY <1>1, IngressMailbox, AttachMailbox, RunStepMailbox, OtherMailbox,
       FinalizeMailbox, CancelMailbox, TerminalizeMailbox
    DEF Next, QuantumStep, QuantumRunStep, OtherStep
  <1>2. CASE UNCHANGED vars
    <2>1. RunTableInv'
      BY <1>2, RunTableInductive DEF MailboxInv
    <2>2. UNCHANGED <<nextSeq, events, requests, works, runs, pc, cur, ctl>>
      BY <1>2 DEF vars
    <2>3. SameAttachments /\ KeepsSettled
      BY <2>2 DEF SameAttachments, KeepsSettled
    <2>4. AllIncorporated' /\ CancelInHand'
      BY <2>2 DEF MailboxInv, AllIncorporated, CancelInHand
    <2>5. AcquiredActorHasWork'
      BY <2>2, StillReady DEF MailboxInv, AcquiredActorHasWork
    <2> QED BY <2>1, <2>2, <2>3, <2>4, <2>5, KeepTables DEF MailboxInv
  <1> QED BY <1>1, <1>2

\* The tables of the mailbox satisfy the strengthened invariant in every
\* reachable state.
THEOREM MailboxInvariant == Spec => []MailboxInv
  BY InitMailbox, MailboxInductive, PTL DEF Spec

\* Events, requests and the attachments of runs are in step in every state,
\* whatever is ingested, cancelled, retried or detached between two
\* transactions of the quantum: a processing event has exactly one active run,
\* and a request is settled with its event and under its event's work item.
THEOREM TablesAlwaysInStep == Spec => []TablesInStep
  <1>1. MailboxInv => TablesInStep
    <2> SUFFICES ASSUME MailboxInv PROVE AttachmentsConsistent /\ RequestsFollowEvents
      BY DEF TablesInStep
    <2>1. AttachmentsConsistent
      <3>1. \A r \in Runs : runs[r].attached \subseteq Seqs
        BY MailboxTypes
      <3>2. Attachments(events, runs)
        BY DEF MailboxInv
      <3> QED BY <3>1, <3>2 DEF Attachments, AttachmentsConsistent
    <2>2. RequestsFollowEvents
      BY DEF MailboxInv, RequestRows, RequestsFollowEvents
    <2> QED BY <2>1, <2>2
  <1> QED BY <1>1, MailboxInvariant, PTL

\* Messages of a work item are attached in mailbox order: no attachment limit,
\* preemption, cancellation or detachment lets a later one overtake.
THEOREM AlwaysAttachedInOrder == Spec => []AttachedInOrder
  <1>1. MailboxInv => AttachedInOrder
    BY DEF MailboxInv, InOrder, AttachedInOrder
  <1> QED BY <1>1, MailboxInvariant, PTL

\* An actor that was found ready has a run to resume or an event to start one
\* with when attach_next_run selects, although ingress and cancellation may
\* come between the two transactions.
THEOREM AcquiredActorAlwaysHasWork == Spec => []AcquiredActorHasWork
  <1>1. MailboxInv => AcquiredActorHasWork
    BY DEF MailboxInv
  <1> QED BY <1>1, MailboxInvariant, PTL

-----------------------------------------------------------------------------
(* Why the daemon stops.  When the quantum reports, the progress fence     *)
(* accepts its run, or the run ended failed_terminal because no bundle     *)
(* could carry its answer; when it records a failure, the failure fence    *)
(* accepts its run, or the quantum has just blocked it (RunnerOwnsRun).    *)

ReportsToFence ==
    pc = "report" =>
      /\ cur \in Runs
      /\ ProgressFence(cur) \/ runs[cur].state = "failed_terminal"

DaemonInv == RunTableInv /\ ReportsToFence

LEMMA InitDaemon == Init => DaemonInv
  BY InitRunTable DEF Init, DaemonInv, ReportsToFence

\* What other tasks do while the quantum is about to report does not move its
\* run or its work item.
LEMMA ReportUndisturbed ==
  ASSUME DaemonInv, KeepsRows, UNCHANGED <<runs, pc, cur>>
  PROVE  ReportsToFence'
  <1> SUFFICES ASSUME pc = "report"
               PROVE  ProgressFence(cur)' \/ runs[cur].state = "failed_terminal"
    BY DEF ReportsToFence, DaemonInv
  <1>1. cur \in Runs
    BY DEF DaemonInv, ReportsToFence
  <1>2. CASE runs[cur].state = "failed_terminal"
    BY <1>2
  <1>3. CASE ProgressFence(cur)
    <2>1. runs[cur].state # "absent"
      <3>1. runs[cur].state \in {"active", "completed", "cancelled"}
        BY <1>3 DEF ProgressFence
      <3> QED BY <3>1
    <2>2. runs[cur].work \in Works /\ works[runs[cur].work].state # "absent"
      BY <1>1, <2>1, RunRow DEF DaemonInv
    <2>3. works'[runs[cur].work].state = works[runs[cur].work].state
      BY <2>2 DEF KeepsRows
    <2> QED BY <1>3, <2>3 DEF ProgressFence
  <1> QED BY <1>1, <1>2, <1>3 DEF DaemonInv, ReportsToFence

\* Every step that ends in a report leaves a run the fence accepts, but the
\* replacement of an answer no bundle can carry.
LEMMA DaemonInductive == DaemonInv /\ [Next]_vars => DaemonInv'
  <1> SUFFICES ASSUME DaemonInv, [Next]_vars PROVE ReportsToFence'
    BY RunTableInductive DEF DaemonInv
  <1>0. /\ TypeOK /\ RunnerOwnsRun
        /\ runs \in [Runs -> RunRecords] /\ works \in [Works -> WorkRecords]
    BY DEF DaemonInv, RunTableInv, TypeOK
  <1>1. CASE Ingress
    <2>1. KeepsRows /\ UNCHANGED <<runs, pc, cur>>
      BY <1>1, IngressKeepsRows DEF DaemonInv
    <2> QED BY <2>1, ReportUndisturbed
  <1>2. CASE (\E w \in Works : BackoffElapses(w)) \/ LeaseExpires \/ UNCHANGED vars
    <2>1. KeepsRows
      BY <1>0, <1>2 DEF BackoffElapses, LeaseExpires, ingressVars, vars, KeepsRows,
         WorkRecords
    <2>2. UNCHANGED <<runs, pc, cur>>
      BY <1>2 DEF BackoffElapses, LeaseExpires, runnerVars, vars
    <2> QED BY <2>1, <2>2, ReportUndisturbed
  <1>3. CASE FindControl \/ YieldAfterLastStep
    <2>1. UNCHANGED <<runs, works, cur>> /\ pc \in ExecutingStates
      BY <1>3 DEF FindControl, FoundCancel, YieldAfterLastStep, Goto, durableVars,
         ExecutingStates
    <2>2. pc \in {"step", "model", "tool"}
      BY <1>3 DEF FindControl, YieldAfterLastStep
    <2>3. cur \in Runs /\ runs[cur].state = "active" /\ works[runs[cur].work].state = "ready"
      BY <1>0, <2>1, <2>2 DEF RunnerOwnsRun, Due, HasBlocked
    <2> QED BY <2>1, <2>3 DEF ReportsToFence, ProgressFence
  <1>4. CASE WaitForDecision
    <2>1. UNCHANGED <<runs, works, cur>> /\ pc \in ExecutingStates
      BY <1>4 DEF WaitForDecision, Goto, durableVars, ExecutingStates
    <2>2. /\ cur \in Runs /\ runs[cur].state = "active"
          /\ Due(runs[cur].work) \/ HasBlocked
      BY <1>0, <2>1 DEF RunnerOwnsRun
    <2> QED BY <2>1, <2>2 DEF ReportsToFence, ProgressFence, Due, HasBlocked
  <1>5. CASE CancelRun
    <2>1. cur \in Runs /\ runs[cur].state = "active" /\ cur' = cur
      BY <1>0, <1>5 DEF CancelRun, Progress, RunnerOwnsRun, ExecutingStates
    <2>2. runs[cur].work \in Works
      BY <2>1, RunRow DEF DaemonInv
    <2>3. runs'[cur].state = "cancelled" /\ runs'[cur].work = runs[cur].work
      <3>1. runs' = [runs EXCEPT ![cur].state = "cancelled",
                                 ![cur].attempt = StopAttempt(cur)]
        BY <1>5 DEF CancelRun
      <3> QED BY <1>0, <2>1, <3>1 DEF RunRecords
    <2>4. works'[runs[cur].work].state = "cancelled"
      BY <1>0, <1>5, <2>2 DEF CancelRun, WorkRecords
    <2> QED BY <2>1, <2>3, <2>4 DEF ReportsToFence, ProgressFence
  <1>6. CASE FinalizeRun
    <2>1. cur \in Runs /\ runs[cur].state = "active" /\ cur' = cur
      BY <1>0, <1>6 DEF FinalizeRun, Progress, RunnerOwnsRun, ExecutingStates
    <2>2. runs[cur].work \in Works
      BY <2>1, RunRow DEF DaemonInv
    <2>3. PICK x \in {"completed", "failed_terminal"} :
            /\ runs' = [runs EXCEPT ![cur].state = x]
            /\ works' = [works EXCEPT ![runs[cur].work].state = x]
      BY <1>6 DEF FinalizeRun, FinalStates, SettleRun
    <2>4. runs'[cur].state = x /\ runs'[cur].work = runs[cur].work
      BY <1>0, <2>1, <2>3 DEF RunRecords
    <2>5. works'[runs[cur].work].state = x
      BY <1>0, <2>2, <2>3 DEF WorkRecords
    <2> QED BY <2>1, <2>4, <2>5 DEF ReportsToFence, ProgressFence
  <1>7. CASE
          \/ AcquireReadyActor \/ AttachNextRun \/ ReattachRun \/ Incorporate
          \/ NoUnresolvedAttempt \/ RecoverPrepared \/ RecoverRunning
          \/ BlockUnknownAttempt \/ CheckpointObservation \/ BeginModelStep
          \/ ModelAnswers \/ ModelCallsTool \/ StartTool \/ FinishTool
          \/ Preempted
    <2>1. pc' # "report"
      BY <1>7 DEF AcquireReadyActor, AttachNextRun, ReattachRun, ResumeRun, NewRun,
         StartRun, Incorporate, IncorporateEvents, NoUnresolvedAttempt,
         RecoverPrepared, RecoverRunning, BlockUnknownAttempt,
         CheckpointObservation, BeginModelStep, ModelAnswers, ModelCallsTool,
         StartTool, FinishTool, Preempted, Goto,
         Progress
    <2> QED BY <2>1 DEF ReportsToFence
  <1>8. CASE
          \/ Retry \/ Terminalize \/ RecordProgress \/ NoProgress
          \/ FenceRejected \/ FailureRejected \/ ReleaseLease \/ WorkError
          \/ ExecutionTimeout \/ AuthorityLost
          \/ Crash \/ Shutdown \/ ExitAfterFailure \/ Restart
    <2>1. pc' # "report"
      BY <1>8 DEF Retry, Terminalize, RecordProgress, NoProgress, FenceRejected,
         FailureRejected, ReleaseLease, WorkError, ExecutionTimeout,
         AuthorityLost, Crash, Shutdown, ExitAfterFailure, Restart,
         AuthorityUnavailable, StopProcess, EndQuantum, FoundCancel, Goto
    <2> QED BY <2>1 DEF ReportsToFence
  <1> QED
    BY <1>1, <1>2, <1>3, <1>4, <1>5, <1>6, <1>7, <1>8 DEF Next, QuantumStep

\* A step that stops the daemon, but for a lost lease or store, is the
\* rejection of one of those two ends.
LEMMA WhatStopsTheDaemon ==
  DaemonInv /\ [Next]_vars =>
    (pc # "stopped" /\ pc' = "stopped" /\ crashes' = crashes =>
       \/ pc = "report" /\ runs[cur].state = "failed_terminal"
       \/ /\ pc = "fail"
          /\ works[runs[cur].work].state = "waiting_for_decision"
          /\ runs[cur].attempt = "waiting_for_decision")
  <1> SUFFICES ASSUME DaemonInv, [Next]_vars,
                      pc # "stopped", pc' = "stopped", crashes' = crashes
               PROVE  \/ pc = "report" /\ runs[cur].state = "failed_terminal"
                      \/ pc = "fail" /\ HasBlocked
    BY DEF HasBlocked
  <1>1. FenceRejected \/ FailureRejected \/ AuthorityLost
    BY DEF Next, QuantumStep, vars, Ingress, SubmitForActor, Ingest, IngestWebhook,
       CancelForActor, AcquireReadyActor, AttachNextRun, ReattachRun, ResumeRun,
       NewRun, StartRun, Incorporate, IncorporateEvents, NoUnresolvedAttempt,
       WaitForDecision, RecoverPrepared, RecoverRunning, BlockUnknownAttempt,
       CheckpointObservation, FindControl, FoundCancel, BeginModelStep,
       YieldAfterLastStep, ModelAnswers, ModelCallsTool, StartTool, FinishTool,
       Preempted, FinalizeRun, CancelRun, Retry, Terminalize, RecordProgress,
       NoProgress, ReleaseLease, WorkError, ExecutionTimeout, BackoffElapses,
       LeaseExpires, Crash, Shutdown, ExitAfterFailure, Restart, StopProcess,
       EndQuantum, Goto, Progress, runnerVars
  <1>2. CASE AuthorityLost
    <2>1. crashes \in Nat
      BY BoundsAssumption DEF DaemonInv, RunTableInv, TypeOK
    <2> QED BY <1>2, <2>1 DEF AuthorityLost
  <1>3. CASE FenceRejected
    BY <1>3 DEF FenceRejected, DaemonInv, ReportsToFence
  <1>4. CASE FailureRejected
    <2>1. pc = "fail" /\ ~FailureFence(cur)
      BY <1>4 DEF FailureRejected
    <2>2. runs[cur].state = "active" /\ (Due(runs[cur].work) \/ HasBlocked)
      BY <2>1 DEF DaemonInv, RunTableInv, RunnerOwnsRun, ExecutingStates
    <2> QED BY <2>1, <2>2 DEF FailureFence, Due
  <1> QED BY <1>1, <1>2, <1>3, <1>4

\* Unless the lease or the store is lost, the daemon stops only after a quantum
\* whose answer no bundle could carry, or one that met its wall-time limit just
\* after it made its work item wait for a decision: no ingestion, cancellation,
\* preemption, retry or waiting in itself makes a fence reject the quantum.
THEOREM OnlyTwoEndsEverStopDaemon == Spec => OnlyTwoEndsStopDaemon
  <1>1. DaemonInv /\ [Next]_vars =>
          [pc # "stopped" /\ pc' = "stopped" /\ crashes' = crashes =>
             \/ pc = "report" /\ runs[cur].state = "failed_terminal"
             \/ /\ pc = "fail"
                /\ works[runs[cur].work].state = "waiting_for_decision"
                /\ runs[cur].attempt = "waiting_for_decision"]_vars
    BY WhatStopsTheDaemon
  <1> QED
    BY <1>1, InitDaemon, DaemonInductive, PTL DEF Spec, OnlyTwoEndsStopDaemon

-----------------------------------------------------------------------------
(* Why a run may complete over an unresolved tool attempt.  The recovery   *)
(* loop runs once after the attachment of a quantum, and a preempted       *)
(* finalization attaches again without it.                                 *)

\* Behind the recovery loop, the run at hand has an unresolved attempt only
\* while another one, the one it was taken instead of, is due.
SkippedOnlyForAnother ==
    pc \in {"step", "model", "finalize", "reattach", "reincorporate"}
      /\ runs[cur].attempt # "clear" => DueRuns \ {cur} # {}

RecoveryInv == RunTableInv /\ SkippedOnlyForAnother

\* A run that is due stays so while other tasks run and while the quantum
\* works on its own run.
LEMMA OthersStayDue ==
  ASSUME RunTableInv, KeepsRows, SameRuns
  PROVE  DueRuns \subseteq DueRuns'
  <1> SUFFICES ASSUME NEW r \in Runs, runs[r].state = "active", Due(runs[r].work)
               PROVE  r \in DueRuns'
    BY DEF DueRuns
  <1>1. runs[r].work \in Works /\ works[runs[r].work].state # "absent"
    BY RunRow
  <1> QED BY <1>1 DEF KeepsRows, SameRuns, DueRuns, Due

LEMMA RecoveryInductive == RecoveryInv /\ [Next]_vars => RecoveryInv'
  <1> SUFFICES ASSUME RecoveryInv, [Next]_vars PROVE SkippedOnlyForAnother'
    BY RunTableInductive DEF RecoveryInv
  <1>0. /\ TypeOK /\ RunnerOwnsRun
        /\ runs \in [Runs -> RunRecords] /\ works \in [Works -> WorkRecords]
    BY DEF RecoveryInv, RunTableInv, TypeOK
  <1>1. ASSUME KeepsRows, UNCHANGED <<runs, pc, cur>>
        PROVE  SkippedOnlyForAnother'
    <2>1. DueRuns \subseteq DueRuns'
      BY <1>1, OthersStayDue DEF RecoveryInv, SameRuns
    <2> QED BY <1>1, <2>1 DEF RecoveryInv, SkippedOnlyForAnother
  <1>2. CASE Ingress
    BY <1>1, <1>2, IngressKeepsRows DEF RecoveryInv
  <1>3. CASE (\E w \in Works : BackoffElapses(w)) \/ LeaseExpires \/ UNCHANGED vars
    <2>1. KeepsRows
      BY <1>0, <1>3 DEF BackoffElapses, LeaseExpires, ingressVars, vars, KeepsRows,
         WorkRecords
    <2>2. UNCHANGED <<runs, pc, cur>>
      BY <1>3 DEF BackoffElapses, LeaseExpires, runnerVars, vars
    <2> QED BY <1>1, <2>1, <2>2
  <1>4. CASE BeginModelStep \/ ModelAnswers \/ Preempted
    <2>1. UNCHANGED <<runs, works, cur>>
          /\ pc \in {"step", "model", "finalize"}
      BY <1>4 DEF BeginModelStep, ModelAnswers, Preempted, Goto, durableVars
    <2> QED BY <2>1 DEF RecoveryInv, SkippedOnlyForAnother, DueRuns, Due
  <1>5. CASE Incorporate
    <2>1. /\ cur' = cur /\ works' = works
          /\ runs' = [runs EXCEPT ![cur].incorporated = runs[cur].attached]
          /\ pc' = "recover" \/ (pc = "reincorporate" /\ pc' = "step")
      BY <1>5 DEF Incorporate, IncorporateEvents, Goto, ingressVars
    <2>2. \A r \in Runs : /\ runs'[r].state = runs[r].state /\ runs'[r].work = runs[r].work
                          /\ runs'[r].attempt = runs[r].attempt
      BY <1>0, <2>1 DEF RunRecords
    <2>3. pc \in {"incorporate", "reincorporate"}
      BY <1>5 DEF Incorporate
    <2>4. cur \in Runs
      BY <1>0, <2>3 DEF RunnerOwnsRun, ExecutingStates
    <2> QED BY <2>1, <2>2, <2>4 DEF RecoveryInv, SkippedOnlyForAnother, DueRuns, Due
  <1>6. CASE NoUnresolvedAttempt \/ WaitForDecision
    BY <1>6 DEF NoUnresolvedAttempt, WaitForDecision, Goto, durableVars,
       SkippedOnlyForAnother
  <1>7. CASE CheckpointObservation
    <2>1. cur \in Runs /\ cur' = cur
      BY <1>0, <1>7 DEF CheckpointObservation, Progress, RunnerOwnsRun, ExecutingStates
    <2>2. runs'[cur].attempt = "clear"
      BY <1>0, <1>7, <2>1 DEF CheckpointObservation, SetAttempt, RunRecords
    <2> QED BY <2>1, <2>2 DEF SkippedOnlyForAnother
  <1>8. CASE ReattachRun
    <2>1. PICK r \in Runs : ResumeRun(r, "reincorporate")
      BY <1>8 DEF ReattachRun
    <2>2. /\ cur \in Runs /\ runs[cur].state = "active" /\ Due(runs[cur].work)
          /\ pc = "reattach"
      BY <1>0, <1>8 DEF ReattachRun, RunnerOwnsRun, ExecutingStates, HasBlocked
    <2>3. PICK all, o :
            /\ runs' = [runs EXCEPT ![r].attached = all, ![r].observed = o,
                                    ![r].generation = lease.generation]
            /\ cur' = r /\ works' = works
      BY <2>1 DEF ResumeRun, AttachEvents
    <2>4. \A q \in Runs : /\ runs'[q].state = runs[q].state /\ runs'[q].work = runs[q].work
                          /\ runs'[q].attempt = runs[q].attempt
      BY <1>0, <2>3 DEF RunRecords
    <2>5. DueRuns' = DueRuns
      BY <2>3, <2>4 DEF DueRuns, Due
    <2>6. CASE r = cur
      BY <2>2, <2>3, <2>4, <2>5, <2>6 DEF RecoveryInv, SkippedOnlyForAnother
    <2>7. CASE r # cur
      <3>1. cur \in DueRuns' \ {cur'}
        BY <2>2, <2>3, <2>5, <2>7 DEF DueRuns
      <3> QED BY <3>1 DEF SkippedOnlyForAnother
    <2> QED BY <2>6, <2>7
  <1>9. CASE
          \/ AcquireReadyActor \/ AttachNextRun \/ RecoverPrepared \/ RecoverRunning
          \/ BlockUnknownAttempt \/ FindControl \/ YieldAfterLastStep
          \/ ModelCallsTool \/ StartTool \/ FinishTool
    <2>1. pc' \notin {"step", "model", "finalize", "reattach", "reincorporate"}
      BY <1>9 DEF AcquireReadyActor, AttachNextRun, ResumeRun, NewRun, StartRun,
         RecoverPrepared, RecoverRunning, BlockUnknownAttempt, FindControl,
         FoundCancel, YieldAfterLastStep, ModelCallsTool, StartTool, FinishTool,
         Goto, Progress
    <2> QED BY <2>1 DEF SkippedOnlyForAnother
  <1>10. CASE
          \/ FinalizeRun \/ CancelRun \/ Retry \/ Terminalize \/ RecordProgress
          \/ NoProgress \/ FenceRejected \/ FailureRejected \/ ReleaseLease \/ WorkError
          \/ ExecutionTimeout \/ AuthorityLost \/ Crash \/ Shutdown
          \/ ExitAfterFailure \/ Restart
    <2>1. pc' \notin {"step", "model", "finalize", "reattach", "reincorporate"}
      BY <1>10 DEF FinalizeRun, CancelRun, Retry, Terminalize, RecordProgress,
         NoProgress, FenceRejected, FailureRejected, ReleaseLease, WorkError,
         ExecutionTimeout, AuthorityLost, Crash, Shutdown, ExitAfterFailure,
         Restart, AuthorityUnavailable, StopProcess, EndQuantum, FoundCancel,
         Goto, Progress
    <2> QED BY <2>1 DEF SkippedOnlyForAnother
  <1> QED
    BY <1>2, <1>3, <1>4, <1>5, <1>6, <1>7, <1>8, <1>9, <1>10 DEF Next, QuantumStep

\* Only finalize_run completes a run.
LEMMA OnlyFinalizationCompletes ==
  ASSUME RunTableInv, [Next]_vars, NEW r \in Runs,
         runs[r].state = "active", runs'[r].state = "completed"
  PROVE  FinalizeRun /\ r = cur
  <1>0. runs \in [Runs -> RunRecords] /\ TypeOK
    BY DEF RunTableInv, TypeOK
  <1>1. ~Ingress
    BY IngressKeepsRows
  <1>2. ~QuantumRunStep
    <2>1. ASSUME NEW x, SetAttempt(x) PROVE runs'[r].state = runs[r].state
      BY <1>0, <2>1 DEF SetAttempt, RunRecords
    <2>2. ASSUME NEW next, IncorporateEvents(next) PROVE runs'[r].state = runs[r].state
      BY <1>0, <2>2 DEF IncorporateEvents, RunRecords
    <2> QED BY <2>1, <2>2
         DEF QuantumRunStep, Incorporate, NoUnresolvedAttempt, WaitForDecision,
         RecoverPrepared, RecoverRunning, CheckpointObservation, FindControl,
         BeginModelStep, YieldAfterLastStep, ModelAnswers, ModelCallsTool,
         StartTool, FinishTool, Preempted, NoProgress, durableVars
  <1>3. ~(AttachNextRun \/ ReattachRun)
    <2>1. ASSUME NEW evs, NEW wks, NEW rs \in [Runs -> RunRecords], NEW q \in Runs,
                 AttachEvents(evs, wks, rs, q)
          PROVE  runs'[r].state = rs[r].state
      <3>1. PICK all, o :
              runs' = [rs EXCEPT ![q].attached = all, ![q].observed = o,
                                 ![q].generation = lease.generation]
        BY <2>1 DEF AttachEvents
      <3> QED BY <3>1 DEF RunRecords
    <2>2. \A next : ~\E q \in Runs : ResumeRun(q, next)
      BY <1>0, <2>1 DEF ResumeRun
    <2>3. ASSUME NEW evs \in [Seqs -> EventRecords], NEW wks, NEW next,
                 StartRun(evs, wks, next)
          PROVE  FALSE
      <3>1. PICK s \in Seqs, q \in Runs :
              /\ runs[q].state = "absent"
              /\ AttachEvents(evs, wks,
                   [runs EXCEPT ![q] =
                      [state |-> "active", work |-> evs[s].work, observed |-> 0,
                       attached |-> {}, incorporated |-> {}, attempt |-> "clear",
                       generation |-> lease.generation]], q)
        BY <2>3 DEF StartRun, FirstByKind, Startable, Fresh
      <3> DEFINE row == [state |-> "active", work |-> evs[s].work, observed |-> 0,
                         attached |-> {}, incorporated |-> {}, attempt |-> "clear",
                         generation |-> lease.generation]
                 rs == [runs EXCEPT ![q] = row]
      <3>2. row \in RunRecords
        BY <1>0 DEF RunRecords, RunStates, AttemptStates, EventRecords, TypeOK,
           LeaseRecords
      <3>3. AttachEvents(evs, wks, rs, q)
        BY <3>1
      <3> HIDE DEF row
      <3>4. rs \in [Runs -> RunRecords] /\ rs[r] = runs[r]
        BY <1>0, <3>1, <3>2
      <3> HIDE DEF rs
      <3> QED BY <2>1, <3>3, <3>4
    <2>4. \A s \in Seqs, w \in Fresh(works, Works) :
            AssignEvent(s, w) \in [Seqs -> EventRecords]
      BY <1>0 DEF AssignEvent, EventRecords, TypeOK, Fresh
    <2>5. events \in [Seqs -> EventRecords]
      BY <1>0 DEF TypeOK
    <2> QED BY <2>2, <2>3, <2>4, <2>5 DEF AttachNextRun, ReattachRun, NewRun, Unassigned
  <1>4. ~(OtherStep \/ UNCHANGED vars)
    <2>1. CASE Restart
      <3>1. \A q \in Runs : runs'[q].state = runs[q].state
        BY <1>0, <2>1 DEF Restart, RunRecords
      <3> QED BY <3>1
    <2>2. CASE BlockUnknownAttempt
      BY <1>0, <2>2 DEF BlockUnknownAttempt, SetAttempt, RunRecords
    <2>3. ~((OtherStep /\ ~Restart /\ ~BlockUnknownAttempt) \/ UNCHANGED vars)
      BY DEF OtherStep, WorkError, ExecutionTimeout, Retry, BackoffElapses,
         RecordProgress, FenceRejected, FailureRejected, AuthorityLost,
         ReleaseLease, LeaseExpires, Crash, Shutdown, ExitAfterFailure,
         AcquireReadyActor, AuthorityUnavailable, StopProcess, EndQuantum,
         durableVars, ingressVars, vars
    <2> QED BY <2>1, <2>2, <2>3
  <1>5. ASSUME NEW x, NEW f, x # "completed",
               runs' = [runs EXCEPT ![cur].state = x, ![cur].attempt = f]
        PROVE  FALSE
    BY <1>0, <1>5 DEF RunRecords
  <1>6. ~CancelRun
    BY <1>5 DEF CancelRun
  <1>7. ~Terminalize
    <2> SUFFICES ASSUME Terminalize PROVE FALSE
      OBVIOUS
    <2>1. PICK a, f : runs' = [runs EXCEPT ![cur].state = "failed_terminal",
                                           ![cur].attached = a, ![cur].attempt = f]
      BY DEF Terminalize
    <2> QED BY <1>0, <2>1 DEF RunRecords
  <1>8. FinalizeRun
    BY <1>1, <1>2, <1>3, <1>4, <1>6, <1>7 DEF Next, QuantumStep, QuantumRunStep, OtherStep
  <1>9. r = cur
    <2>1. PICK x : runs' = [runs EXCEPT ![cur].state = x]
      BY <1>8 DEF FinalizeRun, SettleRun
    <2> QED BY <1>0, <2>1
  <1> QED BY <1>8, <1>9

\* Whatever fails, is cancelled or comes in, a run completes over a tool
\* attempt whose outcome is not known and observed only if the actor has
\* another run that is due: recovery is never skipped but by the attachment
\* after a preempted finalization.
THEOREM RecoveryComesBeforeTheAnswer == Spec => OnlyReattachmentSkipsRecovery
  <1>1. Init => RecoveryInv
    BY InitRunTable DEF RecoveryInv, SkippedOnlyForAnother, Init
  <1>2. RecoveryInv /\ [Next]_vars =>
          [\A r \in Runs :
             /\ runs[r].state = "active" /\ runs'[r].state = "completed"
             /\ runs[r].attempt # "clear"
             => DueRuns \ {r} # {}]_vars
    <2> SUFFICES ASSUME RecoveryInv, [Next]_vars, NEW r \in Runs,
                        runs[r].state = "active", runs'[r].state = "completed",
                        runs[r].attempt # "clear"
                 PROVE  DueRuns \ {r} # {}
      OBVIOUS
    <2>1. FinalizeRun /\ r = cur
      BY OnlyFinalizationCompletes DEF RecoveryInv
    <2> QED BY <2>1 DEF FinalizeRun, RecoveryInv, SkippedOnlyForAnother
  <1> QED BY <1>1, <1>2, RecoveryInductive, PTL DEF Spec, OnlyReattachmentSkipsRecovery

-----------------------------------------------------------------------------
(* An actor without tools and without errors: only ingress, cancellation,  *)
(* preemption, limits, crashes and shutdowns interleave with its quanta.   *)
(* Then at most one run is active, which is what the selection of a run by *)
(* a control event and the look at the newest input rely on.               *)

Calm == MaxFaults = 0 /\ "tool" \notin Inputs

\* No work item waits, backs off or failed, so an active run is always due and
\* resumed before another one is started.
OneActiveRun(rs) ==
    \A r, q \in Runs : rs[r].state = "active" /\ rs[q].state = "active" => r = q

CalmRows ==
    /\ pc \notin {"fail", "start", "tool", "observe"}
    /\ \A r \in Runs : runs[r].attempt = "clear"
    /\ \A w \in Works :
         works[w].due /\ works[w].state \notin {"waiting_for_decision", "failed_terminal"}
    /\ OneActiveRun(runs)

Open == {"pending", "processing"}

\* Nothing is ever detached: an event keeps its work item, which has its
\* audience and is ready as long as the event is open; and so is the event as
\* long as its request is.
Destined ==
    \A s \in Seqs :
      /\ events[s].state # "absent" =>
           /\ events[s].work # None
           /\ events[s].audience = works[events[s].work].audience
           /\ events[s].state \in Open => works[events[s].work].state = "ready"
      /\ requests[s].state # "absent" => events[s].audience = ActorPrivate
      /\ requests[s].state = "active" => events[s].state \in Open

\* Nothing joins a work item once it is being cancelled: a cancellation comes
\* after its messages, and snapshotted all of its requests.
CancelLast ==
    \A c \in Seqs :
      events[c].state = "pending" /\ events[c].kind = "cancel_requested" =>
        /\ works[events[c].work].cancelRequested
        /\ \A s \in Seqs :
             /\ events[s].state # "absent" /\ events[s].kind = "user_message"
                  /\ events[s].work = events[c].work => s < c
             /\ requests[s].state = "active" /\ requests[s].work = events[c].work =>
                  s \in events[c].targets
        /\ \A s \in events[c].targets :
             requests[s].state # "absent" /\ requests[s].work = events[c].work

\* The observed sequence is one of the run's messages.
Observed(evs, rs) ==
    \A r \in Runs :
      /\ \A s \in rs[r].attached : evs[s].kind = "user_message"
      /\ rs[r].state = "active" =>
           IF rs[r].attached = {} THEN rs[r].observed = 0
           ELSE rs[r].observed \in rs[r].attached

\* The cancellation in hand is for the run at hand.
OwnCancel == pc = "cancel" => events[ctl].work = runs[cur].work

CalmInv ==
    /\ MailboxInv
    /\ CalmRows
    /\ Destined
    /\ CancelLast
    /\ Observed(events, runs)
    /\ OwnCancel

\* The types of the rows that the calm actor's invariant speaks of.
LEMMA CalmTypes ==
  ASSUME CalmInv
  PROVE  /\ \A s \in Seqs : /\ events[s].state # "absent" => events[s].work \in Works
                            /\ events[s].audience \in Audiences
                            /\ events[s].targets \in SUBSET Seqs
         /\ \A r \in Runs : runs[r].observed \in Seqs \cup {0}
         /\ \A w \in Works : works[w].state = "absent" =>
              \A s \in Seqs : events[s].work # w
  <1>1. /\ events \in [Seqs -> EventRecords] /\ runs \in [Runs -> RunRecords]
        /\ \A s \in Seqs : events[s].work \in Works \cup {None}
    BY MailboxTypes DEF CalmInv
  <1>2. \A s \in Seqs : events[s].state # "absent" => events[s].work \in Works
    BY <1>1 DEF CalmInv, Destined
  <1>3. \A s \in Seqs : events[s].audience \in Audiences /\ events[s].targets \in SUBSET Seqs
    BY <1>1 DEF EventRecords
  <1>4. \A r \in Runs : runs[r].observed \in Seqs \cup {0}
    BY <1>1 DEF RunRecords
  <1>5. \A w \in Works : works[w].state = "absent" => \A s \in Seqs : events[s].work # w
    BY DEF CalmInv, MailboxInv, EventRows, Works, None
  <1> QED BY <1>2, <1>3, <1>4, <1>5

\* Steps that change neither the mailbox nor what these parts say of runs and
\* work items.
CalmFrame ==
    /\ UNCHANGED <<events, requests>>
    /\ \A w \in Works :
         /\ works'[w].state = works[w].state /\ works'[w].audience = works[w].audience
         /\ works'[w].cancelRequested = works[w].cancelRequested
         /\ works'[w].due
    /\ \A r \in Runs :
         /\ runs'[r].state = runs[r].state /\ runs'[r].attached = runs[r].attached
         /\ runs'[r].observed = runs[r].observed /\ runs'[r].attempt = "clear"

LEMMA CalmKept ==
  ASSUME CalmInv, MailboxInv', CalmFrame,
         pc' \notin {"fail", "start", "tool", "observe"}, OwnCancel'
  PROVE  CalmInv'
  <1>1. CalmRows'
    BY DEF CalmInv, CalmRows, CalmFrame, OneActiveRun
  <1>2. Destined'
    BY CalmTypes DEF CalmInv, Destined, CalmFrame
  <1>3. CancelLast'
    <2>1. \A c \in Seqs : events[c].state = "pending" => events[c].work \in Works
      BY CalmTypes
    <2> QED BY <2>1 DEF CalmInv, CancelLast, CalmFrame
  <1>4. Observed(events', runs')
    BY DEF CalmInv, Observed, CalmFrame
  <1> QED BY <1>1, <1>2, <1>3, <1>4 DEF CalmInv

LEMMA InitCalm == Init => CalmInv
  <1> SUFFICES ASSUME Init PROVE CalmInv OBVIOUS
  <1>1. MailboxInv
    BY InitMailbox
  <1>2. CalmRows /\ Destined /\ CancelLast /\ Observed(events, runs) /\ OwnCancel
    BY DEF Init, CalmRows, OneActiveRun, Destined, Open, CancelLast, Observed, OwnCancel
  <1> QED BY <1>1, <1>2 DEF CalmInv

\* The quantum's own steps between attachment and settlement.  Those of tools
\* and failures do not occur.
LEMMA RunStepCalm == Calm /\ CalmInv /\ QuantumRunStep => CalmInv'
  <1> SUFFICES ASSUME Calm, CalmInv, QuantumRunStep PROVE CalmInv' OBVIOUS
  <1>0. MailboxInv'
    BY RunStepMailbox DEF CalmInv
  <1>1. /\ runs \in [Runs -> RunRecords]
        /\ pc \notin {"fail", "start", "tool", "observe"}
        /\ \A r \in Runs : runs[r].attempt = "clear"
    BY MailboxTypes DEF CalmInv, CalmRows
  <1>2. pc \in ExecutingStates => cur \in Runs /\ runs[cur].state = "active"
    BY DEF CalmInv, MailboxInv, RunTableInv, RunnerOwnsRun
  <1>3. \/ Incorporate \/ NoUnresolvedAttempt \/ WaitForDecision
        \/ FindControl \/ BeginModelStep
        \/ YieldAfterLastStep \/ ModelAnswers \/ Preempted \/ NoProgress
    <2>1. ~(RecoverPrepared \/ RecoverRunning \/ CheckpointObservation)
      <3>1. pc \in {"recover", "observe"} => runs[cur].attempt = "clear"
        BY <1>1, <1>2 DEF ExecutingStates
      <3> QED BY <3>1 DEF RecoverPrepared, RecoverRunning, CheckpointObservation
    <2>2. ~(ModelCallsTool \/ StartTool \/ FinishTool)
      BY <1>1 DEF Calm, ModelCallsTool, StartTool, FinishTool
    <2> QED BY <2>1, <2>2 DEF QuantumRunStep
  <1>4. CalmFrame
    <2>1. UNCHANGED <<events, requests, works>>
      BY <1>3 DEF Incorporate, IncorporateEvents, NoUnresolvedAttempt,
         WaitForDecision, FindControl, BeginModelStep, YieldAfterLastStep,
         ModelAnswers, Preempted, NoProgress, durableVars, ingressVars
    <2>2. \A r \in Runs :
            /\ runs'[r].state = runs[r].state /\ runs'[r].attached = runs[r].attached
            /\ runs'[r].observed = runs[r].observed /\ runs'[r].attempt = runs[r].attempt
      <3>1. \A next : IncorporateEvents(next) =>
              \A r \in Runs :
                /\ runs'[r].state = runs[r].state /\ runs'[r].attached = runs[r].attached
                /\ runs'[r].observed = runs[r].observed /\ runs'[r].attempt = runs[r].attempt
        BY <1>1 DEF IncorporateEvents, RunRecords
      <3>2. Incorporate \/ runs' = runs
        BY <1>3 DEF NoUnresolvedAttempt, WaitForDecision, FindControl,
           BeginModelStep, YieldAfterLastStep, ModelAnswers, Preempted,
           NoProgress, durableVars
      <3> QED BY <3>1, <3>2 DEF Incorporate
    <2> QED BY <1>1, <2>1, <2>2 DEF CalmFrame, CalmInv, CalmRows
  <1>5. pc' \notin {"fail", "start", "tool", "observe"}
    BY <1>1, <1>3 DEF Incorporate, IncorporateEvents, NoUnresolvedAttempt,
       WaitForDecision, FindControl, FoundCancel, BeginModelStep,
       YieldAfterLastStep, ModelAnswers, Preempted, NoProgress, Goto
  <1>6. OwnCancel'
    <2> SUFFICES ASSUME pc' = "cancel" PROVE events'[ctl'].work = runs'[cur'].work
      BY DEF OwnCancel
    <2>1. FindControl
      BY <1>3 DEF Incorporate, IncorporateEvents, NoUnresolvedAttempt,
         WaitForDecision, BeginModelStep, YieldAfterLastStep, ModelAnswers,
         Preempted, NoProgress, Goto
    <2>2. ctl' \in NewerControl /\ UNCHANGED <<events, runs, cur>> /\ pc \in ExecutingStates
      BY <2>1 DEF FindControl, FoundCancel, Goto, durableVars, ExecutingStates
    <2>3. PICK r \in Runs : runs[r].state = "active" /\ runs[r].work = events[ctl'].work
      BY <2>2 DEF NewerControl, FirstByKind, Controls
    <2>4. r = cur
      BY <1>2, <2>2, <2>3 DEF CalmInv, CalmRows, OneActiveRun
    <2> QED BY <2>2, <2>3, <2>4
  <1> QED BY <1>0, <1>4, <1>5, <1>6, CalmKept

\* Progress, leases and the ends of a quantum, of the process and its start.
LEMMA OtherCalm == Calm /\ CalmInv /\ (OtherStep \/ UNCHANGED vars) => CalmInv'
  <1> SUFFICES ASSUME Calm, CalmInv, OtherStep \/ UNCHANGED vars PROVE CalmInv'
    OBVIOUS
  <1>0. MailboxInv'
    BY OtherMailbox, MailboxInductive DEF CalmInv
  <1>1. /\ runs \in [Runs -> RunRecords] /\ works \in [Works -> WorkRecords]
        /\ pc \notin {"fail", "start", "tool", "observe"}
        /\ \A r \in Runs : runs[r].attempt = "clear"
        /\ \A w \in Works : works[w].due
    BY MailboxTypes DEF CalmInv, CalmRows
  <1>2. ~(WorkError \/ ExecutionTimeout \/ Retry)
    <2>1. ~SpendFault
      BY MailboxTypes DEF Calm, CalmInv, TypeOK, SpendFault
    <2> QED BY <1>1, <2>1 DEF WorkError, ExecutionTimeout, Retry
  <1>3. ~(BlockUnknownAttempt \/ \E w \in Works : BackoffElapses(w))
    <2>1. pc = "recover" => runs[cur].attempt = "clear"
      BY <1>1 DEF CalmInv, MailboxInv, RunTableInv, RunnerOwnsRun, ExecutingStates
    <2> QED BY <1>1, <2>1 DEF BlockUnknownAttempt, BackoffElapses
  <1>4. \/ RecordProgress \/ FenceRejected \/ FailureRejected
        \/ AuthorityLost \/ ReleaseLease
        \/ LeaseExpires \/ Crash \/ Shutdown \/ ExitAfterFailure \/ Restart
        \/ AcquireReadyActor \/ UNCHANGED vars
    BY <1>2, <1>3 DEF OtherStep
  <1>5. runs' = runs
    <2>1. CASE Restart
      <3>1. Orphans = {}
        BY <1>1 DEF Orphans
      <3> QED BY <1>1, <2>1, <3>1 DEF Restart
    <2>2. CASE ~Restart
      BY <1>4, <2>2 DEF RecordProgress, FenceRejected, FailureRejected,
         AuthorityLost, ReleaseLease, LeaseExpires, Crash, Shutdown,
         ExitAfterFailure, AcquireReadyActor, AuthorityUnavailable, StopProcess,
         EndQuantum, vars
    <2> QED BY <2>1, <2>2
  <1>6. \A w \in Works :
          /\ works'[w].state = works[w].state /\ works'[w].audience = works[w].audience
          /\ works'[w].cancelRequested = works[w].cancelRequested
          /\ works'[w].due
    <2>1. CASE Restart
      <3>1. Orphans = {}
        BY <1>1 DEF Orphans
      <3> QED BY <1>1, <2>1, <3>1 DEF Restart
    <2>2. CASE RecordProgress
      <3> DEFINE v == runs[cur].work
      <3>1. works' = [works EXCEPT ![v].failures = 0, ![v].due = TRUE]
        BY <2>2 DEF RecordProgress
      <3> HIDE DEF v
      <3>2. \A w \in Works :
              works'[w] = IF w = v THEN [works[w] EXCEPT !.failures = 0, !.due = TRUE]
                          ELSE works[w]
        BY <1>1, <3>1
      <3>3. ASSUME NEW w \in Works
            PROVE  /\ works'[w].state = works[w].state
                   /\ works'[w].audience = works[w].audience
                   /\ works'[w].cancelRequested = works[w].cancelRequested
                   /\ works'[w].due
        <4>1. works[w] \in WorkRecords /\ works[w].due
          BY <1>1
        <4>2. CASE w = v
          <5>1. works'[w] = [works[w] EXCEPT !.failures = 0, !.due = TRUE]
            BY <3>2, <4>2
          <5> QED BY <4>1, <5>1 DEF WorkRecords
        <4>3. CASE w # v
          <5>1. works'[w] = works[w]
            BY <3>2, <4>3
          <5> QED BY <4>1, <5>1
        <4> QED BY <4>2, <4>3
      <3> QED BY <3>3
    <2>3. CASE ~Restart /\ ~RecordProgress
      BY <1>1, <1>4, <2>3 DEF FenceRejected, FailureRejected, AuthorityLost,
         ReleaseLease, LeaseExpires, Crash, Shutdown, ExitAfterFailure,
         AcquireReadyActor, AuthorityUnavailable, StopProcess, EndQuantum,
         ingressVars, vars
    <2> QED BY <2>1, <2>2, <2>3
  <1>7. UNCHANGED <<events, requests>>
    BY <1>4 DEF RecordProgress, FenceRejected, FailureRejected, AuthorityLost,
       ReleaseLease, LeaseExpires, Crash, Shutdown, ExitAfterFailure, Restart,
       AcquireReadyActor, AuthorityUnavailable, StopProcess, EndQuantum,
       ingressVars, vars
  <1>8. /\ pc' \notin {"fail", "start", "tool", "observe"}
        /\ pc' = "cancel" => UNCHANGED <<pc, cur, ctl>>
    BY <1>1, <1>4 DEF RecordProgress, FenceRejected, FailureRejected,
       AuthorityLost, ReleaseLease, LeaseExpires, Crash, Shutdown,
       ExitAfterFailure, Restart, AcquireReadyActor, AuthorityUnavailable,
       StopProcess, EndQuantum, Goto, runnerVars, vars
  <1>9. OwnCancel'
    BY <1>5, <1>7, <1>8 DEF CalmInv, OwnCancel
  <1>10. CalmFrame
    BY <1>1, <1>5, <1>6, <1>7 DEF CalmFrame
  <1> QED BY <1>0, <1>8, <1>9, <1>10, CalmKept

\* An attachment to the one active run takes messages of its work item.
LEMMA AttachCalm ==
  ASSUME CalmInv, MailboxInv',
         NEW rs \in [Runs -> RunRecords], NEW r \in Runs, rs[r].state = "active",
         \A q \in Runs : rs[q].attempt = "clear",
         OneActiveRun(rs), Observed(events, rs),
         AttachEvents(events, works, rs, r), UNCHANGED <<works, requests>>,
         pc' \in {"incorporate", "reincorporate"}
  PROVE  CalmInv'
  <1> DEFINE batch == Batch(events, works, rs, r)
             all   == rs[r].attached \cup batch
  <1>1. \A s \in batch : s \in Seqs /\ events[s].state = "pending"
                         /\ events[s].kind = "user_message"
    BY DEF Batch, Attachable
  <1>2. \A s \in Seqs :
          /\ events'[s].kind = events[s].kind /\ events'[s].work = events[s].work
          /\ events'[s].audience = events[s].audience
          /\ events'[s].targets = events[s].targets
          /\ events'[s].state = IF s \in batch THEN "processing" ELSE events[s].state
    <2>1. events' = [s \in Seqs |-> IF s \in batch
                                    THEN [events[s] EXCEPT !.state = "processing"]
                                    ELSE events[s]]
      BY DEF AttachEvents
    <2>2. events \in [Seqs -> EventRecords]
      BY MailboxTypes DEF CalmInv
    <2> HIDE DEF batch
    <2> QED BY <2>1, <2>2 DEF EventRecords
  <1>3. PICK o \in Seqs \cup {0} :
          /\ Observes(o, rs[r].observed, all)
          /\ runs' = [rs EXCEPT ![r].attached = all, ![r].observed = o,
                                ![r].generation = lease.generation]
    BY DEF AttachEvents
  <1>4. /\ \A q \in Runs \ {r} : runs'[q] = rs[q]
        /\ runs'[r].state = rs[r].state /\ runs'[r].attempt = rs[r].attempt
        /\ runs'[r].attached = all /\ runs'[r].observed = o
    <2> HIDE DEF all
    <2> QED BY <1>3 DEF RunRecords
  <1>5. CalmRows'
    <2>1. OneActiveRun(runs')
      BY <1>4 DEF OneActiveRun
    <2> QED BY <1>4, <2>1 DEF CalmInv, CalmRows
  <1>6. Destined'
    <2> HIDE DEF batch
    <2> SUFFICES ASSUME NEW s \in Seqs
                 PROVE  /\ events'[s].state # "absent" =>
                             /\ events[s].work # None
                             /\ events[s].audience = works[events[s].work].audience
                             /\ events'[s].state \in Open =>
                                  works[events[s].work].state = "ready"
                        /\ requests[s].state # "absent" => events[s].audience = ActorPrivate
                        /\ requests[s].state = "active" => events'[s].state \in Open
      BY <1>2 DEF Destined
    <2>1. /\ events[s].state # "absent" =>
               /\ events[s].work # None
               /\ events[s].audience = works[events[s].work].audience
               /\ events[s].state \in Open => works[events[s].work].state = "ready"
          /\ requests[s].state # "absent" => events[s].audience = ActorPrivate
          /\ requests[s].state = "active" => events[s].state \in Open
      BY DEF CalmInv, Destined
    <2> QED BY <1>1, <1>2, <2>1 DEF Open
  <1>7. CancelLast'
    <2> HIDE DEF batch
    <2>1. \A c \in Seqs : events'[c].state = "pending" => events[c].state = "pending"
      BY <1>2
    <2>2. \A s \in Seqs : events'[s].state # "absent" => events[s].state # "absent"
      BY <1>1, <1>2
    <2> QED BY <1>2, <2>1, <2>2 DEF CalmInv, CancelLast
  <1>8. Observed(events', runs')
    <2> SUFFICES ASSUME NEW q \in Runs
                 PROVE  /\ \A s \in runs'[q].attached : events'[s].kind = "user_message"
                        /\ runs'[q].state = "active" =>
                             IF runs'[q].attached = {} THEN runs'[q].observed = 0
                             ELSE runs'[q].observed \in runs'[q].attached
      BY DEF Observed
    <2>1. /\ \A s \in rs[q].attached : s \in Seqs /\ events[s].kind = "user_message"
          /\ rs[q].state = "active" =>
               IF rs[q].attached = {} THEN rs[q].observed = 0
               ELSE rs[q].observed \in rs[q].attached
      BY DEF Observed, RunRecords
    <2>2. CASE q # r
      BY <1>2, <1>4, <2>1, <2>2
    <2>3. CASE q = r
      <3>1. all = {} => rs[r].attached = {}
        OBVIOUS
      <3>2. \A s \in all : events'[s].kind = "user_message"
        BY <1>1, <1>2, <2>1, <2>3
      <3>3. IF all = {} THEN o = 0 ELSE o \in all
        BY <1>3, <2>1, <2>3, <3>1 DEF Observes
      <3> HIDE DEF all
      <3> QED BY <1>4, <2>3, <3>2, <3>3
    <2> QED BY <2>2, <2>3
  <1> QED BY <1>5, <1>6, <1>7, <1>8 DEF CalmInv, OwnCancel

\* No event is without a work item, and a run is started only when none is
\* active: an active one would be due.
LEMMA AttachmentCalm == CalmInv /\ (AttachNextRun \/ ReattachRun) => CalmInv'
  <1> SUFFICES ASSUME CalmInv, AttachNextRun \/ ReattachRun PROVE CalmInv'
    OBVIOUS
  <1>0. MailboxInv'
    BY AttachMailbox DEF CalmInv
  <1>1. /\ runs \in [Runs -> RunRecords] /\ events \in [Seqs -> EventRecords]
        /\ OneActiveRun(runs) /\ Observed(events, runs)
        /\ \A r \in Runs : runs[r].attempt = "clear"
    BY MailboxTypes DEF CalmInv, CalmRows
  <1>2. ASSUME NEW r \in Runs, NEW next \in {"incorporate", "reincorporate"},
               ResumeRun(r, next)
        PROVE  CalmInv'
    BY <1>0, <1>1, <1>2, AttachCalm DEF ResumeRun, DueRuns
  <1>3. CASE NewRun("incorporate")
    <2>1. Unassigned = {}
      BY DEF CalmInv, Destined, Unassigned
    <2>2. /\ DueRuns = {} /\ StartRun(events, works, "incorporate")
          /\ UNCHANGED <<requests, works>>
      BY <1>3, <2>1 DEF NewRun
    <2>3. \A r \in Runs : runs[r].state # "active"
      <3>1. \A r \in Runs : runs[r].state = "active" =>
              runs[r].work \in Works
                /\ works[runs[r].work].state \in {"ready", "waiting_for_decision"}
        BY RunRow DEF CalmInv, MailboxInv, RunTableInv, RunAndWorkAgree
      <3> QED BY <2>2, <3>1 DEF DueRuns, Due, CalmInv, CalmRows
    <2>4. PICK s \in Seqs, r \in Runs :
            /\ events[s].state = "pending" /\ pc' = "incorporate"
            /\ AttachEvents(events, works,
                 [runs EXCEPT ![r] =
                    [state |-> "active", work |-> events[s].work, observed |-> 0,
                     attached |-> {}, incorporated |-> {}, attempt |-> "clear",
                     generation |-> lease.generation]], r)
      BY <2>2 DEF StartRun, FirstByKind, Startable, Fresh
    <2> DEFINE row == [state |-> "active", work |-> events[s].work, observed |-> 0,
                       attached |-> {}, incorporated |-> {}, attempt |-> "clear",
                       generation |-> lease.generation]
               rs == [runs EXCEPT ![r] = row]
    <2>5. row \in RunRecords
      BY <1>1 DEF RunRecords, RunStates, AttemptStates, EventRecords, CalmInv,
         MailboxInv, RunTableInv, TypeOK, LeaseRecords
    <2>6. /\ row.state = "active" /\ row.attempt = "clear" /\ row.attached = {}
          /\ row.observed = 0
      OBVIOUS
    <2>7. AttachEvents(events, works, rs, r)
      BY <2>4
    <2> HIDE DEF row
    <2>8. /\ rs \in [Runs -> RunRecords] /\ rs[r] = row
          /\ \A q \in Runs \ {r} : rs[q] = runs[q]
      BY <1>1, <2>5
    <2>9. OneActiveRun(rs) /\ Observed(events, rs) /\ \A q \in Runs : rs[q].attempt = "clear"
      BY <1>1, <2>3, <2>6, <2>8 DEF OneActiveRun, Observed
    <2> HIDE DEF rs
    <2> QED BY <1>0, <2>2, <2>4, <2>6, <2>7, <2>8, <2>9, AttachCalm
  <1> QED BY <1>2, <1>3 DEF AttachNextRun, ReattachRun

\* The events S, all of the open ones of a work item w among them, end in the
\* state x with their requests, and so do w and its run.
CalmSettles(S, w, x) ==
    /\ w \in Works /\ x \in TerminalStates \ {"failed_terminal"}
    /\ \A s \in S : s \in Seqs /\ events[s].state \in Open /\ events[s].work = w
    /\ \A s \in Seqs : events[s].state \in Open /\ events[s].work = w => s \in S
    /\ \A s \in Seqs :
         /\ events'[s].state = IF s \in S THEN x ELSE events[s].state
         /\ events'[s].kind = events[s].kind /\ events'[s].work = events[s].work
         /\ events'[s].audience = events[s].audience
         /\ events'[s].targets = events[s].targets
    /\ \A s \in Seqs :
         /\ requests'[s].work = requests[s].work
         /\ \/ requests'[s].state = requests[s].state
            \/ requests[s].state = "active" /\ requests'[s].state = x
         /\ requests'[s].state = "active" => s \notin S
    /\ \A r \in Runs :
         /\ runs'[r].state = runs[r].state \/ runs'[r].state = x
         /\ runs'[r].attached = runs[r].attached
         /\ runs'[r].observed = runs[r].observed /\ runs'[r].attempt = "clear"
    /\ \A v \in Works :
         /\ works'[v].state = IF v = w THEN x ELSE works[v].state
         /\ works'[v].audience = works[v].audience
         /\ works'[v].cancelRequested = works[v].cancelRequested
         /\ works'[v].due = works[v].due

LEMMA SettleCalm ==
  ASSUME CalmInv, MailboxInv', NEW S, NEW w, NEW x, CalmSettles(S, w, x),
         pc' = "report"
  PROVE  CalmInv'
  <1> USE DEF CalmSettles
  <1>0. x \notin Open /\ x # "active" /\ x # "absent" /\ x # "waiting_for_decision"
    BY DEF TerminalStates, Open
  <1>1. CalmRows'
    BY <1>0 DEF CalmInv, CalmRows, OneActiveRun
  <1>2. Destined'
    <2> SUFFICES ASSUME NEW s \in Seqs
                 PROVE  /\ events'[s].state # "absent" =>
                             /\ events[s].work # None
                             /\ events[s].audience = works'[events[s].work].audience
                             /\ events'[s].state \in Open =>
                                  works'[events[s].work].state = "ready"
                        /\ requests'[s].state # "absent" => events[s].audience = ActorPrivate
                        /\ requests'[s].state = "active" => events'[s].state \in Open
      BY DEF Destined
    <2>1. /\ events[s].state # "absent" =>
               /\ events[s].work # None
               /\ events[s].audience = works[events[s].work].audience
               /\ events[s].state \in Open => works[events[s].work].state = "ready"
          /\ requests[s].state # "absent" => events[s].audience = ActorPrivate
          /\ requests[s].state = "active" => events[s].state \in Open
      BY DEF CalmInv, Destined
    <2>2. requests'[s].state # "absent" => requests[s].state # "absent"
      OBVIOUS
    <2>3. requests'[s].state = "active" => requests[s].state = "active"
      BY <1>0
    <2>4. CASE s \in S
      <3>1. events[s].state # "absent" => events[s].audience = works'[w].audience
        BY <2>1, <2>4
      <3>2. events[s].state # "absent"
        BY <2>4 DEF Open
      <3> QED BY <1>0, <2>1, <2>2, <2>4, <3>1, <3>2
    <2>5. CASE s \notin S
      <3>1. events'[s].state = events[s].state
        BY <2>5
      <3>2. events[s].state # "absent" => events[s].work \in Works
        BY CalmTypes
      <3>3. events[s].state \in Open => events[s].work # w
        BY <2>5
      <3> QED BY <2>1, <2>2, <2>3, <3>1, <3>2, <3>3 DEF Open
    <2> QED BY <2>4, <2>5
  <1>3. CancelLast'
    <2>1. ASSUME NEW c \in Seqs, events'[c].state = "pending",
                 events[c].kind = "cancel_requested"
          PROVE  events[c].state = "pending" /\ events[c].work \in Works
      <3>1. events[c].state = "pending"
        BY <1>0, <2>1 DEF Open
      <3> QED BY <3>1, CalmTypes
    <2>2. \A s \in Seqs :
            /\ requests'[s].state # "absent" => requests[s].state # "absent"
            /\ requests[s].state # "absent" => requests'[s].state # "absent"
            /\ requests'[s].state = "active" => requests[s].state = "active"
      BY <1>0
    <2>3. \A s \in Seqs : events'[s].state # "absent" => events[s].state # "absent"
      BY DEF Open
    <2>4. \A c \in Seqs : events[c].targets \subseteq Seqs
      BY CalmTypes
    <2> QED BY <2>1, <2>2, <2>3, <2>4 DEF CalmInv, CancelLast
  <1>4. Observed(events', runs')
    <2>1. \A r \in Runs : runs[r].attached \subseteq Seqs
      BY MailboxTypes DEF CalmInv
    <2> QED BY <1>0, <2>1 DEF CalmInv, Observed
  <1> QED BY <1>1, <1>2, <1>3, <1>4 DEF CalmInv, OwnCancel

\* An answer leaves no open event on its work item: a message behind the
\* observed sequence would have been attached, one ahead of it, or a
\* cancellation, would have preempted the answer.
LEMMA FinalizeCalm == Calm /\ CalmInv /\ FinalizeRun => CalmInv'
  <1> SUFFICES ASSUME Calm, CalmInv, FinalizeRun PROVE CalmInv' OBVIOUS
  <1> DEFINE S == runs[cur].incorporated
             w == runs[cur].work
             x == "completed"
  <1>0. MailboxInv' /\ pc = "finalize" /\ pc' = "report"
    BY FinalizeMailbox DEF CalmInv, FinalizeRun, Progress
  <1>1. /\ events' = SettleEvents(S, x) /\ requests' = SettleRequests(S, x)
        /\ runs' = [runs EXCEPT ![cur].state = x]
        /\ works' = [works EXCEPT ![w].state = x]
        /\ NewerInput(cur) = {}
    <2>1. ~(faults < MaxFaults)
      BY MailboxTypes DEF Calm, CalmInv, TypeOK
    <2> QED BY <2>1 DEF FinalizeRun, FinalStates, SettleRun
  <1>2. /\ cur \in Runs /\ runs[cur].state = "active" /\ w \in Works
        /\ runs[cur].attached = S /\ S \in SUBSET Seqs
    BY <1>0, SettlingRun, MailboxTypes
    DEF CalmInv, MailboxInv, AllIncorporated, IncorporatedStates
  <1>3. \A s \in S : /\ s \in Seqs /\ events[s].state = "processing"
                     /\ events[s].work = w /\ events[s].kind = "user_message"
    BY <1>2 DEF CalmInv, MailboxInv, Attachments, Observed
  <1>4. ASSUME NEW s \in Seqs, events[s].state \in Open, events[s].work = w
        PROVE  s \in S
    <2>1. CASE events[s].state = "processing"
      <3>1. PICK r \in Runs : runs[r].state = "active" /\ s \in runs[r].attached
        BY <2>1 DEF CalmInv, MailboxInv, Attachments
      <3>2. r = cur
        BY <1>2, <3>1 DEF CalmInv, CalmRows, OneActiveRun
      <3> QED BY <1>2, <3>1, <3>2
    <2>2. CASE events[s].state = "pending"
      <3> DEFINE o == runs[cur].observed
      <3>1. events[s].audience = works[w].audience
        BY <1>4, <2>2 DEF CalmInv, Destined
      <3>2. ~(s > o)
        BY <1>1, <2>2, <3>1 DEF NewerInput
      <3>3. o \in S /\ o \in Seqs
        <4>1. IF S = {} THEN o = 0 ELSE o \in S
          BY <1>2 DEF CalmInv, Observed
        <4>2. S # {}
          BY <3>2, <4>1 DEF Seqs
        <4> QED BY <1>3, <4>1, <4>2
      <3>4. s < o
        <4>1. s # o
          BY <1>3, <2>2, <3>3
        <4> QED BY <3>2, <3>3, <4>1 DEF Seqs
      <3>5. w # None
        BY <1>2 DEF Works, None
      <3>6. events[s].kind # "user_message"
        BY <1>3, <1>4, <2>2, <3>3, <3>4, <3>5 DEF CalmInv, MailboxInv, InOrder
      <3>7. events[s].kind = "cancel_requested"
        BY <3>6, MailboxTypes DEF CalmInv
      <3>8. o < s
        BY <1>3, <1>4, <2>2, <3>3, <3>7 DEF CalmInv, CancelLast
      <3> QED BY <3>2, <3>3, <3>8 DEF Seqs
    <2> QED BY <1>4, <2>1, <2>2 DEF Open
  <1>5. /\ \A s \in Seqs :
             /\ events'[s].state = IF s \in S THEN x ELSE events[s].state
             /\ events'[s].kind = events[s].kind /\ events'[s].work = events[s].work
             /\ events'[s].audience = events[s].audience
             /\ events'[s].targets = events[s].targets
        /\ \A s \in Seqs :
             /\ requests'[s].work = requests[s].work
             /\ requests'[s].state = IF s \in S /\ requests[s].state = "active" THEN x
                                     ELSE requests[s].state
    <2> HIDE DEF S, x
    <2> QED BY <1>1, MailboxTypes DEF CalmInv, SettleEvents, SettleRequests,
            EventRecords, RequestRecords
  <1>6. /\ \A r \in Runs :
             /\ runs'[r].state = runs[r].state \/ runs'[r].state = x
             /\ runs'[r].attached = runs[r].attached
             /\ runs'[r].observed = runs[r].observed /\ runs'[r].attempt = "clear"
        /\ \A v \in Works :
             /\ works'[v].state = IF v = w THEN x ELSE works[v].state
             /\ works'[v].audience = works[v].audience
             /\ works'[v].cancelRequested = works[v].cancelRequested
             /\ works'[v].due = works[v].due
    <2>1. /\ runs \in [Runs -> RunRecords] /\ works \in [Works -> WorkRecords]
          /\ \A r \in Runs : runs[r].attempt = "clear"
      BY MailboxTypes DEF CalmInv, CalmRows
    <2> HIDE DEF w, x
    <2>2. \A r \in Runs : runs'[r] = IF r = cur THEN [runs[r] EXCEPT !.state = x]
                                     ELSE runs[r]
      BY <1>1, <2>1
    <2>3. \A v \in Works : works'[v] = IF v = w THEN [works[v] EXCEPT !.state = x]
                                      ELSE works[v]
      BY <1>1, <2>1
    <2>4. \A r \in Runs :
            /\ runs'[r].state = runs[r].state \/ runs'[r].state = x
            /\ runs'[r].attached = runs[r].attached
            /\ runs'[r].observed = runs[r].observed /\ runs'[r].attempt = "clear"
      BY <2>1, <2>2 DEF RunRecords
    <2>5. \A v \in Works :
            /\ works'[v].state = IF v = w THEN x ELSE works[v].state
            /\ works'[v].audience = works[v].audience
            /\ works'[v].cancelRequested = works[v].cancelRequested
            /\ works'[v].due = works[v].due
      BY <2>1, <2>3 DEF WorkRecords
    <2> QED BY <2>4, <2>5
  <1>7. x \in TerminalStates \ {"failed_terminal"}
    BY DEF TerminalStates
  <1>8. CalmSettles(S, w, x)
    <2>1. \A s \in S : s \in Seqs /\ events[s].state \in Open /\ events[s].work = w
      BY <1>3 DEF Open
    <2>2. x # "active"
      OBVIOUS
    <2> HIDE DEF S, w, x
    <2>3. \A s \in Seqs :
            /\ requests'[s].work = requests[s].work
            /\ \/ requests'[s].state = requests[s].state
               \/ requests[s].state = "active" /\ requests'[s].state = x
            /\ requests'[s].state = "active" => s \notin S
      BY <1>5, <2>2
    <2>4. \A s \in Seqs : events[s].state \in Open /\ events[s].work = w => s \in S
      BY <1>4
    <2>5. \A s \in Seqs :
            /\ events'[s].state = IF s \in S THEN x ELSE events[s].state
            /\ events'[s].kind = events[s].kind /\ events'[s].work = events[s].work
            /\ events'[s].audience = events[s].audience
            /\ events'[s].targets = events[s].targets
      BY <1>5
    <2> QED BY ONLY <1>2, <1>6, <1>7, <2>1, <2>3, <2>4, <2>5 DEF CalmSettles
  <1> HIDE DEF S, w, x
  <1> QED BY <1>0, <1>8, SettleCalm

\* The processing of a cancellation: it is one of the run's own work item, and
\* every active request there is among its targets.
LEMMA CancelSettlesAll ==
  ASSUME CalmInv, CancelRun
  PROVE  /\ CalmSettles(OpenEvents(runs[cur].work), runs[cur].work, "cancelled")
         /\ \A s \in Seqs : requests[s].work = runs[cur].work =>
              requests'[s].state # "active"
  <1> DEFINE w == runs[cur].work
             S == OpenEvents(w)
             T == SettledByCancel(ctl, w)
             x == "cancelled"
  <1>0. pc = "cancel"
    BY DEF CancelRun
  <1>1. /\ cur \in Runs /\ runs[cur].state = "active" /\ w \in Works
    BY <1>0, SettlingRun DEF CalmInv
  <1>2. /\ ctl \in Seqs /\ events[ctl].state = "pending"
        /\ events[ctl].kind = "cancel_requested" /\ events[ctl].work = w
    BY <1>0 DEF CalmInv, MailboxInv, CancelInHand, OwnCancel
  <1>3. {ctl} \cup S = S
    BY <1>2 DEF OpenEvents
  <1>4. /\ events' = SettleEvents(S, x) /\ requests' = SettleRequests(T, x)
        /\ runs' = [runs EXCEPT ![cur].state = x, ![cur].attempt = StopAttempt(cur)]
        /\ works' = [works EXCEPT ![w].state = x]
    BY <1>3 DEF CancelRun
  <1>5. StopAttempt(cur) = "clear"
    BY <1>1 DEF StopAttempt, CalmInv, CalmRows
  <1>6. \A s \in Seqs : requests[s].state = "active" /\ requests[s].work = w => s \in T
    BY <1>2 DEF CalmInv, CancelLast, SettledByCancel
  <1>7. /\ \A s \in Seqs :
             /\ events'[s].state = IF s \in S THEN x ELSE events[s].state
             /\ events'[s].kind = events[s].kind /\ events'[s].work = events[s].work
             /\ events'[s].audience = events[s].audience
             /\ events'[s].targets = events[s].targets
        /\ \A s \in Seqs :
             /\ requests'[s].work = requests[s].work
             /\ requests'[s].state = IF s \in T /\ requests[s].state = "active" THEN x
                                     ELSE requests[s].state
    <2> HIDE DEF S, T, x
    <2> QED BY <1>4, MailboxTypes DEF CalmInv, SettleEvents, SettleRequests,
            EventRecords, RequestRecords
  <1>8. /\ \A r \in Runs :
             /\ runs'[r].state = runs[r].state \/ runs'[r].state = x
             /\ runs'[r].attached = runs[r].attached
             /\ runs'[r].observed = runs[r].observed /\ runs'[r].attempt = "clear"
        /\ \A v \in Works :
             /\ works'[v].state = IF v = w THEN x ELSE works[v].state
             /\ works'[v].audience = works[v].audience
             /\ works'[v].cancelRequested = works[v].cancelRequested
             /\ works'[v].due = works[v].due
    <2>1. /\ runs \in [Runs -> RunRecords] /\ works \in [Works -> WorkRecords]
          /\ \A r \in Runs : runs[r].attempt = "clear"
      BY MailboxTypes DEF CalmInv, CalmRows
    <2> HIDE DEF w, x
    <2>2. \A r \in Runs : runs'[r] = IF r = cur
                                     THEN [runs[r] EXCEPT !.state = x, !.attempt = "clear"]
                                     ELSE runs[r]
      BY <1>4, <1>5, <2>1
    <2>3. \A v \in Works : works'[v] = IF v = w THEN [works[v] EXCEPT !.state = x]
                                      ELSE works[v]
      BY <1>4, <2>1
    <2>4. \A r \in Runs :
            /\ runs'[r].state = runs[r].state \/ runs'[r].state = x
            /\ runs'[r].attached = runs[r].attached
            /\ runs'[r].observed = runs[r].observed /\ runs'[r].attempt = "clear"
      BY <2>1, <2>2, ZenonT(40) DEF RunRecords
    <2>5. \A v \in Works :
            /\ works'[v].state = IF v = w THEN x ELSE works[v].state
            /\ works'[v].audience = works[v].audience
            /\ works'[v].cancelRequested = works[v].cancelRequested
            /\ works'[v].due = works[v].due
      BY <2>1, <2>3 DEF WorkRecords
    <2> QED BY <2>4, <2>5
  <1>9. x \in TerminalStates \ {"failed_terminal"} /\ x # "active"
    BY DEF TerminalStates
  <1>10. \A s \in Seqs : requests[s].work = w => requests'[s].state # "active"
    <2> HIDE DEF T, x
    <2> QED BY <1>6, <1>7, <1>9
  <1>11. \A s \in Seqs : requests'[s].state = "active" => s \notin S
    <2> SUFFICES ASSUME NEW s \in Seqs, requests'[s].state = "active", s \in S
                 PROVE  FALSE
      OBVIOUS
    <2>1. requests[s].state = "active"
      BY <1>7, <1>9
    <2>2. requests[s].work = events[s].work
      BY <2>1 DEF CalmInv, MailboxInv, RequestRows
    <2> QED BY <1>10, <2>2 DEF OpenEvents
  <1>12. /\ \A s \in S : s \in Seqs /\ events[s].state \in Open /\ events[s].work = w
         /\ \A s \in Seqs : events[s].state \in Open /\ events[s].work = w => s \in S
    BY DEF OpenEvents, Open
  <1>13. CalmSettles(S, w, x)
    <2>1. \A s \in Seqs : \/ requests'[s].state = requests[s].state
                          \/ requests[s].state = "active" /\ requests'[s].state = x
      BY <1>7
    <2> HIDE DEF S, w, x, T
    <2>2. \A s \in Seqs :
            /\ requests'[s].work = requests[s].work
            /\ \/ requests'[s].state = requests[s].state
               \/ requests[s].state = "active" /\ requests'[s].state = x
            /\ requests'[s].state = "active" => s \notin S
      BY <1>7, <1>11, <2>1
    <2>3. \A s \in Seqs :
            /\ events'[s].state = IF s \in S THEN x ELSE events[s].state
            /\ events'[s].kind = events[s].kind /\ events'[s].work = events[s].work
            /\ events'[s].audience = events[s].audience
            /\ events'[s].targets = events[s].targets
      BY <1>7
    <2> QED BY ONLY <1>1, <1>8, <1>9, <1>12, <2>2, <2>3 DEF CalmSettles
  <1> QED BY <1>10, <1>13

LEMMA CancelCalm == CalmInv /\ CancelRun => CalmInv'
  <1> SUFFICES ASSUME CalmInv, CancelRun PROVE CalmInv' OBVIOUS
  <1>1. MailboxInv' /\ pc' = "report"
    BY CancelMailbox DEF CalmInv, CancelRun, Progress
  <1> QED BY <1>1, CancelSettlesAll, SettleCalm

\* What ingress adds to a calm actor: one pending event n on a ready work item
\* w of its audience.  A message joins none that is being cancelled, and a
\* cancellation snapshots the active requests of w.
CalmAppends(w) ==
    LET n == nextSeq + 1 IN
    /\ n \in Seqs /\ w \in Works
    /\ \A s \in Seqs \ {n} :
         /\ events'[s] = events[s]
         /\ requests'[s].state = requests[s].state
         /\ requests[s].state # "absent" => requests'[s].work = requests[s].work
    /\ events'[n].state = "pending" /\ events'[n].work = w
    /\ events'[n].audience = works'[w].audience
    /\ works'[w].state = "ready"
    /\ \A v \in Works :
         /\ works'[v].due
         /\ works'[v].state \notin {"waiting_for_decision", "failed_terminal"}
         /\ works[v].state # "absent" =>
              /\ works'[v].state = works[v].state
              /\ works'[v].audience = works[v].audience
              /\ works[v].cancelRequested => works'[v].cancelRequested
    /\ requests'[n].state # "absent" =>
         requests'[n].work = w /\ events'[n].audience = ActorPrivate
    /\ \/ /\ events'[n].kind = "user_message"
          /\ works[w].state = "absent" \/ ~works[w].cancelRequested
       \/ /\ events'[n].kind = "cancel_requested"
          /\ works'[w].cancelRequested /\ requests'[n].state = "absent"
          /\ events'[n].targets = CancelTargets(requests', w)

LEMMA AppendCalm ==
  ASSUME CalmInv, MailboxInv', NEW w, CalmAppends(w), UNCHANGED <<runs, pc, cur, ctl>>
  PROVE  CalmInv'
  <1> DEFINE n == nextSeq + 1
  <1> USE DEF CalmAppends
  <1>0. /\ n \in Seqs /\ events[n].state = "absent" /\ requests[n].state = "absent"
        /\ nextSeq \in Nat
    BY FreeSequence DEF CalmInv
  <1>1. CalmRows'
    BY DEF CalmInv, CalmRows, OneActiveRun
  <1>2. Destined'
    <2> SUFFICES ASSUME NEW s \in Seqs
                 PROVE  /\ events'[s].state # "absent" =>
                             /\ events'[s].work # None
                             /\ events'[s].audience = works'[events'[s].work].audience
                             /\ events'[s].state \in Open =>
                                  works'[events'[s].work].state = "ready"
                        /\ requests'[s].state # "absent" => events'[s].audience = ActorPrivate
                        /\ requests'[s].state = "active" => events'[s].state \in Open
      BY DEF Destined
    <2>1. CASE s = n
      BY <2>1 DEF Open, Works, None
    <2>2. CASE s # n
      <3>1. /\ events[s].state # "absent" =>
                 /\ events[s].work # None
                 /\ events[s].audience = works[events[s].work].audience
                 /\ events[s].state \in Open => works[events[s].work].state = "ready"
            /\ requests[s].state # "absent" => events[s].audience = ActorPrivate
            /\ requests[s].state = "active" => events[s].state \in Open
        BY DEF CalmInv, Destined
      <3>2. events[s].state # "absent" =>
              events[s].work \in Works /\ works[events[s].work].state # "absent"
        BY CalmTypes
      <3> QED BY <2>2, <3>1, <3>2
    <2> QED BY <2>1, <2>2
  <1>3. CancelLast'
    <2> SUFFICES ASSUME NEW c \in Seqs, events'[c].state = "pending",
                        events'[c].kind = "cancel_requested"
                 PROVE  /\ works'[events'[c].work].cancelRequested
                        /\ \A s \in Seqs :
                             /\ events'[s].state # "absent"
                                  /\ events'[s].kind = "user_message"
                                  /\ events'[s].work = events'[c].work => s < c
                             /\ requests'[s].state = "active"
                                  /\ requests'[s].work = events'[c].work =>
                                  s \in events'[c].targets
                        /\ \A s \in events'[c].targets :
                             /\ requests'[s].state # "absent"
                             /\ requests'[s].work = events'[c].work
      BY DEF CancelLast
    <2>1. CASE c = n
      <3>1. \A s \in Seqs : events'[s].state # "absent"
                              /\ events'[s].kind = "user_message" => s < n
        <4> SUFFICES ASSUME NEW s \in Seqs, events'[s].state # "absent",
                            events'[s].kind = "user_message"
                     PROVE  s < n
          OBVIOUS
        <4>1. s # n /\ events[s].state # "absent"
          BY <2>1
        <4>2. ~(s > nextSeq)
          BY <4>1 DEF CalmInv, MailboxInv, NoRowAhead
        <4> QED BY <1>0, <4>2 DEF Seqs
      <3>2. \A s \in events'[n].targets :
              requests'[s].state = "active" /\ requests'[s].work = w
        BY <2>1 DEF CancelTargets
      <3>3. \A s \in Seqs : requests'[s].state = "active" /\ requests'[s].work = w =>
              s \in events'[n].targets
        BY <2>1 DEF CancelTargets
      <3> QED BY <2>1, <3>1, <3>2, <3>3
    <2>2. CASE c # n
      <3>1. /\ events'[c] = events[c] /\ events[c].work \in Works
            /\ works[events[c].work].state # "absent"
        BY <2>2, CalmTypes
      <3>2. /\ works[events[c].work].cancelRequested
            /\ \A s \in Seqs :
                 /\ events[s].state # "absent" /\ events[s].kind = "user_message"
                      /\ events[s].work = events[c].work => s < c
                 /\ requests[s].state = "active" /\ requests[s].work = events[c].work =>
                      s \in events[c].targets
            /\ \A s \in events[c].targets :
                 requests[s].state # "absent" /\ requests[s].work = events[c].work
        BY <3>1 DEF CalmInv, CancelLast
      <3>3. events[c].work = w => events'[n].kind # "user_message"
        BY <3>1, <3>2
      <3>4. requests'[n].state # "absent" => events'[n].kind = "user_message"
        OBVIOUS
      <3>5. n \notin events[c].targets /\ events[c].targets \subseteq Seqs
        BY <1>0, <3>2, CalmTypes
      <3> QED BY <3>1, <3>2, <3>3, <3>4, <3>5
    <2> QED BY <2>1, <2>2
  <1>4. Observed(events', runs')
    <2>1. ASSUME NEW r \in Runs, NEW s \in runs[r].attached
          PROVE  s \in Seqs /\ s # n
      <3>1. s \in Seqs /\ runs[r].state \in TerminalStates \cup {"active"}
        BY <2>1, MailboxTypes DEF CalmInv, MailboxInv, Attachments, RunStates
      <3>2. events[s].state # "absent"
        BY <2>1, <3>1, NotTerminal DEF CalmInv, MailboxInv, Attachments
      <3> QED BY <1>0, <3>1, <3>2
    <2> QED BY <2>1 DEF CalmInv, Observed
  <1>5. OwnCancel'
    <2>1. pc = "cancel" => ctl \in Seqs /\ events[ctl].state = "pending"
      BY DEF CalmInv, MailboxInv, CancelInHand
    <2> QED BY <1>0, <2>1 DEF CalmInv, OwnCancel
  <1> QED BY <1>1, <1>2, <1>3, <1>4, <1>5 DEF CalmInv

\* A message joins a work item of its audience or opens one.
LEMMA MessageCalm ==
  ASSUME CalmInv, NEW a \in Audiences, NEW w \in Works,
         AppendEvent(UserMessage(a, w)),
         \/ w \in IngressWork(a) /\ JoinOrOpen(w, a)
         \/ /\ w \in Fresh(works, Works)
            /\ works' = [works EXCEPT ![w] = OpenWork("external", a)],
         \/ UNCHANGED requests
         \/ /\ requests' = [requests EXCEPT ![nextSeq + 1] = [state |-> "active", work |-> w]]
            /\ a = ActorPrivate
  PROVE  CalmAppends(w)
  <1> DEFINE n == nextSeq + 1
  <1>0. /\ n \in Seqs /\ events' = [events EXCEPT ![n] = UserMessage(a, w)]
        /\ events \in [Seqs -> EventRecords] /\ requests \in [Seqs -> RequestRecords]
        /\ works \in [Works -> WorkRecords]
    BY MailboxTypes DEF CalmInv, AppendEvent, TypeOK, Seqs
  <1>1. requests[n].state = "absent"
    BY <1>0, FreeSequence DEF CalmInv
  <1>2. /\ events'[n].state = "pending" /\ events'[n].work = w
        /\ events'[n].kind = "user_message" /\ events'[n].audience = a
        /\ \A s \in Seqs \ {n} : events'[s] = events[s]
    BY <1>0 DEF UserMessage
  <1>3. /\ \A s \in Seqs \ {n} : requests'[s] = requests[s]
        /\ requests'[n].state # "absent" => requests'[n].work = w /\ a = ActorPrivate
    BY <1>0, <1>1
  <1>4. \/ /\ works' = works /\ works[w].state = "ready" /\ works[w].audience = a
           /\ ~works[w].cancelRequested
        \/ /\ works[w].state = "absent"
           /\ \E kind : works' = [works EXCEPT ![w] = OpenWork(kind, a)]
    BY DEF JoinOrOpen, IngressWork, Joinable, Fresh
  <1>5. /\ works'[w].state = "ready" /\ works'[w].audience = a /\ works'[w].due
        /\ \A v \in Works \ {w} : works'[v] = works[v]
        /\ works[w].state # "absent" => works' = works /\ ~works[w].cancelRequested
    BY <1>0, <1>4 DEF OpenWork, CalmInv, CalmRows
  <1>6. \A v \in Works :
          /\ works'[v].due
          /\ works'[v].state \notin {"waiting_for_decision", "failed_terminal"}
    BY <1>5 DEF CalmInv, CalmRows
  <1> QED BY <1>0, <1>2, <1>3, <1>5, <1>6 DEF CalmAppends

\* A cancellation flags the work item that its request is on: it was never
\* detached.
LEMMA CancellationCalm ==
  ASSUME CalmInv, NEW s \in Seqs, CancelForActor(s)
  PROVE  CalmAppends(requests[s].work)
  <1> DEFINE n == nextSeq + 1
             w == requests[s].work
             row == [state |-> "pending", kind |-> "cancel_requested",
                     audience |-> ActorPrivate, work |-> w,
                     targets |-> CancelTargets(requests', w)]
  <1>0. /\ events \in [Seqs -> EventRecords] /\ requests \in [Seqs -> RequestRecords]
        /\ works \in [Works -> WorkRecords]
    BY MailboxTypes DEF CalmInv
  <1>1. /\ requests[s].state = "active" /\ events[s].state \in Open
        /\ w = events[s].work /\ w # None /\ w \in Works
        /\ works[w].state = "ready" /\ works[w].audience = ActorPrivate
    <2>1. requests[s].state = "active"
      BY DEF CancelForActor
    <2>2. events[s].state \in Open /\ events[s].audience = ActorPrivate
      BY <2>1 DEF CalmInv, Destined
    <2>3. w = events[s].work
      BY <2>1 DEF CalmInv, MailboxInv, RequestRows
    <2>4. events[s].state # "absent"
      BY <2>2 DEF Open
    <2>5. w # None /\ works[w].state = "ready" /\ works[w].audience = ActorPrivate
      BY <2>2, <2>3, <2>4 DEF CalmInv, Destined
    <2> QED BY <1>0, <2>1, <2>2, <2>3, <2>4, <2>5, CalmTypes
  <1>2. /\ nextSeq < MaxSeq
        /\ requests' = [requests EXCEPT ![s].work = w]
        /\ events' = [events EXCEPT ![s].work = @, ![n] = row]
        /\ works' = [works EXCEPT ![w] = [works[w] EXCEPT !.cancelRequested = TRUE]]
    BY <1>1 DEF CancelForActor
  <1>3. n \in Seqs
    BY <1>2, MailboxTypes DEF CalmInv, TypeOK, Seqs
  <1>4. events[n].state = "absent" /\ requests[n].state = "absent"
    BY <1>3, FreeSequence DEF CalmInv
  <1>5. s # n
    BY <1>1, <1>4
  <1>6. events'[n] = row /\ \A t \in Seqs \ {n} : events'[t] = events[t]
    <2> HIDE DEF row
    <2>1. /\ events'[n] = row
          /\ \A t \in Seqs \ {n} :
               events'[t] = IF t = s THEN [events[s] EXCEPT !.work = @] ELSE events[t]
      BY <1>0, <1>2, <1>3, <1>5
    <2>2. [events[s] EXCEPT !.work = @] = events[s]
      BY <1>0 DEF EventRecords
    <2> QED BY <2>1, <2>2
  <1>7. requests' = requests
    <2>1. [requests[s] EXCEPT !.work = w] = requests[s]
      BY <1>0 DEF RequestRecords
    <2> QED BY <1>0, <1>2, <2>1
  <1>8. /\ works'[w].state = works[w].state /\ works'[w].audience = works[w].audience
        /\ works'[w].cancelRequested /\ works'[w].due = works[w].due
        /\ \A v \in Works \ {w} : works'[v] = works[v]
    BY <1>0, <1>1, <1>2 DEF WorkRecords
  <1>9. \A v \in Works :
          /\ works'[v].due
          /\ works'[v].state \notin {"waiting_for_decision", "failed_terminal"}
    BY <1>8 DEF CalmInv, CalmRows
  <1>10. /\ events'[n].state = "pending" /\ events'[n].kind = "cancel_requested"
         /\ events'[n].audience = ActorPrivate /\ events'[n].work = w
         /\ events'[n].targets = CancelTargets(requests', w)
    BY <1>6
  <1> HIDE DEF w, row
  <1>11. \A v \in Works : works[v].state # "absent" =>
           /\ works'[v].state = works[v].state
           /\ works'[v].audience = works[v].audience
           /\ works[v].cancelRequested => works'[v].cancelRequested
    BY <1>8
  <1>12. CalmAppends(w)
    BY <1>1, <1>3, <1>4, <1>6, <1>7, <1>8, <1>9, <1>10, <1>11 DEF CalmAppends
  <1> QED BY <1>12 DEF w

\* Every ingress transaction is such an addition.
LEMMA CalmIngress ==
  ASSUME CalmInv, Ingress
  PROVE  \E w \in Works : CalmAppends(w)
  <1>1. \A a \in Audiences : IngressWork(a) \subseteq Works
    BY DEF IngressWork, Joinable, Fresh
  <1>2. CASE SubmitForActor
    <2>1. PICK w \in Works :
            /\ AppendEvent(UserMessage(ActorPrivate, w))
            /\ w \in IngressWork(ActorPrivate) /\ JoinOrOpen(w, ActorPrivate)
            /\ requests' = [requests EXCEPT ![nextSeq + 1] =
                              [state |-> "active", work |-> w]]
      BY <1>1, <1>2, AudienceAssumption DEF SubmitForActor
    <2> QED BY <2>1, MessageCalm, AudienceAssumption
  <1>3. ASSUME NEW a \in Audiences, Ingest(a) PROVE \E w \in Works : CalmAppends(w)
    <2>1. PICK w \in Works :
            /\ AppendEvent(UserMessage(a, w))
            /\ w \in IngressWork(a) /\ JoinOrOpen(w, a) /\ UNCHANGED requests
      BY <1>1, <1>3 DEF Ingest
    <2> QED BY <2>1, MessageCalm
  <1>4. CASE IngestWebhook
    <2>1. PICK w \in Works :
            /\ w \in Fresh(works, Works)
            /\ AppendEvent(UserMessage(ActorPrivate, w))
            /\ works' = [works EXCEPT ![w] = OpenWork("external", ActorPrivate)]
            /\ UNCHANGED requests
      BY <1>4 DEF IngestWebhook, Fresh
    <2> QED BY <2>1, MessageCalm, AudienceAssumption
  <1>5. ASSUME NEW s \in Seqs, CancelForActor(s) PROVE \E w \in Works : CalmAppends(w)
    <2>1. CalmAppends(requests[s].work)
      BY <1>5, CancellationCalm
    <2> QED BY <2>1 DEF CalmAppends
  <1> QED BY <1>2, <1>3, <1>4, <1>5 DEF Ingress

LEMMA IngressCalm == CalmInv /\ Ingress => CalmInv'
  <1> SUFFICES ASSUME CalmInv, Ingress PROVE CalmInv' OBVIOUS
  <1>1. MailboxInv' /\ UNCHANGED <<runs, pc, cur, ctl>>
    BY IngressMailbox, IngressKeepsRows DEF CalmInv, MailboxInv
  <1> QED BY <1>1, CalmIngress, AppendCalm

\* A calm actor never fails a run, so the calm invariant is inductive.
LEMMA CalmInductive == Calm /\ CalmInv /\ [Next]_vars => CalmInv'
  <1> SUFFICES ASSUME Calm, CalmInv, [Next]_vars PROVE CalmInv' OBVIOUS
  <1>1. ~Terminalize
    BY DEF CalmInv, CalmRows, Terminalize
  <1> QED BY <1>1, IngressCalm, AttachmentCalm, RunStepCalm, OtherCalm, FinalizeCalm,
             CancelCalm
          DEF Next, QuantumStep, QuantumRunStep, OtherStep

\* Without tools and faults, no pending event is ever left on a finished work
\* item, where nothing would attach it: an answer is preempted by what it does
\* not cover, and a cancellation settles all that is open on its work item.
\* With two active runs, or with an event that was detached, that fails.
THEOREM PendingWorkAlwaysOpen ==
  ASSUME Calm
  PROVE  Spec => []PendingWorkIsOpen
  <1>1. CalmInv => PendingWorkIsOpen
    <2> SUFFICES ASSUME CalmInv, NEW s \in Seqs, events[s].state = "pending"
                 PROVE  works[events[s].work].state = "ready"
      BY DEF PendingWorkIsOpen
    <2> QED BY DEF CalmInv, Destined, Open
  <1> QED BY <1>1, InitCalm, CalmInductive, PTL DEF Spec

\* Only its own processing ends a cancellation, and that settles each request
\* it snapshotted.
LEMMA CancelStep ==
  ASSUME Calm, CalmInv, [Next]_vars, NEW c \in Seqs,
         events[c].kind = "cancel_requested", events[c].state = "pending",
         events'[c].state # "pending"
  PROVE  \A s \in events[c].targets : requests'[s].state # "active"
  <1>1. CASE CancelRun
    <2> DEFINE w == runs[cur].work
    <2>1. c \in OpenEvents(w)
      BY <1>1, CancelSettlesAll DEF CalmSettles
    <2>2. \A s \in events[c].targets : s \in Seqs /\ requests[s].work = w
      BY <2>1, CalmTypes DEF OpenEvents, CalmInv, CancelLast
    <2> QED BY <1>1, <2>2, CancelSettlesAll
  <1>2. ~Ingress
    <2> SUFFICES ASSUME Ingress PROVE FALSE
      OBVIOUS
    <2>1. PICK w \in Works : CalmAppends(w)
      BY CalmIngress
    <2>2. events'[c] = events[c]
      BY <2>1, FreeSequence DEF CalmAppends, CalmInv
    <2> QED BY <2>2
  <1>3. ~(AttachNextRun \/ ReattachRun)
    <2>1. ASSUME NEW rs, NEW r \in Runs, AttachEvents(events, works, rs, r)
          PROVE  FALSE
      <3>1. c \notin Batch(events, works, rs, r)
        BY DEF Batch, Attachable
      <3> QED BY <2>1, <3>1 DEF AttachEvents
    <2>2. Unassigned = {}
      BY DEF CalmInv, Destined, Unassigned
    <2> QED BY <2>1, <2>2 DEF AttachNextRun, ReattachRun, ResumeRun, DueRuns, NewRun,
            StartRun, Fresh
  <1>4. ~FinalizeRun
    <2> SUFFICES ASSUME FinalizeRun PROVE FALSE
      OBVIOUS
    <2>1. /\ cur \in Runs /\ runs[cur].state = "active"
          /\ runs[cur].attached = runs[cur].incorporated
      BY SettlingRun
      DEF FinalizeRun, CalmInv, MailboxInv, AllIncorporated, IncorporatedStates
    <2>2. c \notin runs[cur].incorporated
      BY <2>1 DEF CalmInv, Observed
    <2> QED BY <2>2 DEF FinalizeRun, SettleEvents
  <1>5. ~(Terminalize \/ QuantumRunStep \/ OtherStep \/ UNCHANGED vars)
    <2>1. ~Terminalize
      BY DEF CalmInv, CalmRows, Terminalize
    <2>2. ~QuantumRunStep
      BY DEF QuantumRunStep, Incorporate, IncorporateEvents,
         NoUnresolvedAttempt, WaitForDecision, RecoverPrepared, RecoverRunning,
         CheckpointObservation, FindControl, BeginModelStep, YieldAfterLastStep,
         ModelAnswers, ModelCallsTool, StartTool, FinishTool, Preempted,
         NoProgress, durableVars, ingressVars
    <2>3. ~(OtherStep \/ UNCHANGED vars)
      BY DEF OtherStep, BlockUnknownAttempt, WorkError, ExecutionTimeout, Retry,
         BackoffElapses, RecordProgress, FenceRejected, FailureRejected,
         AuthorityLost, ReleaseLease, LeaseExpires, Crash, Shutdown,
         ExitAfterFailure, Restart, AcquireReadyActor, AuthorityUnavailable,
         StopProcess, EndQuantum, durableVars, ingressVars, vars
    <2> QED BY <2>1, <2>2, <2>3
  <1> QED BY <1>1, <1>2, <1>3, <1>4, <1>5
          DEF Next, QuantumStep, QuantumRunStep, OtherStep

\* Without tools and faults, a cancellation that leaves the mailbox has settled
\* every request it snapshotted, whatever was ingested after it.
THEOREM CancellationsSettleTheirTargets ==
  ASSUME Calm
  PROVE  Spec => CancelSettlesItsTargets
  <1>1. CalmInv /\ [Next]_vars =>
          [\A c \in Seqs :
             /\ events[c].kind = "cancel_requested"
             /\ events[c].state = "pending" /\ events'[c].state # "pending"
             => \A s \in events[c].targets : requests'[s].state # "active"]_vars
    BY CancelStep
  <1> QED BY <1>1, InitCalm, CalmInductive, PTL DEF Spec, CancelSettlesItsTargets

==============================================================================
