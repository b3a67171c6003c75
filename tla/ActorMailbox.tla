---------------------------- MODULE ActorMailbox ----------------------------
(***************************************************************************)
(* One actor of the codrik runtime: its durable mailbox, work items, runs  *)
(* and actor lease (the SQLite tables events, local_requests, work_items,  *)
(* runs, run_events, tool_attempts and actor_leases), the ingress          *)
(* transactions that append to the mailbox at any moment, and the actor    *)
(* dispatcher that repeats one quantum: acquire the lease, attach events   *)
(* to a run, incorporate them, recover tool attempts, alternate model and  *)
(* tool steps, finalize, report progress or failure, release the lease.    *)
(*                                                                         *)
(* Every action is one SQLite transaction or one await of the runner, so   *)
(* ingress, cancellation, a crash or a shutdown may fall between any two   *)
(* of them.                                                                *)
(*                                                                         *)
(* Abstractions: a wall-clock comparison is a Boolean (a work item is due  *)
(* or backing off, a dead process' lease is unexpired or expired); an      *)
(* ORDER BY on wall-clock columns is a nondeterministic choice; payloads,  *)
(* routes and execution policies are left out; a run has at most one       *)
(* unresolved tool attempt.  MaxSeq, MaxWork, MaxRun, MaxFaults and        *)
(* MaxCrashes bound the instance and are no limits of the program.         *)
(*                                                                         *)
(* A definition named Name_Variant is a deliberately wrong variant of Name *)
(* that no specification uses: substituted for Name it breaks a property,  *)
(* which shows that the property can fail.                                 *)
(***************************************************************************)
EXTENDS Integers, FiniteSets

CONSTANTS
    MaxSeq,        \* bound: mailbox sequences 1..MaxSeq
    MaxWork,       \* bound: work item ids 1..MaxWork
    MaxRun,        \* bound: run ids 1..MaxRun
    Audiences,     \* audiences a gateway may address
    ActorPrivate,  \* the audience of local submissions and webhooks
    Inputs,        \* ingress the environment performs (see InputKinds)
    AttachLimit,   \* RunnerLimits.max_events
    ModelSteps,    \* RunnerLimits.max_model_steps
    FailureLimit,  \* failures that make a work item failed_terminal
    MaxFaults,     \* bound: model, tool, storage and payload errors
    MaxCrashes     \* bound: process crashes and shutdowns

InputKinds == {"local", "gateway", "webhook", "cancel", "tool"}

ASSUME BoundsAssumption ==
    /\ MaxSeq \in Nat /\ MaxWork \in Nat /\ MaxRun \in Nat
    /\ MaxFaults \in Nat /\ MaxCrashes \in Nat
ASSUME LimitsAssumption ==
    /\ AttachLimit \in Nat \ {0}
    /\ ModelSteps \in Nat \ {0}
    /\ FailureLimit \in Nat \ {0}
ASSUME AudienceAssumption == ActorPrivate \in Audiences
ASSUME InputAssumption == Inputs \subseteq InputKinds

Seqs  == 1..MaxSeq
Works == 1..MaxWork
Runs  == 1..MaxRun
None  == 0          \* SQL NULL, and "no run" of the runner

TerminalStates == {"completed", "cancelled", "failed_terminal"}
EventStates    == TerminalStates \cup {"absent", "pending", "processing"}
RequestStates  == TerminalStates \cup {"absent", "active"}
WorkStates     == TerminalStates \cup {"absent", "ready", "waiting_for_decision"}
RunStates      == TerminalStates \cup {"absent", "active"}

\* "clear" stands for no attempt, or one whose observation is checkpointed;
\* "known" for succeeded, failed_known or cancelled_known before that.
AttemptStates ==
    {"clear", "prepared", "running", "known", "outcome_unknown",
     "waiting_for_decision"}

RunnerStates ==
    {"idle", "attach", "incorporate", "recover", "blocked", "step", "model",
     "finalize", "reattach", "reincorporate", "start", "tool", "observe",
     "cancel", "fail", "report", "release", "stopped", "down"}

VARIABLES
    nextSeq,    \* actors.next_mailbox_sequence
    events,     \* the rows of events, by mailbox sequence
    requests,   \* the rows of local_requests, by their event's sequence
    works,      \* the rows of work_items
    runs,       \* the rows of runs, with their run_events and attempt
    lease,      \* the actor's row of actor_leases
    pc,         \* where the dispatcher's quantum is
    cur,        \* the attached run of the quantum
    ctl,        \* the cancellation the quantum found
    steps,      \* model steps taken in the quantum
    progressed, \* whether the quantum's progress is not QuantumProgress::None
    faults,     \* faults spent
    crashes     \* crashes and shutdowns spent

ingressVars == <<nextSeq, events, requests, works>>
durableVars == <<nextSeq, events, requests, works, runs, lease>>
runnerVars  == <<pc, cur, ctl, steps, progressed>>
boundVars   == <<faults, crashes>>
vars == <<nextSeq, events, requests, works, runs, lease,
          pc, cur, ctl, steps, progressed, faults, crashes>>

EventRecords ==
    [state : EventStates, kind : {"user_message", "cancel_requested"},
     audience : Audiences, work : Works \cup {None}, targets : SUBSET Seqs]
RequestRecords == [state : RequestStates, work : Works \cup {None}]
WorkRecords ==
    [state : WorkStates, kind : {"interactive", "external"},
     audience : Audiences, cancelRequested : BOOLEAN, due : BOOLEAN,
     failures : 0..FailureLimit]
RunRecords ==
    [state : RunStates, work : Works \cup {None}, observed : Seqs \cup {0},
     attached : SUBSET Seqs, incorporated : SUBSET Seqs,
     attempt : AttemptStates, generation : Nat]
LeaseRecords ==
    [status : {"none", "held", "orphan", "expired"}, generation : Nat]

NoLease == [status |-> "none", generation |-> 0]

Init ==
    /\ nextSeq = 0
    /\ events = [s \in Seqs |->
         [state |-> "absent", kind |-> "user_message",
          audience |-> ActorPrivate, work |-> None, targets |-> {}]]
    /\ requests = [s \in Seqs |-> [state |-> "absent", work |-> None]]
    /\ works = [w \in Works |->
         [state |-> "absent", kind |-> "interactive",
          audience |-> ActorPrivate, cancelRequested |-> FALSE,
          due |-> TRUE, failures |-> 0]]
    /\ runs = [r \in Runs |->
         [state |-> "absent", work |-> None, observed |-> 0, attached |-> {},
          incorporated |-> {}, attempt |-> "clear", generation |-> 0]]
    /\ lease = NoLease
    /\ pc = "idle" /\ cur = None /\ ctl = None
    /\ steps = 0 /\ progressed = FALSE
    /\ faults = 0 /\ crashes = 0

-----------------------------------------------------------------------------
(* Ingress: transactions of other tasks that append to the mailbox.        *)

\* An id that a fresh UUID stands for.
Fresh(table, ids) ==
    {i \in ids : table[i].state = "absent"
                 /\ \A j \in ids : j < i => table[j].state # "absent"}

\* The interactive work items a new message of the audience may join.
Joinable(audience) ==
    {w \in Works : /\ works[w].state = "ready"
                   /\ works[w].kind = "interactive"
                   /\ works[w].audience = audience
                   /\ ~works[w].cancelRequested}

IngressWork(audience) ==
    IF Joinable(audience) # {} THEN Joinable(audience) ELSE Fresh(works, Works)

OpenWork(kind, audience) ==
    [state |-> "ready", kind |-> kind, audience |-> audience,
     cancelRequested |-> FALSE, due |-> TRUE, failures |-> 0]

UserMessage(audience, w) ==
    [state |-> "pending", kind |-> "user_message", audience |-> audience,
     work |-> w, targets |-> {}]

AppendEvent(event) ==
    /\ nextSeq < MaxSeq
    /\ nextSeq' = nextSeq + 1
    /\ events' = [events EXCEPT ![nextSeq + 1] = event]

\* A message joins the work item, or opens it when the id is fresh.
JoinOrOpen(w, audience) ==
    works' = IF works[w].state = "absent"
             THEN [works EXCEPT ![w] = OpenWork("interactive", audience)]
             ELSE works

\* A request of the local IPC client (submit_for_actor).
SubmitForActor ==
    /\ "local" \in Inputs
    /\ \E w \in IngressWork(ActorPrivate) :
         /\ AppendEvent(UserMessage(ActorPrivate, w))
         /\ JoinOrOpen(w, ActorPrivate)
         /\ requests' = [requests EXCEPT ![nextSeq + 1] =
                           [state |-> "active", work |-> w]]
    /\ UNCHANGED <<runs, lease, runnerVars, boundVars>>

\* A message from Telegram or Reticulum (ingest).
Ingest(audience) ==
    /\ "gateway" \in Inputs
    /\ \E w \in IngressWork(audience) :
         /\ AppendEvent(UserMessage(audience, w))
         /\ JoinOrOpen(w, audience)
    /\ UNCHANGED <<requests, runs, lease, runnerVars, boundVars>>

\* An accepted webhook: always a work item of its own (ingest_webhook).
IngestWebhook ==
    /\ "webhook" \in Inputs
    /\ \E w \in Fresh(works, Works) :
         /\ AppendEvent(UserMessage(ActorPrivate, w))
         /\ works' = [works EXCEPT ![w] = OpenWork("external", ActorPrivate)]
    /\ UNCHANGED <<requests, runs, lease, runnerVars, boundVars>>

\* The requests a cancellation snapshots: those active on the work item.
CancelTargets(reqs, w) ==
    {s \in Seqs : reqs[s].state = "active" /\ reqs[s].work = w}

\* Cancellation of an active request: it flags the request's work item and
\* appends a control event for it.  A request whose event was detached from a
\* failed work item first gets a work item of its own (cancel_for_actor).
CancelForActor(request) ==
    /\ "cancel" \in Inputs
    /\ requests[request].state = "active"
    /\ \E w \in IF requests[request].work = None
                THEN Fresh(works, Works) ELSE {requests[request].work} :
         LET detached == requests[request].work = None
             reqs == [requests EXCEPT ![request].work = w]
         IN  /\ nextSeq < MaxSeq
             /\ nextSeq' = nextSeq + 1
             /\ requests' = reqs
             /\ events' = [events EXCEPT
                  ![request].work =
                      IF detached /\ @ = None /\ events[request].state = "pending"
                      THEN w ELSE @,
                  ![nextSeq + 1] =
                      [state |-> "pending", kind |-> "cancel_requested",
                       audience |-> ActorPrivate, work |-> w,
                       targets |-> CancelTargets(reqs, w)]]
             /\ works' = [works EXCEPT ![w] =
                  [(IF detached THEN OpenWork("interactive", ActorPrivate)
                    ELSE works[w]) EXCEPT !.cancelRequested = TRUE]]
    /\ UNCHANGED <<runs, lease, runnerVars, boundVars>>

-----------------------------------------------------------------------------
(* Acquisition and attachment (dispatch.rs).                               *)

Due(w) == works[w].state = "ready" /\ works[w].due

DueRuns_BackingOff == {r \in Runs : runs[r].state = "active"}

DueRuns == {r \in Runs : runs[r].state = "active" /\ Due(runs[r].work)}

Unassigned == {s \in Seqs : events[s].state = "pending" /\ events[s].work = None}

Startable_NoControl(evs, wks) ==
    {s \in Seqs :
       /\ evs[s].state = "pending" /\ evs[s].work # None
       /\ wks[evs[s].work].state = "ready" /\ wks[evs[s].work].due
       /\ ~wks[evs[s].work].cancelRequested}

\* Pending events that may start a run: a work item whose cancellation was
\* requested only runs for its control event.
Startable(evs, wks) ==
    {s \in Seqs :
       /\ evs[s].state = "pending" /\ evs[s].work # None
       /\ wks[evs[s].work].state = "ready" /\ wks[evs[s].work].due
       /\ \/ ~wks[evs[s].work].cancelRequested
          \/ evs[s].kind = "cancel_requested"}

ActorReady_NewEventsOnly == Unassigned # {} \/ Startable(events, works) # {}

ActorReady == DueRuns # {} \/ Unassigned # {} \/ Startable(events, works) # {}

\* The first by ORDER BY CASE kind ..., mailbox_sequence.
FirstByKind(evs, S) ==
    {s \in S : \A t \in S :
       \/ evs[s].kind = evs[t].kind /\ s <= t
       \/ evs[s].kind = "cancel_requested" /\ evs[t].kind # "cancel_requested"}

Acquire(generation) == [status |-> "held", generation |-> generation]

AcquireReadyActor ==
    /\ pc = "idle"
    /\ lease.status \in {"none", "expired"}
    /\ ActorReady
    /\ lease' = Acquire(lease.generation + 1)
    /\ pc' = "attach"
    /\ steps' = 0 /\ progressed' = FALSE
    /\ UNCHANGED <<ingressVars, runs, cur, ctl, boundVars>>

\* Pending events of the run's work item that this attachment may take: none
\* once the work item is being cancelled, and none at or after the actor's
\* oldest pending cancellation.
Attachable(evs, wks, w) ==
    {s \in Seqs :
       /\ evs[s].state = "pending" /\ evs[s].work = w
       /\ evs[s].kind = "user_message"
       /\ ~wks[w].cancelRequested
       /\ \A c \in Seqs : evs[c].state = "pending"
                          /\ evs[c].kind = "cancel_requested" => s < c}

Batch_Newest(evs, wks, rs, r) ==
    LET S == Attachable(evs, wks, rs[r].work) IN
    {s \in S : \A t \in S : t <= s}

\* The lowest ones that fit: max_events counts every event of the run, those
\* of earlier quanta included.
Batch(evs, wks, rs, r) ==
    LET S == Attachable(evs, wks, rs[r].work) IN
    {s \in S : Cardinality({t \in S : t < s}) + Cardinality(rs[r].attached)
                 < AttachLimit}

\* observed_sequence: the highest attached sequence, or what it was.
Observes(o, old, attached) ==
    IF attached = {} THEN o = old ELSE o \in attached /\ \A t \in attached : t <= o

AttachEvents(evs, wks, rs, r) ==
    LET batch == Batch(evs, wks, rs, r)
        attached == rs[r].attached \cup batch
    IN  /\ events' = [s \in Seqs |->
              IF s \in batch THEN [evs[s] EXCEPT !.state = "processing"]
              ELSE evs[s]]
        /\ \E o \in Seqs \cup {0} :
             /\ Observes(o, rs[r].observed, attached)
             /\ runs' = [rs EXCEPT ![r].attached = attached,
                                   ![r].observed = o,
                                   ![r].generation = lease.generation]
        /\ cur' = r

\* A run left active by an earlier quantum is resumed first (the one with the
\* oldest updated_at).
ResumeRun(r, next) ==
    /\ r \in DueRuns
    /\ AttachEvents(events, works, runs, r)
    /\ pc' = next
    /\ UNCHANGED <<nextSeq, requests, works, lease, ctl, steps, progressed,
                   boundVars>>

\* The event gets a work item, and so does its request if it has one.
AssignEvent(s, w) == [events EXCEPT ![s].work = w]
AssignRequest(s, w) ==
    IF requests[s].state = "absent" THEN requests
    ELSE [requests EXCEPT ![s].work = w]

StartRun(evs, wks, next) ==
    \E s \in FirstByKind(evs, Startable(evs, wks)), r \in Fresh(runs, Runs) :
      /\ AttachEvents(evs, wks,
           [runs EXCEPT ![r] =
              [state |-> "active", work |-> evs[s].work, observed |-> 0,
               attached |-> {}, incorporated |-> {}, attempt |-> "clear",
               generation |-> lease.generation]], r)
      /\ pc' = next

\* With no run to resume, the oldest unassigned event gets a work item and
\* the first startable event a run.
NewRun(next) ==
    /\ DueRuns = {}
    /\ \/ /\ Unassigned = {}
          /\ StartRun(events, works, next)
          /\ UNCHANGED <<requests, works>>
       \/ \E s \in Unassigned, w \in Fresh(works, Works) :
            LET wks == [works EXCEPT
                          ![w] = OpenWork("interactive", events[s].audience)]
            IN  /\ \A t \in Unassigned : s <= t
                /\ StartRun(AssignEvent(s, w), wks, next)
                /\ works' = wks
                /\ requests' = AssignRequest(s, w)
    /\ UNCHANGED <<nextSeq, lease, ctl, steps, progressed, boundVars>>

AttachNextRun ==
    /\ pc = "attach"
    /\ (\E r \in Runs : ResumeRun(r, "incorporate")) \/ NewRun("incorporate")

\* After a preempted finalization, in the same quantum: the preempted run
\* itself is still due, so there is always a run to resume.
ReattachRun ==
    /\ pc = "reattach"
    /\ \E r \in Runs : ResumeRun(r, "reincorporate")

-----------------------------------------------------------------------------
(* The quantum (runner.rs) and its transactions (checkpoint.rs).           *)

Goto(next) == pc' = next /\ UNCHANGED <<cur, ctl, steps, progressed>>

Progress(next) ==
    /\ pc' = next /\ progressed' = TRUE
    /\ UNCHANGED <<cur, ctl, steps>>

SetAttempt(value) == runs' = [runs EXCEPT ![cur].attempt = value]

\* checkpoint_run marks every attached event incorporated.
IncorporateEvents(next) ==
    /\ runs' = [runs EXCEPT ![cur].incorporated = runs[cur].attached]
    /\ Goto(next)
    /\ UNCHANGED <<ingressVars, lease, boundVars>>

Incorporate ==
    \/ pc = "incorporate" /\ IncorporateEvents("recover")
    \/ pc = "reincorporate" /\ IncorporateEvents("step")

NoUnresolvedAttempt_SkipPrepared ==
    /\ pc = "recover" /\ runs[cur].attempt \in {"clear", "prepared"}
    /\ Goto("step")
    /\ UNCHANGED <<durableVars, boundVars>>

\* The loop over unresolved_attempts, one branch per attempt state.
NoUnresolvedAttempt ==
    /\ pc = "recover" /\ runs[cur].attempt = "clear"
    /\ Goto("step")
    /\ UNCHANGED <<durableVars, boundVars>>

RecoverPrepared ==
    /\ pc = "recover" /\ runs[cur].attempt = "prepared"
    /\ SetAttempt("running")
    /\ Goto("tool")
    /\ UNCHANGED <<ingressVars, lease, boundVars>>

\* recover_attempt: whether an interrupted tool took effect is not known.
RecoverRunning ==
    /\ pc = "recover" /\ runs[cur].attempt = "running"
    /\ SetAttempt("outcome_unknown")
    /\ Goto("recover")
    /\ UNCHANGED <<ingressVars, lease, boundVars>>

\* block_unknown_attempt: no automatic retry, the work item waits.  The boundary
\* of the wall-time limit comes after the transaction.
BlockUnknownAttempt ==
    /\ pc = "recover" /\ runs[cur].attempt = "outcome_unknown"
    /\ SetAttempt("waiting_for_decision")
    /\ works' = [works EXCEPT ![runs[cur].work].state = "waiting_for_decision"]
    /\ Goto("blocked")
    /\ UNCHANGED <<nextSeq, events, requests, lease, boundVars>>

WaitForDecision ==
    /\ pc = "blocked"
    /\ Goto("report")
    /\ UNCHANGED <<durableVars, boundVars>>

\* The observation of a known outcome is checkpointed, during recovery or at
\* the end of the tool step.
CheckpointObservation ==
    /\ pc \in {"recover", "observe"} /\ runs[cur].attempt = "known"
    /\ SetAttempt("clear")
    /\ Progress("step")
    /\ UNCHANGED <<ingressVars, lease, boundVars>>

\* newer_control_event: pending events above the run's observed sequence whose
\* work item has any active run of the actor.
Controls ==
    {s \in Seqs : /\ events[s].state = "pending"
                  /\ s > runs[cur].observed
                  /\ \E r \in Runs : runs[r].state = "active"
                                     /\ runs[r].work = events[s].work}

NewerControl == FirstByKind(events, Controls)
NewerCancel == {s \in NewerControl : events[s].kind = "cancel_requested"}

FoundCancel(s) == pc' = "cancel" /\ ctl' = s /\ UNCHANGED <<cur, steps, progressed>>

\* A control event found while a model step begins, or while a model or tool
\* call is awaited and a signal arrives, ends the quantum.
FindControl ==
    /\ pc \in {"step", "model", "tool"}
    /\ ~(pc = "step" /\ steps = ModelSteps)
    /\ \E s \in NewerControl :
         IF events[s].kind = "cancel_requested" THEN FoundCancel(s)
         ELSE Goto("report")
    /\ UNCHANGED <<durableVars, boundVars>>

BeginModelStep ==
    /\ pc = "step" /\ steps < ModelSteps
    /\ NewerControl = {}
    /\ pc' = "model" /\ steps' = steps + 1
    /\ UNCHANGED <<durableVars, cur, ctl, progressed, boundVars>>

YieldAfterLastStep ==
    /\ pc = "step" /\ steps = ModelSteps
    /\ Goto("report")
    /\ UNCHANGED <<durableVars, boundVars>>

ModelAnswers ==
    /\ pc = "model"
    /\ Goto("finalize")
    /\ UNCHANGED <<durableVars, boundVars>>

\* prepare_attempt; at most one attempt of a run is unresolved (abstraction).
ModelCallsTool ==
    /\ pc = "model" /\ "tool" \in Inputs /\ runs[cur].attempt = "clear"
    /\ SetAttempt("prepared")
    /\ Goto("start")
    /\ UNCHANGED <<ingressVars, lease, boundVars>>

\* The assistant message is checkpointed and the attempt marked running.
StartTool ==
    /\ pc = "start"
    /\ SetAttempt("running")
    /\ Progress("tool")
    /\ UNCHANGED <<ingressVars, lease, boundVars>>

FinishTool ==
    /\ pc = "tool"
    /\ SetAttempt("known")
    /\ Goto("observe")
    /\ UNCHANGED <<ingressVars, lease, boundVars>>

\* Incorporated events end in `state`, and so do their active requests.
SettleEvents(S, state) ==
    [s \in Seqs |-> IF s \in S THEN [events[s] EXCEPT !.state = state]
                    ELSE events[s]]
SettleRequests(S, state) ==
    [s \in Seqs |-> IF s \in S /\ requests[s].state = "active"
                    THEN [requests[s] EXCEPT !.state = state] ELSE requests[s]]
SettleRun_RunOnly(state) ==
    /\ runs' = [runs EXCEPT ![cur].state = state]
    /\ UNCHANGED works
SettleRun(state) ==
    /\ runs' = [runs EXCEPT ![cur].state = state]
    /\ works' = [works EXCEPT ![runs[cur].work].state = state]

\* newest_compatible_input: any pending event of the audience above the
\* observed sequence, whatever its work item.
NewerInput(r) ==
    {s \in Seqs : /\ events[s].state = "pending"
                  /\ s > runs[r].observed
                  /\ events[s].audience = works[runs[r].work].audience}

Preempted ==
    /\ pc = "finalize" /\ NewerInput(cur) # {}
    /\ Goto("reattach")
    /\ UNCHANGED <<durableVars, boundVars>>

\* A final answer that no bundle can carry is replaced by a terminal error and
\* the run ends failed_terminal instead of completed (create_terminal_bundles).
FinalStates == IF faults < MaxFaults THEN {"completed", "failed_terminal"}
               ELSE {"completed"}

FinalizeRun ==
    /\ pc = "finalize" /\ NewerInput(cur) = {}
    /\ \E state \in FinalStates :
         /\ events' = SettleEvents(runs[cur].incorporated, state)
         /\ requests' = SettleRequests(runs[cur].incorporated, state)
         /\ SettleRun(state)
         /\ faults' = IF state = "completed" THEN faults ELSE faults + 1
    /\ Progress("report")
    /\ UNCHANGED <<nextSeq, lease, crashes>>

SettledByCancel_Incorporated(c, w) == events[c].targets \cap runs[cur].incorporated

\* cancellation_target_requests: the snapshotted requests that are on the
\* work item of the run being cancelled.
SettledByCancel(c, w) ==
    {s \in events[c].targets : requests[s].work = w}

OpenEvents_AttachedOnly(w) ==
    {s \in Seqs : events[s].work = w /\ events[s].state = "processing"}

OpenEvents(w) ==
    {s \in Seqs : events[s].work = w /\ events[s].state \in {"pending", "processing"}}

StopAttempt(r) == IF runs[r].attempt = "running" THEN "outcome_unknown"
                  ELSE runs[r].attempt

\* cancel_run settles the targeted requests, the control event, every open
\* event of the run's work item, the run and the work item.
CancelRun ==
    /\ pc = "cancel"
    /\ LET w == runs[cur].work IN
         /\ events' = SettleEvents({ctl} \cup OpenEvents(w), "cancelled")
         /\ requests' = SettleRequests(SettledByCancel(ctl, w), "cancelled")
         /\ runs' = [runs EXCEPT ![cur].state = "cancelled",
                                 ![cur].attempt = StopAttempt(cur)]
         /\ works' = [works EXCEPT ![w].state = "cancelled"]
    /\ Progress("report")
    /\ UNCHANGED <<nextSeq, lease, boundVars>>

-----------------------------------------------------------------------------
(* Failure, progress and release (failures.rs, run_quantum).               *)

SpendFault == faults < MaxFaults /\ faults' = faults + 1

\* An error of the work itself: recent context, model or tool.
WorkError ==
    /\ pc \in {"incorporate", "reincorporate", "recover", "model", "start", "tool"}
    /\ SpendFault
    /\ Goto("fail")
    /\ UNCHANGED <<durableVars, crashes>>

\* The wall-time limit: a pending cancellation wins over the failure.
ExecutionTimeout ==
    /\ pc \in {"recover", "blocked", "step", "model", "tool"}
    /\ SpendFault
    /\ IF NewerCancel # {} THEN \E s \in NewerCancel : FoundCancel(s)
       ELSE Goto("fail")
    /\ UNCHANGED <<durableVars, crashes>>

\* ensure_failure_fence of record_failure (require_active).
FailureFence(r) == runs[r].state = "active" /\ works[runs[r].work].state = "ready"

FailureCount(w) == IF progressed THEN 1 ELSE works[w].failures + 1

Retry ==
    /\ pc = "fail" /\ FailureFence(cur) /\ FailureCount(runs[cur].work) < FailureLimit
    /\ works' = [works EXCEPT
          ![runs[cur].work].failures = FailureCount(runs[cur].work),
          ![runs[cur].work].due = FALSE]
    /\ Goto("release")
    /\ UNCHANGED <<nextSeq, events, requests, runs, lease, boundVars>>

FailedEvents(r) == runs[r].incorporated

\* The run_events rows a failed run keeps.
KeptEvents_All(r) == runs[r].attached
KeptEvents(r) == runs[r].incorporated

\* At the limit the incorporated events fail with the run; the attached but
\* not incorporated ones go back to the mailbox without a work item.
Terminalize ==
    /\ pc = "fail" /\ FailureFence(cur) /\ FailureCount(runs[cur].work) >= FailureLimit
    /\ LET failed == FailedEvents(cur)
           back == runs[cur].attached \ failed
       IN
         /\ events' = [s \in Seqs |->
              IF s \in back
              THEN [events[s] EXCEPT !.state = "pending", !.work = None]
              ELSE SettleEvents(failed, "failed_terminal")[s]]
         /\ requests' = [s \in Seqs |->
              IF s \in back /\ requests[s].state # "absent"
              THEN [requests[s] EXCEPT !.work = None]
              ELSE SettleRequests(failed, "failed_terminal")[s]]
    /\ runs' = [runs EXCEPT
          ![cur].state = "failed_terminal",
          ![cur].attached = KeptEvents(cur),
          ![cur].attempt = IF @ = "prepared" THEN "known"
                           ELSE StopAttempt(cur)]
    /\ works' = [works EXCEPT ![runs[cur].work].state = "failed_terminal",
                              ![runs[cur].work].failures = FailureLimit,
                              ![runs[cur].work].due = TRUE]
    /\ Goto("release")
    /\ UNCHANGED <<nextSeq, lease, boundVars>>

ProgressFence_NotCancelled(r) ==
    LET run == runs[r] work == works[runs[r].work] IN
    \/ run.state = "active" /\ work.state = "ready"
    \/ /\ run.state = "active" /\ work.state = "waiting_for_decision"
       /\ run.attempt = "waiting_for_decision"
    \/ run.state = work.state /\ run.state = "completed"

\* ensure_failure_fence of record_progress (the lease and the generation are
\* the quantum's own, see RunnerOwnsRun).
ProgressFence(r) ==
    LET run == runs[r] work == works[runs[r].work] IN
    \/ run.state = "active" /\ work.state = "ready"
    \/ /\ run.state = "active" /\ work.state = "waiting_for_decision"
       /\ run.attempt = "waiting_for_decision"
    \/ run.state = work.state /\ run.state \in {"completed", "cancelled"}

RecordProgress ==
    /\ pc = "report" /\ progressed /\ ProgressFence(cur)
    /\ works' = [works EXCEPT ![runs[cur].work].failures = 0,
                              ![runs[cur].work].due = TRUE]
    /\ Goto("release")
    /\ UNCHANGED <<nextSeq, events, requests, runs, lease, boundVars>>

NoProgress ==
    /\ pc = "report" /\ ~progressed
    /\ Goto("release")
    /\ UNCHANGED <<durableVars, boundVars>>

\* The quantum is over and its volatile state gone.
EndQuantum(next) ==
    /\ pc' = next /\ cur' = None /\ ctl' = None
    /\ steps' = 0 /\ progressed' = FALSE
    /\ UNCHANGED <<ingressVars, runs>>

\* The lease is released, the dispatcher returns AuthorityUnavailable and the
\* supervisor stops the daemon: because the fence of the progress or of the
\* failure is rejected, or because a heartbeat or a transaction found the lease
\* or the store gone.
AuthorityUnavailable ==
    /\ lease' = NoLease
    /\ EndQuantum("stopped")
    /\ UNCHANGED faults

FenceRejected ==
    /\ pc = "report" /\ progressed /\ ~ProgressFence(cur)
    /\ AuthorityUnavailable
    /\ UNCHANGED crashes

FailureRejected ==
    /\ pc = "fail" /\ ~FailureFence(cur)
    /\ AuthorityUnavailable
    /\ UNCHANGED crashes

AuthorityLost ==
    /\ pc \notin {"idle", "stopped", "down"} /\ crashes < MaxCrashes
    /\ crashes' = crashes + 1
    /\ AuthorityUnavailable

\* release_lease deletes the row, and with it the generation.
ReleaseLease ==
    /\ pc = "release"
    /\ lease' = NoLease
    /\ EndQuantum("idle")
    /\ UNCHANGED boundVars

-----------------------------------------------------------------------------
(* Time, crashes, shutdown and restart.                                    *)

BackoffElapses(w) ==
    /\ works[w].state = "ready" /\ ~works[w].due
    /\ works' = [works EXCEPT ![w].due = TRUE]
    /\ UNCHANGED <<nextSeq, events, requests, runs, lease, runnerVars, boundVars>>

LeaseExpires ==
    /\ lease.status = "orphan"
    /\ lease' = [lease EXCEPT !.status = "expired"]
    /\ UNCHANGED <<ingressVars, runs, runnerVars, boundVars>>

Orphaned == IF lease.status = "held" THEN [lease EXCEPT !.status = "orphan"]
            ELSE lease

Crash ==
    /\ pc # "down" /\ crashes < MaxCrashes
    /\ crashes' = crashes + 1
    /\ lease' = Orphaned
    /\ EndQuantum("down")
    /\ UNCHANGED faults

\* The supervisor aborts the dispatcher after its grace period, then
\* recover_shutdown deletes the process' lease unless a tool is running.
ToolRunning ==
    \E r \in Runs : runs[r].state = "active" /\ runs[r].attempt = "running"

ShutdownLease ==
    IF lease.status # "held" THEN lease
    ELSE IF ToolRunning THEN Orphaned ELSE NoLease

StopProcess ==
    /\ lease' = ShutdownLease
    /\ EndQuantum("down")
    /\ UNCHANGED faults

Shutdown ==
    /\ pc \notin {"stopped", "down"} /\ crashes < MaxCrashes
    /\ crashes' = crashes + 1
    /\ StopProcess

ExitAfterFailure ==
    /\ pc = "stopped"
    /\ StopProcess
    /\ UNCHANGED crashes

\* recover_startup: the running attempts of runs no live lease covers.
Orphans ==
    {r \in Runs : /\ runs[r].state = "active" /\ runs[r].attempt = "running"
                  /\ works[runs[r].work].state = "ready"
                  /\ \/ lease.status \in {"none", "expired"}
                     \/ lease.generation # runs[r].generation}

Restart ==
    /\ pc = "down"
    /\ runs' = [r \in Runs |->
         IF r \in Orphans THEN [runs[r] EXCEPT !.attempt = "outcome_unknown"]
         ELSE runs[r]]
    /\ works' = [w \in Works |->
         IF \E r \in Orphans : runs[r].work = w
         THEN [works[w] EXCEPT !.state = "waiting_for_decision"]
         ELSE works[w]]
    /\ lease' = IF lease.status = "expired" THEN NoLease ELSE lease
    /\ pc' = "idle"
    /\ UNCHANGED <<nextSeq, events, requests, cur, ctl, steps, progressed,
                   boundVars>>

-----------------------------------------------------------------------------
Ingress ==
    \/ SubmitForActor
    \/ \E audience \in Audiences : Ingest(audience)
    \/ IngestWebhook
    \/ \E s \in Seqs : CancelForActor(s)

\* Steps the dispatcher takes unless the process dies.
QuantumStep ==
    \/ AcquireReadyActor
    \/ AttachNextRun
    \/ ReattachRun
    \/ Incorporate
    \/ NoUnresolvedAttempt
    \/ RecoverPrepared
    \/ RecoverRunning
    \/ BlockUnknownAttempt
    \/ WaitForDecision
    \/ CheckpointObservation
    \/ FindControl
    \/ BeginModelStep
    \/ YieldAfterLastStep
    \/ ModelAnswers
    \/ ModelCallsTool
    \/ StartTool
    \/ FinishTool
    \/ Preempted
    \/ FinalizeRun
    \/ CancelRun
    \/ Retry
    \/ Terminalize
    \/ RecordProgress
    \/ NoProgress
    \/ FenceRejected
    \/ FailureRejected
    \/ ReleaseLease

Next ==
    \/ Ingress
    \/ QuantumStep
    \/ WorkError
    \/ ExecutionTimeout
    \/ AuthorityLost
    \/ \E w \in Works : BackoffElapses(w)
    \/ LeaseExpires
    \/ Crash
    \/ Shutdown
    \/ ExitAfterFailure
    \/ Restart

Spec == Init /\ [][Next]_vars

\* The dispatcher's task runs until the process ends; a model or tool call
\* returns, fails or times out; backoffs and leases are deadlines of a clock;
\* a stopped daemon exits and is started again (Restart=always).  Runs are
\* resumed oldest updated_at first, so none that stays due is passed over for
\* ever.  Ingress, faults and crashes are not fair.
Fairness ==
    /\ WF_vars(QuantumStep)
    /\ \A r \in Runs : SF_vars(pc = "attach" /\ ResumeRun(r, "incorporate"))
    /\ \A w \in Works : WF_vars(BackoffElapses(w))
    /\ WF_vars(LeaseExpires)
    /\ WF_vars(ExitAfterFailure)
    /\ WF_vars(Restart)

FairSpec == Spec /\ Fairness

-----------------------------------------------------------------------------
(* Properties.                                                             *)

\* Every table and every variable of the runner holds values of its type.
TypeOK ==
    /\ nextSeq \in 0..MaxSeq
    /\ events \in [Seqs -> EventRecords]
    /\ requests \in [Seqs -> RequestRecords]
    /\ works \in [Works -> WorkRecords]
    /\ runs \in [Runs -> RunRecords]
    /\ lease \in LeaseRecords
    /\ pc \in RunnerStates
    /\ cur \in Runs \cup {None}
    /\ ctl \in Seqs \cup {None}
    /\ steps \in 0..ModelSteps
    /\ progressed \in BOOLEAN
    /\ faults \in 0..MaxFaults
    /\ crashes \in 0..MaxCrashes

\* An event is processing exactly while it is attached to an active run, is
\* never attached to two runs, and belongs to its run's work item: attachment,
\* settlement, cancellation and the detachment of a failed run's events keep
\* events and run_events in step.
AttachmentsConsistent ==
    /\ \A r \in Runs : runs[r].incorporated \subseteq runs[r].attached
    /\ \A r1, r2 \in Runs :
         runs[r1].attached \cap runs[r2].attached # {} => r1 = r2
    /\ \A s \in Seqs :
         events[s].state = "processing" <=>
           \E r \in Runs : runs[r].state = "active" /\ s \in runs[r].attached
    /\ \A r \in Runs : \A s \in runs[r].attached : events[s].work = runs[r].work

\* A run and its work item end together, in the same state, and a work item
\* never has a second run: each transaction that ends one updates both tables.
RunAndWorkAgree ==
    /\ \A r \in Runs :
         /\ runs[r].state = "active" =>
              /\ runs[r].work # None
              /\ works[runs[r].work].state \in {"ready", "waiting_for_decision"}
         /\ runs[r].state \in TerminalStates =>
              /\ runs[r].work # None
              /\ works[runs[r].work].state = runs[r].state
    /\ \A r1, r2 \in Runs :
         runs[r1].work = runs[r2].work /\ runs[r1].work # None => r1 = r2

ExecutingStates ==
    {"incorporate", "recover", "blocked", "step", "model", "finalize",
     "reattach", "reincorporate", "start", "tool", "observe", "cancel", "fail"}

\* The quantum blocked its work item, and has not reported it yet.
HasBlocked ==
    /\ pc \in {"blocked", "cancel", "fail"}
    /\ works[runs[cur].work].state = "waiting_for_decision"
    /\ runs[cur].attempt = "waiting_for_decision"

\* Between attachment and the end of the quantum the run stays active under
\* the generation of the lease and its work item ready and due, whatever is
\* ingested meanwhile, unless the quantum itself has blocked it: validate_run
\* never rejects the runner's writes, and a preempted run can always be resumed.
RunnerOwnsRun ==
    pc \in ExecutingStates =>
      /\ cur \in Runs
      /\ runs[cur].state = "active"
      /\ runs[cur].generation = lease.generation
      /\ lease.status = "held"
      /\ Due(runs[cur].work) \/ HasBlocked

\* An actor found ready still has something to attach once the lease is
\* taken, although ingress may have flagged a cancellation in between: the
\* selection of attach_next_run cannot come back empty-handed.
AcquiredActorHasWork == pc = "attach" => ActorReady

\* A request whose event was detached or assigned follows it: local_requests
\* and events name the same work item, so a later cancellation of the request
\* flags the work item its event runs under; and a settled request has a
\* settled event, in the same state: no transaction writes a result bundle for
\* an event that is still to be processed.
RequestsFollowEvents ==
    \A s \in Seqs : requests[s].state # "absent" =>
      /\ requests[s].work = events[s].work
      /\ requests[s].state \in TerminalStates => events[s].state = requests[s].state

\* Within a work item messages are attached in mailbox order: none is attached
\* while an older one of the same work item waits, although attachments, run
\* limits, preemption and detachment pick events at different times.
AttachedInOrder ==
    \A s, t \in Seqs :
      /\ s < t
      /\ events[s].state = "pending" /\ events[s].kind = "user_message"
      /\ events[s].work # None /\ events[s].work = events[t].work
      => events[t].state # "processing"

\* A pending event never belongs to a finished work item, where nothing would
\* ever attach it.
PendingWorkIsOpen ==
    \A s \in Seqs :
      events[s].state = "pending" /\ events[s].work # None =>
        works[events[s].work].state \in {"ready", "waiting_for_decision"}

\* The tables are in step: no transaction leaves an event, a request or a run
\* where none of the others would find it.
TablesInStep == AttachmentsConsistent /\ RequestsFollowEvents

\* An answer is given with every tool outcome known and observed, as long as
\* the actor has no other run to resume: only when a finalization is preempted
\* while another run is due may the quantum go on with a run whose recovery
\* loop it has not been through.
OnlyReattachmentSkipsRecovery ==
    [][\A r \in Runs :
         /\ runs[r].state = "active" /\ runs'[r].state = "completed"
         /\ runs[r].attempt # "clear"
         => DueRuns \ {r} # {}]_vars

\* The processing of a cancellation settles, as cancelled, every request it
\* snapshotted that is still active.
CancelSettlesItsTargets ==
    [][\A c \in Seqs :
         /\ events[c].kind = "cancel_requested"
         /\ events[c].state = "pending" /\ events'[c].state # "pending"
         => \A s \in events[c].targets : requests'[s].state # "active"]_vars

\* A quantum stops the daemon in two cases only.  Its answer could not be
\* bundled, and the progress fence does not accept a run that ended
\* failed_terminal; or the wall-time limit passed just after it blocked its
\* work item, and the failure fence does not accept one that waits for a
\* decision.  No message, cancellation, preemption, yield, retry or decision to
\* wait brings it down (record_progress, record_failure, run_quantum).
OnlyTwoEndsStopDaemon ==
    [][pc # "stopped" /\ pc' = "stopped" /\ crashes' = crashes =>
         \/ pc = "report" /\ runs[cur].state = "failed_terminal"
         \/ /\ pc = "fail"
            /\ works[runs[cur].work].state = "waiting_for_decision"
            /\ runs[cur].attempt = "waiting_for_decision"]_vars

\* Every submitted request is eventually answered or failed.
EveryRequestSettles ==
    \A s \in Seqs : requests[s].state = "active" ~> requests[s].state \in TerminalStates

=============================================================================
