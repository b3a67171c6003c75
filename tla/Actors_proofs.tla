---------------------------- MODULE Actors_proofs ----------------------------
(***************************************************************************)
(* Theorems about Actors, and about GatewayIngress, which adds to it how   *)
(* input arrives; for every set of actors, tools, events, senders and      *)
(* codes and every bound.  Of the actor table: type correctness, one       *)
(* quantum per actor, what a deletion leaves behind, and what may not      *)
(* happen once an actor is disabled.  Of ingress: type correctness, that   *)
(* links are earned, that only the newest deferred result is released, and *)
(* that no update is skipped.                                              *)
(***************************************************************************)
EXTENDS GatewayIngress, WellFoundedInduction, NaturalsInduction, TLAPS

USE ActorAssumption DEF ActorAssumption

-----------------------------------------------------------------------------
(* The actor table: the inductive invariant.                                *)

\* The manager starts a task only for an actor that no unfinished task serves:
\* between two passes every task is listed, and it waits for those that are not.
OneTaskPerActor ==
    /\ \A t, u \in tasks : t.actor = u.actor => t = u
    /\ manager = "ready" => \A t \in tasks : t.listed

\* A quantum is executed under the lease of its actor.
ExecutesUnderLease == \A t \in Executing : lease[t.actor] = "held"

\* An actor that does not exist has no lease and no event; the default one,
\* which rows without an event name, always exists.
AbsentHasNothing ==
    /\ Enabled(Default)
    /\ \A a \in Actors : ~Exists(a) => lease[a] = "free" /\ EventsOf(a, EventStates) = {}

ActorsInv ==
    /\ ActorsTypeOK
    /\ OneTaskPerActor
    /\ ExecutesUnderLease
    /\ AbsentHasNothing

-----------------------------------------------------------------------------
(* The initial state, and the steps by group.                              *)

LEMMA ActorsInvInit == ActorsInit => ActorsInv
  BY DEF ActorsInit, ActorsInv, ActorsTypeOK, ActorRecords, EventRecords, Absent, NoEvent,
     OneTaskPerActor, ExecutesUnderLease, AbsentHasNothing, Executing, Exists, Enabled,
     EventsOf, EventStates

\* No administrative change but a deletion takes anything from an actor.
LEMMA AdministerKeeps ==
  ASSUME ActorsInv, Administer
  PROVE  ActorsInv'
  <1> USE DEF ActorsInv
  <1>1. PICK a \in Actors :
           \/ CreateActor(a)
           \/ SetActorEnabled(a, "enabled")
           \/ SetActorEnabled(a, "disabled")
           \/ \E tools \in SUBSET Tools : MutateActorTools(a, tools)
    BY DEF Administer
  <1>2. /\ UNCHANGED <<event, lease, tasks, manager, crashes>>
        /\ changes' \in Nat
    BY <1>1 DEF CreateActor, SetActorEnabled, MutateActorTools, Change, ActorsTypeOK
  <1>3. /\ actor' \in [Actors -> ActorRecords]
        /\ \A b \in Actors : Exists(b) => Exists(b)'
        /\ Enabled(Default)'
    <2>1. CASE CreateActor(a)
      BY <2>1 DEF CreateActor, ActorsTypeOK, ActorRecords, Exists, Enabled, AbsentHasNothing
    <2>2. CASE SetActorEnabled(a, "enabled") \/ SetActorEnabled(a, "disabled")
      BY <2>2 DEF SetActorEnabled, ActorsTypeOK, ActorRecords, Exists, Enabled, AbsentHasNothing
    <2>3. CASE \E tools \in SUBSET Tools : MutateActorTools(a, tools)
      BY <2>3 DEF MutateActorTools, ActorsTypeOK, ActorRecords, Exists, Enabled, AbsentHasNothing
    <2> QED BY <1>1, <2>1, <2>2, <2>3
  <1>4. ActorsTypeOK'
    BY <1>2, <1>3 DEF ActorsTypeOK
  <1>5. OneTaskPerActor' /\ ExecutesUnderLease'
    BY <1>2 DEF OneTaskPerActor, ExecutesUnderLease, Executing
  <1>6. AbsentHasNothing'
    BY <1>2, <1>3 DEF AbsentHasNothing, EventsOf
  <1> QED BY <1>4, <1>5, <1>6

\* An actor is deleted only when no lease, and so no quantum, of it exists.
LEMMA DeleteKeeps ==
  ASSUME ActorsInv, NEW a \in Actors, NEW force \in BOOLEAN, DeleteActor(a, force)
  PROVE  ActorsInv'
  <1> USE DEF ActorsInv
  <1>1. /\ a # Default /\ lease[a] = "free"
        /\ actor' = [actor EXCEPT ![a] = Absent]
        /\ event' = [e \in Events |-> IF event[e].actor = a THEN NoEvent ELSE event[e]]
        /\ lease' = [lease EXCEPT ![a] = "free"]
        /\ UNCHANGED <<tasks, manager, crashes>> /\ changes' \in Nat
    BY DEF DeleteActor, Busy, Nonempty, Change, ActorsTypeOK
  <1>2. ActorsTypeOK'
    BY <1>1 DEF ActorsTypeOK, ActorRecords, Absent, EventRecords
  <1>3. OneTaskPerActor' /\ ExecutesUnderLease'
    BY <1>1 DEF OneTaskPerActor, ExecutesUnderLease, Executing, ActorsTypeOK, TaskRecords
  <1>4. AbsentHasNothing'
    BY <1>1 DEF AbsentHasNothing, ActorsTypeOK, Exists, Enabled, Absent, EventsOf, EventStates, NoEvent
  <1> QED BY <1>2, <1>3, <1>4

\* A task that the manager makes is listed, and not executing.
LEMMA NewTaskType ==
  ASSUME ActorsTypeOK
  PROVE  \A a \in Actors : /\ NewTask(a) \in TaskRecords /\ NewTask(a).actor = a
                            /\ NewTask(a).listed /\ NewTask(a).pc = "idle"
  BY DEF NewTask, TaskRecords, ActorsTypeOK, ActorRecords

\* New tasks, when every unfinished one is listed.
LEMMA StartKeepsTasks ==
  ASSUME ActorsInv, tasks = Listed, tasks' = tasks \cup {NewTask(a) : a \in Missing},
         UNCHANGED lease
  PROVE  /\ tasks' \subseteq TaskRecords
         /\ OneTaskPerActor'
         /\ ExecutesUnderLease'
  <1> USE DEF ActorsInv
  <1>1. Missing \subseteq Actors /\ \A a \in Missing, t \in tasks : t.actor # a
    BY DEF Missing
  <1>2. \A t \in tasks' : t \in tasks \/ \E a \in Missing : t = NewTask(a)
    OBVIOUS
  <1>3. tasks' \subseteq TaskRecords
    BY <1>1, NewTaskType DEF ActorsTypeOK
  <1>4. OneTaskPerActor'
    BY <1>1, <1>2, NewTaskType DEF OneTaskPerActor, Listed
  <1>5. Executing' \subseteq Executing
    BY <1>1, <1>2, NewTaskType DEF Executing
  <1>6. ExecutesUnderLease'
    BY <1>5 DEF ExecutesUnderLease
  <1> QED BY <1>3, <1>4, <1>6

\* The manager stops tasks, or starts those of actors that have none.
LEMMA ManageKeeps ==
  ASSUME ActorsInv, Manage
  PROVE  ActorsInv'
  <1> USE DEF ActorsInv
  <1> DEFINE stale == {t \in Listed : Stale(t)}
             told(t) == [t EXCEPT !.listed = FALSE, !.stop = TRUE]
  <1>1. UNCHANGED <<actor, event, lease, changes, crashes>> /\ manager' \in {"ready", "joining"}
    BY DEF Manage, Reconcile, JoinStopped, ActorsTypeOK
  <1>2. CASE Reconcile /\ stale # {}
    <2>1. tasks' = (tasks \ stale) \cup {told(t) : t \in stale} /\ manager' = "joining"
      BY <1>2 DEF Reconcile
    <2>2. \A t \in stale : /\ t \in tasks /\ told(t) \in TaskRecords
                            /\ told(t).actor = t.actor /\ told(t).pc = t.pc
      BY DEF ActorsTypeOK, TaskRecords, Listed
    <2>3. tasks' \subseteq TaskRecords
      BY <2>1, <2>2 DEF ActorsTypeOK
    <2> HIDE DEF told, stale
    <2>4. \A t \in tasks' : \/ t \in tasks \ stale
                             \/ \E u \in stale : t = told(u)
      BY <2>1
    <2>5. OneTaskPerActor'
      BY <2>1, <2>2, <2>4 DEF OneTaskPerActor
    <2>6. ExecutesUnderLease'
      BY <1>1, <2>2, <2>4 DEF ExecutesUnderLease, Executing
    <2> QED BY <1>1, <2>3, <2>5, <2>6 DEF ActorsTypeOK, AbsentHasNothing, Exists, Enabled, EventsOf
  <1>3. CASE ~(Reconcile /\ stale # {})
    <2>1. tasks = Listed /\ tasks' = tasks \cup {NewTask(a) : a \in Missing}
      BY <1>3 DEF Manage, Reconcile, JoinStopped, Joined, OneTaskPerActor, Listed
    <2>2. tasks' \subseteq TaskRecords /\ OneTaskPerActor' /\ ExecutesUnderLease'
      BY <1>1, <2>1, StartKeepsTasks
    <2> QED BY <1>1, <2>2 DEF ActorsTypeOK, AbsentHasNothing, Exists, Enabled, EventsOf
  <1> QED BY <1>2, <1>3

\* A step of a task moves that task, and holds the lease while it executes.
LEMMA BecomesKeeps ==
  ASSUME ActorsInv, NEW t \in tasks,
         NEW pc \in {"idle", "checked", "running", "finalized"}, Becomes(t, pc)
  PROVE  /\ tasks' \subseteq TaskRecords
         /\ manager' = manager => OneTaskPerActor'
         /\ \A u \in Executing' : \/ u \in Executing /\ u # t
                                  \/ u.actor = t.actor /\ pc \in {"running", "finalized"}
  <1> USE DEF ActorsInv
  <1> DEFINE v == [t EXCEPT !.pc = pc]
  <1>1. v \in TaskRecords /\ v.actor = t.actor /\ v.listed = t.listed /\ v.pc = pc
    BY DEF ActorsTypeOK, TaskRecords
  <1>2. tasks' = (tasks \ {t}) \cup {v}
    BY DEF Becomes
  <1> HIDE DEF v
  <1>3. tasks' \subseteq TaskRecords
    BY <1>1, <1>2 DEF ActorsTypeOK
  <1>4. manager' = manager => OneTaskPerActor'
    BY <1>1, <1>2 DEF OneTaskPerActor
  <1>5. \A u \in Executing' : \/ u \in Executing /\ u # t
                              \/ u.actor = t.actor /\ pc \in {"running", "finalized"}
    BY <1>1, <1>2 DEF Executing
  <1> QED BY <1>3, <1>4, <1>5

\* A quantum keeps the actor of every event, and makes events of none.
LEMMA SettleKeeps ==
  ASSUME ActorsTypeOK, NEW a \in Actors, SettleOldest(a)
  PROVE  /\ event' \in [Events -> EventRecords]
         /\ \A e \in Events : event'[e].actor = event[e].actor
  <1> DEFINE oldest == Oldest(Open(a))
             state == IF event[oldest].routed THEN "owed" ELSE "deferred"
  <1>1. event' = [event EXCEPT ![oldest].state = state] /\ state \in EventStates
    BY DEF SettleOldest, EventStates
  <1>2. \A r \in EventRecords, x \in EventStates :
          /\ [r EXCEPT !.state = x] \in EventRecords
          /\ [r EXCEPT !.state = x].actor = r.actor
    <2> SUFFICES ASSUME NEW r \in EventRecords, NEW x \in EventStates
                 PROVE  /\ [r EXCEPT !.state = x] \in EventRecords
                        /\ [r EXCEPT !.state = x].actor = r.actor
      OBVIOUS
    <2>1. CASE r = NoEvent
      BY <2>1 DEF EventRecords, NoEvent
    <2>2. CASE r # NoEvent
      BY <2>2 DEF EventRecords
    <2> QED BY <2>1, <2>2
  <1> HIDE DEF oldest, state
  <1>3. CASE oldest \in Events
    BY <1>1, <1>2, <1>3 DEF ActorsTypeOK
  <1>4. CASE oldest \notin Events
    BY <1>1, <1>4 DEF ActorsTypeOK
  <1> QED BY <1>3, <1>4

\* The events of an actor that does not exist stay none: what a quantum or a
\* delivery changes keeps its actor, and only events of the default actor, which
\* exists, are none.
LEMMA AbsentStays ==
  ASSUME ActorsInv, NEW a \in Actors, ~Exists(a), UNCHANGED actor,
         \A e \in Events : event'[e].actor = event[e].actor
  PROVE  EventsOf(a, EventStates)' = {}
  <1>1. \A e \in Events : event[e].actor # a
    BY DEF ActorsInv, AbsentHasNothing, ActorsTypeOK, EventRecords, NoEvent, EventsOf,
       Exists, Enabled
  <1> QED BY <1>1 DEF EventsOf

\* A task acquires its actor's lease with its first step of a quantum, and gives
\* it up with the last.
LEMMA TaskStepKeeps ==
  ASSUME ActorsInv, NEW a \in Actors, TaskStep(a)
  PROVE  ActorsInv'
  <1> USE DEF ActorsInv
  <1>1. PICK t \in tasks :
           /\ t.actor = a
           /\ \/ CheckShutdown(t) \/ StopTask(t) \/ AcquireReadyActorFor(t)
              \/ FinalizeRun(t) \/ ReleaseLease(t)
    BY DEF TaskStep
  <1>2. UNCHANGED <<actor, manager, changes, crashes>>
    BY <1>1 DEF CheckShutdown, StopTask, AcquireReadyActorFor, FinalizeRun, ReleaseLease
  <1>3. CASE StopTask(t)
    BY <1>2, <1>3 DEF StopTask, ActorsTypeOK, OneTaskPerActor, ExecutesUnderLease, Executing,
       AbsentHasNothing, Exists, Enabled, EventsOf
  <1>4. CASE CheckShutdown(t)
    <2>1. Becomes(t, "checked") /\ UNCHANGED <<actor, event, lease, manager, changes, crashes>>
      BY <1>4 DEF CheckShutdown
    <2>2. tasks' \subseteq TaskRecords /\ OneTaskPerActor' /\ Executing' \subseteq Executing
      BY <2>1, BecomesKeeps
    <2> QED BY <2>1, <2>2 DEF ActorsTypeOK, ExecutesUnderLease, AbsentHasNothing,
            Exists, Enabled, EventsOf
  <1>5. CASE AcquireReadyActorFor(t)
    <2>1. /\ tasks' \subseteq TaskRecords /\ OneTaskPerActor'
          /\ \A u \in Executing' : u \in Executing \/ (u.actor = a /\ Ready(a))
      <3>1. CASE Ready(a)
        <4>1. Becomes(t, "running")
          BY <1>1, <1>5, <3>1 DEF AcquireReadyActorFor
        <4> QED BY <1>1, <1>2, <3>1, <4>1, BecomesKeeps
      <3>2. CASE ~Ready(a)
        <4>1. Becomes(t, "idle")
          BY <1>1, <1>5, <3>2 DEF AcquireReadyActorFor
        <4> QED BY <1>2, <4>1, BecomesKeeps
      <3> QED BY <3>1, <3>2
    <2>2. /\ event' = event
          /\ lease' = IF Ready(a) THEN [lease EXCEPT ![a] = "held"] ELSE lease
      BY <1>1, <1>5 DEF AcquireReadyActorFor
    <2>3. ActorsTypeOK'
      BY <1>2, <2>1, <2>2 DEF ActorsTypeOK
    <2>4. ExecutesUnderLease'
      BY <2>1, <2>2 DEF ExecutesUnderLease, ActorsTypeOK, Executing, TaskRecords
    <2>5. AbsentHasNothing'
      BY <1>2, <2>2 DEF AbsentHasNothing, ActorsTypeOK, Ready, Exists, Enabled, EventsOf
    <2> QED BY <2>1, <2>3, <2>4, <2>5
  <1>6. CASE FinalizeRun(t)
    <2>1. /\ tasks' \subseteq TaskRecords /\ OneTaskPerActor'
          /\ \A u \in Executing' : u \in Executing \/ u.actor = a
      BY <1>1, <1>2, <1>6, BecomesKeeps DEF FinalizeRun
    <2>2. /\ event' \in [Events -> EventRecords] /\ lease' = lease
          /\ \A e \in Events : event'[e].actor = event[e].actor
      BY <1>1, <1>6, SettleKeeps DEF FinalizeRun
    <2>3. lease[a] = "held"
      BY <1>1, <1>6 DEF FinalizeRun, ExecutesUnderLease, Executing
    <2>4. ExecutesUnderLease'
      BY <2>1, <2>2, <2>3 DEF ExecutesUnderLease, Executing
    <2>5. AbsentHasNothing'
      BY <1>2, <2>2, AbsentStays DEF AbsentHasNothing, Exists, Enabled
    <2> QED BY <1>2, <2>1, <2>2, <2>4, <2>5 DEF ActorsTypeOK
  <1>7. CASE ReleaseLease(t)
    <2>1. /\ tasks' \subseteq TaskRecords /\ OneTaskPerActor'
          /\ \A u \in Executing' : u \in Executing /\ u # t
      BY <1>2, <1>7, BecomesKeeps DEF ReleaseLease
    <2>2. /\ event' = event /\ lease' = [lease EXCEPT ![a] = "free"]
      BY <1>1, <1>7 DEF ReleaseLease
    <2>3. \A u \in Executing' : u.actor # a
      BY <1>1, <2>1 DEF OneTaskPerActor, Executing
    <2>4. ActorsTypeOK'
      BY <1>2, <2>1, <2>2 DEF ActorsTypeOK
    <2>5. ExecutesUnderLease'
      BY <2>1, <2>2, <2>3 DEF ExecutesUnderLease, ActorsTypeOK, Executing, TaskRecords
    <2>6. AbsentHasNothing'
      BY <1>2, <2>2 DEF AbsentHasNothing, ActorsTypeOK, Exists, Enabled, EventsOf
    <2> QED BY <2>1, <2>4, <2>5, <2>6
  <1> QED BY <1>1, <1>3, <1>4, <1>5, <1>6, <1>7

\* Ingress admits events of enabled actors only, and a delivery keeps the actor.
LEMMA EventsKeep ==
  ASSUME ActorsInv,
         \/ \E e \in Events, a \in Actors : AcceptEvent(e, a)
         \/ \E e \in Events, state \in {"settled", "unknown"} : DeliverResult(e, state)
  PROVE  ActorsInv'
  <1> USE DEF ActorsInv
  <1>1. CASE \E e \in Events, a \in Actors : AcceptEvent(e, a)
    <2>1. PICK e \in Events, a \in Actors : AcceptEvent(e, a)
      BY <1>1
    <2> DEFINE new == [actor |-> a, seq |-> actor[a].next + 1, routed |-> TRUE,
                       state |-> "pending", by |-> 0]
    <2>2. /\ Enabled(a) /\ UNCHANGED <<lease, tasks, manager, changes, crashes>>
          /\ actor' = [actor EXCEPT ![a].next = @ + 1]
          /\ event' = [event EXCEPT ![e] = new]
      BY <2>1 DEF AcceptEvent, AppendEvent, Admits
    <2>3. /\ actor' \in [Actors -> ActorRecords]
          /\ \A b \in Actors : actor'[b].state = actor[b].state
      BY <2>2 DEF ActorsTypeOK, ActorRecords
    <2>4. new \in EventRecords /\ new.actor = a
      BY DEF ActorsTypeOK, ActorRecords, EventRecords, EventStates
    <2> HIDE DEF new
    <2>5. ActorsTypeOK'
      BY <2>2, <2>3, <2>4 DEF ActorsTypeOK
    <2>6. AbsentHasNothing'
      BY <2>2, <2>3, <2>4 DEF AbsentHasNothing, ActorsTypeOK, Exists, Enabled, EventsOf
    <2> QED BY <2>2, <2>5, <2>6 DEF OneTaskPerActor, ExecutesUnderLease, Executing
  <1>2. CASE \E e \in Events, state \in {"settled", "unknown"} : DeliverResult(e, state)
    <2>1. PICK e \in Events, state \in {"settled", "unknown"} : DeliverResult(e, state)
      BY <1>2
    <2>2. /\ UNCHANGED <<actor, lease, tasks, manager, changes, crashes>>
          /\ event' \in [Events -> EventRecords]
          /\ \A f \in Events : event'[f].actor = event[f].actor
      BY <2>1 DEF DeliverResult, ActorsTypeOK, EventRecords, EventStates, NoEvent
    <2>3. AbsentHasNothing'
      BY <2>2, AbsentStays DEF AbsentHasNothing, Exists, Enabled
    <2> QED BY <2>2, <2>3 DEF ActorsTypeOK, OneTaskPerActor, ExecutesUnderLease, Executing
  <1> QED BY <1>1, <1>2

\* The lease of a dead process expires, and a new process has no tasks.
LEMMA LeasesKeep ==
  ASSUME ActorsInv,
         \/ \E a \in Actors : LeaseExpires(a)
         \/ \E live \in SUBSET Actors : RestartTasks(live)
  PROVE  ActorsInv'
  <1> USE DEF ActorsInv
  <1>1. CASE \E a \in Actors : LeaseExpires(a)
    BY <1>1 DEF LeaseExpires, ActorsTypeOK, OneTaskPerActor, ExecutesUnderLease, Executing,
       TaskRecords, AbsentHasNothing, Exists, Enabled, EventsOf
  <1>2. CASE \E live \in SUBSET Actors : RestartTasks(live)
    BY <1>2 DEF RestartTasks, ActorsTypeOK, OneTaskPerActor, ExecutesUnderLease, Executing,
       AbsentHasNothing, Exists, Enabled, EventsOf
  <1> QED BY <1>1, <1>2

-----------------------------------------------------------------------------
(* The theorems.                                                           *)

\* The invariant of the actor table, its leases and its tasks.
THEOREM ActorsInvariant == ActorsSpec => []ActorsInv
  <1>1. ActorsInv /\ [ActorsNext]_actorVars => ActorsInv'
    <2> SUFFICES ASSUME ActorsInv, [ActorsNext]_actorVars PROVE ActorsInv'
      OBVIOUS
    <2>1. CASE UNCHANGED actorVars
      BY <2>1 DEF actorVars, ActorsInv, ActorsTypeOK, OneTaskPerActor, ExecutesUnderLease,
         Executing, AbsentHasNothing, Exists, Enabled, EventsOf
    <2>2. CASE ActorsNext
      BY <2>2, AdministerKeeps, DeleteKeeps, ManageKeeps, TaskStepKeeps, EventsKeep, LeasesKeep
      DEF ActorsNext
    <2> QED BY <2>1, <2>2
  <1> QED BY <1>1, ActorsInvInit, PTL DEF ActorsSpec

\* Every variable keeps its type.
THEOREM ActorsTypeCorrect == ActorsSpec => []ActorsTypeOK
  <1>1. ActorsInv => ActorsTypeOK
    BY DEF ActorsInv
  <1> QED BY <1>1, ActorsInvariant, PTL

\* One actor never has two quanta at a time, although every task of the process
\* owns every lease of the process: the manager waits for the tasks it stopped
\* before it starts others (reconcile_dispatchers).
THEOREM OneQuantumPerActorAlways == ActorsSpec => []OneQuantumPerActor
  <1>1. ActorsInv => OneQuantumPerActor
    BY DEF ActorsInv, OneTaskPerActor, OneQuantumPerActor, Executing
  <1> QED BY <1>1, ActorsInvariant, PTL

\* A deleted actor leaves no event, no lease and no quantum to an actor created
\* with its id, whatever its tasks were doing (delete_actor).
THEOREM DeletedLeavesNothingAlways == ActorsSpec => []DeletedLeavesNothing
  <1>1. ActorsInv => DeletedLeavesNothing
    BY DEF ActorsInv, AbsentHasNothing, ExecutesUnderLease, DeletedLeavesNothing
  <1> QED BY <1>1, ActorsInvariant, PTL

\* No quantum of an actor starts, and no event of it is accepted, in a step that
\* begins with the actor disabled or deleted (acquire_ready_actor_for, ingest).
THEOREM NothingStartsOnceDisabled == ActorsSpec => NothingOnceDisabled
  <1> DEFINE Kept == \A a \in Actors : ~Enabled(a) =>
               /\ ~StartsQuantum(a)
               /\ \A e \in Events : event'[e].actor = a => event[e].actor = a \/ event'[e] = NoEvent
  <1>1. ActorsInv /\ [ActorsNext]_actorVars => [Kept]_actorVars
    <2> SUFFICES ASSUME ActorsInv, ActorsNext, NEW a \in Actors, ~Enabled(a)
                 PROVE  /\ ~StartsQuantum(a)
                        /\ \A e \in Events :
                             event'[e].actor = a => event[e].actor = a \/ event'[e] = NoEvent
      OBVIOUS
    <2> USE DEF ActorsInv
    <2>1. CASE Administer
      BY <2>1 DEF Administer, CreateActor, SetActorEnabled, MutateActorTools, StartsQuantum, Executing
    <2>2. CASE \E b \in Actors, force \in BOOLEAN : DeleteActor(b, force)
      BY <2>2 DEF DeleteActor, StartsQuantum, Executing, ActorsTypeOK
    <2>3. CASE Manage
      <3>1. event' = event
        BY <2>3 DEF Manage, Reconcile, JoinStopped
      <3>2. \A t \in tasks' : \/ t \in tasks \/ t.pc = "idle"
                              \/ \E u \in tasks : t.pc = u.pc /\ t.actor = u.actor
        <4> DEFINE told(u) == [u EXCEPT !.listed = FALSE, !.stop = TRUE]
        <4>1. \A u \in tasks : told(u).pc = u.pc /\ told(u).actor = u.actor
          BY DEF ActorsTypeOK, TaskRecords
        <4>2. \A t \in tasks' : \/ t \in tasks \/ \E b \in Missing : t = NewTask(b)
                                \/ \E u \in tasks : t = told(u)
          BY <2>3 DEF Manage, Reconcile, JoinStopped, Listed
        <4> HIDE DEF told
        <4> QED BY <4>1, <4>2, NewTaskType DEF Missing
      <3> QED BY <3>1, <3>2 DEF StartsQuantum, Executing
    <2>4. CASE \E b \in Actors : TaskStep(b)
      <3>1. PICK t \in tasks :
               \/ CheckShutdown(t) \/ StopTask(t) \/ AcquireReadyActorFor(t)
               \/ FinalizeRun(t) \/ ReleaseLease(t)
        BY <2>4 DEF TaskStep
      <3>2. t.actor \in Actors /\ \A e \in Events : event'[e].actor = event[e].actor
        BY <3>1, SettleKeeps DEF CheckShutdown, StopTask, AcquireReadyActorFor, FinalizeRun,
           ReleaseLease, ActorsTypeOK, TaskRecords
      <3>3. ~StartsQuantum(a)
        <4>1. CASE StopTask(t)
          BY <4>1 DEF StopTask, StartsQuantum, Executing
        <4>2. CASE CheckShutdown(t) \/ ReleaseLease(t)
          BY <4>2, BecomesKeeps DEF CheckShutdown, ReleaseLease, StartsQuantum
        <4>3. CASE AcquireReadyActorFor(t)
          BY <3>2, <4>3, BecomesKeeps DEF AcquireReadyActorFor, Ready, StartsQuantum
        <4>4. CASE FinalizeRun(t)
          <5>1. t \in Executing
            BY <4>4 DEF FinalizeRun, Executing
          <5>2. \A u \in Executing' : u \in Executing \/ u.actor = t.actor
            BY <4>4, BecomesKeeps DEF FinalizeRun
          <5> QED BY <5>1, <5>2 DEF StartsQuantum
        <4> QED BY <3>1, <4>1, <4>2, <4>3, <4>4
      <3> QED BY <3>2, <3>3
    <2>5. CASE \E e \in Events, b \in Actors : AcceptEvent(e, b)
      BY <2>5 DEF AcceptEvent, AppendEvent, Admits, StartsQuantum, Executing, ActorsTypeOK
    <2>6. CASE \E e \in Events, state \in {"settled", "unknown"} : DeliverResult(e, state)
      BY <2>6 DEF DeliverResult, StartsQuantum, Executing, ActorsTypeOK, EventRecords, NoEvent
    <2>7. CASE \E b \in Actors : LeaseExpires(b)
      BY <2>7 DEF LeaseExpires, StartsQuantum, Executing
    <2>8. CASE \E live \in SUBSET Actors : RestartTasks(live)
      BY <2>8 DEF RestartTasks, StartsQuantum, Executing
    <2> QED BY <2>1, <2>2, <2>3, <2>4, <2>5, <2>6, <2>7, <2>8 DEF ActorsNext
  <1> QED BY <1>1, ActorsInvariant, PTL DEF ActorsSpec, NothingOnceDisabled

-----------------------------------------------------------------------------
(* Ingress: the inductive invariant.                                        *)

USE IngressAssumption DEF IngressAssumption

IngressTypes ==
    /\ sent \in [Updates -> UpdateRecords \cup {NotSent}]
    /\ confirmed \in 1 .. MaxUpdate + 1 /\ offset \in 1 .. MaxUpdate + 1
    /\ batch \subseteq Updates /\ step \in Steps
    /\ identity \in [Subjects -> Actors \cup {None}]
    /\ code \in [Actors -> [code : Codes, live : BOOLEAN] \cup {NoCode}]
    /\ issued \subseteq Codes
    /\ failures \in [Subjects -> 0 .. AttemptLimit]
    /\ command \in [Updates -> Outcomes \cup {"none"}]
    /\ response \in [Updates -> Answers \cup {"none"}]
    /\ route \in [Actors -> Subjects \cup {None}]

\* The batch has no gap, and begins at the worker's offset.
PollInv ==
    /\ \A u, v \in Updates : v < u /\ sent[u] # NotSent => sent[v] # NotSent
    /\ confirmed <= offset
    /\ \A u \in batch : /\ sent[u] # NotSent /\ offset <= u
                        /\ \A v \in offset .. u : v \in batch

\* A code is held by one actor at most, and by none once it has linked a sender.
CodesInv ==
    /\ \A a, b \in Actors : code[a].code # None =>
         code[a].code \in issued /\ (code[a].code = code[b].code => a = b)
    /\ \A u \in Updates : command[u] \in {"linked", "already"} =>
         /\ sent[u].kind = "link" /\ sent[u].code \in issued
         /\ \A a \in Actors : code[a].code # sent[u].code

\* Only what a webhook leads to waits for a route, or is released by one.
Origins ==
    /\ \A h \in Hooks : event[h].actor = Default /\ event[h].by \in Updates \cup {0}
    /\ \A u \in Updates : /\ event[u].state \notin {"deferred", "superseded"}
                          /\ event[u].by = 0
                          /\ event[u] # NoEvent => event[u].routed

\* The sequence numbers of an actor are handed out once.
Numbered ==
    /\ \A e \in Events : event[e] # NoEvent => event[e].seq <= actor[event[e].actor].next
    /\ \A e, f \in Events : /\ event[e] # NoEvent /\ event[f] # NoEvent
                            /\ event[e].actor = event[f].actor /\ event[e].seq = event[f].seq
                            => e = f

EventsInv == Origins /\ Numbered /\ LatestOnly

IngressInv ==
    /\ ActorsInv
    /\ IngressTypes
    /\ PollInv
    /\ CodesInv /\ LinksAreEarned
    /\ EventsInv

-----------------------------------------------------------------------------
(* The initial state.                                                      *)

LEMMA IngressInvInit == Init => IngressInv
  <1> SUFFICES ASSUME Init PROVE IngressInv
    OBVIOUS
  <1>1. ActorsInv
    BY ActorsInvInit DEF Init
  <1>2. IngressTypes
    <2>1. /\ confirmed \in 1 .. MaxUpdate + 1 /\ offset \in 1 .. MaxUpdate + 1
          /\ failures \in [Subjects -> 0 .. AttemptLimit]
      BY DEF Init
    <2>2. /\ sent \in [Updates -> UpdateRecords \cup {NotSent}]
          /\ identity \in [Subjects -> Actors \cup {None}]
          /\ code \in [Actors -> [code : Codes, live : BOOLEAN] \cup {NoCode}]
          /\ command \in [Updates -> Outcomes \cup {"none"}]
          /\ response \in [Updates -> Answers \cup {"none"}]
          /\ route \in [Actors -> Subjects \cup {None}]
      BY DEF Init
    <2>3. batch \subseteq Updates /\ step \in Steps /\ issued \subseteq Codes
      BY DEF Init, Steps
    <2> QED BY <2>1, <2>2, <2>3 DEF IngressTypes
  <1>3. PollInv /\ CodesInv
    BY DEF Init, PollInv, CodesInv, NoCode
  <1>4. LinksAreEarned
    <2>1. \A u \in Updates : command[u] = "none"
      BY DEF Init
    <2>2. \A s \in Subjects : identity[s] # None => s \in Linked /\ identity[s] = Default
      BY DEF Init
    <2>3. Exists(Default)
      BY DEF Init, ActorsInit, Exists
    <2> QED BY <2>1, <2>2, <2>3 DEF LinksAreEarned
  <1>5. EventsInv
    BY DEF Init, ActorsInit, EventsInv, Origins, Numbered, LatestOnly, NoEvent
  <1> QED BY <1>1, <1>2, <1>3, <1>4, <1>5 DEF IngressInv

-----------------------------------------------------------------------------
(* Events: what a step may do to them.                                     *)

\* The first event of a set, and the last, are of the set.
LEMMA LeastNumber ==
  ASSUME NEW S \in SUBSET Nat, S # {}
  PROVE  \E n \in S : \A m \in S : n <= m
  <1> DEFINE R == OpToRel(<, Nat)
  <1>1. IsWellFoundedOn(R, Nat)
    BY NatLessThanWellFounded
  <1>2. R = {p \in Nat \X Nat : p[1] < p[2]}
    BY DEF OpToRel
  <1> HIDE DEF R
  <1>3. PICK n \in S : \A m \in S : <<m, n>> \notin R
    BY <1>1, WFMin
  <1>4. ASSUME NEW m \in S PROVE n <= m
    <2>1. m \in Nat /\ n \in Nat /\ <<m, n>> \in Nat \X Nat
      OBVIOUS
    <2>2. ~(m < n)
      BY <1>2, <1>3, <2>1
    <2> QED BY <2>1, <2>2
  <1> QED BY <1>3, <1>4

LEMMA OldestIsOne ==
  ASSUME ActorsTypeOK, NEW E \in SUBSET Events, E # {}
  PROVE  Oldest(E) \in E
  <1> DEFINE S == {event[e].seq : e \in E}
  <1>1. \A e \in Events : event[e].seq \in Nat
    BY DEF ActorsTypeOK, EventRecords, NoEvent
  <1>2. PICK n \in S : \A m \in S : n <= m
    <2>1. S \in SUBSET Nat /\ S # {}
      BY <1>1
    <2> HIDE DEF S
    <2> QED BY <2>1, LeastNumber
  <1>3. \E e \in E : \A f \in E : event[e].seq <= event[f].seq
    BY <1>2
  <1> QED BY <1>3 DEF Oldest

LEMMA NewestIsLast ==
  ASSUME ActorsTypeOK, Numbered, NEW a \in Actors, NEW E \in SUBSET Events, E # {},
         \A e \in E : event[e] # NoEvent /\ event[e].actor = a
  PROVE  /\ Newest(E) \in E
         /\ \A e \in E \ {Newest(E)} : event[e].seq < event[Newest(E)].seq
  <1> DEFINE next == actor[a].next
             S == {next - event[e].seq : e \in E}
  <1>1. next \in Nat /\ \A e \in E : event[e].seq \in Nat /\ event[e].seq <= next
    BY DEF ActorsTypeOK, ActorRecords, EventRecords, NoEvent, Numbered
  <1>2. PICK n \in S : \A m \in S : n <= m
    <2>1. S \in SUBSET Nat /\ S # {}
      BY <1>1
    <2> HIDE DEF S
    <2> QED BY <2>1, LeastNumber
  <1>3. PICK e \in E : n = next - event[e].seq
    BY <1>2
  <1>4. \A f \in E : event[f].seq <= event[e].seq
    <2> SUFFICES ASSUME NEW f \in E PROVE event[f].seq <= event[e].seq
      OBVIOUS
    <2>1. next - event[e].seq <= next - event[f].seq
      BY <1>2, <1>3
    <2> HIDE DEF next
    <2> QED BY <1>1, <2>1
  <1>5. Newest(E) \in E /\ \A f \in E : event[f].seq <= event[Newest(E)].seq
    BY <1>4 DEF Newest
  <1>6. \A f \in E \ {Newest(E)} : event[f].seq # event[Newest(E)].seq
    BY <1>5 DEF Numbered
  <1> QED BY <1>1, <1>5, <1>6

\* Steps in which no event changes and no actor's numbers go back.
LEMMA EventsStay ==
  ASSUME ActorsInv, ActorsInv', EventsInv, UNCHANGED event,
         \A a \in Actors : Exists(a) => actor'[a].next >= actor[a].next
  PROVE  EventsInv'
  <1> USE DEF ActorsInv, EventsInv
  <1>1. \A e \in Events : event[e] # NoEvent => event[e].actor \in Actors /\ Exists(event[e].actor)
    BY DEF ActorsTypeOK, EventRecords, EventStates, AbsentHasNothing, EventsOf
  <1>2. \A a \in Actors : actor[a].next \in Nat /\ actor'[a].next \in Nat
    BY DEF ActorsTypeOK, ActorRecords
  <1>3. \A e \in Events : event[e].seq \in Nat
    BY DEF ActorsTypeOK, EventRecords, NoEvent
  <1>4. Numbered'
    <2>1. \A e \in Events : event'[e] # NoEvent => event'[e].seq <= actor'[event'[e].actor].next
      BY <1>1, <1>2, <1>3 DEF Numbered
    <2> QED BY <2>1 DEF Numbered
  <1> QED BY <1>4 DEF Origins, LatestOnly

\* Steps in which events go on from a state to another, none superseded, and only
\* those without a route deferred.
LEMMA EventsGoOn ==
  ASSUME ActorsTypeOK, ActorsTypeOK', EventsInv, UNCHANGED actor,
         \A e \in Events :
           /\ event'[e].actor = event[e].actor /\ event'[e].seq = event[e].seq
           /\ event'[e].routed = event[e].routed /\ event'[e].by = event[e].by
           /\ event'[e] = NoEvent <=> event[e] = NoEvent
           /\ event'[e].state = "superseded" => event[e].state = "superseded"
           /\ event'[e].state = "deferred" => event[e].state = "deferred" \/ ~event[e].routed
           /\ event[e] = NoEvent => event'[e].state = event[e].state
  PROVE  EventsInv'
  <1> USE DEF EventsInv
  <1>1. Origins'
    BY DEF Origins, NoEvent
  <1>2. Numbered'
    BY DEF Numbered
  <1>3. LatestOnly'
    BY DEF LatestOnly, Origins
  <1> QED BY <1>1, <1>2, <1>3

-----------------------------------------------------------------------------
(* What a step leaves alone.                                               *)

LEMMA ActorsStay ==
  ASSUME ActorsInv, UNCHANGED actorVars
  PROVE  ActorsInv'
  BY DEF actorVars, ActorsInv, ActorsTypeOK, OneTaskPerActor, ExecutesUnderLease, Executing,
     AbsentHasNothing, Exists, Enabled, EventsOf

LEMMA PollStays ==
  ASSUME PollInv, UNCHANGED <<sent, confirmed, offset, batch>>
  PROVE  PollInv'
  BY DEF PollInv

LEMMA CodesStay ==
  ASSUME CodesInv, UNCHANGED <<sent, code, issued, command>>
  PROVE  CodesInv'
  BY DEF CodesInv

\* A link lasts as long as its actor exists.
LEMMA LinksStay ==
  ASSUME IngressTypes, LinksAreEarned, UNCHANGED <<sent, identity, command>>,
         \A a \in Actors : Exists(a) => Exists(a)'
  PROVE  LinksAreEarned'
  BY DEF IngressTypes, LinksAreEarned

\* A step of the rows and the worker alone.
LEMMA EventsUntouched ==
  ASSUME IngressInv, UNCHANGED actorVars
  PROVE  /\ ActorsInv' /\ EventsInv'
         /\ \A a \in Actors : Exists(a) => Exists(a)'
  <1>1. ActorsInv'
    BY ActorsStay DEF IngressInv
  <1>2. \A a \in Actors : /\ Exists(a) => Exists(a)'
                          /\ actor'[a].next >= actor[a].next
    BY DEF actorVars, Exists, IngressInv, ActorsInv, ActorsTypeOK, ActorRecords
  <1> QED BY <1>1, <1>2, EventsStay DEF actorVars, IngressInv

-----------------------------------------------------------------------------
(* Administration.                                                         *)

LEMMA AdministerKeepsIngress ==
  ASSUME IngressInv, Administer, UNCHANGED ingressVars
  PROVE  IngressInv'
  <1>1. ActorsInv'
    BY AdministerKeeps DEF IngressInv
  <1>2. PICK a \in Actors :
           \/ CreateActor(a)
           \/ SetActorEnabled(a, "enabled")
           \/ SetActorEnabled(a, "disabled")
           \/ \E tools \in SUBSET Tools : MutateActorTools(a, tools)
    BY DEF Administer
  <1>3. /\ event' = event
        /\ \A b \in Actors : /\ Exists(b) => Exists(b)'
                             /\ Exists(b) => actor'[b].next = actor[b].next
    <2>1. CASE CreateActor(a)
      BY <2>1 DEF CreateActor, Exists, IngressInv, ActorsInv, ActorsTypeOK, ActorRecords
    <2>2. CASE SetActorEnabled(a, "enabled") \/ SetActorEnabled(a, "disabled")
      BY <2>2 DEF SetActorEnabled, Exists, IngressInv, ActorsInv, ActorsTypeOK, ActorRecords
    <2>3. CASE \E tools \in SUBSET Tools : MutateActorTools(a, tools)
      BY <2>3 DEF MutateActorTools, Exists, IngressInv, ActorsInv, ActorsTypeOK, ActorRecords
    <2> QED BY <1>2, <2>1, <2>2, <2>3
  <1>4. \A b \in Actors : actor[b].next \in Nat
    BY DEF IngressInv, ActorsInv, ActorsTypeOK, ActorRecords
  <1>5. EventsInv'
    BY <1>1, <1>3, <1>4, EventsStay DEF IngressInv
  <1>6. LinksAreEarned'
    BY <1>3, LinksStay DEF IngressInv, ingressVars
  <1>7. IngressTypes' /\ PollInv' /\ CodesInv'
    BY PollStays, CodesStay DEF IngressInv, IngressTypes, ingressVars
  <1> QED BY <1>1, <1>5, <1>6, <1>7 DEF IngressInv

\* A deletion takes the links, the code and the events of the actor with it, and
\* the default actor, which webhooks are for, stays.
LEMMA DeleteKeepsIngress ==
  ASSUME IngressInv, NEW a \in Actors, NEW force \in BOOLEAN, DeleteWithRows(a, force)
  PROVE  IngressInv'
  <1> USE DEF IngressInv
  <1>1. /\ a # Default
        /\ actor' = [actor EXCEPT ![a] = Absent]
        /\ event' = [e \in Events |-> IF event[e].actor = a THEN NoEvent ELSE event[e]]
        /\ identity' = Unlinked(a)
        /\ code' = [code EXCEPT ![a] = NoCode]
        /\ route' = [route EXCEPT ![a] = None]
        /\ UNCHANGED <<sent, confirmed, offset, batch, step, issued, failures, command, response>>
    BY DEF DeleteWithRows, DeleteActor
  <1>2. ActorsInv'
    BY DeleteKeeps DEF DeleteWithRows
  <1>3. IngressTypes'
    BY <1>1 DEF IngressTypes, Unlinked
  <1>4. PollInv'
    BY <1>1, PollStays
  <1>5. CodesInv'
    BY <1>1 DEF CodesInv, IngressTypes, NoCode, UpdateRecords, NotSent
  <1>6. LinksAreEarned'
    <2>1. \A s \in Subjects : identity'[s] # None =>
            identity'[s] = identity[s] /\ Exists(identity[s])'
      BY <1>1 DEF Unlinked, LinksAreEarned, IngressTypes, Exists, ActorsInv, ActorsTypeOK
    <2> QED BY <1>1, <2>1 DEF LinksAreEarned
  <1>7. EventsInv'
    <2> USE DEF EventsInv
    <2>1. \A e \in Events : \/ event'[e] = NoEvent
                            \/ event'[e] = event[e] /\ event[e].actor # a
      BY <1>1
    <2>2. \A h \in Hooks : event'[h] = event[h]
      BY <1>1 DEF Origins
    <2>3. Origins'
      <3>1. NoEvent.state = "none" /\ NoEvent.by = 0
        BY DEF NoEvent
      <3>2. \A u \in Updates : event'[u] = NoEvent \/ event'[u] = event[u]
        BY <2>1
      <3>3. \A u \in Updates : /\ event'[u].state \notin {"deferred", "superseded"}
                               /\ event'[u].by = 0
                               /\ event'[u] # NoEvent => event'[u].routed
        BY <3>1, <3>2 DEF Origins
      <3> QED BY <2>2, <3>3 DEF Origins
    <2>4. Numbered'
      <3>1. \A e \in Events : event[e] # NoEvent => event[e].actor \in Actors
        BY DEF ActorsInv, ActorsTypeOK, EventRecords
      <3>2. \A b \in Actors : b # a => actor'[b] = actor[b]
        BY <1>1 DEF ActorsInv, ActorsTypeOK
      <3>3. \A e \in Events : event'[e] # NoEvent => event'[e].seq <= actor'[event'[e].actor].next
        BY <2>1, <3>1, <3>2 DEF Numbered
      <3>4. \A e, f \in Events : /\ event'[e] # NoEvent /\ event'[f] # NoEvent
                            /\ event'[e].actor = event'[f].actor /\ event'[e].seq = event'[f].seq
                            => e = f
        BY <2>1 DEF Numbered
      <3> QED BY <3>3, <3>4 DEF Numbered
    <2>5. LatestOnly'
      <3>1. \A u \in Updates : event[u].actor = Default => event'[u] = event[u]
        BY <1>1
      <3>2. \A h \in Hooks : event[h].by # 0 => event'[event[h].by] = event[event[h].by]
        BY <3>1 DEF Origins, LatestOnly
      <3> QED BY <2>2, <3>2 DEF LatestOnly
    <2> QED BY <2>3, <2>4, <2>5
  <1> QED BY <1>2, <1>3, <1>4, <1>5, <1>6, <1>7

-----------------------------------------------------------------------------
(* Link codes.                                                             *)

\* Expiry, collection and forgotten failures.
LEMMA CollectKeeps ==
  ASSUME IngressTypes, CodesInv, CollectExpired, UNCHANGED <<sent, issued, command>>
  PROVE  /\ code' \in [Actors -> [code : Codes, live : BOOLEAN] \cup {NoCode}]
         /\ CodesInv'
  <1>1. \A a \in Actors : code'[a] = code[a] \/ code'[a] = NoCode
    BY DEF CollectExpired
  <1>2. code' \in [Actors -> [code : Codes, live : BOOLEAN] \cup {NoCode}]
    BY DEF CollectExpired, IngressTypes
  <1>3. CodesInv'
    BY <1>1 DEF CodesInv, IngressTypes, NoCode, UpdateRecords, NotSent
  <1> QED BY <1>2, <1>3

LEMMA CodeStepsKeep ==
  ASSUME IngressInv,
         \/ \E a \in Actors, c \in Codes : IssueLinkCode(a, c)
         \/ \E a \in Actors : LinkCodeExpires(a)
         \/ \E s \in Subjects : AttemptWindowPasses(s)
         \/ RunIdentityLinkGc
  PROVE  IngressInv'
  <1> USE DEF IngressInv
  <1>1. /\ UNCHANGED actorVars
        /\ UNCHANGED <<sent, confirmed, offset, batch, step, identity, command, response, route>>
    BY DEF IssueLinkCode, LinkCodeExpires, AttemptWindowPasses, RunIdentityLinkGc
  <1>2. ActorsInv' /\ EventsInv' /\ LinksAreEarned' /\ PollInv'
    BY <1>1, EventsUntouched, LinksStay, PollStays
  <1>3. CASE \E a \in Actors, c \in Codes : IssueLinkCode(a, c)
    <2>1. PICK a \in Actors, c \in Codes : IssueLinkCode(a, c)
      BY <1>3
    <2>2. /\ c \notin issued /\ issued' = issued \cup {c} /\ failures' = failures
          /\ code' = [code EXCEPT ![a] = [code |-> c, live |-> TRUE]]
      BY <2>1 DEF IssueLinkCode
    <2>3. IngressTypes'
      BY <1>1, <2>2 DEF IngressTypes
    <2>4. \A b \in Actors : IF b = a THEN code'[b].code = c ELSE code'[b] = code[b]
      BY <2>2 DEF IngressTypes
    <2>5. CodesInv'
      BY <1>1, <2>2, <2>4 DEF CodesInv
    <2> QED BY <1>2, <2>3, <2>5
  <1>4. CASE \E a \in Actors : LinkCodeExpires(a)
    <2>1. PICK a \in Actors : LinkCodeExpires(a)
      BY <1>4
    <2>2. /\ code[a].live /\ UNCHANGED <<issued, failures>>
          /\ code' = [code EXCEPT ![a].live = FALSE]
      BY <2>1 DEF LinkCodeExpires
    <2>3. code[a] \in [code : Codes, live : BOOLEAN]
      BY <2>2 DEF IngressTypes, NoCode
    <2>4. IngressTypes'
      BY <1>1, <2>2, <2>3 DEF IngressTypes
    <2>5. \A b \in Actors : code'[b].code = code[b].code
      BY <2>2, <2>3 DEF IngressTypes
    <2>6. CodesInv'
      BY <1>1, <2>2, <2>5 DEF CodesInv
    <2> QED BY <1>2, <2>4, <2>6
  <1>5. CASE \E s \in Subjects : AttemptWindowPasses(s)
    <2>1. IngressTypes'
      BY <1>1, <1>5 DEF AttemptWindowPasses, IngressTypes
    <2>2. CodesInv'
      BY <1>1, <1>5, CodesStay DEF AttemptWindowPasses
    <2> QED BY <1>2, <2>1, <2>2
  <1>6. CASE RunIdentityLinkGc
    BY <1>1, <1>2, <1>6, CollectKeeps DEF RunIdentityLinkGc, IngressTypes
  <1> QED BY <1>3, <1>4, <1>5, <1>6

-----------------------------------------------------------------------------
(* The polling worker.                                                     *)

\* A batch that is not empty begins at the worker's offset.
LEMMA FirstIsOffset ==
  ASSUME IngressTypes, PollInv, batch # {}
  PROVE  /\ First = offset /\ offset \in batch /\ offset \in Updates
         /\ sent[offset] # NotSent /\ sent[offset] \in UpdateRecords
  <1>1. PICK u \in batch : u \in Updates /\ offset <= u /\ \A v \in offset .. u : v \in batch
    BY DEF IngressTypes, PollInv
  <1>2. offset \in batch /\ offset \in Updates
    BY <1>1 DEF IngressTypes, Updates
  <1>3. First \in batch /\ \A v \in batch : First <= v
    <2>1. \A v \in batch : offset <= v
      BY DEF PollInv
    <2> QED BY <1>2, <2>1 DEF First
  <1>4. First = offset
    <2>1. First <= offset /\ offset <= First /\ First \in Updates
      BY <1>2, <1>3 DEF PollInv, IngressTypes
    <2>2. \A m, n \in Nat : m <= n /\ n <= m => m = n
      OBVIOUS
    <2> QED BY <1>2, <2>1, <2>2 DEF Updates
  <1>5. sent[offset] # NotSent /\ sent[offset] \in UpdateRecords
    BY <1>2 DEF PollInv, IngressTypes
  <1> QED BY <1>2, <1>4, <1>5

\* Where the worker stands: the part of the types that moves with it.
WorkerTypes ==
    /\ confirmed \in 1 .. MaxUpdate + 1 /\ offset \in 1 .. MaxUpdate + 1
    /\ batch \subseteq Updates /\ step \in Steps

\* The three ways in which a step of the handler moves the worker: on to the next
\* update, back to ask for this one again, or to another step of this one.
LEMMA HandledMoves ==
  ASSUME IngressTypes, PollInv, batch # {}, Handled, UNCHANGED <<sent, confirmed>>
  PROVE  WorkerTypes' /\ PollInv'
  <1>1. /\ offset \in batch /\ offset \in Updates
        /\ offset' = offset + 1 /\ batch' = batch \ {offset} /\ step' = Start
    BY FirstIsOffset DEF Handled
  <1>2. WorkerTypes'
    BY <1>1 DEF WorkerTypes, IngressTypes, Steps, Updates
  <1>3. confirmed' <= offset'
    BY <1>1 DEF PollInv, IngressTypes
  <1>4. ASSUME NEW u \in batch'
        PROVE  /\ sent'[u] # NotSent /\ offset' <= u
               /\ \A v \in offset' .. u : v \in batch'
    <2>1. /\ u \in batch /\ u # offset /\ offset <= u /\ sent[u] # NotSent
          /\ \A v \in offset .. u : v \in batch
      BY <1>1, <1>4 DEF PollInv
    <2>2. u \in Int /\ offset \in Int
      BY <2>1 DEF IngressTypes, Updates
    <2>3. \A v \in offset + 1 .. u : v \in offset .. u /\ v # offset
      BY <2>2
    <2> QED BY <1>1, <2>1, <2>2, <2>3
  <1> QED BY <1>2, <1>3, <1>4 DEF PollInv

LEMMA FailedMoves ==
  ASSUME IngressTypes, PollInv, batch # {}, Failed, UNCHANGED <<sent, confirmed>>
  PROVE  WorkerTypes' /\ PollInv'
  <1>1. offset' = offset /\ batch' = {} /\ step' = Start
    BY FirstIsOffset DEF Failed
  <1> QED BY <1>1 DEF WorkerTypes, IngressTypes, PollInv, Steps

LEMMA GotoMoves ==
  ASSUME IngressTypes, PollInv, UNCHANGED <<sent, confirmed>>,
         \/ Goto("download") \/ Goto("ingest")
         \/ \E text \in Answers : AnswerWith(text)
  PROVE  WorkerTypes' /\ PollInv'
  <1>1. step' \in Steps /\ UNCHANGED <<offset, batch>>
    BY DEF Goto, AnswerWith, Steps
  <1> QED BY <1>1, PollStays DEF WorkerTypes, IngressTypes

\* Telegram sends updates in the order of their ids, and a batch is all of them
\* from the worker's offset on.
LEMMA PollStepsKeep ==
  ASSUME IngressInv,
         \/ \E u \in Updates, content \in Contents : SendUpdate(u, content)
         \/ GetUpdates
  PROVE  IngressInv'
  <1> USE DEF IngressInv
  <1>1. /\ UNCHANGED actorVars
        /\ UNCHANGED <<offset, step, identity, code, issued, failures, command, response, route>>
    BY DEF SendUpdate, GetUpdates
  <1>2. ActorsInv' /\ EventsInv' /\ \A a \in Actors : Exists(a) => Exists(a)'
    BY <1>1, EventsUntouched
  <1>3. CASE \E u \in Updates, content \in Contents : SendUpdate(u, content)
    <2>1. PICK u \in Updates, content \in Contents : SendUpdate(u, content)
      BY <1>3
    <2>2. /\ sent[u] = NotSent /\ \A v \in Updates : v < u => sent[v] # NotSent
          /\ sent' = [sent EXCEPT ![u] = content] /\ UNCHANGED <<confirmed, batch>>
      BY <2>1 DEF SendUpdate
    <2>3. content \in UpdateRecords /\ content # NotSent
      BY DEF UpdateRecords, NotSent
    <2>4. \A v \in Updates : sent'[v] = IF v = u THEN content ELSE sent[v]
      BY <2>2 DEF IngressTypes
    <2>5. IngressTypes'
      BY <1>1, <2>2, <2>3 DEF IngressTypes
    <2>6. PollInv'
      BY <1>1, <2>2, <2>3, <2>4 DEF PollInv, IngressTypes, Updates
    <2>7. \A v \in Updates : command[v] \in {"linked", "already"} => v # u
      BY <2>2 DEF CodesInv, NotSent
    <2>8. CodesInv'
      BY <1>1, <2>4, <2>7 DEF CodesInv
    <2>9. LinksAreEarned'
      BY <1>1, <1>2, <2>4, <2>7 DEF LinksAreEarned, IngressTypes
    <2> QED BY <1>2, <2>5, <2>6, <2>8, <2>9
  <1>4. CASE GetUpdates
    <2>1. /\ confirmed' = offset /\ sent' = sent
          /\ batch' = {u \in Updates : u >= offset /\ sent[u] # NotSent}
      BY <1>4 DEF GetUpdates
    <2>2. IngressTypes'
      BY <1>1, <2>1 DEF IngressTypes
    <2>3. ASSUME NEW u \in batch', NEW v \in offset .. u
          PROVE  v \in batch'
      <3>1. u \in Updates /\ sent[u] # NotSent /\ v \in Updates /\ offset <= v /\ v <= u
        BY <2>1, <2>3 DEF IngressTypes, Updates
      <3>2. v = u \/ v < u
        BY <3>1 DEF Updates
      <3> QED BY <2>1, <3>1, <3>2 DEF PollInv
    <2>4. \A u \in batch' : sent'[u] # NotSent /\ offset' <= u
      BY <1>1, <2>1
    <2>5. confirmed' <= offset'
      BY <1>1, <2>1 DEF IngressTypes
    <2>6. PollInv'
      BY <1>1, <2>1, <2>3, <2>4, <2>5 DEF PollInv
    <2> QED BY <1>1, <1>2, <2>1, <2>2, <2>6, CodesStay, LinksStay
  <1> QED BY <1>3, <1>4

-----------------------------------------------------------------------------
(* The handler of an update.                                               *)

LEMMA AnswersKeep ==
  ASSUME IngressInv, ResolveIdentity \/ (\E ok \in BOOLEAN : Download(ok)) \/ EnqueueResponse
  PROVE  IngressInv'
  <1> USE DEF IngressInv
  <1>1. /\ batch # {} /\ UNCHANGED actorVars
        /\ UNCHANGED <<sent, confirmed, identity, code, issued, failures, command, route>>
    BY DEF ResolveIdentity, Download, EnqueueResponse, Handling
  <1>2. ActorsInv' /\ EventsInv' /\ CodesInv' /\ LinksAreEarned'
    BY <1>1, EventsUntouched, CodesStay, LinksStay
  <1>3. CASE ResolveIdentity \/ \E ok \in BOOLEAN : Download(ok)
    <2>1. /\ response' = response
          /\ \/ Goto("download") \/ Goto("ingest")
             \/ AnswerWith("not_linked") \/ AnswerWith("disabled") \/ AnswerWith("no_file")
      <3>1. CASE ResolveIdentity
        BY <3>1 DEF ResolveIdentity
      <3>2. CASE \E ok \in BOOLEAN : Download(ok)
        BY <3>2 DEF Download
      <3> QED BY <1>3, <3>1, <3>2
    <2>2. {"not_linked", "disabled", "no_file"} \subseteq Answers
      BY DEF Answers
    <2>3. WorkerTypes' /\ PollInv'
      BY <1>1, <2>1, <2>2, GotoMoves
    <2>4. IngressTypes'
      BY <1>1, <2>1, <2>3 DEF IngressTypes, WorkerTypes
    <2> QED BY <1>2, <2>3, <2>4
  <1>4. CASE EnqueueResponse
    <2>1. step.text \in Answers
      BY <1>4 DEF EnqueueResponse, Handling, IngressTypes, Steps, Start
    <2>2. /\ Handled \/ Failed
          /\ response' = response \/ response' = [response EXCEPT ![First] = step.text]
      BY <1>4 DEF EnqueueResponse
    <2>3. WorkerTypes' /\ PollInv'
      BY <1>1, <2>2, HandledMoves, FailedMoves
    <2>4. IngressTypes'
      BY <1>1, <2>1, <2>2, <2>3 DEF IngressTypes, WorkerTypes
    <2> QED BY <1>2, <2>3, <2>4
  <1> QED BY <1>3, <1>4

\* What a command does: a code that links or confirms a sender is held by one
\* actor, which is enabled, and by none afterwards.
LEMMA RedeemEffects ==
  ASSUME IngressTypes, CodesInv, NEW s \in Subjects, NEW c \in Codes,
         RedeemEffect(s, c, RedeemOutcome(s, c))
  PROVE  /\ RedeemOutcome(s, c) \in Outcomes
         /\ failures' \in [Subjects -> 0 .. AttemptLimit]
         /\ \/ /\ RedeemOutcome(s, c) \notin {"linked", "already"}
               /\ UNCHANGED <<identity, code>>
            \/ /\ RedeemOutcome(s, c) \in {"linked", "already"}
               /\ \E a \in CodeActors(c) :
                    /\ identity' = [identity EXCEPT ![s] = a]
                    /\ code' = [code EXCEPT ![a] = NoCode]
                    /\ identity[s] = a \/ RedeemOutcome(s, c) = "linked"
  <1> DEFINE outcome == RedeemOutcome(s, c)
  <1>1. outcome \in Outcomes
    BY DEF RedeemOutcome, Outcomes
  <1>2. CASE outcome \in {"rate_limited", "conflict"}
    BY <1>1, <1>2 DEF RedeemEffect, IngressTypes
  <1>3. CASE outcome = "invalid"
    <2>1. failures' = [failures EXCEPT ![s] = @ + 1] /\ UNCHANGED <<identity, code>>
      BY <1>3 DEF RedeemEffect
    <2>2. failures[s] # AttemptLimit /\ failures \in [Subjects -> 0 .. AttemptLimit]
      BY <1>3 DEF RedeemOutcome, IngressTypes
    <2>3. failures[s] + 1 \in 0 .. AttemptLimit
      BY <2>2
    <2>4. failures' \in [Subjects -> 0 .. AttemptLimit]
      BY <2>1, <2>2, <2>3
    <2> QED BY <1>1, <1>3, <2>1, <2>4
  <1>4. CASE outcome \in {"linked", "already"}
    <2>1. PICK a \in CodeActors(c) : identity' = [identity EXCEPT ![s] = a] /\ Consume(a, s)
      BY <1>4 DEF RedeemEffect
    <2>2. /\ code' = [code EXCEPT ![a] = NoCode]
          /\ failures' \in [Subjects -> 0 .. AttemptLimit]
      BY <2>1 DEF Consume, IngressTypes
    <2>3. \A b \in CodeActors(c) : b = a
      BY DEF CodeActors, CodesInv
    <2>4. identity[s] = a \/ outcome = "linked"
      BY <1>4, <2>3 DEF RedeemOutcome
    <2> QED BY <1>1, <1>4, <2>1, <2>2, <2>4
  <1> QED BY <1>1, <1>2, <1>3, <1>4 DEF Outcomes

\* A /link command is carried out once: afterwards its code is held by nobody.
LEMMA RedeemKeeps ==
  ASSUME IngressInv, RedeemOnce
  PROVE  IngressInv'
  <1> USE DEF IngressInv
  <1> DEFINE u == First
             s == From
             c == sent[First].code
             outcome == RedeemOutcome(s, c)
  <1>1. /\ batch # {} /\ UNCHANGED actorVars
        /\ UNCHANGED <<sent, confirmed, issued, response, route>>
    BY DEF RedeemOnce, Handling
  <1>2. ActorsInv' /\ EventsInv' /\ \A a \in Actors : Exists(a) => Exists(a)'
    BY <1>1, EventsUntouched
  <1>3. u \in Updates /\ sent[u].kind = "link" /\ s \in Subjects /\ c \in Codes /\ s = sent[u].subject
    <2>1. u \in Updates /\ sent[u] \in UpdateRecords
      BY <1>1, FirstIsOffset
    <2>2. sent[u].kind = "link"
      BY DEF RedeemOnce
    <2> QED BY <2>1, <2>2 DEF UpdateRecords, From
  <1>4. CASE command[u] # "none"
    <2>1. AnswerWith(command[u]) /\ UNCHANGED <<identity, code, failures, command>>
      BY <1>4 DEF RedeemOnce, StoredOutcome
    <2>2. command[u] \in Answers
      BY <1>3, <1>4 DEF IngressTypes, Answers
    <2>3. WorkerTypes' /\ PollInv'
      BY <1>1, <2>1, <2>2, GotoMoves
    <2>4. IngressTypes'
      BY <1>1, <2>1, <2>3 DEF IngressTypes, WorkerTypes
    <2> QED BY <1>1, <1>2, <2>1, <2>3, <2>4, CodesStay, LinksStay
  <1>5. CASE command[u] = "none"
    <2>1. /\ AnswerWith(outcome) /\ command' = [command EXCEPT ![u] = outcome]
          /\ RedeemEffect(s, c, outcome)
      BY <1>5 DEF RedeemOnce, StoredOutcome
    <2>2. /\ outcome \in Outcomes /\ failures' \in [Subjects -> 0 .. AttemptLimit]
          /\ \/ outcome \notin {"linked", "already"} /\ UNCHANGED <<identity, code>>
             \/ /\ outcome \in {"linked", "already"}
                /\ \E a \in CodeActors(c) :
                     /\ identity' = [identity EXCEPT ![s] = a]
                     /\ code' = [code EXCEPT ![a] = NoCode]
                     /\ identity[s] = a \/ outcome = "linked"
      BY <1>3, <2>1, RedeemEffects
    <2>3. WorkerTypes' /\ PollInv'
      <3>1. outcome \in Answers
        BY <2>2 DEF Answers
      <3> QED BY <1>1, <2>1, <3>1, GotoMoves
    <2> HIDE DEF u, s, c, outcome
    <2>4. /\ \A v \in Updates : command'[v] = IF v = u THEN outcome ELSE command[v]
          /\ command' \in [Updates -> Outcomes \cup {"none"}]
      BY <1>3, <2>1, <2>2 DEF IngressTypes
    <2>5. CASE outcome \notin {"linked", "already"} /\ UNCHANGED <<identity, code>>
      <3>1. IngressTypes'
        BY <1>1, <2>2, <2>3, <2>4, <2>5 DEF IngressTypes, WorkerTypes
      <3>2. \A v \in Updates : command'[v] \in {"linked", "already"} => v # u
        BY <2>4, <2>5
      <3>3. CodesInv'
        BY <1>1, <2>4, <2>5, <3>2 DEF CodesInv
      <3>4. LinksAreEarned'
        BY <1>1, <1>2, <1>5, <2>4, <2>5, <3>2 DEF LinksAreEarned, IngressTypes
      <3> QED BY <1>2, <2>3, <3>1, <3>3, <3>4
    <2>6. CASE outcome \in {"linked", "already"}
      <3>1. PICK a \in CodeActors(c) :
                     /\ identity' = [identity EXCEPT ![s] = a]
                     /\ code' = [code EXCEPT ![a] = NoCode]
                     /\ identity[s] = a \/ outcome = "linked"
        BY <2>2, <2>6
      <3>2. /\ a \in Actors /\ code[a].code = c /\ c # None /\ Exists(a)
        BY <1>3, <3>1 DEF CodeActors, Enabled, Exists
      <3>3. /\ \A b \in Actors : code'[b] = IF b = a THEN NoCode ELSE code[b]
            /\ \A t \in Subjects : identity'[t] = IF t = s THEN a ELSE identity[t]
        BY <3>1 DEF IngressTypes
      <3>4. IngressTypes'
        BY <1>1, <2>2, <2>3, <2>4, <3>1, <3>2 DEF IngressTypes, WorkerTypes
      <3>5. c \in issued /\ \A b \in Actors : b # a => code[b].code # c
        BY <3>2 DEF CodesInv
      <3>6. \A v \in Updates : command[v] \in {"linked", "already"} => sent[v].code # c
        BY <3>2 DEF CodesInv
      <3>7. NoCode.code = None
        BY DEF NoCode
      <3>8. sent[u].kind = "link" /\ sent[u].code = c /\ sent[u].subject = s
        BY <1>3 DEF u, s, c
      <3>9. CodesInv'
        <4>1. \A b, d \in Actors : code'[b].code # None =>
                code'[b].code \in issued /\ (code'[b].code = code'[d].code => b = d)
          BY <3>3, <3>7 DEF CodesInv
        <4>2. \A v \in Updates : command'[v] \in {"linked", "already"} =>
                /\ sent[v].kind = "link" /\ sent[v].code \in issued
                /\ \A b \in Actors : code'[b].code # sent[v].code
          <5> SUFFICES ASSUME NEW v \in Updates, command'[v] \in {"linked", "already"}
                       PROVE  /\ sent[v].kind = "link" /\ sent[v].code \in issued
                              /\ \A b \in Actors : code'[b].code # sent[v].code
            OBVIOUS
          <5>1. CASE v = u
            BY <3>2, <3>3, <3>5, <3>7, <3>8, <5>1
          <5>2. CASE v # u
            <6>1. /\ sent[v].kind = "link" /\ sent[v].code \in issued
                  /\ \A b \in Actors : code[b].code # sent[v].code
              BY <2>4, <5>2 DEF CodesInv
            <6>2. sent[v].code # None
              BY <6>1 DEF IngressTypes, UpdateRecords, NotSent
            <6> QED BY <3>3, <3>7, <6>1, <6>2
          <5> QED BY <5>1, <5>2
        <4> QED BY <1>1, <4>1, <4>2 DEF CodesInv
      <3>10. LinksAreEarned'
        <4>1. \A v, w \in Updates :
                /\ command'[v] \in {"linked", "already"} /\ command'[w] \in {"linked", "already"}
                /\ sent[v].code = sent[w].code
                => v = w
          BY <2>4, <3>6, <3>8 DEF LinksAreEarned
        <4>2. ASSUME NEW t \in Subjects, identity'[t] # None
              PROVE  /\ actor'[identity'[t]].state # "absent"
                     /\ \/ t \in Linked /\ identity'[t] = Default
                        \/ \E v \in Updates : command'[v] = "linked" /\ sent[v].subject = t
          <5>1. CASE t = s /\ outcome = "linked"
            BY <1>2, <1>3, <2>4, <3>2, <3>3, <3>8, <5>1 DEF Exists
          <5>2. CASE ~(t = s /\ outcome = "linked")
            <6>1. identity'[t] = identity[t]
              BY <3>1, <3>3, <5>2
            <6>2. /\ Exists(identity[t]) /\ identity[t] \in Actors
                  /\ \/ t \in Linked /\ identity[t] = Default
                     \/ \E v \in Updates : command[v] = "linked" /\ sent[v].subject = t
              BY <4>2, <6>1 DEF LinksAreEarned, IngressTypes
            <6>3. \A v \in Updates : command[v] = "linked" => command'[v] = "linked"
              BY <1>5, <2>4
            <6> QED BY <1>2, <6>1, <6>2, <6>3 DEF Exists
          <5> QED BY <5>1, <5>2
        <4> QED BY <1>1, <4>1, <4>2 DEF LinksAreEarned, Exists
      <3> QED BY <1>2, <2>3, <3>4, <3>9, <3>10
    <2> QED BY <2>2, <2>5, <2>6
  <1> QED BY <1>4, <1>5

-----------------------------------------------------------------------------
(* Events: arrival, quanta and deliveries.                                 *)

Appended(a, routed) ==
    [actor |-> a, seq |-> actor[a].next + 1, routed |-> routed, state |-> "pending", by |-> 0]

\* What arrives as e becomes an event of actor a with the actor's next number, and
\* the results D of the actor that wait for a route are released or superseded.
Arrives(e, a, routed, D) ==
    /\ event[e] = NoEvent /\ Enabled(a)
    /\ UNCHANGED <<lease, tasks, manager, changes, crashes>>
    /\ actor' = [actor EXCEPT ![a].next = @ + 1]
    /\ event' = [f \in Events |-> IF f = e THEN Appended(a, routed)
                                  ELSE IF f \in D THEN ReleaseDeferred(D, e)[f]
                                  ELSE event[f]]

LEMMA ArrivesTypes ==
  ASSUME ActorsInv, EventsInv, NEW e \in Events, NEW a \in Actors, NEW routed \in BOOLEAN,
         NEW D \in SUBSET Deferred(a), D = {} \/ e \in Updates, Arrives(e, a, routed, D)
  PROVE  /\ e \notin D /\ D \subseteq Hooks
         /\ event'[e] = Appended(a, routed)
         /\ D # {} => Newest(D) \in D
         /\ \A f \in Events \ {e} :
              /\ event'[f].actor = event[f].actor /\ event'[f].seq = event[f].seq
              /\ event'[f].routed = event[f].routed
              /\ event'[f] = NoEvent <=> event[f] = NoEvent
              /\ f \notin D => event'[f] = event[f]
              /\ f \in D /\ f = Newest(D) => event'[f].state = "owed" /\ event'[f].by = e
              /\ f \in D /\ f # Newest(D) => /\ event'[f].state = "superseded"
                                             /\ event'[f].by = event[f].by
                                             /\ event[f].seq < event[Newest(D)].seq
         /\ ActorsInv'
  <1> USE DEF ActorsInv, EventsInv
  <1>1. /\ event[e] = NoEvent /\ Enabled(a)
        /\ UNCHANGED <<lease, tasks, manager, changes, crashes>>
        /\ actor' = [actor EXCEPT ![a].next = @ + 1]
        /\ event' = [f \in Events |-> IF f = e THEN Appended(a, routed)
                                      ELSE IF f \in D THEN ReleaseDeferred(D, e)[f]
                                      ELSE event[f]]
    BY DEF Arrives
  <1>2. \A f \in D : /\ f \in Events /\ event[f].actor = a /\ event[f].state = "deferred"
                     /\ event[f] # NoEvent
    BY DEF Deferred, EventsOf, NoEvent
  <1>3. e \notin D /\ D \subseteq Hooks
    <2>1. e \notin D
      BY <1>1, <1>2
    <2> QED BY <1>2, <2>1 DEF Origins
  <1>4. D # {} => /\ Newest(D) \in D
                  /\ \A f \in D \ {Newest(D)} : event[f].seq < event[Newest(D)].seq
    BY <1>2, NewestIsLast
  <1>5. Appended(a, routed) \in EventRecords /\ Appended(a, routed).actor = a
    BY DEF Appended, ActorsTypeOK, ActorRecords, EventRecords, EventStates
  <1>6. \A f \in D : event[f] \in [actor : Actors, seq : Nat, routed : BOOLEAN,
                                   state : EventStates, by : Nat]
    BY <1>2 DEF ActorsTypeOK, EventRecords
  <1>7. ASSUME NEW f \in D, f = Newest(D)
        PROVE  /\ event'[f] \in EventRecords /\ event'[f] # NoEvent
               /\ event'[f].actor = event[f].actor /\ event'[f].seq = event[f].seq
               /\ event'[f].routed = event[f].routed
               /\ event'[f].state = "owed" /\ event'[f].by = e
    <2>1. event'[f] = [event[f] EXCEPT !.state = "owed", !.by = e]
      BY <1>1, <1>2, <1>3, <1>7 DEF ReleaseDeferred
    <2>2. e \in Nat /\ "owed" \in EventStates
      BY <1>7 DEF Updates, EventStates
    <2>3. event'[f].state = "owed"
      BY <1>6, <2>1
    <2>4. event'[f] # NoEvent
      BY <2>3 DEF NoEvent
    <2> QED BY <1>6, <2>1, <2>2, <2>4 DEF EventRecords
  <1>8. ASSUME NEW f \in D, f # Newest(D)
        PROVE  /\ event'[f] \in EventRecords /\ event'[f] # NoEvent
               /\ event'[f].actor = event[f].actor /\ event'[f].seq = event[f].seq
               /\ event'[f].routed = event[f].routed
               /\ event'[f].state = "superseded" /\ event'[f].by = event[f].by
    <2>1. event'[f] = [event[f] EXCEPT !.state = "superseded"]
      BY <1>1, <1>2, <1>3, <1>8 DEF ReleaseDeferred
    <2>2. "superseded" \in EventStates
      BY DEF EventStates
    <2>3. event'[f].state = "superseded"
      BY <1>6, <2>1
    <2>4. event'[f] # NoEvent
      BY <2>3 DEF NoEvent
    <2> QED BY <1>6, <2>1, <2>2, <2>4 DEF EventRecords
  <1>9. \A f \in Events \ {e} : f \notin D => event'[f] = event[f]
    BY <1>1
  <1>10. event'[e] = Appended(a, routed)
    BY <1>1
  <1>11. event' \in [Events -> EventRecords]
    <2>1. \A f \in Events : event'[f] \in EventRecords
      BY <1>5, <1>7, <1>8, <1>9, <1>10 DEF ActorsTypeOK
    <2>2. event' = [f \in Events |-> event'[f]]
      BY <1>1
    <2> QED BY <2>1, <2>2
  <1>12. /\ actor' \in [Actors -> ActorRecords]
         /\ \A b \in Actors : actor'[b].state = actor[b].state
    BY <1>1 DEF ActorsTypeOK, ActorRecords
  <1>13. \A f \in Events \ {e} : event'[f].actor = event[f].actor
    BY <1>7, <1>8, <1>9
  <1>14. AbsentHasNothing'
    <2>1. \A b \in Actors : ~Exists(b) => \A f \in Events : event[f].actor # b
      BY DEF AbsentHasNothing, ActorsTypeOK, EventRecords, NoEvent, EventsOf, Exists, Enabled
    <2>2. \A b \in Actors : ~Exists(b) => b # a
      BY <1>1 DEF Exists, Enabled
    <2>3. \A b \in Actors : ~Exists(b) => \A f \in Events : event'[f].actor # b
      BY <1>5, <1>10, <1>13, <2>1, <2>2
    <2> QED BY <1>1, <1>12, <2>3 DEF AbsentHasNothing, Exists, Enabled, EventsOf
  <1>15. ActorsInv'
    BY <1>1, <1>11, <1>12, <1>14 DEF ActorsTypeOK, OneTaskPerActor, ExecutesUnderLease, Executing
  <1> QED BY <1>2, <1>3, <1>4, <1>7, <1>8, <1>9, <1>10, <1>15

\* Numbers stay unique, only hooks' events are deferred, and of the released ones
\* the newest gets the route of e, which released none before.
LEMMA ArrivesKeeps ==
  ASSUME ActorsInv, EventsInv, NEW e \in Events, NEW a \in Actors, NEW routed \in BOOLEAN,
         NEW D \in SUBSET Deferred(a), D = {} \/ e \in Updates, Arrives(e, a, routed, D),
         e \in Hooks => a = Default, e \in Updates => routed = TRUE
  PROVE  EventsInv'
  <1> USE DEF EventsInv
  <1> DEFINE n == Newest(D)
  <1>1. /\ e \notin D /\ D \subseteq Hooks
        /\ event'[e] = Appended(a, routed)
        /\ D # {} => n \in D
    BY ArrivesTypes
  <1>2. \A f \in Events \ {e} :
              /\ event'[f].actor = event[f].actor /\ event'[f].seq = event[f].seq
              /\ event'[f].routed = event[f].routed
              /\ event'[f] = NoEvent <=> event[f] = NoEvent
              /\ f \notin D => event'[f] = event[f]
    BY ArrivesTypes
  <1>3. \A f \in Events \ {e} :
              /\ f \in D /\ f = n => event'[f].state = "owed" /\ event'[f].by = e
              /\ f \in D /\ f # n => /\ event'[f].state = "superseded"
                                     /\ event'[f].by = event[f].by
                                     /\ event[f].seq < event[n].seq
    BY ArrivesTypes
  <1> HIDE DEF n
  <1>4. /\ event[e] = NoEvent /\ actor' = [actor EXCEPT ![a].next = @ + 1]
        /\ \A f \in D : event[f].actor = a
    BY DEF Arrives, Deferred, EventsOf
  <1>5. /\ event'[e].actor = a /\ event'[e].seq = actor[a].next + 1 /\ event'[e].routed = routed
        /\ event'[e].state = "pending" /\ event'[e].by = 0 /\ event'[e] # NoEvent
        /\ event[e].by = 0 /\ event[e].state = "none"
    BY <1>1, <1>4 DEF Appended, NoEvent
  <1>6. /\ \A b \in Actors : actor[b].next \in Nat
        /\ \A b \in Actors : actor'[b].next = IF b = a THEN actor[b].next + 1 ELSE actor[b].next
        /\ \A f \in Events : event[f].seq \in Nat /\ event[f].actor \in Actors
    BY <1>4 DEF ActorsInv, ActorsTypeOK, ActorRecords, EventRecords, NoEvent
  <1>7. Updates \subseteq Events /\ Hooks \subseteq Events /\ 0 \notin Updates
    BY DEF Updates
  <1>8. Origins'
    <2>1. \A h \in Hooks : event'[h].actor = Default
      BY <1>2, <1>5, <1>7 DEF Origins
    <2>2. \A h \in Hooks : event'[h].by \in Updates \cup {0}
      <3> SUFFICES ASSUME NEW h \in Hooks PROVE event'[h].by \in Updates \cup {0}
        OBVIOUS
      <3>1. CASE h = e
        BY <1>5, <3>1
      <3>2. CASE h # e /\ h \notin D
        BY <1>2, <1>7, <3>2 DEF Origins
      <3>3. CASE h # e /\ h \in D
        BY <1>3, <1>7, <3>3 DEF Origins
      <3> QED BY <3>1, <3>2, <3>3
    <2>3. \A u \in Updates : u \notin D
      BY <1>1
    <2>4. \A u \in Updates : \/ u = e
                             \/ event'[u] = event[u]
      BY <1>2, <1>7, <2>3
    <2>5. \A u \in Updates : event'[u].state \notin {"deferred", "superseded"} /\ event'[u].by = 0
      BY <1>5, <2>4 DEF Origins
    <2>6. \A u \in Updates : event'[u] # NoEvent => event'[u].routed
      BY <1>5, <2>4 DEF Origins
    <2> QED BY <2>1, <2>2, <2>5, <2>6 DEF Origins
  <1>9. Numbered'
    <2>1. \A f \in Events \ {e} : event'[f] # NoEvent =>
            event[f] # NoEvent /\ event[f].seq <= actor[event[f].actor].next
      BY <1>2 DEF Numbered
    <2>2. \A f \in Events : event'[f] # NoEvent => event'[f].seq <= actor'[event'[f].actor].next
      <3> SUFFICES ASSUME NEW f \in Events, event'[f] # NoEvent
                   PROVE  event'[f].seq <= actor'[event'[f].actor].next
        OBVIOUS
      <3>1. CASE f = e
        BY <1>5, <1>6, <3>1
      <3>2. CASE f # e
        BY <1>2, <1>6, <2>1, <3>2
      <3> QED BY <3>1, <3>2
    <2>3. \A f \in Events \ {e} :
            event'[f] # NoEvent /\ event'[f].actor = a => event'[f].seq # event'[e].seq
      BY <1>2, <1>5, <1>6, <2>1
    <2>4. \A f, g \in Events \ {e} :
            /\ event'[f] # NoEvent /\ event'[g] # NoEvent
            /\ event'[f].actor = event'[g].actor /\ event'[f].seq = event'[g].seq
            => f = g
      BY <1>2 DEF Numbered
    <2>5. \A f, g \in Events :
            /\ event'[f] # NoEvent /\ event'[g] # NoEvent
            /\ event'[f].actor = event'[g].actor /\ event'[f].seq = event'[g].seq
            => f = g
      <3> SUFFICES ASSUME NEW f \in Events, NEW g \in Events,
                          event'[f] # NoEvent, event'[g] # NoEvent,
                          event'[f].actor = event'[g].actor, event'[f].seq = event'[g].seq
                   PROVE  f = g
        OBVIOUS
      <3>1. CASE f = e \/ g = e
        BY <1>5, <2>3, <3>1
      <3>2. CASE f # e /\ g # e
        BY <2>4, <3>2
      <3> QED BY <3>1, <3>2
    <2> QED BY <2>2, <2>5 DEF Numbered
  <1>10. \A h \in Hooks : event[h].by # 0 => event[h].by # e /\ event[h].by \in Updates
    BY <1>4 DEF LatestOnly, Origins
  <1>11. \A h \in Hooks : \/ event'[h].by = event[h].by
                          \/ h = n /\ h \in D /\ event'[h].by = e /\ e \in Updates
    <2> SUFFICES ASSUME NEW h \in Hooks
                 PROVE  \/ event'[h].by = event[h].by
                        \/ h = n /\ h \in D /\ event'[h].by = e /\ e \in Updates
      OBVIOUS
    <2>1. CASE h = e
      BY <1>5, <2>1
    <2>2. CASE h # e /\ h \notin D
      BY <1>2, <1>7, <2>2
    <2>3. CASE h # e /\ h \in D
      BY <1>3, <1>7, <2>3
    <2> QED BY <2>1, <2>2, <2>3
  <1>12. ASSUME NEW h \in Hooks, event'[h].state = "superseded"
         PROVE  \E g \in Hooks : event'[g].by # 0 /\ event'[g].seq > event'[h].seq
    <2>1. h # n \/ h \notin D
      BY <1>1, <1>3, <1>5, <1>7, <1>12
    <2>2. h # e
      BY <1>5, <1>12
    <2>3. CASE h \in D
      <3>1. n \in D /\ n \in Hooks /\ n # e /\ event'[n].by = e /\ event[h].seq < event[n].seq
        BY <1>1, <1>3, <1>7, <2>1, <2>2, <2>3
      <3>2. e \in Updates
        BY <2>3
      <3> QED BY <1>2, <1>6, <1>7, <2>2, <3>1, <3>2
    <2>4. CASE h \notin D
      <3>1. event'[h] = event[h]
        BY <1>2, <1>7, <2>2, <2>4
      <3>2. PICK g \in Hooks : event[g].by # 0 /\ event[g].seq > event[h].seq
        BY <1>12, <3>1 DEF LatestOnly
      <3>3. event'[g].by # 0 /\ g # e
        BY <1>5, <1>7, <1>11, <3>2
      <3> QED BY <1>2, <1>7, <3>1, <3>2, <3>3
    <2> QED BY <2>3, <2>4
  <1>13. ASSUME NEW h \in Hooks, event'[h].by # 0
         PROVE  /\ event'[event'[h].by].actor = event'[h].actor /\ event'[event'[h].by] # NoEvent
                /\ \A g \in Hooks \ {h} : event'[g].by # event'[h].by
    <2>1. h # e
      BY <1>5, <1>13
    <2>2. CASE h = n /\ h \in D /\ event'[h].by = e
      <3>1. event'[h].actor = a
        BY <1>2, <1>4, <1>7, <2>1, <2>2
      <3>2. \A g \in Hooks \ {h} : event'[g].by = event[g].by
        BY <1>11, <2>2
      <3>3. \A g \in Hooks \ {h} : event[g].by # e
        BY <1>7, <1>10, <1>13, <2>2
      <3> QED BY <1>5, <2>2, <3>1, <3>2, <3>3
    <2>3. CASE event'[h].by = event[h].by
      <3> DEFINE u == event[h].by
      <3>1. u # 0 /\ u # e /\ u \in Updates /\ u \notin D
        BY <1>1, <1>10, <1>13, <2>3
      <3>2. /\ event[u].actor = event[h].actor /\ event[u] # NoEvent
            /\ \A g \in Hooks \ {h} : event[g].by # u
        BY <1>13, <2>3 DEF LatestOnly
      <3> HIDE DEF u
      <3>3. event'[u] = event[u] /\ event'[h].actor = event[h].actor
        BY <1>2, <1>7, <2>1, <3>1
      <3>4. \A g \in Hooks \ {h} : event'[g].by # u
        BY <1>11, <3>1, <3>2
      <3> QED BY <2>3, <3>2, <3>3, <3>4 DEF u
    <2> QED BY <1>11, <2>2, <2>3
  <1>14. LatestOnly'
    BY <1>12, <1>13 DEF LatestOnly
  <1> QED BY <1>8, <1>9, <1>14

LEMMA IngestKeeps ==
  ASSUME IngressInv, Ingest
  PROVE  IngressInv'
  <1> USE DEF IngressInv
  <1>1. /\ batch # {}
        /\ UNCHANGED <<lease, tasks, manager, changes, crashes, sent, confirmed, identity, code,
                       issued, failures, command, response>>
    BY DEF Ingest, Handling
  <1>2. First \in Updates /\ First \in Events /\ From \in Subjects
    <2>1. First \in Updates /\ sent[First] \in UpdateRecords
      BY <1>1, FirstIsOffset
    <2> QED BY <2>1 DEF From, UpdateRecords
  <1>3. WorkerTypes' /\ PollInv'
    <2>1. Handled \/ Failed
      BY DEF Ingest
    <2> QED BY <1>1, <2>1, HandledMoves, FailedMoves
  <1>4. CASE UNCHANGED <<actor, event, route>>
    <2>1. IngressTypes'
      BY <1>1, <1>3, <1>4 DEF IngressTypes, WorkerTypes
    <2>2. ActorsInv' /\ EventsInv' /\ LinksAreEarned'
      BY <1>1, <1>4, EventsUntouched, LinksStay DEF actorVars
    <2> QED BY <1>1, <1>3, <2>1, <2>2, CodesStay
  <1>5. CASE ~UNCHANGED <<actor, event, route>>
    <2>1. event[First] = NoEvent
      BY <1>5 DEF Ingest
    <2>2. PICK a \in AdmittedActor(From) :
              /\ actor' = [actor EXCEPT ![a].next = @ + 1]
              /\ event' = [e \in Events |->
                    IF e = First
                    THEN [actor |-> a, seq |-> actor[a].next + 1, routed |-> TRUE,
                          state |-> "pending", by |-> 0]
                    ELSE IF e \in Deferred(a) THEN ReleaseDeferred(Deferred(a), First)[e]
                    ELSE event[e]]
              /\ route' = [route EXCEPT ![a] = From]
      BY <1>5 DEF Ingest
    <2>3. a \in Actors /\ Enabled(a)
      BY DEF AdmittedActor
    <2>4. Arrives(First, a, TRUE, Deferred(a))
      BY <1>1, <2>1, <2>2, <2>3 DEF Arrives, Appended
    <2>5. Deferred(a) \in SUBSET Deferred(a) /\ (First \in Hooks => a = Default)
      BY <1>2
    <2>6. ActorsInv'
      BY <1>2, <2>3, <2>4, ArrivesTypes
    <2>7. EventsInv'
      BY <1>2, <2>3, <2>4, <2>5, ArrivesKeeps
    <2>8. IngressTypes'
      BY <1>1, <1>2, <1>3, <2>2, <2>3 DEF IngressTypes, WorkerTypes
    <2>9. \A b \in Actors : Exists(b) => Exists(b)'
      BY <2>2, <2>3 DEF Exists, ActorsInv, ActorsTypeOK, ActorRecords
    <2> QED BY <1>1, <1>3, <2>6, <2>7, <2>8, <2>9, CodesStay, LinksStay
  <1> QED BY <1>4, <1>5

LEMMA WebhookKeeps ==
  ASSUME IngressInv, NEW h \in Hooks, IngestWebhook(h)
  PROVE  IngressInv'
  <1> USE DEF IngressInv
  <1> DEFINE routed == route[Default] # None
  <1>1. /\ event[h] = NoEvent /\ Enabled(Default)
        /\ actor' = [actor EXCEPT ![Default].next = @ + 1]
        /\ event' = [event EXCEPT ![h] = Appended(Default, routed)]
        /\ UNCHANGED <<lease, tasks, manager, changes, crashes>> /\ UNCHANGED ingressVars
    BY DEF IngestWebhook, AppendEvent, Appended
  <1>2. routed \in BOOLEAN /\ h \in Events /\ h \notin Updates
    OBVIOUS
  <1> HIDE DEF routed
  <1>3. event' = [f \in Events |-> IF f = h THEN Appended(Default, routed)
                                   ELSE IF f \in {} THEN ReleaseDeferred({}, h)[f]
                                   ELSE event[f]]
    BY <1>1 DEF ActorsInv, ActorsTypeOK
  <1>4. Arrives(h, Default, routed, {})
    BY <1>1, <1>3 DEF Arrives
  <1>5. {} \in SUBSET Deferred(Default)
    OBVIOUS
  <1>6. ActorsInv' /\ EventsInv'
    <2>1. ActorsInv'
      BY <1>2, <1>4, <1>5, ArrivesTypes
    <2>2. EventsInv'
      BY <1>2, <1>4, <1>5, ArrivesKeeps
    <2> QED BY <2>1, <2>2
  <1>7. \A b \in Actors : Exists(b) => Exists(b)'
    BY <1>1 DEF Exists, ActorsInv, ActorsTypeOK, ActorRecords
  <1>8. IngressTypes' /\ PollInv' /\ CodesInv' /\ LinksAreEarned'
    BY <1>1, <1>7, PollStays, CodesStay, LinksStay DEF ingressVars, IngressTypes
  <1> QED BY <1>6, <1>8

\* A quantum takes an event that is pending, which leaves an owed or, without a
\* route, a deferred result.
LEMMA QuantumKeeps ==
  ASSUME IngressInv, NEW a \in Actors, RunQuantum(a)
  PROVE  IngressInv'
  <1> USE DEF IngressInv
  <1> DEFINE o == Oldest(Open(a))
             state == IF event[o].routed THEN "owed" ELSE "deferred"
  <1>1. /\ Open(a) # {} /\ event' = [event EXCEPT ![o].state = state]
        /\ UNCHANGED <<actor, lease, tasks, manager, changes, crashes>> /\ UNCHANGED ingressVars
    BY DEF RunQuantum, SettleOldest
  <1>2. o \in Events /\ event[o].state = "pending"
    <2>1. Open(a) \in SUBSET Events
      BY DEF Open, EventsOf
    <2>2. o \in Open(a)
      BY <1>1, <2>1, OldestIsOne DEF ActorsInv
    <2> QED BY <2>2 DEF Open, EventsOf
  <1>3. /\ event' \in [Events -> EventRecords]
        /\ \A e \in Events : event'[e].actor = event[e].actor
    BY SettleKeeps DEF RunQuantum, ActorsInv
  <1>4. ActorsInv'
    <2>1. ActorsTypeOK'
      BY <1>1, <1>3 DEF ActorsInv, ActorsTypeOK
    <2>2. AbsentHasNothing'
      BY <1>1, <1>3, AbsentStays DEF ActorsInv, AbsentHasNothing, Exists, Enabled
    <2> QED BY <1>1, <2>1, <2>2 DEF ActorsInv, OneTaskPerActor, ExecutesUnderLease, Executing
  <1>5. event[o] \in [actor : Actors, seq : Nat, routed : BOOLEAN, state : EventStates, by : Nat]
    BY <1>2 DEF ActorsInv, ActorsTypeOK, EventRecords, NoEvent
  <1>6. /\ event'[o].actor = event[o].actor /\ event'[o].seq = event[o].seq
        /\ event'[o].routed = event[o].routed /\ event'[o].by = event[o].by
        /\ event'[o].state = state
        /\ \A e \in Events : e # o => event'[e] = event[e]
    BY <1>1, <1>2, <1>5 DEF ActorsInv, ActorsTypeOK
  <1>7. event[o] # NoEvent /\ event'[o] # NoEvent /\ state # "superseded"
        /\ (state = "deferred" => ~event[o].routed)
    BY <1>2, <1>6 DEF NoEvent
  <1> HIDE DEF o, state
  <1>8. EventsInv'
    BY <1>1, <1>4, <1>6, <1>7, EventsGoOn DEF ActorsInv
  <1>9. \A b \in Actors : Exists(b) => Exists(b)'
    BY <1>1 DEF Exists
  <1>10. IngressTypes' /\ PollInv' /\ CodesInv' /\ LinksAreEarned'
    BY <1>1, <1>9, PollStays, CodesStay, LinksStay DEF ingressVars, IngressTypes
  <1> QED BY <1>4, <1>8, <1>10

LEMMA DeliverKeeps ==
  ASSUME IngressInv, NEW e \in Events, DeliverResult(e, "settled"), UNCHANGED ingressVars
  PROVE  IngressInv'
  <1> USE DEF IngressInv
  <1>1. /\ event[e].state = "owed" /\ event' = [event EXCEPT ![e].state = "settled"]
        /\ UNCHANGED actor
    BY DEF DeliverResult
  <1>2. ActorsInv'
    BY EventsKeep
  <1>3. event[e] \in [actor : Actors, seq : Nat, routed : BOOLEAN, state : EventStates, by : Nat]
    BY <1>1 DEF ActorsInv, ActorsTypeOK, EventRecords, NoEvent
  <1>4. /\ event'[e].actor = event[e].actor /\ event'[e].seq = event[e].seq
        /\ event'[e].routed = event[e].routed /\ event'[e].by = event[e].by
        /\ event'[e].state = "settled"
        /\ \A f \in Events : f # e => event'[f] = event[f]
    BY <1>1, <1>3 DEF ActorsInv, ActorsTypeOK
  <1>5. event[e] # NoEvent /\ event'[e] # NoEvent
    BY <1>1, <1>4 DEF NoEvent
  <1>6. EventsInv'
    BY <1>1, <1>2, <1>4, <1>5, EventsGoOn DEF ActorsInv
  <1>7. \A b \in Actors : Exists(b) => Exists(b)'
    BY <1>1 DEF Exists
  <1>8. IngressTypes' /\ PollInv' /\ CodesInv' /\ LinksAreEarned'
    BY <1>7, PollStays, CodesStay, LinksStay DEF ingressVars, IngressTypes
  <1> QED BY <1>2, <1>6, <1>8

\* A new process asks for what Telegram has not been told to forget.
LEMMA RestartKeeps ==
  ASSUME IngressInv, Restart
  PROVE  IngressInv'
  <1> USE DEF IngressInv
  <1>1. /\ \E live \in SUBSET Actors : RestartTasks(live)
        /\ CollectExpired /\ offset' = confirmed /\ batch' = {} /\ step' = Start
        /\ UNCHANGED <<sent, confirmed, identity, issued, failures, command, response, route>>
    BY DEF Restart
  <1>2. ActorsInv'
    BY <1>1, LeasesKeep
  <1>3. UNCHANGED <<actor, event>>
    BY <1>1 DEF RestartTasks
  <1>4. EventsInv'
    BY <1>2, <1>3, EventsStay DEF ActorsInv, ActorsTypeOK, ActorRecords
  <1>5. code' \in [Actors -> [code : Codes, live : BOOLEAN] \cup {NoCode}] /\ CodesInv'
    BY <1>1, CollectKeeps
  <1>6. IngressTypes'
    BY <1>1, <1>5 DEF IngressTypes, Steps
  <1>7. PollInv'
    BY <1>1 DEF PollInv, IngressTypes
  <1>8. LinksAreEarned'
    BY <1>1, <1>3, LinksStay DEF Exists
  <1> QED BY <1>2, <1>4, <1>5, <1>6, <1>7, <1>8

-----------------------------------------------------------------------------
(* The theorems.                                                           *)

\* The invariant of links, routes and updates.
THEOREM IngressInvariant == Spec => []IngressInv
  <1>1. IngressInv /\ [Next]_vars => IngressInv'
    <2> SUFFICES ASSUME IngressInv, [Next]_vars PROVE IngressInv'
      OBVIOUS
    <2>1. CASE UNCHANGED vars
      <3>1. UNCHANGED actorVars /\ UNCHANGED ingressVars
        BY <2>1 DEF vars
      <3>2. ActorsInv' /\ EventsInv' /\ \A a \in Actors : Exists(a) => Exists(a)'
        BY <3>1, EventsUntouched
      <3>3. IngressTypes' /\ PollInv' /\ CodesInv' /\ LinksAreEarned'
        BY <3>1, <3>2, PollStays, CodesStay, LinksStay DEF ingressVars, IngressTypes, IngressInv
      <3> QED BY <3>2, <3>3 DEF IngressInv
    <2>2. CASE Next
      BY <2>2, PollStepsKeep, AnswersKeep, RedeemKeeps, IngestKeeps, CodeStepsKeep, WebhookKeeps,
         AdministerKeepsIngress, DeleteKeepsIngress, QuantumKeeps, DeliverKeeps, RestartKeeps
      DEF Next, Handle
    <2> QED BY <2>1, <2>2
  <1> QED BY <1>1, IngressInvInit, PTL DEF Spec

\* Every variable keeps its type.
THEOREM IngressTypeCorrect == Spec => []TypeOK
  <1>1. IngressInv => TypeOK
    BY DEF IngressInv, ActorsInv, IngressTypes, TypeOK
  <1> QED BY <1>1, IngressInvariant, PTL

\* A code links or confirms one sender, once, although Telegram sends commands
\* again and actors are deleted and created; and nobody is linked without one
\* (redeem_link_code_once, delete_actor).
THEOREM LinksAreAlwaysEarned == Spec => []LinksAreEarned
  <1>1. IngressInv => LinksAreEarned
    BY DEF IngressInv
  <1> QED BY <1>1, IngressInvariant, PTL

\* Of the results that wait for a route a message releases one, which is newer
\* than all it supersedes (record_latest_route_and_release_deferred).
THEOREM OnlyLatestIsReleased == Spec => []LatestOnly
  <1>1. IngressInv => LatestOnly
    BY DEF IngressInv, EventsInv
  <1> QED BY <1>1, IngressInvariant, PTL

\* The worker moves past an update only when it is an event or has its answer
\* queued, and Telegram is never told more than the worker has done
\* (PollingWorker, TelegramIngressHandler).
THEOREM NoUpdateIsSkipped == Spec => NeverSkipped
  <1> DEFINE Kept == /\ confirmed' <= offset
                     /\ \A u \in offset .. offset' - 1 : Dealt(u)'
  <1>1. IngressInv /\ [Next]_vars => [Kept]_vars
    <2> SUFFICES ASSUME IngressInv, Next PROVE Kept
      OBVIOUS
    <2> USE DEF IngressInv
    <2>1. offset \in Nat /\ confirmed \in Nat /\ confirmed <= offset
      BY DEF IngressTypes, PollInv
    <2>2. CASE UNCHANGED <<offset, confirmed>>
      BY <2>1, <2>2
    <2>3. CASE GetUpdates
      BY <2>1, <2>3 DEF GetUpdates
    <2>4. CASE Restart
      BY <2>1, <2>4 DEF Restart
    <2>5. CASE Handle
      <3>1. batch # {} /\ confirmed' = confirmed
        BY <2>5 DEF Handle, ResolveIdentity, Ingest, RedeemOnce, EnqueueResponse, Download, Handling
      <3>2. First = offset /\ offset \in Updates
        BY <3>1, FirstIsOffset
      <3>3. \/ offset' = offset
            \/ offset' = offset + 1 /\ \A u \in Updates : u = offset => Dealt(u)'
        <4>1. CASE ResolveIdentity \/ RedeemOnce \/ \E ok \in BOOLEAN : Download(ok)
          BY <4>1 DEF ResolveIdentity, RedeemOnce, Download, Goto, AnswerWith
        <4>2. CASE Ingest
          <5>1. \/ Failed
                \/ Handled /\ event[First] # NoEvent /\ event' = event
                \/ Handled /\ \E a \in Actors : event'[First] = Appended(a, TRUE)
            BY <3>2, <4>2 DEF Ingest, AdmittedActor, Appended
          <5>2. \A a \in Actors : Appended(a, TRUE) # NoEvent
            BY DEF Appended, NoEvent
          <5> QED BY <3>2, <5>1, <5>2 DEF Failed, Handled, Dealt
        <4>3. CASE EnqueueResponse
          <5>1. step.text # "none"
            <6>1. step.text \in Answers
              BY <4>3 DEF EnqueueResponse, Handling, IngressTypes, Steps, Start
            <6> QED BY <6>1 DEF Answers, Outcomes
          <5>2. \/ Failed
                \/ Handled /\ response'[First] = step.text
            BY <3>2, <4>3 DEF EnqueueResponse, IngressTypes
          <5> QED BY <3>2, <5>1, <5>2 DEF Failed, Handled, Dealt
        <4> QED BY <2>5, <4>1, <4>2, <4>3 DEF Handle
      <3>4. \A u \in offset .. offset' - 1 : offset' = offset + 1 /\ u = offset
        BY <2>1, <3>3
      <3> QED BY <2>1, <3>1, <3>2, <3>3, <3>4
    <2>6. CASE ~(GetUpdates \/ Restart \/ Handle)
      <3>1. UNCHANGED <<offset, confirmed>>
        BY <2>6 DEF Next, SendUpdate, IssueLinkCode, LinkCodeExpires, AttemptWindowPasses,
           RunIdentityLinkGc, IngestWebhook, DeleteWithRows, RunQuantum, ingressVars
      <3> QED BY <2>2, <3>1
    <2> QED BY <2>3, <2>4, <2>5, <2>6
  <1> QED BY <1>1, IngressInvariant, PTL DEF Spec, NeverSkipped

==============================================================================
