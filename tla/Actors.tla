------------------------------- MODULE Actors -------------------------------
(***************************************************************************)
(* The actor table, its administration and the dispatcher tasks that       *)
(* follow it (runtime/sqlite/actors.rs, runtime/actor_admin.rs,            *)
(* runtime/dispatcher.rs).  The local command line creates, enables,       *)
(* disables and deletes actors and changes their tools; a manager compares *)
(* its dispatcher tasks with the table every half second and stops and     *)
(* starts tasks; each task checks its shutdown flag, acquires the lease of *)
(* its actor and runs a quantum.  Every arrow between two of these is a    *)
(* separate transaction, so a change can commit between any two of them.   *)
(*                                                                         *)
(* A quantum is what ActorMailbox models in detail; here it takes the      *)
(* oldest pending event of the actor and leaves a result to be delivered.  *)
(* How events arrive is the subject of GatewayIngress.                     *)
(***************************************************************************)
EXTENDS Integers, FiniteSets

CONSTANTS
    Actors,         \* actor ids
    Default,        \* runtime.actor_id, protected from disable and delete
    Tools,          \* registered tool names
    Events,         \* what can become an event: updates and webhook deliveries
    MaxChanges,     \* bound: administrative changes
    MaxCrashes      \* bound: deaths of the process

ASSUME ActorAssumption ==
    /\ Default \in Actors
    /\ MaxChanges \in Nat /\ MaxCrashes \in Nat

VARIABLES
    actor,      \* actors: state, tools and next_mailbox_sequence
    event,      \* events, each with the work item, run and result it leads to
    lease,      \* actor_leases: free, held by this process, or left by a dead one
    tasks,      \* dispatcher tasks that have not finished
    manager,    \* "ready", or "joining" the tasks reconcile_dispatchers stopped
    changes, crashes

actorVars == <<actor, event, lease, tasks, manager, changes, crashes>>

ActorRecords ==
    [state : {"absent", "enabled", "disabled"}, tools : SUBSET Tools, next : Nat]

\* A result without a route is deferred; a deferred one is released by a later
\* message (by) or superseded.  An unknown delivery outcome stays unknown.
EventStates == {"pending", "deferred", "superseded", "owed", "unknown", "settled"}
NoEvent == [actor |-> Default, seq |-> 0, routed |-> FALSE, state |-> "none", by |-> 0]
EventRecords ==
    [actor : Actors, seq : Nat, routed : BOOLEAN, state : EventStates, by : Nat] \cup {NoEvent}

\* listed: in RunningDispatchers; stop: the child's shutdown flag.
TaskRecords ==
    [actor : Actors, tools : SUBSET Tools, listed : BOOLEAN, stop : BOOLEAN,
     pc : {"idle", "checked", "running", "finalized"}]

Absent == [state |-> "absent", tools |-> {}, next |-> 0]

ActorsInit ==
    /\ actor = [a \in Actors |->
                  IF a = Default THEN [state |-> "enabled", tools |-> Tools, next |-> 0] ELSE Absent]
    /\ event = [e \in Events |-> NoEvent]
    /\ lease = [a \in Actors |-> "free"]
    /\ tasks = {} /\ manager = "ready"
    /\ changes = 0 /\ crashes = 0

Exists(a)  == actor[a].state # "absent"
Enabled(a) == actor[a].state = "enabled"

EventsOf(a, states) == {e \in Events : event[e].actor = a /\ event[e].state \in states}
Open(a) == EventsOf(a, {"pending"})
Unresolved(a) == EventsOf(a, {"owed", "unknown"})

-----------------------------------------------------------------------------
(* Administration.                                                         *)

Change == changes < MaxChanges /\ changes' = changes + 1

CreateActor(a) ==
    /\ ~Exists(a) /\ Change
    /\ actor' = [actor EXCEPT ![a] = [state |-> "enabled", tools |-> {}, next |-> 0]]
    /\ UNCHANGED <<event, lease, tasks, manager, crashes>>

SetActorEnabled(a, state) ==
    /\ Exists(a) /\ actor[a].state # state
    /\ state = "disabled" => a # Default
    /\ Change
    /\ actor' = [actor EXCEPT ![a].state = state]
    /\ UNCHANGED <<event, lease, tasks, manager, crashes>>

MutateActorTools(a, tools) ==
    /\ Exists(a) /\ tools # actor[a].tools
    /\ Change
    /\ actor' = [actor EXCEPT ![a].tools = tools]
    /\ UNCHANGED <<event, lease, tasks, manager, crashes>>

Busy_NoLease(a) == Enabled(a) \/ Open(a) # {}
Busy(a) == Enabled(a) \/ lease[a] # "free" \/ Open(a) # {}

Nonempty(a) == lease[a] # "free" \/ EventsOf(a, EventStates) # {}

\* The foreign keys of the actor's rows cascade.
DeleteActor(a, force) ==
    /\ Exists(a) /\ a # Default
    /\ IF force THEN ~Busy(a) /\ Unresolved(a) = {} ELSE ~Nonempty(a)
    /\ Change
    /\ actor' = [actor EXCEPT ![a] = Absent]
    /\ event' = [e \in Events |-> IF event[e].actor = a THEN NoEvent ELSE event[e]]
    /\ lease' = [lease EXCEPT ![a] = "free"]
    /\ UNCHANGED <<tasks, manager, crashes>>

Administer ==
    \E a \in Actors :
      \/ CreateActor(a)
      \/ SetActorEnabled(a, "enabled")
      \/ SetActorEnabled(a, "disabled")
      \/ \E tools \in SUBSET Tools : MutateActorTools(a, tools)

-----------------------------------------------------------------------------
(* The manager of the dispatcher tasks.                                    *)

Listed == {t \in tasks : t.listed}
Stale_Disabled(t) == ~Enabled(t.actor)
Stale(t) == ~Enabled(t.actor) \/ actor[t.actor].tools # t.tools

NewTask(a) ==
    [actor |-> a, tools |-> actor[a].tools, listed |-> TRUE, stop |-> FALSE, pc |-> "idle"]
Missing == {a \in Actors : Enabled(a) /\ \A t \in Listed : t.actor # a}

\* Stale tasks are told to stop and waited for; without any, missing tasks start.
Reconcile ==
    /\ manager = "ready"
    /\ LET stale == {t \in Listed : Stale(t)} IN
         IF stale # {}
         THEN /\ tasks' = (tasks \ stale)
                            \cup {[t EXCEPT !.listed = FALSE, !.stop = TRUE] : t \in stale}
              /\ manager' = "joining"
         ELSE /\ Missing # {}
              /\ tasks' = tasks \cup {NewTask(a) : a \in Missing}
              /\ UNCHANGED manager
    /\ UNCHANGED <<actor, event, lease, changes, crashes>>

Joined_Any(old) == TRUE
Joined(old) == old = {}

\* Only when every stopped task has finished does the manager read the table
\* again and start what is missing.
JoinStopped ==
    /\ manager = "joining" /\ Joined(tasks \ Listed)
    /\ tasks' = tasks \cup {NewTask(a) : a \in Missing}
    /\ manager' = "ready"
    /\ UNCHANGED <<actor, event, lease, changes, crashes>>

Manage == Reconcile \/ JoinStopped

-----------------------------------------------------------------------------
(* A dispatcher task.                                                      *)

Becomes(t, pc) == tasks' = (tasks \ {t}) \cup {[t EXCEPT !.pc = pc]}

CheckShutdown(t) ==
    /\ t.pc = "idle" /\ ~t.stop
    /\ Becomes(t, "checked")
    /\ UNCHANGED <<actor, event, lease, manager, changes, crashes>>

StopTask(t) ==
    /\ t.pc = "idle" /\ t.stop
    /\ tasks' = tasks \ {t}
    /\ UNCHANGED <<actor, event, lease, manager, changes, crashes>>

Ready_AnyState(a) == lease[a] # "stale" /\ Open(a) # {}
Ready(a) == Enabled(a) /\ lease[a] # "stale" /\ Open(a) # {}

\* One owner name serves every task of the process, so a lease that this
\* process holds already is renewed, whichever task asks.
AcquireReadyActorFor(t) ==
    /\ t.pc = "checked"
    /\ IF Ready(t.actor)
       THEN Becomes(t, "running") /\ lease' = [lease EXCEPT ![t.actor] = "held"]
       ELSE Becomes(t, "idle") /\ UNCHANGED lease
    /\ UNCHANGED <<actor, event, manager, changes, crashes>>

Oldest(E) == CHOOSE e \in E : \A f \in E : event[e].seq <= event[f].seq

\* A run whose event has no route leaves a deferred result.
SettleOldest(a) ==
    LET e == Oldest(Open(a)) IN
      event' = [event EXCEPT ![e].state = IF event[e].routed THEN "owed" ELSE "deferred"]

FinalizeRun(t) ==
    /\ t.pc = "running"
    /\ Becomes(t, "finalized")
    /\ SettleOldest(t.actor)
    /\ UNCHANGED <<actor, lease, manager, changes, crashes>>

ReleaseLease(t) ==
    /\ t.pc = "finalized"
    /\ Becomes(t, "idle")
    /\ lease' = [lease EXCEPT ![t.actor] = "free"]
    /\ UNCHANGED <<actor, event, manager, changes, crashes>>

TaskStep(a) ==
    \E t \in tasks :
      /\ t.actor = a
      /\ \/ CheckShutdown(t) \/ StopTask(t) \/ AcquireReadyActorFor(t)
         \/ FinalizeRun(t) \/ ReleaseLease(t)

-----------------------------------------------------------------------------
(* What surrounds them.                                                    *)

AppendEvent(e, a, routed) ==
    /\ actor' = [actor EXCEPT ![a].next = @ + 1]
    /\ event' = [event EXCEPT ![e] = [actor |-> a, seq |-> actor[a].next + 1, routed |-> routed,
                                      state |-> "pending", by |-> 0]]

\* Every ingress transaction reads the state of the actor itself.
Admits(a) == Enabled(a)

AcceptEvent(e, a) ==
    /\ event[e] = NoEvent /\ Admits(a)
    /\ AppendEvent(e, a, TRUE)
    /\ UNCHANGED <<lease, tasks, manager, changes, crashes>>

\* GatewayDelivery and ResultDelivery in one step.
DeliverResult(e, state) ==
    /\ event[e].state = "owed" /\ state \in {"settled", "unknown"}
    /\ event' = [event EXCEPT ![e].state = state]
    /\ UNCHANGED <<actor, lease, tasks, manager, changes, crashes>>

LeaseExpires(a) ==
    /\ lease[a] = "stale"
    /\ lease' = [lease EXCEPT ![a] = "expired"]
    /\ UNCHANGED <<actor, event, tasks, manager, changes, crashes>>

\* The process dies and starts again; startup recovery deletes the leases that
\* have expired by then.
RestartTasks(live) ==
    /\ crashes < MaxCrashes /\ crashes' = crashes + 1
    /\ live \subseteq {a \in Actors : lease[a] \in {"held", "stale"}}
    /\ lease' = [a \in Actors |-> IF a \in live THEN "stale" ELSE "free"]
    /\ tasks' = {} /\ manager' = "ready"
    /\ UNCHANGED <<actor, event, changes>>

-----------------------------------------------------------------------------
ActorsNext ==
    \/ Administer
    \/ \E a \in Actors, force \in BOOLEAN : DeleteActor(a, force)
    \/ Manage
    \/ \E a \in Actors : TaskStep(a)
    \/ \E e \in Events, a \in Actors : AcceptEvent(e, a)
    \/ \E e \in Events, state \in {"settled", "unknown"} : DeliverResult(e, state)
    \/ \E a \in Actors : LeaseExpires(a)
    \/ \E live \in SUBSET Actors : RestartTasks(live)

ActorsSpec == ActorsInit /\ [][ActorsNext]_actorVars

\* The manager and every task of the executor run, quanta end (they have a time
\* limit), and the lease of a dead process expires.
FairActorsSpec ==
    /\ ActorsSpec
    /\ WF_actorVars(Manage)
    /\ \A a \in Actors : WF_actorVars(TaskStep(a)) /\ WF_actorVars(LeaseExpires(a))

-----------------------------------------------------------------------------
(* Properties.                                                             *)

ActorsTypeOK ==
    /\ actor \in [Actors -> ActorRecords]
    /\ event \in [Events -> EventRecords]
    /\ lease \in [Actors -> {"free", "held", "stale", "expired"}]
    /\ tasks \subseteq TaskRecords
    /\ manager \in {"ready", "joining"}
    /\ changes \in Nat /\ crashes \in Nat

\* One actor never has two quanta at a time.  All tasks share one lease owner,
\* so nothing but the manager's waiting keeps a second task of the actor out
\* (reconcile_dispatchers, acquire_ready_actor_for).
Executing == {t \in tasks : t.pc \in {"running", "finalized"}}
OneQuantumPerActor == \A t, u \in Executing : t.actor = u.actor => t = u

\* Once a disable or a delete has committed, no event of the actor is accepted
\* and no quantum of it starts, however far an ingress or a task had come
\* (ingest, ingest_webhook, submit_for_actor, acquire_ready_actor_for).
StartsQuantum(a) == {t \in Executing : t.actor = a} = {} /\ {t \in Executing' : t.actor = a} # {}
NothingOnceDisabled ==
    [][\A a \in Actors : ~Enabled(a) =>
         /\ ~StartsQuantum(a)
         /\ \A e \in Events : event'[e].actor = a => event[e].actor = a \/ event'[e] = NoEvent]_actorVars

\* A deleted actor leaves no row, no lease and no quantum behind for an actor
\* created with its id (delete_actor).
DeletedLeavesNothing ==
    \A a \in Actors : ~Exists(a) =>
      /\ lease[a] = "free"
      /\ EventsOf(a, EventStates) = {}
      /\ \A t \in Executing : t.actor # a

\* The tasks follow the table in the end: a disabled or deleted actor has none,
\* an enabled one has one with its present tools, and its events are taken.
TasksFollowTable ==
    \A a \in Actors :
      []<>( /\ ~Enabled(a) => \A t \in tasks : t.actor # a
            /\ Enabled(a) => Open(a) = {} /\ \E t \in Listed : t.actor = a /\ t.tools = actor[a].tools)

\* A quantum starts with the tools its actor has then.
ToolsAsGranted ==
    [][\A t \in Executing' : StartsQuantum(t.actor) => t.tools = actor[t.actor].tools]_actorVars

=============================================================================
