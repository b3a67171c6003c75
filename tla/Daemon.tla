-------------------------------- MODULE Daemon --------------------------------
(***************************************************************************)
(* The life of `codrik serve` (app.rs, runtime/instance_lock.rs,           *)
(* runtime/ipc/security.rs, runtime/supervisor.rs, runtime/sqlite.rs):     *)
(* paths, lock, migrations, stale socket, bind, recovery, components,      *)
(* drain, cleanup.  Several processes may be started on the same directory *)
(* at the same time; each may fail at any step or die.                     *)
(*                                                                         *)
(* Of the work the components do, the lease of one actor is kept: who      *)
(* executes, and what the process leaves behind.  Whether there is work is *)
(* for the module that extends this one to say.                            *)
(***************************************************************************)
EXTENDS Naturals

CONSTANTS
    Procs,        \* processes that run `codrik serve`
    NoProc,
    Latest,       \* RUNTIME_SCHEMA_VERSION
    MaxStops      \* bound: failures, signals, deaths and interrupted clients

ASSUME DaemonAssumption == NoProc \notin Procs /\ Latest \in Nat /\ MaxStops \in Nat

VARIABLES
    pc,         \* where each process is
    lock,       \* holder of the advisory lock on the lock file
    socket,     \* the process whose listener the socket file was bound by
    schema,     \* PRAGMA user_version
    lease,      \* actor_leases: owner, and whether it has not expired
    quantum,    \* whether a dispatcher task of the process executes
    stops

daemonVars == <<pc, lock, socket, schema, lease, quantum, stops>>

Starting == {"locked", "verified", "cleared", "bound"}
Stopping == {"stopped", "released", "cleaned", "unlocked"}
Phases == {"down", "serving", "draining"} \cup Starting \cup Stopping

Leases == [owner : Procs \cup {NoProc}, live : BOOLEAN]
Free == [owner |-> NoProc, live |-> FALSE]

DaemonInit ==
    /\ pc = [p \in Procs |-> "down"]
    /\ lock = NoProc /\ socket = NoProc
    /\ schema = 0
    /\ lease = Free
    /\ quantum = [p \in Procs |-> FALSE]
    /\ stops = 0

\* The listener lives from bind to the end of LocalIpcServer::run.
Listening(p) == pc[p] \in {"bound", "serving", "draining"}

Goto(p, phase) == pc' = [pc EXCEPT ![p] = phase]
Stop == stops < MaxStops /\ stops' = stops + 1

-----------------------------------------------------------------------------
(* Startup.  An error drops what the process holds; the socket file stays. *)

\* Prepares and validates the paths, then tries the lock: the lock of another
\* runtime ends this process.
AcquireLock(p) ==
    /\ pc[p] = "down"
    /\ IF lock = NoProc THEN lock' = p /\ Goto(p, "locked")
                        ELSE UNCHANGED <<lock, pc>>
    /\ UNCHANGED <<socket, schema, lease, quantum, stops>>

\* Every version has a transaction of its own.
Migrate(p) ==
    /\ pc[p] = "locked" /\ schema < Latest
    /\ schema' = schema + 1
    /\ UNCHANGED <<pc, lock, socket, lease, quantum, stops>>

\* The configured actor exists from here on, and cannot be disabled; the
\* parents of all paths are validated again.
VerifyActor(p) ==
    /\ pc[p] = "locked" /\ schema = Latest
    /\ Goto(p, "verified")
    /\ UNCHANGED <<lock, socket, schema, lease, quantum, stops>>

StaleSocketRemoved_Kept == socket
StaleSocketRemoved == NoProc

RemoveStaleSocket(p) ==
    /\ pc[p] = "verified"
    /\ socket' = StaleSocketRemoved
    /\ Goto(p, "cleared")
    /\ UNCHANGED <<lock, schema, lease, quantum, stops>>

\* A path that exists cannot be bound.
BindListener(p) ==
    /\ pc[p] = "cleared"
    /\ IF socket = NoProc
         THEN socket' = p /\ Goto(p, "bound") /\ UNCHANGED lock
         ELSE lock' = NoProc /\ Goto(p, "down") /\ UNCHANGED socket
    /\ UNCHANGED <<schema, lease, quantum, stops>>

\* Garbage is collected, the gateways are prepared, and every component has
\* been polled once.
StartComponents(p) == Goto(p, "serving")

\* recover_startup.
Recovered == IF lease.live THEN lease ELSE Free

RecoverStartup(p) ==
    /\ pc[p] = "bound"
    /\ lease' = Recovered
    /\ StartComponents(p)
    /\ UNCHANGED <<lock, socket, schema, quantum, stops>>

StartFails(p) ==
    /\ pc[p] \in Starting /\ Stop
    /\ lock' = IF lock = p THEN NoProc ELSE lock
    /\ Goto(p, "down")
    /\ UNCHANGED <<socket, schema, lease, quantum>>

-----------------------------------------------------------------------------
(* The end of the components.                                              *)

Interrupt(p) ==
    /\ pc[p] = "serving" /\ Stop
    /\ Goto(p, "draining")
    /\ UNCHANGED <<lock, socket, schema, lease, quantum>>

\* Ends all components.  A dispatcher's task is its own: it is aborted, or left
\* behind by a manager that was waiting for it, and nobody waits for its end.
Ends(p) ==
    /\ Goto(p, "stopped")
    /\ UNCHANGED <<lock, socket, schema, lease, quantum>>

\* The manager has joined its dispatchers.
Drained(p) == pc[p] = "draining" /\ ~quantum[p] /\ Ends(p) /\ UNCHANGED stops

GraceEnds(p) == pc[p] = "draining" /\ Ends(p) /\ UNCHANGED stops

ComponentFails(p) == pc[p] \in {"serving", "draining"} /\ Stop /\ Ends(p)

\* The leases of this process, on which no tool is running.
Released(p) == IF lease.owner = p THEN Free ELSE lease

KeepsLock_Dropped(p) == lock' = IF lock = p THEN NoProc ELSE lock
KeepsLock(p) == lock' = lock

RecoverShutdown(p) ==
    /\ pc[p] = "stopped"
    /\ \/ lease' = Released(p)
       \/ quantum[p] /\ UNCHANGED lease
    /\ KeepsLock(p)
    /\ Goto(p, "released")
    /\ UNCHANGED <<socket, schema, quantum, stops>>

RemoveSocket(p) ==
    /\ pc[p] = "released"
    /\ socket' = NoProc
    /\ Goto(p, "cleaned")
    /\ UNCHANGED <<lock, schema, lease, quantum, stops>>

Unlock(p) ==
    /\ pc[p] = "cleaned"
    /\ lock' = NoProc
    /\ Goto(p, "unlocked")
    /\ UNCHANGED <<socket, schema, lease, quantum, stops>>

\* The runtime is dropped, and with it the tasks that were left.
Gone(p) ==
    /\ quantum' = [quantum EXCEPT ![p] = FALSE]
    /\ Goto(p, "down")

Exit(p) ==
    /\ pc[p] = "unlocked"
    /\ Gone(p)
    /\ UNCHANGED <<lock, socket, schema, lease, stops>>

Crash(p) ==
    /\ pc[p] # "down" /\ Stop
    /\ lock' = IF lock = p THEN NoProc ELSE lock
    /\ Gone(p)
    /\ UNCHANGED <<socket, schema, lease>>

-----------------------------------------------------------------------------
(* A quantum of the dispatcher.  After the components have ended, what is   *)
(* left of one may still write, but none begins.                           *)

BeginQuantum(p) ==
    /\ pc[p] = "serving" /\ ~quantum[p] /\ ~lease.live
    /\ lease' = [owner |-> p, live |-> TRUE]
    /\ quantum' = [quantum EXCEPT ![p] = TRUE]
    /\ UNCHANGED <<pc, lock, socket, schema, stops>>

\* What a quantum writes is fenced by its lease.
Owns(p) == lease.owner = p

EndQuantum(p) ==
    /\ quantum[p]
    /\ quantum' = [quantum EXCEPT ![p] = FALSE]
    /\ lease' = IF Owns(p) THEN Free ELSE lease
    /\ UNCHANGED <<pc, lock, socket, schema, stops>>

\* The heartbeat renews the lease of a quantum that executes.
LeaseExpires ==
    /\ lease.live /\ ~quantum[lease.owner]
    /\ lease' = [lease EXCEPT !.live = FALSE]
    /\ UNCHANGED <<pc, lock, socket, schema, quantum, stops>>
=============================================================================
