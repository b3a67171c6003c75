------------------------------- MODULE Artifacts -------------------------------
(***************************************************************************)
(* The files that tools produce (runtime/artifacts.rs and its store,       *)
(* sqlite/artifacts.rs): staging them under a lease, publishing them under *)
(* the name of their content, committing them with the tool attempt,       *)
(* collecting what was abandoned, and unlinking those of a deleted actor.  *)
(*                                                                         *)
(* The files of an actor are in a directory of its own, and one quantum of *)
(* an actor runs at a time, so one actor and one stager are modelled; the  *)
(* collector and the cleanup after a deletion run beside it.  The database *)
(* and the directory change in separate steps, and the process may die     *)
(* between any two.                                                        *)
(***************************************************************************)
EXTENDS Naturals, Sequences, SequencesExt, FiniteSets

CONSTANTS
    Contents,       \* what a file may contain: its hash
    MaxFiles,       \* bound: files that are staged
    MaxBatch,       \* bound: files of one tool execution
    MaxDeletions,   \* bound: times the actor is deleted and created again
    MaxCrashes      \* bound: deaths of the process

ASSUME ArtifactsAssumption ==
    MaxFiles \in Nat /\ MaxBatch \in Nat /\ MaxDeletions \in Nat /\ MaxCrashes \in Nat

Ids == 1 .. MaxFiles
Partial(i) == <<"partial", i>>
Final(c) == <<"final", c>>
Paths == {Partial(i) : i \in Ids} \cup {Final(c) : c \in Contents}

VARIABLES
    row,        \* artifacts: id -> its row
    file,       \* the directory: path -> "none", or its age
    next,       \* ids that have been used (uuids in the code)
    stager,     \* stage_execution: where it is, the contents to copy, the items copied
    held,       \* final paths the stager has locked
    gc,         \* collect_garbage: where it is, the claims and paths left, the one in hand
    cleanup,    \* remove_deleted_artifacts: paths left to unlink
    swept,      \* history: files it unlinked, and that were not published again
    deletions, crashes

vars == <<row, file, next, stager, held, gc, cleanup, swept, deletions, crashes>>

NoRow == [state |-> "none"]
Staging(owner, live) == [state |-> "staging", owner |-> owner, live |-> live]
Rows == {NoRow} \cup {Staging(o, l) : o \in {"stager", "gc"}, l \in BOOLEAN}
           \cup [state : {"referenced"}, content : Contents]

IsStaging(i) == row[i].state = "staging"
Lease(i) == IsStaging(i) /\ row[i].owner = "stager"
Referenced(c) == \E i \in Ids : row[i] = [state |-> "referenced", content |-> c]

\* managed_path, which is the partial file until the row is referenced.
PathOf(i) == IF IsStaging(i) THEN Partial(i) ELSE Final(row[i].content)
RowExists(p) == \E i \in Ids : row[i] # NoRow /\ PathOf(i) = p

OnDisk(p) == file[p] # "none"

IdleStager == [pc |-> "idle", todo |-> <<>>, items |-> <<>>]
IdleGc == [pc |-> "idle", claims |-> {}, paths |-> {}, at |-> <<>>]

Init ==
    /\ row = [i \in Ids |-> NoRow] /\ file = [p \in Paths |-> "none"] /\ next = 0
    /\ stager = IdleStager /\ held = {} /\ gc = IdleGc
    /\ cleanup = {} /\ swept = {} /\ deletions = 0 /\ crashes = 0

-----------------------------------------------------------------------------
(* stage_execution.  An item is a file that was copied: its id and content. *)

StageExecution(contents) ==
    /\ stager.pc = "idle" /\ next + Len(contents) <= MaxFiles
    /\ stager' = [pc |-> "begin", todo |-> contents, items |-> <<>>]
    /\ UNCHANGED <<row, file, next, held, gc, cleanup, swept, deletions, crashes>>

BeginStaging ==
    /\ stager.pc = "begin"
    /\ next' = next + 1
    /\ row' = [row EXCEPT ![next'] = Staging("stager", TRUE)]
    /\ stager' = [stager EXCEPT !.pc = "create"]
    /\ UNCHANGED <<file, held, gc, cleanup, swept, deletions, crashes>>

CreatePartial ==
    /\ stager.pc = "create"
    /\ file' = [file EXCEPT ![Partial(next)] = "new"]
    /\ stager' = [stager EXCEPT !.pc = "copy"]
    /\ UNCHANGED <<row, next, held, gc, cleanup, swept, deletions, crashes>>

\* The heartbeat of the file that is being copied, and of no other; it revives
\* a lease that has expired unless the collector has claimed it.
RenewStaging ==
    /\ stager.pc = "copy" /\ Lease(next)
    /\ row' = [row EXCEPT ![next].live = TRUE]
    /\ UNCHANGED <<file, next, stager, held, gc, cleanup, swept, deletions, crashes>>

FinishCopy ==
    /\ stager.pc = "copy"
    /\ stager' = [pc |-> IF Len(stager.todo) = 1 THEN "lock" ELSE "begin",
                  todo |-> Tail(stager.todo),
                  items |-> Append(stager.items, [id |-> next, content |-> Head(stager.todo)])]
    /\ UNCHANGED <<row, file, next, held, gc, cleanup, swept, deletions, crashes>>

Wanted == {Final(item.content) : item \in ToSet(stager.items)}

LockFinal(p) ==
    /\ stager.pc = "lock" /\ p \in Wanted \ held
    /\ ~(gc.pc \in {"recheck", "remove"} /\ gc.at = p)
    /\ held' = held \cup {p}
    /\ stager' = [stager EXCEPT !.pc = IF held' = Wanted THEN "publish" ELSE "lock"]
    /\ UNCHANGED <<row, file, next, gc, cleanup, swept, deletions, crashes>>

\* In the order of the items.  A referenced row must have its file; a file that
\* is there already is kept, in the place of the partial one.
Publish(k) ==
    /\ stager.pc = "publish" /\ k = Len(stager.todo) + 1
    /\ LET item == stager.items[k]
           from == Partial(item.id)
           to   == Final(item.content) IN
         /\ OnDisk(from) /\ (Referenced(item.content) => OnDisk(to))
         /\ file' = [file EXCEPT ![from] = "none",
                                 ![to] = IF OnDisk(to) THEN @ ELSE file[from]]
         /\ stager' = [stager EXCEPT
                         !.pc = IF k = Len(stager.items) THEN "commit" ELSE "publish",
                         !.todo = Append(@, item.content)]
         /\ swept' = swept \ {to}
    /\ UNCHANGED <<row, next, held, gc, cleanup, deletions, crashes>>

CommittedRow(i, c) ==
    IF \E j \in Ids : row[j] = [state |-> "referenced", content |-> c]
       \/ \E k \in DOMAIN stager.items :
            stager.items[k].content = c /\ stager.items[k].id < i
    THEN NoRow ELSE [state |-> "referenced", content |-> c]

\* The look at the files comes before the transaction, and the cleanup after a
\* deletion may run between the two.
LookAtFiles ==
    /\ stager.pc = "commit"
    /\ \A item \in ToSet(stager.items) : OnDisk(Final(item.content))
    /\ stager' = [stager EXCEPT !.pc = "record"]
    /\ UNCHANGED <<row, file, next, held, gc, cleanup, swept, deletions, crashes>>

\* One transaction with the tool attempt, on the rows alone.
CommitStagedExecution ==
    /\ stager.pc = "record"
    /\ \A item \in ToSet(stager.items) : Lease(item.id) /\ row[item.id].live
    /\ row' = [i \in Ids |->
                 IF \E item \in ToSet(stager.items) : item.id = i
                 THEN CommittedRow(i, (CHOOSE item \in ToSet(stager.items) : item.id = i).content)
                 ELSE row[i]]
    /\ stager' = IdleStager /\ held' = {}
    /\ UNCHANGED <<file, next, gc, cleanup, swept, deletions, crashes>>

\* Any step may fail, and does when its conditions do not hold: the attempt is
\* failed_known, and what was staged stays behind.
StagingFails ==
    /\ stager.pc \notin {"idle", "lock"}
    /\ stager' = IdleStager /\ held' = {}
    /\ UNCHANGED <<row, file, next, gc, cleanup, swept, deletions, crashes>>

-----------------------------------------------------------------------------
(* collect_garbage.                                                        *)

Expired_Stagers(i) == Lease(i) /\ ~row[i].live
\* Also a claim that an earlier collector left.
Expired(i) == IsStaging(i) /\ ~row[i].live

ClaimExpiredStaging ==
    /\ gc.pc = "idle"
    /\ gc' = [gc EXCEPT !.pc = "claimed", !.claims = {i \in Ids : Expired(i)}]
    /\ row' = [i \in Ids |-> IF Expired(i) THEN Staging("gc", TRUE) ELSE row[i]]
    /\ UNCHANGED <<file, next, stager, held, cleanup, swept, deletions, crashes>>

\* A claim that has expired meanwhile is left for the next round.
RenewGcClaim(i) ==
    /\ gc.pc = "claimed" /\ i \in gc.claims
    /\ gc' = IF row[i] = Staging("gc", TRUE)
             THEN [gc EXCEPT !.pc = "unlink", !.at = Partial(i)]
             ELSE [gc EXCEPT !.claims = @ \ {i}]
    /\ UNCHANGED <<row, file, next, stager, held, cleanup, swept, deletions, crashes>>

UnlinkExpired ==
    /\ gc.pc = "unlink"
    /\ file' = [file EXCEPT ![gc.at] = "none"]
    /\ gc' = [gc EXCEPT !.pc = "complete"]
    /\ UNCHANGED <<row, next, stager, held, cleanup, swept, deletions, crashes>>

\* Without its row the claim is lost, and the collector stops the daemon.
CompleteClaimedStaging ==
    /\ gc.pc = "complete"
    /\ LET i == gc.at[2] IN
         IF IsStaging(i) /\ row[i].owner = "gc"
         THEN /\ row' = [row EXCEPT ![i] = NoRow]
              /\ gc' = [gc EXCEPT !.pc = "claimed", !.claims = @ \ {i}, !.at = <<>>]
         ELSE /\ gc' = [gc EXCEPT !.pc = "failed"]
              /\ UNCHANGED row
    /\ UNCHANGED <<file, next, stager, held, cleanup, swept, deletions, crashes>>

OrphanCandidates == {p \in Paths : OnDisk(p)}

ScanOrphans ==
    /\ gc.pc = "claimed" /\ gc.claims = {}
    /\ gc' = [gc EXCEPT !.pc = "scan", !.paths = OrphanCandidates]
    /\ UNCHANGED <<row, file, next, stager, held, cleanup, swept, deletions, crashes>>

Skip(p) == gc' = [gc EXCEPT !.pc = "scan", !.paths = @ \ {p}, !.at = <<>>]

\* A path that is no longer there is an error, also when its stager renamed it.
CheckOrphan(p) ==
    /\ gc.pc = "scan" /\ p \in gc.paths
    /\ IF ~OnDisk(p) THEN gc' = [gc EXCEPT !.pc = "failed"]
       ELSE IF RowExists(p) \/ file[p] # "old" THEN Skip(p)
       ELSE gc' = [gc EXCEPT !.pc = "lock", !.at = p]
    /\ UNCHANGED <<row, file, next, stager, held, cleanup, swept, deletions, crashes>>

Lockable_Always(p) == TRUE
Lockable(p) == p \notin held

LockOrphan ==
    /\ gc.pc = "lock" /\ Lockable(gc.at)
    /\ gc' = [gc EXCEPT !.pc = "recheck"]
    /\ UNCHANGED <<row, file, next, stager, held, cleanup, swept, deletions, crashes>>

RecheckOrphan ==
    /\ gc.pc = "recheck"
    /\ IF RowExists(gc.at) THEN Skip(gc.at) ELSE gc' = [gc EXCEPT !.pc = "remove"]
    /\ UNCHANGED <<row, file, next, stager, held, cleanup, swept, deletions, crashes>>

RemoveOrphan ==
    /\ gc.pc = "remove"
    /\ file' = [file EXCEPT ![gc.at] = "none"]
    /\ IF OnDisk(gc.at) THEN Skip(gc.at) ELSE gc' = [gc EXCEPT !.pc = "failed"]
    /\ UNCHANGED <<row, next, stager, held, cleanup, swept, deletions, crashes>>

FinishScan ==
    /\ gc.pc = "scan" /\ gc.paths = {}
    /\ gc' = IdleGc
    /\ UNCHANGED <<row, file, next, stager, held, cleanup, swept, deletions, crashes>>

-----------------------------------------------------------------------------
(* Deletion, death and time.                                               *)

\* A forced deletion and the creation of an actor of the same id: no quantum of
\* the old one runs.  The rows are gone before the files are.
ReplaceActor ==
    /\ deletions < MaxDeletions /\ stager.pc = "idle"
    /\ \E i \in Ids : row[i] # NoRow
    /\ cleanup' = cleanup \cup {PathOf(i) : i \in {i \in Ids : row[i] # NoRow}}
    /\ row' = [i \in Ids |-> NoRow]
    /\ deletions' = deletions + 1
    /\ UNCHANGED <<file, next, stager, held, gc, swept, crashes>>

\* Without the lock of the path.
RemoveDeletedArtifact(p) ==
    /\ p \in cleanup
    /\ file' = [file EXCEPT ![p] = "none"]
    /\ cleanup' = cleanup \ {p}
    /\ swept' = IF OnDisk(p) THEN swept \cup {p} ELSE swept
    /\ UNCHANGED <<row, next, stager, held, gc, deletions, crashes>>

\* A collector that fails takes the daemon down, which is started again.
Restart ==
    /\ gc.pc = "failed" \/ crashes < MaxCrashes
    /\ crashes' = IF gc.pc = "failed" THEN crashes ELSE crashes + 1
    /\ stager' = IdleStager /\ held' = {} /\ gc' = IdleGc /\ cleanup' = {}
    /\ UNCHANGED <<row, file, next, swept, deletions>>

LeaseExpires(i) ==
    /\ IsStaging(i) /\ row[i].live
    /\ row' = [row EXCEPT ![i].live = FALSE]
    /\ UNCHANGED <<file, next, stager, held, gc, cleanup, swept, deletions, crashes>>

\* An hour passes since the file was written.
Age(p) ==
    /\ file[p] = "new"
    /\ file' = [file EXCEPT ![p] = "old"]
    /\ UNCHANGED <<row, next, stager, held, gc, cleanup, swept, deletions, crashes>>

-----------------------------------------------------------------------------
Batches == UNION {[1 .. n -> Contents] : n \in 1 .. MaxBatch}

Stage ==
    \/ BeginStaging \/ CreatePartial \/ FinishCopy
    \/ LookAtFiles \/ CommitStagedExecution \/ StagingFails
    \/ \E p \in Paths : LockFinal(p)
    \/ \E k \in 1 .. MaxBatch : Publish(k)

CollectGarbage ==
    \/ ClaimExpiredStaging \/ UnlinkExpired \/ CompleteClaimedStaging
    \/ ScanOrphans \/ LockOrphan \/ RecheckOrphan \/ RemoveOrphan \/ FinishScan
    \/ \E i \in Ids : RenewGcClaim(i)
    \/ \E p \in Paths : CheckOrphan(p)

TimePasses == (\E i \in Ids : LeaseExpires(i)) \/ (\E p \in Paths : Age(p))

Next ==
    \/ \E contents \in Batches : StageExecution(contents)
    \/ Stage \/ RenewStaging
    \/ CollectGarbage
    \/ ReplaceActor
    \/ \E p \in Paths : RemoveDeletedArtifact(p)
    \/ Restart
    \/ TimePasses

Spec == Init /\ [][Next]_vars

\* The quantum and the collector run, time passes, and the service manager
\* starts a daemon again that has stopped.  A claim of 30 seconds may expire
\* before the collector comes to it, but not in every round.
Reached == \E i \in Ids : row[i] = Staging("gc", TRUE) /\ RenewGcClaim(i)

FairSpec ==
    /\ Spec
    /\ WF_vars(Stage) /\ WF_vars(CollectGarbage) /\ SF_vars(Reached)
    /\ \A i \in Ids : WF_vars(LeaseExpires(i))
    /\ WF_vars(\E p \in Paths : Age(p))
    /\ WF_vars(gc.pc = "failed" /\ Restart)

-----------------------------------------------------------------------------
(* Properties.                                                             *)

TypeOK ==
    /\ row \in [Ids -> Rows] /\ file \in [Paths -> {"none", "new", "old"}] /\ next \in 0 .. MaxFiles
    /\ stager.pc \in {"idle", "begin", "create", "copy", "lock", "publish", "commit", "record"}
    /\ stager.pc = "idle" => stager = IdleStager /\ held = {}
    /\ held \subseteq Wanted
    /\ gc.pc \in {"idle", "claimed", "unlink", "complete", "scan", "lock", "recheck", "remove", "failed"}
    /\ gc.claims \subseteq Ids /\ gc.paths \subseteq Paths
    /\ cleanup \subseteq Paths /\ swept \subseteq Paths
    /\ \A i \in Ids : Lease(i) /\ row[i].live => i <= next

\* The file of a committed row is there, whatever the collector and later
\* executions do beside it, unless the cleanup after the deletion of an earlier
\* actor of the same id, which takes no lock, unlinked that very file: before
\* the transaction that committed the row, or after it (stage_execution,
\* commit_staged_execution, collect_garbage, remove_deleted_artifacts).
ReferencedFileStays ==
    \A c \in Contents : Referenced(c) => OnDisk(Final(c)) \/ Final(c) \in swept

\* In the end every file has a row and no row is left in staging: whatever a
\* failed execution, a death of the process or a deletion left behind at any
\* step is collected (collect_garbage).
StorageConverges ==
    <>[](/\ \A p \in Paths : OnDisk(p) => RowExists(p)
         /\ \A i \in Ids : ~IsStaging(i))

=============================================================================
