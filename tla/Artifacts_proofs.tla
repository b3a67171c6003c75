-------------------------- MODULE Artifacts_proofs --------------------------
(***************************************************************************)
(* Theorems about Artifacts for every value of its constants: the file of  *)
(* a committed row stays, however the collector and the stager interleave. *)
(***************************************************************************)
EXTENDS Artifacts, TLAPS

-----------------------------------------------------------------------------
(* The inductive invariant.                                                *)

Items == [id : Ids, content : Contents]
StagerStates == {"idle", "begin", "create", "copy", "lock", "publish", "commit", "record"}
GcStates ==
    {"idle", "claimed", "unlink", "complete", "scan", "lock", "recheck", "remove", "failed"}

\* The rows, the directory and the records of the tasks.
ArtifactTypes ==
    /\ row \in [Ids -> Rows] /\ file \in [Paths -> {"none", "new", "old"}]
    /\ next \in Nat
    /\ stager \in [pc : StagerStates, todo : Seq(Contents), items : Seq(Items)]
    /\ gc \in [pc : GcStates, claims : SUBSET Ids, paths : SUBSET Paths, at : Paths \cup {<<>>}]
    /\ cleanup \subseteq Paths

\* Ids are used in the order in which they are taken, and there is one left for
\* every file that is still to be copied.
IdsInOrder ==
    /\ next <= MaxFiles
    /\ stager.pc = "begin" => stager.todo # <<>> /\ next + Len(stager.todo) <= MaxFiles
    /\ stager.pc \in {"create", "copy"} =>
         stager.todo # <<>> /\ next >= 1 /\ next + Len(stager.todo) <= MaxFiles + 1
    /\ stager.pc = "lock" => stager.todo = <<>> /\ stager.items # <<>>
    /\ stager.pc = "publish" => Len(stager.todo) < Len(stager.items)
    /\ \A i \in Ids : Lease(i) /\ row[i].live => i <= next

\* The path locks: the stager holds what it publishes and commits, the
\* collector what it looks at again and removes.
PathLocks ==
    /\ held \subseteq Wanted
    /\ stager.pc = "idle" => stager = IdleStager /\ held = {}
    /\ stager.pc \in {"publish", "commit", "record"} => held = Wanted
    /\ gc.pc \in {"lock", "recheck", "remove"} => gc.at \in Paths
    /\ gc.pc \in {"recheck", "remove"} => gc.at \notin held

\* What the collector unlinks has no row: a partial file, or a final one that
\* it found without a row under the lock of its path.
OnlyOrphans ==
    /\ gc.pc \in {"unlink", "complete"} => \E i \in Ids : gc.at = Partial(i)
    /\ gc.pc = "remove" => \A c \in Contents : gc.at = Final(c) => ~Referenced(c)

ArtifactsInv == ArtifactTypes /\ IdsInOrder /\ PathLocks /\ OnlyOrphans

-----------------------------------------------------------------------------
(* Paths and rows.                                                         *)

LEMMA PathFacts ==
  /\ \A i \in Ids : Partial(i) \in Paths
  /\ \A c \in Contents : Final(c) \in Paths
  /\ \A i, c : Partial(i) # Final(c)
  /\ \A c, d : Final(c) = Final(d) => c = d
  BY DEF Paths, Partial, Final

\* A committed row claims the path of its content.
LEMMA ReferencedHasPath ==
  ASSUME NEW c \in Contents, Referenced(c)
  PROVE  RowExists(Final(c))
  <1>1. PICK i \in Ids : row[i] = [state |-> "referenced", content |-> c]
    BY DEF Referenced
  <1>2. row[i].state = "referenced" /\ row[i].content = c /\ row[i] # NoRow
    BY <1>1 DEF NoRow
  <1>3. PathOf(i) = Final(c)
    BY <1>2 DEF PathOf, IsStaging
  <1> QED BY <1>2, <1>3 DEF RowExists

\* A row that is being staged, and what the two tasks may write.
LEMMA StagingRows ==
  /\ NoRow \in Rows /\ NoRow.state # "staging"
  /\ \A o \in {"stager", "gc"}, l \in BOOLEAN :
       /\ Staging(o, l) \in Rows /\ Staging(o, l).state = "staging"
       /\ Staging(o, l).owner = o /\ Staging(o, l).live = l
  /\ \A c \in Contents :
       /\ [state |-> "referenced", content |-> c] \in Rows
       /\ [state |-> "referenced", content |-> c].state # "staging"
  /\ \A r \in Rows : r.state = "staging" => \E o \in {"stager", "gc"}, l \in BOOLEAN : r = Staging(o, l)
  <1>1. /\ NoRow \in Rows /\ NoRow.state # "staging"
        /\ \A o \in {"stager", "gc"}, l \in BOOLEAN :
             /\ Staging(o, l) \in Rows /\ Staging(o, l).state = "staging"
             /\ Staging(o, l).owner = o /\ Staging(o, l).live = l
    <2>1. NoRow \in Rows /\ NoRow.state # "staging"
      BY DEF Rows, NoRow
    <2>2. ASSUME NEW o \in {"stager", "gc"}, NEW l \in BOOLEAN
          PROVE  /\ Staging(o, l) \in Rows /\ Staging(o, l).state = "staging"
                 /\ Staging(o, l).owner = o /\ Staging(o, l).live = l
      <3>1. Staging(o, l) \in Rows
        BY DEF Rows
      <3>2. Staging(o, l).state = "staging" /\ Staging(o, l).owner = o
        BY DEF Staging
      <3>3. CASE l = TRUE
        BY <3>1, <3>2, <3>3 DEF Staging
      <3>4. CASE l = FALSE
        BY <3>1, <3>2, <3>4 DEF Staging
      <3> QED BY <3>3, <3>4
    <2> QED BY <2>1, <2>2
  <1>2. \A c \in Contents :
          /\ [state |-> "referenced", content |-> c] \in Rows
          /\ [state |-> "referenced", content |-> c].state # "staging"
    BY DEF Rows
  <1>3. ASSUME NEW r \in Rows, r.state = "staging"
        PROVE  \E o \in {"stager", "gc"}, l \in BOOLEAN : r = Staging(o, l)
    <2>1. r # NoRow /\ r \notin [state : {"referenced"}, content : Contents]
      BY <1>1, <1>3
    <2>2. r \in {Staging(o, l) : o \in {"stager", "gc"}, l \in BOOLEAN}
      BY <2>1 DEF Rows
    <2> QED BY <2>2
  <1> QED BY <1>1, <1>2, <1>3

\* Only staging rows are touched, and they become staging rows again: no
\* content gains or loses its reference.
LEMMA ReferencesKept ==
  ASSUME \A i \in Ids : \/ row'[i] = row[i]
                        \/ row'[i].state # "referenced" /\ row[i].state # "referenced"
  PROVE  \A c \in Contents : Referenced(c)' <=> Referenced(c)
  <1> SUFFICES ASSUME NEW c \in Contents PROVE Referenced(c)' <=> Referenced(c)
    OBVIOUS
  <1> DEFINE r == [state |-> "referenced", content |-> c]
  <1>1. r.state = "referenced"
    OBVIOUS
  <1> HIDE DEF r
  <1>2. \A i \in Ids : row'[i] = r <=> row[i] = r
    BY <1>1
  <1>3. (Referenced(c)' <=> \E i \in Ids : row'[i] = r) /\ (Referenced(c) <=> \E i \in Ids : row[i] = r)
    BY DEF Referenced, r
  <1> QED BY <1>2, <1>3

LEMMA ArtifactsInit == Init => ArtifactsInv
  <1> SUFFICES ASSUME Init PROVE ArtifactsInv
    OBVIOUS
  <1>1. ArtifactTypes
    <2>1. row \in [Ids -> Rows] /\ file \in [Paths -> {"none", "new", "old"}] /\ next \in Nat
      BY StagingRows DEF Init
    <2>2. stager \in [pc : StagerStates, todo : Seq(Contents), items : Seq(Items)]
      BY DEF Init, IdleStager, StagerStates
    <2>3. gc \in [pc : GcStates, claims : SUBSET Ids, paths : SUBSET Paths, at : Paths \cup {<<>>}]
      BY DEF Init, IdleGc, GcStates
    <2> QED BY <2>1, <2>2, <2>3 DEF Init, ArtifactTypes
  <1>2. stager.pc = "idle" /\ gc.pc = "idle"
    BY DEF Init, IdleStager, IdleGc
  <1>3. IdsInOrder
    BY <1>2, ArtifactsAssumption, StagingRows DEF Init, IdsInOrder, Lease, IsStaging
  <1>4. PathLocks /\ OnlyOrphans
    BY <1>2 DEF Init, PathLocks, OnlyOrphans
  <1> QED BY <1>1, <1>3, <1>4 DEF ArtifactsInv

-----------------------------------------------------------------------------
(* The stager.                                                             *)

\* The fields of the stager's record.
LEMMA StagerFields ==
  ASSUME ArtifactTypes
  PROVE  /\ stager.pc \in StagerStates /\ stager.todo \in Seq(Contents)
         /\ stager.items \in Seq(Items)
         /\ stager = [pc |-> stager.pc, todo |-> stager.todo, items |-> stager.items]
         /\ \A p : [stager EXCEPT !.pc = p] =
                     [pc |-> p, todo |-> stager.todo, items |-> stager.items]
  BY DEF ArtifactTypes

\* Copying: an id and a partial file for each content, one after the other.
LEMMA CopyingKeeps ==
  ASSUME ArtifactsInv,
         \/ \E contents \in Batches : StageExecution(contents)
         \/ BeginStaging \/ CreatePartial \/ RenewStaging \/ FinishCopy
  PROVE  ArtifactsInv'
  <1>1. /\ ArtifactTypes /\ IdsInOrder /\ PathLocks /\ OnlyOrphans
        /\ stager.todo \in Seq(Contents) /\ stager.items \in Seq(Items)
        /\ stager = [pc |-> stager.pc, todo |-> stager.todo, items |-> stager.items]
        /\ \A p : [stager EXCEPT !.pc = p] =
                    [pc |-> p, todo |-> stager.todo, items |-> stager.items]
    BY StagerFields DEF ArtifactsInv
  <1>2. ASSUME NEW contents \in Batches, StageExecution(contents) PROVE ArtifactsInv'
    <2>1. contents \in Seq(Contents) /\ contents # <<>> /\ Len(contents) \in Nat
      BY DEF Batches
    <2>2. /\ stager' = [pc |-> "begin", todo |-> contents, items |-> <<>>]
          /\ stager.pc = "idle" /\ next + Len(contents) <= MaxFiles
          /\ UNCHANGED <<row, file, next, held, gc, cleanup>>
      BY <1>2 DEF StageExecution
    <2>3. /\ stager'.pc = "begin" /\ stager'.todo = contents /\ stager'.items = <<>>
          /\ stager' \in [pc : StagerStates, todo : Seq(Contents), items : Seq(Items)]
      BY <2>1, <2>2 DEF StagerStates
    <2>4. ArtifactTypes'
      BY <1>1, <2>2, <2>3 DEF ArtifactTypes
    <2>5. IdsInOrder'
      BY <1>1, <2>1, <2>2, <2>3 DEF IdsInOrder, Lease, IsStaging
    <2>6. PathLocks'
      BY <1>1, <2>2, <2>3 DEF PathLocks
    <2>7. OnlyOrphans'
      BY <1>1, <2>2 DEF OnlyOrphans, Referenced
    <2> QED BY <2>4, <2>5, <2>6, <2>7 DEF ArtifactsInv
  <1>3. CASE BeginStaging
    <2>1. /\ stager.pc = "begin" /\ next' = next + 1
          /\ row' = [row EXCEPT ![next'] = Staging("stager", TRUE)]
          /\ stager' = [pc |-> "create", todo |-> stager.todo, items |-> stager.items]
          /\ UNCHANGED <<file, held, gc, cleanup>>
      BY <1>1, <1>3 DEF BeginStaging
    <2>2. /\ stager'.pc = "create" /\ stager'.todo = stager.todo /\ stager'.items = stager.items
          /\ stager' \in [pc : StagerStates, todo : Seq(Contents), items : Seq(Items)]
      BY <1>1, <2>1 DEF StagerStates
    <2>3. row' \in [Ids -> Rows]
      BY <1>1, <2>1, StagingRows DEF ArtifactTypes
    <2>a. next \in Nat /\ next' \in Nat
      BY <1>1, <2>1 DEF ArtifactTypes
    <2>4. ArtifactTypes'
      BY <1>1, <2>1, <2>2, <2>3, <2>a DEF ArtifactTypes
    <2>5. Len(stager.todo) \in Nat /\ next \in Nat /\ MaxFiles \in Nat /\ Len(stager.todo) > 0
          /\ stager.todo # <<>> /\ next + Len(stager.todo) <= MaxFiles
      BY <1>1, <2>1, ArtifactsAssumption DEF IdsInOrder, ArtifactTypes
    <2>6. \A i \in Ids : Lease(i)' /\ row'[i].live => i <= next'
      <3> SUFFICES ASSUME NEW i \in Ids, Lease(i)', row'[i].live PROVE i <= next'
        OBVIOUS
      <3>1. CASE i = next'
        BY <2>1, <2>5, <3>1 DEF Ids
      <3>2. CASE i # next'
        <4>1. row'[i] = row[i]
          BY <1>1, <2>1, <3>2 DEF ArtifactTypes
        <4>2. i <= next
          BY <1>1, <4>1 DEF IdsInOrder, Lease, IsStaging
        <4> QED BY <2>1, <2>5, <4>2 DEF Ids
      <3> QED BY <3>1, <3>2
    <2>c. next' = next + 1
      BY <2>1
    <2>b. next' <= MaxFiles /\ next' >= 1 /\ next' + Len(stager.todo) <= MaxFiles + 1
      <3>1. \A n, m, l \in Nat : l > 0 /\ n + l <= m => n + 1 <= m /\ n + 1 >= 1 /\ n + 1 + l <= m + 1
        OBVIOUS
      <3>2. next + 1 <= MaxFiles
        BY <2>5, <3>1
      <3>3. next + 1 >= 1
        BY <2>5
      <3>4. next + 1 + Len(stager.todo) <= MaxFiles + 1
        BY <2>5, <3>1
      <3> QED BY <2>c, <3>2, <3>3, <3>4
    <2>7. IdsInOrder'
      BY <2>2, <2>5, <2>6, <2>b DEF IdsInOrder
    <2>8. Wanted' = Wanted
      BY <2>2 DEF Wanted
    <2>9. PathLocks'
      BY <1>1, <2>1, <2>2, <2>8 DEF PathLocks
    <2>10. \A c \in Contents : Referenced(c)' => Referenced(c)
      <3> SUFFICES ASSUME NEW c \in Contents, Referenced(c)' PROVE Referenced(c)
        OBVIOUS
      <3>1. PICK i \in Ids : row'[i] = [state |-> "referenced", content |-> c]
        BY DEF Referenced
      <3>2. i # next'
        <4>1. next' \in Ids => row'[next'].state = "staging"
          BY <1>1, <2>1, StagingRows DEF ArtifactTypes
        <4>2. row'[i].state = "referenced"
          BY <3>1
        <4> QED BY <4>1, <4>2
      <3> QED BY <1>1, <2>1, <3>1, <3>2 DEF ArtifactTypes, Referenced
    <2>11. OnlyOrphans'
      BY <1>1, <2>1, <2>10 DEF OnlyOrphans
    <2> QED BY <2>4, <2>7, <2>9, <2>11 DEF ArtifactsInv
  <1>4. CASE CreatePartial
    <2>1. /\ stager.pc = "create" /\ file' = [file EXCEPT ![Partial(next)] = "new"]
          /\ stager' = [pc |-> "copy", todo |-> stager.todo, items |-> stager.items]
          /\ UNCHANGED <<row, next, held, gc, cleanup>>
      BY <1>1, <1>4 DEF CreatePartial
    <2>2. /\ stager'.pc = "copy" /\ stager'.todo = stager.todo /\ stager'.items = stager.items
          /\ stager' \in [pc : StagerStates, todo : Seq(Contents), items : Seq(Items)]
      BY <1>1, <2>1 DEF StagerStates
    <2>3. ArtifactTypes'
      BY <1>1, <2>1, <2>2 DEF ArtifactTypes
    <2>4. IdsInOrder'
      BY <1>1, <2>1, <2>2 DEF IdsInOrder, Lease, IsStaging
    <2>5. Wanted' = Wanted
      BY <2>2 DEF Wanted
    <2>6. PathLocks'
      BY <1>1, <2>1, <2>2, <2>5 DEF PathLocks
    <2>7. OnlyOrphans'
      BY <1>1, <2>1 DEF OnlyOrphans, Referenced
    <2> QED BY <2>3, <2>4, <2>6, <2>7 DEF ArtifactsInv
  <1>5. CASE RenewStaging
    <2>1. /\ stager.pc = "copy" /\ Lease(next)
          /\ row' = [row EXCEPT ![next] = [row[next] EXCEPT !.live = TRUE]]
          /\ UNCHANGED <<file, next, stager, held, gc, cleanup>>
      BY <1>5 DEF RenewStaging
    <2>2. /\ next \in Nat /\ next >= 1 /\ next <= MaxFiles /\ next \in Ids
      BY <1>1, <2>1, ArtifactsAssumption DEF IdsInOrder, ArtifactTypes, Ids
    <2>3. PICK o \in {"stager", "gc"}, l \in BOOLEAN : row[next] = Staging(o, l)
      BY <1>1, <2>1, <2>2, StagingRows DEF ArtifactTypes, Lease, IsStaging
    <2>a. [Staging(o, l) EXCEPT !.live = TRUE] = Staging(o, TRUE)
      <3>1. \A x, y : [[state |-> "staging", owner |-> o, live |-> x] EXCEPT !.live = y]
                       = [state |-> "staging", owner |-> o, live |-> y]
        OBVIOUS
      <3> QED BY <3>1 DEF Staging
    <2>4. [row[next] EXCEPT !.live = TRUE] = Staging(o, TRUE)
      BY <2>3, <2>a
    <2>5. /\ row'[next] = Staging(o, TRUE) /\ row'[next] \in Rows
          /\ row'[next].state = "staging" /\ row[next].state = "staging"
          /\ \A i \in Ids : i # next => row'[i] = row[i]
          /\ row' \in [Ids -> Rows]
      <3>1. /\ row' = [row EXCEPT ![next] = Staging(o, TRUE)] /\ row \in [Ids -> Rows]
            /\ Staging(o, TRUE) \in Rows /\ Staging(o, TRUE).state = "staging"
            /\ row[next].state = "staging"
        <4>1. Staging(o, TRUE) \in Rows /\ Staging(o, TRUE).state = "staging"
          BY StagingRows
        <4>2. Staging(o, l).state = "staging"
          BY StagingRows
        <4>3. row' = [row EXCEPT ![next] = Staging(o, TRUE)]
          BY <2>1, <2>4
        <4>4. row \in [Ids -> Rows]
          BY <1>1 DEF ArtifactTypes
        <4> QED BY <2>3, <4>1, <4>2, <4>3, <4>4
      <3> QED BY <2>2, <3>1
    <2>6. \A c \in Contents : Referenced(c)' <=> Referenced(c)
      BY <2>5, ReferencesKept
    <2>7. ArtifactTypes'
      BY <1>1, <2>1, <2>5 DEF ArtifactTypes
    <2>8. \A i \in Ids : Lease(i)' /\ row'[i].live => i <= next'
      BY <1>1, <2>1, <2>2, <2>5 DEF IdsInOrder, Lease, IsStaging
    <2>9. IdsInOrder'
      BY <1>1, <2>1, <2>8 DEF IdsInOrder
    <2>10. PathLocks'
      BY <1>1, <2>1 DEF PathLocks, Wanted
    <2>11. OnlyOrphans'
      BY <1>1, <2>1, <2>6 DEF OnlyOrphans
    <2> QED BY <2>7, <2>9, <2>10, <2>11 DEF ArtifactsInv
  <1>6. CASE FinishCopy
    <2> DEFINE pc == IF Len(stager.todo) = 1 THEN "lock" ELSE "begin"
               item == [id |-> next, content |-> Head(stager.todo)]
    <2>1. /\ stager.pc = "copy"
          /\ stager' = [pc |-> pc, todo |-> Tail(stager.todo), items |-> Append(stager.items, item)]
          /\ UNCHANGED <<row, file, next, held, gc, cleanup>>
      BY <1>6 DEF FinishCopy
    <2>2. /\ next \in Nat /\ next >= 1 /\ next <= MaxFiles /\ next \in Ids /\ MaxFiles \in Nat
          /\ stager.todo # <<>> /\ next + Len(stager.todo) <= MaxFiles + 1
      BY <1>1, <2>1, ArtifactsAssumption DEF IdsInOrder, ArtifactTypes, Ids
    <2>3. /\ Head(stager.todo) \in Contents /\ Tail(stager.todo) \in Seq(Contents)
          /\ Len(Tail(stager.todo)) = Len(stager.todo) - 1 /\ Len(stager.todo) \in Nat
          /\ Tail(stager.todo) = <<>> <=> Len(stager.todo) = 1
      <3>1. \A s \in Seq(Contents) : s # <<>> =>
              /\ Head(s) \in Contents /\ Tail(s) \in Seq(Contents)
              /\ Len(Tail(s)) = Len(s) - 1 /\ Len(s) \in Nat /\ Len(s) > 0
        OBVIOUS
      <3>2. \A s \in Seq(Contents) : s = <<>> <=> Len(s) = 0
        OBVIOUS
      <3>3. stager.todo \in Seq(Contents) /\ stager.todo # <<>>
        BY <1>1, <2>2
      <3>4. /\ Head(stager.todo) \in Contents /\ Tail(stager.todo) \in Seq(Contents)
            /\ Len(Tail(stager.todo)) = Len(stager.todo) - 1 /\ Len(stager.todo) \in Nat
            /\ Len(stager.todo) > 0
        BY <3>1, <3>3
      <3>5. Tail(stager.todo) = <<>> <=> Len(Tail(stager.todo)) = 0
        BY <3>2, <3>4
      <3> QED BY <3>4, <3>5
    <2>4. item \in Items /\ pc \in {"lock", "begin"} /\ (pc = "lock" <=> Len(stager.todo) = 1)
      BY <2>2, <2>3 DEF Items
    <2> HIDE DEF pc, item
    <2>5. /\ Append(stager.items, item) \in Seq(Items) /\ Append(stager.items, item) # <<>>
          /\ \A k \in DOMAIN stager.items :
               /\ k \in DOMAIN Append(stager.items, item)
               /\ Append(stager.items, item)[k] = stager.items[k]
      <3>1. ASSUME NEW s \in Seq(Items), NEW x \in Items
            PROVE  /\ Append(s, x) \in Seq(Items) /\ Append(s, x) # <<>>
                   /\ \A k \in DOMAIN s : k \in DOMAIN Append(s, x) /\ Append(s, x)[k] = s[k]
        OBVIOUS
      <3>2. stager.items \in Seq(Items)
        BY <1>1
      <3> QED BY <2>4, <3>1, <3>2
    <2>6. /\ stager'.pc = pc /\ stager'.todo = Tail(stager.todo)
          /\ stager'.items = Append(stager.items, item)
          /\ stager' \in [pc : StagerStates, todo : Seq(Contents), items : Seq(Items)]
      BY <2>1, <2>3, <2>4, <2>5 DEF StagerStates
    <2>7. ArtifactTypes'
      BY <1>1, <2>1, <2>6 DEF ArtifactTypes
    <2>8. IdsInOrder'
      BY <1>1, <2>1, <2>2, <2>3, <2>4, <2>5, <2>6, SMTT(30) DEF IdsInOrder, Lease, IsStaging
    <2>9. Wanted \subseteq Wanted'
      BY <2>5, <2>6 DEF Wanted, ToSet
    <2>10. PathLocks'
      BY <1>1, <2>1, <2>4, <2>6, <2>9 DEF PathLocks
    <2>11. OnlyOrphans'
      BY <1>1, <2>1 DEF OnlyOrphans, Referenced
    <2> QED BY <2>7, <2>8, <2>10, <2>11 DEF ArtifactsInv
  <1> QED BY <1>2, <1>3, <1>4, <1>5, <1>6

\* What a commit writes: rows that are no longer staged, and references to the
\* contents that were copied.
LEMMA CommittedRows ==
  ASSUME ArtifactTypes, CommitStagedExecution
  PROVE  /\ row' \in [Ids -> Rows]
         /\ \A i \in Ids : row'[i] = row[i] \/ row'[i].state # "staging"
         /\ \A c \in Contents : Referenced(c)' =>
              Referenced(c) \/ \E item \in ToSet(stager.items) : item.content = c
  <1> DEFINE chosen(i) == CHOOSE item \in ToSet(stager.items) : item.id = i
             copied(i) == \E item \in ToSet(stager.items) : item.id = i
  <1>1. row' = [i \in Ids |-> IF copied(i) THEN CommittedRow(i, chosen(i).content) ELSE row[i]]
    BY DEF CommitStagedExecution
  <1>2. ToSet(stager.items) \subseteq Items
    BY StagerFields DEF ToSet
  <1>3. ASSUME NEW i \in Ids, copied(i)
        PROVE  chosen(i) \in ToSet(stager.items) /\ chosen(i).content \in Contents
    <2>1. chosen(i) \in ToSet(stager.items)
      BY <1>3
    <2> QED BY <1>2, <2>1 DEF Items
  <1> HIDE DEF chosen, copied
  <1>4. ASSUME NEW i \in Ids, copied(i)
        PROVE  \/ row'[i] = NoRow
               \/ row'[i] = [state |-> "referenced", content |-> chosen(i).content]
    BY <1>1, <1>4 DEF CommittedRow
  <1>5. \A i \in Ids : ~copied(i) => row'[i] = row[i]
    BY <1>1
  <1>6. \A i \in Ids : row[i] \in Rows
    BY DEF ArtifactTypes
  <1>7. \A i \in Ids : row'[i] \in Rows
    BY <1>3, <1>4, <1>5, <1>6, StagingRows, ZenonT(40)
  <1>8. row' \in [Ids -> Rows]
    <2>1. row' = [i \in Ids |-> row'[i]]
      BY <1>1
    <2> QED BY <1>7, <2>1
  <1>9. \A i \in Ids : row'[i] = row[i] \/ row'[i].state # "staging"
    <2> SUFFICES ASSUME NEW i \in Ids, copied(i) PROVE row'[i].state # "staging"
      BY <1>5
    <2>1. [state |-> "referenced", content |-> chosen(i).content].state # "staging"
      OBVIOUS
    <2>2. NoRow.state # "staging"
      BY DEF NoRow
    <2> QED BY <1>4, <2>1, <2>2
  <1>10. ASSUME NEW c \in Contents, Referenced(c)'
         PROVE  Referenced(c) \/ \E item \in ToSet(stager.items) : item.content = c
    <2>1. PICK i \in Ids : row'[i] = [state |-> "referenced", content |-> c]
      BY <1>10 DEF Referenced
    <2>2. CASE ~copied(i)
      BY <1>5, <2>1, <2>2 DEF Referenced
    <2>3. CASE copied(i)
      <3>1. row'[i] # NoRow
        BY <2>1 DEF NoRow
      <3>2. row'[i] = [state |-> "referenced", content |-> chosen(i).content]
        BY <1>4, <2>3, <3>1
      <3>3. chosen(i).content = c
        <4>1. row'[i].content = c
          BY <2>1
        <4>2. row'[i].content = chosen(i).content
          BY <3>2
        <4> QED BY <4>1, <4>2
      <3> QED BY <1>3, <2>3, <3>3
    <2> QED BY <2>2, <2>3
  <1> QED BY <1>8, <1>9, <1>10

\* Publishing: under the locks of the final paths the partial files take their
\* place, and the rows follow in one transaction.
LEMMA PublishingKeeps ==
  ASSUME ArtifactsInv,
         \/ \E p \in Paths : LockFinal(p)
         \/ \E k \in 1 .. MaxBatch : Publish(k)
         \/ LookAtFiles \/ CommitStagedExecution \/ StagingFails
  PROVE  ArtifactsInv'
  <1>1. /\ ArtifactTypes /\ IdsInOrder /\ PathLocks /\ OnlyOrphans
        /\ stager.todo \in Seq(Contents) /\ stager.items \in Seq(Items)
        /\ stager = [pc |-> stager.pc, todo |-> stager.todo, items |-> stager.items]
        /\ \A p : [stager EXCEPT !.pc = p] =
                    [pc |-> p, todo |-> stager.todo, items |-> stager.items]
    BY StagerFields DEF ArtifactsInv
  <1>2. ASSUME NEW p \in Paths, LockFinal(p) PROVE ArtifactsInv'
    <2> DEFINE pc == IF held' = Wanted THEN "publish" ELSE "lock"
    <2>1. /\ stager.pc = "lock" /\ p \in Wanted \ held /\ held' = held \cup {p}
          /\ ~(gc.pc \in {"recheck", "remove"} /\ gc.at = p)
          /\ stager' = [pc |-> pc, todo |-> stager.todo, items |-> stager.items]
          /\ UNCHANGED <<row, file, next, gc, cleanup>>
      BY <1>1, <1>2 DEF LockFinal
    <2>2. pc \in {"publish", "lock"} /\ (pc = "publish" => held' = Wanted)
      OBVIOUS
    <2> HIDE DEF pc
    <2>3. /\ stager'.pc = pc /\ stager'.todo = stager.todo /\ stager'.items = stager.items
          /\ stager' \in [pc : StagerStates, todo : Seq(Contents), items : Seq(Items)]
      BY <1>1, <2>1, <2>2 DEF StagerStates
    <2>4. ArtifactTypes'
      BY <1>1, <2>1, <2>3 DEF ArtifactTypes
    <2>5. stager.todo = <<>> /\ stager.items # <<>>
      BY <1>1, <2>1 DEF IdsInOrder
    <2>6. Len(stager.todo) < Len(stager.items)
      <3>1. \A s \in Seq(Items) : s # <<>> => Len(s) \in Nat /\ Len(s) > 0
        OBVIOUS
      <3>2. Len(stager.todo) = 0
        BY <2>5
      <3>3. Len(stager.items) \in Nat /\ Len(stager.items) > 0
        BY <1>1, <2>5, <3>1
      <3> QED BY <3>2, <3>3
    <2>7. IdsInOrder'
      BY <1>1, <2>1, <2>2, <2>3, <2>5, <2>6 DEF IdsInOrder, Lease, IsStaging
    <2>8. Wanted' = Wanted
      BY <2>3 DEF Wanted
    <2>9. PathLocks'
      BY <1>1, <2>1, <2>2, <2>3, <2>8 DEF PathLocks
    <2>10. OnlyOrphans'
      BY <1>1, <2>1 DEF OnlyOrphans, Referenced
    <2> QED BY <2>4, <2>7, <2>9, <2>10 DEF ArtifactsInv
  <1>3. ASSUME NEW k \in 1 .. MaxBatch, Publish(k) PROVE ArtifactsInv'
    <2> DEFINE pc == IF k = Len(stager.items) THEN "commit" ELSE "publish"
               item == stager.items[k]
               to == Final(item.content)
               from == Partial(item.id)
    <2>1. /\ stager.pc = "publish" /\ k = Len(stager.todo) + 1
          /\ file' = [file EXCEPT ![from] = "none", ![to] = IF OnDisk(to) THEN @ ELSE file[from]]
          /\ UNCHANGED <<row, next, held, gc, cleanup>>
      BY <1>3 DEF Publish
    <2>2. stager' = [stager EXCEPT !.pc = pc, !.todo = Append(stager.todo, item.content)]
      BY <1>3 DEF Publish
    <2>3. /\ Len(stager.todo) < Len(stager.items) /\ Len(stager.todo) \in Nat
          /\ Len(stager.items) \in Nat /\ k \in 1 .. Len(stager.items)
      <3>1. Len(stager.todo) < Len(stager.items)
        BY <1>1, <2>1 DEF IdsInOrder
      <3>2. Len(stager.todo) \in Nat /\ Len(stager.items) \in Nat
        BY <1>1
      <3>3. \A m, n \in Nat : m < n => m + 1 \in 1 .. n
        OBVIOUS
      <3> QED BY <2>1, <3>1, <3>2, <3>3
    <2>4. item \in Items
      <3>1. \A s \in Seq(Items) : \A j \in 1 .. Len(s) : s[j] \in Items
        OBVIOUS
      <3> QED BY <1>1, <2>3, <3>1
    <2>5. /\ item.content \in Contents /\ item.id \in Ids /\ from \in Paths /\ to \in Paths
          /\ from # to
      BY <2>4, PathFacts DEF Items
    <2>6. pc \in {"commit", "publish"} /\ (pc = "publish" => k # Len(stager.items))
      OBVIOUS
    <2> HIDE DEF pc, item
    <2>7. /\ Append(stager.todo, item.content) \in Seq(Contents)
          /\ Len(Append(stager.todo, item.content)) = k
      BY <1>1, <2>1, <2>5
    <2>8. /\ stager'.pc = pc /\ stager'.todo = Append(stager.todo, item.content)
          /\ stager'.items = stager.items
          /\ stager' \in [pc : StagerStates, todo : Seq(Contents), items : Seq(Items)]
      <3>1. /\ stager \in [pc : StagerStates, todo : Seq(Contents), items : Seq(Items)]
            /\ pc \in StagerStates
        BY <1>1, <2>6 DEF ArtifactTypes, StagerStates
      <3> QED BY <2>2, <2>7, <3>1
    <2>9. file' \in [Paths -> {"none", "new", "old"}]
      BY <1>1, <2>1, <2>5 DEF ArtifactTypes
    <2>10. ArtifactTypes'
      BY <1>1, <2>1, <2>8, <2>9 DEF ArtifactTypes
    <2>11. pc = "publish" => k < Len(stager.items)
      BY <2>3, <2>6
    <2>12. IdsInOrder'
      BY <1>1, <2>1, <2>6, <2>7, <2>8, <2>11 DEF IdsInOrder, Lease, IsStaging
    <2>13. Wanted' = Wanted
      BY <2>8 DEF Wanted
    <2>14. PathLocks'
      BY <1>1, <2>1, <2>6, <2>8, <2>13 DEF PathLocks
    <2>15. OnlyOrphans'
      BY <1>1, <2>1 DEF OnlyOrphans, Referenced
    <2> QED BY <2>10, <2>12, <2>14, <2>15 DEF ArtifactsInv
  <1>a. CASE LookAtFiles
    <2>1. /\ stager.pc = "commit"
          /\ stager' = [pc |-> "record", todo |-> stager.todo, items |-> stager.items]
          /\ UNCHANGED <<row, file, next, held, gc, cleanup>>
      BY <1>1, <1>a DEF LookAtFiles
    <2>2. /\ stager'.pc = "record" /\ stager'.todo = stager.todo /\ stager'.items = stager.items
          /\ stager' \in [pc : StagerStates, todo : Seq(Contents), items : Seq(Items)]
      BY <1>1, <2>1 DEF StagerStates
    <2>3. ArtifactTypes'
      BY <1>1, <2>1, <2>2 DEF ArtifactTypes
    <2>4. IdsInOrder'
      BY <1>1, <2>1, <2>2 DEF IdsInOrder, Lease, IsStaging
    <2>5. Wanted' = Wanted
      BY <2>2 DEF Wanted
    <2>6. PathLocks'
      BY <1>1, <2>1, <2>2, <2>5 DEF PathLocks
    <2>7. OnlyOrphans'
      BY <1>1, <2>1 DEF OnlyOrphans, Referenced
    <2> QED BY <2>3, <2>4, <2>6, <2>7 DEF ArtifactsInv
  <1>4. CASE CommitStagedExecution
    <2>1. /\ stager.pc = "record" /\ stager' = IdleStager /\ held' = {}
          /\ UNCHANGED <<file, next, gc, cleanup>>
      BY <1>4 DEF CommitStagedExecution
    <2>2. /\ row' \in [Ids -> Rows]
          /\ \A i \in Ids : row'[i] = row[i] \/ row'[i].state # "staging"
          /\ \A c \in Contents : Referenced(c)' =>
               Referenced(c) \/ \E item \in ToSet(stager.items) : item.content = c
      BY <1>1, <1>4, CommittedRows
    <2>3. /\ IdleStager.pc = "idle"
          /\ IdleStager \in [pc : StagerStates, todo : Seq(Contents), items : Seq(Items)]
      BY DEF IdleStager, StagerStates
    <2>4. ArtifactTypes'
      BY <1>1, <2>1, <2>2, <2>3 DEF ArtifactTypes
    <2>5. IdsInOrder'
      BY <1>1, <2>1, <2>2, <2>3 DEF IdsInOrder, Lease, IsStaging
    <2>6. PathLocks'
      BY <1>1, <2>1, <2>3 DEF PathLocks
    <2>7. ASSUME NEW c \in Contents, gc.pc = "remove", gc.at = Final(c) PROVE ~Referenced(c)'
      <3>1. held = Wanted /\ gc.at \notin held /\ ~Referenced(c)
        BY <1>1, <2>1, <2>7 DEF PathLocks, OnlyOrphans
      <3>2. \A item \in ToSet(stager.items) : item.content # c
        BY <2>7, <3>1 DEF Wanted
      <3> QED BY <2>2, <3>1, <3>2
    <2>8. OnlyOrphans'
      BY <1>1, <2>1, <2>7 DEF OnlyOrphans
    <2> QED BY <2>4, <2>5, <2>6, <2>8 DEF ArtifactsInv
  <1>5. CASE StagingFails
    <2>1. /\ stager' = IdleStager /\ held' = {} /\ UNCHANGED <<row, file, next, gc, cleanup>>
      BY <1>5 DEF StagingFails
    <2>2. /\ IdleStager.pc = "idle"
          /\ IdleStager \in [pc : StagerStates, todo : Seq(Contents), items : Seq(Items)]
      BY DEF IdleStager, StagerStates
    <2>3. ArtifactTypes'
      BY <1>1, <2>1, <2>2 DEF ArtifactTypes
    <2>4. IdsInOrder'
      BY <1>1, <2>1, <2>2 DEF IdsInOrder, Lease, IsStaging
    <2>5. PathLocks'
      BY <1>1, <2>1, <2>2 DEF PathLocks
    <2>6. OnlyOrphans'
      BY <1>1, <2>1 DEF OnlyOrphans, Referenced
    <2> QED BY <2>3, <2>4, <2>5, <2>6 DEF ArtifactsInv
  <1> QED BY <1>2, <1>3, <1>a, <1>4, <1>5

-----------------------------------------------------------------------------
(* The collector, and what happens to the storage of an actor.             *)

GcRecords == [pc : GcStates, claims : SUBSET Ids, paths : SUBSET Paths, at : Paths \cup {<<>>}]

\* A step that is not the stager's: no row is leased or referenced that was not
\* before, and the collector goes on to remove a path only when it holds its
\* lock and saw no row of it.
Beside ==
    /\ UNCHANGED <<next, stager, held>> /\ cleanup' \subseteq Paths
    /\ row' \in [Ids -> Rows] /\ file' \in [Paths -> {"none", "new", "old"}]
    /\ \A i \in Ids : \/ row'[i] = row[i]
                      \/ row'[i].state # "referenced" /\ (Lease(i)' => ~row'[i].live)
    /\ gc' \in GcRecords
    /\ gc'.pc \in {"unlink", "complete"} => \E i \in Ids : gc'.at = Partial(i)
    /\ gc'.pc \in {"lock", "recheck", "remove"} => gc'.at \in Paths
    /\ gc'.pc \in {"recheck", "remove"} => gc'.at \notin held
    /\ gc'.pc = "remove" => \A c \in Contents : gc'.at = Final(c) => ~Referenced(c)

LEMMA BesideKeeps ==
  ASSUME ArtifactsInv, Beside
  PROVE  ArtifactsInv'
  <1>1. ArtifactTypes'
    BY DEF ArtifactsInv, ArtifactTypes, Beside, GcRecords
  <1>2. \A i \in Ids : Lease(i)' /\ row'[i].live => i <= next
    BY DEF ArtifactsInv, IdsInOrder, Beside, Lease, IsStaging
  <1>3. IdsInOrder'
    BY <1>2 DEF ArtifactsInv, IdsInOrder, Beside
  <1>4. PathLocks'
    BY DEF ArtifactsInv, PathLocks, Beside, Wanted
  <1>5. ASSUME NEW c \in Contents, Referenced(c)' PROVE Referenced(c)
    <2>1. PICK i \in Ids : row'[i] = [state |-> "referenced", content |-> c]
      BY <1>5 DEF Referenced
    <2>2. row'[i].state = "referenced"
      BY <2>1
    <2>3. row'[i] = row[i]
      BY <2>2 DEF Beside
    <2> QED BY <2>1, <2>3 DEF Referenced
  <1>6. OnlyOrphans'
    BY <1>5 DEF OnlyOrphans, Beside
  <1> QED BY <1>1, <1>3, <1>4, <1>6 DEF ArtifactsInv

\* The collector claims and unlinks what an expired lease left.
LEMMA ClaimsKeep ==
  ASSUME ArtifactsInv,
         \/ ClaimExpiredStaging \/ UnlinkExpired \/ CompleteClaimedStaging
         \/ \E i \in Ids : RenewGcClaim(i)
  PROVE  ArtifactsInv'
  <1>1. /\ row \in [Ids -> Rows] /\ file \in [Paths -> {"none", "new", "old"}] /\ gc \in GcRecords
        /\ cleanup \subseteq Paths /\ OnlyOrphans
    BY DEF ArtifactsInv, ArtifactTypes, GcRecords
  <1>2. CASE ClaimExpiredStaging
    <2>1. /\ gc' = [gc EXCEPT !.pc = "claimed", !.claims = {i \in Ids : Expired(i)}]
          /\ row' = [i \in Ids |-> IF Expired(i) THEN Staging("gc", TRUE) ELSE row[i]]
          /\ UNCHANGED <<file, next, stager, held, cleanup>>
      BY <1>2 DEF ClaimExpiredStaging
    <2>2. /\ Staging("gc", TRUE) \in Rows /\ Staging("gc", TRUE).state = "staging"
          /\ Staging("gc", TRUE).owner = "gc"
      BY StagingRows
    <2>3. /\ row' \in [Ids -> Rows]
          /\ \A i \in Ids : row'[i] = row[i] \/ row'[i] = Staging("gc", TRUE)
      BY <1>1, <2>1, <2>2
    <2>4. \A i \in Ids : \/ row'[i] = row[i]
                         \/ row'[i].state # "referenced" /\ (Lease(i)' => ~row'[i].live)
      BY <2>2, <2>3 DEF Lease, IsStaging
    <2>5. gc' \in GcRecords /\ gc'.pc = "claimed"
      BY <1>1, <2>1 DEF GcRecords, GcStates
    <2>6. Beside
      BY <1>1, <2>1, <2>3, <2>4, <2>5 DEF Beside
    <2> QED BY <2>6, BesideKeeps
  <1>3. ASSUME NEW i \in Ids, RenewGcClaim(i) PROVE ArtifactsInv'
    <2>1. /\ gc.pc = "claimed"
          /\ \/ gc' = [gc EXCEPT !.pc = "unlink", !.at = Partial(i)]
             \/ gc' = [gc EXCEPT !.claims = @ \ {i}]
          /\ UNCHANGED <<row, file, next, stager, held, cleanup>>
      BY <1>3 DEF RenewGcClaim
    <2>2. /\ gc' \in GcRecords
          /\ gc'.pc = "claimed" \/ (gc'.pc = "unlink" /\ gc'.at = Partial(i))
      <3>1. Partial(i) \in Paths
        BY PathFacts
      <3>2. CASE gc' = [gc EXCEPT !.pc = "unlink", !.at = Partial(i)]
        BY <1>1, <3>1, <3>2 DEF GcRecords, GcStates
      <3>3. CASE gc' = [gc EXCEPT !.claims = @ \ {i}]
        BY <1>1, <2>1, <3>3 DEF GcRecords, GcStates
      <3> QED BY <2>1, <3>2, <3>3
    <2>3. Beside
      BY <1>1, <2>1, <2>2 DEF Beside
    <2> QED BY <2>3, BesideKeeps
  <1>4. CASE UnlinkExpired
    <2>1. /\ gc.pc = "unlink" /\ gc' = [gc EXCEPT !.pc = "complete"]
          /\ file' = [file EXCEPT ![gc.at] = "none"]
          /\ UNCHANGED <<row, next, stager, held, cleanup>>
      BY <1>4 DEF UnlinkExpired
    <2>2. gc' \in GcRecords /\ gc'.pc = "complete" /\ gc'.at = gc.at
      BY <1>1, <2>1 DEF GcRecords, GcStates
    <2>3. \E i \in Ids : gc.at = Partial(i)
      BY <1>1, <2>1 DEF OnlyOrphans
    <2>4. Beside
      BY <1>1, <2>1, <2>2, <2>3 DEF Beside
    <2> QED BY <2>4, BesideKeeps
  <1>5. CASE CompleteClaimedStaging
    <2>1. /\ \/ /\ row' = [row EXCEPT ![gc.at[2]] = NoRow]
                /\ gc' = [gc EXCEPT !.pc = "claimed", !.claims = @ \ {gc.at[2]}, !.at = <<>>]
             \/ gc' = [gc EXCEPT !.pc = "failed"] /\ row' = row
          /\ UNCHANGED <<file, next, stager, held, cleanup>>
      BY <1>5 DEF CompleteClaimedStaging
    <2>2. gc' \in GcRecords /\ gc'.pc \in {"claimed", "failed"}
      BY <1>1, <2>1 DEF GcRecords, GcStates
    <2>3. /\ row' \in [Ids -> Rows]
          /\ \A i \in Ids : row'[i] = row[i] \/ row'[i] = NoRow
      BY <1>1, <2>1, StagingRows
    <2>4. \A i \in Ids : \/ row'[i] = row[i]
                         \/ row'[i].state # "referenced" /\ (Lease(i)' => ~row'[i].live)
      BY <2>3 DEF Lease, IsStaging, NoRow
    <2>5. Beside
      BY <1>1, <2>1, <2>2, <2>3, <2>4 DEF Beside
    <2> QED BY <2>5, BesideKeeps
  <1> QED BY <1>2, <1>3, <1>4, <1>5

\* The collector looks for files without a row, and looks again under the lock.
LEMMA OrphansKeep ==
  ASSUME ArtifactsInv,
         \/ ScanOrphans \/ LockOrphan \/ RecheckOrphan \/ RemoveOrphan \/ FinishScan
         \/ \E p \in Paths : CheckOrphan(p)
  PROVE  ArtifactsInv'
  <1>1. /\ row \in [Ids -> Rows] /\ file \in [Paths -> {"none", "new", "old"}] /\ gc \in GcRecords
        /\ cleanup \subseteq Paths /\ PathLocks
    BY DEF ArtifactsInv, ArtifactTypes, GcRecords
  <1>2. /\ UNCHANGED <<row, next, stager, held, cleanup>>
        /\ file' = file \/ file' = [file EXCEPT ![gc.at] = "none"]
    BY DEF ScanOrphans, LockOrphan, RecheckOrphan, RemoveOrphan, FinishScan, CheckOrphan
  <1>3. file' \in [Paths -> {"none", "new", "old"}]
    BY <1>1, <1>2
  <1>4. ASSUME NEW p, Skip(p) PROVE gc' \in GcRecords /\ gc'.pc = "scan"
    BY <1>1, <1>4 DEF Skip, GcRecords, GcStates
  <1>5. CASE \/ ScanOrphans \/ FinishScan \/ RemoveOrphan
             \/ \E p \in Paths : CheckOrphan(p) /\ gc'.pc # "lock"
    <2>1. gc' \in GcRecords /\ gc'.pc \in {"scan", "idle", "failed"}
      <3>1. CASE ScanOrphans
        <4>1. gc' = [gc EXCEPT !.pc = "scan", !.paths = OrphanCandidates] /\ OrphanCandidates \subseteq Paths
          BY <3>1 DEF ScanOrphans, OrphanCandidates
        <4> QED BY <1>1, <4>1 DEF GcRecords, GcStates
      <3>2. CASE FinishScan
        BY <3>2 DEF FinishScan, IdleGc, GcRecords, GcStates
      <3>3. CASE Skip(gc.at) \/ gc' = [gc EXCEPT !.pc = "failed"]
        BY <1>1, <1>4, <3>3 DEF GcRecords, GcStates
      <3>4. RemoveOrphan => Skip(gc.at) \/ gc' = [gc EXCEPT !.pc = "failed"]
        BY DEF RemoveOrphan
      <3>5. ASSUME NEW p \in Paths, CheckOrphan(p), gc'.pc # "lock"
            PROVE  Skip(p) \/ gc' = [gc EXCEPT !.pc = "failed"]
        <4>1. [gc EXCEPT !.pc = "lock", !.at = p].pc = "lock"
          BY <1>1 DEF GcRecords
        <4> QED BY <3>5, <4>1 DEF CheckOrphan
      <3>6. gc' = [gc EXCEPT !.pc = "failed"] => gc' \in GcRecords /\ gc'.pc = "failed"
        BY <1>1 DEF GcRecords, GcStates
      <3> QED BY <1>4, <1>5, <3>1, <3>2, <3>3, <3>4, <3>5, <3>6
    <2>2. Beside
      BY <1>1, <1>2, <1>3, <2>1 DEF Beside
    <2> QED BY <2>2, BesideKeeps
  <1>6. ASSUME NEW p \in Paths, CheckOrphan(p), gc'.pc = "lock" PROVE ArtifactsInv'
    <2>1. \/ gc' = [gc EXCEPT !.pc = "lock", !.at = p]
          \/ Skip(p) \/ gc' = [gc EXCEPT !.pc = "failed"]
      BY <1>6 DEF CheckOrphan
    <2>2. gc' = [gc EXCEPT !.pc = "failed"] => gc'.pc = "failed"
      BY <1>1 DEF GcRecords
    <2>3. gc' = [gc EXCEPT !.pc = "lock", !.at = p]
      BY <1>4, <1>6, <2>1, <2>2
    <2>4. gc' \in GcRecords /\ gc'.pc = "lock" /\ gc'.at = p
      BY <1>1, <2>3 DEF GcRecords, GcStates
    <2>5. Beside
      BY <1>1, <1>2, <1>3, <2>4 DEF Beside
    <2> QED BY <2>5, BesideKeeps
  <1>7. CASE LockOrphan
    <2>1. gc.pc = "lock" /\ gc.at \notin held /\ gc' = [gc EXCEPT !.pc = "recheck"]
      BY <1>7 DEF LockOrphan, Lockable
    <2>2. gc' \in GcRecords /\ gc'.pc = "recheck" /\ gc'.at = gc.at
      BY <1>1, <2>1 DEF GcRecords, GcStates
    <2>3. Beside
      BY <1>1, <1>2, <1>3, <2>1, <2>2 DEF Beside, PathLocks
    <2> QED BY <2>3, BesideKeeps
  <1>8. CASE RecheckOrphan
    <2>1. CASE RowExists(gc.at)
      <3>1. gc' \in GcRecords /\ gc'.pc = "scan"
        BY <1>4, <1>8, <2>1 DEF RecheckOrphan
      <3>2. Beside
        BY <1>1, <1>2, <1>3, <3>1 DEF Beside
      <3> QED BY <3>2, BesideKeeps
    <2>2. CASE ~RowExists(gc.at)
      <3>1. gc.pc = "recheck" /\ gc' = [gc EXCEPT !.pc = "remove"]
        BY <1>8, <2>2 DEF RecheckOrphan
      <3>2. gc' \in GcRecords /\ gc'.pc = "remove" /\ gc'.at = gc.at
        BY <1>1, <3>1 DEF GcRecords, GcStates
      <3>3. \A c \in Contents : gc.at = Final(c) => ~Referenced(c)
        BY <2>2, ReferencedHasPath
      <3>4. Beside
        BY <1>1, <1>2, <1>3, <3>1, <3>2, <3>3 DEF Beside, PathLocks
      <3> QED BY <3>4, BesideKeeps
    <2> QED BY <2>1, <2>2
  <1> QED BY <1>5, <1>6, <1>7, <1>8

\* The actor is deleted, and what it left is unlinked; leases expire and files
\* grow old.
LEMMA StorageKeeps ==
  ASSUME ArtifactsInv,
         \/ ReplaceActor \/ TimePasses \/ UNCHANGED vars
         \/ \E p \in Paths : RemoveDeletedArtifact(p)
  PROVE  ArtifactsInv'
  <1>1. /\ row \in [Ids -> Rows] /\ file \in [Paths -> {"none", "new", "old"}] /\ gc \in GcRecords
        /\ cleanup \subseteq Paths /\ PathLocks /\ OnlyOrphans
    BY DEF ArtifactsInv, ArtifactTypes, GcRecords
  <1>2. ASSUME UNCHANGED <<next, stager, held, gc>>, cleanup' \subseteq Paths,
               row' \in [Ids -> Rows], file' \in [Paths -> {"none", "new", "old"}],
               \A i \in Ids : \/ row'[i] = row[i]
                              \/ row'[i].state # "referenced" /\ (Lease(i)' => ~row'[i].live)
        PROVE  ArtifactsInv'
    <2>1. Beside
      BY <1>1, <1>2 DEF Beside, PathLocks, OnlyOrphans
    <2> QED BY <2>1, BesideKeeps
  <1>3. CASE ReplaceActor
    <2>1. /\ row' = [i \in Ids |-> NoRow]
          /\ cleanup' = cleanup \cup {PathOf(i) : i \in {i \in Ids : row[i] # NoRow}}
          /\ UNCHANGED <<file, next, stager, held, gc>>
      BY <1>3 DEF ReplaceActor
    <2>2. ASSUME NEW i \in Ids, row[i] # NoRow PROVE PathOf(i) \in Paths
      <3>1. CASE IsStaging(i)
        BY <3>1, PathFacts DEF PathOf
      <3>2. CASE ~IsStaging(i)
        <4>1. row[i] \in [state : {"referenced"}, content : Contents]
          <5>1. row[i] \in Rows
            BY <1>1
          <5>2. \A o \in {"stager", "gc"}, l \in BOOLEAN : Staging(o, l).state = "staging"
            BY StagingRows
          <5> QED BY <2>2, <3>2, <5>1, <5>2 DEF Rows, IsStaging
        <4> QED BY <3>2, <4>1, PathFacts DEF PathOf
      <3> QED BY <3>1, <3>2
    <2>3. cleanup' \subseteq Paths
      BY <1>1, <2>1, <2>2
    <2>4. /\ row' \in [Ids -> Rows]
          /\ \A i \in Ids : row'[i].state # "referenced" /\ ~Lease(i)'
      BY <2>1, StagingRows DEF Lease, IsStaging, NoRow
    <2> QED BY <1>1, <1>2, <2>1, <2>3, <2>4
  <1>4. ASSUME NEW p \in Paths, RemoveDeletedArtifact(p) \/ Age(p) PROVE ArtifactsInv'
    <2>1. /\ UNCHANGED <<row, next, stager, held, gc>> /\ cleanup' \subseteq Paths
          /\ file' \in [Paths -> {"none", "new", "old"}]
      BY <1>1, <1>4 DEF RemoveDeletedArtifact, Age
    <2> QED BY <1>1, <1>2, <2>1
  <1>5. ASSUME NEW i \in Ids, LeaseExpires(i) PROVE ArtifactsInv'
    <2>1. /\ IsStaging(i) /\ row' = [row EXCEPT ![i] = [row[i] EXCEPT !.live = FALSE]]
          /\ UNCHANGED <<file, next, stager, held, gc, cleanup>>
      BY <1>5 DEF LeaseExpires
    <2>2. PICK o \in {"stager", "gc"}, l \in BOOLEAN : row[i] = Staging(o, l)
      BY <1>1, <2>1, StagingRows DEF IsStaging
    <2>3. [Staging(o, l) EXCEPT !.live = FALSE] = Staging(o, FALSE)
      <3>1. \A x, y : [[state |-> "staging", owner |-> o, live |-> x] EXCEPT !.live = y]
                       = [state |-> "staging", owner |-> o, live |-> y]
        OBVIOUS
      <3> QED BY <3>1 DEF Staging
    <2>4. row' = [row EXCEPT ![i] = Staging(o, FALSE)]
      BY <2>1, <2>2, <2>3
    <2>5. /\ Staging(o, FALSE) \in Rows /\ Staging(o, FALSE).state = "staging"
          /\ Staging(o, FALSE).live = FALSE
      BY StagingRows
    <2>6. row' \in [Ids -> Rows] /\ row'[i] = Staging(o, FALSE)
          /\ \A j \in Ids \ {i} : row'[j] = row[j]
      BY <1>1, <2>4, <2>5
    <2>7. \A j \in Ids : \/ row'[j] = row[j]
                         \/ row'[j].state # "referenced" /\ (Lease(j)' => ~row'[j].live)
      BY <2>5, <2>6
    <2> QED BY <1>1, <1>2, <2>1, <2>6, <2>7
  <1>6. CASE UNCHANGED vars
    BY <1>1, <1>2, <1>6 DEF vars
  <1> QED BY <1>3, <1>4, <1>5, <1>6 DEF TimePasses

\* A new process has no stager, no collector, and no cleanup to go on with.
LEMMA RestartKeeps == ArtifactsInv /\ Restart => ArtifactsInv'
  <1> SUFFICES ASSUME ArtifactsInv, Restart PROVE ArtifactsInv'
    OBVIOUS
  <1>1. /\ stager' = IdleStager /\ held' = {} /\ gc' = IdleGc /\ cleanup' = {}
        /\ UNCHANGED <<row, file, next>>
    BY DEF Restart
  <1>2. /\ IdleStager.pc = "idle" /\ IdleGc.pc = "idle" /\ IdleGc \in GcRecords
        /\ IdleStager \in [pc : StagerStates, todo : Seq(Contents), items : Seq(Items)]
    BY DEF IdleStager, IdleGc, StagerStates, GcRecords, GcStates
  <1>3. ArtifactTypes'
    BY <1>1, <1>2 DEF ArtifactsInv, ArtifactTypes, GcRecords
  <1>4. IdsInOrder'
    BY <1>1, <1>2 DEF ArtifactsInv, IdsInOrder, Lease, IsStaging
  <1>5. PathLocks' /\ OnlyOrphans'
    BY <1>1, <1>2 DEF PathLocks, OnlyOrphans
  <1> QED BY <1>3, <1>4, <1>5 DEF ArtifactsInv

LEMMA ArtifactsInductive == ArtifactsInv /\ [Next]_vars => ArtifactsInv'
  <1> SUFFICES ASSUME ArtifactsInv, [Next]_vars PROVE ArtifactsInv'
    OBVIOUS
  <1>1. CASE \/ \E contents \in Batches : StageExecution(contents)
             \/ BeginStaging \/ CreatePartial \/ RenewStaging \/ FinishCopy
    BY <1>1, CopyingKeeps
  <1>2. CASE \/ \E p \in Paths : LockFinal(p)
             \/ \E k \in 1 .. MaxBatch : Publish(k)
             \/ LookAtFiles \/ CommitStagedExecution \/ StagingFails
    BY <1>2, PublishingKeeps
  <1>3. CASE \/ ClaimExpiredStaging \/ UnlinkExpired \/ CompleteClaimedStaging
             \/ \E i \in Ids : RenewGcClaim(i)
    BY <1>3, ClaimsKeep
  <1>4. CASE \/ ScanOrphans \/ LockOrphan \/ RecheckOrphan \/ RemoveOrphan \/ FinishScan
             \/ \E p \in Paths : CheckOrphan(p)
    BY <1>4, OrphansKeep
  <1>5. CASE \/ ReplaceActor \/ TimePasses \/ UNCHANGED vars
             \/ \E p \in Paths : RemoveDeletedArtifact(p)
    BY <1>5, StorageKeeps
  <1>6. CASE Restart
    BY <1>6, RestartKeeps
  <1> QED BY <1>1, <1>2, <1>3, <1>4, <1>5, <1>6 DEF Next, Stage, CollectGarbage

\* The locks of the final paths keep the stager and the collector apart: what
\* the collector is about to remove has no row and is not held.
THEOREM ArtifactsInvariant == Spec => []ArtifactsInv
  BY ArtifactsInit, ArtifactsInductive, PTL DEF Spec

-----------------------------------------------------------------------------
(* The files of committed rows.                                            *)

\* The final file of c is there, or the cleanup is what took it.
Kept(c) == OnDisk(Final(c)) \/ Final(c) \in swept

\* The files of the committed rows, and those that the stager has looked at and
\* is about to commit.
FilesInv ==
    /\ swept \subseteq Paths
    /\ \A c \in Contents : Referenced(c) => Kept(c)
    /\ stager.pc = "record" => \A item \in ToSet(stager.items) : Kept(item.content)

\* Nothing but the cleanup takes away a file that a row refers to or that the
\* stager is about to commit: the one the collector removes has no row, and the
\* stager does not hold its path.
LEMMA KeptStays ==
  ASSUME ArtifactsInv, [Next]_vars, NEW c \in Contents, Kept(c),
         Referenced(c) \/ (stager.pc = "record" /\ Final(c) \in Wanted)
  PROVE  Kept(c)'
  <1>1. /\ OnlyOrphans /\ PathLocks /\ file \in [Paths -> {"none", "new", "old"}]
        /\ Final(c) \in Paths
    BY PathFacts DEF ArtifactsInv, ArtifactTypes
  <1>2. ASSUME swept' = swept, file'[Final(c)] = file[Final(c)] \/ file'[Final(c)] # "none"
        PROVE  Kept(c)'
    BY <1>2 DEF Kept, OnDisk
  <1>3. ASSUME NEW p \in Paths, RemoveDeletedArtifact(p) PROVE Kept(c)'
    <2>1. /\ file' = [file EXCEPT ![p] = "none"]
          /\ swept' = IF OnDisk(p) THEN swept \cup {p} ELSE swept
      BY <1>3 DEF RemoveDeletedArtifact
    <2>2. CASE Final(c) = p
      BY <2>1, <2>2 DEF Kept
    <2>3. CASE Final(c) # p
      BY <1>1, <2>1, <2>3 DEF Kept, OnDisk
    <2> QED BY <2>2, <2>3
  <1>4. CASE UnlinkExpired
    <2>1. swept' = swept /\ file' = [file EXCEPT ![gc.at] = "none"]
      BY <1>4 DEF UnlinkExpired
    <2>2. PICK i \in Ids : gc.at = Partial(i)
      BY <1>1, <1>4 DEF OnlyOrphans, UnlinkExpired
    <2>3. file'[Final(c)] = file[Final(c)]
      BY <1>1, <2>1, <2>2, PathFacts
    <2> QED BY <1>2, <2>1, <2>3
  <1>5. CASE RemoveOrphan
    <2>1. swept' = swept /\ file' = [file EXCEPT ![gc.at] = "none"] /\ gc.pc = "remove"
      BY <1>5 DEF RemoveOrphan
    <2>2. gc.at # Final(c)
      <3>1. CASE Referenced(c)
        BY <1>1, <2>1, <3>1 DEF OnlyOrphans
      <3>2. CASE stager.pc = "record" /\ Final(c) \in Wanted
        BY <1>1, <2>1, <3>2 DEF PathLocks
      <3> QED BY <3>1, <3>2
    <2>3. file'[Final(c)] = file[Final(c)]
      BY <1>1, <2>1, <2>2
    <2> QED BY <1>2, <2>1, <2>3
  <1>6. ASSUME NEW k \in 1 .. MaxBatch, Publish(k) PROVE Kept(c)'
    <2> DEFINE item == stager.items[k]
               from == Partial(item.id)
               to == Final(item.content)
               kept == IF OnDisk(to) THEN file[to] ELSE file[from]
    <2>1. /\ OnDisk(from) /\ swept' = swept \ {to} /\ from # to /\ from # Final(c)
          /\ file' = [file EXCEPT ![from] = "none", ![to] = kept]
      <3>1. file' = [file EXCEPT ![from] = "none", ![to] = IF OnDisk(to) THEN @ ELSE file[from]]
        BY <1>6 DEF Publish
      <3>2. from # to /\ from # Final(c)
        BY PathFacts
      <3>3. OnDisk(from) /\ swept' = swept \ {to}
        BY <1>6 DEF Publish
      <3> QED BY <1>1, <3>1, <3>2, <3>3
    <2>2. kept # "none"
      BY <2>1 DEF OnDisk
    <2> HIDE DEF kept, from
    <2>3. CASE Final(c) = to
      <3>1. file'[Final(c)] = kept
        BY <1>1, <2>1, <2>3
      <3> QED BY <2>2, <3>1 DEF Kept, OnDisk
    <2>4. CASE Final(c) # to
      <3>1. file'[Final(c)] = file[Final(c)]
        BY <1>1, <2>1, <2>4
      <3> QED BY <2>1, <2>4, <3>1 DEF Kept, OnDisk
    <2> QED BY <2>3, <2>4
  <1>7. CASE CreatePartial \/ \E p \in Paths : Age(p)
    <2>1. swept' = swept /\ \E p, x : file' = [file EXCEPT ![p] = x] /\ x \in {"new", "old"}
      BY <1>7 DEF CreatePartial, Age
    <2>2. PICK p, x : file' = [file EXCEPT ![p] = x] /\ x \in {"new", "old"}
      BY <2>1
    <2>3. file'[Final(c)] = file[Final(c)] \/ file'[Final(c)] = x
      BY <1>1, <2>2
    <2> QED BY <1>2, <2>1, <2>2, <2>3
  <1>8. CASE \/ \E contents \in Batches : StageExecution(contents)
             \/ BeginStaging \/ RenewStaging \/ FinishCopy
             \/ \E p \in Paths : LockFinal(p)
             \/ LookAtFiles \/ CommitStagedExecution \/ StagingFails
    <2>1. UNCHANGED <<file, swept>>
      BY <1>8 DEF StageExecution, BeginStaging, RenewStaging, FinishCopy, LockFinal, LookAtFiles,
                  CommitStagedExecution, StagingFails
    <2> QED BY <1>2, <2>1
  <1>9. CASE \/ ClaimExpiredStaging \/ CompleteClaimedStaging
             \/ ScanOrphans \/ LockOrphan \/ RecheckOrphan \/ FinishScan
             \/ \E i \in Ids : RenewGcClaim(i) \/ LeaseExpires(i)
             \/ \E p \in Paths : CheckOrphan(p)
             \/ ReplaceActor \/ Restart \/ UNCHANGED vars
    <2>1. UNCHANGED <<file, swept>>
      BY <1>9 DEF ClaimExpiredStaging, CompleteClaimedStaging, ScanOrphans, LockOrphan, RecheckOrphan,
                  FinishScan, RenewGcClaim, LeaseExpires, CheckOrphan, ReplaceActor, Restart, vars
    <2> QED BY <1>2, <2>1
  <1> QED BY <1>3, <1>4, <1>5, <1>6, <1>7, <1>8, <1>9
          DEF Next, Stage, CollectGarbage, TimePasses

\* A reference is new only when the stager commits what it has looked at.
LEMMA ReferencesCome ==
  ASSUME ArtifactsInv, [Next]_vars, NEW c \in Contents, Referenced(c)'
  PROVE  \/ Referenced(c)
         \/ stager.pc = "record" /\ \E item \in ToSet(stager.items) : item.content = c
  <1>1. ArtifactTypes /\ row \in [Ids -> Rows]
    BY DEF ArtifactsInv, ArtifactTypes
  <1>2. PICK j \in Ids : row'[j] = [state |-> "referenced", content |-> c]
    BY DEF Referenced
  <1>3. row'[j].state = "referenced"
    BY <1>2
  <1>4. row'[j] = row[j] => Referenced(c)
    BY <1>2 DEF Referenced
  <1>5. CASE CommitStagedExecution
    BY <1>1, <1>5, CommittedRows DEF CommitStagedExecution
  <1>6. CASE \/ \E contents \in Batches : StageExecution(contents)
             \/ CreatePartial \/ FinishCopy \/ LookAtFiles \/ StagingFails
             \/ \E p \in Paths : LockFinal(p) \/ CheckOrphan(p) \/ RemoveDeletedArtifact(p) \/ Age(p)
             \/ \E k \in 1 .. MaxBatch : Publish(k)
             \/ UnlinkExpired \/ ScanOrphans \/ LockOrphan \/ RecheckOrphan \/ RemoveOrphan \/ FinishScan
             \/ \E i \in Ids : RenewGcClaim(i)
             \/ Restart \/ UNCHANGED vars
    <2>1. row' = row
      BY <1>6 DEF StageExecution, CreatePartial, FinishCopy, LookAtFiles, StagingFails, LockFinal,
                  CheckOrphan, RemoveDeletedArtifact, Age, Publish, UnlinkExpired, ScanOrphans, LockOrphan,
                  RecheckOrphan, RemoveOrphan, FinishScan, RenewGcClaim, Restart, vars
    <2> QED BY <1>4, <2>1
  <1>7. CASE BeginStaging
    <2>1. row' = [row EXCEPT ![next'] = Staging("stager", TRUE)]
      BY <1>7 DEF BeginStaging
    <2>2. Staging("stager", TRUE).state = "staging"
      BY DEF Staging
    <2>3. row'[j] = row[j]
      BY <1>1, <1>3, <2>1, <2>2
    <2> QED BY <1>4, <2>3
  <1>8. ASSUME NEW i \in Ids, NEW b \in BOOLEAN, IsStaging(i),
               row' = [row EXCEPT ![i] = [row[i] EXCEPT !.live = b]]
        PROVE  Referenced(c)
    <2>1. PICK o \in {"stager", "gc"}, l \in BOOLEAN : row[i] = Staging(o, l)
      BY <1>1, <1>8, StagingRows DEF IsStaging
    <2>2. [Staging(o, l) EXCEPT !.live = b].state = "staging"
      BY DEF Staging
    <2>3. row'[j] = row[j]
      BY <1>1, <1>3, <1>8, <2>1, <2>2
    <2> QED BY <1>4, <2>3
  <1>9. CASE RenewStaging
    <2>1. /\ Lease(next) /\ stager.pc = "copy"
          /\ row' = [row EXCEPT ![next] = [row[next] EXCEPT !.live = TRUE]]
      BY <1>9 DEF RenewStaging
    <2>2. next \in Ids
      BY <2>1, ArtifactsAssumption DEF ArtifactsInv, IdsInOrder, ArtifactTypes, Ids
    <2>3. IsStaging(next)
      BY <2>1 DEF Lease
    <2> QED BY <1>8, <2>1, <2>2, <2>3
  <1>10. CASE \E i \in Ids : LeaseExpires(i)
    BY <1>8, <1>10 DEF LeaseExpires
  <1>11. CASE ClaimExpiredStaging
    <2>1. row' = [i \in Ids |-> IF Expired(i) THEN Staging("gc", TRUE) ELSE row[i]]
      BY <1>11 DEF ClaimExpiredStaging
    <2>2. Staging("gc", TRUE).state = "staging"
      BY DEF Staging
    <2>3. row'[j] = row[j]
      BY <1>3, <2>1, <2>2
    <2> QED BY <1>4, <2>3
  <1>12. CASE CompleteClaimedStaging \/ ReplaceActor
    <2>1. \/ row' = [row EXCEPT ![gc.at[2]] = NoRow]
          \/ row' = row \/ row' = [i \in Ids |-> NoRow]
      BY <1>12 DEF CompleteClaimedStaging, ReplaceActor
    <2>2. NoRow.state # "referenced"
      BY DEF NoRow
    <2>3. row'[j] = row[j]
      BY <1>1, <1>3, <2>1, <2>2
    <2> QED BY <1>4, <2>3
  <1> QED BY <1>5, <1>6, <1>7, <1>9, <1>10, <1>11, <1>12
          DEF Next, Stage, CollectGarbage, TimePasses

\* Once the stager has looked at its files its record stays as it is until the
\* commit or the failure.
LEMMA LookedAt ==
  ASSUME ArtifactsInv, [Next]_vars, stager'.pc = "record"
  PROVE  \/ UNCHANGED stager
         \/ stager'.items = stager.items /\ \A item \in ToSet(stager.items) : Kept(item.content)'
  <1>1. /\ stager \in [pc : StagerStates, todo : Seq(Contents), items : Seq(Items)]
        /\ \A p : [stager EXCEPT !.pc = p] =
                    [pc |-> p, todo |-> stager.todo, items |-> stager.items]
    BY StagerFields DEF ArtifactsInv, ArtifactTypes
  <1>2. CASE LookAtFiles
    <2>1. /\ stager' = [stager EXCEPT !.pc = "record"] /\ file' = file
          /\ \A item \in ToSet(stager.items) : OnDisk(Final(item.content))
      BY <1>2 DEF LookAtFiles
    <2>2. stager'.items = stager.items
      BY <1>1, <2>1
    <2> QED BY <2>1, <2>2 DEF Kept, OnDisk
  <1>3. CASE \/ \E contents \in Batches : StageExecution(contents)
             \/ BeginStaging \/ CreatePartial \/ FinishCopy
             \/ \E p \in Paths : LockFinal(p)
             \/ CommitStagedExecution \/ StagingFails \/ Restart
    <2>1. \/ \E contents : stager' = [pc |-> "begin", todo |-> contents, items |-> <<>>]
          \/ \E pc \in {"create", "copy", "lock", "publish"} :
               stager' = [pc |-> pc, todo |-> stager.todo, items |-> stager.items]
          \/ \E pc \in {"lock", "begin"} : \E todo, items :
               stager' = [pc |-> pc, todo |-> todo, items |-> items]
          \/ stager' = [pc |-> "idle", todo |-> <<>>, items |-> <<>>]
      <3>1. CASE \E contents \in Batches : StageExecution(contents)
        BY <3>1 DEF StageExecution
      <3>2. CASE BeginStaging \/ CreatePartial
        BY <1>1, <3>2 DEF BeginStaging, CreatePartial
      <3>3. CASE FinishCopy
        BY <3>3 DEF FinishCopy
      <3>4. CASE \E p \in Paths : LockFinal(p)
        BY <1>1, <3>4 DEF LockFinal
      <3>5. CASE CommitStagedExecution \/ StagingFails \/ Restart
        BY <3>5 DEF CommitStagedExecution, StagingFails, Restart, IdleStager
      <3> QED BY <1>3, <3>1, <3>2, <3>3, <3>4, <3>5
    <2>2. stager'.pc # "record"
      BY <2>1
    <2> QED BY <2>2
  <1>4. ASSUME NEW k \in 1 .. MaxBatch, Publish(k) PROVE FALSE
    <2> DEFINE pc == IF k = Len(stager.items) THEN "commit" ELSE "publish"
    <2>1. stager' = [stager EXCEPT !.pc = pc, !.todo = Append(@, stager.items[k].content)]
      BY <1>4 DEF Publish
    <2>2. pc # "record"
      OBVIOUS
    <2> HIDE DEF pc
    <2>3. stager'.pc = pc
      BY <1>1, <2>1
    <2> QED BY <2>2, <2>3
  <1>5. CASE \/ RenewStaging \/ ClaimExpiredStaging \/ UnlinkExpired \/ CompleteClaimedStaging
             \/ ScanOrphans \/ LockOrphan \/ RecheckOrphan \/ RemoveOrphan \/ FinishScan
             \/ \E i \in Ids : RenewGcClaim(i) \/ LeaseExpires(i)
             \/ \E p \in Paths : CheckOrphan(p) \/ RemoveDeletedArtifact(p) \/ Age(p)
             \/ ReplaceActor \/ UNCHANGED vars
    BY <1>5 DEF RenewStaging, ClaimExpiredStaging, UnlinkExpired, CompleteClaimedStaging, ScanOrphans,
                LockOrphan, RecheckOrphan, RemoveOrphan, FinishScan, RenewGcClaim, LeaseExpires,
                CheckOrphan, RemoveDeletedArtifact, Age, ReplaceActor, vars
  <1> QED BY <1>2, <1>3, <1>4, <1>5 DEF Next, Stage, CollectGarbage, TimePasses

\* The cleanup takes only paths of rows there were.
LEMMA SweptPaths ==
  ASSUME ArtifactsInv, [Next]_vars, swept \subseteq Paths
  PROVE  swept' \subseteq Paths
  <1>1. swept' = swept \/ (\E p : swept' = swept \ {p}) \/ \E p \in Paths : swept' = swept \cup {p}
    BY DEF Next, Stage, CollectGarbage, TimePasses, vars,
           StageExecution, BeginStaging, CreatePartial, RenewStaging, FinishCopy, LockFinal, Publish,
           LookAtFiles, CommitStagedExecution, StagingFails,
           ClaimExpiredStaging, RenewGcClaim, UnlinkExpired, CompleteClaimedStaging, ScanOrphans,
           CheckOrphan, LockOrphan, RecheckOrphan, RemoveOrphan, FinishScan,
           ReplaceActor, RemoveDeletedArtifact, Restart, LeaseExpires, Age
  <1> QED BY <1>1

LEMMA FilesInductive == ArtifactsInv /\ FilesInv /\ [Next]_vars => FilesInv'
  <1> SUFFICES ASSUME ArtifactsInv, FilesInv, [Next]_vars PROVE FilesInv'
    OBVIOUS
  <1>1. swept' \subseteq Paths
    BY SweptPaths DEF FilesInv
  <1>2. ToSet(stager.items) \subseteq Items /\ \A item \in Items : item.content \in Contents
    <2>1. stager.items \in Seq(Items)
      BY StagerFields DEF ArtifactsInv
    <2>2. ToSet(stager.items) \subseteq Items
      BY <2>1 DEF ToSet
    <2> QED BY <2>2 DEF Items
  <1>3. ASSUME NEW item \in ToSet(stager.items), stager.pc = "record"
        PROVE  Kept(item.content)'
    <2>1. Final(item.content) \in Wanted
      BY <1>3 DEF Wanted
    <2>2. Kept(item.content)
      BY <1>3 DEF FilesInv
    <2> QED BY <1>2, <1>3, <2>1, <2>2, KeptStays
  <1>4. ASSUME NEW c \in Contents, Referenced(c)' PROVE Kept(c)'
    <2>1. CASE Referenced(c)
      BY <2>1, KeptStays DEF FilesInv
    <2>2. CASE ~Referenced(c)
      BY <1>3, <1>4, <2>2, ReferencesCome
    <2> QED BY <2>1, <2>2
  <1>5. ASSUME stager'.pc = "record", NEW item \in ToSet(stager'.items) PROVE Kept(item.content)'
    BY <1>3, <1>5, LookedAt
  <1> QED BY <1>1, <1>4, <1>5 DEF FilesInv

\* No row is lost to the collector: a committed row has its file, and what is
\* about to be committed too, unless the cleanup took it.
THEOREM FilesInvariant == Spec => []FilesInv
  <1>1. Init => FilesInv
    <2> SUFFICES ASSUME Init PROVE FilesInv
      OBVIOUS
    <2>1. stager.pc = "idle" /\ swept = {}
      BY DEF Init, IdleStager
    <2>2. \A c \in Contents : ~Referenced(c)
      BY DEF Init, Referenced, NoRow
    <2> QED BY <2>1, <2>2 DEF FilesInv
  <1> QED BY <1>1, ArtifactsInvariant, FilesInductive, PTL DEF Spec

-----------------------------------------------------------------------------
(* The theorems.                                                           *)

\* The rows, the directory and the tasks are well formed; ids are used in the
\* order in which they are taken, and never more than there are.
THEOREM ArtifactsTypeCorrect == Spec => []TypeOK
  <1>1. ArtifactsInv /\ FilesInv => TypeOK
    <2> SUFFICES ASSUME ArtifactsInv, FilesInv PROVE TypeOK
      OBVIOUS
    <2>1. next \in 0 .. MaxFiles
      BY ArtifactsAssumption DEF ArtifactsInv, ArtifactTypes, IdsInOrder
    <2>2. /\ stager.pc \in StagerStates /\ gc.pc \in GcStates
          /\ gc.claims \subseteq Ids /\ gc.paths \subseteq Paths
      BY DEF ArtifactsInv, ArtifactTypes
    <2> QED BY <2>1, <2>2 DEF ArtifactsInv, ArtifactTypes, IdsInOrder, PathLocks, TypeOK,
                              StagerStates, GcStates, FilesInv
  <1> QED BY <1>1, ArtifactsInvariant, FilesInvariant, PTL

\* The file of a committed row is there, in whatever order the steps of the
\* stager and of the collector come: only the cleanup after a deletion, which
\* takes no lock, can be what unlinked it since it was last published.
THEOREM ReferencedFileAlwaysStays == Spec => []ReferencedFileStays
  <1>1. FilesInv => ReferencedFileStays
    BY DEF FilesInv, Kept, ReferencedFileStays
  <1> QED BY <1>1, FilesInvariant, PTL

=============================================================================
