------------------------ MODULE GatewayDelivery_proofs ------------------------
(***************************************************************************)
(* Theorems about GatewayDelivery for every set of messages, chats and     *)
(* peers, every batch and every bound: type correctness, whose claim a     *)
(* delivery is under, what its row says of it, the order of chunks, and    *)
(* that nothing in doubt is sent again.                                    *)
(***************************************************************************)
EXTENDS GatewayDelivery, FiniteSetTheorems, FunctionTheorems, SequenceTheorems,
        WellFoundedInduction, TLAPS

USE AddressesAssumption, LimitsAssumption, BoundsAssumption
    DEF AddressesAssumption, LimitsAssumption, BoundsAssumption

-----------------------------------------------------------------------------
(* The inductive invariant.                                                *)

\* The queue is an order of the rows, a message goes to one address, it begins with
\* a row, and no row is marked safe to repeat, which only tests of the store do.
PlaceInv ==
    /\ \A i \in DOMAIN queue : queue[i] \in Rows
    /\ \A i, j \in DOMAIN queue : queue[i] = queue[j] => i = j
    /\ \A d, e \in Rows : SameMessage(d, e) => row[d].address = row[e].address

QueueInv ==
    /\ \A d \in Rows :
         /\ \E i \in DOMAIN queue : queue[i] = d
         /\ <<d[1], 0>> \in Rows
         /\ ~row[d].sourced => d[2] = 0
         /\ ~row[d].safe
    /\ PlaceInv

\* What has never been claimed was never sent; what has been, was claimed when
\* all of its message before it was delivered, which nothing undoes.
ChunkInv ==
    \A d \in Deliveries :
      /\ row[d].state \in {"absent", "pending"} => outcome[d] = "none"
      /\ row[d].state \notin {"absent", "pending"} =>
           \A e \in Predecessors(d) : row[e].state = "delivered"

OneInFlight ==
    \A d, e \in Rows :
      /\ row[d].address = row[e].address /\ row[d].sourced = row[e].sourced
      /\ row[d].state = "delivering" /\ row[e].state = "delivering"
      => d = e

\* The transition an answer leads to agrees with what the transport said.
Says(answer, said) ==
    CASE answer = "delivered" -> said = "delivered"
      [] answer = "retryable" -> said = "retryable"
      [] answer = "terminal"  -> said \in {"none", "terminal", "retryable"}
      [] answer = "unknown"   -> TRUE

\* A task of the Telegram worker holds the claim of its row until it records.
TgHolds(d) ==
    /\ tg.task[d].claim.of = d /\ Fence(tg.task[d].claim) /\ row[d].address \in Chats
    /\ tg.task[d].step = "queued" => outcome[d] \in {"none", "retryable"}
    /\ tg.task[d].step = "answered" => Says(tg.task[d].answer, outcome[d])

TgInv ==
    /\ tg.pc # "batch" => \A d \in Deliveries : tg.task[d].step = "none"
    /\ \A d \in Deliveries : tg.task[d].step # "done" /\ (tg.task[d].step # "none" => TgHolds(d))

\* So does the Reticulum worker from its claim query to its transition.
RnHolds ==
    /\ Sending \in Deliveries /\ Fence(rn.claim) /\ row[Sending].address \in Peers
    /\ rn.pc \in {"claimed", "guarded"} => outcome[Sending] \in {"none", "retryable"}
    /\ rn.pc = "answered" => Says(rn.answer, outcome[Sending])
    /\ rn.pc = "lost" => rn.answer = "unknown"

RnInv ==
    /\ rn.pc \in {"claimed", "guarded", "awaiting", "answered", "lost"} => RnHolds
    /\ rn.active # NoClaim => rn.active.of \in Rows /\ row[rn.active.of].address \in Peers

GatewayInv ==
    /\ TypeOK
    /\ QueueInv
    /\ ChunkInv
    /\ OneInFlight
    /\ RowTellsOutcome
    /\ TgInv
    /\ RnInv

-----------------------------------------------------------------------------
(* Rows and tasks.                                                         *)

RowStates == {"absent", "pending", "delivering", "delivered", "failed_retryable",
              "failed_terminal", "outcome_unknown"}

LEMMA UnclaimedRow ==
    ASSUME NEW r \in RowRecords, NEW state \in RowStates
    PROVE  /\ Unclaimed(r, state) \in RowRecords
           /\ Unclaimed(r, state).state = state
           /\ Unclaimed(r, state).address = r.address
           /\ Unclaimed(r, state).sourced = r.sourced
           /\ Unclaimed(r, state).safe = r.safe
           /\ Unclaimed(r, state).attempts = r.attempts
<1>1. Unclaimed(r, state).state = state /\ Unclaimed(r, state).owner = "none"
      /\ Unclaimed(r, state).renewals = 0
  BY DEF Unclaimed, RowRecords
<1>2. /\ Unclaimed(r, state).address = r.address /\ Unclaimed(r, state).sourced = r.sourced
      /\ Unclaimed(r, state).safe = r.safe /\ Unclaimed(r, state).attempts = r.attempts
  BY DEF Unclaimed, RowRecords
<1>3. Unclaimed(r, state) \in RowRecords
  BY DEF Unclaimed, RowRecords, RowStates
<1> QED
  BY <1>1, <1>2, <1>3

LEMMA InsertedRow ==
    ASSUME NEW a \in Addresses, NEW sourced \in BOOLEAN
    PROVE  /\ NewRow(a, sourced) \in RowRecords
           /\ NewRow(a, sourced).state = "pending" /\ NewRow(a, sourced).address = a
           /\ NewRow(a, sourced).sourced = sourced /\ NewRow(a, sourced).safe = FALSE
BY DEF NewRow, RowRecords

LEMMA ClaimedRow ==
    ASSUME NEW r \in RowRecords,
           NEW c, c = [r EXCEPT !.state = "delivering", !.attempts = @ + 1, !.owner = "live",
                                !.renewals = 0]
    PROVE  /\ c \in RowRecords
           /\ c.state = "delivering" /\ c.owner = "live" /\ c.renewals = 0
           /\ c.address = r.address /\ c.sourced = r.sourced /\ c.safe = r.safe
           /\ c.attempts = r.attempts + 1
<1>1. c.state = "delivering" /\ c.owner = "live" /\ c.renewals = 0
  BY DEF RowRecords
<1>2. /\ c.address = r.address /\ c.sourced = r.sourced
      /\ c.safe = r.safe /\ c.attempts = r.attempts + 1
  BY DEF RowRecords
<1>3. c \in RowRecords
  <2>1. \A n \in Nat : [r EXCEPT !.state = "delivering", !.attempts = n, !.owner = "live",
                               !.renewals = 0] \in RowRecords
    BY DEF RowRecords
  <2>2. r.attempts + 1 \in Nat
    BY DEF RowRecords
  <2> QED
    BY <2>1, <2>2
<1> QED
  BY <1>1, <1>2, <1>3

LEMMA RenewedRow ==
    ASSUME row \in [Deliveries -> RowRecords], NEW d \in Deliveries
    PROVE  /\ Renewed(d) \in [Deliveries -> RowRecords]
           /\ \A e \in Deliveries : e # d => Renewed(d)[e] = row[e]
           /\ Renewed(d)[d].renewals = row[d].renewals + 1
           /\ Renewed(d)[d].state = row[d].state /\ Renewed(d)[d].owner = row[d].owner
           /\ Renewed(d)[d].address = row[d].address /\ Renewed(d)[d].sourced = row[d].sourced
           /\ Renewed(d)[d].safe = row[d].safe /\ Renewed(d)[d].attempts = row[d].attempts
BY DEF Renewed, RowRecords

\* The state that an answer leaves a row in.
Ends(answer) ==
    CASE answer = "delivered" -> "delivered"
      [] answer = "retryable" -> "failed_retryable"
      [] answer = "terminal"  -> "failed_terminal"
      [] answer = "unknown"   -> "outcome_unknown"

LEMMA TransitionRow ==
    ASSUME row \in [Deliveries -> RowRecords], NEW d \in Deliveries, NEW answer \in Answers,
           TransitionClaim(d, answer)
    PROVE  /\ row' \in [Deliveries -> RowRecords]
           /\ \A e \in Deliveries : e # d => row'[e] = row[e]
           /\ row'[d].state = Ends(answer) /\ Ends(answer) \in RowStates
           /\ row'[d].address = row[d].address /\ row'[d].sourced = row[d].sourced
           /\ row'[d].safe = row[d].safe /\ row'[d].attempts = row[d].attempts
<1>1. row[d] \in RowRecords
  OBVIOUS
<1>2. Ends(answer) \in RowStates
  BY DEF Ends, Answers, RowStates
<1>3. row' = [row EXCEPT ![d] = Unclaimed(row[d], Ends(answer))]
  BY DEF TransitionClaim, Ends, Answers
<1>4. row'[d] = Unclaimed(row[d], Ends(answer)) /\ \A e \in Deliveries : e # d => row'[e] = row[e]
  BY <1>3
<1> QED
  BY <1>1, <1>2, <1>3, <1>4, UnclaimedRow

LEMMA TaskChange ==
    ASSUME TypeOK, NEW d \in Deliveries, NEW t \in TaskRecords,
           NEW b \in BOOLEAN, tg' = [tg EXCEPT !.task[d] = t, !.broken = b]
    PROVE  /\ tg' \in [pc : {"idle", "batch", "stopped", "failed"}, broken : BOOLEAN,
                       task : [Deliveries -> TaskRecords]]
           /\ tg'.pc = tg.pc /\ tg'.task[d] = t
           /\ \A e \in Deliveries : e # d => tg'.task[e] = tg.task[e]
BY DEF TypeOK

LEMMA NoTaskRecord == NoTask \in TaskRecords /\ NoTask.step = "none"
BY DEF NoTask, TaskRecords, Answers

-----------------------------------------------------------------------------
(* What a step may do to the rows.                                         *)

Tells(r, o) ==
    /\ r.state = "delivered" => o = "delivered"
    /\ r.state = "failed_terminal" => o \in {"none", "terminal", "retryable"}
    /\ r.state \in Waiting => o \in {"none", "retryable"}
    /\ o = "doubt" => r.state \in {"delivering", "outcome_unknown"}

SameAddress(d) ==
    /\ row'[d].address = row[d].address /\ row'[d].sourced = row[d].sourced
    /\ ~row[d].safe => ~row'[d].safe

\* The row says what it said; only of a claimed delivery does the transport speak.
Keeps(d) ==
    /\ SameAddress(d) /\ row'[d].state = row[d].state
    /\ outcome'[d] = outcome[d] \/ row[d].state = "delivering"

\* A claim ends, in a state that tells the outcome.
Closes(d) ==
    /\ SameAddress(d) /\ row[d].state = "delivering"
    /\ row'[d].state \notin {"absent", "pending", "delivering"}
    /\ Tells(row'[d], outcome'[d])

LEMMA PlacesKept ==
    ASSUME PlaceInv, queue' = queue, Rows' = Rows, \A d \in Deliveries : SameAddress(d)
    PROVE  PlaceInv'
<1>1. \A d \in Rows : row'[d].address = row[d].address
  BY DEF SameAddress, Rows
<1> QED
  BY <1>1 DEF PlaceInv, SameMessage

LEMMA RowsKept ==
    ASSUME QueueInv, ChunkInv, OneInFlight, RowTellsOutcome, queue' = queue,
           \A d \in Deliveries : Keeps(d) \/ Closes(d)
    PROVE  QueueInv' /\ ChunkInv' /\ OneInFlight' /\ RowTellsOutcome'
<1>1. Rows' = Rows
  BY DEF Rows, Keeps, Closes
<1>2. \A d \in Deliveries : SameAddress(d)
  BY DEF Keeps, Closes
<1>3. \A d \in Deliveries : Predecessors(d)' = Predecessors(d)
  BY <1>1 DEF Predecessors, SameMessage
<1>4. QueueInv'
  BY <1>1, <1>2, PlacesKept DEF QueueInv, Rows, SameAddress
<1>5. ChunkInv'
  <2> SUFFICES ASSUME NEW d \in Deliveries
               PROVE  /\ row'[d].state \in {"absent", "pending"} => outcome'[d] = "none"
                      /\ row'[d].state \notin {"absent", "pending"} =>
                           \A e \in Predecessors(d) : row'[e].state = "delivered"
    BY <1>3 DEF ChunkInv
  <2>1. row[d].state \in {"absent", "pending"} => outcome[d] = "none"
    BY DEF ChunkInv
  <2>2. row'[d].state \in {"absent", "pending"} => outcome'[d] = "none"
    BY <2>1 DEF Keeps, Closes
  <2>3. ASSUME row'[d].state \notin {"absent", "pending"}, NEW e \in Predecessors(d)
        PROVE  row'[e].state = "delivered"
    <3>1. e \in Deliveries
      BY DEF Predecessors, Rows
    <3>2. row[d].state \notin {"absent", "pending"}
      BY <2>3 DEF Keeps, Closes
    <3>3. row[e].state = "delivered"
      BY <3>2, <2>3 DEF ChunkInv
    <3> QED
      BY <3>1, <3>3 DEF Keeps, Closes
  <2> QED
    BY <2>2, <2>3
<1>6. OneInFlight'
  <2> SUFFICES ASSUME NEW d \in Rows, NEW e \in Rows,
                      row'[d].address = row'[e].address, row'[d].sourced = row'[e].sourced,
                      row'[d].state = "delivering", row'[e].state = "delivering"
               PROVE  d = e
    BY <1>1 DEF OneInFlight
  <2>1. d \in Deliveries /\ e \in Deliveries
    BY DEF Rows
  <2>2. row[d].state = "delivering" /\ row[e].state = "delivering"
    BY <2>1 DEF Keeps, Closes
  <2>3. row[d].address = row[e].address /\ row[d].sourced = row[e].sourced
    BY <2>1, <1>2 DEF SameAddress
  <2> QED
    BY <2>2, <2>3 DEF OneInFlight
<1>7. RowTellsOutcome'
  <2> SUFFICES ASSUME NEW d \in Rows PROVE Tells(row'[d], outcome'[d])
    BY <1>1 DEF RowTellsOutcome, Tells
  <2>1. d \in Deliveries /\ Tells(row[d], outcome[d])
    BY DEF Rows, RowTellsOutcome, Tells
  <2>2. CASE Keeps(d) /\ outcome'[d] = outcome[d]
    BY <2>1, <2>2 DEF Keeps, Tells
  <2>3. CASE Keeps(d) /\ row[d].state = "delivering"
    BY <2>3 DEF Keeps, Tells, Waiting
  <2>4. CASE Closes(d)
    BY <2>4 DEF Closes
  <2> QED
    BY <2>1, <2>2, <2>3, <2>4 DEF Keeps
<1> QED
  BY <1>4, <1>5, <1>6, <1>7

\* A claimed delivery of these addresses is left as it was.
Untouched(gateway) ==
    \A d \in Deliveries :
      row[d].state = "delivering" /\ row[d].address \in gateway =>
        row'[d] = row[d] /\ outcome'[d] = outcome[d]

LEMMA TgFrame ==
    ASSUME TgInv, tg' = tg, Untouched(Chats)
    PROVE  TgInv'
<1> SUFFICES ASSUME NEW d \in Deliveries, tg.task[d].step # "none"
             PROVE  TgHolds(d)'
  BY DEF TgInv
<1>1. TgHolds(d)
  BY DEF TgInv
<1>2. row'[d] = row[d] /\ outcome'[d] = outcome[d]
  BY <1>1 DEF TgHolds, Fence, Untouched
<1> QED
  BY <1>1, <1>2 DEF TgHolds, Fence, ClaimOf

LEMMA RnFrame ==
    ASSUME RnInv, rn' = rn, Untouched(Peers),
           \A d \in Rows : d \in Rows' /\ row'[d].address = row[d].address
    PROVE  RnInv'
<1>1. ASSUME RnHolds PROVE RnHolds'
  <2>1. row'[Sending] = row[Sending] /\ outcome'[Sending] = outcome[Sending]
    <3>1. Sending \in Deliveries /\ Sending = rn.claim.of
      BY <1>1 DEF RnHolds, Sending
    <3> QED
      BY <1>1, <3>1 DEF RnHolds, Fence, Untouched
  <2> QED
    BY <1>1, <2>1 DEF RnHolds, Fence, ClaimOf, Sending
<1>2. rn.active # NoClaim => rn.active.of \in Rows' /\ row'[rn.active.of].address \in Peers
  BY DEF RnInv
<1> QED
  BY <1>1, <1>2 DEF RnInv

\* One task moves.
LEMMA TgMove ==
    ASSUME TgInv, NEW d \in Deliveries, tg.task[d].step # "none", tg'.pc = tg.pc,
           \A e \in Deliveries : e # d =>
             /\ tg'.task[e] = tg.task[e] /\ row'[e] = row[e] /\ outcome'[e] = outcome[e],
           tg'.task[d].step # "done", tg'.task[d].step # "none" => TgHolds(d)'
    PROVE  TgInv'
<1>1. tg.pc = "batch"
  BY DEF TgInv
<1>2. ASSUME NEW e \in Deliveries, e # d, tg'.task[e].step # "none"
      PROVE  TgHolds(e)' /\ tg'.task[e].step # "done"
  <2>1. TgHolds(e) /\ tg.task[e].step # "done"
    BY <1>2 DEF TgInv
  <2>2. tg'.task[e] = tg.task[e] /\ row'[e] = row[e] /\ outcome'[e] = outcome[e]
    BY <1>2
  <2> QED
    BY <2>1, <2>2 DEF TgHolds, Fence, ClaimOf
<1>3. \A e \in Deliveries : tg'.task[e].step # "done" /\ (tg'.task[e].step # "none" => TgHolds(e)')
  BY <1>2
<1> QED
  BY <1>1, <1>3 DEF TgInv

-----------------------------------------------------------------------------
(* The steps of the Telegram worker.                                       *)

LEMMA HeldTask ==
    ASSUME GatewayInv, NEW d \in Deliveries, tg.task[d].step # "none"
    PROVE  /\ TgHolds(d) /\ row[d].state = "delivering" /\ row[d].address \in Chats
           /\ ~row[d].safe /\ d \in Rows
<1>1. TgHolds(d) /\ row[d].state = "delivering" /\ row[d].address \in Chats
  BY DEF GatewayInv, TgInv, TgHolds, Fence
<1>2. d \in Rows
  BY <1>1 DEF Rows
<1> QED
  BY <1>1, <1>2 DEF GatewayInv, QueueInv

\* A step that moves one task, and with it at most the row and the outcome of its delivery.
LEMMA TaskKeepsInv ==
    ASSUME GatewayInv, NEW d \in Deliveries, tg.task[d].step # "none",
           NEW t \in TaskRecords, NEW b \in BOOLEAN,
           tg' = [tg EXCEPT !.task[d] = t, !.broken = b],
           t.step # "done", t.step # "none" => TgHolds(d)',
           row' \in [Deliveries -> RowRecords], outcome' \in [Deliveries -> Outcomes],
           faults' \in Nat, UNCHANGED <<queue, rn, process, stops>>,
           \A e \in Deliveries : e # d => row'[e] = row[e] /\ outcome'[e] = outcome[e],
           Keeps(d) \/ Closes(d)
    PROVE  GatewayInv'
<1>1. /\ tg' \in [pc : {"idle", "batch", "stopped", "failed"}, broken : BOOLEAN,
                  task : [Deliveries -> TaskRecords]]
      /\ tg'.pc = tg.pc /\ tg'.task[d] = t
      /\ \A e \in Deliveries : e # d => tg'.task[e] = tg.task[e]
  BY TaskChange DEF GatewayInv
<1>2. TypeOK'
  BY <1>1 DEF GatewayInv, TypeOK
<1>3. \A e \in Deliveries : Keeps(e) \/ Closes(e)
  BY DEF Keeps, SameAddress
<1>4. QueueInv' /\ ChunkInv' /\ OneInFlight' /\ RowTellsOutcome'
  BY <1>3, RowsKept DEF GatewayInv
<1>5. TgInv'
  BY <1>1, TgMove DEF GatewayInv
<1>6. Untouched(Peers)
  <2>1. row[d].address \notin Peers
    BY HeldTask
  <2> QED
    BY <2>1 DEF Untouched
<1>7. \A e \in Rows : e \in Rows' /\ row'[e].address = row[e].address
  BY <1>3 DEF Keeps, Closes, SameAddress, Rows
<1>8. RnInv'
  BY <1>6, <1>7, RnFrame DEF GatewayInv
<1> QED
  BY <1>2, <1>4, <1>5, <1>8 DEF GatewayInv

LEMMA TgDeliverKeepsInv ==
    ASSUME GatewayInv, NEW d \in Deliveries, TgDeliver(d)
    PROVE  GatewayInv'
<1>1. tg.task[d].step = "queued" /\ tg.task[d] \in TaskRecords /\ tg.broken \in BOOLEAN
  BY DEF TgDeliver, GatewayInv, TypeOK
<1>2. /\ TgHolds(d) /\ row[d].state = "delivering" /\ row[d].address \in Chats
      /\ ~row[d].safe /\ Fence(tg.task[d].claim)
  BY <1>1, HeldTask DEF TgHolds
<1>3. row \in [Deliveries -> RowRecords] /\ outcome \in [Deliveries -> Outcomes] /\ faults \in Nat
  BY DEF GatewayInv, TypeOK
<1> DEFINE claim == [tg.task[d].claim EXCEPT !.renewals = @ + 1]
<1>4. tg.task[d].claim = ClaimOf(d) /\ tg.task[d].claim \in Claims
  BY <1>2, <1>3 DEF TgHolds, Fence, ClaimOf, Claims, RowRecords
<1>5. claim \in Claims /\ claim.of = d /\ claim.attempt = row[d].attempts
      /\ claim.renewals = row[d].renewals + 1
  BY <1>4, <1>3 DEF ClaimOf, Claims, RowRecords
<1>6. claim = [of |-> d, attempt |-> row[d].attempts, renewals |-> row[d].renewals + 1]
  BY <1>5 DEF Claims
<1> HIDE DEF claim
<1>7. PICK step \in {"first", "answered"}, answer \in {"unknown", "terminal"} :
        /\ row' = Renewed(d)
        /\ TgTask(d, [step |-> step, claim |-> claim, answer |-> answer])
        /\ outcome' = [outcome EXCEPT ![d] = "doubt"] \/ UNCHANGED outcome
        /\ step = "answered" => answer = "terminal" /\ UNCHANGED outcome
  BY <1>2 DEF TgDeliver, claim
<1> DEFINE t == [step |-> step, claim |-> claim, answer |-> answer]
<1>8. t \in TaskRecords
  BY <1>5 DEF TaskRecords, Answers
<1>9. tg' = [tg EXCEPT !.task[d] = t, !.broken = tg.broken]
  BY <1>7 DEF TgTask, GatewayInv, TypeOK
<1>10. /\ row' \in [Deliveries -> RowRecords]
       /\ \A e \in Deliveries : e # d => row'[e] = row[e]
       /\ row'[d].renewals = row[d].renewals + 1
       /\ row'[d].state = row[d].state /\ row'[d].owner = row[d].owner
       /\ row'[d].address = row[d].address /\ row'[d].sourced = row[d].sourced
       /\ row'[d].safe = row[d].safe /\ row'[d].attempts = row[d].attempts
  BY <1>7, <1>3, RenewedRow
<1>11. /\ outcome' \in [Deliveries -> Outcomes]
       /\ \A e \in Deliveries : e # d => outcome'[e] = outcome[e]
  BY <1>7, <1>3 DEF Outcomes
<1>12. Keeps(d)
  BY <1>10, <1>2 DEF Keeps, SameAddress
<1>13. TgHolds(d)'
  <2>1. tg'.task[d] = t
    BY <1>9, <1>8, <1>1, TaskChange DEF GatewayInv
  <2>2. tg'.task[d].claim = claim /\ tg'.task[d].step = step /\ tg'.task[d].answer = answer
    BY <2>1
  <2>4. row'[d].state = "delivering" /\ row'[d].owner = "live"
    BY <1>10, <1>2, <1>4 DEF Fence, ClaimOf
  <2>5. Fence(tg.task[d].claim)'
    BY <2>2, <2>4, <1>10, <1>6 DEF Fence, ClaimOf
  <2>3. step = "answered" => Says(answer, outcome'[d])
    BY <1>7, <1>1, <1>2 DEF Says, TgHolds
  <2> QED
    BY <2>2, <2>3, <2>5, <1>5, <1>10, <1>2, <1>7 DEF TgHolds
<1>14. UNCHANGED <<queue, rn, process, faults, stops>>
  BY DEF TgDeliver
<1> HIDE DEF t
<1> QED
  BY <1>1, <1>3, <1>8, <1>9, <1>10, <1>11, <1>12, <1>13, <1>14, TaskKeepsInv DEF t

LEMMA TgRenewKeepsInv ==
    ASSUME GatewayInv, NEW d \in Deliveries, TgRenew(d)
    PROVE  GatewayInv'
<1>1. tg.task[d].step \in {"first", "plain"} /\ tg.task[d] \in TaskRecords /\ tg.broken \in BOOLEAN
  BY DEF TgRenew, GatewayInv, TypeOK
<1>2. /\ TgHolds(d) /\ row[d].state = "delivering" /\ row[d].address \in Chats
      /\ ~row[d].safe /\ Fence(tg.task[d].claim)
  BY <1>1, HeldTask DEF TgHolds
<1>3. row \in [Deliveries -> RowRecords] /\ outcome \in [Deliveries -> Outcomes] /\ faults \in Nat
  BY DEF GatewayInv, TypeOK
<1>4. /\ tg.task[d].claim = ClaimOf(d) /\ tg.task[d].claim \in Claims
      /\ row[d].owner = "live"
  BY <1>2, <1>3 DEF TgHolds, Fence, ClaimOf, Claims, RowRecords
<1> DEFINE t == [tg.task[d] EXCEPT !.claim.renewals = @ + 1]
<1>5. t \in TaskRecords /\ t.step = tg.task[d].step /\ t.claim.renewals = row[d].renewals + 1
      /\ t.claim = [of |-> d, attempt |-> row[d].attempts, renewals |-> row[d].renewals + 1]
  <2>1. [tg.task[d].claim EXCEPT !.renewals = @ + 1] =
        [of |-> d, attempt |-> row[d].attempts, renewals |-> row[d].renewals + 1]
    BY <1>4 DEF ClaimOf
  <2>2. row[d].renewals + 1 \in Nat /\ row[d].attempts \in Nat
    BY <1>3 DEF RowRecords
  <2>3. [of |-> d, attempt |-> row[d].attempts, renewals |-> row[d].renewals + 1] \in Claims
    BY <2>2 DEF Claims
  <2>4. t = [tg.task[d] EXCEPT !.claim = [of |-> d, attempt |-> row[d].attempts,
                                         renewals |-> row[d].renewals + 1]]
    BY <2>1
  <2>5. t.claim = [of |-> d, attempt |-> row[d].attempts, renewals |-> row[d].renewals + 1]
        /\ t.step = tg.task[d].step /\ t.answer = tg.task[d].answer
    BY <2>4, <1>1 DEF TaskRecords
  <2>6. t \in TaskRecords
    BY <2>3, <2>4, <1>1 DEF TaskRecords
  <2> QED
    BY <2>5, <2>6
<1>6. tg' = [tg EXCEPT !.task[d] = t, !.broken = tg.broken] /\ row' = Renewed(d)
  BY <1>2 DEF TgRenew, GatewayInv, TypeOK
<1> HIDE DEF t
<1>7. /\ row' \in [Deliveries -> RowRecords]
      /\ \A e \in Deliveries : e # d => row'[e] = row[e]
      /\ row'[d].renewals = row[d].renewals + 1
      /\ row'[d].state = row[d].state /\ row'[d].owner = row[d].owner
      /\ row'[d].address = row[d].address /\ row'[d].sourced = row[d].sourced
      /\ row'[d].safe = row[d].safe /\ row'[d].attempts = row[d].attempts
  BY <1>6, <1>3, RenewedRow
<1>8. UNCHANGED <<queue, outcome, rn, process, faults, stops>>
  BY DEF TgRenew
<1>9. Keeps(d)
  BY <1>7, <1>8, <1>2 DEF Keeps, SameAddress
<1>10. TgHolds(d)'
  <2>1. tg'.task[d] = t
    BY <1>6, <1>5, <1>1, TaskChange DEF GatewayInv
  <2>2. Fence(tg.task[d].claim)'
    BY <2>1, <1>5, <1>7, <1>4, <1>2 DEF Fence, ClaimOf
  <2> QED
    BY <2>1, <2>2, <1>1, <1>5, <1>7, <1>2 DEF TgHolds
<1> QED
  BY <1>1, <1>3, <1>5, <1>6, <1>7, <1>8, <1>9, <1>10, TaskKeepsInv

\* A task that moves without its row.
LEMMA TaskMovesAlone ==
    ASSUME GatewayInv, NEW d \in Deliveries, tg.task[d].step # "none",
           NEW t \in TaskRecords, t.step \in {"plain", "answered"},
           t.claim = tg.task[d].claim, TgTask(d, t),
           UNCHANGED <<queue, row, rn, process, stops>>, faults' \in Nat,
           NEW o \in Outcomes, outcome' = [outcome EXCEPT ![d] = o],
           t.step = "answered" => Says(t.answer, o)
    PROVE  GatewayInv'
<1>1. tg.broken \in BOOLEAN /\ TypeOK
  BY DEF GatewayInv, TypeOK
<1>2. TgHolds(d) /\ row[d].state = "delivering"
  BY HeldTask
<1>3. row \in [Deliveries -> RowRecords] /\ outcome \in [Deliveries -> Outcomes]
  BY DEF GatewayInv, TypeOK
<1>4. tg' = [tg EXCEPT !.task[d] = t, !.broken = tg.broken]
  BY DEF TgTask, GatewayInv, TypeOK
<1>5. /\ outcome' \in [Deliveries -> Outcomes] /\ outcome'[d] = o
      /\ \A e \in Deliveries : e # d => outcome'[e] = outcome[e]
  BY <1>3
<1>6. Keeps(d)
  BY <1>2 DEF Keeps, SameAddress
<1>7. TgHolds(d)'
  <2>1. tg'.task[d] = t
    BY <1>4, <1>1, TaskChange
  <2>2. Fence(tg.task[d].claim)'
    BY <2>1, <1>2 DEF Fence, ClaimOf, TgHolds
  <2> QED
    BY <2>1, <2>2, <1>2, <1>5 DEF TgHolds
<1> QED
  BY <1>1, <1>3, <1>4, <1>5, <1>6, <1>7, TaskKeepsInv

LEMMA TgAnswerKeepsInv ==
    ASSUME GatewayInv, NEW d \in Deliveries, NEW answer \in Answers, TgAnswer(d, answer)
    PROVE  GatewayInv'
<1> DEFINE o == IF answer = "unknown" THEN "doubt" ELSE answer
           t == [tg.task[d] EXCEPT !.step = "answered", !.answer = answer]
<1>1. o \in Outcomes /\ Says(answer, o)
  BY DEF Outcomes, Answers, Says
<1>2. tg.task[d].step # "none" /\ outcome' = [outcome EXCEPT ![d] = o] /\ TgTask(d, t)
  BY DEF TgAnswer, Answered
<1>3. t \in TaskRecords /\ t.step = "answered" /\ t.answer = answer
      /\ t.claim = tg.task[d].claim
  BY DEF GatewayInv, TypeOK, TaskRecords
<1>4. UNCHANGED <<queue, row, rn, process, stops>> /\ faults' \in Nat
  BY DEF TgAnswer, Answered, GatewayInv, TypeOK
<1> HIDE DEF o, t
<1> QED
  BY <1>1, <1>2, <1>3, <1>4, TaskMovesAlone

LEMMA TgFallBackKeepsInv ==
    ASSUME GatewayInv, NEW d \in Deliveries, TgFallBack(d)
    PROVE  GatewayInv'
<1> DEFINE t == [tg.task[d] EXCEPT !.step = "plain"]
<1>1. tg.task[d].step # "none" /\ outcome' = [outcome EXCEPT ![d] = "doubt"] /\ TgTask(d, t)
  BY DEF TgFallBack
<1>2. t \in TaskRecords /\ t.step = "plain" /\ t.claim = tg.task[d].claim
  BY DEF GatewayInv, TypeOK, TaskRecords
<1>3. UNCHANGED <<queue, row, rn, process, stops>> /\ faults' \in Nat
  BY DEF TgFallBack, GatewayInv, TypeOK
<1>4. "doubt" \in Outcomes
  BY DEF Outcomes
<1> HIDE DEF t
<1> QED
  BY <1>1, <1>2, <1>3, <1>4, TaskMovesAlone

\* The state an answer leads to tells what the transport said.
LEMMA AnswerTells ==
    ASSUME NEW answer \in Answers, NEW o \in Outcomes, Says(answer, o),
           NEW r, r.state = Ends(answer)
    PROVE  Tells(r, o) /\ r.state \notin {"absent", "pending", "delivering"}
BY DEF Answers, Says, Ends, Tells, Waiting

LEMMA TgRecordKeepsInv ==
    ASSUME GatewayInv, NEW d \in Deliveries, TgRecord(d)
    PROVE  GatewayInv'
<1>1. /\ tg.task[d].step = "answered" /\ tg.task[d].answer \in Answers /\ tg.broken \in BOOLEAN
  BY DEF TgRecord, GatewayInv, TypeOK, TaskRecords
<1>2. TgHolds(d) /\ row[d].state = "delivering" /\ Fence(tg.task[d].claim)
  BY <1>1, HeldTask DEF TgHolds
<1>3. row \in [Deliveries -> RowRecords] /\ outcome \in [Deliveries -> Outcomes] /\ faults \in Nat
  BY DEF GatewayInv, TypeOK
<1>4. TransitionClaim(d, tg.task[d].answer) /\ TgTask(d, NoTask)
  BY <1>2 DEF TgRecord
<1>5. UNCHANGED <<queue, outcome, rn, process, faults, stops>>
  BY DEF TgRecord
<1>6. tg' = [tg EXCEPT !.task[d] = NoTask, !.broken = tg.broken]
  BY <1>4 DEF TgTask, GatewayInv, TypeOK
<1>7. /\ row' \in [Deliveries -> RowRecords]
      /\ \A e \in Deliveries : e # d => row'[e] = row[e]
      /\ row'[d].state = Ends(tg.task[d].answer)
      /\ row'[d].address = row[d].address /\ row'[d].sourced = row[d].sourced
      /\ row'[d].safe = row[d].safe
  BY <1>1, <1>3, <1>4, TransitionRow
<1>8. Closes(d)
  <2>1. Says(tg.task[d].answer, outcome[d]) /\ outcome[d] \in Outcomes
    BY <1>1, <1>2, <1>3 DEF TgHolds
  <2>2. Tells(row'[d], outcome[d]) /\ row'[d].state \notin {"absent", "pending", "delivering"}
    BY <2>1, <1>1, <1>7, AnswerTells
  <2> QED
    BY <2>2, <1>2, <1>5, <1>7 DEF Closes, SameAddress
<1> QED
  BY <1>1, <1>3, <1>5, <1>6, <1>7, <1>8, NoTaskRecord, TaskKeepsInv

LEMMA TgStoreFailsKeepsInv ==
    ASSUME GatewayInv, NEW d \in Deliveries, TgStoreFails(d)
    PROVE  GatewayInv'
<1>1. tg.task[d].step # "none" /\ tg' = [tg EXCEPT !.task[d] = NoTask, !.broken = TRUE]
  BY DEF TgStoreFails
<1>2. UNCHANGED <<queue, row, outcome, rn, process, stops>> /\ faults' \in Nat
  BY DEF TgStoreFails, GatewayInv, TypeOK
<1>3. Keeps(d)
  BY <1>2 DEF Keeps, SameAddress
<1>4. row' \in [Deliveries -> RowRecords] /\ outcome' \in [Deliveries -> Outcomes]
  BY <1>2 DEF GatewayInv, TypeOK
<1> QED
  BY <1>1, <1>2, <1>3, <1>4, NoTaskRecord, TaskKeepsInv

LEMMA TgEndBatchKeepsInv ==
    ASSUME GatewayInv, TgEndBatch \/ TgStop
    PROVE  GatewayInv'
<1>1. UNCHANGED <<queue, row, outcome, rn, process, faults, stops>>
  BY DEF TgEndBatch, TgStop
<1>2. \A d \in Deliveries : tg.task[d].step = "none"
  BY DEF TgEndBatch, TgStop, GatewayInv, TgInv
<1>3. \A d \in Deliveries : tg'.task[d].step = "none"
  BY <1>2, NoTaskRecord DEF TgEndBatch, TgStop, TgStart, GatewayInv, TypeOK
<1>4. TgInv'
  BY <1>3 DEF TgInv
<1>5. tg' \in [pc : {"idle", "batch", "stopped", "failed"}, broken : BOOLEAN,
               task : [Deliveries -> TaskRecords]]
  <2>1. \/ tg' = [TgStart EXCEPT !.pc = "idle"] \/ tg' = [TgStart EXCEPT !.pc = "failed"]
        \/ tg' = [tg EXCEPT !.pc = "stopped"]
    BY DEF TgEndBatch, TgStop
  <2> DEFINE tasks == [d \in Deliveries |-> NoTask]
  <2>2. tasks \in [Deliveries -> TaskRecords]
    BY NoTaskRecord
  <2>3. TgStart = [pc |-> "idle", broken |-> FALSE, task |-> tasks]
    BY DEF TgStart
  <2> HIDE DEF tasks
  <2>4. [tg EXCEPT !.pc = "stopped"] \in
          [pc : {"idle", "batch", "stopped", "failed"}, broken : BOOLEAN,
           task : [Deliveries -> TaskRecords]]
    BY DEF GatewayInv, TypeOK
  <2> QED
    BY <2>1, <2>2, <2>3, <2>4
<1>6. TypeOK'
  BY <1>1, <1>5 DEF GatewayInv, TypeOK
<1>7. \A d \in Deliveries : Keeps(d)
  BY <1>1 DEF Keeps, SameAddress
<1>8. QueueInv' /\ ChunkInv' /\ OneInFlight' /\ RowTellsOutcome'
  BY <1>1, <1>7, RowsKept DEF GatewayInv
<1>9. RnInv'
  BY <1>1, RnFrame DEF GatewayInv, Untouched, Rows
<1> QED
  BY <1>4, <1>6, <1>8, <1>9 DEF GatewayInv

-----------------------------------------------------------------------------
(* The steps of the Reticulum worker.                                      *)

RnRecords ==
    [pc : {"idle", "claimed", "guarded", "awaiting", "answered", "lost", "recorded",
           "recorded_lost", "cleanup", "cleanup_failed", "stopped", "failed"},
     claim : Claims \cup {NoClaim}, active : Claims \cup {NoClaim}, answer : Answers]

\* A step that moves the worker, and with it at most one row and outcome.
LEMMA WorkerKeepsInv ==
    ASSUME GatewayInv, rn' \in RnRecords, RnInv', NEW d \in Deliveries, d \in Rows,
           row[d].address \in Peers \/ (row'[d] = row[d] /\ outcome'[d] = outcome[d]),
           row' \in [Deliveries -> RowRecords], outcome' \in [Deliveries -> Outcomes],
           faults' \in Nat, UNCHANGED <<queue, tg, process, stops>>,
           \A e \in Deliveries : e # d => row'[e] = row[e] /\ outcome'[e] = outcome[e],
           Keeps(d) \/ Closes(d)
    PROVE  GatewayInv'
<1>1. TypeOK'
  BY DEF GatewayInv, TypeOK, RnRecords
<1>2. \A e \in Deliveries : Keeps(e) \/ Closes(e)
  BY DEF Keeps, SameAddress
<1>3. QueueInv' /\ ChunkInv' /\ OneInFlight' /\ RowTellsOutcome'
  BY <1>2, RowsKept DEF GatewayInv
<1>4. Untouched(Chats)
  BY DEF Untouched
<1>5. TgInv'
  BY <1>4, TgFrame DEF GatewayInv
<1> QED
  BY <1>1, <1>3, <1>5 DEF GatewayInv

LEMMA WorkerMovesAlone ==
    ASSUME GatewayInv, rn' \in RnRecords, RnInv', faults' \in Nat,
           UNCHANGED <<queue, row, outcome, tg, process, stops>>
    PROVE  GatewayInv'
<1>1. TypeOK'
  BY DEF GatewayInv, TypeOK, RnRecords
<1>2. \A e \in Deliveries : Keeps(e)
  BY DEF Keeps, SameAddress
<1>3. QueueInv' /\ ChunkInv' /\ OneInFlight' /\ RowTellsOutcome'
  BY <1>2, RowsKept DEF GatewayInv
<1>4. TgInv'
  BY TgFrame DEF GatewayInv, Untouched
<1> QED
  BY <1>1, <1>3, <1>4 DEF GatewayInv

LEMMA HeldClaim ==
    ASSUME GatewayInv, RnHolds
    PROVE  /\ Sending \in Deliveries /\ Sending \in Rows /\ row[Sending].address \in Peers
           /\ row[Sending].state = "delivering" /\ row[Sending].owner = "live"
           /\ ~row[Sending].safe /\ rn.claim = ClaimOf(Sending) /\ rn.claim \in Claims
           /\ rn.claim.of = Sending /\ Fence(rn.claim)
<1>1. /\ Sending \in Deliveries /\ row[Sending].address \in Peers
      /\ row[Sending].state = "delivering" /\ row[Sending].owner = "live"
      /\ rn.claim = ClaimOf(Sending) /\ rn.claim.of = Sending
  BY DEF RnHolds, Fence, Sending
<1>2. Sending \in Rows
  BY <1>1 DEF Rows
<1>3. ~row[Sending].safe
  BY <1>2 DEF GatewayInv, QueueInv
<1>4. rn.claim \in Claims
  BY <1>1 DEF ClaimOf, Claims, GatewayInv, TypeOK, RowRecords
<1> QED
  BY <1>1, <1>2, <1>3, <1>4 DEF RnHolds

LEMMA WorkerRecord == RnStart \in RnRecords /\ RnStart.pc = "idle" /\ RnStart.active = NoClaim
BY DEF RnStart, RnRecords, Answers

\* A step that leaves the claim behind; the copy for shutdown stays.
LEMMA RnLeaves ==
    ASSUME GatewayInv, faults' \in Nat, UNCHANGED <<queue, row, outcome, tg, process, stops>>,
           NEW pc \in {"recorded", "recorded_lost", "cleanup", "cleanup_failed", "stopped", "failed"},
           rn' = [rn EXCEPT !.pc = pc]
    PROVE  GatewayInv'
<1>1. rn \in RnRecords
  BY DEF GatewayInv, TypeOK, RnRecords
<1>2. rn' \in RnRecords /\ rn'.pc = pc /\ rn'.active = rn.active
  BY <1>1 DEF RnRecords
<1>3. RnInv'
  BY <1>2 DEF GatewayInv, RnInv, Rows
<1> QED
  BY <1>2, <1>3, WorkerMovesAlone

\* A call ends with the state an answer leads to.
LEMMA RnTransition ==
    ASSUME GatewayInv, RnHolds, NEW answer \in Answers, Says(answer, outcome[Sending]),
           TransitionClaim(Sending, answer), UNCHANGED <<queue, outcome, tg, process, faults, stops>>,
           rn' \in RnRecords, rn'.active \in {NoClaim, rn.active},
           rn'.pc \in {"idle", "recorded", "recorded_lost", "stopped", "failed"}
    PROVE  GatewayInv'
<1>1. /\ Sending \in Deliveries /\ Sending \in Rows /\ row[Sending].address \in Peers
      /\ row[Sending].state = "delivering" /\ ~row[Sending].safe
  BY HeldClaim
<1>2. row \in [Deliveries -> RowRecords] /\ outcome \in [Deliveries -> Outcomes] /\ faults \in Nat
  BY DEF GatewayInv, TypeOK
<1> DEFINE d == Sending
<1> HIDE DEF d
<1>3. /\ row' \in [Deliveries -> RowRecords]
      /\ \A e \in Deliveries : e # d => row'[e] = row[e]
      /\ row'[d].state = Ends(answer)
      /\ row'[d].address = row[d].address /\ row'[d].sourced = row[d].sourced
      /\ row'[d].safe = row[d].safe
  BY <1>1, <1>2, TransitionRow DEF d
<1>4. Closes(d)
  <2>1. Tells(row'[d], outcome[d]) /\ row'[d].state \notin {"absent", "pending", "delivering"}
    BY <1>1, <1>2, <1>3, AnswerTells DEF d
  <2> QED
    BY <2>1, <1>1, <1>3 DEF Closes, SameAddress, d
<1>5. \A e \in Rows : e \in Rows' /\ row'[e].address = row[e].address
  BY <1>3, <1>4 DEF Closes, Rows
<1>6. RnInv'
  BY <1>5 DEF RnInv, GatewayInv
<1> QED
  BY <1>1, <1>2, <1>3, <1>4, <1>6, WorkerKeepsInv DEF d

LEMMA RnRejectKeepsInv ==
    ASSUME GatewayInv, RnReject
    PROVE  GatewayInv'
<1>1. RnHolds
  BY DEF RnReject, GatewayInv, RnInv
<1>2. Fence(rn.claim) /\ outcome[Sending] \in {"none", "retryable"}
  BY <1>1 DEF RnReject, RnHolds
<1>3. TransitionClaim(Sending, "terminal") /\ rn' = RnStart
  BY <1>2 DEF RnReject, RnMoves
<1>4. UNCHANGED <<queue, outcome, tg, process, faults, stops>>
  BY <1>2 DEF RnReject, RnMoves
<1>5. "terminal" \in Answers /\ Says("terminal", outcome[Sending])
  BY <1>2 DEF Answers, Says
<1> QED
  BY <1>1, <1>3, <1>4, <1>5, WorkerRecord, RnTransition

LEMMA RnGuardKeepsInv ==
    ASSUME GatewayInv, RnGuard
    PROVE  GatewayInv'
<1>1. RnHolds /\ rn.pc = "claimed"
  BY DEF RnGuard, GatewayInv, RnInv
<1> DEFINE d == Sending
           c == rn.claim
<1>2. /\ d \in Deliveries /\ d \in Rows /\ row[d].address \in Peers
      /\ row[d].state = "delivering" /\ row[d].owner = "live"
      /\ ~row[d].safe /\ c = ClaimOf(d) /\ c \in Claims
      /\ c.of = d /\ Fence(c)
  BY <1>1, HeldClaim
<1>3. /\ row' = [row EXCEPT ![d].safe = FALSE]
      /\ rn' = [rn EXCEPT !.pc = "guarded", !.active = c]
      /\ UNCHANGED <<queue, tg, process, stops, outcome, faults>>
  BY <1>2 DEF RnGuard, RnMoves
<1>4. d = rn.claim.of
  BY DEF Sending
<1>5. rn \in RnRecords /\ row \in [Deliveries -> RowRecords] /\ faults \in Nat
      /\ outcome \in [Deliveries -> Outcomes]
  BY DEF GatewayInv, TypeOK, RnRecords
<1>6. outcome[d] \in {"none", "retryable"}
  BY <1>1 DEF RnHolds
<1> HIDE DEF d, c
<1>7. /\ row' \in [Deliveries -> RowRecords]
      /\ \A e \in Deliveries : e # d => row'[e] = row[e]
      /\ row'[d].state = row[d].state /\ row'[d].address = row[d].address
      /\ row'[d].sourced = row[d].sourced /\ row'[d].safe = FALSE
      /\ row'[d].attempts = row[d].attempts /\ row'[d].renewals = row[d].renewals
      /\ row'[d].owner = row[d].owner
  BY <1>2, <1>3, <1>5 DEF RowRecords
<1>8. /\ rn' \in RnRecords /\ rn'.pc = "guarded" /\ rn'.active = c
      /\ rn'.claim = rn.claim
  BY <1>2, <1>3, <1>5 DEF RnRecords
<1>9. Keeps(d)
  BY <1>3, <1>7 DEF Keeps, SameAddress
<1>10. RnHolds'
  <2>1. Sending' = d
    BY <1>8, <1>4 DEF Sending
  <2>2. Fence(rn.claim)'
    BY <1>2, <1>7, <1>8, <1>4 DEF Fence, ClaimOf, c
  <2> QED
    BY <2>1, <2>2, <1>2, <1>3, <1>6, <1>7, <1>8 DEF RnHolds
<1>11. rn'.active.of \in Rows' /\ row'[rn'.active.of].address \in Peers
  BY <1>2, <1>7, <1>8 DEF Rows
<1>12. RnInv'
  BY <1>10, <1>11 DEF RnInv
<1> QED
  BY <1>2, <1>3, <1>5, <1>7, <1>8, <1>9, <1>12, WorkerKeepsInv

\* The worker keeps its claim and moves; the transport may speak.
LEMMA RnHolding ==
    ASSUME GatewayInv, RnHolds, rn' \in RnRecords, rn'.claim = rn.claim,
           rn'.active = rn.active, rn'.pc \in {"awaiting", "answered", "lost"},
           faults' \in Nat, UNCHANGED <<row, queue, tg, process, stops>>,
           NEW o \in Outcomes, outcome' = [outcome EXCEPT ![Sending] = o],
           rn'.pc = "answered" => Says(rn'.answer, o), rn'.pc = "lost" => rn'.answer = "unknown"
    PROVE  GatewayInv'
<1>1. /\ Sending \in Deliveries /\ Sending \in Rows /\ row[Sending].address \in Peers
      /\ row[Sending].state = "delivering" /\ rn.claim.of = Sending /\ Fence(rn.claim)
  BY HeldClaim
<1> DEFINE d == Sending
<1>2. Sending' = d
  BY DEF Sending
<1> HIDE DEF d
<1>3. /\ outcome' \in [Deliveries -> Outcomes] /\ outcome'[d] = o
      /\ \A e \in Deliveries : e # d => outcome'[e] = outcome[e]
  BY <1>1 DEF GatewayInv, TypeOK, d
<1>4. Keeps(d)
  BY <1>1 DEF Keeps, SameAddress, d
<1>5. RnHolds'
  <2>1. Fence(rn.claim)'
    BY <1>1 DEF Fence, ClaimOf
  <2> QED
    BY <2>1, <1>1, <1>2, <1>3 DEF RnHolds, d
<1>6. RnInv'
  BY <1>5 DEF RnInv, GatewayInv, Rows
<1>7. row' \in [Deliveries -> RowRecords]
  BY DEF GatewayInv, TypeOK
<1> QED
  BY <1>1, <1>3, <1>4, <1>6, <1>7, WorkerKeepsInv DEF d

LEMMA RnSubmitKeepsInv ==
    ASSUME GatewayInv, RnSubmit
    PROVE  GatewayInv'
<1>1. RnHolds
  BY DEF RnSubmit, GatewayInv, RnInv
<1>2. /\ rn' \in RnRecords /\ rn'.claim = rn.claim /\ rn'.active = rn.active
      /\ rn'.pc = "awaiting"
  BY DEF RnSubmit, RnMoves, GatewayInv, TypeOK, RnRecords
<1>3. UNCHANGED <<row, queue, tg, process, stops>> /\ faults' \in Nat
  BY DEF RnSubmit, RnMoves, GatewayInv, TypeOK
<1>4. "doubt" \in Outcomes /\ outcome' = [outcome EXCEPT ![Sending] = "doubt"]
  BY DEF Outcomes, RnSubmit
<1> QED
  BY <1>1, <1>2, <1>3, <1>4, RnHolding

LEMMA RnAnswerKeepsInv ==
    ASSUME GatewayInv, NEW answer \in Answers, RnAnswer(answer)
    PROVE  GatewayInv'
<1> DEFINE o == IF answer = "unknown" THEN "doubt" ELSE answer
<1>1. RnHolds
  BY DEF RnAnswer, GatewayInv, RnInv
<1>2. /\ rn' \in RnRecords /\ rn'.claim = rn.claim /\ rn'.active = rn.active
      /\ rn'.pc = "answered" /\ rn'.answer = answer
  BY DEF RnAnswer, RnMoves, GatewayInv, TypeOK, RnRecords
<1>3. UNCHANGED <<row, queue, tg, process, stops>> /\ faults' \in Nat
  BY DEF RnAnswer, RnMoves, Answered, GatewayInv, TypeOK
<1>4. o \in Outcomes /\ outcome' = [outcome EXCEPT ![Sending] = o] /\ Says(answer, o)
  BY DEF Outcomes, RnAnswer, Answered, Answers, Says
<1> HIDE DEF o
<1> QED
  BY <1>1, <1>2, <1>3, <1>4, RnHolding

LEMMA RnBridgeLostKeepsInv ==
    ASSUME GatewayInv, RnBridgeLost
    PROVE  GatewayInv'
<1>1. RnHolds
  BY DEF RnBridgeLost, GatewayInv, RnInv
<1>2. /\ rn' \in RnRecords /\ rn'.claim = rn.claim /\ rn'.active = rn.active
      /\ rn'.pc = "lost" /\ rn'.answer = "unknown"
  BY DEF RnBridgeLost, RnMoves, GatewayInv, TypeOK, RnRecords, Answers
<1>3. UNCHANGED <<row, queue, tg, process, stops>> /\ faults' \in Nat
  BY DEF RnBridgeLost, RnMoves, GatewayInv, TypeOK
<1>4. "doubt" \in Outcomes /\ outcome' = [outcome EXCEPT ![Sending] = "doubt"]
  BY DEF Outcomes, RnBridgeLost
<1> QED
  BY <1>1, <1>2, <1>3, <1>4, RnHolding

LEMMA RnRenewKeepsInv ==
    ASSUME GatewayInv, RnRenew
    PROVE  GatewayInv'
<1>1. RnHolds /\ rn.pc = "awaiting"
  BY DEF RnRenew, GatewayInv, RnInv
<1> DEFINE d == Sending
<1>2. /\ d \in Deliveries /\ d \in Rows /\ row[d].address \in Peers
      /\ row[d].state = "delivering" /\ row[d].owner = "live"
      /\ ~row[d].safe /\ rn.claim = ClaimOf(d) /\ rn.claim.of = d /\ Fence(rn.claim)
  BY <1>1, HeldClaim
<1>3. /\ row' = Renewed(d) /\ rn' = [rn EXCEPT !.claim.renewals = @ + 1]
      /\ UNCHANGED <<queue, tg, process, stops, outcome, faults>>
  BY <1>2 DEF RnRenew, RnMoves
<1> HIDE DEF d
<1>4. rn \in RnRecords /\ row \in [Deliveries -> RowRecords] /\ faults \in Nat
      /\ outcome \in [Deliveries -> Outcomes]
  BY DEF GatewayInv, TypeOK, RnRecords
<1>5. /\ row' \in [Deliveries -> RowRecords]
      /\ \A e \in Deliveries : e # d => row'[e] = row[e]
      /\ row'[d].renewals = row[d].renewals + 1
      /\ row'[d].state = row[d].state /\ row'[d].owner = row[d].owner
      /\ row'[d].address = row[d].address /\ row'[d].sourced = row[d].sourced
      /\ row'[d].safe = row[d].safe /\ row'[d].attempts = row[d].attempts
  BY <1>2, <1>3, <1>4, RenewedRow
<1> DEFINE c == [of |-> d, attempt |-> row[d].attempts, renewals |-> row[d].renewals + 1]
<1>6. c \in Claims
  BY <1>2, <1>4 DEF Claims, RowRecords
<1>7. rn' = [rn EXCEPT !.claim = c]
  <2>1. [rn.claim EXCEPT !.renewals = @ + 1] = c
    BY <1>2 DEF ClaimOf
  <2> QED
    BY <2>1, <1>3
<1>8. c.of = d /\ c = [of |-> d, attempt |-> row'[d].attempts, renewals |-> row'[d].renewals]
  BY <1>5
<1> HIDE DEF c
<1>9. rn' \in RnRecords /\ rn'.pc = "awaiting" /\ rn'.claim = c /\ rn'.active = rn.active
  BY <1>1, <1>4, <1>6, <1>7 DEF RnRecords
<1>10. Keeps(d)
  BY <1>3, <1>5 DEF Keeps, SameAddress
<1>11. RnHolds'
  <2>1. Sending' = d
    BY <1>8, <1>9 DEF Sending
  <2>3. Fence(rn.claim)'
    BY <1>2, <1>5, <1>8, <1>9 DEF Fence, ClaimOf
  <2> QED
    BY <2>1, <2>3, <1>2, <1>5, <1>9 DEF RnHolds
<1>12. \A e \in Rows : e \in Rows' /\ row'[e].address = row[e].address
  BY <1>5 DEF Rows
<1>13. RnInv'
  BY <1>9, <1>11, <1>12 DEF RnInv, GatewayInv
<1> QED
  BY <1>2, <1>3, <1>4, <1>5, <1>9, <1>10, <1>13, WorkerKeepsInv

LEMMA RnRecordKeepsInv ==
    ASSUME GatewayInv, RnRecord
    PROVE  GatewayInv'
<1>1. RnHolds /\ rn.pc \in {"answered", "lost"}
  BY DEF RnRecord, GatewayInv, RnInv
<1>2. /\ rn \in RnRecords /\ rn.answer \in Answers /\ Fence(rn.claim)
  BY <1>1 DEF RnHolds, GatewayInv, TypeOK, RnRecords
<1>3. Says(rn.answer, outcome[Sending])
  BY <1>1 DEF RnHolds, Says
<1>4. TransitionClaim(Sending, rn.answer) /\ UNCHANGED <<queue, outcome, tg, process, faults, stops>>
  BY <1>2 DEF RnRecord, RnMoves
<1>5. PICK pc \in {"recorded", "recorded_lost"} : rn' = [rn EXCEPT !.pc = pc]
  BY <1>2 DEF RnRecord, RnMoves
<1>6. rn' \in RnRecords /\ rn'.active = rn.active /\ rn'.pc = pc
  BY <1>2, <1>5 DEF RnRecords
<1> QED
  BY <1>1, <1>2, <1>3, <1>4, <1>6, RnTransition

LEMMA RnDoneKeepsInv ==
    ASSUME GatewayInv, RnDone
    PROVE  GatewayInv'
<1>1. UNCHANGED <<queue, row, outcome, tg, process, stops>> /\ faults' \in Nat
  BY DEF RnDone, RnMoves, GatewayInv, TypeOK
<1>2. rn \in RnRecords /\ NoClaim \in Claims \cup {NoClaim}
  BY DEF GatewayInv, TypeOK, RnRecords
<1>3. CASE rn' = RnStart
  <2>1. rn' \in RnRecords /\ RnInv'
    BY <1>3, WorkerRecord DEF RnInv
  <2> QED
    BY <1>1, <2>1, WorkerMovesAlone
<1>4. CASE rn' = [rn EXCEPT !.pc = "cleanup_failed", !.active = NoClaim]
  <2>1. rn' \in RnRecords /\ rn'.pc = "cleanup_failed" /\ rn'.active = NoClaim
    BY <1>2, <1>4 DEF RnRecords
  <2>2. RnInv'
    BY <2>1 DEF RnInv
  <2> QED
    BY <1>1, <2>1, <2>2, WorkerMovesAlone
<1> QED
  BY <1>3, <1>4 DEF RnDone, RnMoves

LEMMA RnErrorKeepsInv ==
    ASSUME GatewayInv, RnError \/ RnInterrupt
    PROVE  GatewayInv'
<1>1. UNCHANGED <<queue, row, outcome, tg, process, stops>> /\ faults' \in Nat
  BY DEF RnError, RnInterrupt, RnMoves, GatewayInv, TypeOK
<1>2. rn' = [rn EXCEPT !.pc = "cleanup_failed"] \/ rn' = [rn EXCEPT !.pc = "cleanup"]
  BY DEF RnError, RnInterrupt, RnFails, RnMoves
<1>3. PICK pc \in {"cleanup", "cleanup_failed"} : rn' = [rn EXCEPT !.pc = pc]
  BY <1>2
<1> QED
  BY <1>1, <1>3, RnLeaves

LEMMA RnCleanupKeepsInv ==
    ASSUME GatewayInv, RnCleanup
    PROVE  GatewayInv'
<1>1. UNCHANGED <<queue, outcome, tg, process, faults, stops>> /\ faults' \in Nat
  BY DEF RnCleanup, RnMoves, GatewayInv, TypeOK
<1>2. PICK pc \in {"stopped", "failed"} : rn' = [RnStart EXCEPT !.pc = pc]
  BY DEF RnCleanup, RnMoves
<1>3. rn' \in RnRecords /\ rn'.pc = pc /\ rn'.active = NoClaim
  BY <1>2, WorkerRecord DEF RnRecords
<1>4. RnInv'
  BY <1>3 DEF RnInv
<1>5. CASE UNCHANGED row
  BY <1>1, <1>3, <1>4, <1>5, WorkerMovesAlone
<1>6. CASE rn.active # NoClaim /\ Fence(rn.active) /\ TransitionClaim(rn.active.of, "unknown")
  <2> DEFINE d == rn.active.of
  <2>1. d \in Rows /\ d \in Deliveries /\ row[d].address \in Peers
    BY <1>6 DEF GatewayInv, RnInv, Rows
  <2>2. row[d].state = "delivering"
    BY <1>6 DEF Fence
  <2>3. ~row[d].safe /\ row \in [Deliveries -> RowRecords]
        /\ outcome \in [Deliveries -> Outcomes]
    BY <2>1 DEF GatewayInv, QueueInv, TypeOK
  <2>4. TransitionClaim(d, "unknown") /\ "unknown" \in Answers
    BY <1>6 DEF Answers
  <2> HIDE DEF d
  <2>5. /\ row' \in [Deliveries -> RowRecords]
        /\ \A e \in Deliveries : e # d => row'[e] = row[e]
        /\ row'[d].state = Ends("unknown")
        /\ row'[d].address = row[d].address /\ row'[d].sourced = row[d].sourced
        /\ row'[d].safe = row[d].safe
    BY <2>1, <2>3, <2>4, TransitionRow
  <2>6. Closes(d)
    BY <1>1, <2>2, <2>3, <2>5 DEF Closes, SameAddress, Ends, Tells, Waiting
  <2> QED
    BY <1>1, <1>3, <1>4, <2>1, <2>3, <2>5, <2>6, WorkerKeepsInv
<1> QED
  BY <1>5, <1>6 DEF RnCleanup

-----------------------------------------------------------------------------
(* The life of the daemon.                                                 *)

Fresh(t, r) ==
    /\ t \in [pc : {"idle", "batch", "stopped", "failed"}, broken : BOOLEAN,
              task : [Deliveries -> TaskRecords]]
    /\ \A d \in Deliveries : t.task[d] = NoTask
    /\ r \in RnRecords /\ r.pc \in {"idle", "stopped"} /\ r.active = NoClaim

LEMMA FreshWorkers ==
    /\ Fresh(TgStart, RnStart)
    /\ Fresh([TgStart EXCEPT !.pc = "stopped"], [RnStart EXCEPT !.pc = "stopped"])
<1> DEFINE tasks == [d \in Deliveries |-> NoTask]
<1>1. tasks \in [Deliveries -> TaskRecords] /\ \A d \in Deliveries : tasks[d] = NoTask
  BY NoTaskRecord
<1>2. TgStart = [pc |-> "idle", broken |-> FALSE, task |-> tasks]
  BY DEF TgStart
<1> HIDE DEF tasks
<1>3. RnStart \in RnRecords /\ RnStart.active = NoClaim /\ RnStart.pc = "idle"
  BY WorkerRecord
<1>4. [RnStart EXCEPT !.pc = "stopped"] \in RnRecords
      /\ [RnStart EXCEPT !.pc = "stopped"].active = NoClaim
      /\ [RnStart EXCEPT !.pc = "stopped"].pc = "stopped"
  BY <1>3 DEF RnRecords
<1> QED
  BY <1>1, <1>2, <1>3, <1>4 DEF Fresh

\* Workers that hold nothing, and rows that changed owners only.
LEMMA FreshKeepsInv ==
    ASSUME GatewayInv, Fresh(tg', rn'),
           row' \in [Deliveries -> RowRecords], UNCHANGED <<queue, outcome, faults>>,
           process' \in {"running", "draining", "down"}, stops' \in Nat,
           \A d \in Deliveries : Keeps(d)
    PROVE  GatewayInv'
<1>1. /\ tg' \in [pc : {"idle", "batch", "stopped", "failed"}, broken : BOOLEAN,
                  task : [Deliveries -> TaskRecords]]
      /\ \A d \in Deliveries : tg'.task[d] = NoTask
      /\ rn' \in RnRecords /\ rn'.pc \in {"idle", "stopped"} /\ rn'.active = NoClaim
  BY DEF Fresh
<1>2. TypeOK'
  BY <1>1 DEF GatewayInv, TypeOK, RnRecords
<1>3. QueueInv' /\ ChunkInv' /\ OneInFlight' /\ RowTellsOutcome'
  BY RowsKept DEF GatewayInv
<1>4. TgInv'
  BY <1>1, NoTaskRecord DEF TgInv
<1>5. RnInv'
  BY <1>1 DEF RnInv
<1> QED
  BY <1>2, <1>3, <1>4, <1>5 DEF GatewayInv

LEMMA DieKeepsInv ==
    ASSUME GatewayInv, Die, stops' \in Nat
    PROVE  GatewayInv'
<1>1. row \in [Deliveries -> RowRecords]
  BY DEF GatewayInv, TypeOK
<1>2. \A d \in Deliveries : row'[d] = row[d] \/ row'[d] = [row[d] EXCEPT !.owner = "dead"]
  BY DEF Die
<1>3. ASSUME NEW d \in Deliveries PROVE row'[d] \in RowRecords
  <2>1. row[d] \in RowRecords
    BY <1>1
  <2>2. [row[d] EXCEPT !.owner = "dead"] \in RowRecords
    BY <2>1 DEF RowRecords
  <2> QED
    BY <1>2, <2>1, <2>2
<1>4. \A d \in Deliveries : Keeps(d)
  BY <1>1, <1>2 DEF Die, Keeps, SameAddress, RowRecords
<1>5. row' \in [Deliveries -> RowRecords]
  <2>1. row' = [d \in Deliveries |-> row'[d]]
    BY DEF Die
  <2> QED
    BY <1>3, <2>1
<1>6. Fresh(tg', rn')
  BY FreshWorkers DEF Die
<1> QED
  BY <1>4, <1>5, <1>6, FreshKeepsInv DEF Die

LEMMA RestartKeepsInv ==
    ASSUME GatewayInv, Restart
    PROVE  GatewayInv'
<1>1. Fresh(tg', rn')
  BY FreshWorkers DEF Restart
<1>2. \A d \in Deliveries : Keeps(d)
  BY DEF Restart, Keeps, SameAddress
<1>3. row' \in [Deliveries -> RowRecords] /\ stops' \in Nat
  BY DEF GatewayInv, TypeOK, Restart
<1> QED
  BY <1>1, <1>2, <1>3, FreshKeepsInv DEF Restart

LEMMA ShutdownKeepsInv ==
    ASSUME GatewayInv, Shutdown
    PROVE  GatewayInv'
<1>1. UNCHANGED <<queue, row, outcome, tg, rn, faults>> /\ process' = "draining" /\ stops' \in Nat
  BY DEF Shutdown, GatewayInv, TypeOK
<1>2. TypeOK'
  BY <1>1 DEF GatewayInv, TypeOK
<1>3. \A d \in Deliveries : Keeps(d)
  BY <1>1 DEF Keeps, SameAddress
<1>4. QueueInv' /\ ChunkInv' /\ OneInFlight' /\ RowTellsOutcome'
  BY <1>1, <1>3, RowsKept DEF GatewayInv
<1>5. TgInv' /\ RnInv'
  BY <1>1, TgFrame, RnFrame DEF GatewayInv, Untouched, Rows
<1> QED
  BY <1>2, <1>4, <1>5 DEF GatewayInv

-----------------------------------------------------------------------------
(* The claim query.                                                        *)

\* What the query does to each row: it gives up a claim that expired, takes a
\* row that waits, whose message is delivered so far and whose address is free,
\* or leaves the row alone.
GivenUp(d, gateway) ==
    /\ row[d].state = "delivering" /\ row[d].address \in gateway /\ SameAddress(d)
    /\ row'[d].state = "outcome_unknown" /\ row'[d].attempts = row[d].attempts
Taken(d, gateway) ==
    /\ d \in Rows /\ row[d].state \in Waiting /\ row[d].address \in gateway /\ SameAddress(d)
    /\ row'[d].state = "delivering" /\ row'[d].owner = "live" /\ row'[d].renewals = 0
    /\ \A e \in Predecessors(d) : row[e].state = "delivered"
    /\ \A e \in Rows : row[e].address = row[d].address /\ row'[e].state = "delivering" =>
         row[e].state \in Waiting
    /\ \A e \in Rows :
         row[e].address = row[d].address /\ row[e].state \in Waiting /\ row'[e].state = "delivering"
         /\ Before(e, d) => e[2] > d[2] /\ (SameMessage(e, d) \/ ~row[d].sourced)

LEMMA SafeRows ==
    ASSUME GatewayInv, NEW d \in Rows
    PROVE  d \in Deliveries /\ row[d] \in RowRecords /\ ~row[d].safe
BY DEF GatewayInv, QueueInv, TypeOK, Rows

LEMMA ExpiredRows ==
    ASSUME GatewayInv, NEW gateway, NEW expired \in SUBSET Claimed(gateway), NEW d \in Deliveries
    PROVE  /\ AfterExpiry(expired)[d] \in RowRecords
           /\ AfterExpiry(expired)[d].address = row[d].address
           /\ AfterExpiry(expired)[d].sourced = row[d].sourced
           /\ AfterExpiry(expired)[d].safe = row[d].safe
           /\ AfterExpiry(expired)[d].attempts = row[d].attempts
           /\ d \notin expired => AfterExpiry(expired)[d] = row[d]
           /\ d \in expired => /\ AfterExpiry(expired)[d].state = "outcome_unknown"
                               /\ row[d].state = "delivering" /\ row[d].address \in gateway
<1>1. row[d] \in RowRecords
  BY DEF GatewayInv, TypeOK
<1>2. CASE d \notin expired
  <2>1. AfterExpiry(expired)[d] = row[d]
    BY <1>2 DEF AfterExpiry
  <2> QED
    BY <1>1, <1>2, <2>1
<1>3. CASE d \in expired
  <2>1. d \in Rows /\ row[d].state = "delivering" /\ row[d].address \in gateway
    BY <1>3 DEF Claimed
  <2>2. AfterExpiry(expired)[d] = Unclaimed(row[d], "outcome_unknown")
    BY <1>3, <2>1, SafeRows DEF AfterExpiry
  <2> QED
    BY <1>1, <1>3, <2>1, <2>2, UnclaimedRow DEF RowStates
<1> QED
  BY <1>2, <1>3

\* The query, row by row.
LEMMA ClaimQuery ==
    ASSUME GatewayInv, NEW gateway, NEW expired \in SUBSET Claimed(gateway),
           NEW backoff, NEW limit,
           row' = ClaimRows(Selected(gateway, backoff, limit, AfterExpiry(expired)),
                            AfterExpiry(expired))
    PROVE  /\ row' \in [Deliveries -> RowRecords]
           /\ \A d \in Deliveries : row'[d] = row[d] \/ GivenUp(d, gateway) \/ Taken(d, gateway)
           /\ \A d \in Selected(gateway, backoff, limit, AfterExpiry(expired)) :
                d \in Deliveries /\ Taken(d, gateway)
<1> DEFINE r == AfterExpiry(expired)
           claimed == Selected(gateway, backoff, limit, r)
<1>1. \A d \in Deliveries :
        /\ r[d] \in RowRecords /\ r[d].address = row[d].address /\ r[d].sourced = row[d].sourced
        /\ r[d].safe = row[d].safe /\ r[d].attempts = row[d].attempts
        /\ d \notin expired => r[d] = row[d]
        /\ d \in expired => /\ r[d].state = "outcome_unknown"
                            /\ row[d].state = "delivering" /\ row[d].address \in gateway
  BY ExpiredRows
<1>2. \A d \in claimed : d \in Deliveries /\ Claimable(d, gateway, r)
  BY DEF Selected
<1>3. row' = [d \in Deliveries |->
                IF d \in claimed
                THEN [r[d] EXCEPT !.state = "delivering", !.attempts = @ + 1, !.owner = "live",
                                  !.renewals = 0]
                ELSE r[d]]
  BY DEF ClaimRows
<1> HIDE DEF r, claimed
<1>4. ASSUME NEW d \in Deliveries, d \notin claimed
      PROVE  row'[d] = r[d]
  BY <1>3, <1>4
<1>5. ASSUME NEW d \in claimed
      PROVE  /\ row'[d] \in RowRecords /\ row'[d].state = "delivering"
             /\ row'[d].owner = "live" /\ row'[d].renewals = 0
             /\ SameAddress(d)
  <2>1. d \in Deliveries
    BY <1>2
  <2>2. row'[d] = [r[d] EXCEPT !.state = "delivering", !.attempts = @ + 1, !.owner = "live",
                               !.renewals = 0]
    BY <1>3, <1>5, <2>1
  <2>3. r[d] \in RowRecords
    BY <1>1, <2>1
  <2>4. /\ row'[d] \in RowRecords /\ row'[d].state = "delivering"
        /\ row'[d].owner = "live" /\ row'[d].renewals = 0
        /\ row'[d].address = r[d].address /\ row'[d].sourced = r[d].sourced
        /\ row'[d].safe = r[d].safe
    BY <2>2, <2>3, ClaimedRow
  <2> QED
    BY <2>1, <2>4, <1>1 DEF SameAddress
<1>6. \A d \in Deliveries : row'[d] \in RowRecords /\ SameAddress(d)
  BY <1>1, <1>4, <1>5 DEF SameAddress
<1>7. row' \in [Deliveries -> RowRecords]
  <2>1. row' = [d \in Deliveries |-> row'[d]]
    BY <1>3
  <2> QED
    BY <1>6, <2>1
<1>8. ASSUME NEW d \in claimed
      PROVE  Taken(d, gateway)
  <2>1. d \in Deliveries /\ d \in Rows /\ r[d].address \in gateway /\ r[d].state \in Waiting
    BY <1>2 DEF Claimable
  <2>2. row[d].state \in Waiting /\ row[d].address \in gateway
    BY <1>1, <2>1 DEF Waiting
  <2>3. \A e \in Predecessors(d) : e \in Deliveries /\ r[e].state = "delivered"
    BY <1>2 DEF Claimable, Predecessors, Rows
  <2>4. \A e \in Predecessors(d) : row[e].state = "delivered"
    BY <2>3, <1>1
  <2>5. ASSUME NEW e \in Rows, row[e].address = row[d].address, row'[e].state = "delivering"
        PROVE  row[e].state \in Waiting /\ e \in claimed
    <3>1. e \in Deliveries
      BY DEF Rows
    <3>2. r[e].address = r[d].address
      BY <1>1, <2>1, <2>5, <3>1
    <3>3. r[e].state # "delivering"
      BY <1>2, <3>2 DEF Claimable
    <3>4. e \in claimed
      BY <1>4, <2>5, <3>1, <3>3
    <3>5. r[e].state \in Waiting
      BY <1>2, <3>4 DEF Claimable
    <3> QED
      BY <1>1, <3>1, <3>4, <3>5 DEF Waiting
  <2>6. ASSUME NEW e \in Rows, row[e].address = row[d].address, row[e].state \in Waiting,
               row'[e].state = "delivering", Before(e, d)
        PROVE  e[2] > d[2] /\ (SameMessage(e, d) \/ ~row[d].sourced)
    <3>1. e \in Deliveries /\ e \in claimed
      BY <2>5, <2>6 DEF Rows
    <3>2. Claimable(e, gateway, r) /\ ~GoesFirst(e, d, r)
      BY <1>2, <3>1 DEF Claimable
    <3>3. r[e].state \in Waiting /\ r[e].address = r[d].address
      BY <1>1, <2>1, <2>6, <3>1, <3>2 DEF Claimable
    <3>4. \A f \in Predecessors(e) : r[f].state \notin Unresolved
      BY <3>2 DEF Claimable, Unresolved
    <3>5. e[2] > d[2] /\ (SameMessage(e, d) \/ ~r[d].sourced)
      BY <2>6, <3>2, <3>3, <3>4 DEF GoesFirst
    <3> QED
      BY <3>5, <1>1, <2>1
  <2> QED
    BY <2>1, <2>2, <2>4, <2>5, <2>6, <1>5 DEF Taken
<1>9. ASSUME NEW d \in Deliveries, d \notin claimed
      PROVE  row'[d] = row[d] \/ GivenUp(d, gateway)
  BY <1>1, <1>4, <1>6, <1>9 DEF GivenUp
<1>10. \A d \in Deliveries : row'[d] = row[d] \/ GivenUp(d, gateway) \/ Taken(d, gateway)
  BY <1>8, <1>9
<1>11. \A d \in claimed : d \in Deliveries /\ Taken(d, gateway)
  BY <1>2, <1>8
<1> QED
  BY <1>7, <1>10, <1>11 DEF claimed, r

LEMMA ClaimKeepsRows ==
    ASSUME GatewayInv, NEW gateway, UNCHANGED <<queue, outcome>>,
           \A d \in Deliveries : row'[d] = row[d] \/ GivenUp(d, gateway) \/ Taken(d, gateway)
    PROVE  /\ QueueInv' /\ ChunkInv' /\ OneInFlight' /\ RowTellsOutcome'
           /\ Rows' = Rows /\ \A d \in Deliveries : SameAddress(d)
<1>1. \A d \in Deliveries : SameAddress(d)
  BY DEF GivenUp, Taken, SameAddress
<1>2. Rows' = Rows
  BY DEF GivenUp, Taken, Rows
<1>3. \A d \in Deliveries : Predecessors(d)' = Predecessors(d)
  BY <1>2 DEF Predecessors, SameMessage
<1>4. QueueInv'
  BY <1>1, <1>2, PlacesKept DEF GatewayInv, QueueInv, Rows, SameAddress
<1>5. ChunkInv'
  <2> SUFFICES ASSUME NEW d \in Deliveries
               PROVE  /\ row'[d].state \in {"absent", "pending"} => outcome[d] = "none"
                      /\ row'[d].state \notin {"absent", "pending"} =>
                           \A e \in Predecessors(d) : row'[e].state = "delivered"
    BY <1>3 DEF ChunkInv
  <2>1. row'[d].state \in {"absent", "pending"} => outcome[d] = "none"
    BY DEF GivenUp, Taken, GatewayInv, ChunkInv
  <2>2. ASSUME row'[d].state \notin {"absent", "pending"}, NEW e \in Predecessors(d)
        PROVE  row'[e].state = "delivered"
    <3>1. e \in Deliveries
      BY DEF Predecessors, Rows
    <3>2. row[e].state = "delivered"
      BY <2>2 DEF GivenUp, Taken, GatewayInv, ChunkInv
    <3> QED
      BY <3>1, <3>2 DEF GivenUp, Taken, Waiting
  <2> QED
    BY <2>1, <2>2
<1>6. OneInFlight'
  <2> SUFFICES ASSUME NEW d \in Rows, NEW e \in Rows,
                      row'[d].address = row'[e].address, row'[d].sourced = row'[e].sourced,
                      row'[d].state = "delivering", row'[e].state = "delivering", d # e
               PROVE  FALSE
    BY <1>2 DEF OneInFlight
  <2>1. d \in Deliveries /\ e \in Deliveries
    BY DEF Rows
  <2>2. row[d].address = row[e].address /\ row[d].sourced = row[e].sourced
    BY <1>1, <2>1 DEF SameAddress
  <2>3. \A f \in {d, e} : row[f].state = "delivering" \/ Taken(f, gateway)
    BY <2>1 DEF GivenUp
  <2>4. CASE row[d].state = "delivering" /\ row[e].state = "delivering"
    BY <2>2, <2>4 DEF GatewayInv, OneInFlight
  <2>5. ASSUME NEW f \in {d, e}, NEW g \in {d, e}, f # g, Taken(f, gateway)
        PROVE  row[f].state \in Waiting /\ row[g].state \in Waiting
    BY <2>2, <2>5 DEF Taken
  <2>6. CASE row[d].state \in Waiting /\ row[e].state \in Waiting
    <3>1. Taken(d, gateway) /\ Taken(e, gateway)
      BY <2>3, <2>6 DEF Waiting
    <3>2. Before(d, e) \/ Before(e, d)
      <4>1. PICK i \in DOMAIN queue, j \in DOMAIN queue : queue[i] = d /\ queue[j] = e
        BY DEF GatewayInv, QueueInv
      <4>2. i \in Nat /\ j \in Nat /\ i # j
        BY <4>1 DEF GatewayInv, TypeOK
      <4>3. i < j \/ j < i
        BY <4>2
      <4> QED
        BY <4>1, <4>3 DEF Before
    <3>3. ASSUME NEW f \in {d, e}, NEW g \in {d, e}, f # g, Before(f, g)
          PROVE  FALSE
      <4>1. /\ Taken(f, gateway) /\ Taken(g, gateway) /\ f \in Rows /\ g \in Rows
            /\ f \in Deliveries /\ g \in Deliveries
            /\ row[f].address = row[g].address /\ row[f].sourced = row[g].sourced
            /\ row'[f].state = "delivering" /\ row[f].state \in Waiting
        BY <2>1, <2>2, <2>6, <3>1
      <4>2. f[2] > g[2] /\ (SameMessage(f, g) \/ ~row[g].sourced)
        BY <3>3, <4>1 DEF Taken
      <4>3. f[2] \in Nat /\ g[2] \in Nat
        BY <4>1 DEF Deliveries
      <4>4. CASE SameMessage(f, g)
        <5>1. g \in Predecessors(f)
          BY <4>1, <4>2, <4>3, <4>4 DEF Predecessors, SameMessage
        <5>2. row[g].state = "delivered"
          BY <4>1, <5>1 DEF Taken
        <5> QED
          BY <5>2, <2>6 DEF Waiting
      <4>5. CASE ~row[g].sourced
        <5>1. f[2] = 0
          BY <4>1, <4>5 DEF GatewayInv, QueueInv
        <5> QED
          BY <5>1, <4>2, <4>3
      <4> QED
        BY <4>2, <4>4, <4>5
    <3> QED
      BY <3>2, <3>3
  <2> QED
    BY <2>3, <2>4, <2>5, <2>6
<1>7. RowTellsOutcome'
  <2> SUFFICES ASSUME NEW d \in Rows PROVE Tells(row'[d], outcome[d])
    BY <1>2 DEF RowTellsOutcome, Tells
  <2>1. d \in Deliveries /\ Tells(row[d], outcome[d])
    BY DEF Rows, GatewayInv, RowTellsOutcome, Tells
  <2> QED
    BY <2>1 DEF GivenUp, Taken, Tells, Waiting
<1> QED
  BY <1>1, <1>2, <1>4, <1>5, <1>6, <1>7

\* What the query takes at another gateway is not touched.
LEMMA ClaimUntouched ==
    ASSUME NEW gateway, NEW other, gateway \cap other = {}, UNCHANGED outcome,
           \A d \in Deliveries : row'[d] = row[d] \/ GivenUp(d, gateway) \/ Taken(d, gateway)
    PROVE  Untouched(other)
BY DEF Untouched, GivenUp, Taken

LEMMA TgClaimKeepsInv ==
    ASSUME GatewayInv, NEW expired \in SUBSET Claimed(Chats), NEW backoff,
           TgClaim(expired, backoff)
    PROVE  GatewayInv'
<1> DEFINE claimed == Selected(Chats, backoff, Batch, AfterExpiry(expired))
<1>1. /\ row' = ClaimRows(claimed, AfterExpiry(expired))
      /\ UNCHANGED <<queue, outcome, rn, process, faults, stops>>
  BY DEF TgClaim
<1>2. /\ row' \in [Deliveries -> RowRecords]
      /\ \A d \in Deliveries : row'[d] = row[d] \/ GivenUp(d, Chats) \/ Taken(d, Chats)
      /\ \A d \in claimed : d \in Deliveries /\ Taken(d, Chats)
  BY <1>1, ClaimQuery
<1> DEFINE Task(d) == IF d \in claimed
                      THEN [step |-> "queued", answer |-> "unknown",
                            claim |-> [of |-> d, attempt |-> row'[d].attempts, renewals |-> 0]]
                      ELSE NoTask
           pc == IF claimed = {} THEN "idle" ELSE "batch"
           tasks == [d \in Deliveries |-> Task(d)]
<1>3. tg' = [tg EXCEPT !.pc = pc, !.task = tasks]
  BY DEF TgClaim
<1>4. \A d \in Deliveries : tasks[d] = Task(d)
  OBVIOUS
<1>5. ASSUME NEW d \in Deliveries PROVE Task(d) \in TaskRecords
  <2>1. row'[d].attempts \in Nat
    BY <1>2 DEF RowRecords
  <2>2. [of |-> d, attempt |-> row'[d].attempts, renewals |-> 0] \in Claims
    BY <2>1 DEF Claims
  <2> QED
    BY <2>2, NoTaskRecord DEF TaskRecords, Answers
<1>6. tasks \in [Deliveries -> TaskRecords]
  BY <1>5
<1> HIDE DEF tasks
<1>7. tg' \in [pc : {"idle", "batch", "stopped", "failed"}, broken : BOOLEAN,
               task : [Deliveries -> TaskRecords]] /\ tg'.task = tasks /\ tg'.pc = pc
  BY <1>3, <1>6 DEF GatewayInv, TypeOK
<1> HIDE DEF claimed
<1>8. TypeOK'
  BY <1>1, <1>2, <1>7 DEF GatewayInv, TypeOK
<1>9. /\ QueueInv' /\ ChunkInv' /\ OneInFlight' /\ RowTellsOutcome'
      /\ Rows' = Rows /\ \A d \in Deliveries : SameAddress(d)
  BY <1>1, <1>2, ClaimKeepsRows
<1>10. TgInv'
  <2>1. ASSUME NEW d \in Deliveries, d \in claimed
        PROVE  TgHolds(d)' /\ tg'.task[d].step # "done"
    <3>1. Taken(d, Chats)
      BY <1>2, <2>1
    <3>2. /\ tg'.task[d].claim = [of |-> d, attempt |-> row'[d].attempts, renewals |-> 0]
          /\ tg'.task[d].step = "queued"
      <4>1. tg'.task[d] = Task(d)
        BY <1>4, <1>7
      <4>2. tg'.task[d] = [step |-> "queued", answer |-> "unknown",
                           claim |-> [of |-> d, attempt |-> row'[d].attempts, renewals |-> 0]]
        BY <4>1, <2>1
      <4> QED
        BY <4>2
    <3>3. Fence(tg.task[d].claim)'
      BY <3>1, <3>2 DEF Fence, ClaimOf, Taken
    <3>4. outcome'[d] \in {"none", "retryable"} /\ row'[d].address \in Chats
      BY <3>1, <1>1 DEF Taken, SameAddress, GatewayInv, RowTellsOutcome
    <3> QED
      BY <3>2, <3>3, <3>4 DEF TgHolds
  <2>2. ASSUME NEW d \in Deliveries, d \notin claimed
        PROVE  tg'.task[d].step = "none"
    BY <1>4, <1>7, <2>2, NoTaskRecord
  <2>3. pc # "batch" => claimed = {}
    OBVIOUS
  <2> QED
    BY <2>1, <2>2, <2>3, <1>7 DEF TgInv
<1>11. RnInv'
  <2>1. Untouched(Peers)
    BY <1>1, <1>2, ClaimUntouched
  <2>2. \A d \in Rows : d \in Rows' /\ row'[d].address = row[d].address
    BY <1>9 DEF SameAddress, Rows
  <2> QED
    BY <1>1, <2>1, <2>2, RnFrame DEF GatewayInv
<1> QED
  BY <1>8, <1>9, <1>10, <1>11 DEF GatewayInv

LEMMA RnClaimKeepsInv ==
    ASSUME GatewayInv, NEW expired \in SUBSET Claimed(Peers), NEW backoff,
           RnClaim(expired, backoff)
    PROVE  GatewayInv'
<1> DEFINE claimed == Selected(Peers, backoff, 1, AfterExpiry(expired))
<1>1. /\ row' = ClaimRows(claimed, AfterExpiry(expired))
      /\ UNCHANGED <<queue, outcome, tg, process, faults, stops>> /\ rn.pc = "idle"
  BY DEF RnClaim, RnMoves
<1>2. /\ row' \in [Deliveries -> RowRecords]
      /\ \A d \in Deliveries : row'[d] = row[d] \/ GivenUp(d, Peers) \/ Taken(d, Peers)
      /\ \A d \in claimed : d \in Deliveries /\ Taken(d, Peers)
  BY <1>1, ClaimQuery
<1>3. \/ rn' = rn
      \/ \E d \in claimed :
           rn' = [rn EXCEPT !.pc = "claimed",
                    !.claim = [of |-> d, attempt |-> row'[d].attempts, renewals |-> 0]]
  BY DEF RnClaim, RnMoves
<1> HIDE DEF claimed
<1>4. /\ QueueInv' /\ ChunkInv' /\ OneInFlight' /\ RowTellsOutcome'
      /\ Rows' = Rows /\ \A d \in Deliveries : SameAddress(d)
  BY <1>1, <1>2, ClaimKeepsRows
<1>5. TgInv'
  BY <1>1, <1>2, ClaimUntouched, TgFrame DEF GatewayInv
<1>6. rn.active # NoClaim => rn.active.of \in Rows' /\ row'[rn.active.of].address \in Peers
  BY <1>4 DEF GatewayInv, RnInv, SameAddress, Rows
<1>7. rn \in RnRecords
  BY DEF GatewayInv, TypeOK, RnRecords
<1>8. rn' \in RnRecords /\ RnInv'
  <2>1. CASE rn' = rn
    BY <1>1, <1>6, <1>7, <2>1 DEF RnInv
  <2>2. ASSUME NEW d \in claimed,
               rn' = [rn EXCEPT !.pc = "claimed",
                        !.claim = [of |-> d, attempt |-> row'[d].attempts, renewals |-> 0]]
        PROVE  rn' \in RnRecords /\ RnInv'
    <3>1. d \in Deliveries /\ Taken(d, Peers)
      BY <1>2
    <3>2. row'[d].attempts \in Nat
      BY <1>2, <3>1 DEF RowRecords
    <3>3. [of |-> d, attempt |-> row'[d].attempts, renewals |-> 0] \in Claims
      BY <3>1, <3>2 DEF Claims
    <3>4. /\ rn' \in RnRecords /\ rn'.pc = "claimed" /\ rn'.active = rn.active
          /\ rn'.claim = [of |-> d, attempt |-> row'[d].attempts, renewals |-> 0]
      BY <2>2, <3>3, <1>7 DEF RnRecords
    <3>5. Sending' = d
      BY <3>4 DEF Sending
    <3>6. Fence(rn.claim)'
      BY <3>1, <3>4 DEF Fence, ClaimOf, Taken
    <3>7. outcome'[d] \in {"none", "retryable"} /\ row'[d].address \in Peers
      BY <3>1, <1>1 DEF Taken, SameAddress, GatewayInv, RowTellsOutcome
    <3>8. RnHolds'
      BY <3>1, <3>4, <3>5, <3>6, <3>7 DEF RnHolds
    <3> QED
      BY <3>4, <3>8, <1>6 DEF RnInv
  <2> QED
    BY <1>3, <2>1, <2>2
<1>9. TypeOK'
  BY <1>1, <1>2, <1>8 DEF GatewayInv, TypeOK, RnRecords
<1> QED
  BY <1>4, <1>5, <1>8, <1>9 DEF GatewayInv

-----------------------------------------------------------------------------
(* New rows.                                                               *)

\* An order of a finite set is a sequence of it that names every element.
LEMMA OrderIsWhole ==
    ASSUME NEW S, IsFiniteSet(S), NEW p \in Orderings(S)
    PROVE  /\ p \in Seq(S) /\ Len(p) = Cardinality(S)
           /\ \A x \in S : \E i \in 1 .. Len(p) : p[i] = x
           /\ \A i, j \in 1 .. Len(p) : p[i] = p[j] => i = j
<1> DEFINE n == Cardinality(S)
<1>1. n \in Nat
  BY FS_CardinalityType
<1>2. p \in [1 .. n -> S] /\ \A i, j \in 1 .. n : p[i] = p[j] => i = j
  BY DEF Orderings
<1>3. p \in Injection(1 .. n, S)
  BY <1>2, Fun_IsInj
<1>4. IsFiniteSet(1 .. n) /\ Cardinality(1 .. n) = n
  BY <1>1, FS_Interval, SMTT(30)
<1>5. p \in Surjection(1 .. n, S)
  BY <1>3, <1>4, FS_Injection
<1>6. p \in Seq(S) /\ Len(p) = n
  BY <1>1, <1>2
<1>7. \A x \in S : \E i \in 1 .. n : p[i] = x
  BY <1>5 DEF Surjection
<1> QED
  BY <1>2, <1>6, <1>7

LEMMA AppendedPlaces ==
    ASSUME NEW q \in Seq(Deliveries), NEW p \in Seq(Deliveries)
    PROVE  /\ q \o p \in Seq(Deliveries)
           /\ \A i \in DOMAIN q : i \in DOMAIN (q \o p) /\ (q \o p)[i] = q[i]
           /\ \A i \in 1 .. Len(p) :
                Len(q) + i \in DOMAIN (q \o p) /\ (q \o p)[Len(q) + i] = p[i]
           /\ \A k \in DOMAIN (q \o p) :
                k \in DOMAIN q \/ \E i \in 1 .. Len(p) : k = Len(q) + i
<1> DEFINE m == Len(q)
           n == Len(p)
<1>1. m \in Nat /\ n \in Nat
  BY LenProperties
<1>2. q \o p \in Seq(Deliveries) /\ Len(q \o p) = m + n
  OBVIOUS
<1>3. DOMAIN q = 1 .. m /\ DOMAIN (q \o p) = 1 .. m + n
  BY <1>2
<1>4. \A k \in 1 .. m + n : (q \o p)[k] = IF k <= m THEN q[k] ELSE p[k - m]
  BY ConcatProperties
<1> HIDE DEF m, n
<1>5. \A i \in 1 .. m : i \in 1 .. m + n /\ i <= m
  BY <1>1
<1>6. \A i \in 1 .. n : m + i \in 1 .. m + n /\ ~(m + i <= m) /\ (m + i) - m = i
  BY <1>1
<1>7. \A k \in 1 .. m + n : k \in 1 .. m \/ \E i \in 1 .. n : k = m + i
  <2> SUFFICES ASSUME NEW k \in 1 .. m + n, k \notin 1 .. m
               PROVE  \E i \in 1 .. n : k = m + i
    OBVIOUS
  <2>1. k - m \in 1 .. n /\ k = m + (k - m)
    BY <1>1
  <2> QED
    BY <2>1
<1>8. \A i \in 1 .. n : (q \o p)[m + i] = p[i]
  BY <1>4, <1>6
<1>9. \A i \in 1 .. m : (q \o p)[i] = q[i]
  BY <1>4, <1>5
<1> QED
  BY <1>2, <1>3, <1>5, <1>6, <1>7, <1>8, <1>9 DEF m, n

\* New rows belong to messages that had none, with the first chunk of each.
LEMMA InsertKeepsInv ==
    ASSUME GatewayInv, NEW new \in SUBSET Deliveries, IsFiniteSet(new), NEW a \in Addresses,
           NEW sourced \in BOOLEAN, Insert(new, a, sourced),
           \A d \in new : New(d[1]) /\ <<d[1], 0>> \in new /\ (~sourced => d[2] = 0)
    PROVE  GatewayInv'
<1>1. /\ queue \in Seq(Deliveries) /\ row \in [Deliveries -> RowRecords]
      /\ QueueInv /\ ChunkInv /\ OneInFlight /\ RowTellsOutcome
  BY DEF GatewayInv, TypeOK
<1>2. /\ row' = [d \in Deliveries |-> IF d \in new THEN NewRow(a, sourced) ELSE row[d]]
      /\ UNCHANGED <<outcome, tg, rn, process, faults, stops>>
  BY DEF Insert
<1>3. PICK p \in Orderings(new) : queue' = queue \o p
  BY DEF Insert
<1>4. /\ p \in Seq(new) /\ \A x \in new : \E i \in 1 .. Len(p) : p[i] = x
      /\ \A i, j \in 1 .. Len(p) : p[i] = p[j] => i = j
  BY OrderIsWhole
<1>5. /\ queue' \in Seq(Deliveries)
      /\ \A i \in DOMAIN queue : i \in DOMAIN queue' /\ queue'[i] = queue[i]
      /\ \A x \in new : \E i \in DOMAIN queue' : queue'[i] = x
      /\ \A i \in 1 .. Len(p) : p[i] \in new /\ queue'[Len(queue) + i] = p[i]
      /\ \A k \in DOMAIN queue' :
           k \in DOMAIN queue \/ \E i \in 1 .. Len(p) : k = Len(queue) + i
  <2>1. p \in Seq(Deliveries)
    BY <1>4
  <2>2. /\ queue \o p \in Seq(Deliveries)
        /\ \A i \in DOMAIN queue : i \in DOMAIN (queue \o p) /\ (queue \o p)[i] = queue[i]
        /\ \A i \in 1 .. Len(p) :
             Len(queue) + i \in DOMAIN (queue \o p) /\ (queue \o p)[Len(queue) + i] = p[i]
        /\ \A k \in DOMAIN (queue \o p) :
             k \in DOMAIN queue \/ \E i \in 1 .. Len(p) : k = Len(queue) + i
    BY <1>1, <2>1, AppendedPlaces
  <2>3. \A i \in 1 .. Len(p) : p[i] \in new
    BY <1>4, ElementOfSeq
  <2>4. ASSUME NEW x \in new PROVE \E i \in DOMAIN (queue \o p) : (queue \o p)[i] = x
    <3>1. PICK i \in 1 .. Len(p) : p[i] = x
      BY <1>4
    <3>2. Len(queue) + i \in DOMAIN (queue \o p) /\ (queue \o p)[Len(queue) + i] = x
      BY <2>2, <3>1
    <3> QED
      BY <3>2
  <2> QED
    BY <1>3, <2>2, <2>3, <2>4
<1>6. \A d \in new : /\ row'[d] \in RowRecords /\ row'[d].state = "pending"
                     /\ row'[d].address = a /\ row'[d].sourced = sourced
                     /\ row'[d].safe = FALSE
  BY <1>2, InsertedRow
<1>7. \A d \in Deliveries \ new : row'[d] = row[d]
  BY <1>2
<1>8. ASSUME NEW d \in Deliveries, NEW e \in Rows, SameMessage(d, e)
      PROVE  d \notin new
  <2>1. <<d[1], 0>> \in Rows
    BY <1>1, <1>8 DEF QueueInv, SameMessage
  <2> QED
    BY <2>1 DEF New
<1>9. new \cap Rows = {}
  BY <1>8 DEF SameMessage
<1>10. Rows' = Rows \cup new
  BY <1>6, <1>7, <1>9 DEF Rows
<1>11. \A d \in Rows : row'[d] = row[d]
  BY <1>7, <1>9 DEF Rows
<1>12. TypeOK'
  <2>1. row' \in [Deliveries -> RowRecords]
    BY <1>1, <1>2, <1>6, <1>7
  <2> QED
    BY <1>2, <1>5, <2>1 DEF GatewayInv, TypeOK
<1>13. QueueInv'
  <2>1. ASSUME NEW d \in Rows
        PROVE  /\ \E i \in DOMAIN queue' : queue'[i] = d
               /\ <<d[1], 0>> \in Rows' /\ (~row'[d].sourced => d[2] = 0) /\ ~row'[d].safe
    BY <1>1, <1>5, <1>10, <1>11 DEF QueueInv
  <2>2. ASSUME NEW d \in new
        PROVE  /\ \E i \in DOMAIN queue' : queue'[i] = d
               /\ <<d[1], 0>> \in Rows' /\ (~row'[d].sourced => d[2] = 0) /\ ~row'[d].safe
    BY <1>5, <1>6, <1>10
  <2>3. \A k \in DOMAIN queue' : k \in DOMAIN queue \/ queue'[k] \in new
    BY <1>5
  <2>4. \A k \in DOMAIN queue' : queue'[k] \in Rows'
    BY <1>1, <1>5, <1>10, <2>3 DEF QueueInv, PlaceInv
  <2>5. ASSUME NEW k \in DOMAIN queue', NEW l \in DOMAIN queue', queue'[k] = queue'[l]
        PROVE  k = l
    <3>1. CASE k \in DOMAIN queue /\ l \in DOMAIN queue
      BY <1>1, <1>5, <2>5, <3>1 DEF QueueInv, PlaceInv
    <3>2. ASSUME NEW i \in 1 .. Len(p), NEW j \in 1 .. Len(p),
                 k = Len(queue) + i, l = Len(queue) + j
          PROVE  k = l
      <4>1. p[i] = queue'[k] /\ p[j] = queue'[l]
        BY <1>5, <3>2
      <4>2. i = j
        BY <1>4, <2>5, <4>1, SMTT(30)
      <4> QED
        BY <3>2, <4>2
    <3>3. ASSUME NEW i \in 1 .. Len(p), NEW x \in DOMAIN queue,
                 queue'[x] = queue'[Len(queue) + i]
          PROVE  FALSE
      <4>1. queue'[x] \in Rows
        BY <1>1, <1>5 DEF QueueInv, PlaceInv
      <4>2. queue'[Len(queue) + i] \in new
        BY <1>5
      <4> QED
        BY <1>9, <3>3, <4>1, <4>2
    <3> QED
      BY <1>5, <2>5, <3>1, <3>2, <3>3
  <2>6. ASSUME NEW d \in Rows', NEW e \in Rows', SameMessage(d, e)
        PROVE  row'[d].address = row'[e].address
    <3>1. d \in Deliveries /\ e \in Deliveries
      BY DEF Rows
    <3>2. (d \in new /\ e \in new) \/ (d \in Rows /\ e \in Rows)
      BY <1>8, <1>10, <2>6, <3>1 DEF SameMessage
    <3> QED
      BY <3>2, <2>6, <1>1, <1>6, <1>11 DEF QueueInv, PlaceInv
  <2>7. PlaceInv'
    BY <2>4, <2>5, <2>6 DEF PlaceInv, SameMessage
  <2> QED
    BY <2>1, <2>2, <2>7, <1>10 DEF QueueInv
<1>14. \A d \in new : row[d].state = "absent" /\ outcome[d] = "none"
  BY <1>1, <1>9 DEF Rows, ChunkInv
<1>15. ChunkInv'
  <2> SUFFICES ASSUME NEW d \in Deliveries
               PROVE  /\ row'[d].state \in {"absent", "pending"} => outcome[d] = "none"
                      /\ row'[d].state \notin {"absent", "pending"} =>
                           \A e \in Predecessors(d)' : row'[e].state = "delivered"
    BY <1>2 DEF ChunkInv
  <2>1. CASE d \in new
    BY <2>1, <1>6, <1>14
  <2>2. CASE d \notin new
    <3>1. row'[d] = row[d]
      BY <2>2, <1>7
    <3>2. ASSUME row[d].state \notin {"absent", "pending"}, NEW e \in Predecessors(d)'
          PROVE  row'[e].state = "delivered"
      <4>1. d \in Rows /\ e \in Rows' /\ SameMessage(d, e) /\ e[2] < d[2] /\ e \in Deliveries
        BY <3>2 DEF Predecessors, Rows, SameMessage
      <4>2. e \notin new
        BY <4>1, <1>8 DEF SameMessage
      <4>3. e \in Rows /\ e \in Predecessors(d)
        BY <4>1, <4>2, <1>10 DEF Predecessors
      <4> QED
        BY <4>3, <3>2, <1>1, <1>11 DEF ChunkInv
    <3> QED
      BY <3>1, <3>2, <1>1 DEF ChunkInv
  <2> QED
    BY <2>1, <2>2
<1>16. OneInFlight'
  <2> SUFFICES ASSUME NEW d \in Rows', NEW e \in Rows',
                      row'[d].address = row'[e].address, row'[d].sourced = row'[e].sourced,
                      row'[d].state = "delivering", row'[e].state = "delivering"
               PROVE  d = e
    BY DEF OneInFlight
  <2>1. d \in Rows /\ e \in Rows
    BY <1>6, <1>10
  <2> QED
    BY <2>1, <1>1, <1>11 DEF OneInFlight
<1>17. RowTellsOutcome'
  <2> SUFFICES ASSUME NEW d \in Rows' PROVE Tells(row'[d], outcome[d])
    BY <1>2 DEF RowTellsOutcome, Tells
  <2>1. CASE d \in new
    BY <2>1, <1>6, <1>14 DEF Tells, Waiting
  <2>2. CASE d \in Rows
    BY <2>2, <1>1, <1>11 DEF RowTellsOutcome, Tells
  <2> QED
    BY <2>1, <2>2, <1>10
<1>18. Untouched(Chats) /\ Untouched(Peers)
  BY <1>2, <1>7, <1>14 DEF Untouched
<1>19. TgInv' /\ RnInv'
  BY <1>2, <1>10, <1>11, <1>18, TgFrame, RnFrame DEF GatewayInv
<1> QED
  BY <1>12, <1>13, <1>15, <1>16, <1>17, <1>19 DEF GatewayInv

LEMMA ProjectKeepsInv ==
    ASSUME GatewayInv, NEW S \in SUBSET Messages, NEW a \in Addresses, Project(S, a)
    PROVE  GatewayInv'
<1>1. PICK new \in Chunkings(S) : Insert(new, a, TRUE)
  BY DEF Project
<1>2. PICK chunks \in [S -> 1 .. MaxChunks] :
        new = {d \in S \X (0 .. MaxChunks - 1) : d[2] < chunks[d[1]]}
  BY DEF Chunkings
<1>3. IsFiniteSet(S) /\ \A m \in S : New(m)
  BY DEF Project
<1>4. MaxChunks \in Nat /\ MaxChunks > 0
  OBVIOUS
<1>5. IsFiniteSet(new)
  <2>1. IsFiniteSet(0 .. MaxChunks - 1)
    BY <1>4, FS_Interval
  <2>2. IsFiniteSet(S \X (0 .. MaxChunks - 1))
    BY <1>3, <2>1, FS_Product
  <2>3. new \in SUBSET (S \X (0 .. MaxChunks - 1))
    BY <1>2
  <2> QED
    BY <2>2, <2>3, FS_Subset
<1>6. new \in SUBSET Deliveries
  BY <1>2 DEF Deliveries
<1>7. ASSUME NEW d \in new PROVE New(d[1]) /\ <<d[1], 0>> \in new
  <2>1. d[1] \in S
    BY <1>2
  <2>2. chunks[d[1]] \in 1 .. MaxChunks
    BY <1>2, <2>1
  <2>3. <<d[1], 0>> \in S \X (0 .. MaxChunks - 1) /\ 0 < chunks[d[1]]
    BY <1>4, <2>1, <2>2
  <2> QED
    BY <1>2, <1>3, <2>1, <2>3
<1> QED
  BY <1>1, <1>5, <1>6, <1>7, InsertKeepsInv

LEMMA EnqueueKeepsInv ==
    ASSUME GatewayInv, NEW m \in Messages, NEW a \in Addresses, EnqueueGatewayDelivery(m, a)
    PROVE  GatewayInv'
<1> DEFINE new == {<<m, 0>>}
<1>1. Insert(new, a, FALSE) /\ New(m)
  BY DEF EnqueueGatewayDelivery
<1>2. new \in SUBSET Deliveries
  BY DEF Deliveries
<1>3. IsFiniteSet(new)
  BY FS_Singleton
<1>4. \A d \in new : New(d[1]) /\ <<d[1], 0>> \in new /\ d[2] = 0
  BY <1>1
<1> HIDE DEF new
<1> QED
  BY <1>1, <1>2, <1>3, <1>4, InsertKeepsInv

-----------------------------------------------------------------------------
(* The theorems.                                                           *)

LEMMA InitInv ==
    ASSUME Init
    PROVE  GatewayInv
<1> DEFINE a == CHOOSE a \in Addresses : TRUE
           r == [NewRow(a, TRUE) EXCEPT !.state = "absent"]
<1>1. a \in Addresses
  BY DEF Addresses
<1> HIDE DEF a
<1>2. r \in RowRecords /\ r.state = "absent"
  <2>1. NewRow(a, TRUE) \in RowRecords
    BY <1>1, InsertedRow
  <2>2. \A n \in RowRecords : [n EXCEPT !.state = "absent"] \in RowRecords
    BY DEF RowRecords
  <2>3. \A n \in RowRecords : [n EXCEPT !.state = "absent"].state = "absent"
    BY DEF RowRecords
  <2> QED
    BY <2>1, <2>2, <2>3
<1>3. /\ queue = <<>> /\ row = [d \in Deliveries |-> r] /\ outcome = [d \in Deliveries |-> "none"]
      /\ tg = TgStart /\ rn = RnStart /\ process = "running" /\ faults = 0 /\ stops = 0
  BY DEF Init, a
<1> HIDE DEF r
<1>4. /\ row \in [Deliveries -> RowRecords] /\ outcome \in [Deliveries -> Outcomes]
      /\ \A d \in Deliveries : row[d].state = "absent" /\ outcome[d] = "none"
  BY <1>2, <1>3 DEF Outcomes
<1>5. Rows = {}
  BY <1>4 DEF Rows
<1>6. Fresh(tg, rn)
  BY <1>3, FreshWorkers
<1>7. TypeOK
  BY <1>3, <1>4, <1>6 DEF TypeOK, Fresh, RnRecords
<1>8. QueueInv /\ OneInFlight /\ RowTellsOutcome
  BY <1>3, <1>5 DEF QueueInv, PlaceInv, OneInFlight, RowTellsOutcome
<1>9. ChunkInv
  BY <1>4 DEF ChunkInv
<1>10. TgInv /\ RnInv
  BY <1>6, NoTaskRecord DEF Fresh, TgInv, RnInv
<1> QED
  BY <1>7, <1>8, <1>9, <1>10 DEF GatewayInv

LEMMA NextKeepsInv ==
    ASSUME GatewayInv, [Next]_vars
    PROVE  GatewayInv'
<1>1. CASE UNCHANGED vars
  <2>1. tg' = tg /\ rn' = rn /\ row' = row /\ outcome' = outcome /\ queue' = queue
        /\ process' = process /\ faults' = faults /\ stops' = stops
    BY <1>1 DEF vars
  <2>2. TypeOK'
    BY <2>1 DEF GatewayInv, TypeOK
  <2>3. \A d \in Deliveries : Keeps(d)
    BY <2>1 DEF Keeps, SameAddress
  <2>4. QueueInv' /\ ChunkInv' /\ OneInFlight' /\ RowTellsOutcome'
    BY <2>1, <2>3, RowsKept DEF GatewayInv
  <2>5. TgInv' /\ RnInv'
    BY <2>1, TgFrame, RnFrame DEF GatewayInv, Untouched, Rows
  <2> QED
    BY <2>2, <2>4, <2>5 DEF GatewayInv
<1>2. ASSUME NEW d \in Deliveries, TgStep(d) PROVE GatewayInv'
  BY <1>2, TgDeliverKeepsInv, TgRenewKeepsInv, TgFallBackKeepsInv, TgRecordKeepsInv,
     TgStoreFailsKeepsInv, TgAnswerKeepsInv DEF TgStep
<1>3. CASE RnStep
  <2>1. ASSUME NEW expired \in SUBSET Claimed(Peers), NEW backoff \in SUBSET BackingOff(Peers),
               RnClaim(expired, backoff)
        PROVE  GatewayInv'
    BY <2>1, RnClaimKeepsInv
  <2>2. ASSUME NEW answer \in Answers, RnAnswer(answer) PROVE GatewayInv'
    BY <2>2, RnAnswerKeepsInv
  <2> QED
    BY <1>3, <2>1, <2>2, RnRejectKeepsInv, RnGuardKeepsInv, RnSubmitKeepsInv, RnRenewKeepsInv,
       RnBridgeLostKeepsInv, RnErrorKeepsInv, RnRecordKeepsInv, RnDoneKeepsInv, RnCleanupKeepsInv
       DEF RnStep
<1>4. ASSUME NEW S \in SUBSET Messages, NEW a \in Addresses, Project(S, a) PROVE GatewayInv'
  BY <1>4, ProjectKeepsInv
<1>5. ASSUME NEW m \in Messages, NEW a \in Addresses, EnqueueGatewayDelivery(m, a)
      PROVE  GatewayInv'
  BY <1>5, EnqueueKeepsInv
<1>6. ASSUME NEW expired \in SUBSET Claimed(Chats), NEW backoff \in SUBSET BackingOff(Chats),
             TgClaim(expired, backoff)
      PROVE  GatewayInv'
  BY <1>6, TgClaimKeepsInv
<1>7. CASE Exit \/ Crash
  <2>1. Die /\ stops' \in Nat
    BY <1>7 DEF Exit, Crash, GatewayInv, TypeOK
  <2> QED
    BY <2>1, DieKeepsInv
<1> QED
  BY <1>1, <1>2, <1>3, <1>4, <1>5, <1>6, <1>7, TgEndBatchKeepsInv, ShutdownKeepsInv,
     RestartKeepsInv DEF Next

\* The inductive invariant holds in every reachable state: rows, tasks and claims
\* of both workers fit together whatever expires, fails, crashes or restarts.
THEOREM GatewayInvariant == Spec => []GatewayInv
<1>1. Init => GatewayInv
  BY InitInv
<1>2. GatewayInv /\ [Next]_vars => GatewayInv'
  BY NextKeepsInv
<1> QED
  BY <1>1, <1>2, PTL DEF Spec

\* Type correctness of the queue, its rows and both workers.
THEOREM GatewayTypeCorrect == Spec => []TypeOK
<1>1. GatewayInv => TypeOK
  BY DEF GatewayInv
<1> QED
  BY <1>1, GatewayInvariant, PTL

\* What a row says of a delivery is what the transport said (transition_claim and the
\* expiry of claim_gateway_deliveries).
THEOREM RowsTellOutcomes == Spec => []RowTellsOutcome
<1>1. GatewayInv => RowTellsOutcome
  BY DEF GatewayInv
<1> QED
  BY <1>1, GatewayInvariant, PTL

\* What has been claimed follows delivered chunks, and only that was ever sent.
LEMMA InvOrdersChunks ==
    ASSUME GatewayInv
    PROVE  ChunksInOrder
<1> SUFFICES ASSUME NEW d \in Rows, NEW e \in Rows,
                    SameMessage(d, e), e[2] < d[2], outcome[d] # "none"
             PROVE  outcome[e] = "delivered"
  BY DEF GatewayInv, ChunksInOrder, OneInFlight
<1>1. d \in Deliveries /\ e \in Predecessors(d)
  BY DEF Rows, Predecessors
<1>2. row[d].state \notin {"absent", "pending"}
  BY <1>1 DEF GatewayInv, ChunkInv
<1>3. row[e].state = "delivered"
  BY <1>1, <1>2 DEF GatewayInv, ChunkInv
<1> QED
  BY <1>3 DEF GatewayInv, RowTellsOutcome

\* A chunk follows the delivered chunks of its message, and an address has one
\* delivery of a kind in flight, for every interleaving of the two gateways' queries
\* (the conditions of claim_gateway_deliveries).
THEOREM ChunksAlwaysInOrder == Spec => []ChunksInOrder
BY InvOrdersChunks, GatewayInvariant, PTL

\* A worker's task or call holds its claim in each of these states.
LEMMA InvHoldsClaims ==
    ASSUME GatewayInv
    PROVE  LiveClaimsHold
BY DEF GatewayInv, TgInv, TgHolds, RnInv, RnHolds, LiveClaimsHold, InProgress, TaskSet

\* Nobody ends the claim of a running worker but the worker itself (renewal and
\* fencing in deliver, send_with_renewals and run_delivery_once).
THEOREM LiveClaimsAlwaysHold == Spec => []LiveClaimsHold
BY InvHoldsClaims, GatewayInvariant, PTL

LEMMA TransitionsCountNoAttempt ==
    ASSUME row \in [Deliveries -> RowRecords], NEW x \in Deliveries, NEW answer \in Answers,
           TransitionClaim(x, answer), NEW d \in Deliveries
    PROVE  row'[d].attempts = row[d].attempts
BY TransitionRow

\* Only the claim query counts an attempt, and never for an outcome in doubt.
LEMMA StepRepeatsNothing ==
    ASSUME GatewayInv, [Next]_vars, NEW d \in Deliveries, outcome[d] = "doubt"
    PROVE  ~(row'[d].attempts > row[d].attempts)
<1>1. row \in [Deliveries -> RowRecords] /\ row[d].attempts \in Nat
      /\ rn.answer \in Answers /\ \A x \in Deliveries : tg.task[x].answer \in Answers
  BY DEF GatewayInv, TypeOK, RowRecords, TaskRecords
<1>2. SUFFICES row'[d].attempts = row[d].attempts \/ row'[d].attempts = 0
  BY <1>1
<1>3. row[d].state \notin Waiting
  BY DEF GatewayInv, RowTellsOutcome, Waiting, Rows
<1>4. CASE UNCHANGED row
  BY <1>4
<1>5. ASSUME NEW x \in Deliveries, row' = Renewed(x)
      PROVE  row'[d].attempts = row[d].attempts
  BY <1>1, <1>5, RenewedRow
<1>6. ASSUME NEW x \in Deliveries, NEW answer \in Answers, TransitionClaim(x, answer)
      PROVE  row'[d].attempts = row[d].attempts
  BY <1>1, <1>6, TransitionsCountNoAttempt
<1>7. ASSUME NEW new, NEW a \in Addresses, NEW sourced \in BOOLEAN, Insert(new, a, sourced)
      PROVE  row'[d].attempts = row[d].attempts \/ row'[d].attempts = 0
  BY <1>7 DEF Insert, NewRow
<1>8. ASSUME NEW gateway, NEW expired \in SUBSET Claimed(gateway), NEW backoff, NEW limit,
             row' = ClaimRows(Selected(gateway, backoff, limit, AfterExpiry(expired)),
                              AfterExpiry(expired))
      PROVE  row'[d].attempts = row[d].attempts
  <2>1. row'[d] = row[d] \/ GivenUp(d, gateway) \/ Taken(d, gateway)
    BY <1>8, ClaimQuery
  <2> QED
    BY <1>3, <2>1 DEF GivenUp, Taken
<1>9. ASSUME Die PROVE row'[d].attempts = row[d].attempts
  BY <1>1, <1>9 DEF Die, RowRecords
<1>10. ASSUME NEW x \in Deliveries, TgStep(x) PROVE row'[d].attempts = row[d].attempts
  <2>1. \/ UNCHANGED row \/ row' = Renewed(x)
        \/ \E answer \in Answers : TransitionClaim(x, answer)
    BY <1>1, <1>10 DEF TgStep, TgDeliver, TgRenew, TgFallBack, TgRecord, TgStoreFails, TgAnswer
  <2> QED
    BY <2>1, <1>5, <1>6
<1>11. CASE RnStep
  <2>1. CASE RnReject
    <3>1. Sending \in Deliveries /\ "terminal" \in Answers
      BY <2>1 DEF RnReject, GatewayInv, RnInv, RnHolds, Answers
    <3> QED
      BY <2>1, <3>1, <1>6 DEF RnReject
  <2>2. CASE RnGuard
    <3>1. Sending \in Deliveries
      BY <2>2 DEF RnGuard, GatewayInv, RnInv, RnHolds
    <3>2. UNCHANGED row \/ row' = [row EXCEPT ![Sending].safe = FALSE]
      BY <2>2 DEF RnGuard
    <3> QED
      BY <3>1, <3>2, <1>1 DEF RowRecords
  <2>3. CASE RnRenew
    <3>1. Sending \in Deliveries
      BY <2>3 DEF RnRenew, GatewayInv, RnInv, RnHolds
    <3> QED
      BY <2>3, <3>1, <1>5 DEF RnRenew
  <2>4. CASE RnRecord
    <3>1. Sending \in Deliveries
      BY <2>4 DEF RnRecord, GatewayInv, RnInv, RnHolds
    <3> QED
      BY <2>4, <3>1, <1>1, <1>6 DEF RnRecord
  <2>5. CASE RnCleanup
    <3>1. UNCHANGED row \/ (rn.active # NoClaim /\ TransitionClaim(rn.active.of, "unknown"))
      BY <2>5 DEF RnCleanup
    <3>2. rn.active # NoClaim => rn.active.of \in Deliveries
      BY DEF GatewayInv, RnInv, Rows
    <3>3. "unknown" \in Answers
      BY DEF Answers
    <3> QED
      BY <3>1, <3>2, <3>3, <1>6
  <2>6. ASSUME NEW expired \in SUBSET Claimed(Peers), NEW backoff, RnClaim(expired, backoff)
        PROVE  row'[d].attempts = row[d].attempts
    BY <2>6, <1>8 DEF RnClaim
  <2>7. CASE RnSubmit \/ RnBridgeLost \/ RnError \/ RnDone \/ RnInterrupt
             \/ \E answer \in Answers : RnAnswer(answer)
    BY <2>7 DEF RnSubmit, RnBridgeLost, RnError, RnDone, RnInterrupt, RnAnswer
  <2> QED
    BY <1>11, <2>1, <2>2, <2>3, <2>4, <2>5, <2>6, <2>7 DEF RnStep
<1>12. ASSUME NEW expired \in SUBSET Claimed(Chats), NEW backoff, TgClaim(expired, backoff)
       PROVE  row'[d].attempts = row[d].attempts
  BY <1>12, <1>8 DEF TgClaim
<1>13. ASSUME NEW S \in SUBSET Messages, NEW a \in Addresses, Project(S, a)
       PROVE  row'[d].attempts = row[d].attempts \/ row'[d].attempts = 0
  BY <1>13, <1>7 DEF Project
<1>14. ASSUME NEW m \in Messages, NEW a \in Addresses, EnqueueGatewayDelivery(m, a)
       PROVE  row'[d].attempts = row[d].attempts \/ row'[d].attempts = 0
  BY <1>14, <1>7 DEF EnqueueGatewayDelivery
<1>15. CASE TgEndBatch \/ TgStop \/ Shutdown \/ Restart \/ UNCHANGED vars
  BY <1>15 DEF TgEndBatch, TgStop, Shutdown, Restart, vars
<1>16. CASE Exit \/ Crash
  BY <1>16, <1>9 DEF Exit, Crash
<1> QED
  BY <1>10, <1>11, <1>12, <1>13, <1>14, <1>15, <1>16 DEF Next

\* Nothing whose outcome is in doubt is handed to a transport again (a claim is the
\* only way to the transport, and rows in doubt are not claimable).
THEOREM DoubtIsNeverRepeated == Spec => NeverRepeatedInDoubt
<1>1. GatewayInv /\ [Next]_vars => [\A d \in Deliveries : ~Resubmitted(d)]_vars
  BY StepRepeatsNothing DEF Resubmitted
<1> QED
  BY <1>1, GatewayInvariant, PTL DEF Spec, NeverRepeatedInDoubt

-----------------------------------------------------------------------------
(* The queue never blocks itself.                                          *)

LEMMA LeastNatural ==
    ASSUME NEW S \in SUBSET Nat, S # {}
    PROVE  \E n \in S : \A m \in S : n <= m
<1> DEFINE R == OpToRel(<, Nat)
<1>1. IsWellFoundedOn(R, Nat)
  BY NatLessThanWellFounded
<1>2. R = {p \in Nat \X Nat : p[1] < p[2]}
  BY DEF OpToRel
<1> HIDE DEF R
<1>3. PICK n \in S : \A m \in S : <<m, n>> \notin R
  BY <1>1, WFMin
<1>4. ASSUME NEW m \in S PROVE n <= m
  <2>1. m \in Nat /\ n \in Nat /\ <<m, n>> \in Nat \X Nat
    OBVIOUS
  <2>2. ~(m < n)
    BY <1>2, <1>3, <2>1
  <2> QED
    BY <2>1, <2>2
<1> QED
  BY <1>3, <1>4

\* Of the rows that wait for nothing but their turn, the first in the queue names a
\* message; its lowest waiting chunk is held up by nothing unless ids interleave.
LEMMA NeverStuck ==
    ASSUME GatewayInv, NEW a \in Addresses, ~Interlocked(a)
    PROVE  ~Stuck(a, AfterExpiry(Claimed({a})))
<1> DEFINE r == AfterExpiry(Claimed({a}))
           W == {d \in Rows : /\ r[d].address = a /\ r[d].state \in Waiting
                              /\ \A e \in Predecessors(d) : r[e].state \notin Unresolved}
<1>1. \A d \in Rows : d \in Deliveries
  BY DEF Rows
<1>2. \A d \in Rows :
        /\ r[d].address = row[d].address
        /\ row[d].address = a => r[d].state # "delivering"
        /\ r[d].state # "absent"
  <2> SUFFICES ASSUME NEW d \in Rows
               PROVE  /\ r[d].address = row[d].address
                      /\ row[d].address = a => r[d].state # "delivering"
                      /\ r[d].state # "absent"
    OBVIOUS
  <2>1. /\ r[d].address = row[d].address
        /\ d \notin Claimed({a}) => r[d] = row[d]
        /\ d \in Claimed({a}) => r[d].state = "outcome_unknown"
    BY <1>1, ExpiredRows
  <2>2. d \notin Claimed({a}) /\ row[d].address = a => row[d].state # "delivering"
    BY DEF Claimed
  <2>3. row[d].state # "absent"
    BY DEF Rows
  <2> HIDE DEF r
  <2> QED
    BY <2>1, <2>2, <2>3
<1>3. \A d \in Rows : r[d].state \in RowStates
  BY <1>1, ExpiredRows DEF RowRecords, RowStates
<1> HIDE DEF r
<1>4. /\ \A d \in Rows : \E i \in DOMAIN queue : queue[i] = d
      /\ \A i, j \in DOMAIN queue : queue[i] = queue[j] => i = j
      /\ \A d, e \in Rows : SameMessage(d, e) => row[d].address = row[e].address
      /\ DOMAIN queue \in SUBSET Nat
  <2>1. queue \in Seq(Deliveries)
    BY DEF GatewayInv, TypeOK
  <2>2. DOMAIN queue = 1 .. Len(queue) /\ Len(queue) \in Nat
    BY <2>1, LenProperties
  <2>3. DOMAIN queue \in SUBSET Nat
    BY <2>2
  <2> QED
    BY <2>3 DEF GatewayInv, QueueInv, PlaceInv
<1> SUFFICES ASSUME W # {} PROVE \E d \in Rows : Claimable(d, {a}, r)
  BY <1>1, <1>2 DEF Stuck, r
<1> DEFINE places == {i \in DOMAIN queue : queue[i] \in W}
<1>5. places # {} /\ places \in SUBSET Nat
  BY <1>4
<1>6. PICK i \in places : \A j \in places : i <= j
  BY <1>5, LeastNatural
<1>7. PICK d \in W : queue[i] = d
  BY <1>6
<1> DEFINE ordinals == {n \in Nat : \E e \in W : SameMessage(e, d) /\ e[2] = n}
<1>8. ordinals # {} /\ ordinals \in SUBSET Nat
  <2>1. SameMessage(d, d) /\ d[2] \in Nat
    BY <1>1 DEF SameMessage, Deliveries
  <2>2. d[2] \in ordinals
    BY <2>1
  <2> QED
    BY <2>2
<1>9. PICK n \in ordinals : \A m \in ordinals : n <= m
  BY <1>8, LeastNatural
<1>10. PICK f \in W : SameMessage(f, d) /\ f[2] = n
  BY <1>9
<1>11. \A e \in W : e \in Rows /\ e \in Deliveries /\ e[2] \in Nat /\ row[e].address = a
  BY <1>1, <1>2 DEF Deliveries
<1>12. \A e \in W : SameMessage(e, d) => f[2] <= e[2]
  BY <1>9, <1>10, <1>11
<1>13. ASSUME NEW e \in Predecessors(f)
       PROVE  r[e].state = "delivered"
  <2>1. e \in Rows /\ SameMessage(f, e) /\ e[2] < f[2] /\ r[e].state \notin Unresolved
    BY <1>10 DEF Predecessors
  <2>2. row[e].address = a
    BY <1>4, <1>11, <2>1
  <2>3. r[e].state \in RowStates \ ({"absent", "delivering"} \cup Unresolved)
    BY <1>2, <1>3, <2>1, <2>2
  <2>4. e \in Deliveries /\ f \in Deliveries
    BY <1>1, <2>1, <1>11
  <2>5. Predecessors(e) \subseteq Predecessors(f)
    BY <2>1, <2>4, <1>1 DEF Predecessors, SameMessage, Deliveries
  <2>6. \A g \in Predecessors(e) : r[g].state \notin Unresolved
    BY <1>10, <2>5
  <2>7. r[e].state \notin Waiting
    <3> SUFFICES ASSUME r[e].state \in Waiting PROVE FALSE
      OBVIOUS
    <3>1. e \in W
      BY <1>2, <2>1, <2>2, <2>6
    <3>2. f[2] <= e[2]
      BY <1>10, <1>12, <2>1, <3>1 DEF SameMessage
    <3> QED
      BY <2>1, <1>11, <3>1, <3>2
  <2> QED
    BY <2>3, <2>7 DEF RowStates, Unresolved, Waiting
<1>14. ASSUME NEW e \in Rows, GoesFirst(e, f, r)
       PROVE  FALSE
  <2>1. /\ e \in W /\ Before(e, f)
        /\ ~(e[2] > f[2] /\ (SameMessage(e, f) \/ ~r[f].sourced))
    BY <1>14 DEF GoesFirst
  <2>2. PICK j \in DOMAIN queue, k \in DOMAIN queue : j < k /\ queue[j] = e /\ queue[k] = f
    BY <2>1 DEF Before
  <2>3. j \in Nat /\ k \in Nat /\ i \in Nat /\ i \in DOMAIN queue
    BY <1>4, <1>6
  <2>4. j \in places /\ i <= j
    BY <1>6, <2>1, <2>2
  <2>5. CASE SameMessage(e, f)
    <3>1. SameMessage(e, d)
      BY <1>10, <2>5 DEF SameMessage
    <3>2. f[2] <= e[2] /\ f[2] \in Nat /\ e[2] \in Nat
      BY <1>11, <1>12, <2>1, <3>1
    <3>3. e[2] = f[2]
      BY <2>1, <2>5, <3>2
    <3>4. e = f
      BY <1>11, <2>1, <2>5, <3>3 DEF SameMessage, Deliveries
    <3>5. j = k
      BY <1>4, <2>2, <3>4
    <3> QED
      BY <2>2, <2>3, <3>5
  <2>6. CASE ~SameMessage(e, f)
    <3>1. ~SameMessage(d, e)
      BY <1>10, <2>6 DEF SameMessage
    <3>2. i # j
      BY <1>7, <2>2, <3>1 DEF SameMessage
    <3>3. i < j
      BY <2>3, <2>4, <3>2
    <3>4. Before(d, e) /\ Before(e, f)
      BY <1>7, <2>1, <2>2, <2>3, <3>3 DEF Before
    <3>5. CASE f = d
      <4>1. k = i
        BY <1>4, <1>7, <2>2, <2>3, <3>5
      <4> QED
        BY <2>2, <2>3, <3>3, <4>1
    <3>6. CASE f # d
      <4>1. f[2] <= d[2] /\ f[2] # d[2]
        <5>1. SameMessage(d, d)
          BY DEF SameMessage
        <5>2. f[2] = d[2] => f = d
          BY <1>10, <1>11 DEF SameMessage, Deliveries
        <5> QED
          BY <1>12, <3>6, <5>1, <5>2
      <4>2. f[2] < d[2]
        BY <1>11, <4>1
      <4>3. {row[d].address, row[e].address, row[f].address} = {a}
        BY <1>11, <2>1
      <4>4. SameMessage(d, f)
        BY <1>10 DEF SameMessage
      <4>5. Interlocked(a)
        BY <1>11, <2>1, <3>1, <3>4, <4>2, <4>3, <4>4 DEF Interlocked
      <4> QED
        BY <4>5
    <3> QED
      BY <3>5, <3>6
  <2> QED
    BY <2>5, <2>6
<1>15. \A e \in Rows : r[e].address = r[f].address => r[e].state # "delivering"
  BY <1>2, <1>11
<1>16. f \in Rows /\ r[f].address \in {a} /\ r[f].state \in Waiting
  BY <1>10
<1>17. Claimable(f, {a}, r)
  BY <1>13, <1>14, <1>15, <1>16 DEF Claimable
<1> QED
  BY <1>16, <1>17

\* Whatever became of earlier deliveries, a query that comes when the deadlines of an
\* address have passed finds something to send if a row waits there, unless ids
\* interleave (the order and the conditions of claim_gateway_deliveries).
THEOREM QueueIsNeverStuck == Spec => []QueueNeverStuck
<1>1. GatewayInv => QueueNeverStuck
  BY NeverStuck DEF QueueNeverStuck
<1> QED
  BY <1>1, GatewayInvariant, PTL

=============================================================================
