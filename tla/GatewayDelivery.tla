-------------------------- MODULE GatewayDelivery --------------------------
(***************************************************************************)
(* Results on their way to a gateway: the queue `gateway_deliveries`, the  *)
(* Telegram worker that sends a claimed batch concurrently, and the        *)
(* Reticulum worker that sends one at a time through its bridge process.   *)
(*                                                                         *)
(* A delivery is one chunk of one message: <<message, ordinal>>.  Rows are *)
(* ordered by (created_at, id).  Ids are random and the rows written by a  *)
(* transaction share created_at, so they follow the older rows in an       *)
(* order nobody chose; `queue` is that order.                              *)
(*                                                                         *)
(* A claim is compared by its owner and its exact deadline.  A renewal     *)
(* changes the deadline, so a claim is the number of the attempt and of    *)
(* its renewals; each claim query chooses which deadlines have passed.     *)
(*                                                                         *)
(* The transports and the LXMF bridge are the environment.  A definition   *)
(* named Name_Variant is a deliberately wrong variant of Name that no      *)
(* specification uses.                                                     *)
(***************************************************************************)
EXTENDS Naturals, Sequences, FiniteSets

CONSTANTS
    Messages,     \* outbox messages and gateway responses
    Chats,        \* Telegram addresses
    Peers,        \* Reticulum addresses
    MaxChunks,    \* bound: chunks of a message
    MaxIntents,   \* bound: messages projected by one transaction
    MaxRows,      \* bound: chunks of all messages
    Batch,        \* CLAIM_BATCH of the Telegram worker
    Concurrency,  \* MAX_CONCURRENCY of the Telegram worker
    MaxRenewals,  \* bound: renewals of a claim
    MaxFaults,    \* bound: retryable answers, failed store calls, lost bridges
    MaxStops      \* bound: crashes and shutdowns

ASSUME AddressesAssumption == Chats \cap Peers = {} /\ Chats \cup Peers # {}
ASSUME LimitsAssumption ==
    {MaxChunks, MaxIntents, Batch, Concurrency} \subseteq Nat \ {0}
ASSUME BoundsAssumption ==
    {MaxRows, MaxRenewals, MaxFaults, MaxStops} \subseteq Nat

VARIABLES
    queue,    \* deliveries in the order (created_at, id)
    row,      \* the rows of gateway_deliveries
    outcome,  \* what the transport last said of a delivery
    tg,       \* the Telegram worker
    rn,       \* the Reticulum worker
    process,  \* life of the daemon
    faults,   \* faults so far
    stops     \* crashes and shutdowns so far

vars == <<queue, row, outcome, tg, rn, process, faults, stops>>

Deliveries == Messages \X (0 .. MaxChunks - 1)
Addresses == Chats \cup Peers

NoClaim == [of |-> <<>>, attempt |-> 0, renewals |-> 0]
Claims == [of : Deliveries, attempt : Nat, renewals : Nat]

RowRecords ==
    [address : Addresses, sourced : BOOLEAN,
     state : {"absent", "pending", "delivering", "delivered", "failed_retryable",
              "failed_terminal", "outcome_unknown"},
     attempts : Nat, owner : {"none", "live", "dead"}, renewals : Nat, safe : BOOLEAN]

\* "doubt": handed to the transport, and no answer that settles what became of it.
Outcomes == {"none", "doubt", "delivered", "retryable", "terminal"}
Answers == {"delivered", "retryable", "terminal", "unknown"}

\* A task is one call of deliver; "plain" is the fallback of send_text.
TaskRecords ==
    [step : {"none", "queued", "first", "plain", "answered", "done"},
     claim : Claims \cup {NoClaim}, answer : Answers]

NewRow(a, sourced) ==
    [address |-> a, sourced |-> sourced, state |-> "pending", attempts |-> 0, owner |-> "none",
     renewals |-> 0, safe |-> FALSE]
NoTask == [step |-> "none", claim |-> NoClaim, answer |-> "unknown"]

TgStart == [pc |-> "idle", broken |-> FALSE, task |-> [d \in Deliveries |-> NoTask]]
RnStart == [pc |-> "idle", claim |-> NoClaim, active |-> NoClaim, answer |-> "unknown"]

Init ==
    /\ queue = <<>>
    /\ row = [d \in Deliveries |-> [NewRow(CHOOSE a \in Addresses : TRUE, TRUE) EXCEPT !.state = "absent"]]
    /\ outcome = [d \in Deliveries |-> "none"]
    /\ tg = TgStart /\ rn = RnStart
    /\ process = "running" /\ faults = 0 /\ stops = 0

-----------------------------------------------------------------------------
(* The queue (gateway_projection.rs, gateway.rs).                          *)

Rows == {d \in Deliveries : row[d].state # "absent"}
Waiting == {"pending", "failed_retryable"}
Unresolved == {"failed_terminal", "outcome_unknown"}

Before(d, e) ==
    \E i, j \in DOMAIN queue : i < j /\ queue[i] = d /\ queue[j] = e
SameMessage(d, e) == d[1] = e[1]
Predecessors(d) == {e \in Rows : SameMessage(d, e) /\ e[2] < d[2]}

Orderings(S) ==
    {p \in [1 .. Cardinality(S) -> S] : \A i, j \in 1 .. Cardinality(S) : p[i] = p[j] => i = j}

\* How messages may be split into chunks.
Chunkings(S) ==
    {{d \in S \X (0 .. MaxChunks - 1) : d[2] < chunks[d[1]]} : chunks \in [S -> 1 .. MaxChunks]}

Insert(new, a, sourced) ==
    /\ Len(queue) + Cardinality(new) <= MaxRows
    /\ row' = [d \in Deliveries |-> IF d \in new THEN NewRow(a, sourced) ELSE row[d]]
    /\ \E order \in Orderings(new) : queue' = queue \o order
    /\ UNCHANGED <<outcome, tg, rn, process, faults, stops>>

New(m) == <<m, 0>> \notin Rows

\* The messages of a run with a route, in one transaction.
Project(S, a) ==
    /\ process # "down" /\ S # {} /\ \A m \in S : New(m)
    /\ IsFiniteSet(S) /\ Cardinality(S) <= MaxIntents
    /\ \E new \in Chunkings(S) : Insert(new, a, TRUE)

\* The answer to a command, one chunk without a source; the update that caused it may come
\* again, and its intent key finds the row.
EnqueueGatewayDelivery(m, a) ==
    /\ process # "down" /\ New(m)
    /\ Insert({<<m, 0>>}, a, FALSE)

ClaimOf(d) == [of |-> d, attempt |-> row[d].attempts, renewals |-> row[d].renewals]

\* The condition of renew_gateway_delivery and transition_claim.
Fence(claim) ==
    /\ row[claim.of].state = "delivering" /\ row[claim.of].owner = "live"
    /\ claim = ClaimOf(claim.of)

Unclaimed(r, state) == [r EXCEPT !.state = state, !.owner = "none", !.renewals = 0]

\* The claims of the gateway and the backoffs of its rows: some have passed.
Claimed(gateway) == {d \in Rows : row[d].address \in gateway /\ row[d].state = "delivering"}
BackingOff(gateway) ==
    {d \in Rows : row[d].address \in gateway /\ row[d].state = "failed_retryable"}

AfterExpiry_Retry(expired) ==
    [d \in Deliveries |->
       IF d \in expired THEN Unclaimed(row[d], "failed_retryable") ELSE row[d]]
AfterExpiry(expired) ==
    [d \in Deliveries |->
       IF d \notin expired THEN row[d]
       ELSE IF row[d].safe THEN Unclaimed(row[d], "failed_retryable")
       ELSE Unclaimed(row[d], "outcome_unknown")]

\* Wrong: also waits for rows that their own message holds up for good.
GoesFirst_HeldUp(e, d, r) ==
    /\ r[e].state \in Waiting /\ r[e].address = r[d].address /\ Before(e, d)
    /\ ~(e[2] > d[2] /\ (SameMessage(e, d) \/ ~r[d].sourced))

\* An earlier row that waits for nothing but its turn.  SQL compares a missing
\* source to neither TRUE nor FALSE, which hides later chunks from a response.
GoesFirst(e, d, r) ==
    /\ r[e].state \in Waiting /\ r[e].address = r[d].address /\ Before(e, d)
    /\ ~(e[2] > d[2] /\ (SameMessage(e, d) \/ ~r[d].sourced))
    /\ \A f \in Predecessors(e) : r[f].state \notin Unresolved

Claimable_AnyChunk(d, gateway, r) ==
    /\ d \in Rows /\ r[d].address \in gateway /\ r[d].state \in Waiting
    /\ \A e \in Rows : ~GoesFirst(e, d, r)
    /\ \A e \in Rows : r[e].address = r[d].address => r[e].state # "delivering"
Claimable(d, gateway, r) ==
    /\ d \in Rows /\ r[d].address \in gateway /\ r[d].state \in Waiting
    /\ \A e \in Rows : ~GoesFirst(e, d, r)
    /\ \A e \in Predecessors(d) : r[e].state = "delivered"
    /\ \A e \in Rows : r[e].address = r[d].address => r[e].state # "delivering"

Selected(gateway, backoff, limit, r) ==
    LET claimable == {d \in Deliveries \ backoff : Claimable(d, gateway, r)} IN
    {d \in claimable : Cardinality({e \in claimable : Before(e, d)}) < limit}

ClaimRows(S, r) ==
    [d \in Deliveries |->
       IF d \in S
       THEN [r[d] EXCEPT !.state = "delivering", !.attempts = @ + 1, !.owner = "live",
                         !.renewals = 0]
       ELSE r[d]]

Renewed(d) == [row EXCEPT ![d].renewals = @ + 1]

TransitionClaim_RetryUnknown(d, answer) ==
    row' = [row EXCEPT ![d] =
              CASE answer = "delivered" -> Unclaimed(@, "delivered")
                [] answer = "terminal"  -> Unclaimed(@, "failed_terminal")
                [] OTHER                -> Unclaimed(@, "failed_retryable")]
\* complete_, retry_ and fail_gateway_delivery.
TransitionClaim(d, answer) ==
    row' = [row EXCEPT ![d] =
              CASE answer = "delivered" -> Unclaimed(@, "delivered")
                [] answer = "retryable" -> Unclaimed(@, "failed_retryable")
                [] answer = "terminal"  -> Unclaimed(@, "failed_terminal")
                [] answer = "unknown"   -> Unclaimed(@, "outcome_unknown")]

\* What an answer settles.
Answered(d, answer) ==
    /\ faults' = IF answer = "retryable" THEN faults + 1 ELSE faults
    /\ faults' <= MaxFaults
    /\ outcome' = [outcome EXCEPT ![d] = IF answer = "unknown" THEN "doubt" ELSE answer]

-----------------------------------------------------------------------------
(* The Telegram worker (interfaces/telegram/delivery.rs).                  *)

TaskSet(step) == {d \in Deliveries : tg.task[d].step = step}
InProgress == TaskSet("first") \cup TaskSet("plain") \cup TaskSet("answered")
TgTask(d, task) == tg' = [tg EXCEPT !.task[d] = task]

\* run looks for a shutdown only between two batches; run_once claims.
TgClaim(expired, backoff) ==
    /\ process = "running" /\ tg.pc = "idle"
    /\ LET r == AfterExpiry(expired)
           claimed == Selected(Chats, backoff, Batch, r) IN
       /\ row' = ClaimRows(claimed, r)
       /\ tg' = [tg EXCEPT
                   !.pc = IF claimed = {} THEN "idle" ELSE "batch",
                   !.task = [d \in Deliveries |->
                               IF d \in claimed
                               THEN [step |-> "queued", answer |-> "unknown",
                                     claim |-> [of |-> d, attempt |-> row'[d].attempts,
                                                renewals |-> 0]]
                               ELSE NoTask]]
    /\ UNCHANGED <<queue, outcome, rn, process, faults, stops>>

\* deliver renews the claim and hands the payload to the transport, unless the
\* claim is lost or the managed file fails its integrity check.
TgDeliver(d) ==
    /\ tg.task[d].step = "queued" /\ Cardinality(InProgress) < Concurrency
    /\ \A e \in TaskSet("queued") : e = d \/ Before(d, e)
    /\ IF ~Fence(tg.task[d].claim)
       THEN TgTask(d, NoTask) /\ UNCHANGED <<row, outcome>>
       ELSE /\ row' = Renewed(d)
            /\ LET claim == [tg.task[d].claim EXCEPT !.renewals = @ + 1] IN
               \/ /\ TgTask(d, [step |-> "first", claim |-> claim, answer |-> "unknown"])
                  /\ outcome' = [outcome EXCEPT ![d] = "doubt"]
               \/ /\ TgTask(d, [step |-> "answered", claim |-> claim, answer |-> "terminal"])
                  /\ UNCHANGED outcome
    /\ UNCHANGED <<queue, rn, process, faults, stops>>

\* A tick of send_with_renewals; a lost claim ends the task with an error.
TgRenew(d) ==
    /\ tg.task[d].step \in {"first", "plain"} /\ row[d].renewals <= MaxRenewals
    /\ IF Fence(tg.task[d].claim)
       THEN row' = Renewed(d) /\ tg' = [tg EXCEPT !.task[d].claim.renewals = @ + 1]
       ELSE UNCHANGED row /\ tg' = [tg EXCEPT !.task[d].step = "done", !.broken = TRUE]
    /\ UNCHANGED <<queue, outcome, rn, process, faults, stops>>

TgAnswer(d, answer) ==
    /\ tg.task[d].step \in {"first", "plain"} /\ Answered(d, answer)
    /\ TgTask(d, [tg.task[d] EXCEPT !.step = "answered", !.answer = answer])
    /\ UNCHANGED <<queue, row, rn, process, stops>>

\* send_text: a rich message that is rejected is sent again as plain text.
TgFallBack(d) ==
    /\ tg.task[d].step = "first"
    /\ TgTask(d, [tg.task[d] EXCEPT !.step = "plain"])
    /\ outcome' = [outcome EXCEPT ![d] = "doubt"]
    /\ UNCHANGED <<queue, row, rn, process, faults, stops>>

TgRecord(d) ==
    /\ tg.task[d].step = "answered"
    /\ IF Fence(tg.task[d].claim)
       THEN TransitionClaim(d, tg.task[d].answer) /\ TgTask(d, NoTask)
       ELSE UNCHANGED row /\ tg' = [tg EXCEPT !.task[d] = NoTask, !.broken = TRUE]
    /\ UNCHANGED <<queue, outcome, rn, process, faults, stops>>

\* A store call fails: the task ends with the error, its row stays claimed.
TgStoreFails(d) ==
    /\ tg.task[d].step \in {"queued", "first", "plain", "answered"} /\ faults < MaxFaults
    /\ faults' = faults + 1
    /\ tg' = [tg EXCEPT !.task[d] = NoTask, !.broken = TRUE]
    /\ UNCHANGED <<queue, row, outcome, rn, process, stops>>

\* run_once returns the first error only when every task has ended.
TgEndBatch ==
    /\ tg.pc = "batch" /\ \A d \in Deliveries : tg.task[d].step = "none"
    /\ tg' = [TgStart EXCEPT !.pc = IF tg.broken THEN "failed" ELSE "idle"]
    /\ UNCHANGED <<queue, row, outcome, rn, process, faults, stops>>

TgStop ==
    /\ process = "draining" /\ tg.pc = "idle"
    /\ tg' = [tg EXCEPT !.pc = "stopped"]
    /\ UNCHANGED <<queue, row, outcome, rn, process, faults, stops>>

-----------------------------------------------------------------------------
(* The Reticulum worker (interfaces/reticulum.rs).                         *)

Sending == rn.claim.of
RnMoves(record) == rn' = record /\ UNCHANGED <<queue, tg, process, stops>>
RnFails == [rn EXCEPT !.pc = "cleanup_failed"]

RnClaim(expired, backoff) ==
    /\ process = "running" /\ rn.pc = "idle"
    /\ LET r == AfterExpiry(expired)
           claimed == Selected(Peers, backoff, 1, r) IN
       /\ row' = ClaimRows(claimed, r)
       /\ RnMoves(IF claimed = {} THEN rn
                  ELSE LET d == CHOOSE d \in claimed : TRUE IN
                       [rn EXCEPT !.pc = "claimed",
                          !.claim = [of |-> d, attempt |-> row'[d].attempts, renewals |-> 0]])
    /\ UNCHANGED <<outcome, faults>>

\* Not a text, or one the protocol cannot carry.
RnReject ==
    /\ rn.pc = "claimed" /\ rn.claim.attempt = 1
    /\ IF Fence(rn.claim)
       THEN TransitionClaim(Sending, "terminal") /\ RnMoves(RnStart)
       ELSE UNCHANGED row /\ RnMoves(RnFails)
    /\ UNCHANGED <<outcome, faults>>

\* set_gateway_delivery_retry_safe(false), and the copy that shutdown uses.
RnGuard ==
    /\ rn.pc = "claimed"
    /\ IF Fence(rn.claim)
       THEN /\ row' = [row EXCEPT ![Sending].safe = FALSE]
            /\ RnMoves([rn EXCEPT !.pc = "guarded", !.active = rn.claim])
       ELSE UNCHANGED row /\ RnMoves(RnFails)
    /\ UNCHANGED <<outcome, faults>>

RnSubmit ==
    /\ rn.pc = "guarded"
    /\ outcome' = [outcome EXCEPT ![Sending] = "doubt"]
    /\ RnMoves([rn EXCEPT !.pc = "awaiting"])
    /\ UNCHANGED <<row, faults>>

RnRenew_KeepClaim ==
    /\ rn.pc = "awaiting" /\ row[Sending].renewals < MaxRenewals
    /\ IF Fence(rn.claim)
       THEN row' = Renewed(Sending) /\ RnMoves(rn)
       ELSE UNCHANGED row /\ RnMoves(RnFails)
    /\ UNCHANGED <<outcome, faults>>
\* Renewal changes the claim of the call, not the copy for shutdown.
RnRenew ==
    /\ rn.pc = "awaiting" /\ row[Sending].renewals < MaxRenewals
    /\ IF Fence(rn.claim)
       THEN row' = Renewed(Sending) /\ RnMoves([rn EXCEPT !.claim.renewals = @ + 1])
       ELSE UNCHANGED row /\ RnMoves(RnFails)
    /\ UNCHANGED <<outcome, faults>>

RnAnswer(answer) ==
    /\ rn.pc = "awaiting" /\ Answered(Sending, answer)
    /\ RnMoves([rn EXCEPT !.pc = "answered", !.answer = answer])
    /\ UNCHANGED row

\* Fatal, a closed pipe, or a command that could not be written whole.
RnBridgeLost ==
    /\ rn.pc \in {"guarded", "awaiting"} /\ faults < MaxFaults
    /\ faults' = faults + 1
    /\ outcome' = [outcome EXCEPT ![Sending] = "doubt"]
    /\ RnMoves([rn EXCEPT !.pc = "lost", !.answer = "unknown"])
    /\ UNCHANGED row

\* An error that ends the call without a transition: a store call or the
\* ingress of a message fails, or the bridge sends what nobody asked for.
RnError ==
    /\ rn.pc \in {"idle", "claimed", "awaiting", "answered"} /\ faults < MaxFaults
    /\ faults' = faults + 1
    /\ RnMoves(RnFails)
    /\ UNCHANGED <<row, outcome>>

\* transition_delivery; active_delivery is cleared in a later step.
RnRecord ==
    /\ rn.pc \in {"answered", "lost"}
    /\ IF Fence(rn.claim)
       THEN /\ TransitionClaim(Sending, rn.answer)
            /\ RnMoves([rn EXCEPT !.pc = IF @ = "lost" THEN "recorded_lost" ELSE "recorded"])
       ELSE UNCHANGED row /\ RnMoves(RnFails)
    /\ UNCHANGED <<outcome, faults>>

RnDone ==
    /\ rn.pc \in {"recorded", "recorded_lost"}
    /\ RnMoves(IF rn.pc = "recorded" THEN RnStart
               ELSE [rn EXCEPT !.pc = "cleanup_failed", !.active = NoClaim])
    /\ UNCHANGED <<row, outcome, faults>>

\* run_inner: the shutdown branch of select! drops run_delivery_once at
\* whatever await it is.
RnInterrupt ==
    /\ process = "draining"
    /\ rn.pc \notin {"cleanup", "cleanup_failed", "stopped", "failed"}
    /\ RnMoves([rn EXCEPT !.pc = "cleanup"])
    /\ UNCHANGED <<row, outcome, faults>>

\* shutdown marks the active delivery and stops the bridge; a refused
\* transition returns before the bridge is stopped.
RnCleanup ==
    /\ rn.pc \in {"cleanup", "cleanup_failed"}
    /\ LET ends == IF rn.pc = "cleanup" THEN "stopped" ELSE "failed" IN
       IF rn.active = NoClaim
       THEN UNCHANGED row /\ RnMoves([RnStart EXCEPT !.pc = ends])
       ELSE IF Fence(rn.active)
            THEN TransitionClaim(rn.active.of, "unknown") /\ RnMoves([RnStart EXCEPT !.pc = ends])
            ELSE UNCHANGED row /\ RnMoves([RnStart EXCEPT !.pc = "failed"])
    /\ UNCHANGED <<outcome, faults>>

-----------------------------------------------------------------------------
(* The life of the daemon.                                                 *)

Shutdown ==
    /\ process = "running" /\ stops < MaxStops
    /\ process' = "draining" /\ stops' = stops + 1
    /\ UNCHANGED <<queue, row, outcome, tg, rn, faults>>

\* The process dies, or the supervisor aborts its tasks.
Die ==
    /\ process' = "down"
    /\ row' = [d \in Deliveries |-> IF row[d].owner = "live" THEN [row[d] EXCEPT !.owner = "dead"]
                                    ELSE row[d]]
    /\ tg' = [TgStart EXCEPT !.pc = "stopped"]
    /\ rn' = [RnStart EXCEPT !.pc = "stopped"]
    /\ UNCHANGED <<queue, outcome, faults>>

\* A component that failed, or a completed drain, ends the process.
Exit ==
    /\ process # "down"
    /\ \/ "failed" \in {tg.pc, rn.pc}
       \/ process = "draining" /\ tg.pc = "stopped" /\ rn.pc = "stopped"
    /\ Die /\ UNCHANGED stops

Crash ==
    /\ process # "down" /\ stops < MaxStops
    /\ Die /\ stops' = stops + 1

Restart ==
    /\ process = "down"
    /\ process' = "running" /\ tg' = TgStart /\ rn' = RnStart
    /\ UNCHANGED <<queue, row, outcome, faults, stops>>

-----------------------------------------------------------------------------
TgStep(d) ==
    \/ TgDeliver(d) \/ TgRenew(d) \/ TgFallBack(d) \/ TgRecord(d) \/ TgStoreFails(d)
    \/ \E answer \in Answers : TgAnswer(d, answer)

RnStep ==
    \/ \E expired \in SUBSET Claimed(Peers), backoff \in SUBSET BackingOff(Peers) :
         RnClaim(expired, backoff)
    \/ RnReject \/ RnGuard \/ RnSubmit \/ RnRenew \/ RnBridgeLost \/ RnError
    \/ RnRecord \/ RnDone \/ RnInterrupt \/ RnCleanup
    \/ \E answer \in Answers : RnAnswer(answer)

Next ==
    \/ \E S \in SUBSET Messages, a \in Addresses : Project(S, a)
    \/ \E m \in Messages, a \in Addresses : EnqueueGatewayDelivery(m, a)
    \/ \E expired \in SUBSET Claimed(Chats), backoff \in SUBSET BackingOff(Chats) :
         TgClaim(expired, backoff)
    \/ TgEndBatch \/ TgStop
    \/ \E d \in Deliveries : TgStep(d)
    \/ RnStep
    \/ Shutdown \/ Exit \/ Crash \/ Restart

Spec == Init /\ [][Next]_vars

-----------------------------------------------------------------------------
(* Properties.                                                             *)

TypeOK ==
    /\ queue \in Seq(Deliveries)
    /\ row \in [Deliveries -> RowRecords]
    /\ outcome \in [Deliveries -> Outcomes]
    /\ tg \in [pc : {"idle", "batch", "stopped", "failed"}, broken : BOOLEAN,
               task : [Deliveries -> TaskRecords]]
    /\ rn \in [pc : {"idle", "claimed", "guarded", "awaiting", "answered", "lost", "recorded",
                     "recorded_lost", "cleanup", "cleanup_failed", "stopped", "failed"},
               claim : Claims \cup {NoClaim}, active : Claims \cup {NoClaim}, answer : Answers]
    /\ process \in {"running", "draining", "down"}
    /\ faults \in Nat /\ stops \in Nat

\* What a row says of a delivery is what the transport said: delivered and
\* rejected ones were answered, one that may be sent again was answered
\* retryably or never sent, and one in doubt is claimed or marked unknown
\* (transition_claim, the expiry of claim_gateway_deliveries).
RowTellsOutcome ==
    \A d \in Rows :
      /\ row[d].state = "delivered" => outcome[d] = "delivered"
      /\ row[d].state = "failed_terminal" => outcome[d] \in {"none", "terminal", "retryable"}
      /\ row[d].state \in Waiting => outcome[d] \in {"none", "retryable"}
      /\ outcome[d] = "doubt" => row[d].state \in {"delivering", "outcome_unknown"}

\* A chunk is handed to the transport only after the transport has accepted
\* every earlier chunk of its message (the predecessor condition); and one chat
\* or peer has at most one chunk of a run's messages in flight, and at most one
\* response, also across batches, workers that died and claims that expired (the
\* active condition).  A chunk and a response can be in flight together: a later
\* chunk does not hold up a response, and one query selects both.
ChunksInOrder ==
    \A d, e \in Rows :
      /\ SameMessage(d, e) /\ e[2] < d[2] /\ outcome[d] # "none" => outcome[e] = "delivered"
      /\ /\ row[d].address = row[e].address /\ row[d].sourced = row[e].sourced
         /\ row[d].state = "delivering" /\ row[e].state = "delivering"
         => d = e

\* Nobody but the worker that holds it ends the claim of a running worker: a
\* delivery in the transport's hands is fenced by its holder (the renewals).
LiveClaimsHold ==
    /\ \A d \in InProgress : Fence(tg.task[d].claim)
    /\ rn.pc \in {"guarded", "awaiting", "answered", "lost"} => Fence(rn.claim)

\* Nothing whose outcome is in doubt is handed to a transport again.
Resubmitted(d) == outcome[d] = "doubt" /\ row'[d].attempts > row[d].attempts
NeverRepeatedInDoubt == [][\A d \in Deliveries : ~Resubmitted(d)]_vars

Settled(d) == row[d].state \in {"delivered"} \cup Unresolved

\* Held up by its own message, for good.
HeldUp(d) == \E e \in Predecessors(d) : row[e].state \in Unresolved

\* A later chunk of one message stands before a chunk of another, which stands
\* before an earlier chunk of the first.
Interlocked(a) ==
    \E d, e, f \in Rows :
      /\ {row[d].address, row[e].address, row[f].address} = {a}
      /\ SameMessage(d, f) /\ f[2] < d[2] /\ ~SameMessage(d, e)
      /\ Before(d, e) /\ Before(e, f)

\* Every delivery is settled in the end, unless its message was given up or
\* the ids of the chunks of two messages interleave (the order of
\* claim_gateway_deliveries, the expiry of claims and backoffs).
EveryDeliverySettles ==
    \A d \in Deliveries :
      []<>(d \in Rows => Settled(d) \/ HeldUp(d) \/ Interlocked(row[d].address))

\* Rows wait that nothing holds up, and none can be claimed.
Stuck(a, r) ==
    /\ \E d \in Rows :
         /\ r[d].address = a /\ r[d].state \in Waiting
         /\ \A e \in Predecessors(d) : r[e].state \notin Unresolved
    /\ \A d \in Rows : ~Claimable(d, {a}, r)

\* Whatever became of earlier deliveries, batches and claims, a query that comes
\* when the deadlines of an address have passed finds something to send, if a row
\* waits there: the order of the queue, the order of chunks and the limit of one
\* in flight never block each other, except where ids interleave.
QueueNeverStuck ==
    \A a \in Addresses : Interlocked(a) \/ ~Stuck(a, AfterExpiry(Claimed({a})))

=============================================================================
