--------------------------- MODULE GatewayIngress ---------------------------
(***************************************************************************)
(* How input from outside reaches an actor: the Telegram polling worker    *)
(* and its update handler (interfaces/telegram), the linking of channels   *)
(* to actors by one-time codes (runtime/identity_link.rs and its store),   *)
(* generic webhooks and the results that wait for a route                  *)
(* (sqlite/webhook.rs, sqlite/ingress.rs), composed with the actor table   *)
(* of Actors; a quantum is one step here.                                  *)
(*                                                                         *)
(* The handler of an update resolves the sender, downloads, ingests and    *)
(* answers in separate transactions, while actors are enabled, disabled    *)
(* and deleted; and Telegram sends again every update that the process had *)
(* not acknowledged by asking for a higher one when it died.               *)
(***************************************************************************)
EXTENDS Actors

CONSTANTS
    MaxUpdate,      \* bound: updates, by their increasing id
    Contents,       \* bound: what senders send, see UpdateRecords
    Subjects,       \* senders; a private chat has its sender's address
    Linked,         \* senders linked to the default actor at the start
    Codes,          \* link codes (random: no two are alike)
    Hooks,          \* webhook deliveries, all for the default actor, numbered
    AttemptLimit,   \* failed redemptions before a sender is blocked: 5
    None

Updates == 1 .. MaxUpdate

\* A private message: a text, a file, or /link with a code.
UpdateRecords == [subject : Subjects, kind : {"text", "file"}, code : {None}]
                   \cup [subject : Subjects, kind : {"link"}, code : Codes]

ASSUME IngressAssumption ==
    /\ MaxUpdate \in Nat \ {0} /\ AttemptLimit \in Nat \ {0}
    /\ Linked \subseteq Subjects
    /\ Events = Updates \cup Hooks /\ Updates \cap Hooks = {}
    /\ Contents \subseteq UpdateRecords /\ None \notin Codes

VARIABLES
    sent,       \* Telegram: the updates of the bot
    confirmed,  \* Telegram: updates below this one are not sent again
    offset,     \* the polling worker's next offset
    batch,      \* updates of the last answer it has not handled
    step,       \* where the handler of the first of them is
    identity,   \* identities: the actor a sender is linked to
    code,       \* identity_link_codes: at most one per actor
    issued,     \* codes that have been generated
    failures,   \* identity_link_attempts
    command,    \* gateway_commands: the outcome of each /link update
    response,   \* gateway_deliveries: the answer to each update
    route       \* actor_latest_telegram_routes

ingressVars == <<sent, confirmed, offset, batch, step, identity, code, issued, failures,
                 command, response, route>>
vars == <<actorVars, ingressVars>>

Outcomes == {"linked", "already", "invalid", "rate_limited", "conflict"}
Answers  == Outcomes \cup {"not_linked", "disabled", "no_file"}

NotSent == [subject |-> None, kind |-> "none", code |-> None]

Start == [pc |-> "start", text |-> "none"]
Steps == {Start, [pc |-> "download", text |-> "none"], [pc |-> "ingest", text |-> "none"]}
           \cup [pc : {"answer"}, text : Answers]

NoCode == [code |-> None, live |-> FALSE]

Init ==
    /\ ActorsInit
    /\ sent = [u \in Updates |-> NotSent]
    /\ confirmed = 1 /\ offset = 1 /\ batch = {} /\ step = Start
    /\ identity = [s \in Subjects |-> IF s \in Linked THEN Default ELSE None]
    /\ code = [a \in Actors |-> NoCode] /\ issued = {}
    /\ failures = [s \in Subjects |-> 0]
    /\ command = [u \in Updates |-> "none"]
    /\ response = [u \in Updates |-> "none"]
    /\ route = [a \in Actors |-> None]

-----------------------------------------------------------------------------
(* Link codes.                                                             *)

IssueLinkCode(a, c) ==
    /\ Enabled(a) /\ c \notin issued
    /\ code' = [code EXCEPT ![a] = [code |-> c, live |-> TRUE]]
    /\ issued' = issued \cup {c}
    /\ UNCHANGED <<actorVars, sent, confirmed, offset, batch, step, identity, failures,
                   command, response, route>>

LinkCodeExpires(a) ==
    /\ code[a].live
    /\ code' = [code EXCEPT ![a].live = FALSE]
    /\ UNCHANGED <<actorVars, sent, confirmed, offset, batch, step, identity, issued, failures,
                   command, response, route>>

\* Failures are forgotten when their window, or the block, is over.
AttemptWindowPasses(s) ==
    /\ failures[s] > 0
    /\ failures' = [failures EXCEPT ![s] = 0]
    /\ UNCHANGED <<actorVars, sent, confirmed, offset, batch, step, identity, code, issued,
                   command, response, route>>

\* At startup, and every five minutes.
CollectExpired == code' = [a \in Actors |-> IF code[a].live THEN code[a] ELSE NoCode]

RunIdentityLinkGc ==
    /\ \E a \in Actors : code[a].code # None /\ ~code[a].live
    /\ CollectExpired
    /\ UNCHANGED <<actorVars, sent, confirmed, offset, batch, step, identity, issued, failures,
                   command, response, route>>

-----------------------------------------------------------------------------
(* Administration with the rows this module adds: they cascade, too.       *)

Unlinked(a) == [s \in Subjects |-> IF identity[s] = a THEN None ELSE identity[s]]

DeleteWithRows(a, force) ==
    /\ DeleteActor(a, force)
    /\ ~force => code[a] = NoCode /\ \A s \in Subjects : identity[s] # a
    /\ identity' = Unlinked(a)
    /\ code' = [code EXCEPT ![a] = NoCode]
    /\ route' = [route EXCEPT ![a] = None]
    /\ UNCHANGED <<sent, confirmed, offset, batch, step, issued, failures, command, response>>

-----------------------------------------------------------------------------
(* The polling worker.                                                     *)

SendUpdate(u, content) ==
    /\ sent[u] = NotSent /\ \A v \in Updates : v < u => sent[v] # NotSent
    /\ sent' = [sent EXCEPT ![u] = content]
    /\ UNCHANGED <<actorVars, confirmed, offset, batch, step, identity, code, issued, failures,
                   command, response, route>>

\* Asking from offset on acknowledges every update below it.
GetUpdates ==
    /\ batch = {}
    /\ offset # confirmed \/ \E u \in Updates : u >= offset /\ sent[u] # NotSent
    /\ confirmed' = offset
    /\ batch' = {u \in Updates : u >= offset /\ sent[u] # NotSent}
    /\ UNCHANGED <<actorVars, sent, offset, step, identity, code, issued, failures,
                   command, response, route>>

First == CHOOSE u \in batch : \A v \in batch : u <= v
Handling(pc) == batch # {} /\ step.pc = pc
From == sent[First].subject

Goto(pc) == step' = [pc |-> pc, text |-> "none"] /\ UNCHANGED <<offset, batch>>
AnswerWith(text) == step' = [pc |-> "answer", text |-> text] /\ UNCHANGED <<offset, batch>>
Handled == offset' = First + 1 /\ batch' = batch \ {First} /\ step' = Start
Failed_Skip  == offset' = First + 1 /\ batch' = batch \ {First} /\ step' = Start
Failed  == offset' = First /\ batch' = {} /\ step' = Start

-----------------------------------------------------------------------------
(* The handler of an update.                                               *)

ResolveIdentity ==
    /\ Handling("start") /\ sent[First].kind # "link"
    /\ IF identity[From] = None THEN AnswerWith("not_linked")
       ELSE IF ~Enabled(identity[From]) THEN AnswerWith("disabled")
       ELSE Goto(IF sent[First].kind = "file" THEN "download" ELSE "ingest")
    /\ UNCHANGED <<actorVars, sent, confirmed, identity, code, issued, failures,
                   command, response, route>>

Download(ok) ==
    /\ Handling("download")
    /\ IF ok THEN Goto("ingest") ELSE AnswerWith("no_file")
    /\ UNCHANGED <<actorVars, sent, confirmed, identity, code, issued, failures,
                   command, response, route>>

Deferred(a) == EventsOf(a, {"deferred"})
Newest(E) == CHOOSE e \in E : \A f \in E : event[f].seq <= event[e].seq

ReleaseDeferred_All(E, u) ==
    [e \in E |-> [event[e] EXCEPT !.state = "owed", !.by = u]]
\* The newest deferred result goes to the new route, the others are superseded.
ReleaseDeferred(E, u) ==
    [e \in E |-> IF e = Newest(E) THEN [event[e] EXCEPT !.state = "owed", !.by = u]
                                  ELSE [event[e] EXCEPT !.state = "superseded"]]

\* The identity is read again, with the state of its actor, inside the transaction.
AdmittedActor(s) == {a \in Actors : identity[s] = a /\ Enabled(a)}

Ingest ==
    /\ Handling("ingest")
    /\ IF event[First] # NoEvent
       THEN Handled /\ UNCHANGED <<actor, event, route>>
       ELSE IF AdmittedActor(From) = {}
       THEN Failed /\ UNCHANGED <<actor, event, route>>
       ELSE \E a \in AdmittedActor(From) :
              /\ Handled
              /\ actor' = [actor EXCEPT ![a].next = @ + 1]
              /\ event' = [e \in Events |->
                    IF e = First
                    THEN [actor |-> a, seq |-> actor[a].next + 1, routed |-> TRUE,
                          state |-> "pending", by |-> 0]
                    ELSE IF e \in Deferred(a) THEN ReleaseDeferred(Deferred(a), First)[e]
                    ELSE event[e]]
              /\ route' = [route EXCEPT ![a] = From]
    /\ UNCHANGED <<lease, tasks, manager, changes, crashes, sent, confirmed, identity, code,
                   issued, failures, command, response>>

\* A live code of an enabled actor.
CodeActors(c) == {a \in Actors : code[a] = [code |-> c, live |-> TRUE] /\ Enabled(a)}

Consume_Keep(a, s) ==
    /\ UNCHANGED code
    /\ failures' = [failures EXCEPT ![s] = 0]
Consume(a, s) ==
    /\ code' = [code EXCEPT ![a] = NoCode]
    /\ failures' = [failures EXCEPT ![s] = 0]

\* redeem_in_transaction for sender s.
RedeemOutcome(s, c) ==
    IF failures[s] = AttemptLimit THEN "rate_limited"
    ELSE IF CodeActors(c) = {} THEN "invalid"
    ELSE IF identity[s] = None THEN "linked"
    ELSE IF identity[s] \in CodeActors(c) THEN "already"
    ELSE "conflict"

RedeemEffect(s, c, outcome) ==
    CASE outcome \in {"rate_limited", "conflict"} -> UNCHANGED <<identity, code, failures>>
      [] outcome = "invalid" ->
           /\ failures' = [failures EXCEPT ![s] = @ + 1]
           /\ UNCHANGED <<identity, code>>
      [] OTHER -> \E a \in CodeActors(c) :
           identity' = [identity EXCEPT ![s] = a] /\ Consume(a, s)

StoredOutcome_None(u) == "none"
StoredOutcome(u) == command[u]

\* A command that was carried out before gets the outcome it had then.
RedeemOnce ==
    /\ Handling("start") /\ sent[First].kind = "link"
    /\ IF StoredOutcome(First) # "none"
       THEN AnswerWith(StoredOutcome(First)) /\ UNCHANGED <<identity, code, failures, command>>
       ELSE LET outcome == RedeemOutcome(From, sent[First].code) IN
              /\ AnswerWith(outcome)
              /\ command' = [command EXCEPT ![First] = outcome]
              /\ RedeemEffect(From, sent[First].code, outcome)
    /\ UNCHANGED <<actorVars, sent, confirmed, issued, response, route>>

\* An answer has the update's intent key: the same answer is queued once, and a
\* different one is refused, which fails the update.
EnqueueResponse ==
    /\ Handling("answer")
    /\ IF response[First] \in {"none", step.text}
       THEN Handled /\ response' = [response EXCEPT ![First] = step.text]
       ELSE Failed /\ UNCHANGED response
    /\ UNCHANGED <<actorVars, sent, confirmed, identity, code, issued, failures, command, route>>

-----------------------------------------------------------------------------
(* Generic webhooks.                                                       *)

IngestWebhook(h) ==
    /\ event[h] = NoEvent /\ \A g \in Hooks : g < h => event[g] # NoEvent
    /\ Enabled(Default)
    /\ AppendEvent(h, Default, route[Default] # None)
    /\ UNCHANGED <<lease, tasks, manager, changes, crashes, ingressVars>>

-----------------------------------------------------------------------------
\* From AcquireReadyActorFor to ReleaseLease.
RunQuantum(a) ==
    /\ Enabled(a) /\ Open(a) # {}
    /\ SettleOldest(a)
    /\ UNCHANGED <<actor, lease, tasks, manager, changes, crashes, ingressVars>>

\* The worker's offset is not stored: a new process asks without one.  (A death
\* in which the worker loses nothing and no code is collected changes nothing.)
Restart ==
    /\ offset # confirmed \/ batch # {} \/ \E a \in Actors : code[a].code # None /\ ~code[a].live
    /\ \E live \in SUBSET Actors : RestartTasks(live)
    /\ CollectExpired
    /\ offset' = confirmed /\ batch' = {} /\ step' = Start
    /\ UNCHANGED <<sent, confirmed, identity, issued, failures, command, response, route>>

\* Whether the results of an actor have arrived matters to its deletion only.
Deletable(a) == a # Default

Handle ==
    \/ ResolveIdentity \/ Ingest \/ RedeemOnce \/ EnqueueResponse
    \/ \E ok \in BOOLEAN : Download(ok)

Next ==
    \/ \E u \in Updates, content \in Contents : SendUpdate(u, content)
    \/ GetUpdates
    \/ Handle
    \/ \E a \in Actors, c \in Codes : IssueLinkCode(a, c)
    \/ \E a \in Actors : LinkCodeExpires(a)
    \/ \E s \in Subjects : AttemptWindowPasses(s)
    \/ RunIdentityLinkGc
    \/ \E h \in Hooks : IngestWebhook(h)
    \/ Administer /\ UNCHANGED ingressVars
    \/ \E a \in Actors, force \in BOOLEAN : DeleteWithRows(a, force)
    \/ \E a \in Actors : RunQuantum(a)
    \/ \E e \in Events : Deletable(event[e].actor) /\ DeliverResult(e, "settled") /\ UNCHANGED ingressVars
    \/ Restart

Spec == Init /\ [][Next]_vars

\* The polling worker runs: a component of the daemon, which retries for ever.
FairSpec == Spec /\ WF_vars(GetUpdates \/ Handle)

-----------------------------------------------------------------------------
(* Properties.                                                             *)

TypeOK ==
    /\ ActorsTypeOK
    /\ sent \in [Updates -> UpdateRecords \cup {NotSent}]
    /\ confirmed \in 1 .. MaxUpdate + 1 /\ offset \in 1 .. MaxUpdate + 1
    /\ batch \subseteq Updates /\ step \in Steps
    /\ identity \in [Subjects -> Actors \cup {None}]
    /\ code \in [Actors -> [code : Codes, live : BOOLEAN] \cup {NoCode}]
    /\ issued \subseteq Codes
    /\ failures \in [Subjects -> 0 .. AttemptLimit]
    /\ command \in [Updates -> Outcomes \cup {"none"}]
    /\ response \in [Updates -> Answers \cup {"none"}]
    /\ route \in [Actors -> Subjects \cup {None}]

\* A code links or confirms one sender, once, also when the update that
\* carries it is sent again (redeem_link_code_once, consume_code_and_attempts);
\* and a sender is linked only by such a code, to an actor that exists: what an
\* actor of the same name was linked to before is forgotten.
LinksAreEarned ==
    /\ \A u, v \in Updates :
         /\ command[u] \in {"linked", "already"} /\ command[v] \in {"linked", "already"}
         /\ sent[u].code = sent[v].code
         => u = v
    /\ \A s \in Subjects : identity[s] # None =>
         /\ Exists(identity[s])
         /\ \/ s \in Linked /\ identity[s] = Default
            \/ \E u \in Updates : command[u] = "linked" /\ sent[u].subject = s

\* Of the results of an actor that wait for a route, one message releases the
\* newest and no other; one that is passed over has a newer one released; and a
\* result never goes to the route of another actor
\* (record_latest_route_and_release_deferred).
LatestOnly ==
    \A h \in Hooks :
      /\ event[h].state = "superseded" =>
           \E e \in Hooks : event[e].by # 0 /\ event[e].seq > event[h].seq
      /\ event[h].by # 0 =>
           /\ event[event[h].by].actor = event[h].actor /\ event[event[h].by] # NoEvent
           /\ \A e \in Hooks \ {h} : event[e].by # event[h].by

\* An update the worker moves past has become an event or has an answer queued,
\* and Telegram's acknowledgement never runs ahead of the worker, so a death of
\* the process between any two steps of the handler loses no update
\* (PollingWorker, TelegramIngressHandler).
Dealt(u) == response[u] # "none" \/ event[u] # NoEvent
NeverSkipped ==
    [][ /\ confirmed' <= offset
        /\ \A u \in offset .. offset' - 1 : Dealt(u)' ]_vars

\* An update that was answered by a process that died, and to which the present
\* state of the sender's actor gives another answer.
Contradicted(u) ==
    /\ response[u] # "none" /\ sent[u].kind # "link"
    /\ \/ identity[sent[u].subject] = None /\ response[u] # "not_linked"
       \/ identity[sent[u].subject] # None /\ ~Enabled(identity[sent[u].subject]) /\ response[u] # "disabled"
       \/ sent[u].kind = "file"

\* Every update is handled in the end, unless one before it is contradicted:
\* a /link never is (redeem_link_code_once, enqueue_gateway_delivery).
EveryUpdateIsHandled ==
    \A u \in Updates :
      []<>(sent[u] # NotSent => offset > u \/ \E v \in Updates : v <= u /\ Contradicted(v))

=============================================================================
