------------------------ MODULE LocalSessions_proofs ------------------------
(***************************************************************************)
(* Theorems about LocalSessions for every finite set of connections and    *)
(* every limit of the hub.  First the admission of connections: a client   *)
(* that is told its request does not exist may submit it again.  Then, on  *)
(* top of it, the streams: no text is lost without a gap marker, and the   *)
(* byte budget is what the queues hold.                                    *)
(***************************************************************************)
EXTENDS LocalSessions, FiniteSetTheorems, SequenceTheorems, TLAPS

-----------------------------------------------------------------------------
(* The inductive invariant.                                                *)

\* Handlers whose decode guard is still held, and submissions that may still
\* commit.
Undecoded == {"spawned", "registered", "open", "waiting"}
Uncommitted == Undecoded \cup {"storing", "stored"}

\* The rows of the handlers, and tickets in the order of acceptance.
HandlerTypes ==
    /\ handler \in [Conns -> HandlerRecords]
    /\ tickets \in Nat
    /\ \A c \in Conns : handler[c].ticket <= tickets
    /\ request \in {"absent", "active", "done", "delivered"}
    /\ missed \subseteq Conns
    /\ \A c \in missed : handler[c].pc = "closed"

\* The submission registry: its guard is held by a handler that stores, and a
\* handler that stores or waits without one has a predecessor that committed
\* or still holds it.
SubmissionGuard ==
    /\ \A c \in Conns : handler[c].guard => handler[c].pc \in {"storing", "stored"}
    /\ \A c \in Conns : handler[c].pc = "waiting" => request # "absent" \/ InFlight
    /\ \A c \in Conns : handler[c].pc = "storing" => request # "absent" \/ handler[c].guard
    /\ \A c \in Conns : handler[c].pc = "stored" => request # "absent"

\* What a resume has waited for: the decode guards of everyone accepted before
\* it, then the submissions among them.
HasWaited ==
    \A c, d \in Conns : handler[d].ticket < handler[c].ticket =>
      /\ handler[c].pc \in {"resolve_again", "read_again"} => handler[d].pc \notin Undecoded
      /\ handler[c].pc = "read_again" /\ request = "absent" =>
           handler[d].pc \notin Uncommitted

\* What a client that was told its request is missing relies on.
NoneBefore ==
    \A c \in missed, d \in Conns :
      handler[d].ticket < handler[c].ticket => handler[d].pc \notin Uncommitted

SessionsInv == HandlerTypes /\ SubmissionGuard /\ HasWaited /\ NoneBefore

-----------------------------------------------------------------------------
(* What a step of one handler keeps.                                       *)

\* No handler accepted earlier than the row k is in one of the given states.
NoEarlier(k, pcs) ==
    \A d \in Conns : handler[d].ticket < k.ticket => handler[d].pc \notin pcs

\* Handler c goes on with the row k: it keeps its ticket, or takes the next
\* one; it gives up the guard only once the request is stored, and stores, or
\* waits, without it only behind someone who had it; and it does not become
\* undecoded or uncommitted again.
Moves(c, k) ==
    /\ c \in Conns /\ k \in HandlerRecords
    /\ handler' = [handler EXCEPT ![c] = k]
    /\ handler[c].pc # "closed"
    /\ request # "absent" => request' # "absent"
    /\ request' \in {"absent", "active", "done", "delivered"}
    /\ \/ tickets' = tickets /\ k.ticket = handler[c].ticket
       \/ tickets' = tickets + 1 /\ k.ticket = tickets /\ k.pc = "spawned"
    /\ k.guard => k.pc \in {"storing", "stored"}
    /\ handler[c].guard => k.guard \/ request' # "absent"
    /\ k.pc = "waiting" => \/ handler[c].pc = "waiting" \/ request' # "absent" \/ InFlight
    /\ k.pc = "storing" => k.guard \/ request' # "absent"
    /\ k.pc = "stored" => request' # "absent"
    /\ k.pc \in Undecoded => handler[c].pc \in Undecoded \/ k.ticket = tickets
    /\ k.pc \in Uncommitted => handler[c].pc \in Uncommitted \/ k.ticket = tickets
    /\ k.pc \in {"resolve_again", "read_again"} => NoEarlier(k, Undecoded)
    /\ k.pc = "read_again" /\ request' = "absent" => NoEarlier(k, Uncommitted)

\* Rows before and after the move.
LEMMA MovedRows ==
  ASSUME HandlerTypes, NEW c, NEW k, Moves(c, k)
  PROVE  /\ c \in Conns /\ handler'[c] = k
         /\ \A d \in Conns : d # c => handler'[d] = handler[d]
         /\ handler' \in [Conns -> HandlerRecords]
         /\ \A d \in Conns : handler[d].ticket \in Nat /\ handler'[d].ticket \in Nat
         /\ tickets \in Nat /\ tickets' \in Nat
         /\ \A d \in Conns : handler[d].ticket <= tickets /\ handler'[d].ticket <= tickets'
  <1>1. /\ c \in Conns /\ handler'[c] = k /\ k \in HandlerRecords
        /\ \A d \in Conns : d # c => handler'[d] = handler[d]
        /\ handler' \in [Conns -> HandlerRecords]
    BY DEF Moves, HandlerTypes
  <1>2. \A d \in Conns : handler[d].ticket \in Nat /\ handler'[d].ticket \in Nat
    BY <1>1 DEF HandlerTypes, HandlerRecords
  <1>3. /\ tickets \in Nat /\ \A d \in Conns : handler[d].ticket <= tickets
        /\ \/ tickets' = tickets /\ k.ticket = handler[c].ticket
           \/ tickets' = tickets + 1 /\ k.ticket = tickets
    BY DEF HandlerTypes, Moves
  <1>4. ASSUME NEW d \in Conns PROVE handler'[d].ticket <= tickets'
    BY <1>1, <1>2, <1>3
  <1> QED BY <1>1, <1>2, <1>3, <1>4

\* The guard of the registry survives the move, or the request is stored.
LEMMA MovedGuard ==
  ASSUME SessionsInv, NEW c, NEW k, Moves(c, k)
  PROVE  SubmissionGuard'
  <1>1. /\ c \in Conns /\ handler'[c] = k
        /\ \A d \in Conns : d # c => handler'[d] = handler[d]
    BY MovedRows DEF SessionsInv
  <1>2. InFlight => InFlight' \/ request' # "absent"
    BY <1>1 DEF InFlight, Moves
  <1>3. \A d \in Conns : handler'[d].guard => handler'[d].pc \in {"storing", "stored"}
    BY <1>1 DEF SessionsInv, SubmissionGuard, Moves
  <1>4. ASSUME NEW d \in Conns, handler'[d].pc = "waiting"
        PROVE  request' # "absent" \/ InFlight'
    <2>1. handler[d].pc = "waiting" \/ request' # "absent" \/ InFlight
      BY <1>1, <1>4 DEF Moves
    <2>2. handler[d].pc = "waiting" => request # "absent" \/ InFlight
      BY DEF SessionsInv, SubmissionGuard
    <2>3. request # "absent" => request' # "absent"
      BY DEF Moves
    <2> QED BY <1>2, <2>1, <2>2, <2>3
  <1>5. \A d \in Conns : handler'[d].pc = "storing" => request' # "absent" \/ handler'[d].guard
    BY <1>1 DEF SessionsInv, SubmissionGuard, Moves
  <1>6. \A d \in Conns : handler'[d].pc = "stored" => request' # "absent"
    BY <1>1 DEF SessionsInv, SubmissionGuard, Moves
  <1> QED BY <1>3, <1>4, <1>5, <1>6 DEF SubmissionGuard

\* A move keeps the invariant.
LEMMA MoveKeeps ==
  ASSUME SessionsInv, NEW c, NEW k, Moves(c, k), missed' = missed
  PROVE  SessionsInv'
  <1>1. /\ c \in Conns /\ handler'[c] = k
        /\ \A d \in Conns : d # c => handler'[d] = handler[d]
        /\ handler' \in [Conns -> HandlerRecords]
        /\ \A d \in Conns : handler[d].ticket \in Nat /\ handler'[d].ticket \in Nat
        /\ tickets \in Nat /\ tickets' \in Nat
        /\ \A d \in Conns : handler[d].ticket <= tickets /\ handler'[d].ticket <= tickets'
    BY MovedRows DEF SessionsInv
  <1>2. c \notin missed
    BY DEF SessionsInv, HandlerTypes, Moves
  <1>3. HandlerTypes'
    BY <1>1, <1>2 DEF SessionsInv, HandlerTypes, Moves
  <1>4. \/ k.ticket = handler[c].ticket
        \/ k.ticket = tickets /\ k.pc = "spawned"
    BY DEF Moves
  <1>5. ASSUME NEW x \in Conns, NEW d \in Conns, x # c,
               handler'[d].ticket < handler'[x].ticket
        PROVE  /\ handler[d].ticket < handler[x].ticket
               /\ handler'[d].pc \in Undecoded => handler[d].pc \in Undecoded
               /\ handler'[d].pc \in Uncommitted => handler[d].pc \in Uncommitted
    <2>1. handler'[x] = handler[x]
      BY <1>1, <1>5
    <2>2. CASE d # c
      BY <1>1, <1>5, <2>1, <2>2
    <2>3. CASE d = c
      <3>1. handler'[d].ticket = k.ticket /\ handler'[d].pc = k.pc
        BY <1>1, <2>3
      <3>2. k.ticket # tickets
        BY <1>1, <1>5, <2>1, <3>1
      <3> QED BY <1>4, <1>5, <2>1, <2>3, <3>1, <3>2 DEF Moves
    <2> QED BY <2>2, <2>3
  <1>6. HasWaited'
    <2> SUFFICES ASSUME NEW x \in Conns, NEW d \in Conns,
                        handler'[d].ticket < handler'[x].ticket
                 PROVE  /\ handler'[x].pc \in {"resolve_again", "read_again"} =>
                             handler'[d].pc \notin Undecoded
                        /\ handler'[x].pc = "read_again" /\ request' = "absent" =>
                             handler'[d].pc \notin Uncommitted
      BY DEF HasWaited
    <2>1. CASE x = c
      <3>1. d # c
        BY <1>1, <2>1
      <3> QED BY <1>1, <2>1, <3>1 DEF Moves, NoEarlier
    <2>2. CASE x # c
      <3>1. handler'[x] = handler[x]
        BY <1>1, <2>2
      <3>2. request' = "absent" => request = "absent"
        BY DEF Moves
      <3> QED BY <1>5, <2>2, <3>1, <3>2 DEF SessionsInv, HasWaited
    <2> QED BY <2>1, <2>2
  <1>7. NoneBefore'
    <2> SUFFICES ASSUME NEW x \in missed, NEW d \in Conns,
                        handler'[d].ticket < handler'[x].ticket
                 PROVE  handler'[d].pc \notin Uncommitted
      BY DEF NoneBefore
    <2>1. x \in Conns /\ x # c
      BY <1>2 DEF SessionsInv, HandlerTypes
    <2> QED BY <1>5, <2>1 DEF SessionsInv, NoneBefore
  <1> QED BY <1>3, <1>6, <1>7, MovedGuard DEF SessionsInv

\* A step that moves no handler keeps it too.
LEMMA StayKeeps ==
  ASSUME SessionsInv, UNCHANGED <<handler, tickets, missed>>,
         request # "absent" => request' # "absent",
         request' \in {"absent", "active", "done", "delivered"}
  PROVE  SessionsInv'
  <1>1. HandlerTypes'
    BY DEF SessionsInv, HandlerTypes
  <1>2. SubmissionGuard'
    BY DEF SessionsInv, SubmissionGuard, InFlight
  <1>3. HasWaited'
    BY DEF SessionsInv, HasWaited
  <1>4. NoneBefore'
    BY DEF SessionsInv, NoneBefore
  <1> QED BY <1>1, <1>2, <1>3, <1>4 DEF SessionsInv

-----------------------------------------------------------------------------
(* The moves of a handler.                                                 *)

\* A handler that goes on, without touching the request: what its new state
\* asks for.
LEMMA GoesOn ==
  ASSUME HandlerTypes, SubmissionGuard, NEW c \in Conns, NEW k \in HandlerRecords,
         handler' = [handler EXCEPT ![c] = k], UNCHANGED <<request, tickets>>,
         handler[c].pc # "closed", k.ticket = handler[c].ticket,
         k.guard => k.pc \in {"storing", "stored"},
         handler[c].guard => k.guard \/ request # "absent",
         k.pc = "waiting" => InFlight,
         k.pc = "storing" => k.guard \/ request # "absent",
         k.pc = "stored" => request # "absent",
         k.pc \in Undecoded => handler[c].pc \in Undecoded,
         k.pc \in Uncommitted => handler[c].pc \in Uncommitted,
         k.pc \in {"resolve_again", "read_again"} => NoEarlier(k, Undecoded),
         k.pc = "read_again" /\ request = "absent" => NoEarlier(k, Uncommitted)
  PROVE  Moves(c, k)
  BY DEF Moves, HandlerTypes

\* A handler that returns; it gives up a guard only once the request exists.
LEMMA ReturnMoves ==
  ASSUME HandlerTypes, SubmissionGuard, NEW c \in Conns, NEW opened \in BOOLEAN,
         Return(c, opened), UNCHANGED <<request, tickets>>,
         handler[c].pc # "closed", handler[c].guard => request # "absent"
  PROVE  Moves(c, Closed(handler[c], opened))
  <1> DEFINE k == Closed(handler[c], opened)
  <1>1. handler[c] \in HandlerRecords
    BY DEF HandlerTypes
  <1>2. /\ (handler[c].opened \/ opened) \in BOOLEAN
        /\ handler[c].ticket \in Nat
    BY <1>1 DEF HandlerRecords
  <1>b. ASSUME NEW o \in BOOLEAN
        PROVE  /\ [NewHandler EXCEPT !.pc = "closed", !.ticket = handler[c].ticket, !.opened = o]
                   \in HandlerRecords
               /\ [NewHandler EXCEPT !.pc = "closed", !.ticket = handler[c].ticket,
                                     !.opened = o].ticket = handler[c].ticket
               /\ [NewHandler EXCEPT !.pc = "closed", !.ticket = handler[c].ticket,
                                     !.opened = o].pc = "closed"
               /\ [NewHandler EXCEPT !.pc = "closed", !.ticket = handler[c].ticket,
                                     !.opened = o].guard = FALSE
    BY <1>2 DEF NewHandler, HandlerRecords
  <1>3. k \in HandlerRecords
    BY <1>2, <1>b DEF Closed
  <1>4. handler' = [handler EXCEPT ![c] = k]
    BY DEF Return
  <1>5. k.pc = "closed" /\ k.ticket = handler[c].ticket /\ k.guard = FALSE
    BY <1>2, <1>b DEF Closed
  <1> HIDE DEF k
  <1>a. /\ k.pc \notin Undecoded /\ k.pc \notin Uncommitted
        /\ k.pc \notin {"storing", "stored", "waiting", "resolve_again", "read_again"}
    BY <1>5 DEF Undecoded, Uncommitted
  <1>6. Moves(c, k)
    BY <1>3, <1>4, <1>5, <1>a, GoesOn
  <1> QED BY <1>6 DEF k

\* A handler that only goes to another state.
LEMMA GotoMoves ==
  ASSUME HandlerTypes, SubmissionGuard, NEW c \in Conns, NEW pc, Goto(c, pc),
         UNCHANGED <<request, tickets>>, handler[c].pc # "closed", ~handler[c].guard,
         pc \in {"registered", "open", "waiting", "resolve", "read", "prior", "resolve_again",
                 "read_again"},
         pc = "waiting" => InFlight,
         pc \in Uncommitted => handler[c].pc \in Undecoded,
         pc \in {"resolve_again", "read_again"} => NoEarlier(handler[c], Undecoded),
         pc = "read_again" /\ request = "absent" => NoEarlier(handler[c], Uncommitted)
  PROVE  Moves(c, [handler[c] EXCEPT !.pc = pc])
  <1> DEFINE k == [handler[c] EXCEPT !.pc = pc]
  <1>1. handler[c] \in HandlerRecords
    BY DEF HandlerTypes
  <1>2. k \in HandlerRecords
    BY <1>1 DEF HandlerRecords
  <1>3. handler' = [handler EXCEPT ![c] = k]
    BY DEF Goto
  <1>4. k.pc = pc /\ k.ticket = handler[c].ticket /\ k.guard = handler[c].guard
    BY <1>1 DEF HandlerRecords
  <1>5. \A pcs : NoEarlier(k, pcs) <=> NoEarlier(handler[c], pcs)
    BY <1>4 DEF NoEarlier
  <1>6. pc \in Undecoded => handler[c].pc \in Undecoded
    BY DEF Undecoded, Uncommitted
  <1>7. pc \in Uncommitted => handler[c].pc \in Uncommitted
    BY DEF Uncommitted
  <1>8. pc # "storing" /\ pc # "stored"
    OBVIOUS
  <1> HIDE DEF k
  <1>9. Moves(c, k)
    BY <1>2, <1>3, <1>4, <1>5, <1>6, <1>7, <1>8, GoesOn
  <1> QED BY <1>9 DEF k

-----------------------------------------------------------------------------
(* The actions.                                                            *)

LEMMA SessionsInit == Init => SessionsInv
  <1> SUFFICES ASSUME Init PROVE SessionsInv
    OBVIOUS
  <1>1. NewHandler \in HandlerRecords
    BY DEF NewHandler, HandlerRecords
  <1>2. \A c \in Conns : handler[c] = NewHandler
    BY DEF Init
  <1>3. /\ NewHandler.pc = "none" /\ NewHandler.guard = FALSE /\ NewHandler.ticket = 0
    BY DEF NewHandler
  <1>4. HandlerTypes
    BY <1>1, <1>2, <1>3 DEF Init, HandlerTypes
  <1>5. SubmissionGuard /\ HasWaited /\ NoneBefore
    BY <1>2, <1>3 DEF Init, SubmissionGuard, HasWaited, NoneBefore
  <1> QED BY <1>4, <1>5 DEF SessionsInv

\* A connection that is opened, and one that is accepted.
LEMMA AdmissionKeeps ==
  ASSUME SessionsInv, NEW c \in Conns, NEW op \in {"submit", "resume"},
         Connect(c, op) \/ Accept(c)
  PROVE  SessionsInv'
  <1>2. /\ HandlerTypes /\ SubmissionGuard
        /\ handler[c] \in HandlerRecords /\ tickets \in Nat
    BY DEF SessionsInv, HandlerTypes
  <1>3. CASE Connect(c, op)
    <2> DEFINE k == [handler[c] EXCEPT !.pc = "backlog", !.op = op]
    <2>1. k \in HandlerRecords
      BY <1>2 DEF HandlerRecords
    <2>2. k.pc = "backlog" /\ k.ticket = handler[c].ticket /\ k.guard = handler[c].guard
      BY <1>2 DEF HandlerRecords
    <2>3. /\ handler[c].pc = "none" /\ ~handler[c].guard
          /\ UNCHANGED <<request, tickets>> /\ missed' = missed
      BY <1>2, <1>3 DEF Connect, SubmissionGuard, resultVars
    <2>4. handler' = [handler EXCEPT ![c] = k]
      BY <1>2, <1>3 DEF Connect, HandlerTypes, HandlerRecords
    <2>5. k.pc \notin Undecoded /\ k.pc \notin Uncommitted
      BY <2>2 DEF Undecoded, Uncommitted
    <2> HIDE DEF k
    <2>6. Moves(c, k)
      BY <1>2, <2>1, <2>2, <2>3, <2>4, <2>5, GoesOn
    <2> QED BY <2>3, <2>6, MoveKeeps
  <1>4. CASE Accept(c)
    <2> DEFINE k == [handler[c] EXCEPT !.pc = "spawned", !.ticket = tickets]
    <2>1. k \in HandlerRecords
      BY <1>2 DEF HandlerRecords
    <2>2. k.pc = "spawned" /\ k.ticket = tickets /\ k.guard = handler[c].guard
      BY <1>2 DEF HandlerRecords
    <2>3. /\ handler[c].pc = "backlog" /\ ~handler[c].guard
          /\ request' = request /\ tickets' = tickets + 1 /\ missed' = missed
      BY <1>2, <1>4 DEF Accept, SubmissionGuard, resultVars
    <2>4. handler' = [handler EXCEPT ![c] = k]
      BY <1>2, <1>4 DEF Accept, HandlerTypes, HandlerRecords
    <2> HIDE DEF k
    <2>5. Moves(c, k)
      BY <1>2, <2>1, <2>2, <2>3, <2>4 DEF Moves, HandlerTypes
    <2> QED BY <2>3, <2>5, MoveKeeps
  <1> QED BY <1>3, <1>4

\* A handler that returns, when it told nobody that the request is missing.
LEMMA ReturnKeeps ==
  ASSUME SessionsInv, NEW c \in Conns, NEW opened \in BOOLEAN, Return(c, opened),
         UNCHANGED <<request, tickets, missed>>,
         handler[c].pc # "closed", handler[c].guard => request # "absent"
  PROVE  SessionsInv'
  <1>1. HandlerTypes /\ SubmissionGuard
    BY DEF SessionsInv
  <1>2. Moves(c, Closed(handler[c], opened))
    BY <1>1, ReturnMoves
  <1> QED BY <1>2, MoveKeeps

\* A handler that only goes to another state.
LEMMA GotoKeeps ==
  ASSUME SessionsInv, NEW c \in Conns, NEW pc, Goto(c, pc),
         UNCHANGED <<request, tickets, missed>>,
         handler[c].pc \notin {"closed", "storing", "stored"},
         pc \in {"registered", "open", "waiting", "resolve", "read", "prior", "resolve_again",
                 "read_again"},
         pc = "waiting" => InFlight,
         pc \in Uncommitted => handler[c].pc \in Undecoded,
         pc \in {"resolve_again", "read_again"} => NoEarlier(handler[c], Undecoded),
         pc = "read_again" /\ request = "absent" => NoEarlier(handler[c], Uncommitted)
  PROVE  SessionsInv'
  <1>1. HandlerTypes /\ SubmissionGuard /\ ~handler[c].guard
    BY DEF SessionsInv, SubmissionGuard
  <1>2. Moves(c, [handler[c] EXCEPT !.pc = pc])
    BY <1>1, GotoMoves
  <1> QED BY <1>2, MoveKeeps

\* A submission that goes on to store: with the guard of the registry, or
\* behind the one that had it.
LEMMA SubscribedKeeps ==
  ASSUME SessionsInv, NEW c \in Conns, NEW guard \in BOOLEAN,
         Subscribed(c, "storing", guard), UNCHANGED <<request, tickets, missed>>,
         handler[c].pc \in Undecoded, guard \/ request # "absent"
  PROVE  SessionsInv'
  <1> DEFINE k == [handler[c] EXCEPT !.pc = "storing", !.guard = guard, !.sub = TRUE]
  <1>1. HandlerTypes /\ SubmissionGuard /\ handler[c] \in HandlerRecords
    BY DEF SessionsInv, HandlerTypes
  <1>2. k \in HandlerRecords
    BY <1>1 DEF HandlerRecords
  <1>3. k.pc = "storing" /\ k.ticket = handler[c].ticket /\ k.guard = guard
    BY <1>1 DEF HandlerRecords
  <1>4. handler' = [handler EXCEPT ![c] = k]
    BY <1>1 DEF Subscribed, HandlerTypes, HandlerRecords
  <1>5. /\ handler[c].pc # "closed" /\ ~handler[c].guard
        /\ handler[c].pc \in Uncommitted /\ k.pc \notin Undecoded
    BY <1>1, <1>3 DEF Undecoded, Uncommitted, SubmissionGuard
  <1> HIDE DEF k
  <1>6. Moves(c, k)
    BY <1>1, <1>2, <1>3, <1>4, <1>5, GoesOn
  <1> QED BY <1>6, MoveKeeps

\* What a handler does before its operation: registration, the two looks at
\* the shutdown flag, decoding, and the wait of a second submission.
LEMMA DecodeKeeps ==
  ASSUME SessionsInv, NEW c \in Conns,
         Register(c) \/ CheckFlag(c) \/ Decode(c) \/ DecodeFails(c) \/ StopWaiting(c)
  PROVE  SessionsInv'
  <1>1. SubmissionGuard /\ TRUE \in BOOLEAN /\ FALSE \in BOOLEAN
    BY DEF SessionsInv
  <1>2. ASSUME handler[c].pc \in Undecoded PROVE handler[c].pc # "closed" /\ ~handler[c].guard
    BY <1>1, <1>2 DEF SubmissionGuard, Undecoded
  <1>3. CASE Register(c)
    <2>1. /\ handler[c].pc = "spawned" /\ Goto(c, "registered")
          /\ UNCHANGED <<request, tickets, missed>>
      BY <1>3 DEF Register, resultVars
    <2> QED BY <2>1, GotoKeeps DEF Undecoded
  <1>4. CASE CheckFlag(c)
    <2>1. /\ handler[c].pc = "registered" /\ UNCHANGED <<request, tickets, missed>>
          /\ Return(c, TRUE) \/ Goto(c, "open")
      BY <1>4 DEF CheckFlag, resultVars
    <2>2. CASE Return(c, TRUE)
      BY <1>1, <1>2, <2>1, <2>2, ReturnKeeps DEF Undecoded
    <2>3. CASE Goto(c, "open")
      BY <2>1, <2>3, GotoKeeps DEF Undecoded
    <2> QED BY <2>1, <2>2, <2>3
  <1>5. CASE Decode(c)
    <2>1. /\ handler[c].pc = "open" /\ UNCHANGED <<request, tickets, missed>>
          /\ Return(c, TRUE) \/ Admit(c)
      BY <1>5 DEF Decode, resultVars
    <2>2. CASE Return(c, TRUE)
      BY <1>1, <1>2, <2>1, <2>2, ReturnKeeps DEF Undecoded
    <2>3. CASE Admit(c)
      <3>1. \/ Goto(c, "resolve")
            \/ InFlight /\ Goto(c, "waiting")
            \/ Subscribed(c, "storing", TRUE)
        BY <2>3 DEF Admit
      <3>2. CASE Goto(c, "resolve")
        BY <2>1, <3>2, GotoKeeps DEF Uncommitted, Undecoded
      <3>3. CASE InFlight /\ Goto(c, "waiting")
        BY <2>1, <3>3, GotoKeeps DEF Undecoded
      <3>4. CASE Subscribed(c, "storing", TRUE)
        BY <1>1, <2>1, <3>4, SubscribedKeeps DEF Undecoded
      <3> QED BY <3>1, <3>2, <3>3, <3>4
    <2> QED BY <2>1, <2>2, <2>3
  <1>6. CASE DecodeFails(c)
    <2>1. /\ handler[c].pc = "open" /\ UNCHANGED <<request, tickets, missed>>
          /\ Return(c, TRUE)
      BY <1>6 DEF DecodeFails, resultVars
    <2> QED BY <1>1, <1>2, <2>1, ReturnKeeps DEF Undecoded
  <1>7. CASE StopWaiting(c)
    <2>1. /\ handler[c].pc = "waiting" /\ ~InFlight /\ UNCHANGED <<request, tickets, missed>>
          /\ Subscribed(c, "storing", FALSE)
      BY <1>7 DEF StopWaiting, resultVars
    <2>2. request # "absent"
      BY <1>1, <2>1 DEF SubmissionGuard
    <2> QED BY <1>1, <2>1, <2>2, SubscribedKeeps DEF Undecoded
  <1> QED BY <1>3, <1>4, <1>5, <1>6, <1>7

\* A submission is stored, or refused, and its guard is dropped.
LEMMA StoringKeeps ==
  ASSUME SessionsInv, NEW c \in Conns, Store(c) \/ Refuse(c) \/ Stored(c) \/ Greet(c)
  PROVE  SessionsInv'
  <1>1. HandlerTypes /\ SubmissionGuard /\ handler[c] \in HandlerRecords /\ TRUE \in BOOLEAN
        /\ FALSE \in BOOLEAN
    BY DEF SessionsInv, HandlerTypes
  <1>2. CASE Store(c)
    <2> DEFINE k == [handler[c] EXCEPT !.pc = "stored"]
    <2>1. k \in HandlerRecords
      BY <1>1 DEF HandlerRecords
    <2>2. /\ k.pc = "stored" /\ k.ticket = handler[c].ticket /\ k.guard = handler[c].guard
      BY <1>1 DEF HandlerRecords
    <2>3. /\ handler[c].pc = "storing" /\ handler' = [handler EXCEPT ![c] = k]
          /\ request' # "absent" /\ tickets' = tickets /\ missed' = missed
      BY <1>2 DEF Store, Goto
    <2>a. request' \in {"absent", "active", "done", "delivered"}
      BY <1>1, <1>2 DEF Store, HandlerTypes
    <2>4. k.pc \notin Undecoded /\ handler[c].pc \in Uncommitted
      BY <2>2, <2>3 DEF Undecoded, Uncommitted
    <2> HIDE DEF k
    <2>5. Moves(c, k)
      BY <2>1, <2>2, <2>3, <2>a, <2>4 DEF Moves
    <2> QED BY <2>3, <2>5, MoveKeeps
  <1>3. CASE Refuse(c)
    <2>1. /\ handler[c].pc = "storing" /\ request # "absent" /\ Return(c, TRUE)
          /\ UNCHANGED <<request, tickets, missed>>
      BY <1>3 DEF Refuse, resultVars
    <2> QED BY <1>1, <2>1, ReturnKeeps
  <1>4. CASE Stored(c)
    <2> DEFINE k == [handler[c] EXCEPT !.pc = "greet", !.guard = FALSE]
    <2>1. k \in HandlerRecords
      BY <1>1 DEF HandlerRecords
    <2>2. /\ k.pc = "greet" /\ k.ticket = handler[c].ticket /\ k.guard = FALSE
      BY <1>1 DEF HandlerRecords
    <2>3. /\ handler[c].pc = "stored" /\ handler' = [handler EXCEPT ![c] = k]
          /\ UNCHANGED <<request, tickets>> /\ missed' = missed
      BY <1>1, <1>4 DEF Stored, resultVars, HandlerTypes, HandlerRecords
    <2>4. k.pc \notin Undecoded /\ k.pc \notin Uncommitted /\ request # "absent"
      BY <1>1, <2>2, <2>3 DEF Undecoded, Uncommitted, SubmissionGuard
    <2> HIDE DEF k
    <2>5. Moves(c, k)
      BY <1>1, <2>1, <2>2, <2>3, <2>4, GoesOn
    <2> QED BY <2>3, <2>5, MoveKeeps
  <1>5. CASE Greet(c)
    <2>1. /\ handler[c].pc = "greet" /\ UNCHANGED <<request, tickets, missed>>
          /\ \/ Return(c, FALSE)
             \/ handler' = [handler EXCEPT ![c].pc = "stream", ![c].opened = TRUE]
      BY <1>5 DEF Greet, resultVars
    <2>2. ~handler[c].guard
      BY <1>1, <2>1 DEF SubmissionGuard
    <2>3. CASE Return(c, FALSE)
      BY <1>1, <2>1, <2>2, <2>3, ReturnKeeps
    <2>4. CASE handler' = [handler EXCEPT ![c].pc = "stream", ![c].opened = TRUE]
      <3> DEFINE k == [handler[c] EXCEPT !.pc = "stream", !.opened = TRUE]
      <3>1. k \in HandlerRecords
        BY <1>1 DEF HandlerRecords
      <3>2. /\ k.pc = "stream" /\ k.ticket = handler[c].ticket /\ k.guard = handler[c].guard
        BY <1>1 DEF HandlerRecords
      <3>3. handler' = [handler EXCEPT ![c] = k]
        BY <1>1, <2>4 DEF HandlerTypes, HandlerRecords
      <3>4. k.pc \notin Undecoded /\ k.pc \notin Uncommitted
        BY <3>2 DEF Undecoded, Uncommitted
      <3> HIDE DEF k
      <3>5. Moves(c, k)
        BY <1>1, <2>1, <2>2, <3>1, <3>2, <3>3, <3>4, GoesOn
      <3> QED BY <2>1, <3>5, MoveKeeps
    <2> QED BY <2>1, <2>3, <2>4
  <1> QED BY <1>2, <1>3, <1>4, <1>5

\* A resume has waited for the guards it meant to wait for.
LEMMA WaitingKeeps ==
  ASSUME SessionsInv, NEW c \in Conns, WaitForSubmission(c) \/ WaitForPrior(c)
  PROVE  SessionsInv'
  <1>1. CASE WaitForSubmission(c) /\ handler[c].pc = "resolve"
    <2>1. Goto(c, "read") /\ UNCHANGED <<request, tickets, missed>>
      BY <1>1 DEF WaitForSubmission, resultVars
    <2> QED BY <1>1, <2>1, GotoKeeps DEF Uncommitted, Undecoded
  <1>2. CASE WaitForSubmission(c) /\ handler[c].pc = "resolve_again"
    <2>1. /\ Goto(c, "read_again") /\ UNCHANGED <<request, tickets, missed>> /\ ~InFlight
      BY <1>2 DEF WaitForSubmission, resultVars
    <2>2. NoEarlier(handler[c], Undecoded)
      BY <1>2 DEF SessionsInv, HasWaited, NoEarlier
    <2>3. ASSUME request = "absent" PROVE NoEarlier(handler[c], Uncommitted)
      <3>1. \A d \in Conns : handler[d].pc \notin {"storing", "stored"}
        BY <2>1, <2>3 DEF SessionsInv, SubmissionGuard, InFlight
      <3> QED BY <2>2, <3>1 DEF NoEarlier, Uncommitted
    <2>4. "read_again" \notin Uncommitted
      BY DEF Uncommitted, Undecoded
    <2> QED BY <1>2, <2>1, <2>2, <2>3, <2>4, GotoKeeps
  <1>3. CASE WaitForPrior(c)
    <2>1. /\ handler[c].pc = "prior" /\ Goto(c, "resolve_again") /\ ~PriorPending(c)
          /\ UNCHANGED <<request, tickets, missed>>
      BY <1>3 DEF WaitForPrior, resultVars
    <2>2. NoEarlier(handler[c], Undecoded)
      BY <2>1 DEF PriorPending, NoEarlier, Undecoded
    <2>3. "resolve_again" \notin Uncommitted
      BY DEF Uncommitted, Undecoded
    <2> QED BY <2>1, <2>2, <2>3, GotoKeeps
  <1>4. WaitForSubmission(c) => handler[c].pc \in {"resolve", "resolve_again"}
    BY DEF WaitForSubmission
  <1> QED BY <1>1, <1>2, <1>3, <1>4

\* A resume finds the request and reads on, or tells the client that it is
\* missing: the predecessors it relies on are those it has waited for.
LEMMA ResolveKeeps ==
  ASSUME SessionsInv, NEW c \in Conns, Resolve(c)
  PROVE  SessionsInv'
  <1>1. /\ HandlerTypes /\ SubmissionGuard /\ handler[c] \in HandlerRecords /\ TRUE \in BOOLEAN
        /\ request \in {"absent", "active", "done", "delivered"}
    BY DEF SessionsInv, HandlerTypes
  <1>2. /\ handler[c].pc \in {"read", "read_again"} /\ UNCHANGED <<request, tickets>>
        /\ ~handler[c].guard
    BY <1>1 DEF Resolve, resultVars, SubmissionGuard
  <1>3. CASE request # "absent"
    <2> DEFINE k == [handler[c] EXCEPT !.pc = "subscribe", !.seen = request]
    <2>1. k \in HandlerRecords
      BY <1>1 DEF HandlerRecords
    <2>2. /\ k.pc = "subscribe" /\ k.ticket = handler[c].ticket /\ k.guard = handler[c].guard
      BY <1>1 DEF HandlerRecords
    <2>3. /\ handler' = [handler EXCEPT ![c].pc = "subscribe", ![c].seen = request]
          /\ missed' = missed
      BY <1>3 DEF Resolve
    <2>4. handler' = [handler EXCEPT ![c] = k]
      BY <1>1, <2>3 DEF HandlerTypes, HandlerRecords
    <2>5. k.pc \notin Undecoded /\ k.pc \notin Uncommitted
      BY <2>2 DEF Undecoded, Uncommitted
    <2> HIDE DEF k
    <2>6. Moves(c, k)
      BY <1>1, <1>2, <2>1, <2>2, <2>4, <2>5, GoesOn
    <2> QED BY <2>3, <2>6, MoveKeeps
  <1>4. CASE request = "absent" /\ handler[c].pc = "read"
    <2>1. Goto(c, "prior") /\ missed' = missed
      BY <1>4 DEF Resolve
    <2> QED BY <1>2, <1>4, <2>1, GotoKeeps DEF Undecoded, Uncommitted
  <1>5. CASE request = "absent" /\ handler[c].pc = "read_again"
    <2> DEFINE k == Closed(handler[c], TRUE)
    <2>1. missed' = missed \cup {c} /\ Return(c, TRUE)
      BY <1>5 DEF Resolve
    <2>2. Moves(c, k)
      BY <1>1, <1>2, <1>5, <2>1, ReturnMoves
    <2>3. k.pc = "closed" /\ k.ticket = handler[c].ticket
      BY DEF Closed, NewHandler
    <2> HIDE DEF k
    <2>4. /\ handler'[c] = k
          /\ \A d \in Conns : d # c => handler'[d] = handler[d]
          /\ handler' \in [Conns -> HandlerRecords] /\ tickets' \in Nat
          /\ \A d \in Conns : handler'[d].ticket <= tickets'
      BY <1>1, <2>2, MovedRows
    <2>5. HandlerTypes'
      BY <1>1, <1>2, <2>1, <2>3, <2>4 DEF HandlerTypes
    <2>6. SubmissionGuard'
      BY <2>2, MovedGuard
    <2>7. k.pc \notin Uncommitted /\ k.pc \notin Undecoded
      BY <2>3 DEF Undecoded, Uncommitted
    <2>8. \A d \in Conns : handler'[d].ticket = handler[d].ticket
      BY <2>3, <2>4
    <2>10. HasWaited'
      BY <1>2, <2>3, <2>4, <2>7, <2>8 DEF SessionsInv, HasWaited
    <2>11. ASSUME NEW x \in missed', NEW d \in Conns, handler'[d].ticket < handler'[x].ticket
           PROVE  handler'[d].pc \notin Uncommitted
      <3>1. x \in Conns /\ handler[d].ticket < handler[x].ticket
        BY <2>1, <2>8, <2>11 DEF HandlerTypes, SessionsInv
      <3>2. handler[d].pc \notin Uncommitted
        BY <1>5, <2>1, <3>1 DEF SessionsInv, HasWaited, NoneBefore
      <3> QED BY <2>4, <2>7, <3>2
    <2> QED BY <2>5, <2>6, <2>10, <2>11 DEF SessionsInv, NoneBefore
  <1> QED BY <1>2, <1>3, <1>4, <1>5

\* A resume that subscribes, one that replays a delivered result, a handler
\* and a client that see the other end go.
LEMMA ServingKeeps ==
  ASSUME SessionsInv, NEW c \in Conns,
         Subscribe(c) \/ Replay(c) \/ SeeDisconnect(c) \/ SeeEnd(c)
  PROVE  SessionsInv'
  <1>1. /\ HandlerTypes /\ SubmissionGuard /\ handler[c] \in HandlerRecords /\ TRUE \in BOOLEAN
        /\ request \in {"absent", "active", "done", "delivered"}
    BY DEF SessionsInv, HandlerTypes
  <1>2. CASE Subscribe(c)
    <2> DEFINE pc == IF handler[c].seen = "active" THEN "greet" ELSE "poll"
               opened == handler[c].seen # "active"
               k == [handler[c] EXCEPT !.sub = TRUE, !.pc = pc, !.opened = opened]
    <2>1. pc \in {"greet", "poll"} /\ opened \in BOOLEAN
      OBVIOUS
    <2>2. /\ handler[c].pc = "subscribe" /\ UNCHANGED <<request, tickets, missed>>
          /\ handler' = [handler EXCEPT ![c].sub = TRUE, ![c].pc = pc, ![c].opened = opened]
      BY <1>2 DEF Subscribe, resultVars
    <2> HIDE DEF pc, opened
    <2>3. k \in HandlerRecords
      BY <1>1, <2>1 DEF HandlerRecords
    <2>4. k.pc = pc /\ k.ticket = handler[c].ticket /\ k.guard = handler[c].guard
      BY <1>1 DEF HandlerRecords
    <2>5. handler' = [handler EXCEPT ![c] = k]
      BY <1>1, <2>2 DEF HandlerTypes, HandlerRecords
    <2>6. k.pc \notin Undecoded /\ k.pc \notin Uncommitted /\ k.pc \in {"greet", "poll"}
      BY <2>1, <2>4 DEF Undecoded, Uncommitted
    <2>7. ~handler[c].guard
      BY <1>1, <2>2 DEF SubmissionGuard
    <2> HIDE DEF k
    <2>8. Moves(c, k)
      BY <1>1, <2>2, <2>3, <2>4, <2>5, <2>6, <2>7, GoesOn
    <2> QED BY <2>2, <2>8, MoveKeeps
  <1>3. CASE Replay(c) \/ SeeDisconnect(c)
    <2>1. /\ handler[c].pc \in {"poll", "stream"} /\ UNCHANGED <<request, tickets, missed>>
          /\ Return(c, TRUE)
      BY <1>3 DEF Replay, SeeDisconnect, resultVars
    <2> QED BY <1>1, <2>1, ReturnKeeps DEF SubmissionGuard
  <1>4. CASE SeeEnd(c) /\ handler[c].pc # "backlog"
    <2>1. UNCHANGED <<handler, request, tickets, missed>>
      BY <1>4 DEF SeeEnd, resultVars
    <2> QED BY <1>1, <2>1, StayKeeps
  <1>5. CASE SeeEnd(c) /\ handler[c].pc = "backlog"
    <2> DEFINE k == [handler[c] EXCEPT !.pc = "closed"]
    <2>1. /\ handler' = [handler EXCEPT ![c].pc = "closed"]
          /\ UNCHANGED <<request, tickets, missed>>
      BY <1>5 DEF SeeEnd, Goto, resultVars
    <2>2. k \in HandlerRecords
      BY <1>1 DEF HandlerRecords
    <2>3. k.pc = "closed" /\ k.ticket = handler[c].ticket /\ k.guard = handler[c].guard
      BY <1>1 DEF HandlerRecords
    <2>4. handler' = [handler EXCEPT ![c] = k]
      BY <1>1, <2>1 DEF HandlerTypes
    <2>5. k.pc \notin Undecoded /\ k.pc \notin Uncommitted /\ ~handler[c].guard
      BY <1>1, <1>5, <2>3 DEF Undecoded, Uncommitted, SubmissionGuard
    <2> HIDE DEF k
    <2>6. Moves(c, k)
      BY <1>1, <1>5, <2>1, <2>2, <2>3, <2>4, <2>5, GoesOn
    <2> QED BY <2>1, <2>6, MoveKeeps
  <1> QED BY <1>2, <1>3, <1>4, <1>5

\* Everyone else leaves the handlers alone and lets the request exist.
LEMMA OthersKeep ==
  ASSUME SessionsInv,
         \/ \E c \in Conns :
              \/ ConnectAck(c) \/ AcceptAck(c) \/ Acknowledge(c) \/ Forward(c) \/ PublishTo(c)
              \/ SendFinal(c) \/ ClientLeaves(c) \/ Notify(c)
         \/ \E kind \in {"text", "activity"} : Publish(kind)
         \/ Finish \/ Transmit \/ TransmissionEnds \/ BeginShutdown \/ SnapshotSinks
         \/ UNCHANGED vars
  PROVE  SessionsInv'
  <1>1. request \in {"absent", "active", "done", "delivered"}
    BY DEF SessionsInv, HandlerTypes
  <1>2. CASE \E c \in Conns : Acknowledge(c)
    BY <1>1, <1>2, StayKeeps DEF Acknowledge
  <1>3. CASE Finish
    BY <1>3, StayKeeps DEF Finish
  <1>4. CASE \E c \in Conns : ConnectAck(c) \/ AcceptAck(c) \/ ClientLeaves(c) \/ Notify(c)
    <2>1. UNCHANGED <<handler, tickets, missed, request>>
      BY <1>4 DEF ConnectAck, AcceptAck, ClientLeaves, Notify, resultVars
    <2> QED BY <1>1, <2>1, StayKeeps
  <1>5. CASE \E c \in Conns : Forward(c) \/ PublishTo(c) \/ SendFinal(c)
    <2>1. UNCHANGED <<handler, tickets, missed, request>>
      BY <1>5 DEF Forward, PublishTo, SendFinal, resultVars
    <2> QED BY <1>1, <2>1, StayKeeps
  <1>6. CASE \E kind \in {"text", "activity"} : Publish(kind)
    <2>1. UNCHANGED <<handler, tickets, missed, request>>
      BY <1>6 DEF Publish, resultVars
    <2> QED BY <1>1, <2>1, StayKeeps
  <1>7. CASE Transmit \/ TransmissionEnds \/ BeginShutdown \/ SnapshotSinks \/ UNCHANGED vars
    <2>1. UNCHANGED <<handler, tickets, missed, request>>
      BY <1>7 DEF Transmit, TransmissionEnds, BeginShutdown, SnapshotSinks, resultVars, vars
    <2> QED BY <1>1, <2>1, StayKeeps
  <1> QED BY <1>2, <1>3, <1>4, <1>5, <1>6, <1>7

LEMMA SessionsInductive == SessionsInv /\ [Next]_vars => SessionsInv'
  <1> SUFFICES ASSUME SessionsInv, [Next]_vars PROVE SessionsInv'
    OBVIOUS
  <1>1. CASE \E c \in Conns, op \in {"submit", "resume"} : Connect(c, op) \/ Accept(c)
    BY <1>1, AdmissionKeeps
  <1>2. CASE \E c \in Conns : \/ Register(c) \/ CheckFlag(c) \/ Decode(c) \/ DecodeFails(c)
                              \/ StopWaiting(c)
    BY <1>2, DecodeKeeps
  <1>3. CASE \E c \in Conns : Store(c) \/ Refuse(c) \/ Stored(c) \/ Greet(c)
    BY <1>3, StoringKeeps
  <1>4. CASE \E c \in Conns : WaitForSubmission(c) \/ WaitForPrior(c)
    BY <1>4, WaitingKeeps
  <1>5. CASE \E c \in Conns : Resolve(c)
    BY <1>5, ResolveKeeps
  <1>6. CASE \E c \in Conns : Subscribe(c) \/ Replay(c) \/ SeeDisconnect(c) \/ SeeEnd(c)
    BY <1>6, ServingKeeps
  <1>7. CASE \/ \E c \in Conns :
                  \/ ConnectAck(c) \/ AcceptAck(c) \/ Acknowledge(c) \/ Forward(c) \/ PublishTo(c)
                  \/ SendFinal(c) \/ ClientLeaves(c) \/ Notify(c)
             \/ \E kind \in {"text", "activity"} : Publish(kind)
             \/ Finish \/ Transmit \/ TransmissionEnds \/ BeginShutdown \/ SnapshotSinks
             \/ UNCHANGED vars
    BY <1>7, OthersKeep
  <1>8. CASE ServerStep
    BY <1>8, <1>1, <1>2, <1>3, <1>4, <1>5, <1>6, <1>7 DEF ServerStep, HandlerStep
  <1>9. CASE WorkerStep \/ RunStep \/ ClientStep
    BY <1>9, <1>6, <1>7 DEF WorkerStep, RunStep, ClientStep
  <1> QED BY <1>1, <1>2, <1>3, <1>6, <1>7, <1>8, <1>9 DEF Next

-----------------------------------------------------------------------------
(* The theorems.                                                           *)

\* The rows of the handlers are in step with the decode tickets, the
\* submission registry and the durable request: a resume that has waited for
\* its predecessors knows that none of them can still commit.
THEOREM SessionsInvariant == Spec => []SessionsInv
  BY SessionsInit, SessionsInductive, PTL DEF Spec

\* A client that is told its request does not exist may submit it again: no
\* submission accepted before its own connection can still commit, however
\* many connections there are and in whatever order they are served.
THEOREM MissingIsAlwaysDefinitive == Spec => []MissingIsDefinitive
  <1>1. SessionsInv => MissingIsDefinitive
    BY DEF SessionsInv, HandlerTypes, NoneBefore, MissingIsDefinitive, Uncommitted, Undecoded
  <1> QED BY <1>1, SessionsInvariant, PTL

-----------------------------------------------------------------------------
(* Streams and their budget: the inductive invariant.                      *)

StreamTypes ==
  /\ ack \in [Conns -> {"none", "backlog", "open", "done"}]
  /\ queue \in [Conns -> QueueRecords]
  /\ publish \in [event : Frames, left : SUBSET Conns]
  /\ published \in [deltas : Nat, events : Nat]
  /\ worker \in {"idle", "sending"}
  /\ final \in [Conns -> {"none", "due", "begun", "sent", "failed"}]
  /\ client \in [Conns -> ClientRecords]
  /\ {stopping, snapped} \subseteq BOOLEAN /\ notices \subseteq Conns
  /\ leaves \in Nat

\* Handlers that have not subscribed yet, and those that have; terminals that
\* still show what is published.
Early == Undecoded \cup {"none", "backlog", "resolve", "read", "prior", "resolve_again",
                         "read_again", "subscribe"}
Serving == {"storing", "stored", "greet", "stream", "poll"}
Showing == {"waiting", "accepted"}

Ended == {"done", "delivered"}

\* The delta being published is the last one.
PublishInv ==
  /\ publish.event[1] \in {"text", "activity"}
  /\ publish.event[1] = "text" => publish.event[2] = published.deltas /\ published.deltas > 0

\* A subscription exists while its handler serves; before it, nothing was queued,
\* published to it or shown; one that read a settled request is never published to.
Subscription(c) ==
  /\ handler[c].sub => handler[c].pc \in Serving
  /\ handler[c].pc \in Serving => handler[c].sub
  /\ handler[c].pc \in Early =>
       /\ queue[c].events = <<>> /\ ~queue[c].muted /\ ~Held(c)
       /\ client[c].last = 0 /\ ~client[c].gap
  /\ handler[c].seen \in Ended => request \in Ended
  /\ handler[c].pc = "stream" => client[c].mode # "waiting"

TextAt(q, i) == q.events[i][1] = "text"
GapAt(q, i) == q.events[i][1] = "gap"

\* The queue q holds the deltas after lo up to hi, in order, and no text behind a
\* gap marker.
Holds(q, lo, hi) ==
  /\ lo <= hi
  /\ \A i \in DOMAIN q.events : TextAt(q, i) => q.events[i][2] \in lo + 1 .. hi
  /\ \A n \in lo + 1 .. hi : \E i \in DOMAIN q.events : TextAt(q, i) /\ q.events[i][2] = n
  /\ \A i, j \in DOMAIN q.events : TextAt(q, i) /\ TextAt(q, j) /\ i < j =>
       q.events[i][2] < q.events[j][2]
  /\ \A g, i \in DOMAIN q.events : GapAt(q, g) /\ TextAt(q, i) => i < g

NoText(q) == \A i \in DOMAIN q.events : ~TextAt(q, i)
NoGap(q) == \A i \in DOMAIN q.events : ~GapAt(q, i)

\* What the terminal has shown, and what its subscription has been offered.
Shown(c) == IF client[c].last = 0 THEN queue[c].since ELSE client[c].last
Offered(c) == IF Held(c) /\ publish.event[1] = "text" THEN published.deltas - 1
              ELSE published.deltas

\* A terminal that shows text will show every delta that was offered, or those up
\* to its gap marker.
Continues(c) ==
  /\ \E hi \in 0 .. published.deltas :
       Holds(queue[c], Shown(c), hi) /\ (~queue[c].muted => hi = Offered(c))
  /\ client[c].gap => queue[c].muted /\ NoText(queue[c])
  /\ queue[c].muted => client[c].gap \/ ~NoGap(queue[c])
  /\ ~queue[c].muted => NoGap(queue[c])

Shows(c) == handler[c].sub /\ client[c].mode \in Showing
Stream(c) == ~client[c].hole /\ (Shows(c) => Continues(c))

\* Room for the marker in every queue, and no queue without a subscription.
Room(c) ==
  /\ Len(queue[c].events) <= EventLimit
  /\ ~queue[c].muted => Len(queue[c].events) < EventLimit
  /\ ~handler[c].sub /\ ~Held(c) => queue[c].events = <<>>

Session(c) == Subscription(c) /\ Stream(c) /\ Room(c)

\* The bytes of all queues.
TextPlaces(f) ==
  {x \in Conns \X (1 .. EventLimit) :
     x[2] \in DOMAIN f[x[1]].events /\ f[x[1]].events[x[2]][1] = "text"}
Budget == bytes = Cardinality(TextPlaces(queue)) /\ bytes <= ByteLimit

HubInv == StreamTypes /\ PublishInv /\ Budget /\ \A c \in Conns : Session(c)

-----------------------------------------------------------------------------
(* The text in a queue.                                                    *)

\* The head of a queue is the next delta, or a marker with no text behind it.
LEMMA HoldsTail ==
  ASSUME NEW q \in QueueRecords, NEW lo \in Nat, NEW hi \in Nat, Holds(q, lo, hi),
         q.events # <<>>, NEW p, p.events = Tail(q.events)
  PROVE  /\ TextAt(q, 1) => q.events[1][2] = lo + 1 /\ Holds(p, lo + 1, hi)
         /\ ~TextAt(q, 1) => Holds(p, lo, hi)
         /\ GapAt(q, 1) => NoText(p) /\ ~TextAt(q, 1)
         /\ NoText(q) => NoText(p)
         /\ NoGap(q) => NoGap(p)
         /\ ~NoGap(q) => GapAt(q, 1) \/ ~NoGap(p)
  <1>1. /\ q.events \in Seq(Frames) /\ Len(q.events) \in Nat \ {0}
        /\ DOMAIN q.events = 1 .. Len(q.events) /\ 1 \in DOMAIN q.events
        /\ DOMAIN p.events = 1 .. (Len(q.events) - 1)
        /\ \A i \in DOMAIN p.events : p.events[i] = q.events[i + 1] /\ i + 1 \in DOMAIN q.events
        /\ \A i \in DOMAIN q.events :
             i # 1 => i - 1 \in DOMAIN p.events /\ p.events[i - 1] = q.events[i]
    <2>1. /\ q.events \in Seq(Frames) /\ Len(q.events) \in Nat
          /\ DOMAIN q.events = 1 .. Len(q.events)
      BY DEF QueueRecords
    <2>2. Len(q.events) # 0
      BY <2>1, EmptySeq
    <2>3. /\ Tail(q.events) \in Seq(Frames) /\ Len(Tail(q.events)) = Len(q.events) - 1
          /\ \A i \in 1 .. (Len(q.events) - 1) : Tail(q.events)[i] = q.events[i + 1]
      BY <2>1, HeadTailProperties
    <2> QED BY <2>1, <2>2, <2>3
  <1>2. \A i \in DOMAIN q.events : q.events[i][2] \in Nat
    BY <1>1 DEF Frames
  <1>3. \A i \in DOMAIN p.events : /\ TextAt(p, i) <=> TextAt(q, i + 1)
                                   /\ GapAt(p, i) <=> GapAt(q, i + 1)
    BY <1>1 DEF TextAt, GapAt
  <1>4. GapAt(q, 1) => NoText(p) /\ ~TextAt(q, 1)
    <2> SUFFICES ASSUME GapAt(q, 1) PROVE NoText(p) /\ ~TextAt(q, 1)
      OBVIOUS
    <2>1. \A i \in DOMAIN q.events : TextAt(q, i) => i < 1
      BY <1>1 DEF Holds
    <2>2. \A i \in DOMAIN q.events : ~TextAt(q, i)
      BY <1>1, <2>1
    <2> QED BY <1>1, <1>3, <2>2 DEF NoText
  <1>5. NoText(q) => NoText(p)
    BY <1>1, <1>3 DEF NoText
  <1>6. NoGap(q) => NoGap(p)
    BY <1>1, <1>3 DEF NoGap
  <1>7. ~NoGap(q) => GapAt(q, 1) \/ ~NoGap(p)
    <2> SUFFICES ASSUME NEW i \in DOMAIN q.events, GapAt(q, i), i # 1 PROVE ~NoGap(p)
      BY DEF NoGap
    <2> QED BY <1>1 DEF NoGap, GapAt
  <1>8. ASSUME NEW l \in {lo, lo + 1}, TextAt(q, 1) => l = lo + 1, l <= hi,
               \A i \in DOMAIN p.events : TextAt(p, i) => p.events[i][2] # lo + 1 \/ l = lo,
               \A n \in l + 1 .. hi : TextAt(q, 1) => q.events[1][2] # n
        PROVE  Holds(p, l, hi)
    <2>1. \A i \in DOMAIN p.events : TextAt(p, i) => p.events[i][2] \in l + 1 .. hi
      BY <1>1, <1>2, <1>3, <1>8 DEF Holds
    <2>2. ASSUME NEW n \in l + 1 .. hi
          PROVE  \E i \in DOMAIN p.events : TextAt(p, i) /\ p.events[i][2] = n
      <3>1. PICK i \in DOMAIN q.events : TextAt(q, i) /\ q.events[i][2] = n
        BY <1>8 DEF Holds
      <3>2. i # 1
        BY <1>8, <3>1
      <3> QED BY <1>1, <3>1, <3>2 DEF TextAt
    <2>3. \A i, j \in DOMAIN p.events : TextAt(p, i) /\ TextAt(p, j) /\ i < j =>
            p.events[i][2] < p.events[j][2]
      <3> SUFFICES ASSUME NEW i \in DOMAIN p.events, NEW j \in DOMAIN p.events,
                          TextAt(p, i), TextAt(p, j), i < j
                   PROVE  p.events[i][2] < p.events[j][2]
        OBVIOUS
      <3>1. i + 1 < j + 1 /\ TextAt(q, i + 1) /\ TextAt(q, j + 1)
        BY <1>1, <1>3
      <3> QED BY <1>1, <3>1 DEF Holds
    <2>4. \A g, i \in DOMAIN p.events : GapAt(p, g) /\ TextAt(p, i) => i < g
      <3> SUFFICES ASSUME NEW g \in DOMAIN p.events, NEW i \in DOMAIN p.events,
                          GapAt(p, g), TextAt(p, i)
                   PROVE  i < g
        OBVIOUS
      <3>1. i + 1 < g + 1
        BY <1>1, <1>3 DEF Holds
      <3> QED BY <1>1, <3>1
    <2> QED BY <1>8, <2>1, <2>2, <2>3, <2>4 DEF Holds
  <1>9. ~TextAt(q, 1) => Holds(p, lo, hi)
    <2>1. lo <= hi
      BY DEF Holds
    <2> QED BY <1>8, <2>1
  <1>10. TextAt(q, 1) => q.events[1][2] = lo + 1 /\ Holds(p, lo + 1, hi)
    <2> SUFFICES ASSUME TextAt(q, 1) PROVE q.events[1][2] = lo + 1 /\ Holds(p, lo + 1, hi)
      OBVIOUS
    <2>1. q.events[1][2] \in lo + 1 .. hi
      BY <1>1 DEF Holds
    <2>2. PICK i \in DOMAIN q.events : TextAt(q, i) /\ q.events[i][2] = lo + 1
      BY <2>1 DEF Holds
    <2>3. i = 1
      <3>1. i # 1 => 1 < i
        BY <1>1
      <3>2. i # 1 => q.events[1][2] < q.events[i][2]
        BY <1>1, <2>2, <3>1 DEF Holds
      <3> QED BY <1>2, <2>1, <2>2, <3>2
    <2>4. \A j \in DOMAIN p.events : TextAt(p, j) => p.events[j][2] # lo + 1
      <3> SUFFICES ASSUME NEW j \in DOMAIN p.events, TextAt(p, j) PROVE p.events[j][2] # lo + 1
        OBVIOUS
      <3>1. 1 < j + 1 /\ TextAt(q, j + 1)
        BY <1>1, <1>3
      <3>2. q.events[1][2] < q.events[j + 1][2]
        BY <1>1, <3>1 DEF Holds
      <3> QED BY <1>1, <1>2, <2>2, <2>3, <3>2
    <2> QED BY <1>8, <2>1, <2>2, <2>3, <2>4
  <1> QED BY <1>4, <1>5, <1>6, <1>7, <1>9, <1>10

\* An event that is appended: the next delta, a marker, or something else.
LEMMA HoldsAppend ==
  ASSUME NEW q \in QueueRecords, NEW lo \in Nat, NEW hi \in Nat, Holds(q, lo, hi),
         NEW e \in Frames, NEW p, p.events = Append(q.events, e)
  PROVE  /\ e[1] = "text" /\ e[2] = hi + 1 /\ NoGap(q) => Holds(p, lo, hi + 1)
         /\ e[1] # "text" => Holds(p, lo, hi)
         /\ e[1] # "text" /\ NoText(q) => NoText(p)
         /\ e[1] # "gap" /\ NoGap(q) => NoGap(p)
         /\ ~NoGap(q) \/ e[1] = "gap" => ~NoGap(p)
  <1> DEFINE n == Len(q.events)
  <1>1. /\ q.events \in Seq(Frames) /\ n \in Nat /\ DOMAIN q.events = 1 .. n
        /\ DOMAIN p.events = 1 .. n + 1
        /\ \A i \in 1 .. n : p.events[i] = q.events[i]
        /\ p.events[n + 1] = e
    <2>1. q.events \in Seq(Frames) /\ n \in Nat /\ DOMAIN q.events = 1 .. n
      BY DEF QueueRecords
    <2> QED BY <2>1, AppendProperties
  <1>2. /\ \A i \in 1 .. n : q.events[i][2] \in Nat
        /\ e[2] \in Nat
    BY <1>1 DEF Frames
  <1> HIDE DEF n
  <1>3. /\ \A i \in 1 .. n + 1 : i \in 1 .. n \/ i = n + 1
        /\ \A i \in 1 .. n : i \in 1 .. n + 1 /\ i < n + 1
        /\ n + 1 \in 1 .. n + 1
    BY <1>1
  <1>4. /\ \A i \in 1 .. n : (TextAt(p, i) <=> TextAt(q, i)) /\ (GapAt(p, i) <=> GapAt(q, i))
        /\ TextAt(p, n + 1) <=> e[1] = "text"
        /\ GapAt(p, n + 1) <=> e[1] = "gap"
    BY <1>1 DEF TextAt, GapAt
  <1>5. e[1] # "text" /\ NoText(q) => NoText(p)
    BY <1>1, <1>3, <1>4 DEF NoText
  <1>6. e[1] # "gap" /\ NoGap(q) => NoGap(p)
    BY <1>1, <1>3, <1>4 DEF NoGap
  <1>7. ~NoGap(q) \/ e[1] = "gap" => ~NoGap(p)
    BY <1>1, <1>3, <1>4 DEF NoGap
  <1>8. e[1] # "text" => Holds(p, lo, hi)
    BY <1>1, <1>3, <1>4 DEF Holds
  <1>9. ASSUME e[1] = "text", e[2] = hi + 1, NoGap(q)
        PROVE  Holds(p, lo, hi + 1)
    <2>1. \A i \in 1 .. n : TextAt(q, i) => q.events[i][2] \in lo + 1 .. hi
      BY <1>1 DEF Holds
    <2>2. /\ lo <= hi + 1
          /\ \A k \in lo + 1 .. hi + 1 : k \in lo + 1 .. hi \/ k = hi + 1
          /\ \A k \in lo + 1 .. hi : k \in lo + 1 .. hi + 1 /\ k < hi + 1
          /\ hi + 1 \in lo + 1 .. hi + 1
      BY DEF Holds
    <2>3. \A i \in DOMAIN p.events : TextAt(p, i) => p.events[i][2] \in lo + 1 .. hi + 1
      BY <1>1, <1>3, <1>4, <1>9, <2>1, <2>2
    <2>4. ASSUME NEW k \in lo + 1 .. hi + 1
          PROVE  \E i \in DOMAIN p.events : TextAt(p, i) /\ p.events[i][2] = k
      <3>1. CASE k = hi + 1
        BY <1>1, <1>3, <1>4, <1>9, <3>1
      <3>2. CASE k \in lo + 1 .. hi
        <4>1. PICK i \in DOMAIN q.events : TextAt(q, i) /\ q.events[i][2] = k
          BY <3>2 DEF Holds
        <4> QED BY <1>1, <1>3, <1>4, <4>1
      <3> QED BY <2>2, <3>1, <3>2
    <2>5. ASSUME NEW i \in DOMAIN p.events, NEW j \in DOMAIN p.events,
                 TextAt(p, i), TextAt(p, j), i < j
          PROVE  p.events[i][2] < p.events[j][2]
      <3>1. i \in 1 .. n
        BY <1>1, <2>5
      <3>2. CASE j \in 1 .. n
        BY <1>1, <1>4, <2>5, <3>1, <3>2 DEF Holds
      <3>3. CASE j = n + 1
        BY <1>1, <1>4, <1>9, <2>1, <2>2, <2>5, <3>1, <3>3
      <3> QED BY <1>1, <1>3, <3>2, <3>3
    <2>6. \A g \in DOMAIN p.events : ~GapAt(p, g)
      BY <1>1, <1>3, <1>4, <1>9 DEF NoGap
    <2> QED BY <2>2, <2>3, <2>4, <2>5, <2>6 DEF Holds
  <1> QED BY <1>5, <1>6, <1>7, <1>8, <1>9

-----------------------------------------------------------------------------
(* The count of queued bytes.                                              *)

\* Where the text of a queue is.
TextIndices(q) == {i \in DOMAIN q.events : q.events[i][1] = "text"}

LEMMA TextsCounted ==
  ASSUME NEW q \in QueueRecords
  PROVE  /\ TextIndices(q) \subseteq 1 .. Len(q.events) /\ IsFiniteSet(TextIndices(q))
         /\ Texts(q) = Cardinality(TextIndices(q)) /\ Texts(q) \in Nat
  <1>1. q.events \in Seq(Frames) /\ Len(q.events) \in Nat /\ DOMAIN q.events = 1 .. Len(q.events)
    BY DEF QueueRecords
  <1>2. IsFiniteSet(1 .. Len(q.events))
    BY <1>1, FS_Interval
  <1>3. TextIndices(q) \subseteq 1 .. Len(q.events)
    BY <1>1 DEF TextIndices
  <1>4. IsFiniteSet(TextIndices(q))
    BY <1>2, <1>3, FS_Subset
  <1>5. Texts(q) = Cardinality(TextIndices(q))
    BY DEF Texts, TextIndices
  <1> QED BY <1>3, <1>4, <1>5, FS_CardinalityType

\* An appended event adds its size, a head that leaves takes it along.
LEMMA TextsAppended ==
  ASSUME NEW q \in QueueRecords, NEW e \in Frames,
         NEW p \in QueueRecords, p.events = Append(q.events, e)
  PROVE  Texts(p) = Texts(q) + Size(e)
  <1> DEFINE n == Len(q.events)
  <1>1. /\ n \in Nat /\ DOMAIN q.events = 1 .. n /\ DOMAIN p.events = 1 .. n + 1
        /\ \A i \in 1 .. n : p.events[i] = q.events[i]
        /\ p.events[n + 1] = e
    <2>1. q.events \in Seq(Frames) /\ n \in Nat /\ DOMAIN q.events = 1 .. n
      BY DEF QueueRecords
    <2> QED BY <2>1, AppendProperties
  <1> HIDE DEF n
  <1>2. /\ \A i \in 1 .. n + 1 : i \in 1 .. n \/ i = n + 1
        /\ \A i \in 1 .. n : i \in 1 .. n + 1
        /\ n + 1 \in 1 .. n + 1 /\ n + 1 \notin 1 .. n
    BY <1>1
  <1>3. /\ Texts(q) = Cardinality(TextIndices(q)) /\ Texts(p) = Cardinality(TextIndices(p))
        /\ IsFiniteSet(TextIndices(q)) /\ Texts(q) \in Nat
    BY TextsCounted
  <1>4. CASE e[1] = "text"
    <2>1. TextIndices(p) = TextIndices(q) \cup {n + 1} /\ n + 1 \notin TextIndices(q)
      BY <1>1, <1>2, <1>4 DEF TextIndices
    <2>2. Cardinality(TextIndices(p)) = Cardinality(TextIndices(q)) + 1
      BY <1>3, <2>1, FS_AddElement
    <2> QED BY <1>3, <1>4, <2>2 DEF Size
  <1>5. CASE e[1] # "text"
    <2>1. TextIndices(p) = TextIndices(q)
      BY <1>1, <1>2, <1>5 DEF TextIndices
    <2> QED BY <1>3, <1>5, <2>1 DEF Size
  <1> QED BY <1>4, <1>5

LEMMA TextsTail ==
  ASSUME NEW q \in QueueRecords, q.events # <<>>,
         NEW p \in QueueRecords, p.events = Tail(q.events)
  PROVE  Texts(q) = Texts(p) + Size(Head(q.events))
  <1> DEFINE n == Len(q.events)
             later == TextIndices(q) \ {1}
             shift == [i \in TextIndices(p) |-> i + 1]
  <1>1. /\ n \in Nat /\ DOMAIN q.events = 1 .. n /\ n # 0
        /\ DOMAIN p.events = 1 .. n - 1
        /\ \A i \in 1 .. n - 1 : p.events[i] = q.events[i + 1]
        /\ Head(q.events) = q.events[1]
    <2>1. q.events \in Seq(Frames) /\ n \in Nat /\ DOMAIN q.events = 1 .. n
      BY DEF QueueRecords
    <2>2. /\ Tail(q.events) \in Seq(Frames) /\ Len(Tail(q.events)) = n - 1 /\ n # 0
          /\ \A i \in 1 .. n - 1 : Tail(q.events)[i] = q.events[i + 1]
          /\ Head(q.events) = q.events[1]
      BY <2>1, HeadTailProperties, EmptySeq
    <2> QED BY <2>1, <2>2
  <1>2. /\ Texts(q) = Cardinality(TextIndices(q)) /\ Texts(p) = Cardinality(TextIndices(p))
        /\ IsFiniteSet(TextIndices(q)) /\ IsFiniteSet(TextIndices(p))
        /\ Texts(q) \in Nat /\ Texts(p) \in Nat
    BY TextsCounted
  <1> HIDE DEF n
  <1>3. /\ \A i \in TextIndices(p) : i \in Nat /\ i + 1 \in later
        /\ \A i \in later : i \in Nat /\ i - 1 \in TextIndices(p)
    BY <1>1 DEF TextIndices
  <1>4. ExistsBijection(TextIndices(p), later)
    <2>1. shift \in [TextIndices(p) -> later]
      BY <1>3
    <2>2. \A i, j \in TextIndices(p) : shift[i] = shift[j] => i = j
      BY <1>3
    <2>3. \A i \in later : \E j \in TextIndices(p) : shift[j] = i
      <3> SUFFICES ASSUME NEW i \in later PROVE \E j \in TextIndices(p) : shift[j] = i
        OBVIOUS
      <3>1. i - 1 \in TextIndices(p) /\ shift[i - 1] = i
        BY <1>3
      <3> QED BY <3>1
    <2> HIDE DEF shift, later
    <2> QED BY <2>1, <2>2, <2>3 DEF ExistsBijection, Bijection, Injection, Surjection, IsInjective
  <1>5. Cardinality(later) = Texts(p)
    BY <1>2, <1>4, FS_Bijection
  <1>6. Cardinality(later) = IF 1 \in TextIndices(q) THEN Texts(q) - 1 ELSE Texts(q)
    BY <1>2, FS_RemoveElement
  <1>7. 1 \in TextIndices(q) <=> Size(Head(q.events)) = 1
    BY <1>1 DEF TextIndices, Size
  <1>8. Size(Head(q.events)) \in {0, 1}
    BY DEF Size
  <1> QED BY <1>2, <1>5, <1>6, <1>7, <1>8

\* The bytes of the queues are those of one of them and those of the others.
Elsewhere(f, c) == {x \in TextPlaces(f) : x[1] # c}

LEMMA PlacesCounted ==
  ASSUME NEW f \in [Conns -> QueueRecords], NEW c \in Conns, Len(f[c].events) <= EventLimit
  PROVE  /\ IsFiniteSet(Elsewhere(f, c)) /\ Cardinality(Elsewhere(f, c)) \in Nat
         /\ Cardinality(TextPlaces(f)) = Cardinality(Elsewhere(f, c)) + Texts(f[c])
  <1> USE SlotsAssumption, LimitsAssumption
  <1> DEFINE here == {x \in TextPlaces(f) : x[1] = c}
             place == [i \in TextIndices(f[c]) |-> <<c, i>>]
  <1>1. /\ f[c] \in QueueRecords /\ Len(f[c].events) \in Nat
        /\ DOMAIN f[c].events = 1 .. Len(f[c].events)
    BY DEF QueueRecords
  <1>2. /\ TextIndices(f[c]) \subseteq 1 .. Len(f[c].events) /\ IsFiniteSet(TextIndices(f[c]))
        /\ Texts(f[c]) = Cardinality(TextIndices(f[c])) /\ Texts(f[c]) \in Nat
    BY <1>1, TextsCounted
  <1>3. IsFiniteSet(TextPlaces(f))
    <2>1. IsFiniteSet(1 .. EventLimit)
      BY FS_Interval
    <2>2. IsFiniteSet(Conns \X (1 .. EventLimit))
      BY <2>1, FS_Product
    <2> QED BY <2>2, FS_Subset DEF TextPlaces
  <1>4. /\ here \subseteq TextPlaces(f) /\ Elsewhere(f, c) \subseteq TextPlaces(f)
        /\ here \cup Elsewhere(f, c) = TextPlaces(f) /\ here \cap Elsewhere(f, c) = {}
    BY DEF Elsewhere
  <1>5. IsFiniteSet(here) /\ IsFiniteSet(Elsewhere(f, c))
    BY <1>3, <1>4, FS_Subset
  <1>6. \A i \in 1 .. Len(f[c].events) : i \in 1 .. EventLimit
    BY <1>1
  <1>7. ExistsBijection(TextIndices(f[c]), here)
    <2>1. \A i \in TextIndices(f[c]) : <<c, i>> \in here
      BY <1>2, <1>6 DEF TextPlaces, TextIndices
    <2>2. \A x \in here : x[2] \in TextIndices(f[c]) /\ x = <<c, x[2]>>
      BY DEF TextPlaces, TextIndices
    <2>3. place \in [TextIndices(f[c]) -> here]
      BY <2>1
    <2>4. \A i, j \in TextIndices(f[c]) : place[i] = place[j] => i = j
      OBVIOUS
    <2>5. \A x \in here : \E i \in TextIndices(f[c]) : place[i] = x
      BY <2>2
    <2> HIDE DEF place, here
    <2> QED BY <2>3, <2>4, <2>5 DEF ExistsBijection, Bijection, Injection, Surjection, IsInjective
  <1>8. Cardinality(here) = Texts(f[c])
    BY <1>2, <1>7, FS_Bijection
  <1>9. Cardinality(TextPlaces(f)) =
          Cardinality(here) + Cardinality(Elsewhere(f, c)) - Cardinality(here \cap Elsewhere(f, c))
    <2> HIDE DEF here
    <2> QED BY <1>4, <1>5, FS_Union
  <1>10. Cardinality(here \cap Elsewhere(f, c)) = 0
    BY <1>4, FS_EmptySet
  <1>11. Cardinality(Elsewhere(f, c)) \in Nat
    BY <1>5, FS_CardinalityType
  <1> HIDE DEF here
  <1> QED BY <1>2, <1>5, <1>8, <1>9, <1>10, <1>11

\* A step that changes the events of one queue changes the count by what that
\* queue gains or loses.
LEMMA OneQueueCounts ==
  ASSUME NEW f \in [Conns -> QueueRecords], NEW g \in [Conns -> QueueRecords], NEW c \in Conns,
         Len(f[c].events) <= EventLimit, Len(g[c].events) <= EventLimit,
         \A d \in Conns : d # c => g[d].events = f[d].events
  PROVE  /\ Cardinality(TextPlaces(g)) = Cardinality(TextPlaces(f)) - Texts(f[c]) + Texts(g[c])
         /\ {Cardinality(TextPlaces(f)), Cardinality(TextPlaces(g)), Texts(f[c]), Texts(g[c])}
              \subseteq Nat
         /\ Texts(f[c]) <= Cardinality(TextPlaces(f))
  <1>1. Elsewhere(f, c) = Elsewhere(g, c)
    BY DEF Elsewhere, TextPlaces
  <1>2. /\ Cardinality(TextPlaces(f)) = Cardinality(Elsewhere(f, c)) + Texts(f[c])
        /\ Cardinality(Elsewhere(f, c)) \in Nat
    BY PlacesCounted
  <1>3. Cardinality(TextPlaces(g)) = Cardinality(Elsewhere(g, c)) + Texts(g[c])
    BY PlacesCounted
  <1>4. Texts(f[c]) \in Nat /\ Texts(g[c]) \in Nat
    BY TextsCounted
  <1> QED BY <1>1, <1>2, <1>3, <1>4

-----------------------------------------------------------------------------
(* The terminal.                                                           *)

\* A frame that is neither text nor a marker leaves what was shown alone, and
\* never makes a terminal show text again.
LEMMA SeenKeepsText ==
  ASSUME NEW r \in ClientRecords, NEW frame \in Frames, frame[1] \notin {"text", "gap"}
  PROVE  /\ Seen(r, frame) \in ClientRecords
         /\ Seen(r, frame).last = r.last /\ Seen(r, frame).gap = r.gap
         /\ Seen(r, frame).hole = r.hole
         /\ Seen(r, frame).mode \in Showing => r.mode \in Showing
         /\ Seen(r, frame).mode = "waiting" => r.mode = "waiting"
         /\ frame[1] = "accepted" /\ r.mode \notin Gone => Seen(r, frame).mode # "waiting"
  <1> DEFINE modes == {"waiting", "accepted", "final", "verified"} \cup Gone
  <1>1. frame[1] \in {"accepted", "activity", "begin", "end", "error", "bye"} /\ r.mode \in modes
    BY DEF Frames, ClientRecords
  <1>2. CASE Seen(r, frame) = r /\ (r.mode \notin Showing \/ frame[1] = "activity")
    BY <1>2 DEF Showing
  <1>3. ASSUME NEW m \in {"recovering", "failed", "final", "verified", "accepted"},
               Seen(r, frame) = [r EXCEPT !.mode = m], m = "accepted" => r.mode \in Showing
        PROVE  /\ Seen(r, frame) \in ClientRecords
               /\ Seen(r, frame).last = r.last /\ Seen(r, frame).gap = r.gap
               /\ Seen(r, frame).hole = r.hole
               /\ Seen(r, frame).mode \in Showing => r.mode \in Showing
               /\ Seen(r, frame).mode # "waiting"
    <2>1. [r EXCEPT !.mode = m] \in ClientRecords
      BY DEF ClientRecords, Gone
    <2>2. /\ [r EXCEPT !.mode = m].mode = m /\ [r EXCEPT !.mode = m].last = r.last
          /\ [r EXCEPT !.mode = m].gap = r.gap /\ [r EXCEPT !.mode = m].hole = r.hole
      BY DEF ClientRecords
    <2> QED BY <1>3, <2>1, <2>2 DEF Showing
  <1>4. \/ Seen(r, frame) = r /\ (r.mode \notin Showing \/ frame[1] = "activity")
        \/ \E m \in {"recovering", "failed", "final", "verified", "accepted"} :
             Seen(r, frame) = [r EXCEPT !.mode = m] /\ (m = "accepted" => r.mode \in Showing)
    <2>1. CASE r.mode \in Gone \cup {"verified"}
      BY <2>1 DEF Seen, Gone, Showing
    <2>2. CASE r.mode \in {"waiting", "accepted", "final"}
      <3>1. CASE frame[1] \in {"bye", "error"}
        BY <2>2, <3>1 DEF Seen, Gone
      <3>2. CASE frame[1] \in {"begin", "end"}
        BY <2>2, <3>2 DEF Seen, Gone
      <3>3. CASE frame[1] \in {"accepted", "activity"}
        BY <2>2, <3>3 DEF Seen, Gone, Showing
      <3> QED BY <1>1, <3>1, <3>2, <3>3
    <2> QED BY <1>1, <2>1, <2>2
  <1>5. frame[1] = "accepted" /\ r.mode \notin Gone /\ Seen(r, frame) = r => r.mode # "waiting"
    <2> SUFFICES ASSUME frame[1] = "accepted", r.mode = "waiting", Seen(r, frame) = r PROVE FALSE
      OBVIOUS
    <2>1. Seen(r, frame) = [r EXCEPT !.mode = "accepted"]
      BY DEF Seen, Gone
    <2> QED BY <2>1 DEF ClientRecords
  <1> HIDE DEF modes
  <1> QED BY <1>2, <1>3, <1>4, <1>5

\* Text and markers are shown, and the renderer notes a hole.
LEMMA SeenShows ==
  ASSUME NEW r \in ClientRecords, NEW frame \in Frames, frame[1] \in {"text", "gap"}
  PROVE  /\ Seen(r, frame) \in ClientRecords
         /\ Seen(r, frame).mode \in Showing => r.mode \in Showing
         /\ Seen(r, frame).mode = "waiting" => r.mode = "waiting"
         /\ r.mode \notin Showing => Seen(r, frame).hole = r.hole
         /\ r.mode \in Showing /\ frame[1] = "text" =>
              /\ Seen(r, frame).last = frame[2] /\ Seen(r, frame).gap = r.gap
              /\ ~r.hole /\ ~r.gap /\ (r.last = 0 \/ frame[2] = r.last + 1)
                   => ~Seen(r, frame).hole
         /\ r.mode \in Showing /\ frame[1] = "gap" =>
              /\ Seen(r, frame).last = r.last /\ Seen(r, frame).gap
              /\ Seen(r, frame).hole = r.hole
  <1>1. r.mode \in {"waiting", "accepted", "final", "verified"} \cup Gone /\ frame[2] \in Nat
    BY DEF Frames, ClientRecords
  <1>2. CASE r.mode \in Gone \cup {"verified"}
    <2>1. Seen(r, frame) = r /\ r.mode \notin Showing
      BY <1>2 DEF Seen, Showing, Gone
    <2> QED BY <2>1
  <1>3. CASE r.mode = "final"
    <2>1. Seen(r, frame) = [r EXCEPT !.mode = "failed"] /\ r.mode \notin Showing
      BY <1>3 DEF Seen, Showing, Gone
    <2>2. [r EXCEPT !.mode = "failed"] \in ClientRecords
      BY DEF ClientRecords, Gone
    <2> QED BY <2>1, <2>2 DEF ClientRecords, Showing
  <1>4. CASE r.mode \in Showing /\ frame[1] = "gap"
    <2>1. Seen(r, frame) = [r EXCEPT !.gap = TRUE]
      BY <1>4 DEF Seen, Showing, Gone
    <2> QED BY <1>4, <2>1 DEF ClientRecords, Showing
  <1>5. CASE r.mode \in Showing /\ frame[1] = "text"
    <2> DEFINE hole == r.hole \/ r.gap \/ (r.last # 0 /\ frame[2] # r.last + 1)
    <2>1. Seen(r, frame) = [r EXCEPT !.last = frame[2], !.hole = hole]
      BY <1>5 DEF Seen, Showing, Gone
    <2>2. hole \in BOOLEAN
      OBVIOUS
    <2>3. ~r.hole /\ ~r.gap /\ (r.last = 0 \/ frame[2] = r.last + 1) => ~hole
      OBVIOUS
    <2> HIDE DEF hole
    <2>4. ASSUME NEW h \in BOOLEAN
          PROVE  /\ [r EXCEPT !.last = frame[2], !.hole = h] \in ClientRecords
                 /\ [r EXCEPT !.last = frame[2], !.hole = h].last = frame[2]
                 /\ [r EXCEPT !.last = frame[2], !.hole = h].hole = h
                 /\ [r EXCEPT !.last = frame[2], !.hole = h].gap = r.gap
                 /\ [r EXCEPT !.last = frame[2], !.hole = h].mode = r.mode
      BY <1>1 DEF ClientRecords
    <2>5. /\ Seen(r, frame) \in ClientRecords
          /\ Seen(r, frame).last = frame[2] /\ Seen(r, frame).hole = hole
          /\ Seen(r, frame).gap = r.gap /\ Seen(r, frame).mode = r.mode
      BY <2>1, <2>2, <2>4
    <2> QED BY <1>5, <2>3, <2>5
  <1> QED BY <1>1, <1>2, <1>3, <1>4, <1>5 DEF Showing

\* The frames that the code writes.
LEMMA FramesWritten ==
  \A kind \in {"accepted", "gap", "activity", "begin", "end", "error", "bye"} :
    Frame(kind) \in Frames /\ Frame(kind)[1] = kind
  BY DEF Frame, Frames

-----------------------------------------------------------------------------
(* What a step keeps of a session it does not queue or show anything for.  *)

\* The handler and the terminal of c may go on, nothing more is queued or shown;
\* an event may be offered to it.
HandlerGoesOn(c) ==
  /\ handler'[c].sub = handler[c].sub
  /\ (handler'[c].pc \in Serving) <=> (handler[c].pc \in Serving)
  /\ handler'[c].pc \in Early => handler[c].pc \in Early
  /\ handler'[c].seen \in Ended => request' \in Ended
  /\ handler'[c].pc = "stream" => client'[c].mode # "waiting"
ShownStays(c) ==
  /\ client'[c].last = client[c].last /\ client'[c].gap = client[c].gap
  /\ client'[c].hole = client[c].hole
  /\ client'[c].mode \in Showing => client[c].mode \in Showing
QueueStays(c) ==
  /\ queue'[c] = queue[c]
  /\ Held(c)' => Held(c) \/ handler[c].sub
  /\ ~handler[c].sub /\ Held(c) => Held(c)'
  /\ published.deltas <= published'.deltas
  /\ handler[c].sub => Offered(c)' = Offered(c)

LEMMA Undisturbed ==
  ASSUME StreamTypes, StreamTypes', NEW c \in Conns, Session(c),
         HandlerGoesOn(c), ShownStays(c), QueueStays(c)
  PROVE  Session(c)'
  <1>1. Early \cap Serving = {}
    BY DEF Early, Serving, Undecoded
  <1>2. Subscription(c)'
    BY <1>1 DEF Session, Subscription, HandlerGoesOn, ShownStays, QueueStays
  <1>3. Room(c)'
    <2>1. handler'[c].sub <=> handler[c].sub
      BY DEF Session, Subscription, HandlerGoesOn
    <2> QED BY <2>1 DEF Session, Room, QueueStays
  <1>4. Stream(c)'
    <2>1. ~client'[c].hole
      BY DEF Session, Stream, ShownStays
    <2> SUFFICES ASSUME Shows(c)' PROVE Continues(c)'
      BY <2>1 DEF Stream
    <2>2. Continues(c) /\ handler[c].sub
      BY DEF Session, Stream, Shows, HandlerGoesOn, ShownStays
    <2>3. Shown(c)' = Shown(c) /\ Offered(c)' = Offered(c)
      BY <2>2 DEF Shown, ShownStays, QueueStays
    <2>4. /\ published.deltas \in Nat /\ published'.deltas \in Nat
          /\ published.deltas <= published'.deltas
          /\ queue'[c] = queue[c]
      BY DEF StreamTypes, QueueStays
    <2>5. PICK hi \in 0 .. published.deltas :
            Holds(queue[c], Shown(c), hi) /\ (~queue[c].muted => hi = Offered(c))
      BY <2>2 DEF Continues
    <2>6. hi \in 0 .. published'.deltas
      BY <2>4
    <2>7. Holds(queue'[c], Shown(c)', hi) /\ (~queue'[c].muted => hi = Offered(c)')
      BY <2>3, <2>4, <2>5
    <2>8. /\ client'[c].gap => queue'[c].muted /\ NoText(queue'[c])
          /\ queue'[c].muted => client'[c].gap \/ ~NoGap(queue'[c])
          /\ ~queue'[c].muted => NoGap(queue'[c])
      BY <2>2, <2>4 DEF Continues, ShownStays
    <2> QED BY <2>6, <2>7, <2>8 DEF Continues
  <1> QED BY <1>2, <1>3, <1>4 DEF Session

\* A step of the connection c that leaves the others alone.
Alone(c) ==
  /\ \A d \in Conns : d # c => handler'[d] = handler[d] /\ client'[d] = client[d]
  /\ request \in Ended => request' \in Ended

LEMMA OthersUndisturbed ==
  ASSUME HubInv, NEW c \in Conns, Alone(c), NEW d \in Conns, d # c
  PROVE  HandlerGoesOn(d) /\ ShownStays(d)
  BY DEF HubInv, Session, Subscription, Alone, HandlerGoesOn, ShownStays

\* A step that queues nothing and shows nothing.
LEMMA QuietForAll ==
  ASSUME HubInv, StreamTypes', UNCHANGED hubVars,
         \A d \in Conns : HandlerGoesOn(d) /\ ShownStays(d)
  PROVE  HubInv'
  <1>1. /\ queue' = queue /\ bytes' = bytes /\ publish' = publish /\ published' = published
        /\ published.deltas \in Nat
    BY DEF hubVars, HubInv, StreamTypes
  <1>2. PublishInv' /\ Budget'
    BY <1>1 DEF HubInv, PublishInv, Budget
  <1>3. ASSUME NEW d \in Conns PROVE Session(d)'
    <2>1. QueueStays(d)
      BY <1>1 DEF QueueStays, Held, Offered
    <2>2. StreamTypes /\ Session(d)
      BY DEF HubInv
    <2> QED BY <2>1, <2>2, Undisturbed
  <1> QED BY <1>2, <1>3 DEF HubInv

LEMMA QuietStep ==
  ASSUME HubInv, StreamTypes', NEW c \in Conns, Alone(c), UNCHANGED hubVars,
         HandlerGoesOn(c), ShownStays(c)
  PROVE  HubInv'
  <1>1. \A d \in Conns : HandlerGoesOn(d) /\ ShownStays(d)
    BY OthersUndisturbed
  <1> QED BY <1>1, QuietForAll

\* A frame that shows nothing is written.
LEMMA WrittenFrame ==
  ASSUME client \in [Conns -> ClientRecords], NEW c \in Conns,
         NEW kind \in {"accepted", "begin", "end", "error", "bye"}, Write(c, Frame(kind))
  PROVE  /\ client' \in [Conns -> ClientRecords]
         /\ \A d \in Conns : d # c => client'[d] = client[d]
         /\ ShownStays(c) /\ (client'[c].mode = "waiting" => client[c].mode = "waiting")
         /\ kind = "accepted" /\ Reads(c) => client'[c].mode # "waiting"
  <1>1. Frame(kind) \in Frames /\ Frame(kind)[1] \notin {"text", "gap"} /\ Frame(kind)[1] = kind
    BY FramesWritten
  <1>2. client' = [client EXCEPT ![c] = Seen(client[c], Frame(kind))]
    BY DEF Write
  <1> QED BY <1>1, <1>2, SeenKeepsText DEF ShownStays, Reads

-----------------------------------------------------------------------------
(* The types of the streams.                                               *)

LEMMA QueueTypes ==
  ASSUME NEW q \in QueueRecords, NEW e \in Frames
  PROVE  /\ EmptyQueue \in QueueRecords
         /\ Enqueued(q, e) \in QueueRecords
         /\ q.events # <<>> => [q EXCEPT !.events = Tail(@)] \in QueueRecords
         /\ q.events # <<>> => Head(q.events) \in Frames
  <1>1. q.events \in Seq(Frames) /\ q.since \in Nat /\ q.muted \in BOOLEAN
    BY DEF QueueRecords
  <1>2. Append(q.events, e) \in Seq(Frames) /\ Append(q.events, Frame("gap")) \in Seq(Frames)
    BY <1>1, FramesWritten, AppendProperties
  <1>3. EmptyQueue \in QueueRecords
    BY DEF EmptyQueue, QueueRecords
  <1>4. ASSUME NEW s \in Seq(Frames)
        PROVE  /\ [q EXCEPT !.events = s] \in QueueRecords
               /\ [q EXCEPT !.events = s, !.muted = TRUE] \in QueueRecords
    BY <1>4 DEF QueueRecords
  <1>5. Enqueued(q, e) \in QueueRecords
    <2>1. [q EXCEPT !.events = Append(@, e)] \in QueueRecords
      BY <1>2, <1>4
    <2>2. [q EXCEPT !.events = Append(@, Frame("gap")), !.muted = TRUE] \in QueueRecords
      BY <1>2, <1>4
    <2> QED BY <2>1, <2>2 DEF Enqueued
  <1>6. q.events # <<>> =>
          [q EXCEPT !.events = Tail(@)] \in QueueRecords /\ Head(q.events) \in Frames
    BY <1>1, <1>4, HeadTailProperties
  <1> QED BY <1>3, <1>5, <1>6

\* What a returning handler leaves of its queue.
LEMMA UnsubscribeTypes ==
  ASSUME queue \in [Conns -> QueueRecords], NEW c \in Conns, Unsubscribe(c)
  PROVE  queue' \in [Conns -> QueueRecords]
  <1>1. EmptyQueue \in QueueRecords
    BY DEF EmptyQueue, QueueRecords
  <1> QED BY <1>1 DEF Unsubscribe

\* The start of a subscription.
LEMMA SinceTypes ==
  ASSUME NEW q \in QueueRecords, NEW n \in Nat
  PROVE  [q EXCEPT !.since = n] \in QueueRecords
  BY DEF QueueRecords

\* The admission of connections, and handlers that write nothing.
LEMMA AdmissionTypes ==
  ASSUME StreamTypes, NEW c \in Conns,
         \/ \E op \in {"submit", "resume"} : Connect(c, op)
         \/ Accept(c) \/ Register(c) \/ StopWaiting(c)
         \/ Store(c) \/ Stored(c) \/ WaitForSubmission(c) \/ WaitForPrior(c) \/ Subscribe(c)
  PROVE  StreamTypes'
  <1> USE DEF StreamTypes, hubVars, resultVars, stopVars
  <1>1. CASE \/ \E op \in {"submit", "resume"} : Connect(c, op)
             \/ Accept(c) \/ Register(c)
    BY <1>1 DEF Connect, Accept, Register
  <1>2. CASE Store(c) \/ Stored(c) \/ WaitForSubmission(c) \/ WaitForPrior(c)
    BY <1>2 DEF Store, Stored, WaitForSubmission, WaitForPrior
  <1>3. CASE StopWaiting(c) \/ Subscribe(c)
    <2>1. queue' = [queue EXCEPT ![c].since = published.deltas]
      BY <1>3 DEF StopWaiting, Subscribed, Subscribe
    <2>2. queue[c] \in QueueRecords /\ published.deltas \in Nat
      OBVIOUS
    <2>3. queue' \in [Conns -> QueueRecords]
      BY <2>1, <2>2, SinceTypes
    <2> QED BY <1>3, <2>3 DEF StopWaiting, Subscribed, Subscribe
  <1> QED BY <1>1, <1>2, <1>3

\* Handlers that answer, return, or both.
LEMMA AnswerTypes ==
  ASSUME StreamTypes, NEW c \in Conns,
         \/ CheckFlag(c) \/ Decode(c) \/ DecodeFails(c) \/ Refuse(c) \/ Greet(c) \/ Resolve(c)
         \/ Replay(c) \/ SeeDisconnect(c)
  PROVE  StreamTypes'
  <1>1. client' \in [Conns -> ClientRecords]
    <2>1. client \in [Conns -> ClientRecords]
      BY DEF StreamTypes
    <2>2. CASE Replay(c)
      <3>1. Frame("begin") \in Frames /\ Frame("end") \in Frames
            /\ Frame("begin")[1] = "begin" /\ Frame("end")[1] = "end"
        BY FramesWritten
      <3>2. Seen(client[c], Frame("begin")) \in ClientRecords
        BY <2>1, <3>1, SeenKeepsText
      <3>3. Seen(Seen(client[c], Frame("begin")), Frame("end")) \in ClientRecords
        BY <3>1, <3>2, SeenKeepsText
      <3> QED BY <2>1, <2>2, <3>3 DEF Replay
    <2>3. CASE ~Replay(c)
      <3>1. \/ client' = client
            \/ \E kind \in {"bye", "error", "accepted"} : Write(c, Frame(kind))
        BY <2>3 DEF CheckFlag, Decode, DecodeFails, Refuse, Greet, Resolve, SeeDisconnect
      <3> QED BY <2>1, <3>1, WrittenFrame
    <2> QED BY <2>2, <2>3
  <1>2. queue' \in [Conns -> QueueRecords]
    <2>1. queue \in [Conns -> QueueRecords] /\ published.deltas \in Nat
      BY DEF StreamTypes
    <2>2. \/ queue' = queue \/ Unsubscribe(c)
          \/ queue' = [queue EXCEPT ![c].since = published.deltas]
      BY DEF CheckFlag, Decode, DecodeFails, Refuse, Greet, Resolve, Replay, SeeDisconnect, Return,
             Admit, Subscribed, hubVars
    <2>3. [queue[c] EXCEPT !.since = published.deltas] \in QueueRecords
      BY <2>1, SinceTypes
    <2> QED BY <2>1, <2>2, <2>3, UnsubscribeTypes
  <1>3. UNCHANGED <<ack, publish, published, worker, final, stopVars>>
    <2>1. CASE CheckFlag(c) \/ DecodeFails(c) \/ Refuse(c) \/ Greet(c)
      BY <2>1 DEF CheckFlag, DecodeFails, Refuse, Greet, Return, hubVars, resultVars
    <2>2. CASE Resolve(c) \/ Replay(c) \/ SeeDisconnect(c)
      BY <2>2 DEF Resolve, Replay, SeeDisconnect, Return, hubVars, resultVars
    <2>3. CASE Decode(c)
      BY <2>3 DEF Decode, Admit, Subscribed, Return, hubVars, resultVars
    <2> QED BY <2>1, <2>2, <2>3
  <1>4. leaves' = leaves \/ leaves' = leaves + 1
    BY DEF CheckFlag, Decode, DecodeFails, Refuse, Greet, Resolve, Replay, SeeDisconnect
  <1> QED BY <1>1, <1>2, <1>3, <1>4 DEF StreamTypes, stopVars

\* The run and its subscribers.
LEMMA PublishTypes ==
  ASSUME StreamTypes, NEW c \in Conns,
         Forward(c) \/ PublishTo(c)
  PROVE  StreamTypes'
  <1>1. CASE Forward(c)
    <2>1. queue[c] \in QueueRecords /\ client[c] \in ClientRecords
      BY DEF StreamTypes
    <2>2. Head(queue[c].events) \in Frames /\ [queue[c] EXCEPT !.events = Tail(@)] \in QueueRecords
      BY <1>1, <2>1, QueueTypes, FramesWritten DEF Forward
    <2>3. Seen(client[c], Head(queue[c].events)) \in ClientRecords
      BY <2>1, <2>2, SeenKeepsText, SeenShows
    <2>4. client' \in [Conns -> ClientRecords] /\ queue' \in [Conns -> QueueRecords]
      BY <1>1, <2>2, <2>3 DEF StreamTypes, Forward, Write
    <2> QED BY <1>1, <2>4 DEF StreamTypes, Forward, resultVars, stopVars
  <1>2. CASE PublishTo(c)
    <2>1. queue[c] \in QueueRecords /\ publish.event \in Frames
      BY DEF StreamTypes
    <2>2. EmptyQueue \in QueueRecords /\ Enqueued(queue[c], publish.event) \in QueueRecords
      BY <2>1, QueueTypes
    <2>3. queue' \in [Conns -> QueueRecords]
      BY <1>2, <2>2 DEF StreamTypes, PublishTo
    <2>4. NoEvent \in [event : Frames, left : SUBSET Conns]
      BY FramesWritten DEF NoEvent
    <2>5. publish' \in [event : Frames, left : SUBSET Conns]
      BY <1>2, <2>4 DEF StreamTypes, PublishTo
    <2> QED BY <1>2, <2>3, <2>5 DEF StreamTypes, PublishTo, resultVars, stopVars
  <1> QED BY <1>1, <1>2

LEMMA PublishedTypes ==
  ASSUME StreamTypes, NEW kind \in {"text", "activity"}, Publish(kind)
  PROVE  StreamTypes'
  <1>1. published' \in [deltas : Nat, events : Nat]
    BY DEF StreamTypes, Publish
  <1>2. /\ <<kind, published'.deltas>> \in Frames /\ <<kind, 0>> \in Frames
        /\ Subscribers \subseteq Conns
    BY <1>1 DEF Frames, Subscribers
  <1>3. publish' \in [event : Frames, left : SUBSET Conns]
    BY <1>2 DEF Publish
  <1> QED BY <1>1, <1>3 DEF StreamTypes, Publish, resultVars, stopVars

\* The outbox worker, the clients, and the shutdown.
LEMMA OtherTypes ==
  ASSUME StreamTypes,
         \/ \E c \in Conns :
              \/ SendFinal(c) \/ ClientLeaves(c) \/ SeeEnd(c) \/ ConnectAck(c) \/ AcceptAck(c)
              \/ Acknowledge(c) \/ Notify(c)
         \/ Finish \/ Transmit \/ TransmissionEnds \/ BeginShutdown \/ SnapshotSinks
         \/ UNCHANGED vars
  PROVE  StreamTypes'
  <1> USE DEF StreamTypes, hubVars, resultVars, stopVars
  <1>1. ASSUME NEW c \in Conns, SendFinal(c) PROVE StreamTypes'
    <2>1. client' = client \/ Write(c, Frame("begin")) \/ Write(c, Frame("end"))
      BY <1>1 DEF SendFinal
    <2>2. client' \in [Conns -> ClientRecords]
      BY <2>1, WrittenFrame
    <2> QED BY <1>1, <2>2 DEF SendFinal
  <1>2. ASSUME NEW c \in Conns, Notify(c) PROVE StreamTypes'
    <2>1. client' \in [Conns -> ClientRecords]
      BY <1>2, WrittenFrame DEF Notify
    <2> QED BY <1>2, <2>1 DEF Notify
  <1>3. ASSUME NEW c \in Conns, ClientLeaves(c) \/ SeeEnd(c) \/ ConnectAck(c) PROVE StreamTypes'
    <2>1. \A m \in Gone : [client[c] EXCEPT !.mode = m] \in ClientRecords
      BY DEF ClientRecords
    <2>2. client' \in [Conns -> ClientRecords]
      BY <1>3, <2>1 DEF ClientLeaves, SeeEnd, ConnectAck, Gone
    <2> QED BY <1>3, <2>2 DEF ClientLeaves, SeeEnd, ConnectAck
  <1>4. ASSUME NEW c \in Conns, AcceptAck(c) \/ Acknowledge(c) PROVE StreamTypes'
    BY <1>4 DEF AcceptAck, Acknowledge
  <1>5. CASE Transmit \/ TransmissionEnds
    BY <1>5 DEF Transmit, TransmissionEnds
  <1>6. CASE Finish \/ BeginShutdown \/ SnapshotSinks \/ UNCHANGED vars
    BY <1>6 DEF Finish, BeginShutdown, SnapshotSinks, vars
  <1> QED BY <1>1, <1>2, <1>3, <1>4, <1>5, <1>6

-----------------------------------------------------------------------------
(* The steps that queue or show something.                                 *)

LEMMA NothingQueued ==
  ASSUME NEW q \in QueueRecords, q.events = <<>>
  PROVE  Texts(q) = 0 /\ Len(q.events) = 0 /\ NoText(q) /\ NoGap(q)
  <1>1. DOMAIN q.events = {} /\ Len(q.events) = 0
    BY EmptySeq
  <1>2. TextIndices(q) = {}
    BY <1>1 DEF TextIndices
  <1> QED BY <1>1, <1>2, TextsCounted, FS_EmptySet DEF NoText, NoGap

\* The other sessions, when nothing is published.
LEMMA OthersKept ==
  ASSUME HubInv, StreamTypes', NEW c \in Conns, Alone(c), UNCHANGED <<publish, published>>,
         \A d \in Conns : d # c => queue'[d] = queue[d]
  PROVE  \A d \in Conns : d # c => Session(d)'
  <1> SUFFICES ASSUME NEW d \in Conns, d # c PROVE Session(d)'
    OBVIOUS
  <1>1. HandlerGoesOn(d) /\ ShownStays(d)
    BY OthersUndisturbed
  <1>2. published.deltas \in Nat
    BY DEF HubInv, StreamTypes
  <1>3. QueueStays(d)
    BY <1>2 DEF QueueStays, Held, Offered
  <1> QED BY <1>1, <1>3, Undisturbed DEF HubInv

\* A handler that returns gives its queue back, unless an event is being
\* published to it: then the publisher does.
LEMMA ReturnKeepsHub ==
  ASSUME HubInv, StreamTypes', handler \in [Conns -> HandlerRecords], NEW c \in Conns,
         NEW opened \in BOOLEAN, Return(c, opened), Alone(c), ShownStays(c)
  PROVE  HubInv'
  <1> USE LimitsAssumption
  <1>1. /\ handler'[c].pc = "closed" /\ ~handler'[c].sub /\ handler'[c].seen = "absent"
        /\ publish' = publish /\ published' = published
        /\ \A d \in Conns : d # c => queue'[d] = queue[d]
    <2>1. handler'[c] = Closed(handler[c], opened) /\ UNCHANGED <<publish, published>>
      BY DEF Return
    <2>2. /\ Closed(handler[c], opened).pc = "closed" /\ ~Closed(handler[c], opened).sub
          /\ Closed(handler[c], opened).seen = "absent"
      BY DEF Closed, NewHandler
    <2>3. \A d \in Conns : d # c => queue'[d] = queue[d]
      BY DEF Return, Unsubscribe, HubInv, StreamTypes
    <2> QED BY <2>1, <2>2, <2>3
  <1>2. \A d \in Conns : d # c => Session(d)'
    BY <1>1, OthersKept
  <1>3. /\ Held(c)' <=> Held(c)
        /\ queue \in [Conns -> QueueRecords] /\ queue' \in [Conns -> QueueRecords]
        /\ queue[c] \in QueueRecords /\ queue'[c] \in QueueRecords
        /\ Session(c) /\ Budget /\ PublishInv
    BY <1>1 DEF Held, HubInv, StreamTypes
  <1>4. CASE Held(c)
    <2>1. queue' = queue /\ bytes' = bytes
      BY <1>4 DEF Return, Unsubscribe
    <2>2. Subscription(c)' /\ Stream(c)' /\ Room(c)'
      BY <1>1, <1>3, <1>4, <2>1
      DEF Session, Subscription, Stream, Shows, Room, ShownStays, Early, Serving, Ended, Undecoded
    <2>3. Budget' /\ PublishInv'
      BY <1>1, <1>3, <2>1 DEF Budget, PublishInv
    <2> QED BY <1>2, <2>2, <2>3 DEF HubInv, Session
  <1>5. CASE ~Held(c)
    <2>1. queue'[c] = EmptyQueue /\ bytes' = bytes - Texts(queue[c])
      BY <1>3, <1>5 DEF Return, Unsubscribe
    <2>2. queue'[c].events = <<>> /\ ~queue'[c].muted
      BY <2>1 DEF EmptyQueue
    <2>3. Texts(queue'[c]) = 0 /\ Len(queue'[c].events) = 0
      BY <1>3, <2>2, NothingQueued
    <2>4. Subscription(c)' /\ Stream(c)' /\ Room(c)'
      BY <1>1, <1>3, <2>2, <2>3
      DEF Session, Subscription, Stream, Shows, Room, ShownStays, Early, Serving, Ended, Undecoded
    <2>5. /\ Len(queue[c].events) <= EventLimit /\ Len(queue'[c].events) <= EventLimit
          /\ \A d \in Conns : d # c => queue'[d].events = queue[d].events
      BY <1>1, <1>3, <2>3 DEF Session, Room
    <2>6. /\ Cardinality(TextPlaces(queue')) =
               Cardinality(TextPlaces(queue)) - Texts(queue[c]) + Texts(queue'[c])
          /\ {Cardinality(TextPlaces(queue)), Cardinality(TextPlaces(queue')), Texts(queue[c]),
              Texts(queue'[c])} \subseteq Nat
      BY <1>3, <2>5, OneQueueCounts
    <2>7. Budget'
      BY <1>3, <2>1, <2>3, <2>6 DEF Budget
    <2>8. PublishInv'
      BY <1>1, <1>3 DEF PublishInv
    <2> QED BY <1>2, <2>4, <2>7, <2>8 DEF HubInv, Session
  <1> QED BY <1>4, <1>5

\* A subscription starts with an empty queue, after the last delta.
LEMMA SubscribedKeepsHub ==
  ASSUME HubInv, StreamTypes', NEW c \in Conns, Alone(c), ShownStays(c),
         UNCHANGED <<bytes, publish, published>>,
         queue' = [queue EXCEPT ![c].since = published.deltas],
         handler[c].pc \in Early, handler'[c].sub, handler'[c].pc \in Serving \ {"stream"},
         handler'[c].seen \in Ended => request' \in Ended
  PROVE  HubInv'
  <1>1. /\ queue \in [Conns -> QueueRecords] /\ queue[c] \in QueueRecords
        /\ published.deltas \in Nat /\ Session(c) /\ Budget /\ PublishInv
    BY DEF HubInv, StreamTypes
  <1>2. /\ queue'[c].events = queue[c].events /\ queue'[c].muted = queue[c].muted
        /\ queue'[c].since = published.deltas
        /\ \A d \in Conns : d # c => queue'[d] = queue[d]
        /\ queue' \in [Conns -> QueueRecords] /\ queue'[c] \in QueueRecords
    <2>1. /\ [queue[c] EXCEPT !.since = published.deltas].events = queue[c].events
          /\ [queue[c] EXCEPT !.since = published.deltas].muted = queue[c].muted
          /\ [queue[c] EXCEPT !.since = published.deltas].since = published.deltas
      BY <1>1 DEF QueueRecords
    <2> QED BY <1>1, <2>1 DEF StreamTypes
  <1>3. \A d \in Conns : d # c => Session(d)'
    BY <1>2, OthersKept
  <1>4. /\ queue'[c].events = <<>> /\ ~queue'[c].muted /\ ~Held(c)'
        /\ client'[c].last = 0 /\ ~client'[c].gap /\ ~client'[c].hole
    BY <1>1, <1>2 DEF Session, Subscription, Stream, ShownStays, Held
  <1>5. NoText(queue'[c]) /\ NoGap(queue'[c]) /\ Len(queue'[c].events) = 0
    BY <1>2, <1>4, NothingQueued
  <1>6. handler'[c].pc \notin Early /\ handler'[c].pc # "stream"
    BY DEF Early, Serving, Undecoded
  <1>7. Subscription(c)'
    BY <1>6 DEF Subscription
  <1>8. Room(c)'
    BY <1>5, LimitsAssumption DEF Room
  <1>9. Continues(c)'
    <2>1. Shown(c)' = published'.deltas /\ Offered(c)' = published'.deltas
      BY <1>2, <1>4 DEF Shown, Offered
    <2>2. DOMAIN queue'[c].events = {}
      BY <1>4
    <2>3. Holds(queue'[c], published'.deltas, published'.deltas)
      BY <1>1, <2>2 DEF Holds
    <2>4. published'.deltas \in 0 .. published'.deltas
      BY <1>1
    <2> QED BY <1>4, <1>5, <2>1, <2>3, <2>4 DEF Continues
  <1>10. Session(c)'
    BY <1>4, <1>7, <1>8, <1>9 DEF Session, Stream
  <1>11. TextPlaces(queue') = TextPlaces(queue)
    BY <1>2 DEF TextPlaces
  <1>12. Budget' /\ PublishInv'
    BY <1>1, <1>11 DEF Budget, PublishInv
  <1> QED BY <1>3, <1>10, <1>12 DEF HubInv

\* The handler forwards the head of its queue: the next delta, or the marker,
\* and nothing that was lost.
LEMMA ForwardKeepsHub ==
  ASSUME HubInv, StreamTypes', NEW c \in Conns, Forward(c)
  PROVE  HubInv'
  <1> DEFINE q == queue[c]
             p == queue'[c]
             e == Head(q.events)
             r == client[c]
  <1>1. /\ q \in QueueRecords /\ r \in ClientRecords /\ Session(c) /\ Budget /\ PublishInv
        /\ queue \in [Conns -> QueueRecords] /\ queue' \in [Conns -> QueueRecords]
        /\ p \in QueueRecords /\ published.deltas \in Nat /\ bytes \in Nat
        /\ handler[c].pc = "stream" /\ q.events # <<>>
        /\ UNCHANGED <<handler, publish, published, request>>
    <2>1. Cardinality(TextPlaces(queue)) \in Nat
      BY OneQueueCounts DEF HubInv, StreamTypes, Session, Room
    <2> QED BY <2>1 DEF HubInv, StreamTypes, Forward, resultVars, Budget
  <1>2. /\ e \in Frames /\ e = q.events[1] /\ Len(q.events) \in Nat \ {0}
        /\ Tail(q.events) \in Seq(Frames) /\ Len(Tail(q.events)) = Len(q.events) - 1
    <2>1. q.events \in Seq(Frames)
      BY <1>1 DEF QueueRecords
    <2> QED BY <1>1, <2>1, HeadTailProperties, EmptySeq
  <1>3. /\ p.events = Tail(q.events) /\ p.muted = q.muted /\ p.since = q.since
        /\ client'[c] = Seen(r, e) /\ bytes' = bytes - Size(e)
        /\ \A d \in Conns : d # c => queue'[d] = queue[d] /\ client'[d] = client[d]
    <2>1. queue' = [queue EXCEPT ![c].events = Tail(q.events)] /\ bytes' = bytes - Size(e)
      BY DEF Forward
    <2>2. client' = [client EXCEPT ![c] = Seen(r, e)]
      BY DEF Forward, Write
    <2> QED BY <1>1, <2>1, <2>2 DEF HubInv, StreamTypes, QueueRecords
  <1>4. \A d \in Conns : d # c => Session(d)'
    <2>1. Alone(c)
      BY <1>1, <1>3 DEF Alone
    <2> QED BY <1>1, <1>3, <2>1, OthersKept
  <1>5. Size(e) \in {0, 1} /\ Texts(q) = Texts(p) + Size(e)
    BY <1>1, <1>3, TextsTail DEF Size
  <1>6. /\ handler[c].sub /\ r.mode # "waiting" /\ handler[c].pc \notin Early /\ ~r.hole
        /\ handler[c].seen \in Ended => request \in Ended
        /\ Len(q.events) <= EventLimit /\ (~q.muted => Len(q.events) < EventLimit)
    BY <1>1 DEF Session, Subscription, Stream, Room, Early, Serving, Undecoded
  <1> HIDE DEF q, p, e, r
  <1>7. Room(c)'
    BY <1>1, <1>2, <1>3, <1>6, LimitsAssumption DEF Room, p
  <1>8. Budget' /\ PublishInv'
    <2>1. Len(p.events) <= EventLimit
      BY <1>2, <1>3, <1>6, LimitsAssumption
    <2>2. \A d \in Conns : d # c => queue'[d].events = queue[d].events
      BY <1>3
    <2>3. /\ Cardinality(TextPlaces(queue')) = Cardinality(TextPlaces(queue)) - Texts(q) + Texts(p)
          /\ {Cardinality(TextPlaces(queue)), Cardinality(TextPlaces(queue')), Texts(q), Texts(p)}
               \subseteq Nat
      BY <1>1, <1>6, <2>1, <2>2, OneQueueCounts DEF p, q
    <2>4. Budget'
      BY <1>1, <1>3, <1>5, <2>3, LimitsAssumption DEF Budget
    <2> QED BY <1>1, <2>4 DEF PublishInv
  <1>9. /\ Seen(r, e).mode \in Showing => r.mode \in Showing
        /\ Seen(r, e).mode = "waiting" => r.mode = "waiting"
        /\ r.mode \notin Showing => Seen(r, e).hole = r.hole
    BY <1>1, <1>2, SeenShows, SeenKeepsText
  <1>10. Subscription(c)'
    BY <1>1, <1>3, <1>6, <1>9 DEF Subscription, Serving
  <1>11. CASE r.mode \notin Showing
    <2>1. ~client'[c].hole /\ ~Shows(c)'
      BY <1>3, <1>6, <1>9, <1>11 DEF Shows
    <2> QED BY <1>4, <1>7, <1>8, <1>10, <2>1 DEF HubInv, Session, Stream
  <1>12. CASE r.mode \in Showing
    <2>1. Continues(c)
      BY <1>1, <1>6, <1>12 DEF Session, Stream, Shows, r
    <2>2. PICK hi \in 0 .. published.deltas :
            Holds(q, Shown(c), hi) /\ (~q.muted => hi = Offered(c))
      BY <2>1 DEF Continues, q
    <2> DEFINE lo == Shown(c)
    <2>3. lo \in Nat /\ hi \in Nat /\ (r.last # 0 => lo = r.last) /\ (r.last = 0 => lo = q.since)
      BY <1>1 DEF Shown, QueueRecords, ClientRecords, q, r
    <2>4. /\ r.gap => q.muted /\ NoText(q)
          /\ q.muted => r.gap \/ ~NoGap(q)
          /\ ~q.muted => NoGap(q)
      BY <2>1 DEF Continues, q, r
    <2>5. Holds(q, lo, hi)
      BY <2>2
    <2> HIDE DEF lo
    <2>6. /\ TextAt(q, 1) => q.events[1][2] = lo + 1 /\ Holds(p, lo + 1, hi)
          /\ ~TextAt(q, 1) => Holds(p, lo, hi)
          /\ GapAt(q, 1) => NoText(p) /\ ~TextAt(q, 1)
          /\ NoText(q) => NoText(p)
          /\ NoGap(q) => NoGap(p)
          /\ ~NoGap(q) => GapAt(q, 1) \/ ~NoGap(p)
      BY <1>1, <1>3, <2>3, <2>5, HoldsTail
    <2>7. /\ TextAt(q, 1) <=> e[1] = "text"
          /\ GapAt(q, 1) <=> e[1] = "gap"
          /\ 1 \in DOMAIN q.events
      BY <1>1, <1>2 DEF TextAt, GapAt, QueueRecords
    <2>8. Offered(c)' = Offered(c)
      BY <1>1 DEF Offered, Held
    <2>9. CASE e[1] = "text"
      <3>1. ~r.gap
        BY <2>4, <2>7, <2>9 DEF NoText
      <3>2. /\ Seen(r, e).last = e[2] /\ Seen(r, e).gap = r.gap
            /\ ~r.hole /\ ~r.gap /\ (r.last = 0 \/ e[2] = r.last + 1) => ~Seen(r, e).hole
        BY <1>1, <1>2, <1>12, <2>9, SeenShows
      <3>3. e[2] = lo + 1 /\ Holds(p, lo + 1, hi)
        BY <1>2, <2>6, <2>7, <2>9
      <3>4. /\ client'[c].last = lo + 1 /\ ~client'[c].gap /\ ~client'[c].hole
        BY <1>3, <1>6, <2>3, <3>1, <3>2, <3>3
      <3>5. Shown(c)' = lo + 1
        BY <2>3, <3>4 DEF Shown
      <3>6. /\ p.muted => ~NoGap(p)
            /\ ~p.muted => NoGap(p)
        BY <1>3, <2>4, <2>6, <2>7, <2>9, <3>1
      <3>7. Continues(c)'
        BY <1>1, <1>3, <2>2, <2>8, <3>3, <3>4, <3>5, <3>6 DEF Continues, p
      <3> QED BY <1>4, <1>7, <1>8, <1>10, <3>4, <3>7 DEF HubInv, Session, Stream
    <2>10. CASE e[1] # "text"
      <3>1. /\ Seen(r, e).last = r.last /\ Seen(r, e).hole = r.hole
            /\ IF e[1] = "gap" THEN Seen(r, e).gap ELSE Seen(r, e).gap = r.gap
        BY <1>1, <1>2, <1>12, <2>10, SeenShows, SeenKeepsText
      <3>2. Holds(p, lo, hi) /\ ~client'[c].hole
        BY <1>3, <1>6, <2>6, <2>7, <2>10, <3>1
      <3>3. Shown(c)' = lo
        BY <1>3, <3>1 DEF Shown, lo, q, p, r
      <3>4. /\ client'[c].gap => p.muted /\ NoText(p)
            /\ p.muted => client'[c].gap \/ ~NoGap(p)
            /\ ~p.muted => NoGap(p)
        <4>1. CASE e[1] = "gap"
          <5>1. ~NoGap(q)
            BY <2>7, <4>1 DEF NoGap
          <5> QED BY <1>3, <2>4, <2>6, <2>7, <3>1, <4>1, <5>1
        <4>2. CASE e[1] # "gap"
          BY <1>3, <2>4, <2>6, <2>7, <3>1, <4>2
        <4> QED BY <4>1, <4>2
      <3>5. Continues(c)'
        BY <1>1, <1>3, <2>2, <2>8, <3>2, <3>3, <3>4 DEF Continues, p
      <3> QED BY <1>4, <1>7, <1>8, <1>10, <3>2, <3>5 DEF HubInv, Session, Stream
    <2> QED BY <2>9, <2>10
  <1> QED BY <1>11, <1>12

\* The three outcomes of enqueue.
LEMMA EnqueuedOutcomes ==
  ASSUME NEW q \in QueueRecords, NEW e \in Frames, NEW p, p = Enqueued(q, e)
  PROVE  \/ p = q /\ q.muted
         \/ /\ p.events = Append(q.events, e) /\ p.muted = q.muted /\ p.since = q.since
            /\ Len(q.events) < EventLimit - 1 /\ bytes + Size(e) <= ByteLimit
            /\ e[1] = "text" => ~q.muted
         \/ /\ p.events = Append(q.events, Frame("gap")) /\ p.muted /\ p.since = q.since
            /\ ~q.muted
  BY DEF Enqueued, QueueRecords

\* An event reaches a subscription: it continues what the queue holds, or the
\* marker takes its place; or the subscription was dropped, and the publisher
\* gives its bytes back.
LEMMA PublishToKeepsHub ==
  ASSUME HubInv, StreamTypes', NEW c \in Conns, PublishTo(c)
  PROVE  HubInv'
  <1> DEFINE q == queue[c]
             p == queue'[c]
             e == publish.event
             r == client[c]
  <1>1. /\ q \in QueueRecords /\ r \in ClientRecords /\ e \in Frames
        /\ Session(c) /\ Budget /\ PublishInv
        /\ queue \in [Conns -> QueueRecords] /\ queue' \in [Conns -> QueueRecords]
        /\ p \in QueueRecords /\ published.deltas \in Nat
        /\ Held(c) /\ UNCHANGED <<handler, client, published, request>>
    BY DEF HubInv, StreamTypes, PublishTo, resultVars, Held
  <1>2. /\ p = IF handler[c].sub THEN Enqueued(q, e) ELSE EmptyQueue
        /\ bytes' = bytes + Texts(p) - Texts(q)
        /\ \A d \in Conns : d # c => queue'[d] = queue[d]
    BY DEF PublishTo, HubInv, StreamTypes
  <1>3. /\ ~Held(c)'
        /\ \A d \in Conns : d # c => (Held(d)' <=> Held(d)) /\ (Held(d) => publish'.event = e)
    <2>1. CASE publish.left = {c}
      BY <1>1, <2>1 DEF PublishTo, Held, NoEvent
    <2>2. CASE publish.left # {c}
      BY <1>1, <2>2 DEF PublishTo, Held, HubInv, StreamTypes
    <2> QED BY <2>1, <2>2
  <1>4. \A d \in Conns : d # c => Session(d)'
    <2> SUFFICES ASSUME NEW d \in Conns, d # c PROVE Session(d)'
      OBVIOUS
    <2>1. HandlerGoesOn(d) /\ ShownStays(d)
      BY <1>1 DEF HandlerGoesOn, ShownStays, HubInv, Session, Subscription
    <2>2. QueueStays(d)
      BY <1>1, <1>2, <1>3 DEF QueueStays, Offered
    <2> QED BY <2>1, <2>2, Undisturbed DEF HubInv
  <1>5. PublishInv'
    BY <1>1 DEF PublishInv, PublishTo, NoEvent, Frame
  <1>6. /\ handler[c].pc \notin Early /\ ~r.hole
        /\ Len(q.events) \in Nat /\ Len(q.events) <= EventLimit
        /\ ~q.muted => Len(q.events) < EventLimit
        /\ Texts(q) \in Nat /\ Texts(p) \in Nat
    BY <1>1, TextsCounted DEF Session, Subscription, Stream, Room, QueueRecords
  <1>7. Subscription(c)'
    BY <1>1, <1>6 DEF Session, Subscription
  <1> HIDE DEF q, p, e, r
  <1>8. ASSUME Len(p.events) <= EventLimit, bytes' <= ByteLimit PROVE Budget'
    <2>1. \A d \in Conns : d # c => queue'[d].events = queue[d].events
      BY <1>2
    <2>2. Cardinality(TextPlaces(queue')) = Cardinality(TextPlaces(queue)) - Texts(q) + Texts(p)
      BY <1>1, <1>6, <1>8, <2>1, OneQueueCounts DEF p, q
    <2>3. Cardinality(TextPlaces(queue)) \in Nat
      BY <1>1, <1>6, OneQueueCounts DEF q
    <2> QED BY <1>1, <1>2, <1>6, <1>8, <2>2, <2>3 DEF Budget
  <1>9. bytes \in Nat /\ bytes <= ByteLimit /\ Texts(q) <= bytes
    <2>1. Cardinality(TextPlaces(queue)) \in Nat /\ Texts(q) <= Cardinality(TextPlaces(queue))
      BY <1>1, <1>6, OneQueueCounts DEF q
    <2> QED BY <1>1, <2>1 DEF Budget
  <1>10. CASE ~handler[c].sub
    <2>1. p.events = <<>> /\ ~p.muted
      BY <1>2, <1>10 DEF EmptyQueue
    <2>2. Len(p.events) = 0 /\ Texts(p) = 0
      BY <1>1, <2>1, NothingQueued
    <2>3. Room(c)' /\ Budget'
      BY <1>2, <1>6, <1>8, <1>9, <2>1, <2>2, LimitsAssumption DEF Room, p
    <2>4. Stream(c)'
      BY <1>1, <1>6, <1>10 DEF Stream, Shows, r
    <2> QED BY <1>4, <1>5, <1>7, <2>3, <2>4 DEF HubInv, Session
  <1>11. CASE handler[c].sub
    <2>1. \/ p = q /\ q.muted
          \/ /\ p.events = Append(q.events, e) /\ p.muted = q.muted /\ p.since = q.since
             /\ Len(q.events) < EventLimit - 1 /\ bytes + Size(e) <= ByteLimit
             /\ e[1] = "text" => ~q.muted
          \/ /\ p.events = Append(q.events, Frame("gap")) /\ p.muted /\ p.since = q.since
             /\ ~q.muted
      BY <1>1, <1>2, <1>11, EnqueuedOutcomes
    <2>2. q.events \in Seq(Frames) /\ Frame("gap") \in Frames /\ Frame("gap")[1] = "gap"
      BY <1>1, FramesWritten DEF QueueRecords
    <2>3. /\ \A x \in Frames : p.events = Append(q.events, x) =>
               Len(p.events) = Len(q.events) + 1 /\ Texts(p) = Texts(q) + Size(x)
          /\ Size(Frame("gap")) = 0
      BY <1>1, <2>2, TextsAppended, AppendProperties DEF Size
    <2>4. Room(c)' /\ Budget'
      <3>1. /\ Len(p.events) <= EventLimit /\ (~p.muted => Len(p.events) < EventLimit)
            /\ bytes' <= ByteLimit
        <4>1. CASE p = q /\ q.muted
          BY <1>2, <1>6, <1>9, <4>1
        <4>2. CASE /\ p.events = Append(q.events, e) /\ p.muted = q.muted
                   /\ Len(q.events) < EventLimit - 1 /\ bytes + Size(e) <= ByteLimit
          <5>1. Size(e) \in Nat
            BY DEF Size
          <5>2. Len(p.events) = Len(q.events) + 1 /\ Texts(p) = Texts(q) + Size(e)
            BY <1>1, <2>3, <4>2
          <5>3. bytes' = bytes + Size(e)
            BY <1>2, <1>6, <1>9, <5>1, <5>2
          <5>4. Len(p.events) < EventLimit
            BY <1>6, <4>2, <5>2, LimitsAssumption
          <5>5. Len(p.events) <= EventLimit
            BY <1>6, <5>2, <5>4, LimitsAssumption
          <5> QED BY <4>2, <5>3, <5>4, <5>5
        <4>3. CASE p.events = Append(q.events, Frame("gap")) /\ p.muted /\ ~q.muted
          <5>1. Len(p.events) = Len(q.events) + 1 /\ Texts(p) = Texts(q)
            BY <1>6, <2>2, <2>3, <4>3
          <5>2. bytes' <= ByteLimit
            BY <1>2, <1>6, <1>9, <5>1
          <5>3. Len(p.events) <= EventLimit
            BY <1>6, <4>3, <5>1, LimitsAssumption
          <5> QED BY <4>3, <5>2, <5>3
        <4> QED BY <2>1, <4>1, <4>2, <4>3
      <3> QED BY <1>1, <1>8, <1>11, <3>1 DEF Room, p
    <2>5. ASSUME r.mode \in Showing PROVE Continues(c)'
      <3>1. Continues(c)
        BY <1>1, <1>11, <2>5 DEF Session, Stream, Shows, r
      <3>2. PICK hi \in 0 .. published.deltas :
              Holds(q, Shown(c), hi) /\ (~q.muted => hi = Offered(c))
        BY <3>1 DEF Continues, q
      <3>3. Shown(c) \in Nat /\ hi \in Nat
        BY <1>1 DEF Shown, QueueRecords, ClientRecords, q, r
      <3>4. /\ r.gap => q.muted /\ NoText(q)
            /\ q.muted => r.gap \/ ~NoGap(q)
            /\ ~q.muted => NoGap(q)
        BY <3>1 DEF Continues, q, r
      <3>5. p.since = q.since => Shown(c)' = Shown(c)
        BY <1>1 DEF Shown, p, q
      <3>6. Offered(c)' = published.deltas
        BY <1>1, <1>3 DEF Offered
      <3>7. Offered(c) = IF e[1] = "text" THEN published.deltas - 1 ELSE published.deltas
        BY <1>1 DEF Offered, e
      <3>8. CASE p = q /\ q.muted
        BY <1>1, <3>2, <3>4, <3>5, <3>8 DEF Continues, p, r
      <3>9. CASE /\ p.events = Append(q.events, e) /\ p.muted = q.muted /\ p.since = q.since
                 /\ e[1] = "text" => ~q.muted
        <4>1. /\ e[1] = "text" /\ e[2] = hi + 1 /\ NoGap(q) => Holds(p, Shown(c), hi + 1)
              /\ e[1] # "text" => Holds(p, Shown(c), hi)
              /\ e[1] # "text" /\ NoText(q) => NoText(p)
              /\ e[1] # "gap" /\ NoGap(q) => NoGap(p)
              /\ ~NoGap(q) => ~NoGap(p)
          BY <1>1, <3>2, <3>3, <3>9, HoldsAppend
        <4>2. e[1] \in {"text", "activity"} /\ (e[1] = "text" => e[2] = published.deltas)
          BY <1>1 DEF PublishInv, e
        <4>3. CASE e[1] = "text"
          <5>1. hi = published.deltas - 1 /\ ~q.muted /\ NoGap(q) /\ ~r.gap
            BY <3>2, <3>4, <3>7, <3>9, <4>3
          <5>2. Holds(p, Shown(c)', published.deltas)
            BY <1>1, <3>5, <3>9, <4>1, <4>2, <4>3, <5>1
          <5>3. NoGap(p) /\ ~p.muted
            BY <3>9, <4>1, <4>3, <5>1
          <5>4. published'.deltas \in 0 .. published'.deltas
            BY <1>1
          <5> QED BY <1>1, <3>6, <5>1, <5>2, <5>3, <5>4 DEF Continues, p, r
        <4>4. CASE e[1] = "activity"
          <5>1. Holds(p, Shown(c)', hi) /\ (~p.muted => hi = Offered(c)')
            BY <3>2, <3>5, <3>6, <3>7, <3>9, <4>1, <4>4
          <5>2. /\ r.gap => p.muted /\ NoText(p)
                /\ p.muted => r.gap \/ ~NoGap(p)
                /\ ~p.muted => NoGap(p)
            BY <3>4, <3>9, <4>1, <4>4
          <5> QED BY <1>1, <5>1, <5>2 DEF Continues, p, r
        <4> QED BY <4>2, <4>3, <4>4
      <3>10. CASE /\ p.events = Append(q.events, Frame("gap")) /\ p.muted /\ p.since = q.since
                  /\ ~q.muted
        <4>1. Holds(p, Shown(c), hi) /\ ~NoGap(p)
          BY <1>1, <2>2, <3>2, <3>3, <3>10, HoldsAppend
        <4> QED BY <1>1, <3>4, <3>5, <3>10, <4>1 DEF Continues, p, r
      <3> QED BY <2>1, <3>8, <3>9, <3>10
    <2>6. Stream(c)'
      BY <1>1, <1>6, <2>5 DEF Stream, Shows, r
    <2> QED BY <1>4, <1>5, <1>7, <2>4, <2>6 DEF HubInv, Session
  <1> QED BY <1>10, <1>11

\* An event is offered to everyone who has subscribed.
LEMMA PublishKeepsHub ==
  ASSUME HubInv, StreamTypes', handler \in [Conns -> HandlerRecords],
         NEW kind \in {"text", "activity"}, Publish(kind)
  PROVE  HubInv'
  <1>1. /\ published.deltas \in Nat /\ publish.left = {} /\ request = "active"
        /\ UNCHANGED <<handler, client, queue, bytes, request>>
        /\ publish'.left = Subscribers
        /\ published'.deltas = IF kind = "text" THEN published.deltas + 1 ELSE published.deltas
        /\ publish'.event[1] = kind
        /\ kind = "text" => publish'.event[2] = published'.deltas
    BY DEF HubInv, StreamTypes, Publish, resultVars
  <1>2. PublishInv' /\ Budget'
    BY <1>1 DEF PublishInv, Budget, HubInv
  <1>3. ASSUME NEW d \in Conns PROVE Session(d)'
    <2>1. Session(d)
      BY DEF HubInv
    <2>2. HandlerGoesOn(d) /\ ShownStays(d)
      BY <1>1, <2>1 DEF HandlerGoesOn, ShownStays, Session, Subscription
    <2>3. ~Held(d) /\ (Held(d)' => handler[d].sub)
      BY <1>1 DEF Held, Subscribers
    <2>4. handler[d].sub => Held(d)'
      <3>1. handler[d].seen \in {"absent", "active"} \cup Ended
        BY DEF HandlerRecords, Ended
      <3> QED BY <1>1, <2>1, <3>1 DEF Held, Subscribers, Session, Subscription, Ended
    <2>5. QueueStays(d)
      BY <1>1, <2>3, <2>4 DEF QueueStays, Offered
    <2> QED BY <2>1, <2>2, <2>5, Undisturbed DEF HubInv
  <1> QED BY <1>2, <1>3 DEF HubInv

-----------------------------------------------------------------------------
(* The actions and the streams.                                            *)

\* Handlers that wait, register, store or look the request up.
LEMMA QuietHandlerKeepsHub ==
  ASSUME HandlerTypes, HubInv, StreamTypes', NEW c \in Conns,
         \/ \E op \in {"submit", "resume"} : Connect(c, op)
         \/ Accept(c) \/ Register(c) \/ Store(c) \/ Stored(c) \/ WaitForSubmission(c)
         \/ WaitForPrior(c)
  PROVE  HubInv'
  <1>1. handler \in [Conns -> HandlerRecords] /\ Session(c)
    BY DEF HandlerTypes, HubInv
  <1>2. /\ UNCHANGED <<hubVars, client>> /\ (request \in Ended => request' \in Ended)
        /\ \A d \in Conns : d # c => handler'[d] = handler[d]
    BY <1>1 DEF Connect, Accept, Register, Store, Stored, WaitForSubmission, WaitForPrior, Goto,
                resultVars, Ended
  <1>3. /\ handler'[c].sub = handler[c].sub /\ handler'[c].seen = handler[c].seen
        /\ handler'[c].pc # "stream"
        /\ \/ handler[c].pc \in Early /\ handler'[c].pc \in Early
           \/ handler[c].pc \in Serving /\ handler'[c].pc \in Serving
    <2> USE <1>1 DEF HandlerRecords, Early, Serving, Undecoded
    <2>1. CASE \E op \in {"submit", "resume"} : Connect(c, op)
      BY <2>1 DEF Connect
    <2>2. CASE Accept(c)
      BY <2>2 DEF Accept
    <2>3. CASE Register(c) \/ WaitForSubmission(c) \/ WaitForPrior(c)
      BY <2>3 DEF Register, WaitForSubmission, WaitForPrior, Goto
    <2>4. CASE Store(c) \/ Stored(c)
      BY <2>4 DEF Store, Stored, Goto
    <2> QED BY <2>1, <2>2, <2>3, <2>4
  <1>4. Early \cap Serving = {}
    BY DEF Early, Serving, Undecoded
  <1>5. HandlerGoesOn(c) /\ ShownStays(c) /\ Alone(c)
    BY <1>1, <1>2, <1>3, <1>4 DEF HandlerGoesOn, ShownStays, Alone, Session, Subscription
  <1> QED BY <1>2, <1>5, QuietStep

\* What a step of another component leaves of the handlers.
LEMMA TerminalStep ==
  ASSUME HubInv, StreamTypes', NEW c \in Conns, UNCHANGED <<handler, hubVars>>,
         request \in Ended => request' \in Ended,
         \A d \in Conns : d # c => client'[d] = client[d],
         ShownStays(c), client'[c].mode = "waiting" => client[c].mode = "waiting"
  PROVE  HubInv'
  <1>1. HandlerGoesOn(c) /\ Alone(c)
    BY DEF HandlerGoesOn, Alone, HubInv, Session, Subscription
  <1> QED BY <1>1, QuietStep

\* Handlers that answer and go on, or return.
LEMMA AnswerKeepsHub ==
  ASSUME HandlerTypes, HubInv, StreamTypes', NEW c \in Conns,
         \/ CheckFlag(c) \/ Decode(c) \/ DecodeFails(c) \/ Refuse(c) \/ Greet(c) \/ Resolve(c)
         \/ SeeDisconnect(c)
  PROVE  HubInv'
  <1>1. /\ handler \in [Conns -> HandlerRecords] /\ Session(c) /\ TRUE \in BOOLEAN
        /\ client \in [Conns -> ClientRecords] /\ FALSE \in BOOLEAN
        /\ request \in {"absent", "active", "done", "delivered"}
    BY DEF HandlerTypes, HubInv, StreamTypes
  <1>2. request' = request
    BY DEF CheckFlag, Decode, DecodeFails, Refuse, Greet, Resolve, SeeDisconnect, resultVars
  <1>3. \/ client' = client
        \/ \E kind \in {"bye", "error", "accepted"} : Write(c, Frame(kind))
    BY DEF CheckFlag, Decode, DecodeFails, Refuse, Greet, Resolve, SeeDisconnect
  <1>4. /\ ShownStays(c) /\ \A d \in Conns : d # c => client'[d] = client[d]
        /\ client'[c].mode = "waiting" => client[c].mode = "waiting"
    BY <1>1, <1>3, WrittenFrame DEF ShownStays
  <1>5. CASE Return(c, TRUE) \/ Return(c, FALSE)
    <2>1. Alone(c)
      BY <1>1, <1>2, <1>4, <1>5 DEF Alone, Return
    <2> QED BY <1>1, <1>4, <1>5, <2>1, ReturnKeepsHub
  <1>6. CASE UNCHANGED hubVars /\ \E pc \in {"open", "resolve", "waiting", "prior"} :
               Goto(c, pc) /\ handler[c].pc \in Early
    <2>1. PICK pc \in {"open", "resolve", "waiting", "prior"} :
            Goto(c, pc) /\ handler[c].pc \in Early
      BY <1>6
    <2>2. /\ handler'[c].sub = handler[c].sub /\ handler'[c].seen = handler[c].seen
          /\ handler'[c].pc = pc /\ \A d \in Conns : d # c => handler'[d] = handler[d]
      BY <1>1, <2>1 DEF Goto, HandlerRecords
    <2>3. Alone(c)
      BY <1>2, <1>4, <2>2 DEF Alone
    <2>4. HandlerGoesOn(c)
      BY <1>1, <1>2, <2>1, <2>2 DEF HandlerGoesOn, Session, Subscription, Early, Serving, Undecoded
    <2> QED BY <1>4, <1>6, <2>3, <2>4, QuietStep
  <1>7. CASE CheckFlag(c) \/ DecodeFails(c) \/ Refuse(c) \/ SeeDisconnect(c)
    BY <1>5, <1>6, <1>7 DEF CheckFlag, DecodeFails, Refuse, SeeDisconnect, Early, Undecoded
  <1>8. CASE Decode(c)
    <2>1. CASE Subscribed(c, "storing", TRUE)
      <3>1. /\ handler[c].pc \in Early
            /\ handler'[c].sub /\ handler'[c].pc = "storing" /\ handler'[c].seen = handler[c].seen
            /\ \A d \in Conns : d # c => handler'[d] = handler[d]
        BY <1>1, <1>8, <2>1 DEF Decode, Subscribed, HandlerRecords, Early, Undecoded
      <3>2. Alone(c)
        BY <1>2, <1>4, <3>1 DEF Alone
      <3>3. /\ UNCHANGED <<bytes, publish, published>>
            /\ queue' = [queue EXCEPT ![c].since = published.deltas]
            /\ handler'[c].pc \in Serving \ {"stream"}
            /\ handler'[c].seen \in Ended => request' \in Ended
        BY <1>1, <1>2, <2>1, <3>1 DEF Subscribed, Serving, Session, Subscription
      <3> QED BY <1>4, <3>1, <3>2, <3>3, SubscribedKeepsHub
    <2>2. CASE ~Subscribed(c, "storing", TRUE)
      BY <1>5, <1>6, <1>8, <2>2 DEF Decode, Admit, Early, Undecoded
    <2> QED BY <2>1, <2>2
  <1>9. CASE Greet(c) /\ Reads(c)
    <2>1. /\ handler' = [handler EXCEPT ![c].pc = "stream", ![c].opened = TRUE]
          /\ handler[c].pc = "greet" /\ UNCHANGED hubVars /\ Write(c, Frame("accepted"))
      BY <1>9 DEF Greet
    <2>2. /\ handler'[c].sub = handler[c].sub /\ handler'[c].seen = handler[c].seen
          /\ handler'[c].pc = "stream" /\ \A d \in Conns : d # c => handler'[d] = handler[d]
      BY <1>1, <2>1 DEF HandlerRecords
    <2>3. client'[c].mode # "waiting"
      BY <1>1, <1>9, <2>1, WrittenFrame
    <2>4. Alone(c)
      BY <1>2, <1>4, <2>2 DEF Alone
    <2>5. HandlerGoesOn(c)
      BY <1>1, <1>2, <2>1, <2>2, <2>3
      DEF HandlerGoesOn, Session, Subscription, Early, Serving, Undecoded
    <2> QED BY <1>4, <2>1, <2>4, <2>5, QuietStep
  <1>10. CASE Greet(c) /\ ~Reads(c)
    BY <1>5, <1>10 DEF Greet
  <1>11. CASE Resolve(c) /\ request # "absent"
    <2>1. /\ handler' = [handler EXCEPT ![c].pc = "subscribe", ![c].seen = request]
          /\ handler[c].pc \in {"read", "read_again"} /\ UNCHANGED hubVars
      BY <1>11 DEF Resolve
    <2>2. /\ handler'[c].sub = handler[c].sub /\ handler'[c].seen = request
          /\ handler'[c].pc = "subscribe" /\ \A d \in Conns : d # c => handler'[d] = handler[d]
      BY <1>1, <2>1 DEF HandlerRecords
    <2>3. Alone(c)
      BY <1>2, <1>4, <2>2 DEF Alone
    <2>4. HandlerGoesOn(c)
      BY <1>2, <2>1, <2>2 DEF HandlerGoesOn, Early, Serving, Undecoded
    <2> QED BY <1>4, <2>1, <2>3, <2>4, QuietStep
  <1>12. CASE Resolve(c) /\ request = "absent"
    BY <1>5, <1>6, <1>12 DEF Resolve, Early
  <1> QED BY <1>7, <1>8, <1>9, <1>10, <1>11, <1>12

\* Handlers that subscribe, one that replays a delivered result, and a client
\* that sees the end of its stream.
LEMMA ServingKeepsHub ==
  ASSUME HandlerTypes, HubInv, StreamTypes', NEW c \in Conns,
         StopWaiting(c) \/ Subscribe(c) \/ Replay(c) \/ SeeEnd(c)
  PROVE  HubInv'
  <1>1. /\ handler \in [Conns -> HandlerRecords] /\ Session(c) /\ TRUE \in BOOLEAN
        /\ client \in [Conns -> ClientRecords]
    BY DEF HandlerTypes, HubInv, StreamTypes
  <1>2. request' = request
    BY DEF StopWaiting, Subscribe, Replay, SeeEnd, resultVars
  <1>3. CASE StopWaiting(c) \/ Subscribe(c)
    <2>1. /\ client' = client /\ UNCHANGED <<bytes, publish, published>>
          /\ queue' = [queue EXCEPT ![c].since = published.deltas]
      BY <1>3 DEF StopWaiting, Subscribe, Subscribed
    <2>2. ShownStays(c)
      BY <2>1 DEF ShownStays
    <2>3. /\ handler[c].pc \in Early
          /\ handler'[c].sub /\ handler'[c].pc \in Serving \ {"stream"}
          /\ handler'[c].seen = handler[c].seen
          /\ \A d \in Conns : d # c => handler'[d] = handler[d]
      <3>1. CASE StopWaiting(c)
        BY <1>1, <3>1 DEF StopWaiting, Subscribed, HandlerRecords, Early, Serving, Undecoded
      <3>2. CASE Subscribe(c)
        <4> DEFINE pc == IF handler[c].seen = "active" THEN "greet" ELSE "poll"
                   opened == handler[c].seen # "active"
        <4>1. pc \in {"greet", "poll"}
          OBVIOUS
        <4>2. /\ handler' = [handler EXCEPT ![c].sub = TRUE, ![c].pc = pc, ![c].opened = opened]
              /\ handler[c].pc = "subscribe"
          BY <3>2 DEF Subscribe
        <4> HIDE DEF pc, opened
        <4> QED BY <1>1, <4>1, <4>2 DEF HandlerRecords, Early, Serving
      <3> QED BY <1>3, <3>1, <3>2
    <2>4. Alone(c) /\ (handler'[c].seen \in Ended => request' \in Ended)
      BY <1>1, <1>2, <2>1, <2>3 DEF Alone, Session, Subscription
    <2> QED BY <2>1, <2>2, <2>3, <2>4, SubscribedKeepsHub
  <1>4. CASE Replay(c)
    <2> DEFINE once == Seen(client[c], Frame("begin"))
    <2>1. /\ Frame("begin") \in Frames /\ Frame("end") \in Frames
          /\ Frame("begin")[1] = "begin" /\ Frame("end")[1] = "end"
          /\ client[c] \in ClientRecords
      BY <1>1, FramesWritten
    <2>2. /\ once \in ClientRecords
          /\ once.last = client[c].last /\ once.gap = client[c].gap /\ once.hole = client[c].hole
          /\ once.mode \in Showing => client[c].mode \in Showing
      BY <2>1, SeenKeepsText
    <2>3. client' = [client EXCEPT ![c] = Seen(once, Frame("end"))]
      BY <1>4 DEF Replay
    <2> HIDE DEF once
    <2>4. /\ Seen(once, Frame("end")).last = once.last /\ Seen(once, Frame("end")).gap = once.gap
          /\ Seen(once, Frame("end")).hole = once.hole
          /\ Seen(once, Frame("end")).mode \in Showing => once.mode \in Showing
      BY <2>1, <2>2, SeenKeepsText
    <2>5. ShownStays(c) /\ \A d \in Conns : d # c => client'[d] = client[d]
      BY <1>1, <2>2, <2>3, <2>4 DEF ShownStays
    <2>6. Return(c, TRUE)
      BY <1>4 DEF Replay
    <2>7. Alone(c)
      BY <1>1, <1>2, <2>5, <2>6 DEF Alone, Return
    <2> QED BY <1>1, <2>5, <2>6, <2>7, ReturnKeepsHub
  <1>5. CASE SeeEnd(c)
    <2>1. /\ client' = [client EXCEPT ![c].mode = "recovering"] /\ UNCHANGED hubVars
      BY <1>5 DEF SeeEnd
    <2>2. ShownStays(c) /\ client'[c].mode = "recovering"
      BY <1>1, <2>1 DEF ShownStays, Showing, ClientRecords
    <2>3. CASE handler' = handler
      BY <1>1, <1>2, <2>1, <2>2, <2>3, TerminalStep
    <2>4. CASE handler[c].pc = "backlog" /\ Goto(c, "closed")
      <3>1. /\ handler'[c].sub = handler[c].sub /\ handler'[c].seen = handler[c].seen
            /\ handler'[c].pc = "closed" /\ \A d \in Conns : d # c => handler'[d] = handler[d]
        BY <1>1, <2>4 DEF Goto, HandlerRecords
      <3>2. Alone(c)
        BY <1>1, <1>2, <2>1, <3>1 DEF Alone
      <3>3. HandlerGoesOn(c)
        BY <1>1, <1>2, <2>4, <3>1 DEF HandlerGoesOn, Session, Subscription, Early, Serving, Undecoded
      <3> QED BY <2>1, <2>2, <3>2, <3>3, QuietStep
    <2> QED BY <1>5, <2>3, <2>4 DEF SeeEnd
  <1> QED BY <1>3, <1>4, <1>5

\* The outbox worker, the clients and the shutdown: frames that show nothing.
LEMMA OthersKeepHub ==
  ASSUME HubInv, StreamTypes', NEW c \in Conns,
         \/ SendFinal(c) \/ ClientLeaves(c) \/ ConnectAck(c) \/ AcceptAck(c) \/ Acknowledge(c)
         \/ Notify(c)
  PROVE  HubInv'
  <1>1. client \in [Conns -> ClientRecords]
    BY DEF HubInv, StreamTypes
  <1>2. UNCHANGED <<handler, hubVars>> /\ (request \in Ended => request' \in Ended)
    BY DEF SendFinal, ClientLeaves, ConnectAck, AcceptAck, Acknowledge, Notify, hubVars, resultVars,
           Ended
  <1>3. \/ client' = client
        \/ \E kind \in {"begin", "end", "bye"} : Write(c, Frame(kind))
        \/ \E m \in {"left", "acking"} : client' = [client EXCEPT ![c].mode = m]
    BY DEF SendFinal, ClientLeaves, ConnectAck, AcceptAck, Acknowledge, Notify
  <1>4. /\ ShownStays(c) /\ \A d \in Conns : d # c => client'[d] = client[d]
        /\ client'[c].mode = "waiting" => client[c].mode = "waiting"
    <2>1. CASE client' = client
      BY <2>1 DEF ShownStays
    <2>2. CASE \E kind \in {"begin", "end", "bye"} : Write(c, Frame(kind))
      BY <1>1, <2>2, WrittenFrame
    <2>3. ASSUME NEW m \in {"left", "acking"}, client' = [client EXCEPT ![c].mode = m]
          PROVE  /\ ShownStays(c) /\ \A d \in Conns : d # c => client'[d] = client[d]
                 /\ client'[c].mode # "waiting"
      BY <1>1, <2>3 DEF ShownStays, Showing, ClientRecords
    <2> QED BY <1>3, <2>1, <2>2, <2>3
  <1> QED BY <1>2, <1>4, TerminalStep

LEMMA NoConnectionMoves ==
  ASSUME HubInv, StreamTypes',
         Finish \/ Transmit \/ TransmissionEnds \/ BeginShutdown \/ SnapshotSinks \/ UNCHANGED vars
  PROVE  HubInv'
  <1>1. UNCHANGED <<handler, client, hubVars>> /\ (request \in Ended => request' \in Ended)
    BY DEF Finish, Transmit, TransmissionEnds, BeginShutdown, SnapshotSinks, vars, hubVars,
           resultVars, Ended
  <1>2. \A d \in Conns : HandlerGoesOn(d) /\ ShownStays(d)
    BY <1>1 DEF HandlerGoesOn, ShownStays, HubInv, Session, Subscription
  <1> QED BY <1>1, <1>2, QuietForAll

-----------------------------------------------------------------------------
(* The theorems about the streams.                                         *)

LEMMA HubInit == Init => HubInv
  <1> SUFFICES ASSUME Init PROVE HubInv
    OBVIOUS
  <1> USE LimitsAssumption
  <1>1. /\ EmptyQueue \in QueueRecords /\ EmptyQueue.events = <<>> /\ ~EmptyQueue.muted
        /\ NoEvent \in [event : Frames, left : SUBSET Conns]
        /\ NoEvent.event[1] = "activity" /\ NoEvent.left = {}
    BY FramesWritten DEF EmptyQueue, QueueRecords, NoEvent
  <1>2. /\ [mode |-> "waiting", last |-> 0, gap |-> FALSE, hole |-> FALSE] \in ClientRecords
        /\ NewHandler.pc = "none" /\ ~NewHandler.sub /\ NewHandler.seen = "absent"
    BY DEF ClientRecords, NewHandler
  <1>3. StreamTypes
    BY <1>1, <1>2 DEF Init, StreamTypes
  <1>4. PublishInv
    BY <1>1 DEF Init, PublishInv
  <1>5. Budget
    <2>1. \A c \in Conns : queue[c].events = <<>>
      BY <1>1 DEF Init
    <2>2. TextPlaces(queue) = {}
      BY <2>1 DEF TextPlaces
    <2>3. Cardinality(TextPlaces(queue)) = 0
      BY <2>2, FS_EmptySet
    <2>4. bytes = 0 /\ 0 <= ByteLimit
      BY DEF Init
    <2> QED BY <2>3, <2>4 DEF Budget
  <1>6. ASSUME NEW c \in Conns PROVE Session(c)
    <2>1. Len(queue[c].events) = 0
      BY <1>1, EmptySeq DEF Init
    <2> QED BY <1>1, <1>2, <2>1
            DEF Init, Session, Subscription, Stream, Shows, Room, Held, Early, Serving, Ended
  <1> QED BY <1>3, <1>4, <1>5, <1>6 DEF HubInv

LEMMA HubInductive == SessionsInv /\ HubInv /\ [Next]_vars => HubInv'
  <1> SUFFICES ASSUME SessionsInv, HubInv, [Next]_vars PROVE HubInv'
    OBVIOUS
  <1>1. HandlerTypes /\ StreamTypes /\ handler \in [Conns -> HandlerRecords]
    BY DEF SessionsInv, HandlerTypes, HubInv
  <1>2. ASSUME NEW c \in Conns,
               \/ \E op \in {"submit", "resume"} : Connect(c, op)
               \/ Accept(c) \/ Register(c) \/ Store(c) \/ Stored(c) \/ WaitForSubmission(c)
               \/ WaitForPrior(c)
        PROVE  HubInv'
    <2>1. StreamTypes'
      BY <1>1, <1>2, AdmissionTypes
    <2> QED BY <1>1, <1>2, <2>1, QuietHandlerKeepsHub
  <1>3. ASSUME NEW c \in Conns,
               \/ CheckFlag(c) \/ Decode(c) \/ DecodeFails(c) \/ Refuse(c) \/ Greet(c)
               \/ Resolve(c) \/ SeeDisconnect(c)
        PROVE  HubInv'
    <2>1. StreamTypes'
      BY <1>1, <1>3, AnswerTypes
    <2> QED BY <1>1, <1>3, <2>1, AnswerKeepsHub
  <1>4. ASSUME NEW c \in Conns, StopWaiting(c) \/ Subscribe(c) \/ Replay(c) \/ SeeEnd(c)
        PROVE  HubInv'
    <2>1. StreamTypes'
      BY <1>1, <1>4, AdmissionTypes, AnswerTypes, OtherTypes
    <2> QED BY <1>1, <1>4, <2>1, ServingKeepsHub
  <1>5. ASSUME NEW c \in Conns, Forward(c) \/ PublishTo(c)
        PROVE  HubInv'
    <2>1. StreamTypes'
      BY <1>1, <1>5, PublishTypes
    <2> QED BY <1>5, <2>1, ForwardKeepsHub, PublishToKeepsHub
  <1>6. ASSUME NEW kind \in {"text", "activity"}, Publish(kind)
        PROVE  HubInv'
    <2>1. StreamTypes'
      BY <1>1, <1>6, PublishedTypes
    <2> QED BY <1>1, <1>6, <2>1, PublishKeepsHub
  <1>7. ASSUME NEW c \in Conns,
               \/ SendFinal(c) \/ ClientLeaves(c) \/ ConnectAck(c) \/ AcceptAck(c)
               \/ Acknowledge(c) \/ Notify(c)
        PROVE  HubInv'
    <2>1. StreamTypes'
      BY <1>1, <1>7, OtherTypes
    <2> QED BY <1>7, <2>1, OthersKeepHub
  <1>8. CASE Finish \/ Transmit \/ TransmissionEnds \/ BeginShutdown \/ SnapshotSinks \/ UNCHANGED vars
    <2>1. StreamTypes'
      BY <1>1, <1>8, OtherTypes
    <2> QED BY <1>8, <2>1, NoConnectionMoves
  <1>9. CASE ServerStep
    BY <1>9, <1>2, <1>3, <1>4, <1>5, <1>7, <1>8 DEF ServerStep, HandlerStep
  <1>10. CASE WorkerStep \/ RunStep \/ ClientStep
    BY <1>10, <1>4, <1>5, <1>7, <1>8 DEF WorkerStep, RunStep, ClientStep
  <1> QED BY <1>2, <1>3, <1>6, <1>7, <1>8, <1>9, <1>10 DEF Next

\* What a subscription holds, what its terminal has shown and what the hub has
\* counted stay in step, whoever publishes, forwards, leaves or returns.
THEOREM HubInvariant == Spec => []HubInv
  BY SessionsInvariant, HubInit, HubInductive, PTL DEF Spec

\* Every variable keeps its type; in particular the hub never gives back more
\* bytes than it has counted.
THEOREM SessionsTypeCorrect == Spec => []TypeOK
  <1>1. SessionsInv /\ HubInv => TypeOK
    <2> SUFFICES ASSUME SessionsInv, HubInv PROVE TypeOK
      OBVIOUS
    <2>1. bytes \in Nat
      <3>1. IsFiniteSet(1 .. EventLimit)
        BY FS_Interval, LimitsAssumption
      <3>2. IsFiniteSet(Conns \X (1 .. EventLimit))
        BY <3>1, FS_Product, SlotsAssumption
      <3>3. IsFiniteSet(TextPlaces(queue))
        BY <3>2, FS_Subset DEF TextPlaces
      <3> QED BY <3>3, FS_CardinalityType DEF HubInv, Budget
    <2> QED BY <2>1 DEF SessionsInv, HandlerTypes, HubInv, StreamTypes, TypeOK
  <1> QED BY <1>1, SessionsInvariant, HubInvariant, PTL

\* No terminal ever shows text with a hole in it, and one whose queue is empty
\* has shown everything, or a gap marker, however the publisher, the handler,
\* a muted queue and a late subscription take their turns.
THEOREM TextIsNeverSilentlyLost == Spec => []NoSilentLoss
  <1>1. HubInv => NoSilentLoss
    <2> SUFFICES ASSUME HubInv, NEW c \in Conns
                 PROVE  /\ ~client[c].hole
                        /\ client[c].mode = "accepted" /\ handler[c].pc = "stream"
                             /\ queue[c].events = <<>> /\ ~Held(c)
                           => \/ client[c].gap \/ queue[c].since = published.deltas
                              \/ client[c].last = published.deltas
      BY DEF NoSilentLoss
    <2>1. ~client[c].hole /\ Session(c) /\ queue[c] \in QueueRecords
          /\ client[c] \in ClientRecords /\ published.deltas \in Nat
      BY DEF HubInv, StreamTypes, Session, Stream
    <2> SUFFICES ASSUME client[c].mode = "accepted", handler[c].pc = "stream",
                        queue[c].events = <<>>, ~Held(c), ~client[c].gap
                 PROVE  Shown(c) = published.deltas
      BY <2>1 DEF Shown
    <2>2. Continues(c)
      BY <2>1 DEF Session, Subscription, Stream, Shows, Serving, Showing
    <2>3. NoGap(queue[c])
      BY <2>1, NothingQueued
    <2>4. PICK hi \in 0 .. published.deltas : Holds(queue[c], Shown(c), hi) /\ hi = Offered(c)
      BY <2>2, <2>3 DEF Continues
    <2>5. Shown(c) \in Nat /\ hi = published.deltas
      BY <2>1, <2>4 DEF Shown, Offered, QueueRecords, ClientRecords
    <2>6. Shown(c) <= hi /\ \A n \in Shown(c) + 1 .. hi : FALSE
      BY <2>4 DEF Holds
    <2> QED BY <2>1, <2>5, <2>6
  <1> QED BY <1>1, HubInvariant, PTL

\* The hub's count of bytes is exactly what all its queues hold, within its
\* limit, so a connection that goes away, in the middle of a publication too,
\* never uses up the budget of the others.
THEOREM BudgetIsAlwaysExact == Spec => []BudgetIsExact
  <1>1. HubInv => BudgetIsExact
    BY DEF HubInv, Budget, TextPlaces, Session, Room, BudgetIsExact
  <1> QED BY <1>1, HubInvariant, PTL

=============================================================================
