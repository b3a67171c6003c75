------------------------ MODULE LocalOperations_proofs ------------------------
(***************************************************************************)
(* Theorems about LocalOperations, and so about Daemon, for every set of   *)
(* processes and terminals and every bound: which process the socket file  *)
(* leads to, and what a recovery file may say of a request.                *)
(***************************************************************************)
EXTENDS LocalOperations, TLAPS

USE DaemonAssumption DEF DaemonAssumption

-----------------------------------------------------------------------------
(* The inductive invariant.                                                *)

\* From its lock to its cleanup a process is the only one of its kind.
Holding(p) == pc[p] \in Starting \cup {"serving", "draining", "stopped", "released", "cleaned"}

\* What is bound, and what has been cleared away, stays until the holder of the
\* lock changes it.
LockInv ==
    /\ \A p \in Procs : Holding(p) => lock = p
    /\ \A p \in Procs : pc[p] = "cleared" => socket = NoProc
    /\ \A p \in Procs : Listening(p) => socket = p

Stored == request # "absent"

\* A terminal that has yet to have its submission read.
Submitting(c) == client[c] = "created" \/ (conn[c].op = "submit" /\ conn[c].at = "backlog")

\* One terminal submits, and nothing is stored before its submission is read.
SubmitInv ==
    /\ meta = "absent" =>
         ~Stored /\ \A c \in Clients : client[c] = "idle" /\ conn[c] = NoConn
    /\ \A c \in Clients : Submitting(c) => ~Stored
    /\ \A b, c \in Clients : Submitting(b) /\ Submitting(c) => b = c

\* Where a session is whose operation has been decoded, until it ends.
Decoded == {"sawActive", "sawFinished", "answer", "open", "poll", "sent"}

\* What a connection has been answered is what the database holds.
AnswerOf(c) ==
    /\ conn[c].at \in {"none"} \cup Unanswered => inbox[c] = <<>>
    /\ client[c] = "idle" => conn[c].at \in {"none"} \cup Unanswered
    /\ client[c] \in {"created", "shown", "acked"} => conn[c] = NoConn
    /\ conn[c] = NoConn \/ (conn[c].to \in Procs /\ conn[c].op # "none" /\ conn[c].at # "none")
    /\ conn[c].at \in Decoded /\ conn[c].op \in {"submit", "resume"} => Stored
    /\ \A i \in DOMAIN inbox[c] : inbox[c][i] \in {"accepted", "final"} => Stored
    /\ client[c] = "shown" => Stored
    /\ conn[c].op = "ack" =>
         /\ Stored
         /\ conn[c].at \in {"backlog", "answer", "closed"}
         /\ conn[c].at = "answer" => request = "delivered"
    /\ client[c] = "acking" => conn[c].op = "ack" /\ (inbox[c] # <<>> => request = "delivered")
    /\ client[c] = "acked" => request = "delivered"

AnswerInv == \A c \in Clients : AnswerOf(c)

OperationsInv ==
    /\ TypeOK
    /\ LockInv
    /\ SubmitInv
    /\ AnswerInv
    /\ MetadataNeverAhead

-----------------------------------------------------------------------------
(* The daemons.                                                            *)

DaemonTypeOK ==
    /\ pc \in [Procs -> Phases]
    /\ {lock, socket} \subseteq Procs \cup {NoProc}
    /\ schema \in 0..Latest /\ lease \in Leases /\ stops \in 0..MaxStops
    /\ quantum \in [Procs -> BOOLEAN]

LocalTypeOK ==
    /\ request \in {"absent", "active", "finished", "delivered"}
    /\ meta \in {"absent", "created", "sent", "accepted", "terminal"}
    /\ client \in [Clients -> {"idle", "created", "sent", "reading", "shown", "acking", "acked"}]
    /\ conn \in [Clients -> Conns] /\ inbox \in [Clients -> Seq(Events)]
    /\ blocked \subseteq Procs

USE DEF Unanswered, Decoded

LocalInv == LocalTypeOK /\ SubmitInv /\ AnswerInv /\ MetadataNeverAhead

LEMMA InvParts == OperationsInv <=> DaemonTypeOK /\ LockInv /\ LocalInv
  BY DEF OperationsInv, TypeOK, DaemonTypeOK, LocalTypeOK, LocalInv

\* A start, a failure or an end of one process leaves the lock and the socket of
\* the one that holds them alone.
LEMMA DaemonKeeps ==
  ASSUME DaemonTypeOK, LockInv, NEW p \in Procs,
         \/ AcquireLock(p) \/ Migrate(p) \/ VerifyActor(p)
         \/ RemoveStaleSocket(p) \/ BindListener(p) \/ RecoverStartup(p)
         \/ StartFails(p) \/ Interrupt(p) \/ Drained(p) \/ GraceEnds(p) \/ ComponentFails(p)
         \/ RecoverShutdown(p) \/ RemoveSocket(p) \/ Unlock(p) \/ Exit(p) \/ Crash(p)
         \/ BeginQuantum(p) \/ EndQuantum(p)
  PROVE  DaemonTypeOK' /\ LockInv'
  <1> USE DEF DaemonTypeOK, LockInv, Holding, Listening, Goto, Phases, Starting, Stopping
  <1>0. \A q \in Procs, b \in BOOLEAN : [owner |-> q, live |-> b] \in Leases /\ Free \in Leases
    BY DEF Free, Leases
  <1>1. CASE AcquireLock(p)
    BY <1>1 DEF AcquireLock
  <1>2. CASE Migrate(p)
    BY <1>2 DEF Migrate
  <1>3. CASE VerifyActor(p) \/ RemoveStaleSocket(p)
    BY <1>3 DEF VerifyActor, RemoveStaleSocket, StaleSocketRemoved
  <1>4. CASE BindListener(p)
    BY <1>4 DEF BindListener
  <1>5. CASE RecoverStartup(p)
    BY <1>0, <1>5 DEF RecoverStartup, StartComponents, Recovered
  <1>6. CASE StartFails(p)
    BY <1>6 DEF StartFails, Stop
  <1>7. CASE Interrupt(p) \/ Drained(p) \/ GraceEnds(p) \/ ComponentFails(p)
    BY <1>7 DEF Interrupt, Drained, GraceEnds, ComponentFails, Ends, Stop
  <1>8. CASE RecoverShutdown(p)
    BY <1>0, <1>8 DEF RecoverShutdown, KeepsLock, Released
  <1>9. CASE RemoveSocket(p) \/ Unlock(p)
    BY <1>9 DEF RemoveSocket, Unlock
  <1>10. CASE Exit(p)
    BY <1>10 DEF Exit, Gone
  <1>11. CASE Crash(p)
    BY <1>11 DEF Crash, Gone, Stop
  <1>12. CASE BeginQuantum(p)
    BY <1>0, <1>12 DEF BeginQuantum
  <1>13. CASE EndQuantum(p)
    BY <1>0, <1>13 DEF EndQuantum
  <1> QED BY <1>1, <1>2, <1>3, <1>4, <1>5, <1>6, <1>7, <1>8, <1>9, <1>10, <1>11, <1>12, <1>13

LEMMA DaemonStutters ==
  ASSUME DaemonTypeOK, LockInv, UNCHANGED daemonVars
  PROVE  DaemonTypeOK' /\ LockInv'
  BY DEF daemonVars, DaemonTypeOK, LockInv, Holding, Listening

LEMMA LeaseKeeps ==
  ASSUME DaemonTypeOK, LockInv, LeaseExpires
  PROVE  DaemonTypeOK' /\ LockInv'
  BY DEF LeaseExpires, DaemonTypeOK, Leases, LockInv, Holding, Listening

-----------------------------------------------------------------------------
(* Processes and the operations they interrupt.                            *)

LEMMA LocalStutters ==
  ASSUME LocalInv, UNCHANGED localVars
  PROVE  LocalInv'
  BY DEF localVars, LocalInv, LocalTypeOK, SubmitInv, Submitting, Stored, AnswerInv, AnswerOf,
     MetadataNeverAhead

\* The end of a process closes its connections and nothing else.
LEMMA CloseAllKeeps ==
  ASSUME LocalInv, NEW p \in Procs, CloseAll(p), UNCHANGED <<request, meta, client, inbox>>
  PROVE  LocalInv'
  <1> USE DEF LocalInv
  <1> DEFINE Closed(c) == [conn[c] EXCEPT !.at = "closed", !.taken = FALSE]
  <1>0. \A c \in Clients :
          /\ NoConn \in Conns /\ Closed(c) \in Conns
          /\ Closed(c).to = conn[c].to /\ Closed(c).op = conn[c].op /\ Closed(c).at = "closed"
          /\ conn[c].to = p => conn[c] # NoConn
    <2> SUFFICES ASSUME NEW c \in Clients
                 PROVE  /\ NoConn \in Conns /\ Closed(c) \in Conns
                        /\ Closed(c).to = conn[c].to /\ Closed(c).op = conn[c].op
                        /\ Closed(c).at = "closed"
                        /\ conn[c].to = p => conn[c] # NoConn
      OBVIOUS
    <2>1. conn[c] \in Conns
      BY DEF LocalTypeOK
    <2>2. Closed(c) \in Conns
      BY <2>1 DEF Conns
    <2>3. Closed(c).to = conn[c].to /\ Closed(c).op = conn[c].op /\ Closed(c).at = "closed"
      BY <2>1 DEF Conns
    <2>4. NoConn \in Conns /\ (conn[c].to = p => conn[c] # NoConn)
      BY DEF NoConn, Conns
    <2> QED BY <2>2, <2>3, <2>4
  <1>1. /\ conn' = [c \in Clients |-> IF conn[c].to # p THEN conn[c]
                                     ELSE IF client[c] = "idle" THEN NoConn ELSE Closed(c)]
        /\ blocked' \subseteq blocked
    BY DEF CloseAll, HasLeft
  <1> HIDE DEF Closed
  <1>2. \A c \in Clients :
          \/ conn'[c] = conn[c]
          \/ conn'[c] = NoConn /\ client[c] = "idle"
          \/ /\ conn'[c].to = conn[c].to /\ conn'[c].op = conn[c].op /\ conn'[c].at = "closed"
             /\ conn[c] # NoConn /\ client[c] # "idle"
    BY <1>0, <1>1
  <1>3. conn' \in [Clients -> Conns]
    BY <1>0, <1>1 DEF LocalTypeOK
  <1>4. SubmitInv'
    <2>1. \A c \in Clients : Submitting(c)' => Submitting(c)
      BY <1>2 DEF Submitting, NoConn
    <2>2. \A c \in Clients : conn[c] = NoConn => conn'[c] = NoConn
      BY <1>2
    <2> QED BY <2>1, <2>2 DEF SubmitInv, Stored
  <1>5. AnswerInv'
    <2> SUFFICES ASSUME NEW c \in Clients PROVE AnswerOf(c)'
      BY DEF AnswerInv
    <2>1. AnswerOf(c)
      BY DEF AnswerInv
    <2>2. CASE conn'[c] = conn[c]
      BY <2>1, <2>2 DEF AnswerOf, Stored
    <2>3. CASE conn'[c] = NoConn /\ client[c] = "idle"
      BY <2>1, <2>3 DEF AnswerOf, Stored, NoConn
    <2>4. CASE /\ conn'[c].to = conn[c].to /\ conn'[c].op = conn[c].op /\ conn'[c].at = "closed"
               /\ conn[c] # NoConn /\ client[c] # "idle"
      BY <2>1, <2>4 DEF AnswerOf, Stored, NoConn
    <2> QED BY <1>2, <2>2, <2>3, <2>4
  <1> QED BY <1>1, <1>3, <1>4, <1>5 DEF LocalTypeOK, MetadataNeverAhead

\* A quantum finishes a request that is active.
LEMMA QuantumKeeps ==
  ASSUME LocalInv, request' = request \/ (request = "active" /\ request' = "finished"),
         UNCHANGED <<meta, client, conn, inbox, blocked>>
  PROVE  LocalInv'
  BY DEF LocalInv, LocalTypeOK, SubmitInv, Submitting, Stored, AnswerInv, AnswerOf,
     MetadataNeverAhead

-----------------------------------------------------------------------------
(* A terminal.                                                             *)

States == {"idle", "created", "sent", "reading", "shown", "acking", "acked"}
Operations == {"submit", "resume", "ack"}
Operation(p, op) == [to |-> p, op |-> op, at |-> "backlog", taken |-> FALSE]

\* What a terminal does leaves the other terminals alone.
OnlyOf(c) ==
    /\ client' \in [Clients -> States] /\ conn' \in [Clients -> Conns]
    /\ inbox' \in [Clients -> Seq(Events)]
    /\ \A b \in Clients \ {c} :
         client'[b] = client[b] /\ conn'[b] = conn[b] /\ inbox'[b] = inbox[b]

\* The invariant of a terminal depends on its own state and on what is stored.
LEMMA AnswerFrame ==
  ASSUME NEW c \in Clients, AnswerOf(c),
         client'[c] = client[c], conn'[c] = conn[c], inbox'[c] = inbox[c],
         Stored => Stored', request = "delivered" => request' = "delivered"
  PROVE  AnswerOf(c)'
  BY DEF AnswerOf

\* A terminal that hangs up leaves an operation without an answer behind, or nothing.
LEMMA HangUpIsOwn ==
  ASSUME LocalInv, NEW c \in Clients, NEW x \in States, Move(c, x), HangUp(c)
  PROVE  /\ OnlyOf(c)
         /\ client'[c] = x /\ inbox'[c] = <<>>
         /\ conn'[c] = IF conn[c].at \in Unanswered THEN conn[c] ELSE NoConn
  <1>1. NoConn \in Conns /\ <<>> \in Seq(Events)
    BY DEF NoConn, Conns
  <1> QED BY <1>1 DEF Move, HangUp, OnlyOf, LocalInv, LocalTypeOK, States

\* A terminal connects to a daemon that listens, or its command ends.
LEMMA OpenIsOwn ==
  ASSUME LocalInv, DaemonTypeOK, NEW c \in Clients, NEW x \in States, NEW op \in Operations,
         Open(c, op, x)
  PROVE  /\ OnlyOf(c)
         /\ inbox' = inbox
         /\ \/ client'[c] = "idle" /\ conn'[c] = conn[c]
            \/ /\ client'[c] = x
               /\ \E p \in Procs : conn'[c] = Operation(p, op)
  <1> USE DEF LocalInv, LocalTypeOK
  <1>1. CASE socket # NoProc /\ Listening(socket)
    <2>1. socket \in Procs
      BY <1>1 DEF DaemonTypeOK
    <2>2. Operation(socket, op) \in Conns
      BY <2>1 DEF Operation, Operations, Conns
    <2>3. /\ conn' = [conn EXCEPT ![c] = Operation(socket, op)] /\ inbox' = inbox
          /\ client' = [client EXCEPT ![c] = x]
      BY <1>1 DEF Open, Move, Operation
    <2> QED BY <2>1, <2>2, <2>3 DEF OnlyOf, States
  <1>2. CASE ~(socket # NoProc /\ Listening(socket))
    BY <1>2 DEF Open, Move, OnlyOf, States
  <1> QED BY <1>1, <1>2

\* A step of one terminal keeps the invariant, if its own part is kept, it takes
\* a submission from nobody and its recovery file says nothing new too early.
LEMMA OwnStepKeeps ==
  ASSUME LocalInv, NEW c \in Clients, OnlyOf(c), UNCHANGED <<request, blocked>>,
         AnswerOf(c)',
         meta' \in {"created", "sent", "accepted", "terminal"} \/ UNCHANGED meta,
         meta' = "accepted" => meta = meta' \/ Stored,
         meta' = "terminal" => meta = meta' \/ request = "delivered",
         Submitting(c)' => Submitting(c) \/ meta = "absent",
         meta' = "absent" => client'[c] = client[c] /\ conn'[c] = conn[c]
  PROVE  LocalInv'
  <1> USE DEF LocalInv
  <1>1. LocalTypeOK'
    BY DEF LocalTypeOK, OnlyOf, States
  <1>2. AnswerInv'
    <2> SUFFICES ASSUME NEW b \in Clients, b # c PROVE AnswerOf(b)'
      BY DEF AnswerInv
    <2> QED BY AnswerFrame DEF AnswerInv, OnlyOf, Stored
  <1>3. MetadataNeverAhead'
    BY DEF MetadataNeverAhead, Stored
  <1>4. \A b \in Clients \ {c} : Submitting(b)' <=> Submitting(b)
    BY DEF OnlyOf, Submitting
  <1>5. SubmitInv'
    <2>1. meta' = "absent" => meta = "absent"
      OBVIOUS
    <2>2. meta = "absent" => \A b \in Clients : ~Submitting(b)
      BY DEF SubmitInv, Submitting, NoConn
    <2>3. \A b \in Clients : Submitting(b)' => ~Stored'
      BY <1>4, <2>2 DEF SubmitInv, Stored
    <2>4. \A a, b \in Clients : Submitting(a)' /\ Submitting(b)' => a = b
      BY <1>4, <2>2 DEF SubmitInv
    <2>5. meta' = "absent" =>
            ~Stored' /\ \A b \in Clients : client'[b] = "idle" /\ conn'[b] = NoConn
      BY <2>1 DEF SubmitInv, Stored, OnlyOf
    <2> QED BY <2>3, <2>4, <2>5 DEF SubmitInv
  <1> QED BY <1>1, <1>2, <1>3, <1>5

LEMMA CreateKeeps ==
  ASSUME LocalInv, NEW c \in Clients, Create(c), UNCHANGED blocked
  PROVE  LocalInv'
  <1> USE DEF LocalInv
  <1>1. /\ client' = [client EXCEPT ![c] = "created"] /\ meta = "absent" /\ meta' = "created"
        /\ UNCHANGED <<request, conn, inbox>>
    BY DEF Create, Move
  <1>2. OnlyOf(c)
    BY <1>1 DEF OnlyOf, LocalTypeOK, States
  <1>3. AnswerOf(c)'
    BY <1>1 DEF AnswerInv, AnswerOf, LocalTypeOK, SubmitInv, Stored, NoConn
  <1> QED BY <1>1, <1>2, <1>3, OwnStepKeeps

\* Submit, resume and ack each use a connection of their own.
LEMMA ConnectKeeps ==
  ASSUME LocalInv, DaemonTypeOK, NEW c \in Clients, Submit(c) \/ Resume(c) \/ ConnectAck(c),
         UNCHANGED blocked
  PROVE  LocalInv'
  <1> USE DEF LocalInv
  <1>0. AnswerOf(c) /\ client[c] \in States
    BY DEF AnswerInv, LocalTypeOK, States
  <1>1. PICK op \in Operations, x \in {"sent", "reading", "acking"} :
          /\ Open(c, op, x)
          /\ op = "submit" => client[c] = "created" /\ x = "sent"
          /\ op = "ack" <=> x = "acking"
          /\ op = "ack" => client[c] = "shown"
    BY DEF Submit, Resume, ConnectAck, Operations
  <1>2. /\ inbox[c] = <<>> /\ UNCHANGED <<request, meta>> /\ meta # "absent"
        /\ client[c] \in {"created", "shown", "idle"}
        /\ conn[c] = NoConn
    BY <1>0 DEF Submit, Resume, ConnectAck, AnswerOf, SubmitInv, NoConn
  <1>3. /\ OnlyOf(c) /\ inbox'[c] = <<>>
        /\ \/ client'[c] = "idle" /\ conn'[c] = NoConn
           \/ /\ client'[c] = x
              /\ \E p \in Procs : conn'[c] = Operation(p, op)
    BY <1>1, <1>2, OpenIsOwn DEF States
  <1>4. AnswerOf(c)'
    <2>1. CASE client'[c] = "idle" /\ conn'[c] = NoConn
      BY <1>3, <2>1 DEF AnswerOf, NoConn
    <2>2. CASE client'[c] = x /\ \E p \in Procs : conn'[c] = Operation(p, op)
      BY <1>0, <1>1, <1>2, <1>3, <2>2 DEF AnswerOf, Operation, Operations, Stored
    <2> QED BY <1>3, <2>1, <2>2
  <1>5. Submitting(c)' => Submitting(c)
    <2>1. CASE client'[c] = "idle" /\ conn'[c] = NoConn
      BY <2>1 DEF Submitting, NoConn
    <2>2. CASE client'[c] = x /\ \E p \in Procs : conn'[c] = Operation(p, op)
      <3>1. conn'[c].op = op /\ client'[c] # "created"
        BY <2>2 DEF Operation
      <3> QED BY <1>1, <3>1 DEF Submitting
    <2> QED BY <1>3, <2>1, <2>2
  <1> QED BY <1>2, <1>3, <1>4, <1>5, OwnStepKeeps

\* A command that ends, whatever it had come to.
LEMMA HangUpKeeps ==
  ASSUME LocalInv, NEW c \in Clients, client[c] # "idle",
         Move(c, "idle"), HangUp(c), UNCHANGED <<request, meta, blocked>>
  PROVE  LocalInv'
  <1> USE DEF LocalInv
  <1>1. /\ OnlyOf(c) /\ client'[c] = "idle" /\ inbox'[c] = <<>>
        /\ conn'[c] = IF conn[c].at \in Unanswered THEN conn[c] ELSE NoConn
    BY HangUpIsOwn DEF States
  <1>2. AnswerOf(c)'
    BY <1>1 DEF AnswerInv, AnswerOf, NoConn, Stored
  <1>3. Submitting(c)' => Submitting(c)
    BY <1>1 DEF Submitting, NoConn
  <1>4. meta # "absent"
    BY DEF SubmitInv
  <1> QED BY <1>1, <1>2, <1>3, <1>4, OwnStepKeeps

\* What a terminal has read of an answer is stored.
LEMMA AnswersKeep ==
  ASSUME LocalInv, NEW c \in Clients, Read(c) \/ ReadAck(c), UNCHANGED blocked
  PROVE  LocalInv'
  <1> USE DEF LocalInv
  <1>0. AnswerOf(c) /\ meta # "absent" /\ inbox[c] # <<>> /\ inbox[c] \in Seq(Events)
    BY DEF AnswerInv, SubmitInv, Read, ReadAck, LocalTypeOK
  <1>1. conn[c].at \notin {"none"} \cup Unanswered /\ client[c] # "idle"
    BY <1>0 DEF AnswerOf, Read, ReadAck
  <1>2. Head(inbox[c]) \in {"accepted", "final"} => Stored
    BY <1>0 DEF AnswerOf
  <1>3. CASE Move(c, "idle") /\ HangUp(c) /\ UNCHANGED <<request, meta>>
    BY <1>1, <1>3, HangUpKeeps
  <1>4. ASSUME NEW x \in {"shown", "acked"}, Move(c, x), HangUp(c), UNCHANGED <<request, meta>>,
               x = "shown" => Stored, x = "acked" => request = "delivered"
        PROVE  LocalInv'
    <2>1. /\ OnlyOf(c) /\ client'[c] = x /\ inbox'[c] = <<>> /\ conn'[c] = NoConn
      BY <1>1, <1>4, HangUpIsOwn DEF States
    <2>2. AnswerOf(c)'
      BY <1>4, <2>1 DEF AnswerOf, NoConn, Stored
    <2>3. ~Submitting(c)'
      BY <2>1 DEF Submitting, NoConn
    <2> QED BY <1>0, <1>4, <2>1, <2>2, <2>3, OwnStepKeeps
  <1>5. CASE /\ meta' = "accepted" /\ inbox' = [inbox EXCEPT ![c] = Tail(@)]
             /\ UNCHANGED <<client, conn, request>> /\ Head(inbox[c]) = "accepted"
             /\ client[c] = "reading"
    <2>1. Tail(inbox[c]) \in Seq(Events) /\ inbox'[c] = Tail(inbox[c])
      BY <1>0, <1>5 DEF LocalTypeOK
    <2>2. OnlyOf(c)
      BY <1>5, <2>1 DEF OnlyOf, LocalTypeOK, States
    <2>3. AnswerOf(c)'
      BY <1>0, <1>1, <1>2, <1>5, <2>1 DEF AnswerOf, Stored
    <2> QED BY <1>0, <1>2, <1>5, <2>2, <2>3, OwnStepKeeps DEF Submitting
  <1>6. CASE Read(c)
    <2>1. CASE Head(inbox[c]) = "accepted"
      BY <1>3, <1>5, <1>6, <2>1 DEF Read, SetState
    <2>2. CASE Head(inbox[c]) = "final"
      BY <1>2, <1>4, <1>6, <2>2 DEF Read
    <2>3. CASE Head(inbox[c]) \notin {"accepted", "final"}
      BY <1>3, <1>6, <2>3 DEF Read
    <2> QED BY <2>1, <2>2, <2>3
  <1>7. CASE ReadAck(c)
    BY <1>0, <1>4, <1>7 DEF ReadAck, AnswerOf
  <1> QED BY <1>6, <1>7

\* The recovery file follows the terminal, or the command ends.
LEMMA MarksKeep ==
  ASSUME LocalInv, NEW c \in Clients, MarkSent(c) \/ MarkTerminal(c), UNCHANGED blocked
  PROVE  LocalInv'
  <1> USE DEF LocalInv
  <1>0. AnswerOf(c) /\ meta # "absent" /\ client[c] # "idle" /\ UNCHANGED request
    BY DEF AnswerInv, SubmitInv, MarkSent, MarkTerminal
  <1>1. CASE UNCHANGED meta /\ Move(c, "idle") /\ HangUp(c)
    BY <1>0, <1>1, HangUpKeeps
  <1>2. ASSUME NEW x \in {"reading", "idle"}, Move(c, x), UNCHANGED <<conn, inbox>>,
               IF x = "reading" THEN meta' = "sent" /\ client[c] = "sent"
                                ELSE meta' = "terminal" /\ client[c] = "acked"
        PROVE  LocalInv'
    <2>1. OnlyOf(c) /\ client'[c] = x
      BY <1>2 DEF OnlyOf, Move, LocalTypeOK, States
    <2>2. AnswerOf(c)'
      BY <1>0, <1>2, <2>1 DEF AnswerOf, NoConn, Stored
    <2>3. Submitting(c)' => Submitting(c)
      BY <1>2, <2>1 DEF Submitting
    <2>4. client[c] = "acked" => request = "delivered"
      BY <1>0 DEF AnswerOf
    <2> QED BY <1>0, <1>2, <2>1, <2>2, <2>3, <2>4, OwnStepKeeps
  <1>3. CASE MarkSent(c)
    BY <1>1, <1>2, <1>3 DEF MarkSent, SetState
  <1>4. CASE MarkTerminal(c)
    BY <1>1, <1>2, <1>4 DEF MarkTerminal, SetState
  <1> QED BY <1>3, <1>4

LEMMA ClientKeeps ==
  ASSUME LocalInv, DaemonTypeOK, NEW c \in Clients, ClientStep(c)
  PROVE  LocalInv'
  <1>0. UNCHANGED blocked
    BY DEF ClientStep
  <1>1. CASE Submit(c) \/ Resume(c) \/ ConnectAck(c)
    BY <1>0, <1>1, ConnectKeeps
  <1>2. CASE Read(c) \/ ReadAck(c)
    BY <1>0, <1>2, AnswersKeep
  <1>3. CASE MarkSent(c) \/ MarkTerminal(c)
    BY <1>0, <1>3, MarksKeep
  <1>4. CASE SeeEnd(c)
    BY <1>0, <1>4, HangUpKeeps DEF SeeEnd
  <1> QED BY <1>1, <1>2, <1>3, <1>4 DEF ClientStep

-----------------------------------------------------------------------------
(* The server of a process.                                                *)

\* A step of the server for one connection keeps the invariant if its own part
\* is kept, it stores a request only for the terminal that submits, and what is
\* stored or delivered stays so.
LEMMA ServedStepKeeps ==
  ASSUME LocalInv, NEW c \in Clients, OnlyOf(c), AnswerOf(c)', UNCHANGED <<meta, client>>,
         blocked' \subseteq Procs, meta # "absent", ~Submitting(c)',
         \/ UNCHANGED request
         \/ Submitting(c) /\ request' = "active"
         \/ Stored /\ request' = "delivered"
  PROVE  LocalInv'
  <1> USE DEF LocalInv
  <1>1. LocalTypeOK'
    BY DEF LocalTypeOK, OnlyOf, States
  <1>2. /\ Stored => Stored'
        /\ request = "delivered" => request' = "delivered"
    BY DEF SubmitInv, Stored
  <1>3. AnswerInv'
    <2> SUFFICES ASSUME NEW b \in Clients, b # c PROVE AnswerOf(b)'
      BY DEF AnswerInv
    <2> QED BY <1>2, AnswerFrame DEF AnswerInv, OnlyOf
  <1>4. SubmitInv'
    <2>1. \A b \in Clients : Submitting(b)' => b # c /\ Submitting(b)
      BY DEF OnlyOf, Submitting
    <2>2. \A b \in Clients : Submitting(b)' => ~Stored'
      BY <2>1 DEF SubmitInv, Stored
    <2> QED BY <2>1, <2>2 DEF SubmitInv
  <1>5. MetadataNeverAhead'
    BY <1>2 DEF MetadataNeverAhead, Stored
  <1> QED BY <1>1, <1>3, <1>4, <1>5

\* What is written to a terminal that is there, and how its connection goes on.
LEMMA WriteIsOwn ==
  ASSUME LocalInv, NEW c \in Clients, NEW event \in Events,
         NEW then \in {"open", "sent", "closed"}, Write(c, event, then), UNCHANGED client,
         conn[c].at # "none"
  PROVE  /\ OnlyOf(c)
         /\ \/ client[c] = "idle" /\ conn'[c] = NoConn /\ inbox'[c] = inbox[c]
            \/ /\ client[c] # "idle" /\ conn'[c] = [conn[c] EXCEPT !.at = then]
               /\ inbox'[c] = Append(inbox[c], event)
  <1> USE DEF LocalInv, LocalTypeOK
  <1>1. NoConn \in Conns /\ [conn[c] EXCEPT !.at = then] \in Conns
    BY DEF NoConn, Conns
  <1>2. Append(inbox[c], event) \in Seq(Events)
    OBVIOUS
  <1> QED BY <1>1, <1>2 DEF Write, HasLeft, OnlyOf, States

\* An event that says only what is stored keeps the terminal's part.
LEMMA WriteKeepsAnswer ==
  ASSUME LocalInv, NEW c \in Clients, NEW event \in Events,
         NEW then \in {"open", "sent", "closed"}, Write(c, event, then), UNCHANGED <<request, client>>,
         conn[c].at # "none",
         event \in {"accepted", "final"} => Stored,
         then \in {"open", "sent"} => conn[c].op # "ack" /\ Stored,
         conn[c].op = "ack" => request = "delivered"
  PROVE  AnswerOf(c)'
  <1> USE DEF LocalInv
  <1>0. AnswerOf(c) /\ inbox[c] \in Seq(Events) /\ conn[c] \in Conns
    BY DEF AnswerInv, LocalTypeOK
  <1>1. CASE client[c] = "idle" /\ conn'[c] = NoConn /\ inbox'[c] = inbox[c]
    BY <1>0, <1>1 DEF AnswerOf, NoConn, Stored
  <1>2. CASE /\ client[c] # "idle" /\ conn'[c] = [conn[c] EXCEPT !.at = then]
             /\ inbox'[c] = Append(inbox[c], event)
    <2>1. /\ conn'[c].to = conn[c].to /\ conn'[c].op = conn[c].op /\ conn'[c].at = then
          /\ conn[c] # NoConn
      BY <1>0, <1>2 DEF Conns, NoConn
    <2>2. \A i \in DOMAIN inbox'[c] :
            inbox'[c][i] \in {"accepted", "final"} => Stored
      BY <1>0, <1>2 DEF AnswerOf
    <2>3. client'[c] = client[c] /\ client[c] \notin {"idle", "created", "shown", "acked"}
      BY <1>0, <1>2, <2>1 DEF AnswerOf
    <2>4. Stored' <=> Stored
      BY DEF Stored
    <2>5. conn'[c].at \in Decoded /\ conn'[c].op \in {"submit", "resume"} => Stored
      BY <2>1
    <2>6. conn'[c].op = "ack" => Stored /\ conn'[c].at = "closed"
      BY <1>0, <2>1 DEF AnswerOf
    <2>7. client[c] = "acking" => conn'[c].op = "ack" /\ request = "delivered"
      BY <1>0, <2>1 DEF AnswerOf
    <2>8. conn'[c].to \in Procs /\ conn'[c].op # "none" /\ conn'[c].at \notin {"none"} \cup Unanswered
      BY <1>0, <2>1 DEF AnswerOf
    <2> QED BY <2>2, <2>3, <2>4, <2>5, <2>6, <2>7, <2>8 DEF AnswerOf
  <1>3. \/ client[c] = "idle" /\ conn'[c] = NoConn /\ inbox'[c] = inbox[c]
        \/ /\ client[c] # "idle" /\ conn'[c] = [conn[c] EXCEPT !.at = then]
           /\ inbox'[c] = Append(inbox[c], event)
    BY WriteIsOwn, ZenonT(40)
  <1> QED BY <1>1, <1>2, <1>3

\* A connection that answers, replays or says goodbye.
LEMMA WriteKeeps ==
  ASSUME LocalInv, NEW c \in Clients, NEW event \in Events,
         NEW then \in {"open", "sent", "closed"}, Write(c, event, then),
         UNCHANGED <<request, meta, client>>, blocked' \subseteq Procs,
         conn[c].at # "none",
         event \in {"accepted", "final"} => Stored,
         then \in {"open", "sent"} => conn[c].op # "ack" /\ Stored,
         conn[c].op = "ack" => request = "delivered"
  PROVE  LocalInv'
  <1>1. OnlyOf(c) /\ AnswerOf(c)'
    BY WriteIsOwn, WriteKeepsAnswer, ZenonT(40)
  <1>3. conn'[c].at # "backlog"
    <2>1. conn[c] \in Conns
      BY DEF LocalInv, LocalTypeOK
    <2>2. conn'[c] = NoConn \/ conn'[c] = [conn[c] EXCEPT !.at = then]
      BY WriteIsOwn, ZenonT(40)
    <2> QED BY <2>1, <2>2 DEF Conns, NoConn
  <1>2. client[c] # "created" /\ meta # "absent"
    BY DEF LocalInv, AnswerInv, AnswerOf, SubmitInv, NoConn
  <1> QED BY <1>1, <1>2, <1>3, ServedStepKeeps DEF Submitting

\* A submission is stored, an acknowledgement delivers, and a resumed session
\* reads what there is.
LEMMA AcceptKeeps ==
  ASSUME LocalInv, NEW p \in Procs, NEW c \in Clients, Accept(p, c)
  PROVE  LocalInv'
  <1> USE DEF LocalInv
  <1>0. /\ AnswerOf(c) /\ conn[c] \in Conns /\ conn[c].at = "backlog" /\ conn[c] # NoConn
        /\ client[c] # "created" /\ meta # "absent"
        /\ UNCHANGED <<meta, client>> /\ blocked' \subseteq Procs
    BY DEF AnswerInv, AnswerOf, SubmitInv, LocalTypeOK, Accept, At, NoConn
  <1>1. ASSUME NEW at \in {"answer", "sawActive", "sawFinished"}, UNCHANGED inbox,
               conn' = [conn EXCEPT ![c].at = at],
               \/ conn[c].op = "submit" /\ request' = "active" /\ at = "answer"
               \/ conn[c].op = "ack" /\ request' = "delivered" /\ at = "answer"
               \/ conn[c].op = "resume" /\ UNCHANGED request /\ Stored
        PROVE  LocalInv'
    <2>1. [conn[c] EXCEPT !.at = at] \in Conns
      BY <1>0 DEF Conns
    <2>2. OnlyOf(c)
      BY <1>0, <1>1, <2>1 DEF OnlyOf, LocalTypeOK, States
    <2>3. conn'[c].to = conn[c].to /\ conn'[c].op = conn[c].op /\ conn'[c].at = at
      BY <1>0, <1>1 DEF LocalTypeOK, Conns
    <2>4. /\ inbox'[c] = <<>> /\ client'[c] = client[c]
          /\ client[c] \notin {"created", "shown", "acked"}
      BY <1>0, <1>1 DEF AnswerOf
    <2>5. Stored'
      BY <1>0, <1>1 DEF AnswerOf, Stored
    <2>6. AnswerOf(c)'
      BY <1>0, <1>1, <2>3, <2>4, <2>5 DEF AnswerOf
    <2>7. ~Submitting(c)'
      BY <1>0, <1>1, <2>3 DEF Submitting, NoConn
    <2>8. \/ UNCHANGED request
          \/ Submitting(c) /\ request' = "active"
          \/ Stored /\ request' = "delivered"
      BY <1>0, <1>1 DEF Submitting, AnswerOf
    <2> QED BY <1>0, <2>2, <2>6, <2>7, <2>8, ServedStepKeeps
  <1>2. CASE conn[c].op \in {"submit", "ack"}
    BY <1>1, <1>2 DEF Accept, AfterAck
  <1>3. CASE conn[c].op \notin {"submit", "ack"} /\ request \in {"active", "finished"}
    <2>1. conn[c].op = "resume" /\ Stored
      BY <1>0, <1>3 DEF AnswerOf, Conns, Stored
    <2> QED BY <1>1, <1>3, <2>1 DEF Accept
  <1>4. CASE conn[c].op \notin {"submit", "ack"} /\ request \in {"absent", "delivered"}
    <2>1. PICK event \in {"missing", "final"} :
            Write(c, event, "closed") /\ (event = "final" => Stored)
      BY <1>4 DEF Accept, Stored
    <2>2. UNCHANGED request
      BY <1>4 DEF Accept
    <2> QED BY <1>0, <1>4, <2>1, <2>2, WriteKeeps DEF Events
  <1> QED BY <1>2, <1>3, <1>4 DEF LocalTypeOK

LEMMA AnswerKeeps ==
  ASSUME LocalInv, NEW p \in Procs, NEW c \in Clients,
         Answer(p, c) \/ SendFinal(p, c) \/ Replay(p, c) \/ Notify(p, c)
  PROVE  LocalInv'
  <1> USE DEF LocalInv
  <1>0. AnswerOf(c) /\ conn[c] \in Conns /\ conn[c].at \in Decoded
        /\ UNCHANGED <<request, meta, client>> /\ blocked' \subseteq Procs
    BY DEF AnswerInv, LocalTypeOK, Answer, SendFinal, Replay, Notify, At
  <1>1. CASE Answer(p, c)
    <2>1. CASE conn[c].op = "ack"
      BY <1>0, <1>1, <2>1, WriteKeeps DEF Answer, AnswerOf, Events
    <2>2. CASE conn[c].op # "ack"
      <3>1. Write(c, "accepted", "open") /\ conn[c].op \in {"submit", "resume"} /\ Stored
        BY <1>0, <1>1, <2>2 DEF Answer, AnswerOf, NoConn, Conns
      <3> QED BY <1>0, <2>2, <3>1, WriteKeeps DEF Events
    <2> QED BY <2>1, <2>2
  <1>2. CASE SendFinal(p, c)
    <2>1. Write(c, "final", "sent") /\ conn[c].op \in {"submit", "resume"} /\ Stored
      BY <1>0, <1>2 DEF SendFinal, At, AnswerOf, NoConn, Conns
    <2> QED BY <1>0, <2>1, WriteKeeps DEF Events
  <1>3. CASE Replay(p, c)
    BY <1>0, <1>3, WriteKeeps DEF Replay, AnswerOf, Events, Stored
  <1>4. CASE Notify(p, c)
    BY <1>0, <1>4, WriteKeeps DEF Notify, AnswerOf, Events
  <1> QED BY <1>1, <1>2, <1>3, <1>4

\* A resumed session subscribes, or ends because its terminal has gone.
LEMMA SubscribeKeeps ==
  ASSUME LocalInv, NEW p \in Procs, NEW c \in Clients, Subscribe(p, c)
  PROVE  LocalInv'
  <1> USE DEF LocalInv
  <1>0. /\ AnswerOf(c) /\ conn[c] \in Conns /\ conn[c].at \in {"sawActive", "sawFinished"}
        /\ UNCHANGED <<request, meta, client, inbox, blocked>>
    BY DEF AnswerInv, LocalTypeOK, Subscribe, At
  <1>1. /\ conn[c] # NoConn /\ inbox[c] = <<>> /\ meta # "absent"
        /\ client[c] \notin {"created", "shown", "acked"}
    BY <1>0 DEF AnswerOf, SubmitInv, NoConn
  <1>2. PICK new \in Conns : conn' = [conn EXCEPT ![c] = new]
    <2>1. NoConn \in Conns /\ \A at \in {"answer", "poll"} : [conn[c] EXCEPT !.at = at] \in Conns
      BY <1>0 DEF NoConn, Conns
    <2> QED BY <2>1 DEF Subscribe
  <1>3. conn'[c] = new
    BY <1>2 DEF LocalTypeOK
  <1>4. \/ new = NoConn /\ client[c] = "idle"
        \/ /\ new # NoConn /\ new.to = conn[c].to /\ new.op = conn[c].op
           /\ new.at = "answer" \/ (new.at = "poll" /\ client[c] # "idle")
    BY <1>0, <1>1, <1>3 DEF Subscribe, HasLeft, LocalTypeOK, Conns, NoConn
  <1>5. OnlyOf(c)
    BY <1>0, <1>2 DEF OnlyOf, LocalTypeOK, States
  <1>6. AnswerOf(c)'
    <2>1. CASE new = NoConn /\ client[c] = "idle"
      BY <1>0, <1>1, <1>3, <2>1 DEF AnswerOf, NoConn, Stored
    <2>2. CASE new # NoConn
      <3>1. conn[c].op \in {"submit", "resume"} /\ Stored
        BY <1>0, <1>1 DEF AnswerOf, Conns, NoConn
      <3> QED BY <1>0, <1>1, <1>3, <1>4, <2>2, <3>1 DEF AnswerOf, Stored
    <2> QED BY <1>4, <2>1, <2>2
  <1>7. ~Submitting(c)'
    BY <1>0, <1>1, <1>3, <1>4 DEF Submitting, NoConn
  <1>8. blocked' \subseteq Procs
    BY <1>0 DEF LocalTypeOK
  <1> QED BY <1>0, <1>1, <1>5, <1>6, <1>7, <1>8, ServedStepKeeps

\* The worker only marks the sessions it has taken.
LEMMA SnapshotKeeps ==
  ASSUME LocalInv, NEW p \in Procs, Snapshot(p)
  PROVE  LocalInv'
  <1> USE DEF LocalInv
  <1>1. UNCHANGED <<request, meta, client, inbox, blocked>> /\ conn' \in [Clients -> Conns]
    BY DEF Snapshot, LocalTypeOK, Conns
  <1>2. \A c \in Clients : /\ conn'[c].to = conn[c].to /\ conn'[c].op = conn[c].op
                           /\ conn'[c].at = conn[c].at
                           /\ conn[c].at \in {"none", "backlog", "closed"} => conn'[c] = conn[c]
    BY DEF Snapshot, Subscribers, At, LocalTypeOK, Conns
  <1>3. AnswerInv'
    <2> SUFFICES ASSUME NEW c \in Clients PROVE AnswerOf(c)'
      BY DEF AnswerInv
    <2>1. AnswerOf(c) /\ Stored' = Stored
      BY <1>1 DEF AnswerInv, Stored
    <2>2. CASE conn'[c] = conn[c]
      BY <1>1, <2>1, <2>2 DEF AnswerOf
    <2>3. CASE conn[c].at \notin {"none", "backlog", "closed"}
      <3>1. conn[c] # NoConn /\ conn'[c] # NoConn
        BY <1>2, <2>3 DEF NoConn
      <3> QED BY <1>1, <1>2, <2>1, <2>3, <3>1 DEF AnswerOf
    <2> QED BY <1>2, <2>2, <2>3
  <1>4. SubmitInv' /\ MetadataNeverAhead'
    BY <1>1, <1>2 DEF SubmitInv, Submitting, MetadataNeverAhead, Stored, NoConn
  <1> QED BY <1>1, <1>3, <1>4 DEF LocalTypeOK

-----------------------------------------------------------------------------
(* The theorems.                                                           *)

\* The invariant of the daemons, their connections and the recovery file.
THEOREM OperationsInvariant == Spec => []OperationsInv
  <1>1. Init => OperationsInv
    <2> SUFFICES ASSUME Init PROVE OperationsInv
      OBVIOUS
    <2> USE DEF Init, DaemonInit
    <2>1. TypeOK
      <3>1. Free \in Leases /\ NoConn \in Conns /\ <<>> \in Seq(Events)
        BY DEF Leases, Free, NoConn, Conns
      <3> QED BY <3>1 DEF TypeOK, Phases
    <2>2. LockInv
      BY DEF LockInv, Holding, Listening, Starting
    <2>3. SubmitInv /\ MetadataNeverAhead
      BY DEF SubmitInv, Submitting, Stored, NoConn, MetadataNeverAhead
    <2>4. AnswerInv
      BY DEF AnswerInv, AnswerOf, Stored, NoConn
    <2> QED BY <2>1, <2>2, <2>3, <2>4 DEF OperationsInv
  <1>2. OperationsInv /\ [Next]_vars => OperationsInv'
    <2> SUFFICES ASSUME OperationsInv, [Next]_vars PROVE OperationsInv'
      OBVIOUS
    <2>0. DaemonTypeOK /\ LockInv /\ LocalInv
      BY InvParts
    <2> SUFFICES DaemonTypeOK' /\ LockInv' /\ LocalInv'
      BY DEF OperationsInv, TypeOK, DaemonTypeOK, LocalTypeOK, LocalInv
    <2>1. CASE UNCHANGED vars
      BY <2>0, <2>1, DaemonStutters, LocalStutters DEF vars, daemonVars, localVars
    <2>2. CASE \E p \in Procs : Start(p) \/ CleanUp(p) \/ Signal(p)
      BY <2>0, <2>2, DaemonKeeps, LocalStutters DEF Start, CleanUp, Signal
    <2>3. CASE \E p \in Procs : StopServing(p) \/ Faults(p)
      BY <2>0, <2>3, DaemonKeeps, CloseAllKeeps DEF StopServing, Faults
    <2>4. CASE \E p \in Procs : QuantumStep(p)
      BY <2>0, <2>4, DaemonKeeps, QuantumKeeps DEF QuantumStep
    <2>5. CASE TakeRecipients \/ \E c \in Clients : ServerStep(c)
      BY <2>0, <2>5, DaemonStutters, SnapshotKeeps, SubscribeKeeps, AcceptKeeps, AnswerKeeps
      DEF TakeRecipients, ServerStep
    <2>6. CASE \E c \in Clients : NewRequest(c) \/ ClientStep(c)
      <3>1. UNCHANGED <<daemonVars, blocked>>
        BY <2>6 DEF NewRequest, ClientStep
      <3> QED BY <2>0, <2>6, <3>1, DaemonStutters, CreateKeeps, ClientKeeps DEF NewRequest
    <2>7. CASE \E c \in Clients : Leave(c)
      BY <2>0, <2>7, HangUpKeeps DEF Leave, Stop, DaemonTypeOK, LockInv, Holding, Listening
    <2>8. CASE LeaseExpires /\ UNCHANGED localVars
      BY <2>0, <2>8, LeaseKeeps, LocalStutters
    <2> QED BY <2>1, <2>2, <2>3, <2>4, <2>5, <2>6, <2>7, <2>8 DEF Next
  <1> QED BY <1>1, <1>2, PTL DEF Spec

\* Every variable keeps its type.
THEOREM OperationsTypeCorrect == Spec => []TypeOK
  <1>1. OperationsInv => TypeOK
    BY DEF OperationsInv
  <1> QED BY <1>1, OperationsInvariant, PTL

\* A process that listens holds the lock, and the socket file leads to it,
\* whatever other processes start, fail, stop or die (app.rs, instance_lock.rs).
THEOREM SocketAlwaysLeadsToHolder == Spec => []SocketLeadsToHolder
  <1>1. OperationsInv => SocketLeadsToHolder
    BY DEF OperationsInv, LockInv, SocketLeadsToHolder, Holding, Listening, Starting
  <1> QED BY <1>1, OperationsInvariant, PTL

\* A recovery file says accepted only of a stored request and terminal only of a
\* delivered one (request_metadata.rs).
THEOREM MetadataIsNeverAhead == Spec => []MetadataNeverAhead
  <1>1. OperationsInv => MetadataNeverAhead
    BY DEF OperationsInv
  <1> QED BY <1>1, OperationsInvariant, PTL

=============================================================================
