---------------------------- MODULE LocalOperations ----------------------------
(***************************************************************************)
(* `codrik submit` and `codrik resume` against the daemons of module       *)
(* Daemon (interfaces/cli.rs, interfaces/request_metadata.rs,              *)
(* runtime/ipc/client.rs): what a terminal, the recovery file it keeps and *)
(* the database know of one request while daemons stop, die and start      *)
(* again.  The sessions of the server are those of LocalSessions and       *)
(* ResultDelivery, each with the steps a daemon's end can fall between.    *)
(***************************************************************************)
EXTENDS Daemon, Sequences

CONSTANT Clients     \* terminals, each with one connection at a time

VARIABLES
    request,    \* local_requests, with the state of its result bundle
    meta,       \* state of the request's recovery file
    client,     \* where each terminal is
    conn,       \* its connection, and where the daemon is with it
    inbox,      \* events of the connection not read yet
    blocked     \* processes whose outbox worker waits for a sink nobody will open

localVars == <<request, meta, client, conn, inbox, blocked>>
vars == <<pc, lock, socket, schema, lease, quantum, stops,
          request, meta, client, conn, inbox, blocked>>

\* A connection is taken while the outbox worker has it as a recipient.
NoConn == [to |-> NoProc, op |-> "none", at |-> "none", taken |-> FALSE]
Conns == [to : Procs \cup {NoProc}, op : {"none", "submit", "resume", "ack"},
          at : {"none", "backlog", "sawActive", "sawFinished", "answer",
                "open", "poll", "sent", "closed"},
          taken : BOOLEAN]
Events == {"accepted", "final", "shutdown", "missing", "ackAccepted"}

TypeOK ==
    /\ pc \in [Procs -> Phases]
    /\ {lock, socket} \subseteq Procs \cup {NoProc}
    /\ schema \in 0..Latest /\ lease \in Leases /\ stops \in 0..MaxStops
    /\ quantum \in [Procs -> BOOLEAN]
    /\ request \in {"absent", "active", "finished", "delivered"}
    /\ meta \in {"absent", "created", "sent", "accepted", "terminal"}
    /\ client \in [Clients -> {"idle", "created", "sent", "reading", "shown", "acking", "acked"}]
    /\ conn \in [Clients -> Conns] /\ inbox \in [Clients -> Seq(Events)]
    /\ blocked \subseteq Procs

Init ==
    /\ DaemonInit
    /\ request = "absent" /\ meta = "absent"
    /\ client = [c \in Clients |-> "idle"]
    /\ conn = [c \in Clients |-> NoConn]
    /\ inbox = [c \in Clients |-> <<>>]
    /\ blocked = {}

-----------------------------------------------------------------------------
(* Connections.  A frame that was written is handled though its terminal   *)
(* has gone, as long as the daemon that has the connection accepts it.     *)

Move(c, where) == client' = [client EXCEPT ![c] = where]

\* Where the daemon has written nothing yet, and so does not know who left.
Unanswered == {"backlog", "sawActive", "sawFinished", "answer"}

HangUp(c) ==
    /\ conn' = IF conn[c].at \in Unanswered THEN conn ELSE [conn EXCEPT ![c] = NoConn]
    /\ inbox' = [inbox EXCEPT ![c] = <<>>]

HasLeft(c) == client[c] = "idle"

\* Writes an event, unless nobody is at the other end.
Write(c, event, then) ==
    IF HasLeft(c)
      THEN conn' = [conn EXCEPT ![c] = NoConn] /\ UNCHANGED inbox
      ELSE /\ conn' = [conn EXCEPT ![c].at = then]
           /\ inbox' = [inbox EXCEPT ![c] = Append(@, event)]

\* What becomes of the connections, and of the worker, of a process that stops.
CloseAll(p) ==
    /\ conn' = [c \in Clients |->
                  IF conn[c].to # p THEN conn[c]
                  ELSE IF HasLeft(c) THEN NoConn
                  ELSE [conn[c] EXCEPT !.at = "closed", !.taken = FALSE]]
    /\ blocked' = blocked \ {p}

\* Connects and writes the operation; without a listener the command ends.
Open(c, op, then) ==
    /\ IF socket # NoProc /\ Listening(socket)
         THEN /\ conn' = [conn EXCEPT ![c] =
                             [to |-> socket, op |-> op, at |-> "backlog", taken |-> FALSE]]
              /\ Move(c, then)
         ELSE UNCHANGED conn /\ Move(c, "idle")
    /\ UNCHANGED inbox

-----------------------------------------------------------------------------
(* The terminal.                                                           *)

Rank(state) == CHOOSE i \in 1..5 : <<"absent", "created", "sent", "accepted", "terminal">>[i] = state

\* set_state and set_state_if_present, under the file's lock: the command
\* ends with an error when another one has taken the file further.
SetState(c, state, then) ==
    IF Rank(state) < Rank(meta)
      THEN UNCHANGED meta /\ Move(c, "idle") /\ HangUp(c)
      ELSE meta' = state /\ then

Create(c) ==
    /\ meta = "absent" /\ client[c] = "idle"
    /\ meta' = "created" /\ Move(c, "created")
    /\ UNCHANGED <<request, conn, inbox>>

Submit(c) ==
    /\ client[c] = "created"
    /\ Open(c, "submit", "sent")
    /\ UNCHANGED <<request, meta>>

MarkSent(c) ==
    /\ client[c] = "sent"
    /\ SetState(c, "sent", Move(c, "reading") /\ UNCHANGED <<conn, inbox>>)
    /\ UNCHANGED request

\* Again, after any end of an earlier command.
Resume(c) ==
    /\ client[c] = "idle" /\ conn[c].at = "none"
    /\ meta \notin {"absent", "terminal"}
    /\ Open(c, "resume", "reading")
    /\ UNCHANGED <<request, meta>>

\* The events before the final answer.
Read(c) ==
    /\ client[c] = "reading" /\ inbox[c] # <<>>
    /\ LET rest == inbox' = [inbox EXCEPT ![c] = Tail(@)] IN
       CASE Head(inbox[c]) = "accepted" ->
              SetState(c, "accepted", rest /\ UNCHANGED <<client, conn>>)
         [] Head(inbox[c]) = "final" -> Move(c, "shown") /\ HangUp(c) /\ UNCHANGED meta
         [] OTHER -> Move(c, "idle") /\ HangUp(c) /\ UNCHANGED meta
    /\ UNCHANGED request

ConnectAck(c) ==
    /\ client[c] = "shown"
    /\ Open(c, "ack", "acking")
    /\ UNCHANGED <<request, meta>>

ReadAck(c) ==
    /\ client[c] = "acking" /\ inbox[c] # <<>>
    /\ Move(c, "acked") /\ HangUp(c)
    /\ UNCHANGED <<request, meta>>

MarkTerminal(c) ==
    /\ client[c] = "acked"
    /\ SetState(c, "terminal", Move(c, "idle") /\ UNCHANGED <<conn, inbox>>)
    /\ UNCHANGED request

SeeEnd(c) ==
    /\ client[c] \in {"reading", "acking"} /\ inbox[c] = <<>> /\ conn[c].at = "closed"
    /\ Move(c, "idle") /\ HangUp(c)
    /\ UNCHANGED <<request, meta>>

ClientStep(c) ==
    /\ \/ Submit(c) \/ MarkSent(c) \/ Resume(c) \/ Read(c)
       \/ ConnectAck(c) \/ ReadAck(c) \/ MarkTerminal(c) \/ SeeEnd(c)
    /\ UNCHANGED <<daemonVars, blocked>>

NewRequest(c) == Create(c) /\ UNCHANGED <<daemonVars, blocked>>

\* Control-C, or the end of the terminal.
Leave(c) ==
    /\ client[c] # "idle" /\ Stop
    /\ Move(c, "idle") /\ HangUp(c)
    /\ UNCHANGED <<pc, lock, socket, schema, lease, quantum, request, meta, blocked>>

-----------------------------------------------------------------------------
(* The server of a process.                                                *)

AfterAck_Unclaimed == request
AfterAck == "delivered"

At(p, c, places) == conn[c].to = p /\ conn[c].at \in places

\* The operation is decoded and its transaction made: a submission is subscribed
\* by then, a resume has only read the request (resolve_local_request).
Accept(p, c) ==
    /\ pc[p] = "serving" /\ At(p, c, {"backlog"})
    /\ LET pass(at) == conn' = [conn EXCEPT ![c].at = at] /\ UNCHANGED inbox
       IN CASE conn[c].op = "submit" -> request' = "active" /\ pass("answer")
            [] conn[c].op = "ack" -> request' = AfterAck /\ pass("answer")
            [] OTHER ->
                 /\ UNCHANGED request
                 /\ CASE request = "absent" -> Write(c, "missing", "closed")
                      [] request = "active" -> pass("sawActive")
                      [] request = "finished" -> pass("sawFinished")
                      [] request = "delivered" -> Write(c, "final", "closed")
    /\ UNCHANGED <<meta, client, blocked>>

\* The resumed session subscribes, and goes on from what it has read: it is to be
\* answered, or polls with an open sink.
Subscribe(p, c) ==
    /\ pc[p] \in {"serving", "draining"} /\ At(p, c, {"sawActive", "sawFinished"})
    /\ conn' = [conn EXCEPT ![c] =
                  IF @.at = "sawActive" THEN [@ EXCEPT !.at = "answer"]
                  ELSE IF HasLeft(c) THEN NoConn ELSE [@ EXCEPT !.at = "poll"]]
    /\ UNCHANGED <<request, meta, client, inbox, blocked>>

\* The first frame, and the sink is open.  If the terminal has gone the session
\* ends without opening it, and a worker that has taken it waits for ever.
Answer(p, c) ==
    /\ pc[p] \in {"serving", "draining"} /\ At(p, c, {"answer"})
    /\ IF conn[c].op = "ack" THEN Write(c, "ackAccepted", "closed")
                             ELSE Write(c, "accepted", "open")
    /\ blocked' = IF HasLeft(c) /\ conn[c].taken THEN blocked \cup {p} ELSE blocked
    /\ UNCHANGED <<request, meta, client>>

Subscribers(p) ==
    {c \in Clients : At(p, c, {"answer", "open", "poll"}) /\ conn[c].op # "ack"}

\* The outbox worker takes all subscribers, those not open yet included
\* (reserve_snapshot), and is not done before each has got the result.
Snapshot(p) ==
    /\ pc[p] = "serving" /\ request = "finished"
    /\ p \notin blocked /\ \A c \in Clients : conn[c].to = p => ~conn[c].taken
    /\ Subscribers(p) # {}
    /\ conn' = [c \in Clients |->
                  IF c \in Subscribers(p) THEN [conn[c] EXCEPT !.taken = TRUE] ELSE conn[c]]
    /\ UNCHANGED <<request, meta, client, inbox, blocked>>

\* send_shared, when the sink is open.
SendFinal(p, c) ==
    /\ pc[p] \in {"serving", "draining"} /\ At(p, c, {"open", "poll"}) /\ conn[c].taken
    /\ Write(c, "final", "sent")
    /\ UNCHANGED <<request, meta, client, blocked>>

\* A session that polls finds its result delivered to another one.
Replay(p, c) ==
    /\ pc[p] = "serving" /\ request = "delivered"
    /\ At(p, c, {"poll"}) /\ ~conn[c].taken
    /\ Write(c, "final", "closed")
    /\ UNCHANGED <<request, meta, client, blocked>>

Notify(p, c) ==
    /\ pc[p] = "draining"
    /\ At(p, c, {"sawActive", "sawFinished", "answer", "open", "poll", "sent"})
    /\ Write(c, "shutdown", "closed")
    /\ UNCHANGED <<request, meta, client, blocked>>

TakeRecipients == UNCHANGED daemonVars /\ \E p \in Procs : Snapshot(p)

\* The handler of one connection, and what the worker has for it.
ServerStep(c) ==
    /\ UNCHANGED daemonVars
    /\ \E p \in Procs : \/ Accept(p, c) \/ Subscribe(p, c) \/ Answer(p, c)
                          \/ SendFinal(p, c) \/ Replay(p, c) \/ Notify(p, c)

HandlersDone(p) == \A c \in Clients : conn[c].to = p => conn[c].at \in {"backlog", "closed"}

-----------------------------------------------------------------------------
(* The processes.                                                          *)

QuantumStep(p) ==
    /\ \/ /\ BeginQuantum(p) /\ request = "active"
          /\ UNCHANGED request
       \/ /\ EndQuantum(p)
          /\ request' = IF Owns(p) /\ request = "active" THEN "finished" ELSE request
    /\ UNCHANGED <<meta, client, conn, inbox, blocked>>

Start(p) ==
    /\ \/ AcquireLock(p) \/ Migrate(p) \/ VerifyActor(p)
       \/ RemoveStaleSocket(p) \/ BindListener(p) \/ RecoverStartup(p)
    /\ UNCHANGED localVars

CleanUp(p) ==
    /\ RecoverShutdown(p) \/ RemoveSocket(p) \/ Unlock(p) \/ Exit(p)
    /\ UNCHANGED localVars

StopServing(p) ==
    /\ (Drained(p) /\ HandlersDone(p) /\ p \notin blocked) \/ GraceEnds(p)
    /\ CloseAll(p)
    /\ UNCHANGED <<request, meta, client, inbox>>

Faults(p) ==
    /\ StartFails(p) \/ ComponentFails(p) \/ Crash(p)
    /\ CloseAll(p)
    /\ UNCHANGED <<request, meta, client, inbox>>

Signal(p) == Interrupt(p) /\ UNCHANGED localVars

Next ==
    \/ \E p \in Procs :
         Start(p) \/ QuantumStep(p) \/ Signal(p) \/ StopServing(p) \/ CleanUp(p) \/ Faults(p)
    \/ TakeRecipients
    \/ \E c \in Clients : ServerStep(c) \/ NewRequest(c) \/ ClientStep(c) \/ Leave(c)
    \/ LeaseExpires /\ UNCHANGED localVars

\* Processes are started again when they have stopped, their tasks are scheduled,
\* and so are the terminals: one whose command has ended resumes the request, as
\* long as its recovery file is not terminal.  Nothing is assumed of faults,
\* signals, terminals that leave and new requests.
Fairness ==
    /\ \A p \in Procs : WF_vars(Start(p) \/ StopServing(p) \/ CleanUp(p)) /\ WF_vars(QuantumStep(p))
    /\ WF_vars(TakeRecipients)
    /\ \A c \in Clients : WF_vars(ServerStep(c)) /\ WF_vars(ClientStep(c))
    /\ WF_vars(LeaseExpires /\ UNCHANGED localVars)

Spec == Init /\ [][Next]_vars /\ Fairness

-----------------------------------------------------------------------------
(* A process that listens holds the lock and is the one the socket file    *)
(* leads to: no start, stop, failure or death of another process takes its *)
(* lock or removes its socket (app.rs, instance_lock.rs).                  *)
SocketLeadsToHolder == \A p \in Procs : Listening(p) => lock = p /\ socket = p

(* The recovery file never says more than the database holds: it says      *)
(* accepted only of a stored request, terminal only of a delivered one,    *)
(* whichever of the two processes died in between (request_metadata.rs).   *)
MetadataNeverAhead ==
    /\ meta = "accepted" => request # "absent"
    /\ meta = "terminal" => request = "delivered"

\* A worker that stays blocked holds the claim of the result and gives it to no
\* other session, until its process stops.
WorkerBlocked == blocked # {}

\* The session read an active request and subscribed when the worker had taken
\* its recipients: it is accepted, and nobody will serve it.
Overtaken(c) == conn[c].at = "open" /\ ~conn[c].taken /\ request = "delivered"

(* Unless a worker stays blocked, a request a daemon has stored is answered *)
(* and its recovery file says so, and no command reads for ever unless the  *)
(* delivery has overtaken it, however the daemons and the terminals stop,   *)
(* as long as a terminal that has ended resumes the request (cli.rs,        *)
(* app.rs, server.rs, outbox_worker.rs).                                    *)
EveryRequestIsRead ==
    \/ <>[]WorkerBlocked
    \/ /\ []<>(request = "absent" \/ meta = "terminal")
       /\ \A c \in Clients : []<>(client[c] # "reading" \/ Overtaken(c))
=============================================================================
