------------------------------ MODULE Service ------------------------------
(***************************************************************************)
(* The server's accept thread, worker pool and stop, and clients whose     *)
(* calls may time out, over connections that keep the order of frames.     *)
(*                                                                         *)
(* Each client has one connection, and a connection is named by its        *)
(* client; one that connects again is another client.  A request is its    *)
(* number on the connection and a kind; a command is its identity, which a *)
(* retry repeats.  The runtime behind the handler is its generation and    *)
(* the results it has recorded.                                            *)
(***************************************************************************)
EXTENDS Naturals, Sequences, FiniteSets, Functions

CONSTANTS
    Clients, Workers,
    MaxConnections,     \* connections that may wait for a worker
    MaxFrames,          \* frames served per connection
    Room,               \* replies a socket buffer takes before a write blocks
    Commands,           \* request ids of governed commands
    BrokenPipe,         \* what the platform makes of a send on a shut connection
                        \* or to a peer that has gone: "error" or "killed"
    Script              \* client -> the kinds its first, second, ... call may have

\* Requests that change nothing, commands, the last request of a client, and
\* frames or payloads that cannot be read.
Kinds == {"query", "bye", "damaged", "malformed"} \cup Commands

ASSUME ServiceAssumption ==
    /\ {MaxConnections, MaxFrames, Room} \subseteq Nat \ {0}
    /\ Commands \cap {"query", "bye", "damaged", "malformed"} = {}
    /\ BrokenPipe # {} /\ BrokenPipe \subseteq {"error", "killed"}
    /\ Script \in [Clients -> Seq(SUBSET Kinds)]

VARIABLES
    running,        \* impl.running
    stop,           \* how far stop() has come, or "killed"
    accepting,      \* the accept thread: "accept", "count" or "ended"
    backlog,        \* connections the listener has not accepted
    queue,          \* accepted connections that wait for a worker
    worker,         \* what each worker does
    active,         \* active_sockets
    stats,          \* holder of stats_mutex: {} or one worker
    socket,         \* the server's end: "open", "shut" or "closed"
    inbox,          \* frames on their way to the server
    outbox,         \* frames on their way to the client
    broken,         \* whether the client has read a part of the first of them
    client,         \* what each client does
    sent,           \* requests sent
    calls,          \* results of finished calls: the number replied, 0 for none
    version,        \* generation_ of the runtime
    results         \* dedup_: command -> the generation in its recorded result

vars == <<running, stop, accepting, backlog, queue, worker, active, stats, socket,
          inbox, outbox, broken, client, sent, calls, version, results>>

\* A worker without a connection, and one that has taken a connection.
Nothing == [n |-> 0]
Resting == [stage |-> "top"]
Serving(c) ==
    [stage |-> "popped", c |-> c, frames |-> 0, request |-> Nothing, reply |-> Nothing]

Init ==
    /\ running = TRUE /\ stop = "up" /\ accepting = "accept"
    /\ backlog = <<>> /\ queue = <<>>
    /\ worker = [w \in Workers |-> Resting] /\ active = {} /\ stats = {}
    /\ socket = [c \in Clients |-> "open"]
    /\ inbox = [c \in Clients |-> <<>>] /\ outbox = [c \in Clients |-> <<>>]
    /\ broken = [c \in Clients |-> FALSE]
    /\ client = [c \in Clients |-> "new"]
    /\ sent = [c \in Clients |-> 0] /\ calls = [c \in Clients |-> <<>>]
    /\ version = 0 /\ results = [k \in {} |-> 0]

ServerVars == <<running, stop, accepting, backlog, queue, worker, active, stats, socket,
                version, results>>
ClientVars == <<broken, client, sent, calls>>
Runtime == <<version, results>>

-----------------------------------------------------------------------------
(* Clients.                                                                *)

connect(c) ==
    /\ client[c] = "new" /\ running
    /\ client' = [client EXCEPT ![c] = "idle"]
    /\ backlog' = Append(backlog, c)
    /\ UNCHANGED <<running, stop, accepting, queue, worker, active, stats, socket,
                   inbox, outbox, broken, sent, calls, Runtime>>

\* call(): a request is written.  A frame may be damaged, and the payload of a
\* whole frame may be malformed or of another version.
Send(c, kind) ==
    /\ client[c] = "idle"
    /\ client' = [client EXCEPT ![c] = IF kind = "bye" THEN "closing" ELSE "waiting"]
    /\ sent' = [sent EXCEPT ![c] = @ + 1]
    /\ inbox' = [inbox EXCEPT ![c] = Append(@, [n |-> sent[c] + 1, kind |-> kind,
                                                 since |-> version])]
    /\ UNCHANGED <<outbox, broken, calls>> /\ UNCHANGED ServerVars

\* The call ends with a result; after close() the connection is gone.
Finish(c, result) ==
    /\ client' = [client EXCEPT ![c] = IF @ = "closing" THEN "gone" ELSE "idle"]
    /\ calls' = [calls EXCEPT ![c] = Append(@, result)]

InCall(c) == client[c] \in {"waiting", "closing"}

\* The next reply on the connection is taken, whatever request it answers.
Receive(c) ==
    /\ InCall(c) /\ outbox[c] # <<>> /\ ~broken[c]
    /\ outbox' = [outbox EXCEPT ![c] = Tail(@)]
    /\ Finish(c, Head(outbox[c]).n)
    /\ UNCHANGED <<inbox, broken, sent>> /\ UNCHANGED ServerVars

\* Mutation of ReceiveNothing: the request is sent once more and waited for.
ReceiveRetries(c) ==
    /\ InCall(c) /\ inbox[c] = <<>>
    /\ inbox' = [inbox EXCEPT ![c] = <<[n |-> sent[c], kind |-> "query", since |-> version]>>]
    /\ UNCHANGED <<outbox, ClientVars>> /\ UNCHANGED ServerVars

\* The deadline passes before anything has arrived, or the server has closed;
\* the client may go on to use the connection.
ReceiveNothing(c) ==
    /\ InCall(c)
    /\ Finish(c, 0)
    /\ UNCHANGED <<inbox, outbox, broken, sent>> /\ UNCHANGED ServerVars

\* A read ends in the middle of a reply: the deadline passes, or what is read from
\* there on is no header.  What was read is lost and the connection stays in use,
\* so the next read begins inside that reply, or at the next one when the rest
\* was read; a read from inside a reply may also end inside the next one.
ReceivePart(c) ==
    /\ InCall(c) /\ outbox[c] # <<>>
    /\ \/ broken' = [broken EXCEPT ![c] = TRUE] /\ UNCHANGED outbox
       \/ /\ broken[c] /\ outbox' = [outbox EXCEPT ![c] = Tail(@)]
          /\ \E inside \in {FALSE, Len(outbox[c]) > 1} :
               broken' = [broken EXCEPT ![c] = inside]
    /\ Finish(c, 0)
    /\ UNCHANGED <<inbox, sent>> /\ UNCHANGED ServerVars

\* The client's process ends; replies it has not read are lost.
Vanish(c) ==
    /\ client[c] \notin {"new", "gone"}
    /\ client' = [client EXCEPT ![c] = "gone"]
    /\ outbox' = [outbox EXCEPT ![c] = <<>>] /\ broken' = [broken EXCEPT ![c] = FALSE]
    /\ UNCHANGED <<inbox, sent, calls>> /\ UNCHANGED ServerVars

Client(c) ==
    \/ connect(c) \/ Receive(c) \/ ReceiveNothing(c) \/ ReceivePart(c) \/ Vanish(c)
    \/ sent[c] < Len(Script[c]) /\ \E kind \in Script[c][sent[c] + 1] : Send(c, kind)

-----------------------------------------------------------------------------
(* The accept thread.                                                      *)

Accept ==
    /\ accepting = "accept" /\ running
    /\ backlog # <<>> /\ backlog' = Tail(backlog)
    /\ accepting' = "count"
    /\ IF Len(queue) < MaxConnections
       THEN queue' = Append(queue, Head(backlog)) /\ UNCHANGED socket
       ELSE UNCHANGED queue /\ socket' = [socket EXCEPT ![Head(backlog)] = "closed"]
    /\ UNCHANGED <<running, stop, worker, active, stats, inbox, outbox, ClientVars,
                   Runtime>>

\* count_accepted takes stats_mutex.
AcceptCount ==
    /\ accepting = "count" /\ stats = {}
    /\ accepting' = "accept"
    /\ UNCHANGED <<running, stop, backlog, queue, worker, active, stats, socket, inbox,
                   outbox, ClientVars, Runtime>>

\* The server is stopping, or accept fails other than by its deadline.
AcceptEnd ==
    /\ accepting = "accept"
    /\ accepting' = "ended"
    /\ UNCHANGED <<running, stop, backlog, queue, worker, active, stats, socket, inbox,
                   outbox, ClientVars, Runtime>>

-----------------------------------------------------------------------------
(* Workers.                                                                *)

\* Worker w goes on to a stage, with what it has gathered on the way.
Step(w, new) ==
    /\ worker' = [worker EXCEPT ![w] = new]
    /\ UNCHANGED <<running, stop, accepting, backlog, ClientVars>>
Goto(w, stage) == Step(w, [worker[w] EXCEPT !.stage = stage])

At(w, stage) == worker[w].stage = stage
Conn(w) == worker[w].c

\* A waiting connection is taken, also when the server is stopping.
Pop(w) ==
    /\ At(w, "top") /\ queue # <<>>
    /\ Step(w, Serving(Head(queue)))
    /\ queue' = Tail(queue)
    /\ UNCHANGED <<active, stats, socket, inbox, outbox, Runtime>>

\* A worker ends at the head of its loop when it is asked to, or when nothing
\* waits and the server is stopping.
WorkerEnds(w) ==
    /\ At(w, "top") /\ (stop = "join" \/ (queue = <<>> /\ ~running))
    /\ Goto(w, "ended")
    /\ UNCHANGED <<queue, active, stats, socket, inbox, outbox, Runtime>>

\* Mutation of register_active: the socket is not remembered.
RegisterNot(w) ==
    /\ At(w, "popped") /\ Goto(w, "loop")
    /\ UNCHANGED <<queue, active, stats, socket, inbox, outbox, Runtime>>

register_active(w) ==
    /\ At(w, "popped") /\ Goto(w, "loop")
    /\ active' = active \cup {Conn(w)}
    /\ UNCHANGED <<queue, stats, socket, inbox, outbox, Runtime>>

\* The condition of the loop over frames.
Again(w) == IF running /\ worker[w].frames < MaxFrames THEN "read" ELSE "leave"

Loop(w) ==
    /\ At(w, "loop") /\ Goto(w, Again(w))
    /\ UNCHANGED <<queue, active, stats, socket, inbox, outbox, Runtime>>

\* A damaged frame is answered by an error, without the number of the request.
\* What had arrived before the socket was shut can still be read.
read_frame(w) ==
    /\ At(w, "read") /\ inbox[Conn(w)] # <<>>
    /\ LET r == Head(inbox[Conn(w)])
       IN  IF r.kind = "damaged" THEN Goto(w, "refuse")
           ELSE Step(w, [worker[w] EXCEPT !.stage = "handle", !.frames = @ + 1,
                                          !.request = r])
    /\ inbox' = [inbox EXCEPT ![Conn(w)] = Tail(@)]
    /\ UNCHANGED <<queue, active, stats, socket, outbox, Runtime>>

\* Mutation of ReadFails: no deadline is set on the socket.
ReadShut(w) ==
    /\ At(w, "read") /\ (socket[Conn(w)] = "shut" \/ client[Conn(w)] = "gone")
    /\ Goto(w, "leave")
    /\ UNCHANGED <<queue, active, stats, socket, inbox, outbox, Runtime>>

\* The socket was shut, the peer has gone, or the deadline passes.
ReadFails(w) ==
    /\ At(w, "read")
    /\ socket[Conn(w)] = "shut" \/ client[Conn(w)] = "gone" \/ inbox[Conn(w)] = <<>>
    /\ Goto(w, "leave")
    /\ UNCHANGED <<queue, active, stats, socket, inbox, outbox, Runtime>>

-----------------------------------------------------------------------------
(* RuntimeService::handle: the coordinate is read first, then the request  *)
(* is carried out.                                                         *)

\* A reply of the handler, with the generation in its header and the one its
\* contents were computed from, and an error reply, which has neither.
Reply(r, outcome, header, body) ==
    [n |-> r.n, kind |-> r.kind, since |-> r.since, outcome |-> outcome,
     header |-> header, body |-> body]
Error(r) == Reply(r, "error", 0, 0)

\* Frames are counted under stats_mutex; what cannot be decoded, or has another
\* version, is answered by an error and never reaches the handler.
HandleStatus(w) ==
    LET r == worker[w].request
    IN  /\ At(w, "handle") /\ stats = {}
        /\ IF r.kind = "malformed"
           THEN Step(w, [worker[w] EXCEPT !.stage = "write", !.reply = Error(r)])
           ELSE Step(w, [worker[w] EXCEPT !.stage = "operate",
                                          !.reply = Reply(r, "answer", version, version)])
        /\ UNCHANGED <<queue, active, stats, socket, inbox, outbox, Runtime>>

\* The reply is complete.
Replying(w, reply) ==
    /\ Step(w, [worker[w] EXCEPT !.stage = "write", !.reply = reply])
    /\ UNCHANGED <<queue, active, stats, socket, inbox, outbox>>

\* A request that is no command leaves the header as it was read.
Query(w) ==
    /\ At(w, "operate") /\ worker[w].request.kind \notin Commands
    /\ Replying(w, [worker[w].reply EXCEPT !.body = version])
    /\ UNCHANGED Runtime

\* Mutation of Commit: the header keeps the coordinate that was read first.
CommitUnderStatus(w) ==
    LET r == worker[w].request
    IN  /\ At(w, "operate") /\ r.kind \in Commands \ DOMAIN results
        /\ version' \in {version, version + 1}
        /\ results' = [k \in DOMAIN results \cup {r.kind} |->
                         IF k = r.kind THEN version' ELSE results[k]]
        /\ Replying(w, Reply(r, "done", worker[w].reply.header, version'))

\* apply() commits a command and records its result; a command that submits or
\* clears an observation leaves the generation as it is.
Commit(w) ==
    LET r == worker[w].request
    IN  /\ At(w, "operate") /\ r.kind \in Commands \ DOMAIN results
        /\ version' \in {version, version + 1}
        /\ results' = [k \in DOMAIN results \cup {r.kind} |->
                         IF k = r.kind THEN version' ELSE results[k]]
        /\ Replying(w, Reply(r, "done", version', version'))

\* A command that has a recorded result gets that result, whichever connection
\* it came by and whatever was committed since.
Duplicate(w) ==
    LET r == worker[w].request
    IN  /\ At(w, "operate") /\ r.kind \in DOMAIN results
        /\ Replying(w, Reply(r, "done", results[r.kind], results[r.kind]))
        /\ UNCHANGED Runtime

\* apply() refuses a command, with the generation it found.
Refusal(w) ==
    LET r == worker[w].request
    IN  /\ At(w, "operate") /\ r.kind \in Commands \ DOMAIN results
        /\ Replying(w, Reply(r, "answer", version, version))
        /\ UNCHANGED Runtime

Operate(w) == Query(w) \/ Commit(w) \/ Duplicate(w) \/ Refusal(w)

-----------------------------------------------------------------------------
(* Replies.                                                                *)

\* A write succeeds while the buffer has room, or when the peer is not yet known
\* to have gone.
CanWrite(c) == socket[c] = "open" /\ (Len(outbox[c]) < Room \/ client[c] = "gone")

\* It fails when the deadline passes with the buffer full.  When the socket was
\* shut or the peer has gone, send() fails, or the process is killed: no caller
\* of send() asks to be spared SIGPIPE.
PipeBroken(c) == socket[c] # "open" \/ client[c] = "gone"
CanFail(c) ==
    \/ socket[c] = "open" /\ Len(outbox[c]) >= Room
    \/ PipeBroken(c) /\ "error" \in BrokenPipe

Put(c, reply) ==
    outbox' = [outbox EXCEPT ![c] = IF client[c] = "gone" THEN @ ELSE Append(@, reply)]

Write(w) ==
    /\ At(w, "write") /\ CanWrite(Conn(w))
    /\ Put(Conn(w), worker[w].reply)
    /\ Goto(w, IF worker[w].request.kind = "bye" THEN "last" ELSE "next")
    /\ UNCHANGED <<queue, active, stats, socket, inbox, Runtime>>

WriteFails(w) ==
    /\ At(w, "write") /\ CanFail(Conn(w)) /\ Goto(w, "last")
    /\ UNCHANGED <<queue, active, stats, socket, inbox, outbox, Runtime>>

\* The server's process ends in a send.
Killed(w) ==
    /\ At(w, "write") \/ At(w, "refusing")
    /\ PipeBroken(Conn(w)) /\ "killed" \in BrokenPipe
    /\ stop' = "killed" /\ running' = FALSE /\ accepting' = "ended"
    /\ backlog' = <<>> /\ queue' = <<>>
    /\ worker' = [v \in Workers |-> [stage |-> "ended"]]
    /\ active' = {} /\ stats' = {}
    /\ socket' = [c \in Clients |-> "closed"]
    /\ UNCHANGED <<inbox, outbox, ClientVars, Runtime>>

\* The counters of a frame written, or not.
Count(w) ==
    /\ worker[w].stage \in {"next", "last"} /\ stats = {}
    /\ Step(w, [worker[w] EXCEPT !.stage = IF @ = "next" THEN Again(w) ELSE "leave",
                                 !.request = Nothing, !.reply = Nothing])
    /\ UNCHANGED <<queue, active, stats, socket, inbox, outbox, Runtime>>

\* What is known of a request that could not be read.
Damaged == [n |-> 0, kind |-> "damaged", since |-> 0]

\* The error reply is written with stats_mutex held.
Refuse(w) ==
    /\ At(w, "refuse") /\ stats = {}
    /\ stats' = {w} /\ Goto(w, "refusing")
    /\ UNCHANGED <<queue, active, socket, inbox, outbox, Runtime>>

\* Mutation of Refused: a failed write keeps the lock.
RefusedLocked(w) ==
    /\ At(w, "refusing") /\ Goto(w, "leave")
    /\ \/ CanWrite(Conn(w)) /\ Put(Conn(w), Error(Damaged))
             /\ stats' = {}
       \/ CanFail(Conn(w)) /\ UNCHANGED <<outbox, stats>>
    /\ UNCHANGED <<queue, active, socket, inbox, Runtime>>

Refused(w) ==
    /\ At(w, "refusing") /\ Goto(w, "leave")
    /\ \/ CanWrite(Conn(w)) /\ Put(Conn(w), Error(Damaged))
       \/ CanFail(Conn(w)) /\ UNCHANGED outbox
    /\ stats' = {}
    /\ UNCHANGED <<queue, active, socket, inbox, Runtime>>

\* unregister_active, then close.
Leave(w) ==
    /\ At(w, "leave") /\ Step(w, Resting)
    /\ active' = active \ {Conn(w)}
    /\ socket' = [socket EXCEPT ![Conn(w)] = "closed"]
    /\ UNCHANGED <<queue, stats, inbox, outbox, Runtime>>

Worker(w) ==
    \/ Pop(w) \/ WorkerEnds(w) \/ register_active(w) \/ Loop(w)
    \/ read_frame(w) \/ ReadFails(w) \/ HandleStatus(w) \/ Operate(w)
    \/ Write(w) \/ WriteFails(w) \/ Killed(w) \/ Count(w) \/ Refuse(w) \/ Refused(w)
    \/ Leave(w)

-----------------------------------------------------------------------------
(* stop(), with lifecycle_mutex held throughout.                           *)

StopBegin ==
    /\ stop = "up" /\ stop' = "accept"
    /\ running' = FALSE /\ backlog' = <<>>
    /\ UNCHANGED <<accepting, queue, worker, active, stats, socket, inbox, outbox, ClientVars,
                   Runtime>>

\* The accept thread is joined, then every active socket is shut.
shutdown_active ==
    /\ stop = "accept" /\ accepting = "ended" /\ stop' = "join"
    /\ socket' = [c \in Clients |-> IF c \in active THEN "shut" ELSE socket[c]]
    /\ UNCHANGED <<running, accepting, backlog, queue, worker, active, stats, inbox, outbox,
                   ClientVars, Runtime>>

\* The workers are joined, and connections nobody took are closed.
StopEnd ==
    /\ stop = "join" /\ \A w \in Workers : At(w, "ended")
    /\ stop' = "down" /\ queue' = <<>>
    /\ socket' = [c \in Clients |-> IF c \in Range(queue) THEN "closed" ELSE socket[c]]
    /\ UNCHANGED <<running, accepting, backlog, worker, active, stats, inbox, outbox, ClientVars,
                   Runtime>>

-----------------------------------------------------------------------------
Acceptor == Accept \/ AcceptCount \/ AcceptEnd

Next ==
    \/ \E c \in Clients : Client(c)
    \/ \E w \in Workers : Worker(w)
    \/ Acceptor \/ StopBegin \/ shutdown_active \/ StopEnd

Spec == Init /\ [][Next]_vars

\* Threads run on; io_timeout_ms bounds a read or write of a worker.  Clients
\* need not go on, and nobody need stop the server.
FairSpec ==
    /\ Spec
    /\ \A w \in Workers : WF_vars(Worker(w))
    /\ WF_vars(Acceptor) /\ WF_vars(shutdown_active) /\ WF_vars(StopEnd)

-----------------------------------------------------------------------------
(* Properties.                                                             *)

\* Replies reach a client in the order of its requests: a call never gets a reply
\* that was delivered before, one older than that, or one to a request still to
\* come, also when reads that ended inside a reply have swallowed others.  So
\* until a call on the connection fails, every call gets its own reply.
AnswersInOrder ==
    \A c \in Clients : \A k \in DOMAIN calls[c] : calls[c][k] # 0 =>
      /\ calls[c][k] <= k
      /\ \A j \in 1..(k - 1) : calls[c][j] < calls[c][k]
      /\ (\A j \in 1..(k - 1) : calls[c][j] # 0) => calls[c][k] = k

\* What a reply says of the runtime, given the results recorded so far.
Sound(reply, recorded) ==
    /\ reply.outcome = "answer" => reply.since <= reply.header /\ reply.header <= reply.body
    /\ reply.outcome = "done" =>
         reply.kind \in DOMAIN recorded /\ reply.header = recorded[reply.kind]

\* The coordinate in the header of an answer is at least that of the moment its
\* request was sent, and never ahead of what the body was computed from; every
\* reply that says a command is done carries the coordinate of its one commit,
\* on whichever connection and however late it was asked for again.
FreshCoordinate ==
    \A c \in Clients : \A k \in DOMAIN outbox[c] : Sound(outbox[c][k], results)

\* Once stop() waits for the workers, none is left in a read or a write that only
\* a deadline would end.
WokenByStop ==
    stop = "join" =>
      \A w \in Workers : worker[w].stage \in {"read", "write", "refusing"} =>
        socket[Conn(w)] = "shut"

\* A worker that has taken a connection comes back for the next one, however
\* silent its peer is and whoever holds stats_mutex, unless a send ends the process.
WorkersComeBack ==
    \A w \in Workers : At(w, "popped") ~> At(w, "top") \/ stop = "killed"

\* stop() returns, unless a send ends the process.
StopReturns == stop = "accept" ~> stop \in {"down", "killed"}

\* stop() "closes the listener, wakes and joins every connection thread, and
\* returns only after all of them have finished".
StopJoins == stop = "accept" ~> stop = "down"
=============================================================================
