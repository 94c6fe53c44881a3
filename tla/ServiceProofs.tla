--------------------------- MODULE ServiceProofs ---------------------------
(***************************************************************************)
(* What the server owes its clients and its own stop(), for any number of  *)
(* clients and workers.                                                    *)
(*                                                                         *)
(* A connection has one place at a time: not yet made, in the backlog, in  *)
(* the queue, or with one worker (PlaceInv).  So the request a worker has  *)
(* in hand is later than every one that was answered, and replies reach    *)
(* the client in that order whatever part of them it loses (NumberInv);    *)
(* replies are sound when they are written (FreshInv); and whoever is in   *)
(* the middle of a frame when the sockets are shut is on a socket that is  *)
(* shut (ShutInv).                                                         *)
(***************************************************************************)
EXTENDS Service, TLAPS

\* Leaves go to Zenon unless they cite another prover.
USE Zenon

\* The stages of a worker that has a connection; those in which the connection
\* is registered; those within a frame.
InFrame == {"read", "refuse", "handle", "operate", "write", "refusing", "next", "last"}
Registered == InFrame \cup {"loop", "leave"}
Busy == Registered \cup {"popped"}

\* The stages with a request in hand, and those with its reply.
Handling == {"handle", "operate", "write"}
Answering == {"operate", "write"}

Frames == [n: Nat, kind: Kinds, since: Nat]
Replies == [n: Nat, kind: Kinds, since: Nat, outcome: {"answer", "done", "error"},
            header: Nat, body: Nat]

Has(w, c) == worker[w].stage \in Busy /\ worker[w].c = c

Records == [stage: {"top", "ended"}]
BusyRecords == [stage: Busy, c: Clients, frames: Nat, request: Frames \cup {Nothing},
                reply: Replies \cup {Nothing}]

WorkerType ==
    /\ worker \in [Workers -> Records \cup BusyRecords]
    /\ \A w \in Workers :
         /\ worker[w].stage \in Handling => worker[w].request \in Frames
         /\ worker[w].stage \in Answering => worker[w].reply \in Replies

ServerType ==
    /\ running \in BOOLEAN
    /\ stop \in {"up", "accept", "join", "down", "killed"}
    /\ accepting \in {"accept", "count", "ended"}
    /\ backlog \in Seq(Clients) /\ queue \in Seq(Clients)
    /\ socket \in [Clients -> {"open", "shut", "closed"}]
    /\ version \in Nat /\ \A k \in DOMAIN results : results[k] \in Nat

ClientType ==
    /\ inbox \in [Clients -> Seq(Frames)] /\ outbox \in [Clients -> Seq(Replies)]
    /\ client \in [Clients -> {"new", "idle", "waiting", "closing", "gone"}]
    /\ sent \in [Clients -> Nat] /\ calls \in [Clients -> Seq(Nat)]

TypeInv == WorkerType /\ ServerType /\ ClientType

\* A connection has one place.
PlaceInv ==
    /\ \A i, j \in DOMAIN backlog : backlog[i] = backlog[j] => i = j
    /\ \A i, j \in DOMAIN queue : queue[i] = queue[j] => i = j
    /\ \A i \in DOMAIN backlog, j \in DOMAIN queue : backlog[i] # queue[j]
    /\ \A w \in Workers, i \in DOMAIN backlog : ~Has(w, backlog[i])
    /\ \A w \in Workers, i \in DOMAIN queue : ~Has(w, queue[i])
    /\ \A v, w \in Workers, c \in Clients : Has(v, c) /\ Has(w, c) => v = w
    /\ \A c \in Clients : client[c] = "new" =>
         /\ \A i \in DOMAIN backlog : backlog[i] # c
         /\ \A i \in DOMAIN queue : queue[i] # c
         /\ \A w \in Workers : ~Has(w, c)

\* A worker in the middle of a frame is registered, and its socket is shut once
\* stop() waits for the workers; no new frame is begun then.
ShutInv ==
    /\ stop # "up" => ~running
    /\ stop \in {"join", "down"} => accepting = "ended"
    /\ \A w \in Workers : worker[w].stage \in Registered => worker[w].c \in active
    /\ stop = "join" => \A w \in Workers : worker[w].stage \in InFrame =>
         socket[worker[w].c] = "shut"

\* Coordinates are read after the request was sent, and bodies not before them;
\* what a reply says of a command was recorded before.
FreshInv ==
    /\ \A c \in Clients : \A k \in DOMAIN inbox[c] : inbox[c][k].since <= version
    /\ \A w \in Workers : worker[w].stage \in Handling =>
         worker[w].request.since <= version
    /\ \A w \in Workers : worker[w].stage = "operate" =>
         LET r == worker[w].reply
         IN  r.outcome = "answer" /\ r.since <= r.header /\ r.header <= version
    /\ \A w \in Workers : worker[w].stage = "write" => Sound(worker[w].reply, results)
    /\ FreshCoordinate

\* The frames of c that were read.
Consumed(c) == sent[c] - Len(inbox[c])

\* Number n is that of no later request than the ones read, and later than what
\* c has had, and than the replies on their way before place k.
Later(c, n, k) ==
    /\ 0 < n /\ n <= Consumed(c)
    /\ \A j \in DOMAIN calls[c] : calls[c][j] < n
    /\ \A j \in DOMAIN outbox[c] : j < k => outbox[c][j].n < n

\* Frames are numbered in the order they were sent.  Replies on their way are in
\* that order and later than those received, and the request in hand is later
\* than all of them.
Numbered(c) ==
    /\ Consumed(c) >= 0
    /\ \A k \in DOMAIN inbox[c] : inbox[c][k].n = Consumed(c) + k
    /\ client[c] \in {"new", "idle"} => sent[c] = Len(calls[c])
    /\ client[c] \in {"waiting", "closing"} => sent[c] = Len(calls[c]) + 1
    /\ \A j \in DOMAIN calls[c] : calls[c][j] <= Consumed(c)
    /\ \A k \in DOMAIN outbox[c], n \in Nat \ {0} : n = outbox[c][k].n => Later(c, n, k)
    /\ \A w \in Workers : Has(w, c) =>
         /\ worker[w].stage \in Handling =>
              /\ worker[w].request.n = Consumed(c)
              /\ \A k, n \in Nat : n = worker[w].request.n => Later(c, n, k)
         /\ worker[w].stage \in Answering => worker[w].reply.n = worker[w].request.n

NumberInv == \A c \in Clients : Numbered(c)

ServiceInv == TypeInv /\ PlaceInv /\ ShutInv /\ FreshInv /\ NumberInv /\ AnswersInOrder
-----------------------------------------------------------------------------
(* Sequences.                                                              *)

\* The entries of a sequence.
LEMMA SeqFacts ==
    ASSUME NEW S, NEW s \in Seq(S)
    PROVE  /\ Len(s) \in Nat /\ DOMAIN s = 1 .. Len(s)
           /\ \A k \in DOMAIN s : s[k] \in S
BY SMT

\* push_back: one more entry behind the others.
LEMMA AppendFacts ==
    ASSUME NEW S, NEW s \in Seq(S), NEW e \in S
    PROVE  /\ Append(s, e) \in Seq(S) /\ Len(Append(s, e)) = Len(s) + 1
           /\ DOMAIN Append(s, e) = 1 .. Len(s) + 1
           /\ \A k \in 1 .. Len(s) : Append(s, e)[k] = s[k]
           /\ Append(s, e)[Len(s) + 1] = e
<1>1. Append(s, e) \in Seq(S) /\ Len(Append(s, e)) = Len(s) + 1
  BY SMT
<1> QED
  BY SMT, <1>1, SeqFacts

\* pop_front: every entry moves one place forward.
LEMMA TailFacts ==
    ASSUME NEW S, NEW s \in Seq(S), s # <<>>
    PROVE  /\ Head(s) \in S /\ Head(s) = s[1] /\ 1 \in DOMAIN s
           /\ Tail(s) \in Seq(S) /\ Len(Tail(s)) = Len(s) - 1
           /\ DOMAIN Tail(s) = 1 .. Len(s) - 1
           /\ \A k \in 1 .. Len(s) - 1 : Tail(s)[k] = s[k + 1]
<1>1. Tail(s) \in Seq(S) /\ Len(Tail(s)) = Len(s) - 1 /\ Len(s) \in Nat \ {0}
  BY SMT
<1> QED
  BY SMT, <1>1, SeqFacts

\* The empty sequence.
LEMMA EmptyFacts == /\ \A S : <<>> \in Seq(S)
                    /\ DOMAIN <<>> = {} /\ Len(<<>>) = 0
BY SMT

-----------------------------------------------------------------------------
(* Steps that touch neither a frame nor a connection's place.              *)

\* Everyone who has a connection has gathered all that is gathered on the way.
LEMMA BusyRecord ==
    ASSUME WorkerType, NEW w \in Workers, worker[w].stage \in Busy
    PROVE  worker[w] \in BusyRecords
BY DEF WorkerType, Records, Busy, Registered, InFrame

\* What the runtime has recorded stays recorded, and its generation only grows.
Recorded ==
    /\ version' \in Nat /\ version <= version'
    /\ DOMAIN results \subseteq DOMAIN results'
    /\ \A k \in DOMAIN results : results'[k] = results[k]

\* A worker goes on within its connection without touching a frame: it keeps its
\* request while it handles it, and what it has to answer answers that request.
QuietStep(w, new) ==
    /\ Step(w, new) /\ UNCHANGED <<queue, inbox, outbox>> /\ Recorded
    /\ new.stage \in Busy => worker[w].stage \in Busy /\ new.c = worker[w].c
    /\ new.stage \in Handling =>
         worker[w].stage \in Handling /\ new.request = worker[w].request
    /\ new.stage \in Answering => new.reply \in Replies /\ new.reply.n = new.request.n
    /\ new.stage = "operate" =>
         /\ new.reply.outcome = "answer"
         /\ new.reply.since <= new.reply.header /\ new.reply.header <= version'
    /\ new.stage = "write" => Sound(new.reply, results')

\* A sound reply stays sound.
LEMMA SoundStays ==
    ASSUME Recorded, NEW r, Sound(r, results)
    PROVE  Sound(r, results')
BY DEF Recorded, Sound

\* A later coordinate is as good.
LEMMA LaterVersion ==
    ASSUME ServerType, Recorded, NEW n \in Nat, n <= version
    PROVE  n <= version'
BY SMT DEF ServerType, Recorded

\* Connection c is left alone, but for its place and for a worker's steps that
\* keep the request in hand.
Stays(c) ==
    /\ inbox'[c] = inbox[c] /\ outbox'[c] = outbox[c]
    /\ sent'[c] = sent[c] /\ calls'[c] = calls[c]
    /\ client'[c] = client[c] \/ (client[c] = "new" /\ client'[c] = "idle")
    /\ \A v \in Workers : Has(v, c)' =>
         /\ worker'[v].stage \in Handling =>
              /\ Has(v, c) /\ worker[v].stage \in Handling
              /\ worker'[v].request = worker[v].request
         /\ worker'[v].stage \in Answering => worker'[v].reply.n = worker'[v].request.n

\* What is said of the numbers on a connection stays true of one left alone.
LEMMA NumberedStays ==
    ASSUME NEW c \in Clients, Numbered(c), Stays(c)
    PROVE  Numbered(c)'
<1>1. Consumed(c)' = Consumed(c)
  BY DEF Stays, Consumed
<1>2. ASSUME NEW n, NEW k, Later(c, n, k) PROVE Later(c, n, k)'
  BY <1>1, <1>2 DEF Stays, Later
<1>3. \A k \in DOMAIN outbox'[c], n \in Nat \ {0} : n = outbox'[c][k].n => Later(c, n, k)'
  BY <1>2 DEF Stays, Numbered
<1>4. \A v \in Workers : Has(v, c)' /\ worker'[v].stage \in Handling =>
          /\ worker'[v].request.n = Consumed(c)'
          /\ \A k, n \in Nat : n = worker'[v].request.n => Later(c, n, k)'
  BY <1>1, <1>2 DEF Stays, Numbered
<1>5. /\ client'[c] \in {"new", "idle"} => sent'[c] = Len(calls'[c])
      /\ client'[c] \in {"waiting", "closing"} => sent'[c] = Len(calls'[c]) + 1
  BY DEF Stays, Numbered
<1> QED
  BY <1>1, <1>3, <1>4, <1>5 DEF Numbered, Stays

\* A worker that only changes its stage.
LEMMA QuietStepKeeps ==
    ASSUME ServiceInv, NEW w \in Workers, NEW new \in Records \cup BusyRecords,
           QuietStep(w, new)
    PROVE  /\ WorkerType' /\ ClientType' /\ PlaceInv'
           /\ FreshInv' /\ NumberInv' /\ AnswersInOrder'
<1> USE DEF ServiceInv, TypeInv, QuietStep, Step, ClientVars
<1>0. /\ worker' = [worker EXCEPT ![w] = new] /\ worker \in [Workers -> Records \cup BusyRecords]
      /\ worker'[w] = new /\ \A v \in Workers \ {w} : worker'[v] = worker[v]
  BY DEF WorkerType
<1>1. WorkerType'
  BY <1>0 DEF WorkerType
<1>2. ClientType'
  BY DEF ClientType
<1>3. \A c \in Clients, v \in Workers : Has(v, c)' => Has(v, c)
  BY <1>0 DEF Has
<1>4. PlaceInv'
  BY SMT, <1>3 DEF PlaceInv, ServerType
<1>5. FreshInv'
  <2>1. ASSUME NEW c \in Clients, NEW k \in DOMAIN inbox'[c] PROVE inbox'[c][k].since <= version'
    <3>1. inbox[c] \in Seq(Frames) /\ k \in DOMAIN inbox[c]
      BY <2>1 DEF ClientType
    <3>2. inbox[c][k] \in Frames /\ inbox[c][k].since <= version
      BY <3>1, SeqFacts DEF FreshInv
    <3> QED
      BY <3>2, LaterVersion DEF Frames
  <2>2. \A v \in Workers : worker'[v].stage \in Handling => worker'[v].request.since <= version'
    BY <1>0, LaterVersion DEF FreshInv, WorkerType, Frames
  <2>3. ASSUME NEW v \in Workers, worker'[v].stage = "operate"
        PROVE  LET r == worker'[v].reply
               IN  r.outcome = "answer" /\ r.since <= r.header /\ r.header <= version'
    BY <1>0, <2>3, LaterVersion DEF FreshInv, WorkerType, Replies, Answering
  <2>4. \A v \in Workers : worker'[v].stage = "write" => Sound(worker'[v].reply, results')
    BY <1>0, SoundStays DEF FreshInv
  <2>5. FreshCoordinate'
    BY SoundStays DEF FreshInv, FreshCoordinate
  <2> QED
    BY <2>1, <2>2, <2>3, <2>4, <2>5 DEF FreshInv
<1>6. NumberInv'
  <2> SUFFICES ASSUME NEW c \in Clients PROVE Numbered(c)'
    BY DEF NumberInv
  <2>1. Numbered(c)
    BY DEF NumberInv
  <2>2. Stays(c)
    BY <1>0, <1>3, <2>1 DEF Stays, Numbered
  <2> QED
    BY <2>1, <2>2, NumberedStays
<1>7. AnswersInOrder'
  BY DEF AnswersInOrder
<1> QED
  BY <1>1, <1>2, <1>4, <1>5, <1>6, <1>7

\* The acceptor and stop() leave workers and frames alone, and take connections
\* that nobody has taken only away from each other.
LEMMA UntouchedKeeps ==
    ASSUME ServiceInv, UNCHANGED <<worker, inbox, outbox, ClientVars, Runtime>>
    PROVE  /\ WorkerType' /\ ClientType' /\ FreshInv' /\ NumberInv' /\ AnswersInOrder'
<1> USE DEF ServiceInv, TypeInv, ClientVars, Runtime
<1>1. WorkerType' /\ ClientType' /\ FreshInv' /\ AnswersInOrder'
  BY DEF WorkerType, ClientType, FreshInv, FreshCoordinate, AnswersInOrder
<1>2. \A c \in Clients : Numbered(c) => Stays(c)
  BY DEF Stays, Numbered, Has
<1>3. NumberInv'
  BY <1>2, NumberedStays DEF NumberInv
<1> QED
  BY <1>1, <1>3

-----------------------------------------------------------------------------
(* The acceptor and stop().                                                *)

\* The accept loop queues a connection, or closes one when the queue is full.
LEMMA AcceptKeeps ==
    ASSUME ServiceInv, Accept
    PROVE  ServiceInv'
<1> USE DEF ServiceInv, TypeInv, Accept, ClientVars, Runtime
<1>0. /\ backlog \in Seq(Clients) /\ queue \in Seq(Clients) /\ backlog # <<>>
      /\ backlog' = Tail(backlog)
  BY DEF ServerType
<1>q. Len(queue) \in Nat /\ DOMAIN queue = 1 .. Len(queue)
  BY <1>0, SeqFacts
<1>b. /\ Len(backlog) \in Nat /\ DOMAIN backlog = 1 .. Len(backlog) /\ 1 \in DOMAIN backlog
      /\ Head(backlog) \in Clients /\ Head(backlog) = backlog[1]
      /\ backlog' \in Seq(Clients) /\ DOMAIN backlog' = 1 .. Len(backlog) - 1
      /\ \A i \in 1 .. Len(backlog) - 1 : backlog'[i] = backlog[i + 1]
  BY SMT, <1>0, SeqFacts, TailFacts
<1>1. CASE Len(queue) < MaxConnections
  <2>q. queue' = Append(queue, Head(backlog)) /\ UNCHANGED socket
    BY <1>1
  <2>0. /\ queue' \in Seq(Clients) /\ DOMAIN queue' = 1 .. Len(queue) + 1
        /\ \A i \in 1 .. Len(queue) : queue'[i] = queue[i]
        /\ queue'[Len(queue) + 1] = backlog[1]
    BY SMT, <1>0, <1>b, <2>q, AppendFacts
  <2>1. ServerType'
    BY <1>b, <1>1, <2>0 DEF ServerType
  <2>3. \A v \in Workers, c \in Clients : Has(v, c)' = Has(v, c)
    BY DEF Has
  <2>4. PlaceInv'
    <3>1. \A i, j \in DOMAIN backlog' : backlog'[i] = backlog'[j] => i = j
      BY SMT, <1>b DEF PlaceInv
    <3>2. \A i, j \in DOMAIN queue' : queue'[i] = queue'[j] => i = j
      BY SMT, <1>b, <1>q, <2>0 DEF PlaceInv
    <3>3. \A i \in DOMAIN backlog', j \in DOMAIN queue' : backlog'[i] # queue'[j]
      BY SMT, <1>b, <1>q, <2>0 DEF PlaceInv
    <3>4. \A v \in Workers, i \in DOMAIN backlog' : ~Has(v, backlog[i + 1])
      BY SMT, <1>b DEF PlaceInv
    <3>5. \A v \in Workers, i \in DOMAIN queue' : ~Has(v, queue'[i])
      BY SMT, <1>b, <1>q, <2>0 DEF PlaceInv
    <3> QED
      BY SMTT(30), <3>1, <3>2, <3>3, <3>4, <3>5, <1>b, <1>q, <2>0 DEF PlaceInv, Has
  <2>5. ShutInv'
    BY <1>1 DEF ShutInv
  <2> QED
    BY <2>1, <2>4, <2>5, UntouchedKeeps
<1>2. CASE ~(Len(queue) < MaxConnections)
  <2>1. ServerType'
    BY <1>b, <1>2 DEF ServerType
  <2>3. \A v \in Workers, c \in Clients : Has(v, c)' = Has(v, c)
    BY DEF Has
  <2>4. PlaceInv'
    <3>1. \A i, j \in DOMAIN backlog' : backlog'[i] = backlog'[j] => i = j
      BY SMT, <1>b DEF PlaceInv
    <3>2. \A i \in DOMAIN backlog', j \in DOMAIN queue : backlog'[i] # queue[j]
      BY SMT, <1>b DEF PlaceInv
    <3>3. \A v \in Workers, i \in DOMAIN backlog' : ~Has(v, backlog[i + 1])
      BY SMT, <1>b DEF PlaceInv
    <3> QED
      BY SMT, <1>b, <1>2, <3>1, <3>2, <3>3 DEF PlaceInv, Has
  <2>5. ShutInv'
    BY <1>2 DEF ShutInv
  <2> QED
    BY <2>1, <2>4, <2>5, UntouchedKeeps
<1> QED
  BY <1>1, <1>2

\* The counter behind an accept, and the end of the accept loop.
LEMMA AcceptCountKeeps ==
    ASSUME ServiceInv, AcceptCount \/ AcceptEnd
    PROVE  ServiceInv'
<1> USE DEF ServiceInv, TypeInv, AcceptCount, AcceptEnd, ClientVars, Runtime
<1>1. ServerType' /\ ShutInv'
  BY SMT DEF ServerType, ShutInv
<1>3. PlaceInv'
  BY DEF PlaceInv, Has
<1> QED
  BY <1>1, <1>3, UntouchedKeeps

\* stop() clears the running flag and closes the listening socket.
LEMMA StopBeginKeeps ==
    ASSUME ServiceInv, StopBegin
    PROVE  ServiceInv'
<1> USE DEF ServiceInv, TypeInv, StopBegin, ClientVars, Runtime
<1>0. <<>> \in Seq(Clients) /\ DOMAIN <<>> = {}
  BY EmptyFacts
<1>1. ServerType' /\ ShutInv'
  BY <1>0 DEF ServerType, ShutInv
<1>3. PlaceInv'
  BY <1>0 DEF PlaceInv, Has
<1> QED
  BY <1>1, <1>3, UntouchedKeeps

\* Every registered connection is shut when stop() begins to wait.
LEMMA shutdown_activeKeeps ==
    ASSUME ServiceInv, shutdown_active
    PROVE  ServiceInv'
<1> USE DEF ServiceInv, TypeInv, shutdown_active, ClientVars, Runtime
<1>1. ServerType'
  BY DEF ServerType
<1>2. ShutInv'
  BY BusyRecord DEF ShutInv, Busy, Registered, BusyRecords
<1>4. PlaceInv'
  BY DEF PlaceInv, Has
<1> QED
  BY <1>1, <1>2, <1>4, UntouchedKeeps

\* stop() closes the connections nobody took and returns once the workers have
\* ended.
LEMMA StopEndKeeps ==
    ASSUME ServiceInv, StopEnd
    PROVE  ServiceInv'
<1> USE DEF ServiceInv, TypeInv, StopEnd, ClientVars, Runtime
<1>0. <<>> \in Seq(Clients) /\ DOMAIN <<>> = {}
  BY EmptyFacts
<1>1. ServerType' /\ ShutInv'
  BY <1>0 DEF ServerType, ShutInv
<1>3. PlaceInv'
  BY <1>0 DEF PlaceInv, Has
<1> QED
  BY <1>1, <1>3, UntouchedKeeps

-----------------------------------------------------------------------------
(* Workers.                                                                *)

\* A worker that goes on to a stage keeps what it has.
LEMMA GotoRecord ==
    ASSUME WorkerType, NEW w \in Workers, worker[w].stage \in Busy, NEW s \in Busy
    PROVE  LET new == [worker[w] EXCEPT !.stage = s]
           IN  /\ new \in BusyRecords /\ new.stage = s /\ new.c = worker[w].c
               /\ new.request = worker[w].request /\ new.reply = worker[w].reply
BY BusyRecord DEF BusyRecords

\* A step that leaves the runtime alone.
LEMMA StillRecorded ==
    ASSUME ServerType, UNCHANGED Runtime
    PROVE  Recorded
BY SMT DEF ServerType, Runtime, Recorded

\* A worker ends its loop once the server is stopping.
LEMMA WorkerEndsKeeps ==
    ASSUME ServiceInv, NEW w \in Workers, WorkerEnds(w)
    PROVE  ServiceInv'
<1> USE DEF ServiceInv, TypeInv, WorkerEnds
<1> DEFINE new == [worker[w] EXCEPT !.stage = "ended"]
<1>1. new \in Records /\ new.stage = "ended"
  BY DEF WorkerType, At, Records, BusyRecords, Busy, Registered, InFrame
<1>2. QuietStep(w, new)
  BY <1>1, StillRecorded DEF QuietStep, Goto, Busy, Registered, InFrame, Handling, Answering
<1>3. ServerType'
  BY DEF ServerType, Runtime, Goto, Step
<1>4. ShutInv'
  BY <1>1 DEF ShutInv, Goto, Step, WorkerType, Registered, InFrame
<1> QED
  BY <1>1, <1>2, <1>3, <1>4, QuietStepKeeps

\* A worker registers the connection it popped.
LEMMA register_activeKeeps ==
    ASSUME ServiceInv, NEW w \in Workers, register_active(w)
    PROVE  ServiceInv'
<1> USE DEF ServiceInv, TypeInv, register_active
<1> DEFINE new == [worker[w] EXCEPT !.stage = "loop"]
<1>1. /\ worker[w].stage = "popped" /\ new \in BusyRecords /\ new.stage = "loop"
      /\ new.c = worker[w].c
  BY GotoRecord DEF At, Busy, Registered
<1>2. QuietStep(w, new)
  BY <1>1, StillRecorded DEF QuietStep, Goto, Busy, Registered, InFrame, Handling, Answering
<1>3. ServerType'
  BY DEF ServerType, Runtime, Goto, Step
<1>4. ShutInv'
  BY SMT, <1>1 DEF ShutInv, Goto, Step, Conn, WorkerType, Registered, InFrame
<1> QED
  BY <1>1, <1>2, <1>3, <1>4, QuietStepKeeps

\* A worker enters the loop over frames, or leaves at once when stopping.
LEMMA LoopKeeps ==
    ASSUME ServiceInv, NEW w \in Workers, Loop(w)
    PROVE  ServiceInv'
<1> USE DEF ServiceInv, TypeInv, Loop
<1> DEFINE new == [worker[w] EXCEPT !.stage = Again(w)]
<1>0. /\ worker[w].stage = "loop" /\ worker[w].stage \in Busy /\ Again(w) \in Busy
      /\ Again(w) \in {"read", "leave"} /\ (Again(w) = "read" => running)
  BY DEF At, Again, Busy, Registered, InFrame
<1>1. /\ worker[w].stage = "loop" /\ new \in BusyRecords /\ new.stage = Again(w)
      /\ new.c = worker[w].c /\ Again(w) \in {"read", "leave"}
      /\ Again(w) = "read" => running
  BY <1>0, GotoRecord
<1>2. QuietStep(w, new)
  BY <1>1, StillRecorded DEF QuietStep, Goto, Busy, Registered, InFrame, Handling, Answering
<1>3. ServerType'
  BY DEF ServerType, Runtime, Goto, Step
<1>4. ShutInv'
  BY SMT, <1>1 DEF ShutInv, Goto, Step, WorkerType, Registered, InFrame
<1> QED
  BY <1>1, <1>2, <1>3, <1>4, QuietStepKeeps

\* A read that fails or times out ends the connection.
LEMMA ReadFailsKeeps ==
    ASSUME ServiceInv, NEW w \in Workers, ReadFails(w)
    PROVE  ServiceInv'
<1> USE DEF ServiceInv, TypeInv, ReadFails
<1> DEFINE new == [worker[w] EXCEPT !.stage = "leave"]
<1>1. /\ worker[w].stage = "read" /\ new \in BusyRecords /\ new.stage = "leave"
      /\ new.c = worker[w].c
  BY GotoRecord DEF At, Busy, Registered, InFrame
<1>2. QuietStep(w, new)
  BY <1>1, StillRecorded DEF QuietStep, Goto, Busy, Registered, InFrame, Handling, Answering
<1>3. ServerType'
  BY DEF ServerType, Runtime, Goto, Step
<1>4. ShutInv'
  BY SMT, <1>1 DEF ShutInv, Goto, Step, WorkerType, Registered, InFrame
<1> QED
  BY <1>1, <1>2, <1>3, <1>4, QuietStepKeeps

\* A frame is counted, and the coordinate read before the request is carried out;
\* what cannot be decoded is answered by an error.
LEMMA HandleStatusKeeps ==
    ASSUME ServiceInv, NEW w \in Workers, HandleStatus(w)
    PROVE  ServiceInv'
<1> USE DEF ServiceInv, TypeInv
<1>1. PICK r \in Frames : r = worker[w].request
  BY DEF HandleStatus, At, Handling, WorkerType
<1>2. /\ worker[w].stage = "handle" /\ worker[w] \in BusyRecords
      /\ r.since <= version /\ version \in Nat
      /\ UNCHANGED <<queue, active, stats, socket, inbox, outbox, Runtime>>
  BY <1>1, BusyRecord DEF HandleStatus, At, Busy, Registered, InFrame, Handling, FreshInv, ServerType
<1>3. PICK s \in {"write", "operate"}, reply \in Replies :
        /\ Step(w, [worker[w] EXCEPT !.stage = s, !.reply = reply])
        /\ reply.n = r.n
        /\ s = "write" => reply.outcome = "error"
        /\ s = "operate" =>
             reply.outcome = "answer" /\ reply.since <= reply.header /\ reply.header <= version
  <2>1. CASE r.kind = "malformed"
    <3>1. Error(r) \in Replies /\ Error(r).n = r.n /\ Error(r).outcome = "error"
      BY SMT DEF Error, Reply, Frames, Replies
    <3>2. Step(w, [worker[w] EXCEPT !.stage = "write", !.reply = Error(r)])
      BY <1>1, <2>1 DEF HandleStatus
    <3> QED
      BY <3>1, <3>2
  <2>2. CASE r.kind # "malformed"
    <3> DEFINE answer == Reply(r, "answer", version, version)
    <3>1. /\ answer \in Replies /\ answer.n = r.n /\ answer.outcome = "answer"
          /\ answer.since <= answer.header /\ answer.header <= version
      BY SMT, <1>2 DEF Reply, Frames, Replies
    <3>2. Step(w, [worker[w] EXCEPT !.stage = "operate", !.reply = answer])
      BY <1>1, <2>2 DEF HandleStatus
    <3> QED
      BY <3>1, <3>2
  <2> QED
    BY <2>1, <2>2
<1> DEFINE new == [worker[w] EXCEPT !.stage = s, !.reply = reply]
<1>4. /\ new \in BusyRecords /\ new.stage = s /\ new.c = worker[w].c
      /\ new.request = r /\ new.reply = reply
  BY <1>1, <1>2 DEF BusyRecords, Busy, Registered, InFrame
<1>5. QuietStep(w, new)
  <2>1. Recorded /\ version' = version
    BY <1>2, StillRecorded DEF Runtime
  <2>2. s = "write" => Sound(reply, results')
    BY <1>3 DEF Sound
  <2> QED
    BY <1>1, <1>2, <1>3, <1>4, <2>1, <2>2 DEF QuietStep, Busy, Registered, InFrame, Handling
<1>6. ServerType'
  BY <1>2, <1>3 DEF ServerType, Runtime, Step
<1>7. ShutInv'
  BY SMT, <1>2, <1>3, <1>4 DEF ShutInv, Step, WorkerType, Registered, InFrame
<1> QED
  BY <1>4, <1>5, <1>6, <1>7, QuietStepKeeps

\* A request was carried out and its reply is complete.
LEMMA ReplyingKeeps ==
    ASSUME ServiceInv, NEW w \in Workers, worker[w].stage = "operate", NEW reply \in Replies,
           Replying(w, reply), reply.n = worker[w].request.n, Sound(reply, results'),
           Recorded, \A k \in DOMAIN results' : results'[k] \in Nat
    PROVE  ServiceInv'
<1> USE DEF ServiceInv, TypeInv
<1> DEFINE new == [worker[w] EXCEPT !.stage = "write", !.reply = reply]
<1>1. Step(w, new) /\ UNCHANGED <<queue, active, stats, socket, inbox, outbox>>
  BY DEF Replying
<1>2. worker[w] \in BusyRecords
  BY BusyRecord DEF Busy, Registered, InFrame
<1>3. /\ new \in BusyRecords /\ new.stage = "write" /\ new.c = worker[w].c
      /\ new.request = worker[w].request /\ new.reply = reply
  BY <1>2 DEF BusyRecords, Busy, Registered, InFrame
<1>4. QuietStep(w, new)
  BY <1>1, <1>3 DEF QuietStep, Busy, Registered, InFrame, Handling
<1>5. ServerType'
  BY <1>1 DEF ServerType, Step, Recorded
<1>6. ShutInv'
  BY SMTT(30), <1>1, <1>3 DEF ShutInv, Step, WorkerType, Registered, InFrame
<1> QED
  BY <1>3, <1>4, <1>5, <1>6, QuietStepKeeps

\* What a worker has that carries out a request.
LEMMA Operating ==
    ASSUME ServiceInv, NEW w \in Workers, At(w, "operate")
    PROVE  /\ worker[w].stage = "operate" /\ version \in Nat
           /\ \A k \in DOMAIN results : results[k] \in Nat
           /\ worker[w].request \in Frames /\ worker[w].request.since <= version
           /\ worker[w].reply \in Replies /\ worker[w].reply.n = worker[w].request.n
           /\ worker[w].reply.outcome = "answer"
           /\ worker[w].reply.since <= worker[w].reply.header
           /\ worker[w].reply.header <= version
<1> USE DEF ServiceInv, TypeInv, At
<1>1. worker[w] \in BusyRecords
  BY BusyRecord DEF Busy, Registered, InFrame
<1>2. worker[w].reply.n = worker[w].request.n
  BY <1>1 DEF NumberInv, Numbered, Has, Answering, BusyRecords
<1> QED
  BY <1>2 DEF WorkerType, ServerType, FreshInv, Handling, Answering

\* A reply to a request.
LEMMA ReplyRecord ==
    ASSUME NEW r \in Frames, NEW o \in {"answer", "done"}, NEW h \in Nat
    PROVE  LET reply == Reply(r, o, h, h)
           IN  /\ reply \in Replies /\ reply.n = r.n /\ reply.since = r.since
               /\ reply.kind = r.kind /\ reply.outcome = o /\ reply.header = h /\ reply.body = h
BY DEF Reply, Frames, Replies

\* A query answers from the state it finds, under the coordinate read before.
LEMMA QueryKeeps ==
    ASSUME ServiceInv, NEW w \in Workers, Query(w)
    PROVE  ServiceInv'
<1>1. At(w, "operate") /\ UNCHANGED Runtime
  BY DEF Query
<1> DEFINE old == worker[w].reply
           new == [old EXCEPT !.body = version]
<1>2. /\ worker[w].stage = "operate" /\ version \in Nat /\ old \in Replies
      /\ old.n = worker[w].request.n /\ old.outcome = "answer"
      /\ old.since <= old.header /\ old.header <= version
      /\ \A k \in DOMAIN results : results[k] \in Nat
  BY <1>1, Operating
<1>3. /\ new \in Replies /\ new.n = old.n /\ new.outcome = old.outcome
      /\ new.since = old.since /\ new.header = old.header /\ new.body = version
  BY <1>2 DEF Replies
<1>4. Replying(w, new)
  BY DEF Query
<1> HIDE DEF new
<1>5. Sound(new, results')
  BY <1>2, <1>3 DEF Sound
<1>6. Recorded /\ results' = results
  BY <1>1, StillRecorded DEF ServiceInv, TypeInv, Runtime
<1> QED
  BY <1>2, <1>3, <1>4, <1>5, <1>6, ReplyingKeeps

\* A command is committed once, and its reply carries the generation recorded.
LEMMA CommitKeeps ==
    ASSUME ServiceInv, NEW w \in Workers, Commit(w)
    PROVE  ServiceInv'
<1>1. At(w, "operate") /\ version' \in {version, version + 1}
  BY DEF Commit
<1>2. /\ worker[w].stage = "operate" /\ version \in Nat /\ worker[w].request \in Frames
      /\ \A k \in DOMAIN results : results[k] \in Nat
  BY <1>1, Operating
<1>3. PICK r \in Frames : r = worker[w].request
  BY <1>2
<1>4. PICK v \in Nat : v = version' /\ version <= v
  BY SMT, <1>1, <1>2
<1>5. /\ r.kind \notin DOMAIN results /\ Replying(w, Reply(r, "done", v, v))
      /\ results' = [k \in DOMAIN results \cup {r.kind} |-> IF k = r.kind THEN v ELSE results[k]]
  BY <1>3, <1>4 DEF Commit
<1>6. /\ DOMAIN results' = DOMAIN results \cup {r.kind} /\ results'[r.kind] = v
      /\ \A k \in DOMAIN results : results'[k] = results[k]
  BY <1>5
<1>7. PICK reply \in Replies : /\ reply = Reply(r, "done", v, v)
                               /\ reply.n = r.n /\ reply.kind = r.kind
                               /\ reply.outcome = "done" /\ reply.header = v
  BY ReplyRecord
<1>8. Sound(reply, results')
  BY <1>6, <1>7 DEF Sound
<1>9. Recorded
  BY <1>4, <1>6 DEF Recorded
<1>10. \A k \in DOMAIN results' : results'[k] \in Nat
  BY <1>2, <1>6
<1> QED
  BY <1>2, <1>3, <1>5, <1>7, <1>8, <1>9, <1>10, ReplyingKeeps

\* A command asked for again gets the recorded result.
LEMMA DuplicateKeeps ==
    ASSUME ServiceInv, NEW w \in Workers, Duplicate(w)
    PROVE  ServiceInv'
<1>1. At(w, "operate") /\ UNCHANGED Runtime
  BY DEF Duplicate
<1>2. /\ worker[w].stage = "operate" /\ worker[w].request \in Frames
      /\ \A k \in DOMAIN results : results[k] \in Nat
  BY <1>1, Operating
<1>3. PICK r \in Frames : r = worker[w].request
  BY <1>2
<1>4. r.kind \in DOMAIN results /\ Replying(w, Reply(r, "done", results[r.kind], results[r.kind]))
  BY <1>3 DEF Duplicate
<1>5. PICK h \in Nat : h = results[r.kind]
  BY <1>2, <1>4
<1>6. PICK reply \in Replies : /\ reply = Reply(r, "done", h, h)
                               /\ reply.n = r.n /\ reply.kind = r.kind
                               /\ reply.outcome = "done" /\ reply.header = h
  BY ReplyRecord
<1>7. Recorded /\ results' = results
  BY <1>1, StillRecorded DEF ServiceInv, TypeInv, Runtime
<1>8. Sound(reply, results')
  BY <1>4, <1>5, <1>6, <1>7 DEF Sound
<1> QED
  BY <1>2, <1>3, <1>4, <1>5, <1>6, <1>7, <1>8, ReplyingKeeps

\* A refused command is answered with the generation it was refused at.
LEMMA RefusalKeeps ==
    ASSUME ServiceInv, NEW w \in Workers, Refusal(w)
    PROVE  ServiceInv'
<1>1. At(w, "operate") /\ UNCHANGED Runtime
  BY DEF Refusal
<1>2. /\ worker[w].stage = "operate" /\ version \in Nat /\ worker[w].request \in Frames
      /\ worker[w].request.since <= version /\ \A k \in DOMAIN results : results[k] \in Nat
  BY <1>1, Operating
<1>3. PICK r \in Frames : r = worker[w].request
  BY <1>2
<1>4. PICK reply \in Replies : /\ reply = Reply(r, "answer", version, version)
                               /\ reply.n = r.n /\ reply.since = r.since
                               /\ reply.outcome = "answer" /\ reply.header = version
                               /\ reply.body = version
  BY <1>2, ReplyRecord
<1>5. Replying(w, reply)
  BY <1>3, <1>4 DEF Refusal
<1>6. Recorded /\ results' = results
  BY <1>1, StillRecorded DEF ServiceInv, TypeInv, Runtime
<1>7. Sound(reply, results')
  BY SMT, <1>2, <1>3, <1>4 DEF Sound
<1> QED
  BY <1>2, <1>3, <1>4, <1>5, <1>6, <1>7, ReplyingKeeps

\* A write that fails ends the connection after it is counted.
LEMMA WriteFailsKeeps ==
    ASSUME ServiceInv, NEW w \in Workers, WriteFails(w)
    PROVE  ServiceInv'
<1> USE DEF ServiceInv, TypeInv, WriteFails
<1> DEFINE new == [worker[w] EXCEPT !.stage = "last"]
<1>1. /\ worker[w].stage = "write" /\ new \in BusyRecords /\ new.stage = "last"
      /\ new.c = worker[w].c
  BY GotoRecord DEF At, Busy, Registered, InFrame
<1>2. QuietStep(w, new)
  BY <1>1, StillRecorded DEF QuietStep, Goto, Busy, Registered, InFrame, Handling, Answering
<1>3. ServerType'
  BY DEF ServerType, Runtime, Goto, Step
<1>4. ShutInv'
  BY SMT, <1>1 DEF ShutInv, Goto, Step, WorkerType, Registered, InFrame
<1> QED
  BY <1>1, <1>2, <1>3, <1>4, QuietStepKeeps

\* A request is counted and the worker turns to the next one.
LEMMA CountKeeps ==
    ASSUME ServiceInv, NEW w \in Workers, Count(w)
    PROVE  ServiceInv'
<1> USE DEF ServiceInv, TypeInv, Count
<1> DEFINE new == [worker[w] EXCEPT !.stage = IF @ = "next" THEN Again(w) ELSE "leave",
                                    !.request = Nothing, !.reply = Nothing]
<1>1. worker[w].stage \in {"next", "last"} /\ worker[w] \in BusyRecords
  BY BusyRecord DEF Busy, Registered, InFrame
<1>2. /\ new \in BusyRecords /\ new.c = worker[w].c
      /\ new.stage \in {"read", "leave"}
      /\ new.stage = "read" => running /\ worker[w].stage = "next"
  BY <1>1 DEF Again, BusyRecords, Busy, Registered, InFrame
<1>3. QuietStep(w, new)
  BY <1>1, <1>2, StillRecorded DEF QuietStep, Busy, Registered, InFrame, Handling, Answering
<1>4. ServerType'
  BY DEF ServerType, Runtime, Step
<1>5. ShutInv'
  BY SMT, <1>1, <1>2 DEF ShutInv, Step, WorkerType, Registered, InFrame
<1> QED
  BY <1>2, <1>3, <1>4, <1>5, QuietStepKeeps

\* A damaged frame is about to be answered by an error, under stats_mutex.
LEMMA RefuseKeeps ==
    ASSUME ServiceInv, NEW w \in Workers, Refuse(w)
    PROVE  ServiceInv'
<1> USE DEF ServiceInv, TypeInv, Refuse
<1> DEFINE new == [worker[w] EXCEPT !.stage = "refusing"]
<1>1. /\ worker[w].stage = "refuse" /\ new \in BusyRecords /\ new.stage = "refusing"
      /\ new.c = worker[w].c
  BY GotoRecord DEF At, Busy, Registered, InFrame
<1>2. QuietStep(w, new)
  BY <1>1, StillRecorded DEF QuietStep, Goto, Busy, Registered, InFrame, Handling, Answering
<1>3. ServerType'
  BY DEF ServerType, Runtime, Goto, Step
<1>4. ShutInv'
  BY SMT, <1>1 DEF ShutInv, Goto, Step, WorkerType, Registered, InFrame
<1> QED
  BY <1>1, <1>2, <1>3, <1>4, QuietStepKeeps

\* A worker unregisters its connection and closes it.
LEMMA LeaveKeeps ==
    ASSUME ServiceInv, NEW w \in Workers, Leave(w)
    PROVE  ServiceInv'
<1> USE DEF ServiceInv, TypeInv, Leave
<1>1. worker[w].stage = "leave" /\ worker[w] \in BusyRecords
  BY BusyRecord DEF At, Busy, Registered
<1>2. Resting \in Records /\ Resting.stage = "top"
  BY DEF Resting, Records
<1>3. QuietStep(w, Resting)
  BY <1>1, <1>2, StillRecorded DEF QuietStep, Busy, Registered, InFrame, Handling, Answering
<1>4. ServerType'
  BY DEF ServerType, Runtime, Step
<1>5. \A v \in Workers \ {w} : worker[v].stage \in Registered => worker[v].c # Conn(w)
  BY <1>1 DEF PlaceInv, Has, Conn, BusyRecords, Busy, Registered
<1>6. ShutInv'
  BY SMT, <1>1, <1>2, <1>5 DEF ShutInv, Step, WorkerType, ServerType, Registered, InFrame
<1> QED
  BY <1>2, <1>3, <1>4, <1>6, QuietStepKeeps

\* A send ends the process: nobody has a connection any more.
LEMMA KilledKeeps ==
    ASSUME ServiceInv, NEW w \in Workers, Killed(w)
    PROVE  ServiceInv'
<1> USE DEF ServiceInv, TypeInv, Killed
<1>0. <<>> \in Seq(Clients) /\ DOMAIN <<>> = {}
  BY EmptyFacts
<1>1. worker' \in [Workers -> Records] /\ \A v \in Workers : worker'[v].stage = "ended"
  BY DEF Records
<1>2. WorkerType'
  BY <1>1 DEF WorkerType, Handling, Answering
<1>3. ServerType' /\ ClientType'
  BY <1>0 DEF ServerType, ClientType, ClientVars, Runtime
<1>4. \A v \in Workers, c \in Clients : ~Has(v, c)'
  BY <1>1 DEF Has, Busy, Registered, InFrame
<1>5. PlaceInv'
  BY <1>0, <1>4 DEF PlaceInv
<1>6. ShutInv'
  BY <1>1 DEF ShutInv, Registered, InFrame
<1>7. FreshInv'
  BY <1>1 DEF FreshInv, FreshCoordinate, Handling, Runtime
<1>8. NumberInv'
  <2> SUFFICES ASSUME NEW c \in Clients PROVE Numbered(c)'
    BY DEF NumberInv
  <2>1. Numbered(c)
    BY DEF NumberInv
  <2>2. Stays(c)
    BY <1>4 DEF Stays, ClientVars
  <2> QED
    BY <2>1, <2>2, NumberedStays
<1>9. AnswersInOrder'
  BY DEF AnswersInOrder, ClientVars
<1> QED
  BY <1>2, <1>3, <1>5, <1>6, <1>7, <1>8, <1>9

\* A waiting connection moves to a worker.
LEMMA PopKeeps ==
    ASSUME ServiceInv, NEW w \in Workers, Pop(w)
    PROVE  ServiceInv'
<1> USE DEF ServiceInv, TypeInv
<1> DEFINE h == Head(queue)
<1>0. /\ worker[w].stage = "top" /\ queue \in Seq(Clients) /\ queue # <<>>
      /\ queue' = Tail(queue) /\ worker' = [worker EXCEPT ![w] = Serving(h)]
      /\ UNCHANGED <<running, stop, accepting, backlog, client, sent, calls>>
      /\ UNCHANGED <<active, stats, socket, inbox, outbox, version, results>>
  BY DEF Pop, At, Step, ServerType, ClientVars, Runtime
<1>1. /\ Len(queue) \in Nat /\ DOMAIN queue = 1 .. Len(queue) /\ 1 \in DOMAIN queue
      /\ h \in Clients /\ h = queue[1] /\ queue' \in Seq(Clients)
      /\ DOMAIN queue' = 1 .. Len(queue) - 1
      /\ \A i \in 1 .. Len(queue) - 1 : queue'[i] = queue[i + 1]
  BY <1>0, SeqFacts, TailFacts
<1>2. /\ Serving(h) \in BusyRecords /\ Serving(h).c = h /\ Serving(h).stage = "popped"
  BY <1>1 DEF Serving, BusyRecords, Busy, Registered
<1>3. worker'[w] = Serving(h) /\ \A v \in Workers \ {w} : worker'[v] = worker[v]
  BY <1>0 DEF WorkerType
<1>4. WorkerType'
  BY <1>0, <1>2, <1>3 DEF WorkerType, Handling, Answering
<1>5. ServerType' /\ ClientType'
  BY <1>0, <1>1 DEF ServerType, ClientType
<1>6. \A v \in Workers, c \in Clients : Has(v, c)' <=> Has(v, c) \/ (v = w /\ c = h)
  BY <1>0, <1>2, <1>3 DEF Has, Busy, Registered, InFrame
<1>7. PlaceInv'
  <2>1. ASSUME NEW i \in DOMAIN queue', NEW j \in DOMAIN queue', queue'[i] = queue'[j]
        PROVE  i = j
    <3>1. /\ i \in Nat /\ i + 1 \in DOMAIN queue /\ queue'[i] = queue[i + 1]
          /\ j \in Nat /\ j + 1 \in DOMAIN queue /\ queue'[j] = queue[j + 1]
      BY SMT, <1>1
    <3>2. i + 1 = j + 1
      BY <2>1, <3>1 DEF PlaceInv
    <3> QED
      BY SMT, <3>1, <3>2
  <2>2. \A i \in DOMAIN backlog, j \in DOMAIN queue' : backlog[i] # queue'[j]
    BY SMT, <1>1 DEF PlaceInv
  <2>3. \A i \in DOMAIN backlog : backlog[i] \in Clients /\ backlog[i] # h
    BY <1>1, SeqFacts DEF PlaceInv, ServerType
  <2>4. \A i \in DOMAIN queue' : queue'[i] \in Clients /\ queue'[i] # h
    BY SMT, <1>1, SeqFacts DEF PlaceInv
  <2>5. \A v \in Workers, i \in DOMAIN backlog : ~Has(v, backlog[i])'
    BY <1>0, <1>6, <2>3 DEF PlaceInv
  <2>6. \A v \in Workers, i \in DOMAIN queue' : ~Has(v, queue[i + 1])
    BY SMT, <1>1 DEF PlaceInv
  <2>7. \A v \in Workers, i \in DOMAIN queue' : ~Has(v, queue[i])'
    BY <1>1, <1>6, <2>4, <2>6
  <2>8. \A u, v \in Workers, c \in Clients : Has(u, c)' /\ Has(v, c)' => u = v
    BY SMT, <1>1, <1>6 DEF PlaceInv
  <2>9. client[h] # "new"
    BY <1>1 DEF PlaceInv
  <2> QED
    BY SMT, <1>0, <1>1, <1>6, <2>1, <2>2, <2>5, <2>7, <2>8, <2>9 DEF PlaceInv
<1>8. ShutInv'
  BY SMT, <1>0, <1>2, <1>3 DEF ShutInv, Registered, InFrame
<1>9. FreshInv'
  BY <1>0, <1>2, <1>3 DEF FreshInv, FreshCoordinate, Handling, Answering
<1>10. NumberInv'
  <2> SUFFICES ASSUME NEW c \in Clients PROVE Numbered(c)'
    BY DEF NumberInv
  <2>1. Numbered(c)
    BY DEF NumberInv
  <2>2. \A v \in Workers : worker'[v].stage \in Handling \cup Answering =>
          worker'[v] = worker[v] /\ (Has(v, c)' => Has(v, c))
    BY <1>2, <1>3 DEF Has, Handling, Answering
  <2>3. Stays(c)
    BY <1>0, <2>1, <2>2 DEF Stays, Numbered
  <2> QED
    BY <2>1, <2>3, NumberedStays
<1>11. AnswersInOrder'
  BY <1>0 DEF AnswersInOrder
<1> QED
  BY <1>4, <1>5, <1>7, <1>8, <1>9, <1>10, <1>11

\* Worker w goes on with its connection d; no other connection is touched.
GoesOn(w, d, new) ==
    /\ Step(w, new) /\ UNCHANGED queue
    /\ worker[w].stage \in Busy /\ worker[w].c = d /\ new.c = d
    /\ \A c \in Clients \ {d} : inbox'[c] = inbox[c] /\ outbox'[c] = outbox[c]

\* A worker that goes on with its own connection disturbs no other.
LEMMA GoesOnKeeps ==
    ASSUME ServiceInv, NEW w \in Workers, NEW d \in Clients, NEW new \in BusyRecords,
           GoesOn(w, d, new)
    PROVE  /\ PlaceInv' /\ AnswersInOrder' /\ worker'[w] = new
           /\ \A v \in Workers \ {w} : worker'[v] = worker[v]
           /\ \A v \in Workers : Has(v, d)' => v = w
           /\ Has(w, d)
           /\ \A c \in Clients \ {d} : Numbered(c)'
<1> USE DEF ServiceInv, TypeInv, Step, GoesOn, ClientVars
<1>1. worker'[w] = new /\ \A v \in Workers \ {w} : worker'[v] = worker[v]
  BY DEF WorkerType
<1>2. \A v \in Workers, c \in Clients : Has(v, c)' = Has(v, c)
  BY <1>1 DEF Has, BusyRecords
<1>3. AnswersInOrder'
  BY DEF AnswersInOrder
<1>4. \A k \in DOMAIN backlog : backlog[k] \in Clients
  BY SeqFacts DEF ServerType
<1>5. \A k \in DOMAIN queue : queue[k] \in Clients
  BY SeqFacts DEF ServerType
<1>6. PlaceInv'
  BY SMT, <1>2, <1>4, <1>5 DEF PlaceInv
<1>7. Has(w, d)
  BY DEF Has
<1>8. \A v \in Workers : Has(v, d)' => v = w
  BY <1>2, <1>7 DEF PlaceInv
<1>9. ASSUME NEW c \in Clients \ {d} PROVE Numbered(c)'
  <2>1. Numbered(c)
    BY DEF NumberInv
  <2>2. \A v \in Workers : Has(v, c) => v # w /\ worker'[v] = worker[v]
    BY <1>1, <1>9 DEF Has
  <2>3. Stays(c)
    BY <1>2, <1>9, <2>1, <2>2 DEF Stays, Numbered
  <2> QED
    BY <2>1, <2>3, NumberedStays
<1> QED
  BY <1>1, <1>3, <1>6, <1>7, <1>8, <1>9

\* A worker that has read a frame.
LEMMA HandleRecord ==
    ASSUME NEW old \in BusyRecords, NEW r \in Frames
    PROVE  LET new == [old EXCEPT !.stage = "handle", !.frames = @ + 1, !.request = r]
           IN  new \in BusyRecords /\ new.stage = "handle" /\ new.c = old.c /\ new.request = r
<1>1. PICK f \in Nat : f = old.frames + 1
  BY SMT DEF BusyRecords
<1> DEFINE new == [old EXCEPT !.stage = "handle", !.frames = f, !.request = r]
<1>2. new \in BusyRecords /\ new.stage = "handle" /\ new.c = old.c /\ new.request = r
  BY DEF BusyRecords, Busy, Registered, InFrame
<1> QED
  BY <1>1, <1>2

\* A frame is read, or refused: the worker has in hand the one frame that is read
\* and not answered.
LEMMA read_frameKeeps ==
    ASSUME ServiceInv, NEW w \in Workers, read_frame(w)
    PROVE  ServiceInv'
<1> USE DEF ServiceInv, TypeInv
<1>1. worker[w].stage = "read" /\ worker[w].stage \in Busy /\ worker[w] \in BusyRecords
  BY BusyRecord DEF read_frame, At, Busy, Registered, InFrame
<1>2. PICK d \in Clients : d = worker[w].c
  BY <1>1 DEF BusyRecords
<1> DEFINE new(r) == IF r.kind = "damaged" THEN [worker[w] EXCEPT !.stage = "refuse"]
                     ELSE [worker[w] EXCEPT !.stage = "handle", !.frames = @ + 1, !.request = r]
<1>3. /\ inbox[d] # <<>> /\ Step(w, new(Head(inbox[d])))
      /\ inbox' = [inbox EXCEPT ![d] = Tail(@)]
      /\ UNCHANGED <<queue, active, stats, socket, outbox, version, results>>
  BY <1>2 DEF read_frame, Conn, Goto, Runtime
<1>4. inbox[d] \in Seq(Frames)
  BY DEF ClientType
<1>5. PICK r \in Frames : r = Head(inbox[d])
  BY <1>3, <1>4, TailFacts
<1>6. /\ r = inbox[d][1] /\ 1 \in DOMAIN inbox[d]
      /\ Len(inbox[d]) \in Nat /\ DOMAIN inbox[d] = 1 .. Len(inbox[d])
      /\ inbox'[d] = Tail(inbox[d]) /\ \A c \in Clients \ {d} : inbox'[c] = inbox[c]
  BY <1>3, <1>4, <1>5, TailFacts, SeqFacts DEF ClientType
<1>7. /\ inbox'[d] \in Seq(Frames) /\ Len(inbox'[d]) = Len(inbox[d]) - 1
      /\ DOMAIN inbox'[d] = 1 .. Len(inbox[d]) - 1
      /\ \A k \in 1 .. Len(inbox[d]) - 1 : inbox'[d][k] = inbox[d][k + 1]
  <2>1. /\ Tail(inbox[d]) \in Seq(Frames) /\ Len(Tail(inbox[d])) = Len(inbox[d]) - 1
        /\ DOMAIN Tail(inbox[d]) = 1 .. Len(inbox[d]) - 1
        /\ \A k \in 1 .. Len(inbox[d]) - 1 : Tail(inbox[d])[k] = inbox[d][k + 1]
    BY <1>3, <1>4, TailFacts
  <2> QED
    BY <1>6, <2>1
<1>8. PICK after \in BusyRecords :
        /\ Step(w, after) /\ after.c = d /\ after.stage \in {"refuse", "handle"}
        /\ after.stage = "handle" => after.request = r
  <2>0. Step(w, new(r))
    BY <1>3, <1>5
  <2>1. CASE r.kind = "damaged"
    <3> DEFINE a == [worker[w] EXCEPT !.stage = "refuse"]
    <3>1. a \in BusyRecords /\ a.stage = "refuse" /\ a.c = d
      BY <1>1, <1>2, GotoRecord DEF Busy, Registered, InFrame
    <3>2. Step(w, a)
      BY <2>0, <2>1
    <3> QED
      BY <3>1, <3>2
  <2>2. CASE r.kind # "damaged"
    <3> DEFINE a == [worker[w] EXCEPT !.stage = "handle", !.frames = @ + 1, !.request = r]
    <3>1. a \in BusyRecords /\ a.stage = "handle" /\ a.c = d /\ a.request = r
      BY <1>1, <1>2, HandleRecord
    <3>2. Step(w, a)
      BY <2>0, <2>2
    <3> QED
      BY <3>1, <3>2
  <2> QED
    BY <2>1, <2>2
<1>9. GoesOn(w, d, after)
  BY <1>1, <1>2, <1>3, <1>6, <1>8 DEF GoesOn
<1>10. /\ PlaceInv' /\ AnswersInOrder' /\ worker'[w] = after
       /\ \A v \in Workers \ {w} : worker'[v] = worker[v]
       /\ \A v \in Workers : Has(v, d)' => v = w
       /\ Has(w, d)
       /\ \A c \in Clients \ {d} : Numbered(c)'
  BY <1>9, GoesOnKeeps
<1>11. WorkerType'
  BY <1>8, <1>10 DEF WorkerType, Step, Handling, Answering
<1>12. ServerType'
  BY <1>3, <1>8 DEF ServerType, Step
<1>13. ClientType'
  BY <1>3, <1>7, <1>8 DEF ClientType, Step, ClientVars
<1>14. ShutInv'
  BY SMT, <1>1, <1>2, <1>3, <1>8, <1>10 DEF ShutInv, Step, Registered, InFrame
<1>15. FreshInv'
  <2>1. \A k \in DOMAIN inbox'[d] : k + 1 \in DOMAIN inbox[d] /\ inbox'[d][k] = inbox[d][k + 1]
    BY SMT, <1>6, <1>7
  <2>2. \A c \in Clients : \A k \in DOMAIN inbox'[c] : inbox'[c][k].since <= version
    BY <1>6, <2>1 DEF FreshInv
  <2>3. r.since <= version
    BY <1>6 DEF FreshInv
  <2> QED
    BY <1>3, <1>8, <1>10, <2>2, <2>3 DEF FreshInv, FreshCoordinate, Handling, Answering
<1>16. Numbered(d)'
  <2>0. /\ Numbered(d) /\ sent[d] \in Nat /\ sent' = sent /\ calls' = calls /\ client' = client
        /\ outbox' = outbox
    BY <1>3, <1>8 DEF NumberInv, ClientType, Step, ClientVars
  <2>1. /\ Consumed(d)' = Consumed(d) + 1 /\ Consumed(d) \in Nat
    BY SMT, <1>3, <1>6, <1>7, <2>0 DEF Consumed, Numbered
  <2>2. \A k \in DOMAIN inbox'[d] : inbox'[d][k].n = Consumed(d)' + k
    <3> SUFFICES ASSUME NEW k \in 1 .. Len(inbox[d]) - 1
                 PROVE  inbox[d][k + 1].n = Consumed(d) + 1 + k
      BY <1>7, <2>1
    <3>1. k + 1 \in DOMAIN inbox[d]
      BY SMT, <1>6
    <3>2. inbox[d][k + 1].n = Consumed(d) + (k + 1)
      BY <2>0, <3>1 DEF Numbered
    <3> QED
      BY SMT, <1>6, <2>1, <3>2
  <2>3. r.n = Consumed(d)'
    BY <1>6, <2>0, <2>1 DEF Numbered
  <2>4. \A j \in DOMAIN calls[d] :
          calls[d][j] \in Nat /\ calls[d][j] <= Consumed(d)' /\ calls[d][j] < Consumed(d)'
    <3>1. \A j \in DOMAIN calls[d] : calls[d][j] \in Nat /\ calls[d][j] <= Consumed(d)
      BY <2>0, SeqFacts DEF Numbered, ClientType
    <3> QED
      BY SMT, <2>1, <3>1
  <2>5. ASSUME NEW k \in DOMAIN outbox[d], NEW n \in Nat, n = outbox[d][k].n
        PROVE  /\ n # 0 => Later(d, n, k)'
               /\ n < Consumed(d)'
    <3>1. n # 0 => Later(d, n, k)
      BY <2>0, <2>5 DEF Numbered
    <3>2. n # 0 => n <= Consumed(d)
      BY <3>1 DEF Later
    <3>3. n <= Consumed(d)' /\ n < Consumed(d)'
      BY SMT, <2>1, <3>2
    <3> QED
      BY <2>0, <3>1, <3>3 DEF Later
  <2>6. ASSUME NEW k \in Nat PROVE Later(d, r.n, k)'
    <3>1. 0 < Consumed(d)' /\ Consumed(d)' <= Consumed(d)'
      BY SMT, <2>1
    <3>2. \A j \in DOMAIN outbox[d] : outbox[d][j].n < Consumed(d)'
      <4>1. outbox[d] \in Seq(Replies)
        BY DEF ClientType
      <4>2. \A j \in DOMAIN outbox[d] : outbox[d][j].n \in Nat
        <5>1. \A j \in DOMAIN outbox[d] : outbox[d][j] \in Replies
          BY <4>1, SeqFacts
        <5> QED
          BY <5>1 DEF Replies
      <4> QED
        BY <2>5, <4>2
    <3> QED
      BY <2>0, <2>3, <2>4, <3>1, <3>2 DEF Later
  <2>7. \A v \in Workers : Has(v, d)' => worker'[v] = after
    BY <1>10
  <2>8. Consumed(d)' >= 0
    BY SMT, <2>1
  <2>9. \A k \in DOMAIN outbox'[d], n \in Nat \ {0} : n = outbox'[d][k].n => Later(d, n, k)'
    BY <2>0, <2>5
  <2>10. \A v \in Workers : Has(v, d)' =>
          /\ worker'[v].stage \in Handling =>
               /\ worker'[v].request.n = Consumed(d)'
               /\ \A k, n \in Nat : n = worker'[v].request.n => Later(d, n, k)'
          /\ worker'[v].stage \notin Answering
    BY <1>8, <2>3, <2>6, <2>7 DEF Handling, Answering
  <2> QED
    BY <2>0, <2>2, <2>4, <2>8, <2>9, <2>10 DEF Numbered
<1> QED
  BY <1>10, <1>11, <1>12, <1>13, <1>14, <1>15, <1>16 DEF NumberInv

\* A reply is put on the connection: it answers the frame in hand, or none.
PutStep(w, new, reply) ==
    /\ Step(w, new) /\ Put(Conn(w), reply)
    /\ UNCHANGED <<queue, active, socket, inbox, Runtime>>
    /\ new.c = worker[w].c /\ reply \in Replies /\ Sound(reply, results)
    /\ \/ /\ worker[w].stage = "write" /\ reply.n = worker[w].request.n
          /\ new.stage \in {"next", "last"}
       \/ worker[w].stage = "refusing" /\ reply.n = 0 /\ new.stage = "leave"

\* A reply put on the wire is later than all its client has had or has coming.
LEMMA PutStepKeeps ==
    ASSUME ServiceInv, NEW w \in Workers, NEW new \in BusyRecords, NEW reply,
           PutStep(w, new, reply)
    PROVE  ServiceInv'
<1> USE DEF ServiceInv, TypeInv
<1>1. /\ worker[w].stage \in {"write", "refusing"} /\ worker[w].stage \in Busy
      /\ worker[w] \in BusyRecords
  BY BusyRecord DEF PutStep, Busy, Registered, InFrame
<1>2. PICK d \in Clients : d = worker[w].c
  BY <1>1 DEF BusyRecords
<1> DEFINE put == IF client[d] = "gone" THEN outbox[d] ELSE Append(outbox[d], reply)
<1>3. /\ Step(w, new) /\ outbox' = [outbox EXCEPT ![d] = put]
      /\ UNCHANGED <<queue, active, socket, inbox, version, results>>
      /\ new.c = d /\ new.stage \in {"next", "last", "leave"} /\ reply \in Replies
      /\ Sound(reply, results)
  BY <1>2 DEF PutStep, Put, Conn, Runtime
<1>4. /\ outbox[d] \in Seq(Replies) /\ Len(outbox[d]) \in Nat
      /\ DOMAIN outbox[d] = 1 .. Len(outbox[d])
  BY SeqFacts DEF ClientType
<1>5. /\ outbox'[d] = put /\ \A c \in Clients \ {d} : outbox'[c] = outbox[c]
  BY <1>3 DEF ClientType
<1>6. client[d] # "gone" =>
      /\ put \in Seq(Replies) /\ Len(put) = Len(outbox[d]) + 1
      /\ DOMAIN put = 1 .. Len(outbox[d]) + 1
      /\ \A k \in 1 .. Len(outbox[d]) : put[k] = outbox[d][k]
      /\ put[Len(outbox[d]) + 1] = reply
  BY SMT, <1>3, <1>4, AppendFacts
<1>7. client[d] = "gone" => put = outbox[d]
  OBVIOUS
<1> HIDE DEF put
<1>8. GoesOn(w, d, new)
  BY <1>1, <1>2, <1>3, <1>5 DEF GoesOn
<1>9. /\ PlaceInv' /\ AnswersInOrder' /\ worker'[w] = new
      /\ \A v \in Workers \ {w} : worker'[v] = worker[v]
      /\ \A v \in Workers : Has(v, d)' => v = w
      /\ Has(w, d)
      /\ \A c \in Clients \ {d} : Numbered(c)'
  BY <1>8, GoesOnKeeps
<1>10. WorkerType'
  BY <1>3, <1>9 DEF WorkerType, Step, Handling, Answering
<1>11. ServerType'
  BY <1>3 DEF ServerType, Step
<1>12. ClientType'
  BY <1>3, <1>4, <1>6, <1>7 DEF ClientType, Step, ClientVars
<1>13. ShutInv'
  BY SMTT(30), <1>1, <1>2, <1>3, <1>9 DEF ShutInv, Step, Registered, InFrame
<1>14. \A k \in DOMAIN put :
         \/ k \in DOMAIN outbox[d] /\ put[k] = outbox[d][k]
         \/ k = Len(outbox[d]) + 1 /\ put[k] = reply
  BY SMT, <1>4, <1>6, <1>7
<1>15. FreshInv'
  <2>1. \A k \in DOMAIN put : Sound(put[k], results)
    BY <1>3, <1>14 DEF FreshInv, FreshCoordinate
  <2>2. \A c \in Clients : \A k \in DOMAIN outbox'[c] : Sound(outbox'[c][k], results)
    BY <1>5, <2>1 DEF FreshInv, FreshCoordinate
  <2> QED
    BY <1>3, <1>9, <2>2 DEF FreshInv, FreshCoordinate, Handling
<1>16. Numbered(d)'
  <2>0. /\ Numbered(d) /\ client' = client /\ calls' = calls /\ sent' = sent
        /\ \A v \in Workers : Has(v, d)' => worker'[v] = new
    BY <1>3, <1>9 DEF NumberInv, Step, ClientVars
  <2>1. Consumed(d)' = Consumed(d) /\ inbox' = inbox
    BY <1>3, <2>0 DEF Consumed
  <2>2. ASSUME NEW n \in Nat \ {0}, n = reply.n PROVE Later(d, n, Len(outbox[d]) + 1)
    <3>1. worker[w].stage \in Handling /\ n = worker[w].request.n /\ n \in Nat
      BY <2>2 DEF PutStep, Handling
    <3>2. Len(outbox[d]) + 1 \in Nat
      BY SMT, <1>4
    <3> QED
      BY <1>9, <2>0, <3>1, <3>2 DEF Numbered
  <2>3. ASSUME NEW n, NEW k \in DOMAIN put, Later(d, n, k) PROVE Later(d, n, k)'
    <3>1. ASSUME NEW j \in DOMAIN put, j < k PROVE j \in DOMAIN outbox[d] /\ put[j] = outbox[d][j]
      BY SMT, <1>4, <1>6, <1>7, <2>3, <3>1
    <3> QED
      BY <1>5, <2>0, <2>1, <2>3, <3>1 DEF Later
  <2>4. ASSUME NEW k \in DOMAIN put, NEW n \in Nat \ {0}, n = put[k].n PROVE Later(d, n, k)'
    <3>1. Later(d, n, k)
      BY <1>14, <2>0, <2>2, <2>4 DEF Numbered
    <3> QED
      BY <2>3, <3>1
  <2> QED
    BY <1>3, <1>5, <2>0, <2>1, <2>4 DEF Numbered, Handling, Answering
<1> QED
  BY <1>9, <1>10, <1>11, <1>12, <1>13, <1>15, <1>16 DEF NumberInv

\* The reply to a request is written.
LEMMA WriteKeeps ==
    ASSUME ServiceInv, NEW w \in Workers, Write(w)
    PROVE  ServiceInv'
<1> USE DEF ServiceInv, TypeInv, Write
<1> DEFINE s == IF worker[w].request.kind = "bye" THEN "last" ELSE "next"
           new == [worker[w] EXCEPT !.stage = s]
<1>1. worker[w].stage = "write" /\ worker[w].stage \in Busy /\ s \in Busy /\ s \in {"next", "last"}
  BY DEF At, Busy, Registered, InFrame
<1>2. /\ new \in BusyRecords /\ new.stage = s /\ new.c = worker[w].c
  BY <1>1, GotoRecord
<1>3. worker[w].reply \in Replies /\ Sound(worker[w].reply, results)
  BY <1>1 DEF WorkerType, FreshInv, Answering
<1>4. worker[w].reply.n = worker[w].request.n
  BY <1>1, BusyRecord DEF NumberInv, Numbered, Has, Answering, BusyRecords
<1>5. PutStep(w, new, worker[w].reply)
  BY <1>1, <1>2, <1>3, <1>4 DEF PutStep, Goto
<1> QED
  BY <1>2, <1>5, PutStepKeeps

\* The error that answers a refused frame is written.
LEMMA RefusedKeeps ==
    ASSUME ServiceInv, NEW w \in Workers, Refused(w)
    PROVE  ServiceInv'
<1> USE DEF ServiceInv, TypeInv, Refused
<1> DEFINE new == [worker[w] EXCEPT !.stage = "leave"]
           error == Error(Damaged)
<1>1. /\ worker[w].stage = "refusing" /\ worker[w].stage \in Busy
      /\ new \in BusyRecords /\ new.stage = "leave" /\ new.c = worker[w].c
  BY GotoRecord DEF At, Busy, Registered, InFrame
<1>2. CASE Put(Conn(w), error)
  <2>1. error \in Replies /\ error.n = 0 /\ error.outcome = "error"
    BY SMT DEF Error, Reply, Damaged, Replies, Kinds
  <2>2. PutStep(w, new, error)
    BY <1>1, <1>2, <2>1 DEF PutStep, Goto, Sound
  <2> QED
    BY <1>1, <2>2, PutStepKeeps
<1>3. CASE UNCHANGED outbox
  <2>1. QuietStep(w, new)
    BY <1>1, <1>3, StillRecorded DEF QuietStep, Goto, Handling, Answering
  <2>2. ServerType'
    BY DEF ServerType, Runtime, Goto, Step
  <2>3. ShutInv'
    BY SMT, <1>1 DEF ShutInv, Goto, Step, WorkerType, Registered, InFrame
  <2> QED
    BY <1>1, <2>1, <2>2, <2>3, QuietStepKeeps
<1> QED
  BY <1>2, <1>3

-----------------------------------------------------------------------------
(* Clients.                                                                *)

\* A client connects and waits in the backlog.
LEMMA connectKeeps ==
    ASSUME ServiceInv, NEW c \in Clients, connect(c)
    PROVE  ServiceInv'
<1> USE DEF ServiceInv, TypeInv, connect, Runtime
<1>0. backlog \in Seq(Clients) /\ backlog' = Append(backlog, c)
  BY DEF ServerType
<1>1. /\ Len(backlog) \in Nat /\ DOMAIN backlog = 1 .. Len(backlog)
      /\ backlog' \in Seq(Clients) /\ DOMAIN backlog' = 1 .. Len(backlog) + 1
      /\ \A i \in 1 .. Len(backlog) : backlog'[i] = backlog[i]
      /\ backlog'[Len(backlog) + 1] = c
  BY SMT, <1>0, AppendFacts, SeqFacts
<1>2. /\ client'[c] = "idle" /\ \A d \in Clients \ {c} : client'[d] = client[d]
      /\ client \in [Clients -> {"new", "idle", "waiting", "closing", "gone"}]
  BY DEF ClientType
<1>3. TypeInv'
  BY <1>1 DEF WorkerType, ServerType, ClientType
<1>4. PlaceInv'
  <2>1. \A i, j \in DOMAIN backlog' : backlog'[i] = backlog'[j] => i = j
    BY SMT, <1>1 DEF PlaceInv
  <2>2. \A i \in DOMAIN backlog', j \in DOMAIN queue : backlog'[i] # queue[j]
    BY SMT, <1>1 DEF PlaceInv
  <2>3. \A v \in Workers, i \in DOMAIN backlog' : ~Has(v, backlog'[i])
    BY SMT, <1>1 DEF PlaceInv
  <2>4. \A d \in Clients : client'[d] = "new" => client[d] = "new" /\ d # c
    BY <1>2
  <2>5. \A d \in Clients : client'[d] = "new" => \A i \in DOMAIN backlog' : backlog'[i] # d
    BY SMT, <1>1, <2>4 DEF PlaceInv
  <2> QED
    BY <2>1, <2>2, <2>3, <2>4, <2>5 DEF PlaceInv, Has
<1>5. ShutInv' /\ FreshInv' /\ AnswersInOrder'
  BY DEF ShutInv, FreshInv, FreshCoordinate, AnswersInOrder
<1>6. NumberInv'
  <2> SUFFICES ASSUME NEW d \in Clients PROVE Numbered(d)'
    BY DEF NumberInv
  <2>1. Numbered(d)
    BY DEF NumberInv
  <2>2. Stays(d)
    BY <1>2, <2>1 DEF Stays, Numbered, Has
  <2> QED
    BY <2>1, <2>2, NumberedStays
<1> QED
  BY <1>3, <1>4, <1>5, <1>6

\* A step of client c alone: the connection keeps its place, and no other is
\* touched.
ClientStep(c) ==
    /\ client[c] # "new" /\ client'[c] # "new" /\ UNCHANGED ServerVars
    /\ \A d \in Clients \ {c} :
         /\ inbox'[d] = inbox[d] /\ outbox'[d] = outbox[d]
         /\ client'[d] = client[d] /\ sent'[d] = sent[d] /\ calls'[d] = calls[d]

\* A step of one client leaves the server and the other clients alone.
LEMMA ClientStepKeeps ==
    ASSUME ServiceInv, NEW c \in Clients, ClientStep(c)
    PROVE  /\ WorkerType' /\ ServerType' /\ PlaceInv' /\ ShutInv'
           /\ \A v \in Workers : Has(v, c)' = Has(v, c)
           /\ \A d \in Clients \ {c} : Numbered(d)'
<1> USE DEF ServiceInv, TypeInv, ClientStep, ServerVars
<1>1. WorkerType' /\ ServerType' /\ ShutInv'
  BY DEF WorkerType, ServerType, ShutInv
<1>2. \A v \in Workers, d \in Clients : Has(v, d)' = Has(v, d)
  BY DEF Has
<1>3. \A d \in Clients : client'[d] = "new" => client[d] = "new"
  OBVIOUS
<1>4. PlaceInv'
  BY SMTT(30), <1>3 DEF PlaceInv, Has
<1>5. ASSUME NEW d \in Clients \ {c} PROVE Numbered(d)'
  <2>1. Numbered(d)
    BY DEF NumberInv
  <2>2. Stays(d)
    BY <1>2, <1>5, <2>1 DEF Stays, Numbered
  <2> QED
    BY <2>1, <2>2, NumberedStays
<1> QED
  BY <1>1, <1>2, <1>4, <1>5

\* A client numbers and sends its next request.
LEMMA SendKeeps ==
    ASSUME ServiceInv, NEW c \in Clients, NEW kind \in Kinds, Send(c, kind)
    PROVE  ServiceInv'
<1> USE DEF ServiceInv, TypeInv
<1> DEFINE f == [n |-> sent[c] + 1, kind |-> kind, since |-> version]
<1>0. /\ client[c] = "idle" /\ client' = [client EXCEPT ![c] = IF kind = "bye" THEN "closing" ELSE "waiting"]
      /\ sent' = [sent EXCEPT ![c] = @ + 1] /\ inbox' = [inbox EXCEPT ![c] = Append(@, f)]
      /\ UNCHANGED <<outbox, calls>> /\ UNCHANGED ServerVars
  BY DEF Send
<1>1. inbox[c] \in Seq(Frames) /\ f \in Frames /\ sent[c] \in Nat /\ version \in Nat
  <2>1. inbox[c] \in Seq(Frames) /\ sent[c] \in Nat /\ version \in Nat
    BY DEF ClientType, ServerType
  <2> QED
    BY SMTT(30), <2>1 DEF Frames
<1>2. /\ inbox'[c] = Append(inbox[c], f) /\ sent'[c] = sent[c] + 1
      /\ client'[c] \in {"closing", "waiting"}
      /\ \A d \in Clients \ {c} : inbox'[d] = inbox[d] /\ client'[d] = client[d] /\ sent'[d] = sent[d]
  BY <1>0 DEF ClientType
<1>3. /\ Len(inbox[c]) \in Nat /\ DOMAIN inbox[c] = 1 .. Len(inbox[c])
      /\ inbox'[c] \in Seq(Frames) /\ Len(inbox'[c]) = Len(inbox[c]) + 1
      /\ DOMAIN inbox'[c] = 1 .. Len(inbox[c]) + 1
      /\ \A k \in 1 .. Len(inbox[c]) : inbox'[c][k] = inbox[c][k]
      /\ inbox'[c][Len(inbox[c]) + 1] = f
  BY SMTT(30), <1>1, <1>2, AppendFacts, SeqFacts
<1> HIDE DEF f
<1>4. ClientStep(c)
  BY <1>0, <1>2 DEF ClientStep
<1>5. ClientType'
  BY SMT, <1>0, <1>1, <1>3 DEF ClientType
<1>6. AnswersInOrder'
  BY <1>0 DEF AnswersInOrder
<1>7. FreshInv'
  <2>1. f.since = version /\ f.n = sent[c] + 1
    BY DEF f
  <2>2. \A k \in DOMAIN inbox'[c] : inbox'[c][k].since <= version
    BY SMTT(30), <1>1, <1>3, <2>1 DEF FreshInv
  <2> QED
    BY <1>0, <1>2, <2>2 DEF FreshInv, FreshCoordinate, ServerVars
<1>8. Numbered(c)'
  <2>0. /\ Numbered(c) /\ f.n = sent[c] + 1 /\ worker' = worker
        /\ outbox' = outbox /\ calls' = calls
        /\ \A v \in Workers : Has(v, c)' = Has(v, c)
    BY <1>0, <1>4, ClientStepKeeps DEF NumberInv, ServerVars, f
  <2>1. /\ Consumed(c)' = Consumed(c) /\ Consumed(c) \in Int
    BY SMTT(30), <1>0, <1>1, <1>2, <1>3 DEF Consumed
  <2>2. \A k \in DOMAIN inbox'[c] : inbox'[c][k].n = Consumed(c) + k
    <3> SUFFICES ASSUME NEW k \in 1 .. Len(inbox[c]) + 1
                 PROVE  inbox'[c][k].n = Consumed(c) + k
      BY <1>3
    <3>1. CASE k \in 1 .. Len(inbox[c])
      BY <1>3, <2>0, <3>1 DEF Numbered
    <3>2. CASE k = Len(inbox[c]) + 1
      BY SMTT(30), <1>1, <1>3, <2>0, <3>2 DEF Consumed
    <3> QED
      BY SMT, <1>3, <3>1, <3>2
  <2>3. ASSUME NEW n, NEW k, Later(c, n, k) PROVE Later(c, n, k)'
    BY <2>0, <2>1, <2>3 DEF Later
  <2>4. sent'[c] = Len(calls'[c]) + 1
    BY <1>0, <1>2, <2>0 DEF Numbered
  <2> QED
    BY <1>2, <2>0, <2>1, <2>2, <2>3, <2>4 DEF Numbered
<1> QED
  BY <1>4, <1>5, <1>6, <1>7, <1>8, ClientStepKeeps DEF NumberInv

-----------------------------------------------------------------------------
(* The end of a call.                                                      *)

\* A call ends with a number later than those before it, or with none.
LEMMA CallEnds ==
    ASSUME ClientType, AnswersInOrder, NEW c \in Clients, NEW n \in Nat,
           calls' = [calls EXCEPT ![c] = Append(@, n)],
           n # 0 => n <= Len(calls[c]) + 1 /\ \A j \in DOMAIN calls[c] : calls[c][j] < n
    PROVE  /\ AnswersInOrder' /\ calls' \in [Clients -> Seq(Nat)]
           /\ \A d \in Clients \ {c} : calls'[d] = calls[d]
           /\ Len(calls'[c]) = Len(calls[c]) + 1
           /\ \A j \in DOMAIN calls'[c] :
                calls'[c][j] = n \/ (j \in DOMAIN calls[c] /\ calls'[c][j] = calls[c][j])
<1> DEFINE len == Len(calls[c])
<1>1. /\ calls[c] \in Seq(Nat) /\ len \in Nat /\ DOMAIN calls[c] = 1 .. len
      /\ \A k \in 1 .. len : calls[c][k] \in Nat
  BY SeqFacts DEF ClientType
<1>2. /\ calls'[c] = Append(calls[c], n) /\ \A d \in Clients \ {c} : calls'[d] = calls[d]
  BY DEF ClientType
<1>3. /\ calls'[c] \in Seq(Nat) /\ DOMAIN calls'[c] = 1 .. len + 1 /\ Len(calls'[c]) = len + 1
      /\ \A k \in 1 .. len : calls'[c][k] = calls[c][k]
      /\ calls'[c][len + 1] = n
  BY SMT, <1>1, <1>2, AppendFacts
<1>4. n # 0 => n <= len + 1 /\ \A j \in 1 .. len : calls[c][j] < n
  BY <1>1
<1> HIDE DEF len
<1>5. calls' \in [Clients -> Seq(Nat)]
  BY <1>3 DEF ClientType
<1>6. \A j \in DOMAIN calls'[c] :
        calls'[c][j] = n \/ (j \in DOMAIN calls[c] /\ calls'[c][j] = calls[c][j])
  BY SMT, <1>1, <1>3
<1>7. ASSUME NEW d \in Clients, NEW k \in DOMAIN calls'[d], calls'[d][k] # 0
      PROVE  /\ calls'[d][k] <= k
             /\ \A j \in 1 .. k - 1 : calls'[d][j] < calls'[d][k]
             /\ (\A j \in 1 .. k - 1 : calls'[d][j] # 0) => calls'[d][k] = k
  <2>1. CASE d # c
    <3>1. calls'[d] = calls[d]
      BY <1>2, <2>1
    <3> QED
      BY <1>7, <3>1 DEF AnswersInOrder
  <2>2. CASE d = c /\ k \in 1 .. len
    <3>1. \A j \in 1 .. k - 1 : calls'[c][j] = calls[c][j]
      BY SMT, <1>1, <1>3, <2>2
    <3>2. calls'[c][k] = calls[c][k]
      BY <1>3, <2>2
    <3> QED
      BY <1>1, <1>7, <2>2, <3>1, <3>2 DEF AnswersInOrder
  <2>3. CASE d = c /\ k = len + 1
    <3>1. calls'[d][k] = n /\ n # 0
      BY <1>3, <1>7, <2>3
    <3>2. \A j : j \in 1 .. k - 1 <=> j \in 1 .. len
      BY SMT, <1>1, <2>3
    <3>3. n <= k /\ \A j \in 1 .. k - 1 : calls'[d][j] < n
      BY <1>3, <1>4, <2>3, <3>1, <3>2
    <3>4. ASSUME \A j \in 1 .. k - 1 : calls'[d][j] # 0 PROVE n = k
      <4>1. CASE len = 0
        BY SMT, <2>3, <3>1, <3>3, <4>1
      <4>2. CASE len # 0
        <5>1. len \in 1 .. len /\ \A j \in 1 .. len - 1 : j \in 1 .. len
          BY SMT, <1>1, <4>2
        <5>2. \A j \in 1 .. len : calls[c][j] # 0
          BY <1>3, <2>3, <3>2, <3>4
        <5>3. calls[c][len] = len
          BY <1>1, <5>1, <5>2 DEF AnswersInOrder
        <5>4. len < n
          BY <1>4, <3>1, <5>1, <5>3
        <5> QED
          BY SMT, <1>1, <2>3, <3>3, <5>4
      <4> QED
        BY <4>1, <4>2
    <3> QED
      BY <3>1, <3>3, <3>4
  <2>4. d = c => k \in 1 .. len \/ k = len + 1
    BY SMT, <1>1, <1>3, <1>7
  <2> QED
    BY <2>1, <2>2, <2>3, <2>4
<1> QED
  BY <1>2, <1>3, <1>5, <1>6, <1>7 DEF AnswersInOrder, len

\* A call ends without a reply, with what is on its way untouched or less the
\* first reply, or with the first reply.
EndOfCall(c, n) ==
    /\ InCall(c) /\ Finish(c, n) /\ UNCHANGED <<inbox, sent>> /\ UNCHANGED ServerVars
    /\ \/ UNCHANGED outbox /\ n = 0
       \/ /\ outbox[c] # <<>> /\ outbox' = [outbox EXCEPT ![c] = Tail(@)]
          /\ n \in {0, Head(outbox[c]).n}

\* A difference that is not negative.
LEMMA Difference ==
    ASSUME NEW a \in Nat, NEW b \in Nat, a - b >= 0
    PROVE  a - b \in Nat /\ a - b <= a
BY SMT

\* However a call ends, the replies still to come are later than its result.
LEMMA EndOfCallKeeps ==
    ASSUME ServiceInv, NEW c \in Clients, NEW n \in Nat, EndOfCall(c, n)
    PROVE  ServiceInv'
<1> USE DEF ServiceInv, TypeInv
<1>0. /\ client[c] \in {"waiting", "closing"}
      /\ client' = [client EXCEPT ![c] = IF @ = "closing" THEN "gone" ELSE "idle"]
      /\ calls' = [calls EXCEPT ![c] = Append(@, n)]
      /\ UNCHANGED <<inbox, sent>> /\ UNCHANGED ServerVars
  BY DEF EndOfCall, InCall, Finish
<1>1. /\ outbox[c] \in Seq(Replies) /\ Len(outbox[c]) \in Nat
      /\ DOMAIN outbox[c] = 1 .. Len(outbox[c])
      /\ \A k \in DOMAIN outbox[c] : outbox[c][k] \in Replies
  BY SeqFacts DEF ClientType
<1>2. PICK m \in {0, 1} :
        /\ outbox' \in [Clients -> Seq(Replies)]
        /\ \A d \in Clients \ {c} : outbox'[d] = outbox[d]
        /\ Len(outbox'[c]) = Len(outbox[c]) - m
        /\ \A k \in DOMAIN outbox'[c] :
             k \in Nat /\ k + m \in DOMAIN outbox[c] /\ outbox'[c][k] = outbox[c][k + m]
        /\ n # 0 => m = 1 /\ 1 \in DOMAIN outbox[c] /\ n = outbox[c][1].n
  <2>1. CASE UNCHANGED outbox /\ n = 0
    <3>1. /\ Len(outbox[c]) = Len(outbox[c]) - 0
          /\ \A k \in DOMAIN outbox[c] : k \in Nat /\ k + 0 = k
      BY SMT, <1>1
    <3> QED
      BY <2>1, <3>1 DEF ClientType
  <2>2. CASE /\ outbox[c] # <<>> /\ outbox' = [outbox EXCEPT ![c] = Tail(@)]
             /\ n \in {0, Head(outbox[c]).n}
    <3>1. /\ Head(outbox[c]) = outbox[c][1] /\ 1 \in DOMAIN outbox[c]
          /\ Tail(outbox[c]) \in Seq(Replies) /\ Len(Tail(outbox[c])) = Len(outbox[c]) - 1
          /\ DOMAIN Tail(outbox[c]) = 1 .. Len(outbox[c]) - 1
          /\ \A k \in 1 .. Len(outbox[c]) - 1 : Tail(outbox[c])[k] = outbox[c][k + 1]
      BY <1>1, <2>2, TailFacts
    <3>2. /\ outbox'[c] = Tail(outbox[c]) /\ outbox' \in [Clients -> Seq(Replies)]
          /\ \A d \in Clients \ {c} : outbox'[d] = outbox[d]
      BY <2>2, <3>1 DEF ClientType
    <3>3. \A k \in 1 .. Len(outbox[c]) - 1 : k \in Nat /\ k + 1 \in DOMAIN outbox[c]
      BY SMT, <1>1
    <3> QED
      BY <2>2, <3>1, <3>2, <3>3
  <2> QED
    BY <2>1, <2>2 DEF EndOfCall
<1>3. /\ client'[c] \in {"gone", "idle"} /\ \A d \in Clients \ {c} : client'[d] = client[d]
  BY <1>0 DEF ClientType
<1>4. Numbered(c) /\ sent[c] = Len(calls[c]) + 1 /\ sent[c] \in Nat
  BY <1>0 DEF NumberInv, Numbered, ClientType
<1>5. n # 0 => Later(c, n, 1)
  BY <1>2, <1>4 DEF Numbered
<1>6. Consumed(c) \in Nat /\ Consumed(c) <= Len(calls[c]) + 1
  <2>1. inbox[c] \in Seq(Frames) /\ calls[c] \in Seq(Nat) /\ Consumed(c) >= 0
    BY <1>4 DEF ClientType, Numbered
  <2>2. Len(inbox[c]) \in Nat /\ Len(calls[c]) \in Nat /\ Consumed(c) >= 0
    BY <2>1, SeqFacts
  <2>3. sent[c] = Len(calls[c]) + 1 /\ sent[c] \in Nat
    BY <1>4
  <2> QED
    BY <2>2, <2>3, Difference DEF Consumed
<1>7. n # 0 => n <= Len(calls[c]) + 1 /\ \A j \in DOMAIN calls[c] : calls[c][j] < n
  <2>1. n # 0 => n <= Consumed(c) /\ \A j \in DOMAIN calls[c] : calls[c][j] < n
    BY <1>5 DEF Later
  <2>2. n <= Consumed(c) => n <= Len(calls[c]) + 1
    <3>1. Len(calls[c]) \in Nat
      BY SeqFacts DEF ClientType
    <3> QED
      BY SMT, <1>6, <3>1
  <2> QED
    BY <2>1, <2>2
<1>8. /\ AnswersInOrder' /\ calls' \in [Clients -> Seq(Nat)]
      /\ \A d \in Clients \ {c} : calls'[d] = calls[d]
      /\ Len(calls'[c]) = Len(calls[c]) + 1
      /\ \A j \in DOMAIN calls'[c] :
           calls'[c][j] = n \/ (j \in DOMAIN calls[c] /\ calls'[c][j] = calls[c][j])
  BY <1>0, <1>7, CallEnds
<1>9. ClientStep(c)
  BY <1>0, <1>2, <1>3, <1>8 DEF ClientStep
<1>10. ClientType'
  BY <1>0, <1>2, <1>8 DEF ClientType
<1>11. FreshInv'
  <2>1. \A d \in Clients : \A k \in DOMAIN outbox'[d] : Sound(outbox'[d][k], results)
    BY <1>2 DEF FreshInv, FreshCoordinate
  <2> QED
    BY <1>0, <2>1 DEF FreshInv, FreshCoordinate, ServerVars
<1>12. Numbered(c)'
  <2>0. /\ Consumed(c)' = Consumed(c) /\ worker' = worker /\ inbox' = inbox /\ sent' = sent
        /\ \A v \in Workers : Has(v, c)' = Has(v, c)
    BY <1>0, <1>9, ClientStepKeeps DEF Consumed, ServerVars
  <2>1. ASSUME NEW x, NEW k, NEW i, Later(c, x, i), n = 0 \/ n < x,
               \A j \in DOMAIN outbox'[c] : j < k => j + m < i
        PROVE  Later(c, x, k)'
    BY <1>2, <1>8, <2>0, <2>1 DEF Later
  <2>2. ASSUME NEW k \in DOMAIN outbox'[c], NEW x \in Nat \ {0}, x = outbox'[c][k].n
        PROVE  Later(c, x, k)'
    <3>1. Later(c, x, k + m)
      BY <1>2, <1>4, <2>2 DEF Numbered
    <3>2. \A j \in DOMAIN outbox'[c] : j < k => j + m < k + m
      BY SMT, <1>2
    <3>3. n # 0 => 1 < k + m
      BY SMT, <1>1, <1>2, <2>2
    <3>4. n = 0 \/ n < x
      BY <1>2, <3>1, <3>3 DEF Later
    <3> QED
      BY <2>1, <3>1, <3>2, <3>4
  <2>3. ASSUME NEW x, \A k \in Nat : Later(c, x, k), NEW k \in Nat PROVE Later(c, x, k)'
    <3>1. Later(c, x, 2) /\ Later(c, x, k + m) /\ 1 < 2
      BY SMT, <2>3
    <3>2. n = 0 \/ n < x
      BY <1>2, <3>1 DEF Later
    <3>3. \A j \in DOMAIN outbox'[c] : j < k => j + m < k + m
      BY SMT, <1>2
    <3> QED
      BY <2>1, <3>1, <3>2, <3>3
  <2>4. \A j \in DOMAIN calls'[c] : calls'[c][j] <= Consumed(c)
    <3>1. n <= Consumed(c)
      BY SMT, <1>5, <1>6 DEF Later
    <3> QED
      BY <1>4, <1>8, <3>1 DEF Numbered
  <2>5. Len(calls'[c]) = sent[c]
    BY <1>4, <1>8
  <2> QED
    BY <1>3, <1>4, <2>0, <2>2, <2>3, <2>4, <2>5 DEF Numbered
<1> QED
  BY <1>8, <1>9, <1>10, <1>11, <1>12, ClientStepKeeps DEF NumberInv

\* The next reply is taken.
LEMMA ReceiveKeeps ==
    ASSUME ServiceInv, NEW c \in Clients, Receive(c)
    PROVE  ServiceInv'
<1>1. outbox[c] \in Seq(Replies) /\ outbox[c] # <<>>
  BY DEF ServiceInv, TypeInv, ClientType, Receive
<1>2. Head(outbox[c]) \in Replies
  BY <1>1, TailFacts
<1>3. PICK n \in Nat : n = Head(outbox[c]).n
  BY <1>2 DEF Replies
<1>4. EndOfCall(c, n)
  BY <1>3 DEF Receive, EndOfCall
<1> QED
  BY <1>4, EndOfCallKeeps

\* A call that fails, with a part of a reply read or none of it.
LEMMA ReceiveNoneKeeps ==
    ASSUME ServiceInv, NEW c \in Clients, ReceiveNothing(c) \/ ReceivePart(c)
    PROVE  ServiceInv'
<1>1. EndOfCall(c, 0)
  BY DEF ReceiveNothing, ReceivePart, EndOfCall
<1>2. 0 \in Nat
  BY SMT
<1> QED
  BY <1>1, <1>2, EndOfCallKeeps

\* A client that is gone has nothing coming.
LEMMA VanishKeeps ==
    ASSUME ServiceInv, NEW c \in Clients, Vanish(c)
    PROVE  ServiceInv'
<1> USE DEF ServiceInv, TypeInv
<1>0. /\ client[c] # "new" /\ client' = [client EXCEPT ![c] = "gone"]
      /\ outbox' = [outbox EXCEPT ![c] = <<>>]
      /\ UNCHANGED <<inbox, sent, calls>> /\ UNCHANGED ServerVars
  BY DEF Vanish
<1>1. /\ client'[c] = "gone" /\ outbox'[c] = <<>>
      /\ \A d \in Clients \ {c} : client'[d] = client[d] /\ outbox'[d] = outbox[d]
  BY <1>0 DEF ClientType
<1>2. ClientStep(c)
  BY <1>0, <1>1 DEF ClientStep
<1>3. ClientType' /\ DOMAIN outbox'[c] = {}
  BY <1>0, <1>1, EmptyFacts DEF ClientType
<1>4. FreshInv'
  BY <1>0, <1>1, <1>3 DEF FreshInv, FreshCoordinate, ServerVars
<1>5. AnswersInOrder'
  BY <1>0 DEF AnswersInOrder
<1>6. Numbered(c)'
  <2>0. /\ Numbered(c) /\ Consumed(c)' = Consumed(c) /\ worker' = worker
        /\ \A v \in Workers : Has(v, c)' = Has(v, c)
    BY <1>0, <1>2, ClientStepKeeps DEF Consumed, ServerVars, NumberInv
  <2>1. \A n, k : Later(c, n, k) => Later(c, n, k)'
    BY <1>0, <1>3, <2>0 DEF Later
  <2> QED
    BY <1>0, <1>1, <1>3, <2>0, <2>1 DEF Numbered
<1> QED
  BY <1>2, <1>3, <1>4, <1>5, <1>6, ClientStepKeeps DEF NumberInv

-----------------------------------------------------------------------------
(* The invariant and what follows from it.                                 *)

\* A service nobody has connected to.
LEMMA ServiceInit == Init => ServiceInv
<1> SUFFICES ASSUME Init PROVE ServiceInv
  OBVIOUS
<1> USE DEF Init
<1>0. /\ \A S : <<>> \in Seq(S) 
      /\ DOMAIN <<>> = {} /\ Len(<<>>) = 0
  BY EmptyFacts
<1>1. TypeInv
  BY <1>0 DEF TypeInv, WorkerType, ServerType, ClientType, Records, Resting, Handling, Answering
<1>2. \A w \in Workers : worker[w].stage = "top"
  BY DEF Resting
<1>3. \A w \in Workers, c \in Clients : ~Has(w, c)
  BY <1>2 DEF Has, Busy, Registered, InFrame
<1>4. PlaceInv
  BY <1>0, <1>3 DEF PlaceInv
<1>5. ShutInv /\ FreshInv /\ AnswersInOrder
  BY <1>0, <1>2 DEF ShutInv, Registered, InFrame, FreshInv, FreshCoordinate, Handling, Answering,
     AnswersInOrder
<1>6. NumberInv
  <2> SUFFICES ASSUME NEW c \in Clients PROVE Numbered(c)
    BY DEF NumberInv
  <2>1. Consumed(c) = 0
    BY SMT, <1>0 DEF Consumed
  <2> QED
    BY SMTT(30), <1>0, <1>3, <2>1 DEF Numbered
<1> QED
  BY <1>1, <1>4, <1>5, <1>6 DEF ServiceInv

\* Every step of the service and its clients keeps the invariant.
LEMMA ServiceStep == ServiceInv /\ [Next]_vars => ServiceInv'
<1> SUFFICES ASSUME ServiceInv, [Next]_vars PROVE ServiceInv'
  OBVIOUS
<1>1. ASSUME NEW c \in Clients, Client(c) PROVE ServiceInv'
  <2>1. ASSUME sent[c] < Len(Script[c]), NEW kind \in Script[c][sent[c] + 1], Send(c, kind)
        PROVE  ServiceInv'
    <3>1. Script[c] \in Seq(SUBSET Kinds) /\ sent[c] \in Nat
      BY ServiceAssumption DEF ServiceInv, TypeInv, ClientType
    <3>2. kind \in Kinds
      BY SMT, <2>1, <3>1, SeqFacts
    <3> QED
      BY <2>1, <3>2, SendKeeps
  <2> QED
    BY <1>1, <2>1, connectKeeps, ReceiveKeeps, ReceiveNoneKeeps, VanishKeeps DEF Client
<1>2. ASSUME NEW w \in Workers, Worker(w) PROVE ServiceInv'
  BY <1>2, PopKeeps, WorkerEndsKeeps, register_activeKeeps, LoopKeeps, read_frameKeeps,
     ReadFailsKeeps, HandleStatusKeeps, QueryKeeps, CommitKeeps, DuplicateKeeps, RefusalKeeps,
     WriteKeeps, WriteFailsKeeps, KilledKeeps, CountKeeps, RefuseKeeps, RefusedKeeps, LeaveKeeps
     DEF Worker, Operate
<1>3. CASE Acceptor
  BY <1>3, AcceptKeeps, AcceptCountKeeps DEF Acceptor
<1>4. CASE UNCHANGED vars
  <2>2. ServerType' /\ PlaceInv' /\ ShutInv'
    BY <1>4 DEF vars, ServiceInv, TypeInv, ServerType, PlaceInv, Has, ShutInv
  <2> QED
    BY <1>4, <2>2, UntouchedKeeps DEF vars, ClientVars, Runtime, ServiceInv, TypeInv
<1> QED
  BY <1>1, <1>2, <1>3, <1>4, StopBeginKeeps, shutdown_activeKeeps, StopEndKeeps DEF Next

\* The invariant holds throughout.
LEMMA ServiceSafe == Spec => []ServiceInv
BY ServiceInit, ServiceStep, PTL DEF Spec

\* Replies reach a client in the order of its requests and no call gets one twice
\* or one to a later request, for any number of clients, workers, frames and calls,
\* whatever calls time out and wherever in a reply they do; until a call on a
\* connection fails, every call gets its own reply.
THEOREM RepliesInOrder == Spec => []AnswersInOrder
BY ServiceSafe, PTL DEF ServiceInv

\* The coordinate in an answer's header is one the runtime had after the request
\* was sent, and never ahead of what the body was computed from; a reply that says
\* a command is done carries the coordinate recorded at its one commit.
THEOREM CoordinatesFresh == Spec => []FreshCoordinate
<1>1. ServiceInv => FreshCoordinate
  BY DEF ServiceInv, FreshInv
<1> QED
  BY <1>1, ServiceSafe, PTL

\* When stop() waits for the workers, every worker in a read or a write has had its
\* socket shut.
THEOREM StopWakesWorkers == Spec => []WokenByStop
<1>1. ServiceInv => WokenByStop
  BY DEF ServiceInv, ShutInv, WokenByStop, InFrame, Conn
<1> QED
  BY <1>1, ServiceSafe, PTL

=============================================================================
