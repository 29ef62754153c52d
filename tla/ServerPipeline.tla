---------------------------- MODULE ServerPipeline ----------------------------
(***************************************************************************)
(* The server: the reactor thread (PosixEpollEventLoop), the business      *)
(* thread (BusinessRuntime), the mailbox that joins them (ReactorMailBox,  *)
(* two directions and an eventfd) and the main thread that stops both      *)
(* (ServerApp), with their clients and the kernel's sockets around them.   *)
(*                                                                         *)
(* The queue to the business thread is the channel that MpmcBoundedQueue   *)
(* implements.  A request or an answer is one frame; it names its client   *)
(* and its number there.                                                   *)
(***************************************************************************)
EXTENDS Naturals, Sequences, Functions

CONSTANTS
  Clients,
  Sends,         \* bound: how many requests each client sends
  Unanswered,    \* the requests BusinessRuntime cannot parse or does not know
  Fds,           \* the file descriptors accept may hand out
  Capacity,      \* room of the queue to the business thread
  MayStop        \* whether the application is ever closed

Request == Clients \X (Nat \ {0})

ASSUME PipelineAssumption ==
  /\ Sends \in [Clients -> Nat] /\ Unanswered \subseteq Request
  /\ Fds \subseteq Nat /\ \E f \in [Clients -> Fds] : IsInjective(f)
  /\ Capacity \in Nat \ {0} /\ MayStop \in BOOLEAN

VARIABLES
  (* the clients and the kernel *)
  peer,          \* "away", "open", "closed" by the client; "refused", "lost": by the server
  sent,          \* how many requests each client has sent
  replies,       \* the answers each client has been sent, in order
  toRead,        \* the frames in each connection's receive buffer
  full,          \* whether its send buffer is full
  backlog,       \* connections that wait for accept
  eventfd,       \* whether the eventfd's counter is above 0
  (* the reactor thread *)
  reactor,       \* where it is in run()
  batch,         \* the events of this epoll_wait it has yet to handle
  frames,        \* the frames readable_event has yet to push to the business thread
  toFlush,       \* the connections whose writable_event is still to come
  iterating,     \* whether that is notify_event's loop over m_connect_contexts
  contexts,      \* m_connect_contexts, by fd
  nextId,        \* m_connect_counter
  (* the mailbox and the business thread *)
  toServer,      \* m_to_server_frame_queue
  toClient,      \* m_to_client_queues, by connect id
  business,      \* where the business thread is in run()
  job,           \* the frame it handles
  (* the process *)
  networkRuns,   \* PosixEpollEventLoop::m_is_running
  businessRuns,  \* BusinessRuntime::m_is_running
  main,          \* where the main thread is in ServerApp::stop
  alive,         \* FALSE when the process has been killed
  corrupted      \* an erased connection's iterator was used, and the process survived

clientVars   == <<peer, sent, replies, toRead, full, backlog>>
reactorVars  == <<reactor, batch, frames, toFlush, iterating, contexts, nextId>>
businessVars == <<business, job>>
mailVars     == <<eventfd, toServer, toClient>>
flagVars     == <<networkRuns, businessRuns>>
fateVars     == <<alive, corrupted>>
vars == <<clientVars, reactorVars, businessVars, mailVars, flagVars, main, fateVars>>

\* NetworkRuntime::init makes one after the other; without all of them the network thread
\* is not started.
InitSteps == {"eventfd", "epoll", "non-blocking", "bind", "listen"}

NetworkInit(failed) == IF failed \cap InitSteps = {} THEN "new" ELSE "none"

Init ==
  /\ peer = [c \in Clients |-> "away"] /\ sent = [c \in Clients |-> 0]
  /\ replies = [c \in Clients |-> <<>>] /\ toRead = [c \in Clients |-> <<>>]
  /\ full = [c \in Clients |-> FALSE]
  /\ backlog = <<>> /\ eventfd = FALSE
  /\ \E failed \in SUBSET InitSteps : reactor = NetworkInit(failed)
  /\ batch = {} /\ frames = <<>>
  /\ toFlush = {} /\ iterating = FALSE
  /\ contexts = <<>> /\ nextId = 0
  /\ toServer = <<>> /\ toClient = <<>>
  /\ business = "new" /\ job = <<>>
  /\ networkRuns = FALSE /\ businessRuns = FALSE
  /\ main = "running" /\ alive = TRUE /\ corrupted = FALSE

Without(f, x) == [y \in DOMAIN f \ {x} |-> f[y]]
With(f, x, v) == [y \in DOMAIN f \cup {x} |-> IF y = x THEN v ELSE f[y]]

-----------------------------------------------------------------------------
(* The clients.                                                            *)

ClientConnects(c) ==
  /\ peer[c] = "away" /\ reactor # "none"
  /\ peer' = [peer EXCEPT ![c] = "open"]
  /\ backlog' = Append(backlog, c)
  /\ UNCHANGED <<sent, replies, toRead, full>>

ClientSends(c) ==
  /\ peer[c] = "open" /\ sent[c] < Sends[c]
  /\ sent' = [sent EXCEPT ![c] = @ + 1]
  /\ toRead' = [toRead EXCEPT ![c] = Append(@, <<c, sent[c] + 1>>)]
  /\ UNCHANGED <<peer, replies, full, backlog>>

ClientReads(c) ==
  /\ peer[c] = "open" /\ full[c]
  /\ full' = [full EXCEPT ![c] = FALSE]
  /\ UNCHANGED <<peer, sent, replies, toRead, backlog>>

ClientCloses(c) ==
  /\ peer[c] = "open"
  /\ peer' = [peer EXCEPT ![c] = "closed"]
  /\ UNCHANGED <<sent, replies, toRead, full, backlog>>

Client(c) ==
  /\ alive
  /\ ClientConnects(c) \/ ClientSends(c) \/ ClientReads(c) \/ ClientCloses(c)
  /\ UNCHANGED <<reactorVars, businessVars, mailVars, flagVars, main, fateVars>>

-----------------------------------------------------------------------------
(* The reactor: run(), one round of its loop after the other.              *)

ReactorStarts ==
  /\ reactor = "new"
  /\ reactor' = "loop" /\ networkRuns' = TRUE
  /\ UNCHANGED <<clientVars, batch, frames, toFlush, iterating, contexts, nextId,
                 businessVars, mailVars, businessRuns, fateVars>>

\* A slip: stop() is not looked at.
ReactorChecks_Forever ==
  /\ reactor = "loop"
  /\ reactor' = "waiting"
  /\ UNCHANGED <<clientVars, batch, frames, toFlush, iterating, contexts, nextId,
                 businessVars, mailVars, flagVars, fateVars>>

ReactorChecks ==
  /\ reactor = "loop"
  /\ reactor' = IF networkRuns THEN "waiting" ELSE "exited"
  /\ UNCHANGED <<clientVars, batch, frames, toFlush, iterating, contexts, nextId,
                 businessVars, mailVars, flagVars, fateVars>>

\* What epoll_wait reports, level-triggered.
Event(on, fd, kinds) == [on |-> on, fd |-> fd, kinds |-> kinds]

SocketEvents(fd) ==
  LET c == contexts[fd].client
  IN  IF peer[c] = "closed" THEN {"hup"}
      ELSE {k \in {"in", "out"} : \/ k = "in" /\ toRead[c] # <<>>
                                  \/ k = "out" /\ contexts[fd].pollOut /\ ~full[c]}

\* PosixEpollEventLoop::init: what is watched besides the connections.
Watched == {"listen", "eventfd"}

Ready ==
  {Event(on, 0, {}) : on \in {w \in Watched : IF w = "listen" THEN backlog # <<>> ELSE eventfd}} \cup
  {e \in {Event("socket", fd, SocketEvents(fd)) : fd \in DOMAIN contexts} : e.kinds # {}}

\* Nothing within 1000 ms: the loop comes round again.
EpollWait ==
  /\ reactor = "waiting"
  /\ batch' = Ready
  /\ reactor' = IF Ready = {} THEN "loop" ELSE "events"
  /\ UNCHANGED <<clientVars, frames, toFlush, iterating, contexts, nextId,
                 businessVars, mailVars, flagVars, fateVars>>

\* Between two events of the batch; they come in any order.
NextEvent(e) ==
  /\ reactor = "events" /\ frames = <<>> /\ toFlush = {}
  /\ e \in batch /\ batch' = batch \ {e}

BatchDone ==
  /\ reactor = "events" /\ frames = <<>> /\ toFlush = {} /\ batch = {}
  /\ reactor' = "loop"
  /\ UNCHANGED <<clientVars, batch, frames, toFlush, iterating, contexts, nextId,
                 businessVars, mailVars, flagVars, fateVars>>

\* acceptable_event: until accept finds nobody or a socket cannot be set up.
AcceptableEvent(e) ==
  /\ NextEvent(e) /\ e.on = "listen"
  /\ reactor' = "accepting"
  /\ UNCHANGED <<clientVars, frames, toFlush, iterating, contexts, nextId,
                 businessVars, mailVars, flagVars, fateVars>>

\* The kernel hands out the lowest free descriptor.
FreeFd == CHOOSE fd \in Fds \ DOMAIN contexts : \A g \in Fds \ DOMAIN contexts : fd <= g

\* A slip: the connection is named by its descriptor.
Accept_ByFd ==
  /\ reactor = "accepting" /\ backlog # <<>>
  /\ backlog' = Tail(backlog)
  /\ contexts' = With(contexts, FreeFd,
       [id |-> FreeFd, client |-> Head(backlog), out |-> <<>>, pollOut |-> FALSE])
  /\ toClient' = With(toClient, FreeFd, <<>>)
  /\ UNCHANGED <<peer, reactor, nextId, sent, replies, toRead, full, batch, frames, toFlush,
                 iterating, businessVars, eventfd, toServer, flagVars, fateVars>>

\* set_blocking or add may fail: the socket goes out of scope, and is closed.
Refuse(c) == peer' = [peer EXCEPT ![c] = IF @ = "open" THEN "refused" ELSE @]

Accept ==
  /\ reactor = "accepting" /\ backlog # <<>>
  /\ backlog' = Tail(backlog)
  /\ \/ /\ contexts' = With(contexts, FreeFd,
             [id |-> nextId, client |-> Head(backlog), out |-> <<>>, pollOut |-> FALSE])
        /\ toClient' = With(toClient, nextId, <<>>)
        /\ nextId' = nextId + 1
        /\ UNCHANGED <<peer, reactor>>
     \/ /\ reactor' = "events"
        /\ Refuse(Head(backlog))
        /\ UNCHANGED <<contexts, toClient, nextId>>
  /\ UNCHANGED <<sent, replies, toRead, full, batch, frames, toFlush, iterating,
                 businessVars, eventfd, toServer, flagVars, fateVars>>

AcceptFindsNobody ==
  /\ reactor = "accepting" /\ backlog = <<>>
  /\ reactor' = "events"
  /\ UNCHANGED <<clientVars, batch, frames, toFlush, iterating, contexts, nextId,
                 businessVars, mailVars, flagVars, fateVars>>

\* A slip: the mailbox keeps the queue of the connection.
RemoveConnect_Leaks(fd) ==
  IF fd \in DOMAIN contexts
  THEN /\ peer' = [peer EXCEPT ![contexts[fd].client] = IF @ = "open" THEN "lost" ELSE @]
       /\ contexts' = Without(contexts, fd)
       /\ UNCHANGED toClient
  ELSE UNCHANGED <<peer, contexts, toClient>>

\* remove_connect: the socket is closed, the frames for it are dropped.
RemoveConnect(fd) ==
  IF fd \in DOMAIN contexts
  THEN /\ peer' = [peer EXCEPT ![contexts[fd].client] = IF @ = "open" THEN "lost" ELSE @]
       /\ contexts' = Without(contexts, fd)
       /\ toClient' = Without(toClient, contexts[fd].id)
  ELSE UNCHANGED <<peer, contexts, toClient>>

\* The peer has closed: what it had sent before is not read any more.
HangUpEvent(e) ==
  /\ NextEvent(e) /\ "hup" \in e.kinds
  /\ RemoveConnect(e.fd)
  /\ UNCHANGED <<sent, replies, toRead, full, backlog, reactor, frames, toFlush, iterating,
                 nextId, businessVars, eventfd, toServer, flagVars, fateVars>>

\* ConnectContext::read, which reads until there is no more: the frames in the buffer.
ReadAll(fd) ==
  LET c == contexts[fd].client
  IN  /\ frames' = [i \in DOMAIN toRead[c] |-> [id |-> contexts[fd].id, request |-> toRead[c][i]]]
      /\ toRead' = [toRead EXCEPT ![c] = <<>>]

\* read_some: reading from a peer that has closed may be an error, after a reset.
ReadSomeFails(fd) == peer[contexts[fd].client] = "closed"

\* readable_event, and the writable_event of the same event after it.
SocketEvent(e) ==
  /\ NextEvent(e) /\ e.on = "socket" /\ "hup" \notin e.kinds
  /\ toFlush' = IF "out" \in e.kinds THEN {e.fd} ELSE {}
  /\ iterating' = FALSE
  /\ IF "in" \in e.kinds /\ e.fd \in DOMAIN contexts
     THEN \/ ReadAll(e.fd) /\ UNCHANGED <<peer, contexts, toClient>>
          \/ ReadSomeFails(e.fd) /\ RemoveConnect(e.fd) /\ UNCHANGED <<frames, toRead>>
     ELSE UNCHANGED <<frames, toRead, peer, contexts, toClient>>
  /\ UNCHANGED <<sent, replies, full, backlog, reactor, nextId, businessVars,
                 eventfd, toServer, flagVars, fateVars>>

\* push_to_server_frame, which blocks the reactor while the queue is full.
PushToServer ==
  /\ frames # <<>> /\ Len(toServer) < Capacity
  /\ toServer' = Append(toServer, Head(frames))
  /\ frames' = Tail(frames)
  /\ UNCHANGED <<clientVars, reactor, batch, toFlush, iterating, contexts, nextId,
                 businessVars, eventfd, toClient, flagVars, fateVars>>

\* PosixEventHandle::read until EAGAIN, and write: the counter is only told from 0.
ReadEventFd  == eventfd' = FALSE
WriteEventFd == eventfd' = TRUE

\* notify_event: the counter is read until it is 0, then every connection is flushed.
NotifyEvent(e) ==
  /\ NextEvent(e) /\ e.on = "eventfd"
  /\ ReadEventFd
  /\ toFlush' = DOMAIN contexts /\ iterating' = TRUE
  /\ UNCHANGED <<clientVars, reactor, frames, contexts, nextId, businessVars,
                 toServer, toClient, flagVars, fateVars>>

\* writable_event: the frames for the connection join its write buffer, and the socket
\* takes what it has room for.  EPOLLOUT stays on while something is left.
FlushDone(fd) == toFlush' = toFlush \ {fd} /\ UNCHANGED iterating

Pending(fd) == contexts[fd].out \o toClient[contexts[fd].id]

\* A slip: EPOLLOUT is not asked for.
Writes_NoPollOut(fd, n) ==
  LET c    == contexts[fd].client
      rest == SubSeq(Pending(fd), n + 1, Len(Pending(fd)))
  IN  /\ contexts' = [contexts EXCEPT ![fd].out = rest]
      /\ toClient' = [toClient EXCEPT ![contexts[fd].id] = <<>>]
      /\ IF peer[c] = "open"
         THEN /\ replies' = [replies EXCEPT ![c] = @ \o SubSeq(Pending(fd), 1, n)]
              /\ full' = [full EXCEPT ![c] = rest # <<>>]
         ELSE UNCHANGED <<replies, full>>

\* PosixSocketHandle::write: all of it or, once the socket is full, what went before.
SocketWrites(c, taken, rest) ==
  IF peer[c] = "open"
  THEN /\ replies' = [replies EXCEPT ![c] = @ \o taken]
       /\ full' = [full EXCEPT ![c] = rest # <<>>]
  ELSE UNCHANGED <<replies, full>>

\* write_some: how much the socket may take.
MayTake(fd) ==
  IF full[contexts[fd].client] \/ Pending(fd) = <<>> THEN {0} ELSE 1..Len(Pending(fd))

Writes(fd, n) ==
  LET rest == SubSeq(Pending(fd), n + 1, Len(Pending(fd)))
  IN  /\ contexts' = [contexts EXCEPT ![fd].out = rest, ![fd].pollOut = rest # <<>>]
      /\ toClient' = [toClient EXCEPT ![contexts[fd].id] = <<>>]
      /\ SocketWrites(contexts[fd].client, SubSeq(Pending(fd), 1, n), rest)

\* The connection is gone already.
WritableGone(fd) ==
  /\ frames = <<>> /\ fd \in toFlush /\ fd \notin DOMAIN contexts
  /\ FlushDone(fd)
  /\ UNCHANGED <<clientVars, reactor, batch, frames, contexts, nextId, businessVars,
                 mailVars, flagVars, fateVars>>

\* PosixStatusSet: the errors that are no failure, but to be tried again later.
BranchSet == {"EAGAIN", "EWOULDBLOCK", "EINPROGRESS"}

\* PosixStatusDetail::to_status_level, of errno.
ToStatusLevel(error) ==
  IF error = "0" THEN "Ok" ELSE IF error \in BranchSet THEN "Branch" ELSE "Error"

\* How a write that took n frames ends.
WriteEnds(fd, n) == IF n = Len(Pending(fd)) THEN "0" ELSE "EAGAIN"

WritableEvent(fd) ==
  /\ frames = <<>> /\ fd \in toFlush /\ fd \in DOMAIN contexts
  /\ FlushDone(fd)
  /\ \E n \in MayTake(fd) : ToStatusLevel(WriteEnds(fd, n)) # "Error" /\ Writes(fd, n)
  /\ UNCHANGED <<peer, sent, toRead, backlog, reactor, batch, frames, nextId,
                 businessVars, eventfd, toServer, flagVars, fateVars>>

\* The errors writing may end with.
WriteErrors(fd) ==
  {WriteEnds(fd, n) : n \in MayTake(fd)}
  \cup {e \in {"EPIPE"} : peer[contexts[fd].client] = "closed" /\ Pending(fd) # <<>>}

\* A slip: EAGAIN is an error.
WriteFails_Again(fd) ==
  /\ frames = <<>> /\ fd \in toFlush /\ fd \in DOMAIN contexts
  /\ Pending(fd) # <<>>
  /\ RemoveConnect(fd)
  /\ toFlush' \in {toFlush \ {fd}, {}}
  /\ corrupted' = (corrupted \/ iterating)
  /\ UNCHANGED <<alive, sent, replies, toRead, full, backlog, reactor, batch, frames,
                 iterating, nextId, businessVars, eventfd, toServer, flagVars>>

\* A write to a peer that has closed may also fail: the connection is removed, from
\* within notify_event's loop over it when that is the caller.  What the loop does with
\* the erased iterator is undefined: it goes on, ends, or the process crashes.  SIGPIPE,
\* which nothing ignores, kills the process as well.
WriteFails(fd) ==
  /\ frames = <<>> /\ fd \in toFlush /\ fd \in DOMAIN contexts
  /\ \E error \in WriteErrors(fd) :
       /\ ToStatusLevel(error) = "Error"
       /\ alive' \in {TRUE, error # "EPIPE"}
  /\ RemoveConnect(fd)
  /\ toFlush' \in {toFlush \ {fd}, {}}
  /\ corrupted' = (corrupted \/ iterating)
  /\ UNCHANGED <<sent, replies, toRead, full, backlog, reactor, batch, frames, iterating,
                 nextId, businessVars, eventfd, toServer, flagVars>>

ReactorGoesOn ==
  \/ ReactorStarts \/ ReactorChecks \/ EpollWait \/ BatchDone
  \/ \E e \in batch : \/ AcceptableEvent(e) \/ HangUpEvent(e)
                      \/ SocketEvent(e) \/ NotifyEvent(e)
  \/ Accept \/ AcceptFindsNobody
  \/ PushToServer
  \/ \E fd \in toFlush : WritableEvent(fd) \/ WritableGone(fd) \/ WriteFails(fd)

Reactor == alive /\ ReactorGoesOn /\ UNCHANGED main

-----------------------------------------------------------------------------
(* The business thread: BusinessRuntime::run.                              *)

BusinessStarts ==
  /\ business = "new"
  /\ business' = "loop" /\ businessRuns' = TRUE
  /\ UNCHANGED <<job, mailVars, networkRuns>>

BusinessChecks ==
  /\ business = "loop"
  /\ business' = IF businessRuns THEN "popping" ELSE "exited"
  /\ UNCHANGED <<job, mailVars, flagVars>>

\* pop_from_to_server_frame blocks on an empty queue: it is closed by nobody but the
\* mailbox's destructor.
BusinessPops ==
  /\ business = "popping" /\ toServer # <<>>
  /\ job' = <<Head(toServer)>> /\ toServer' = Tail(toServer)
  /\ business' = "handling"
  /\ UNCHANGED <<eventfd, toClient, flagVars>>

\* A slip: the reactor is not notified.
BusinessHandles_Silent ==
  /\ business = "handling"
  /\ LET id == Head(job).id
         r  == Head(job).request
     IN  IF r \in Unanswered \/ id \notin DOMAIN toClient
         THEN UNCHANGED toClient
         ELSE toClient' = [toClient EXCEPT ![id] = Append(@, r)]
  /\ business' = "loop" /\ job' = <<>>
  /\ UNCHANGED <<eventfd, toServer, flagVars>>

\* handle_request, which ends in push_to_client_frame: dropped without a notification
\* when the connection has been removed.
BusinessHandles ==
  /\ business = "handling"
  /\ LET id == Head(job).id
         r  == Head(job).request
     IN  IF r \in Unanswered \/ id \notin DOMAIN toClient
         THEN business' = "loop" /\ UNCHANGED toClient
         ELSE business' = "notifying" /\ toClient' = [toClient EXCEPT ![id] = Append(@, r)]
  /\ job' = <<>>
  /\ UNCHANGED <<eventfd, toServer, flagVars>>

BusinessNotifies ==
  /\ business = "notifying"
  /\ business' = "loop" /\ WriteEventFd
  /\ UNCHANGED <<job, toServer, toClient, flagVars>>

Business ==
  /\ alive
  /\ BusinessStarts \/ BusinessChecks \/ BusinessPops \/ BusinessHandles \/ BusinessNotifies
  /\ UNCHANGED <<clientVars, reactorVars, main, fateVars>>

-----------------------------------------------------------------------------
(* The main thread: ServerApp::stop, statement by statement.               *)

StopNetwork ==
  /\ main = "running" /\ MayStop
  /\ networkRuns' = FALSE /\ main' = "stop_business"
  /\ UNCHANGED businessRuns

StopBusiness ==
  /\ main = "stop_business"
  /\ businessRuns' = FALSE /\ main' = "join_business"
  /\ UNCHANGED networkRuns

JoinBusiness ==
  /\ main = "join_business" /\ business = "exited"
  /\ main' = "join_network"
  /\ UNCHANGED flagVars

JoinNetwork ==
  /\ main = "join_network" /\ reactor \in {"exited", "none"}
  /\ main' = "stopped"
  /\ UNCHANGED flagVars

Main ==
  /\ alive
  /\ StopNetwork \/ StopBusiness \/ JoinBusiness \/ JoinNetwork
  /\ UNCHANGED <<clientVars, reactorVars, businessVars, mailVars, fateVars>>

-----------------------------------------------------------------------------
Next == Reactor \/ Business \/ Main \/ \E c \in Clients : Client(c)

Spec == Init /\ [][Next]_vars

\* Both threads run whenever they can, the main thread goes on once it stops the
\* server, and a client that is connected reads its answers.
Fairness ==
  /\ WF_vars(Reactor)
  /\ WF_vars(Business)
  /\ WF_vars(main # "running" /\ Main)
  /\ \A c \in Clients : WF_vars(full[c] /\ Client(c) /\ ~full'[c])

FairSpec == Spec /\ Fairness

-----------------------------------------------------------------------------
(* Properties.                                                             *)

\* Every variable has its type.
Context == [id : Nat, client : Clients, out : Seq(Request), pollOut : BOOLEAN]
Frame == [id : Nat, request : Request]

TypeOK ==
  /\ peer \in [Clients -> {"away", "open", "closed", "refused", "lost"}]
  /\ sent \in [Clients -> Nat] /\ full \in [Clients -> BOOLEAN]
  /\ replies \in [Clients -> Seq(Request)] /\ toRead \in [Clients -> Seq(Request)]
  /\ backlog \in Seq(Clients) /\ eventfd \in BOOLEAN
  /\ reactor \in {"none", "new", "loop", "waiting", "events", "accepting", "exited"}
  /\ \A e \in batch : \/ e.on \in Watched /\ e.kinds = {}
                      \/ e.on = "socket" /\ e.fd \in Fds /\ e.kinds \subseteq {"hup", "in", "out"}
  /\ frames \in Seq(Frame) /\ toFlush \subseteq Fds /\ iterating \in BOOLEAN
  /\ DOMAIN contexts \subseteq Fds /\ \A fd \in DOMAIN contexts : contexts[fd] \in Context
  /\ nextId \in Nat
  /\ toServer \in Seq(Frame) /\ Len(toServer) <= Capacity
  /\ DOMAIN toClient = {contexts[fd].id : fd \in DOMAIN contexts}
  /\ \A id \in DOMAIN toClient : toClient[id] \in Seq(Request)
  /\ business \in {"new", "loop", "popping", "handling", "notifying", "exited"}
  /\ job \in Seq(Frame) /\ Len(job) <= 1
  /\ networkRuns \in BOOLEAN /\ businessRuns \in BOOLEAN
  /\ main \in {"running", "stop_business", "join_business", "join_network", "stopped"}
  /\ alive \in BOOLEAN /\ corrupted \in BOOLEAN

\* A client is sent the answers to its own requests, each once and in the order in
\* which it asked, and none is left out: whatever connections come and go on the same
\* descriptors meanwhile.
Answerable(c, n) == ({c} \X (1..n)) \ Unanswered

InOrder(answers, c, n) ==
  /\ \A i \in 1..Len(answers) : answers[i] \in Answerable(c, n)
  /\ \A i, j \in 1..Len(answers) : i < j => answers[i][2] < answers[j][2]
  /\ \A i \in 1..Len(answers) : \A r \in Answerable(c, n) :
       r[2] <= answers[i][2] => \E j \in 1..Len(answers) : answers[j] = r

AnswersInOrder == \A c \in Clients : InOrder(replies[c], c, sent[c])

\* The reactor never sleeps on an answer: when epoll_wait has nothing to report and the
\* business thread is not about to notify, an answer that has not been sent belongs to
\* a connection whose send buffer is full, with EPOLLOUT on.
NoAnswerStranded ==
  reactor = "waiting" /\ Ready = {} /\ business # "notifying" /\ ~corrupted =>
    \A fd \in DOMAIN contexts :
      Pending(fd) # <<>> => full[contexts[fd].client] /\ contexts[fd].pollOut

\* The server closes no connection that its client still uses, unless the loop over an
\* erased connection went wrong: an event of a batch is not handled for a newer
\* connection that was given the same descriptor.
NoOpenConnectionDropped ==
  ~corrupted => \A c \in Clients : peer[c] # "lost"

\* Every request gets its answer while its client stays, and neither thread ends up
\* waiting for the other for ever.
EveryRequestAnswered ==
  \A c \in Clients : \A n \in 1..Sends[c] :
    <<c, n>> \notin Unanswered /\ sent[c] >= n ~>
      \/ \E i \in DOMAIN replies[c] : replies[c][i] = <<c, n>>
      \/ peer[c] # "open" \/ corrupted \/ ~alive \/ main # "running"

\* stop() comes to an end (server_app.hpp l. 48-49).
StopReturns == main = "stop_business" ~> main = "stopped" \/ ~alive

\* It does, but for three ways of being stuck: the business thread blocked in pop on a
\* queue that stays empty, the reactor blocked in push on a queue that stays full after
\* the business thread has left, and a thread whose run() began after stop().
StuckInPop  == business = "popping" /\ toServer = <<>>
StuckInPush == business = "exited" /\ frames # <<>> /\ Len(toServer) = Capacity
StartedLate == networkRuns \/ businessRuns

StopReturnsUnlessStuck ==
  [](main = "stop_business" => \/ <>(main = "stopped" \/ ~alive)
                               \/ <>[]StuckInPop \/ <>[]StuckInPush \/ <>[]StartedLate)
=============================================================================
