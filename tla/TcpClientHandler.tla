--------------------------- MODULE TcpClientHandler ---------------------------
(***************************************************************************)
(* tcp_client_handler (network/modules/tcp_client_handler.cpp), Linux      *)
(* build.  start() has no guard: every call spawns a generation of four    *)
(* threads.  The connect thread tries until _connected is set, which       *)
(* nothing resets, then calls read() once; the epoll thread calls read()   *)
(* for every event; recv() and send() block: the socket stays blocking.    *)
(* register_callback(), as in UdpHandler, is left out: handled is the      *)
(* order in which the chunks get their turn.                               *)
(*                                                                         *)
(* Sockets are numbered in the order they are opened and never renumbered; *)
(* 0 is NULL and -1 any other value that names no socket.  An epoll        *)
(* instance is named by the socket it watches.                             *)
(***************************************************************************)
EXTENDS Integers, Sequences

CONSTANTS
  Callers,   \* threads of the application
  MaxStart,  \* bound: start() calls
  MaxTry,    \* bound: sockets opened
  MaxSend,   \* bound: messages passed to send_message
  MaxChunk   \* bound: chunks of data the server sends

ASSUME BoundsAssumption ==
  MaxStart \in Nat \ {0} /\ MaxTry \in Nat \ {0} /\ MaxSend \in Nat /\ MaxChunk \in Nat

Gens     == 1..MaxStart
Sockets  == 1..MaxTry
Messages == 1..MaxSend
Chunks   == 1..MaxChunk
Readers  == {"connect", "epoll"} \X Gens   \* the threads that run read()

VARIABLES
  is_running, client_socket, connected, gens, caller_pc,
  opened, sock,            \* sockets opened so far; what has become of each
  watched, edge, epoll_fd, \* live epoll instances, pending events, the member
  rcvbuf, gone, chunks,    \* data received and not read, peers that left
  pc,                      \* the threads that run read()
  on,                      \* the socket a thread is blocked on, in connect() or recv()
  chunk,                   \* the chunk in its hand
  waits,                   \* the epoll instance each epoll thread waits on
  write_pc, message, errno,
  into,                    \* the socket a send() is blocked on
  outbound_q, queued, sent,
  inbound_q, read_mutex, callback_pc, handled,
  hung,                    \* callback threads inside a callback that never returns
  first_read,              \* chunks the connect threads took
  crashed

life    == <<is_running, gens, caller_pc>>
network == <<rcvbuf, gone, chunks>>
reader  == <<pc, on, chunk, waits, first_read>>
writer  == <<write_pc, message, errno, into, sent>>
outq    == <<outbound_q, queued>>
user    == <<callback_pc, hung, handled>>
kernel  == <<opened, sock, watched, edge>>
vars    == <<life, client_socket, connected, kernel, epoll_fd, network, reader, writer, outq,
             inbound_q, read_mutex, user, crashed>>

Elements(q) == {q[i] : i \in DOMAIN q}

LifeType ==
  /\ is_running \in BOOLEAN /\ gens \in 0..MaxStart
  /\ caller_pc \in [Callers -> {"idle", "join", "close", "null", "rejoin"}]
SocketType ==
  /\ client_socket \in -1..MaxTry /\ connected \in BOOLEAN /\ epoll_fd \in 0..MaxTry
  /\ opened \in 0..MaxTry /\ sock \in [Sockets -> {"none", "open", "bound", "up", "closed"}]
  /\ watched \in SUBSET Sockets /\ edge \in SUBSET Sockets
NetworkType == rcvbuf \in [Sockets -> Seq(Chunks)] /\ gone \in SUBSET Sockets /\ chunks \in 0..MaxChunk
ReaderType ==
  /\ pc \in [Readers -> {"none", "loop", "bind", "connect", "connecting", "peer", "watch",
                         "wait", "read", "recv", "push", "done"}]
  /\ on \in [Readers -> 0..MaxTry] /\ chunk \in [Readers -> 0..MaxChunk]
  /\ \A r \in Readers : pc[r] = "push" => chunk[r] # 0
  /\ waits \in [Gens -> 0..MaxTry] /\ first_read \in SUBSET Chunks
WriterType ==
  /\ write_pc \in [Gens -> {"none", "check", "lock", "send"}] /\ into \in [Gens -> 0..MaxTry]
  /\ message \in [Gens -> 0..MaxSend] /\ errno \in [Gens -> BOOLEAN] /\ sent \in Seq(Messages)
OutType == outbound_q \in Seq(Messages) /\ queued \in 0..MaxSend
InType ==
  /\ inbound_q \in Seq(Chunks) /\ read_mutex \in 0..MaxStart
  /\ callback_pc \in [Gens -> {"none", "check", "lock", "call", "pop"}] /\ hung \in SUBSET Gens
  /\ handled \in Seq(Chunks)
TypeOK ==
  /\ LifeType /\ SocketType /\ NetworkType /\ ReaderType /\ WriterType /\ OutType /\ InType
  /\ crashed \in {"no", "empty_front", "sigpipe", "self_join"}

\* The constructor leaves _client_socket indeterminate: NULL or not.
Init ==
  /\ is_running = FALSE /\ client_socket \in {0, -1} /\ connected = FALSE
  /\ gens = 0 /\ caller_pc = [c \in Callers |-> "idle"]
  /\ opened = 0 /\ sock = [s \in Sockets |-> "none"]
  /\ watched = {} /\ edge = {} /\ epoll_fd = 0
  /\ rcvbuf = [s \in Sockets |-> <<>>] /\ gone = {} /\ chunks = 0
  /\ pc = [r \in Readers |-> "none"] /\ on = [r \in Readers |-> 0]
  /\ chunk = [r \in Readers |-> 0] /\ waits = [g \in Gens |-> 0] /\ first_read = {}
  /\ write_pc = [g \in Gens |-> "none"] /\ message = [g \in Gens |-> 0]
  /\ errno = [g \in Gens |-> FALSE] /\ into = [g \in Gens |-> 0]
  /\ outbound_q = <<>> /\ queued = 0 /\ sent = <<>>
  /\ inbound_q = <<>> /\ read_mutex = 0 /\ callback_pc = [g \in Gens |-> "none"]
  /\ hung = {} /\ handled = <<>>
  /\ crashed = "no"

Alive == crashed = "no"
State(fd) == IF fd \in Sockets THEN sock[fd] ELSE "none"

\* close(fd): of a number that names no socket it does nothing.
Close(fd) ==
  /\ sock' = [s \in Sockets |-> IF s = fd THEN "closed" ELSE sock[s]]
  /\ watched' = watched \ {fd} /\ edge' = edge \ {fd}
  /\ UNCHANGED opened

-------------------------------------------------------------------------------
(* start() and stop() *)

Start(c) ==
  /\ Alive /\ caller_pc[c] = "idle" /\ gens < MaxStart
  /\ is_running' = TRUE
  /\ gens' = gens + 1
  /\ pc' = [r \in Readers |-> IF r[2] = gens + 1 THEN "loop" ELSE pc[r]]
  /\ callback_pc' = [callback_pc EXCEPT ![gens + 1] = "check"]
  /\ write_pc' = [write_pc EXCEPT ![gens + 1] = "check"]
  /\ UNCHANGED <<caller_pc, client_socket, connected, kernel, epoll_fd, network, on, chunk, waits, first_read,
                 message, errno, into, sent, outq, inbound_q, read_mutex, hung, handled, crashed>>

\* A NULL member: true at once, whatever threads there are.
StopReturnsEarly(c) ==
  /\ Alive /\ caller_pc[c] = "idle" /\ client_socket = 0
  /\ is_running' = FALSE
  /\ UNCHANGED <<gens, caller_pc, client_socket, connected, kernel, epoll_fd, network, reader, writer, outq,
                 inbound_q, read_mutex, user, crashed>>

StopEnter(c) ==
  /\ Alive /\ caller_pc[c] = "idle" /\ client_socket # 0
  /\ is_running' = FALSE
  /\ caller_pc' = [caller_pc EXCEPT ![c] = "join"]
  /\ UNCHANGED <<gens, client_socket, connected, kernel, epoll_fd, network, reader, writer, outq,
                 inbound_q, read_mutex, user, crashed>>

\* The join loops end only when there is no thread: the callback and the write
\* thread never end.  Another thread may start them between the two.
StopJoins(c) ==
  /\ Alive /\ caller_pc[c] = "join" /\ gens = 0
  /\ caller_pc' = [caller_pc EXCEPT ![c] = "close"]
  /\ UNCHANGED <<is_running, gens, client_socket, connected, kernel, epoll_fd, network, reader, writer, outq,
                 inbound_q, read_mutex, user, crashed>>

\* shutdown() and close(): a recv() or send() blocked on the socket returns.
StopCloses(c) ==
  /\ Alive /\ caller_pc[c] = "close"
  /\ Close(client_socket)
  /\ gone' = gone \cup ({client_socket} \cap Sockets)
  /\ caller_pc' = [caller_pc EXCEPT ![c] = "null"]
  /\ UNCHANGED <<is_running, gens, client_socket, connected, epoll_fd, rcvbuf, chunks, reader, writer, outq,
                 inbound_q, read_mutex, user, crashed>>

StopClears(c) ==
  /\ Alive /\ caller_pc[c] = "null"
  /\ client_socket' = 0
  /\ caller_pc' = [caller_pc EXCEPT ![c] = "rejoin"]
  /\ UNCHANGED <<is_running, gens, connected, kernel, epoll_fd, network, reader, writer, outq,
                 inbound_q, read_mutex, user, crashed>>

StopReturns(c) ==
  /\ Alive /\ caller_pc[c] = "rejoin" /\ gens = 0
  /\ caller_pc' = [caller_pc EXCEPT ![c] = "idle"]
  /\ UNCHANGED <<is_running, gens, client_socket, connected, kernel, epoll_fd, network, reader, writer, outq,
                 inbound_q, read_mutex, user, crashed>>

-------------------------------------------------------------------------------
(* the connect thread: attempt_to_connect() until _connected               *)

Step(r, here, there) ==
  /\ Alive /\ pc[r] = here
  /\ pc' = [pc EXCEPT ![r] = there]

ConnectDone(g) ==
  /\ Step(<<"connect", g>>, "loop", "done") /\ connected
  /\ UNCHANGED <<life, client_socket, connected, kernel, epoll_fd, network, on, chunk, waits, first_read,
                 writer, outq, inbound_q, read_mutex, user, crashed>>

\* Every later step looks at the member again, not at the socket opened here.
ConnectOpens(g) ==
  /\ Step(<<"connect", g>>, "loop", "bind") /\ ~connected /\ opened < MaxTry
  /\ opened' = opened + 1
  /\ client_socket' = opened + 1
  /\ sock' = [sock EXCEPT ![opened + 1] = "open"]
  /\ UNCHANGED <<life, connected, watched, edge, epoll_fd, network, on, chunk, waits, first_read,
                 writer, outq, inbound_q, read_mutex, user, crashed>>

ConnectOpenFails(g) ==
  /\ Step(<<"connect", g>>, "loop", "loop") /\ ~connected
  /\ client_socket' = -1
  /\ UNCHANGED <<life, connected, kernel, epoll_fd, network, on, chunk, waits, first_read,
                 writer, outq, inbound_q, read_mutex, user, crashed>>

\* bind() fails when another socket has the configured port, unless it is 0: any.
ConnectBinds(g) ==
  /\ Step(<<"connect", g>>, "bind", "connect") /\ State(client_socket) = "open"
  /\ sock' = [sock EXCEPT ![client_socket] = "bound"]
  /\ UNCHANGED <<life, client_socket, connected, opened, watched, edge, epoll_fd, network, on, chunk, waits,
                 first_read, writer, outq, inbound_q, read_mutex, user, crashed>>
\* Mutant: bind() or connect() fails and the socket is not closed.
GivesUpOpen(g) ==
  /\ \E here \in {"bind", "connecting"} : Step(<<"connect", g>>, here, "loop")
  /\ client_socket' = -1
  /\ on' = [on EXCEPT ![<<"connect", g>>] = 0]
  /\ UNCHANGED <<life, connected, kernel, epoll_fd, network, chunk, waits, first_read,
                 writer, outq, inbound_q, read_mutex, user, crashed>>

\* bind() or connect() fails: what the member names now is closed.
ConnectGivesUp(g) ==
  /\ \E here \in {"bind", "connecting"} : Step(<<"connect", g>>, here, "loop")
  /\ Close(client_socket)
  /\ client_socket' = -1
  /\ on' = [on EXCEPT ![<<"connect", g>>] = 0]
  /\ UNCHANGED <<life, connected, epoll_fd, network, chunk, waits, first_read,
                 writer, outq, inbound_q, read_mutex, user, crashed>>

\* A socket of the other connect thread that is not bound yet gets a port by it.
ConnectCalls(g) ==
  /\ Step(<<"connect", g>>, "connect", "connecting")
  /\ on' = [on EXCEPT ![<<"connect", g>>] = IF State(client_socket) \in {"open", "bound"}
                                                    THEN client_socket ELSE 0]
  /\ UNCHANGED <<life, client_socket, connected, kernel, epoll_fd, network, chunk, waits, first_read,
                 writer, outq, inbound_q, read_mutex, user, crashed>>

\* It may, too, on a socket closed in the meantime by the other connect thread.
ConnectSucceeds(g) ==
  /\ Step(<<"connect", g>>, "connecting", "peer") /\ on[<<"connect", g>>] # 0
  /\ sock' = [sock EXCEPT ![on[<<"connect", g>>]] = IF @ \in {"open", "bound"} THEN "up" ELSE @]
  /\ on' = [on EXCEPT ![<<"connect", g>>] = 0]
  /\ UNCHANGED <<life, client_socket, connected, opened, watched, edge, epoll_fd, network, chunk, waits,
                 first_read, writer, outq, inbound_q, read_mutex, user, crashed>>

ConnectNamesPeer(g) ==
  /\ Step(<<"connect", g>>, "peer", "watch") /\ State(client_socket) = "up"
  /\ UNCHANGED <<life, client_socket, connected, kernel, epoll_fd, network, on, chunk, waits, first_read,
                 writer, outq, inbound_q, read_mutex, user, crashed>>

\* getpeername() (always, when the member names no connected socket), epoll_create1
\* or epoll_ctl fails: the socket is closed and the member keeps its number.
ConnectDrops(g) ==
  /\ \/ Step(<<"connect", g>>, "peer", "loop") /\ UNCHANGED epoll_fd
     \/ Step(<<"connect", g>>, "watch", "loop") /\ epoll_fd' = 0
  /\ Close(client_socket)
  /\ UNCHANGED <<life, client_socket, connected, network, on, chunk, waits, first_read,
                 writer, outq, inbound_q, read_mutex, user, crashed>>

ConnectWatches(g) ==
  /\ Step(<<"connect", g>>, "watch", "read") /\ State(client_socket) \in {"open", "bound", "up"}
  /\ epoll_fd' = client_socket
  /\ watched' = watched \cup {client_socket}
  /\ edge' = IF rcvbuf[client_socket] # <<>> \/ client_socket \in gone
             THEN edge \cup {client_socket} ELSE edge
  /\ connected' = TRUE
  /\ UNCHANGED <<life, client_socket, opened, sock, network, on, chunk, waits, first_read,
                 writer, outq, inbound_q, read_mutex, user, crashed>>

-------------------------------------------------------------------------------
(* the epoll thread, read() and on_read()                                  *)

\* epoll_wait() on what the member names once _connected is seen.
EpollWaits(g) ==
  /\ Step(<<"epoll", g>>, "loop", "wait") /\ connected
  /\ waits' = [waits EXCEPT ![g] = epoll_fd]
  /\ UNCHANGED <<life, client_socket, connected, kernel, epoll_fd, network, on, chunk, first_read,
                 writer, outq, inbound_q, read_mutex, user, crashed>>

EpollReturns(g) ==
  /\ Step(<<"epoll", g>>, "wait", "read") /\ waits[g] \in edge
  /\ edge' = edge \ {waits[g]}
  /\ UNCHANGED <<life, client_socket, connected, opened, sock, watched, epoll_fd, network, on, chunk, waits,
                 first_read, writer, outq, inbound_q, read_mutex, user, crashed>>

\* epoll_wait() returns -1: the thread closes the socket and the instance, and ends.
EpollFails(g) ==
  /\ Step(<<"epoll", g>>, "wait", "done")
  /\ sock' = [s \in Sockets |-> IF s = client_socket THEN "closed" ELSE sock[s]]
  /\ watched' = watched \ {client_socket, epoll_fd} /\ edge' = edge \ {client_socket, epoll_fd}
  /\ UNCHANGED <<life, client_socket, connected, opened, epoll_fd, network, on, chunk, waits, first_read,
                 writer, outq, inbound_q, read_mutex, user, crashed>>

\* The connect thread's loop ends after its one read(), the epoll thread's goes on.
Recv(r) ==
  /\ Step(r, "read", "recv") /\ State(client_socket) = "up"
  /\ on' = [on EXCEPT ![r] = client_socket]
  /\ UNCHANGED <<life, client_socket, connected, kernel, epoll_fd, network, chunk, waits, first_read,
                 writer, outq, inbound_q, read_mutex, user, crashed>>

RecvRefused(r) ==
  /\ Step(r, "read", "loop") /\ State(client_socket) # "up"
  /\ UNCHANGED <<life, client_socket, connected, kernel, epoll_fd, network, on, chunk, waits, first_read,
                 writer, outq, inbound_q, read_mutex, user, crashed>>

\* A recv() that another thread's close() finds blocked stays blocked on the socket.
RecvTakes(r) ==
  /\ Step(r, "recv", "push") /\ rcvbuf[on[r]] # <<>>
  /\ chunk' = [chunk EXCEPT ![r] = Head(rcvbuf[on[r]])]
  /\ rcvbuf' = [rcvbuf EXCEPT ![on[r]] = Tail(@)]
  /\ on' = [on EXCEPT ![r] = 0]
  /\ first_read' = IF r[1] = "connect" THEN first_read \cup {Head(rcvbuf[on[r]])} ELSE first_read
  /\ UNCHANGED <<life, client_socket, connected, kernel, epoll_fd, gone, chunks, waits,
                 writer, outq, inbound_q, read_mutex, user, crashed>>
\* Mutant: on_read() is called whatever recv() returned.
EndsUntested(r) ==
  /\ Step(r, "recv", "push") /\ rcvbuf[on[r]] = <<>> /\ on[r] \in gone
  /\ on' = [on EXCEPT ![r] = 0]
  /\ UNCHANGED <<life, client_socket, connected, kernel, epoll_fd, network, chunk, waits, first_read,
                 writer, outq, inbound_q, read_mutex, user, crashed>>

RecvEnds(r) ==
  /\ Step(r, "recv", "loop") /\ rcvbuf[on[r]] = <<>> /\ on[r] \in gone
  /\ on' = [on EXCEPT ![r] = 0]
  /\ UNCHANGED <<life, client_socket, connected, kernel, epoll_fd, network, chunk, waits, first_read,
                 writer, outq, inbound_q, read_mutex, user, crashed>>
\* Mutant: on_read() queues at the front.
PushFront(r) ==
  /\ Step(r, "push", "loop") /\ read_mutex = 0
  /\ inbound_q' = <<chunk[r]>> \o inbound_q
  /\ chunk' = [chunk EXCEPT ![r] = 0]
  /\ UNCHANGED <<life, client_socket, connected, kernel, epoll_fd, network, on, waits, first_read,
                 writer, outq, read_mutex, user, crashed>>

Push(r) ==
  /\ Step(r, "push", "loop") /\ read_mutex = 0
  /\ inbound_q' = Append(inbound_q, chunk[r])
  /\ chunk' = [chunk EXCEPT ![r] = 0]
  /\ UNCHANGED <<life, client_socket, connected, kernel, epoll_fd, network, on, waits, first_read,
                 writer, outq, read_mutex, user, crashed>>

-------------------------------------------------------------------------------
(* send_message() and write() *)

SendMessage ==
  /\ Alive /\ queued < MaxSend
  /\ queued' = queued + 1
  /\ outbound_q' = Append(outbound_q, queued + 1)
  /\ UNCHANGED <<life, client_socket, connected, kernel, epoll_fd, network, reader, writer,
                 inbound_q, read_mutex, user, crashed>>
\* Mutant: write() is not called any more after stop().
ChecksRunning(g) ==
  /\ Alive /\ write_pc[g] = "check" /\ connected /\ is_running /\ outbound_q # <<>>
  /\ write_pc' = [write_pc EXCEPT ![g] = "lock"]
  /\ UNCHANGED <<life, client_socket, connected, kernel, epoll_fd, network, reader, message, errno, into, sent, outq,
                 inbound_q, read_mutex, user, crashed>>

\* _outbound_q.empty() is read without the mutex.
WriteChecks(g) ==
  /\ Alive /\ write_pc[g] = "check" /\ connected /\ outbound_q # <<>>
  /\ write_pc' = [write_pc EXCEPT ![g] = "lock"]
  /\ UNCHANGED <<life, client_socket, connected, kernel, epoll_fd, network, reader, message, errno, into, sent, outq,
                 inbound_q, read_mutex, user, crashed>>

WritePops(g) ==
  /\ Alive /\ write_pc[g] = "lock"
  /\ \/ /\ outbound_q # <<>>
        /\ message' = [message EXCEPT ![g] = Head(outbound_q)]
        /\ outbound_q' = Tail(outbound_q)
        /\ write_pc' = [write_pc EXCEPT ![g] = "send"]
        /\ UNCHANGED crashed
     \/ /\ outbound_q = <<>>
        /\ crashed' = "empty_front"
        /\ UNCHANGED <<message, outbound_q, write_pc>>
  /\ UNCHANGED <<life, client_socket, connected, kernel, epoll_fd, network, reader, errno, into, sent, queued,
                 inbound_q, read_mutex, user>>

\* send() blocks while the send buffer is full, for as long as the server does not
\* read, and on its socket even after another thread's close().
WriteBlocks(g) ==
  /\ Alive /\ write_pc[g] = "send" /\ into[g] = 0 /\ State(client_socket) = "up"
  /\ into' = [into EXCEPT ![g] = client_socket]
  /\ UNCHANGED <<life, client_socket, connected, kernel, epoll_fd, network, reader, write_pc, message, errno,
                 sent, outq, inbound_q, read_mutex, user, crashed>>

Written(g) ==
  /\ Alive /\ write_pc[g] = "send"
  /\ into' = [into EXCEPT ![g] = 0]
  /\ write_pc' = [write_pc EXCEPT ![g] = "check"]
  /\ message' = [message EXCEPT ![g] = 0]

\* send() succeeds.  The thread's errno is looked at nevertheless: left over from an
\* earlier call, it passes for a disconnection.
WriteSends(g) ==
  /\ Written(g) /\ (into[g] # 0 \/ State(client_socket) = "up")
  /\ sent' = Append(sent, message[g])
  /\ \/ errno[g] /\ is_running' = FALSE /\ Close(client_socket)
     \/ ~errno[g] /\ UNCHANGED <<is_running, kernel>>
  /\ UNCHANGED <<gens, caller_pc, client_socket, connected, epoll_fd, network, reader, errno, outq,
                 inbound_q, read_mutex, user, crashed>>
\* Mutant: a send() that fails does not close the socket.
FailsOpen(g) ==
  /\ Written(g)
  /\ errno' = [errno EXCEPT ![g] = TRUE]
  /\ UNCHANGED <<life, client_socket, connected, kernel, epoll_fd, network, reader, sent, outq,
                 inbound_q, read_mutex, user, crashed>>

\* send() returns -1: the socket is closed, the message is gone.
WriteSendFails(g) ==
  /\ Written(g)
  /\ Close(client_socket)
  /\ errno' = [errno EXCEPT ![g] = TRUE]
  /\ UNCHANGED <<life, client_socket, connected, epoll_fd, network, reader, sent, outq,
                 inbound_q, read_mutex, user, crashed>>

\* send() to a peer that has reset the connection raises SIGPIPE.
WriteSignalled(g) ==
  /\ Alive /\ write_pc[g] = "send"
  /\ \/ into[g] = 0 /\ State(client_socket) = "up" /\ client_socket \in gone
     \/ into[g] \in gone
  /\ crashed' = "sigpipe"
  /\ UNCHANGED <<life, client_socket, connected, kernel, epoll_fd, network, reader, writer, outq,
                 inbound_q, read_mutex, user>>

\* A signal handled during the sleep at the end of write() leaves EINTR in errno,
\* where it matters to the next message only.
WriteInterrupted(g) ==
  /\ Alive /\ write_pc[g] = "check" /\ ~errno[g] /\ outbound_q # <<>>
  /\ errno' = [errno EXCEPT ![g] = TRUE]
  /\ UNCHANGED <<life, client_socket, connected, kernel, epoll_fd, network, reader, write_pc, message, into, sent,
                 outq, inbound_q, read_mutex, user, crashed>>

-------------------------------------------------------------------------------
(* the callback thread *)
\* Mutant: the callback thread does not test empty().
ChecksUntested(g) ==
  /\ Alive /\ callback_pc[g] = "check"
  /\ callback_pc' = [callback_pc EXCEPT ![g] = "lock"]
  /\ UNCHANGED <<life, client_socket, connected, kernel, epoll_fd, network, reader, writer, outq,
                 inbound_q, read_mutex, hung, handled, crashed>>

CallbackChecks(g) ==
  /\ Alive /\ callback_pc[g] = "check" /\ inbound_q # <<>>
  /\ callback_pc' = [callback_pc EXCEPT ![g] = "lock"]
  /\ UNCHANGED <<life, client_socket, connected, kernel, epoll_fd, network, reader, writer, outq,
                 inbound_q, read_mutex, hung, handled, crashed>>
\* Mutant: a callback thread that does not take _read_mutex.
LocksShared(g) ==
  /\ Alive /\ callback_pc[g] = "lock"
  /\ \/ /\ inbound_q # <<>>
        /\ callback_pc' = [callback_pc EXCEPT ![g] = "call"]
        /\ UNCHANGED <<read_mutex, crashed>>
     \/ /\ inbound_q = <<>>
        /\ crashed' = "empty_front"
        /\ UNCHANGED <<read_mutex, callback_pc>>
  /\ UNCHANGED <<life, client_socket, connected, kernel, epoll_fd, network, reader, writer, outq,
                 inbound_q, hung, handled>>

CallbackLocks(g) ==
  /\ Alive /\ callback_pc[g] = "lock" /\ read_mutex = 0
  /\ \/ /\ inbound_q # <<>>
        /\ read_mutex' = g
        /\ callback_pc' = [callback_pc EXCEPT ![g] = "call"]
        /\ UNCHANGED crashed
     \/ /\ inbound_q = <<>>
        /\ crashed' = "empty_front"
        /\ UNCHANGED <<read_mutex, callback_pc>>
  /\ UNCHANGED <<life, client_socket, connected, kernel, epoll_fd, network, reader, writer, outq,
                 inbound_q, hung, handled>>

CallbackCalls(g) ==
  /\ Alive /\ callback_pc[g] = "call"
  /\ handled' = Append(handled, Head(inbound_q))
  /\ callback_pc' = [callback_pc EXCEPT ![g] = "pop"]
  /\ UNCHANGED <<life, client_socket, connected, kernel, epoll_fd, network, reader, writer, outq,
                 inbound_q, read_mutex, hung, crashed>>

\* The callback may not return, and it may call stop(), which returns with a NULL
\* member and joins the connect and the epoll thread, for ever unless they have
\* ended: then stop() throws out of its second loop, as the thread joins itself.
CallbackStays(g) ==
  /\ Alive /\ callback_pc[g] = "pop" /\ g \notin hung
  /\ is_running' \in {is_running, FALSE}
  /\ \/ hung' \in {hung, hung \cup {g}} /\ UNCHANGED crashed
     \/ /\ \A kind \in {"connect", "epoll"} : pc[<<kind, 1>>] = "done"
        /\ crashed' = "self_join" /\ UNCHANGED hung
  /\ UNCHANGED <<gens, caller_pc, client_socket, connected, kernel, epoll_fd, network, reader, writer, outq,
                 inbound_q, read_mutex, callback_pc, handled>>
\* Mutant: the loop of the callback thread is while (_is_running).
PopsRunning(g) ==
  /\ Alive /\ callback_pc[g] = "pop" /\ g \notin hung
  /\ inbound_q' = Tail(inbound_q)
  /\ read_mutex' = 0
  /\ callback_pc' = [callback_pc EXCEPT ![g] = IF is_running THEN "check" ELSE "none"]
  /\ UNCHANGED <<life, client_socket, connected, kernel, epoll_fd, network, reader, writer, outq,
                 hung, handled, crashed>>

CallbackPops(g) ==
  /\ Alive /\ callback_pc[g] = "pop" /\ g \notin hung
  /\ inbound_q' = Tail(inbound_q)
  /\ read_mutex' = 0
  /\ callback_pc' = [callback_pc EXCEPT ![g] = "check"]
  /\ UNCHANGED <<life, client_socket, connected, kernel, epoll_fd, network, reader, writer, outq,
                 hung, handled, crashed>>

-------------------------------------------------------------------------------
(* the server, the specification *)

\* The kernel keeps the connection while a recv() is blocked on it.
ServerSends(s) ==
  /\ Alive /\ s \notin gone /\ chunks < MaxChunk
  /\ sock[s] = "up" \/ \E r \in Readers : on[r] = s /\ pc[r] = "recv"
  /\ chunks' = chunks + 1
  /\ rcvbuf' = [rcvbuf EXCEPT ![s] = Append(@, chunks + 1)]
  /\ edge' = edge \cup ({s} \cap watched)
  /\ UNCHANGED <<life, client_socket, connected, opened, sock, watched, epoll_fd, gone, reader, writer, outq,
                 inbound_q, read_mutex, user, crashed>>

ServerLeaves(s) ==
  /\ Alive /\ s \notin gone
  /\ sock[s] = "up" \/ \E r \in Readers : on[r] = s /\ pc[r] = "recv"
  /\ gone' = gone \cup {s}
  /\ edge' = edge \cup ({s} \cap watched)
  /\ UNCHANGED <<life, client_socket, connected, opened, sock, watched, epoll_fd, rcvbuf, chunks, reader,
                 writer, outq, inbound_q, read_mutex, user, crashed>>

Caller(c) ==
  \/ Start(c) \/ StopReturnsEarly(c) \/ StopEnter(c)
  \/ StopJoins(c) \/ StopCloses(c) \/ StopClears(c) \/ StopReturns(c)
ConnectThread(g) ==
  \/ ConnectDone(g) \/ ConnectOpens(g) \/ ConnectOpenFails(g) \/ ConnectBinds(g) \/ ConnectGivesUp(g)
  \/ ConnectCalls(g) \/ ConnectSucceeds(g) \/ ConnectNamesPeer(g) \/ ConnectDrops(g) \/ ConnectWatches(g)
EpollThread(g) == EpollWaits(g) \/ EpollReturns(g)
ReadSteps(r) == Recv(r) \/ RecvRefused(r) \/ RecvTakes(r) \/ RecvEnds(r) \/ Push(r)
WriteThread(g) ==
  WriteChecks(g) \/ WritePops(g) \/ WriteSends(g) \/ WriteSendFails(g) \/ WriteSignalled(g)
CallbackThread(g) ==
  CallbackChecks(g) \/ CallbackLocks(g) \/ CallbackCalls(g) \/ CallbackPops(g)

Next ==
  \/ \E c \in Callers : Caller(c)
  \/ \E g \in Gens :
       \/ ConnectThread(g) \/ EpollThread(g) \/ EpollFails(g)
       \/ WriteThread(g) \/ WriteBlocks(g) \/ WriteInterrupted(g) \/ CallbackThread(g) \/ CallbackStays(g)
  \/ \E r \in Readers : ReadSteps(r)
  \/ SendMessage
  \/ \E s \in Sockets : ServerSends(s) \/ ServerLeaves(s)

\* The scheduler runs every thread that can run; connect() may fail for ever, a send()
\* block for ever and a callback never return.
Fairness ==
  /\ \A g \in Gens : WF_vars(EpollThread(g)) /\ WF_vars(into[g] = 0 /\ WriteThread(g)) /\ WF_vars(CallbackThread(g))
  /\ \A r \in Readers : WF_vars(ReadSteps(r))

Spec == Init /\ [][Next]_vars
FairSpec == Spec /\ Fairness

-------------------------------------------------------------------------------
(* Properties *)

\* The server sees a gap-free prefix of the messages as long as one write thread
\* runs: after a send() that fails, or one that passes for a failure, none is sent.
SentIsPrefix == gens <= 1 => \A i \in DOMAIN sent : sent[i] = i

\* Chunks reach the callback once each and in the order the server sent them, but
\* for the one the connect thread's own read() takes: the epoll thread may take
\* the next one and queue it first.
InOrderButFirst ==
  /\ \A i, j \in DOMAIN handled : i # j => handled[i] # handled[j]
  /\ gens <= 1 => \A i, j \in DOMAIN handled :
       i < j /\ {handled[i], handled[j]} \cap first_read = {} => handled[i] < handled[j]

\* However bind(), connect() or epoll fail, one start() leaves no socket open but
\* the one _client_socket names, when one thread makes the calls (the end of a
\* stop() that another one overtakes may overwrite the member).
NoSocketLeaks ==
  gens <= 1 => {s \in Sockets : sock[s] \in {"open", "bound", "up"}} \subseteq {client_socket}

\* Both consumers take front() of a queue they tested unlocked: the process dies of
\* it only after a second start().
OneStartNeverUnderflows == crashed = "empty_front" => gens > 1

\* The inbound side, from on_read() on, is a FIFO pipe that serves one chunk at a
\* time, with any number of callback threads (MessagePipe).
Turn == \E g \in Gens : callback_pc[g] = "pop"
Inbound == INSTANCE MessagePipe WITH
  Items <- Chunks,
  offered <- handled \o (IF Turn THEN Tail(inbound_q) ELSE inbound_q),
  taken <- Len(handled),
  serving <- IF Turn THEN Head(inbound_q) ELSE 0
InboundIsPipe == Inbound!Spec

\* Once connected, a message is eventually taken by a write thread, and sent or
\* dropped, unless a send() blocks for ever; a chunk some thread has received reaches
\* its turn in the callback thread, unless a callback never returns.
Stuck == \E g \in Gens : into[g] # 0
MessagesServed ==
  \A m \in Messages :
    (connected /\ m <= queued) ~>
      (~Alive \/ []Stuck \/ (m \notin Elements(outbound_q) /\ \A g \in Gens : message[g] # m))
ChunksServed ==
  \A n \in Chunks :
    (n \in Elements(inbound_q) \/ \E r \in Readers : chunk[r] = n) ~>
      (n \in Elements(handled) \/ hung # {} \/ ~Alive)
===============================================================================
