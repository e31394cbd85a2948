--------------------------- MODULE TcpServerHandler ---------------------------
(***************************************************************************)
(* tcp_server_handler (network/modules/tcp_server_handler.cpp), Linux      *)
(* build: one listening socket and any number of clients watched by an     *)
(* edge-triggered epoll instance.  write() is run by the write thread AND, *)
(* out of accept_connection(), by the epoll thread; both hold _contexts_   *)
(* mutex shared, so the client maps and the outbound queue have two        *)
(* writers.  read() calls accept_connection() when no client is left, and  *)
(* accept_connection() calls read(): the epoll thread recurses.            *)
(*                                                                         *)
(* Connections, messages and chunks of received data are numbered in the   *)
(* order they reach the host, are accepted by send_message() and reach the *)
(* host.  A map is a function from the keys that gives 0 for an absent     *)
(* one; one call on a std::map is one step.                                *)
(***************************************************************************)
EXTENDS Integers, Sequences

CONSTANTS
  Callers,   \* threads of the application
  Registrants, \* those of them that may call register_callback
  MaxConn,   \* bound: connections that reach the listening socket
  MaxSend,   \* bound: messages passed to send_message
  MaxChunk,  \* bound: chunks of data the clients send
  Leavers,   \* bound: connections whose peer may close them
  MaxStray,  \* bound: times the process survives ++ of an erased iterator during one message
  MaxStart   \* bound: start() calls that get past the _is_running test

ASSUME BoundsAssumption ==
  /\ MaxConn \in Nat \ {0} /\ MaxSend \in Nat /\ MaxChunk \in Nat /\ MaxStart \in Nat \ {0}
  /\ MaxStray \in Nat

Conns    == 1..MaxConn
Keys     == 0..(MaxConn - 1)   \* values of _num_users_entered at an accept
End      == MaxConn            \* the end() iterator
Messages == 1..MaxSend
Chunks   == 1..MaxChunk
Writers  == {"epoll", "write"} \* the two threads that run write()

VARIABLES
  is_running, server_socket,  \* what _server_socket names: nothing, the listener, a closed socket
  caller_pc, starts,
  listener, epoll_open,       \* the listening socket and the epoll instance are open
  reached, accepted,          \* connections so far; those accepted are 1..accepted
  listen_edge, client_edge,   \* events epoll_wait has not returned yet
  rcvbuf, gone, closed,       \* per connection: received data, peer left, we closed it
  sender,                     \* whose chunk each one is
  epoll_pc, depth,            \* the epoll thread and how deep its calls are nested
  rpos, chunk,                \* read(): its iterator, the chunk in hand
  newly_added, client_socket, num_users_entered, connected,
  write_pc, pos, message,     \* write(), by thread: its iterator, the message popped
  received,                   \* messages send() has taken for each connection
  audience,                   \* the clients in the map when a message's turn came
  strays,                     \* how often the iterator of its write() was advanced after its element was gone
  outbound_q, queued,
  inbound_q, callback_pc, receive_callback, handled,
  hung,                       \* the callback never returns
  crashed

life   == <<is_running, server_socket, caller_pc, starts>>
net    == <<listener, epoll_open, reached, accepted, listen_edge, client_edge, rcvbuf, gone, closed,
            sender>>
reader == <<epoll_pc, depth, rpos, chunk>>
users  == <<newly_added, client_socket, num_users_entered, connected>>
writer == <<write_pc, pos, message, received, audience, strays>>
outq   == <<outbound_q, queued>>
user   == <<callback_pc, receive_callback, hung, handled>>
vars   == <<life, net, reader, users, writer, outq, inbound_q, user, crashed>>

Nothing == [k \in Keys |-> 0]
Present(map) == {k \in Keys : map[k] # 0}
Clients(map) == {map[k] : k \in Present(map)}
\* The iterator to the first element with a key of at least k.
From(map, k) ==
  LET S == {x \in Present(map) : x >= k}
  IN  IF S = {} THEN End ELSE CHOOSE x \in S : \A y \in S : x <= y

LifeType ==
  /\ is_running \in BOOLEAN /\ server_socket \in {"none", "listener", "closed"}
  /\ caller_pc \in [Callers -> {"idle", "start", "join", "close", "rejoin", "reg"}] /\ starts \in 0..MaxStart
NetType ==
  /\ listener \in BOOLEAN /\ epoll_open \in BOOLEAN
  /\ reached \in 0..MaxConn /\ accepted \in 0..reached
  /\ listen_edge \in BOOLEAN /\ client_edge \in SUBSET Conns
  /\ rcvbuf \in [Conns -> Seq(Chunks)] /\ gone \in SUBSET Conns /\ closed \in SUBSET Conns
  /\ sender \in Seq(Conns)
ReaderType ==
  /\ epoll_pc \in {"none", "wait", "accept", "write", "read", "scan", "push", "count", "dead"}
  /\ depth \in Nat /\ rpos \in Keys \cup {End} /\ chunk \in 0..MaxChunk
  /\ epoll_pc = "push" => chunk # 0
UsersType ==
  /\ newly_added \in [Keys -> 0..MaxConn] /\ client_socket \in [Keys -> 0..MaxConn]
  /\ num_users_entered \in 0..MaxConn /\ connected \in BOOLEAN
WriterType ==
  /\ write_pc \in [Writers -> {"none", "newly", "clear", "check", "lock", "begin", "send"}]
  /\ pos \in [Writers -> Keys \cup {End}] /\ message \in [Writers -> 0..MaxSend]
  /\ received \in [Conns -> Seq(Messages)] /\ audience \in [Messages -> SUBSET Conns]
  /\ strays \in [Messages -> 0..MaxStray]
OutType == outbound_q \in Seq(Messages) /\ queued \in 0..MaxSend
UserType ==
  /\ inbound_q \in Seq(Chunks) /\ callback_pc \in {"none", "check", "call", "pop"}
  /\ receive_callback \in {"none", "half", "set"} /\ hung \in BOOLEAN /\ handled \in Seq(Chunks)
TypeOK ==
  /\ LifeType /\ NetType /\ ReaderType /\ UsersType /\ WriterType /\ OutType /\ UserType
  /\ crashed \in {"no", "empty_front", "dangling", "map_race", "sigpipe", "half_callback"}

Init ==
  /\ is_running = FALSE /\ server_socket = "none"
  /\ caller_pc = [c \in Callers |-> "idle"] /\ starts = 0
  /\ listener = FALSE /\ epoll_open = FALSE /\ reached = 0 /\ accepted = 0
  /\ listen_edge = FALSE /\ client_edge = {}
  /\ rcvbuf = [c \in Conns |-> <<>>] /\ gone = {} /\ closed = {} /\ sender = <<>>
  /\ epoll_pc = "none" /\ depth = 0 /\ rpos = End /\ chunk = 0
  /\ newly_added = Nothing /\ client_socket = Nothing
  /\ num_users_entered = 0 /\ connected = FALSE
  /\ write_pc = [t \in Writers |-> "none"]
  /\ pos = [t \in Writers |-> End] /\ message = [t \in Writers |-> 0]
  /\ received = [c \in Conns |-> <<>>] /\ audience = [m \in Messages |-> {}]
  /\ strays = [m \in Messages |-> 0]
  /\ outbound_q = <<>> /\ queued = 0 /\ inbound_q = <<>>
  /\ callback_pc = "none" /\ receive_callback = "none" /\ hung = FALSE /\ handled = <<>>
  /\ crashed = "no"

Alive == crashed = "no"
Spawned == callback_pc # "none"

-------------------------------------------------------------------------------
(* start() and stop() *)

StartEnter(c) ==
  /\ Alive /\ caller_pc[c] = "idle" /\ ~is_running /\ starts < MaxStart
  /\ starts' = starts + 1
  /\ caller_pc' = [caller_pc EXCEPT ![c] = "start"]
  /\ UNCHANGED <<is_running, server_socket, net, reader, users, writer, outq, inbound_q, user, crashed>>

\* bind() succeeds only while the port is free.  Bound: one generation of workers
\* (a second one needs an epoll thread that has died; UdpHandler has those).
StartSucceeds(c) ==
  /\ Alive /\ caller_pc[c] = "start" /\ ~listener /\ ~Spawned
  /\ caller_pc' = [caller_pc EXCEPT ![c] = "idle"]
  /\ server_socket' = "listener" /\ listener' = TRUE /\ epoll_open' = TRUE /\ is_running' = TRUE
  /\ epoll_pc' = "wait" /\ callback_pc' = "check"
  /\ write_pc' = [write_pc EXCEPT !["write"] = "newly"]
  /\ UNCHANGED <<starts, reached, accepted, listen_edge, client_edge, rcvbuf, gone, closed, sender,
                 depth, rpos, chunk, users, pos, message, received, audience, strays, outq, inbound_q,
                 receive_callback, hung, handled, crashed>>

\* The member is overwritten before anything can fail: by -1 when socket() does,
\* else by the number of a socket that is closed again.
StartFails(c) ==
  /\ Alive /\ caller_pc[c] = "start"
  /\ caller_pc' = [caller_pc EXCEPT ![c] = "idle"]
  /\ server_socket' \in {"none", "closed"}
  /\ UNCHANGED <<is_running, starts, net, reader, users, writer, outq, inbound_q, user, crashed>>

StopEnter(c) ==
  /\ Alive /\ caller_pc[c] = "idle"
  /\ is_running' = FALSE
  /\ caller_pc' = [caller_pc EXCEPT ![c] = "join"]
  /\ UNCHANGED <<server_socket, starts, net, reader, users, writer, outq, inbound_q, user, crashed>>

\* With workers the first join() never returns; without, another thread may start
\* them before the rest of stop() runs.
StopJoins(c) ==
  /\ Alive /\ caller_pc[c] = "join" /\ ~Spawned
  /\ caller_pc' = [caller_pc EXCEPT ![c] = "close"]
  /\ UNCHANGED <<is_running, server_socket, starts, net, reader, users, writer, outq, inbound_q, user, crashed>>

\* A member that is NULL ends it here (0 and -1 are both "none").
StopReturnsEarly(c) ==
  /\ Alive /\ caller_pc[c] = "close" /\ server_socket = "none"
  /\ caller_pc' = [caller_pc EXCEPT ![c] = "idle"]
  /\ UNCHANGED <<is_running, server_socket, starts, net, reader, users, writer, outq, inbound_q, user, crashed>>

\* Clients, listener and epoll instance are closed, under no lock.
StopCloses(c) ==
  /\ Alive /\ caller_pc[c] = "close"
  /\ closed' = closed \cup Clients(client_socket)
  /\ client_edge' = client_edge \ Clients(client_socket)
  /\ client_socket' = Nothing
  /\ listener' = (listener /\ server_socket # "listener")
  /\ epoll_open' = FALSE
  /\ server_socket' = "none"
  /\ caller_pc' = [caller_pc EXCEPT ![c] = "rejoin"]
  /\ UNCHANGED <<is_running, starts, reached, accepted, listen_edge, rcvbuf, gone, sender, reader,
                 newly_added, num_users_entered, connected, writer, outq, inbound_q, user, crashed>>

\* The second join loop.
StopReturns(c) ==
  /\ Alive /\ caller_pc[c] = "rejoin" /\ ~Spawned
  /\ caller_pc' = [caller_pc EXCEPT ![c] = "idle"]
  /\ UNCHANGED <<is_running, server_socket, starts, net, reader, users, writer, outq, inbound_q, user, crashed>>

-------------------------------------------------------------------------------
(* the epoll thread: the events                                            *)
(* Events are returned one at a time; a second one waits as an edge.       *)

\* The loop compares the event with the member, not with the socket it came from:
\* once the member names another socket, a connection is taken for client data.
EpollReturnsListener ==
  /\ Alive /\ epoll_pc = "wait" /\ epoll_open /\ listen_edge
  /\ listen_edge' = FALSE
  /\ epoll_pc' = IF server_socket = "listener" THEN "accept" ELSE "read"
  /\ UNCHANGED <<life, listener, epoll_open, reached, accepted, client_edge, rcvbuf, gone, closed, sender,
                 depth, rpos, chunk, users, writer, outq, inbound_q, user, crashed>>

EpollReturnsClient(c) ==
  /\ Alive /\ epoll_pc = "wait" /\ epoll_open /\ c \in client_edge
  /\ client_edge' = client_edge \ {c}
  /\ epoll_pc' = "read"
  /\ UNCHANGED <<life, listener, epoll_open, reached, accepted, listen_edge, rcvbuf, gone, closed, sender,
                 depth, rpos, chunk, users, writer, outq, inbound_q, user, crashed>>

\* close(_server_socket): the backlog is reset, the clients stay.
CloseListener ==
  /\ epoll_open' = FALSE
  /\ listener' = (listener /\ server_socket # "listener")
  /\ server_socket' = IF server_socket = "listener" THEN "closed" ELSE server_socket

EpollFails ==
  /\ Alive /\ epoll_pc = "wait"
  /\ CloseListener
  /\ epoll_pc' = "dead"
  /\ UNCHANGED <<is_running, caller_pc, starts, reached, accepted, listen_edge, client_edge, rcvbuf, gone,
                 closed, sender, depth, rpos, chunk, users, writer, outq, inbound_q, user, crashed>>

-------------------------------------------------------------------------------
(* accept_connection(), called by the epoll loop (depth 0) or by read()    *)

Pending == server_socket = "listener" /\ listener /\ accepted < reached
\* Mutant: accept_connection() is always taken to have been called by read().
ReturnsToRead ==
  /\ epoll_pc' = "scan"
  /\ depth' = depth - 1
  /\ rpos' = From(client_socket, 0)

\* Back in the loop, or in the read() that made the call.
AcceptReturns ==
  \/ /\ depth = 0 /\ epoll_pc' = "wait"
     /\ UNCHANGED <<depth, rpos>>
  \/ /\ depth > 0 /\ epoll_pc' = "scan"
     /\ depth' = depth - 1
     /\ rpos' = From(client_socket, 0)

\* One accept() per event.  insert() keeps what a key already names; the number
\* of users is counted only after write() and read() have returned.
Accept ==
  /\ Alive /\ epoll_pc = "accept" /\ Pending
  /\ accepted' = accepted + 1
  /\ client_edge' = IF rcvbuf[accepted + 1] # <<>> \/ accepted + 1 \in gone
                    THEN client_edge \cup {accepted + 1} ELSE client_edge
  /\ newly_added' = [newly_added EXCEPT ![num_users_entered] = IF @ = 0 THEN accepted + 1 ELSE @]
  /\ epoll_pc' = "write"
  /\ write_pc' = [write_pc EXCEPT !["epoll"] = "newly"]
  /\ UNCHANGED <<life, listener, epoll_open, reached, listen_edge, rcvbuf, gone, closed, sender,
                 depth, rpos, chunk, client_socket, num_users_entered, connected,
                 pos, message, received, audience, strays, outq, inbound_q, user, crashed>>
\* Mutant: a listening socket that was not made non-blocking.
AcceptBlocks ==
  /\ Alive /\ epoll_pc = "accept" /\ ~Pending /\ ~listener
  /\ AcceptReturns
  /\ UNCHANGED <<life, net, chunk, users, writer, outq, inbound_q, user, crashed>>

AcceptFails ==
  /\ Alive /\ epoll_pc = "accept" /\ ~Pending
  /\ AcceptReturns
  /\ UNCHANGED <<life, net, chunk, users, writer, outq, inbound_q, user, crashed>>

\* epoll_ctl() refuses the connection: it is closed, and so is the server.
AcceptRefused ==
  /\ Alive /\ epoll_pc = "accept" /\ Pending
  /\ accepted' = accepted + 1
  /\ closed' = closed \cup {accepted + 1}
  /\ CloseListener
  /\ AcceptReturns
  /\ UNCHANGED <<is_running, caller_pc, starts, reached, listen_edge, client_edge, rcvbuf, gone, sender,
                 chunk, users, writer, outq, inbound_q, user, crashed>>
\* Mutant: only the first connection is counted.
CountsFirst ==
  /\ Alive /\ epoll_pc = "count"
  /\ num_users_entered' = IF connected THEN num_users_entered ELSE num_users_entered + 1
  /\ connected' = TRUE
  /\ AcceptReturns
  /\ UNCHANGED <<life, net, chunk, newly_added, client_socket, writer, outq, inbound_q, user, crashed>>
\* Mutant: only an accept that no read() called is counted.
CountsOuter ==
  /\ Alive /\ epoll_pc = "count"
  /\ num_users_entered' = IF depth > 0 THEN num_users_entered ELSE num_users_entered + 1
  /\ connected' = TRUE
  /\ AcceptReturns
  /\ UNCHANGED <<life, net, chunk, newly_added, client_socket, writer, outq, inbound_q, user, crashed>>

AcceptCounts ==
  /\ Alive /\ epoll_pc = "count"
  /\ num_users_entered' = num_users_entered + 1
  /\ connected' = TRUE
  /\ AcceptReturns
  /\ UNCHANGED <<life, net, chunk, newly_added, client_socket, writer, outq, inbound_q, user, crashed>>

-------------------------------------------------------------------------------
(* read(), called by the epoll loop (depth 0) or by accept_connection()    *)

\* No client is left: accept another one first.
ReadAccepts ==
  /\ Alive /\ epoll_pc = "read" /\ connected /\ client_socket = Nothing
  /\ epoll_pc' = "accept"
  /\ depth' = depth + 1
  /\ UNCHANGED <<life, net, rpos, chunk, users, writer, outq, inbound_q, user, crashed>>

ReadBegins ==
  /\ Alive /\ epoll_pc = "read" /\ ~(connected /\ client_socket = Nothing)
  /\ epoll_pc' = "scan"
  /\ rpos' = From(client_socket, 0)
  /\ UNCHANGED <<life, net, depth, chunk, users, writer, outq, inbound_q, user, crashed>>

\* One recv() per client; what it takes is a chunk.
ReadReceives ==
  /\ Alive /\ epoll_pc = "scan" /\ rpos \in Present(client_socket)
  /\ LET c == client_socket[rpos] IN
       /\ rcvbuf[c] # <<>>
       /\ chunk' = Head(rcvbuf[c])
       /\ rcvbuf' = [rcvbuf EXCEPT ![c] = Tail(@)]
  /\ epoll_pc' = "push"
  /\ UNCHANGED <<life, listener, epoll_open, reached, accepted, listen_edge, client_edge, gone, closed, sender,
                 depth, rpos, users, writer, outq, inbound_q, user, crashed>>

\* recv() returns 0 or -1: a client that has left stays in the map.
ReadSkips ==
  /\ Alive /\ epoll_pc = "scan" /\ rpos \in Present(client_socket)
  /\ rcvbuf[client_socket[rpos]] = <<>>
  /\ rpos' = From(client_socket, rpos + 1)
  /\ UNCHANGED <<life, net, epoll_pc, depth, chunk, users, writer, outq, inbound_q, user, crashed>>

\* ++it.  When the write thread has erased the element, the links of the freed node
\* lead to any other, forwards or back, to one that is freed too, or to the end of the
\* process.
ReadAdvances ==
  \/ rpos \in Present(client_socket) /\ rpos' = From(client_socket, rpos + 1) /\ UNCHANGED crashed
  \/ rpos \notin Present(client_socket) /\ rpos' \in Keys \cup {End} /\ UNCHANGED crashed
  \/ rpos \notin Present(client_socket) /\ crashed' = "dangling" /\ UNCHANGED rpos
\* Mutant: on_read() queues at the front.
PushesFront ==
  /\ Alive /\ epoll_pc = "push" /\ callback_pc \notin {"call", "pop"}
  /\ inbound_q' = <<chunk>> \o inbound_q
  /\ chunk' = 0
  /\ epoll_pc' = "scan"
  /\ ReadAdvances
  /\ UNCHANGED <<life, net, depth, users, writer, outq, user>>

\* on_read() under _read_mutex, which the callback thread holds during a call.
ReadPushes ==
  /\ Alive /\ epoll_pc = "push" /\ callback_pc \notin {"call", "pop"}
  /\ inbound_q' = Append(inbound_q, chunk)
  /\ chunk' = 0
  /\ epoll_pc' = "scan"
  /\ ReadAdvances
  /\ UNCHANGED <<life, net, depth, users, writer, outq, user>>

ReadGone == epoll_pc = "scan" /\ rpos \notin Present(client_socket) \cup {End}

ReadDangles ==
  /\ Alive /\ ReadGone
  /\ ReadAdvances
  /\ UNCHANGED <<life, net, epoll_pc, depth, chunk, users, writer, outq, inbound_q, user>>

\* The number in the freed node may be that of a newer connection's socket.
ReadStray ==
  /\ Alive /\ ReadGone
  /\ \E c \in (1..accepted) \ closed :
       /\ rcvbuf[c] # <<>>
       /\ chunk' = Head(rcvbuf[c])
       /\ rcvbuf' = [rcvbuf EXCEPT ![c] = Tail(@)]
  /\ epoll_pc' = "push"
  /\ UNCHANGED <<life, listener, epoll_open, reached, accepted, listen_edge, client_edge, gone, closed, sender,
                 depth, rpos, users, writer, outq, inbound_q, user, crashed>>

ReadReturns ==
  /\ Alive /\ epoll_pc = "scan" /\ rpos = End
  /\ \/ depth = 0 /\ epoll_pc' = "wait" /\ UNCHANGED depth
     \/ depth > 0 /\ epoll_pc' = "count" /\ depth' = depth - 1
  /\ UNCHANGED <<life, net, rpos, chunk, users, writer, outq, inbound_q, user, crashed>>

-------------------------------------------------------------------------------
(* write(), by the write thread and by the epoll thread in an accept       *)

Write(t, here, there) ==
  /\ Alive /\ write_pc[t] = here
  /\ write_pc' = [write_pc EXCEPT ![t] = there]

\* The write thread calls write() again; the accept goes on to read().
WriteReturns(t, here) ==
  \/ t = "write" /\ Write(t, here, "newly") /\ UNCHANGED <<epoll_pc, depth>>
  \/ t = "epoll" /\ Write(t, here, "none") /\ epoll_pc' = "read" /\ depth' = depth + 1

\* insert() of the range of new clients, clear() of their map: under a shared
\* lock, which keeps nobody out.
WriteInserts(t) ==
  /\ Write(t, "newly", "clear") /\ newly_added # Nothing
  /\ client_socket' = [k \in Keys |-> IF client_socket[k] = 0 THEN newly_added[k] ELSE client_socket[k]]
  /\ UNCHANGED <<life, net, reader, newly_added, num_users_entered, connected,
                 pos, message, received, audience, strays, outq, inbound_q, user, crashed>>

WriteNoneNew(t) ==
  /\ Write(t, "newly", "check") /\ newly_added = Nothing
  /\ UNCHANGED <<life, net, reader, users, pos, message, received, audience, strays, outq, inbound_q, user, crashed>>

WriteClears(t) ==
  /\ Write(t, "clear", "check")
  /\ newly_added' = Nothing
  /\ UNCHANGED <<life, net, reader, client_socket, num_users_entered, connected,
                 pos, message, received, audience, strays, outq, inbound_q, user, crashed>>
\* Mutant: the test of _connected that is commented out at line 806.
ChecksConnected(t) ==
  /\ Write(t, "check", "lock") /\ outbound_q # <<>> /\ connected
  /\ UNCHANGED <<life, net, reader, users, pos, message, received, audience, strays, outq, inbound_q, user, crashed>>

\* _outbound_q.empty() is read without the mutex.
WriteChecks(t) ==
  /\ Write(t, "check", "lock") /\ outbound_q # <<>>
  /\ UNCHANGED <<life, net, reader, users, pos, message, received, audience, strays, outq, inbound_q, user, crashed>>

WriteIdle(t) ==
  /\ WriteReturns(t, "check") /\ outbound_q = <<>>
  /\ UNCHANGED <<life, net, rpos, chunk, users, pos, message, received, audience, strays, outq, inbound_q, user,
                 crashed>>

WritePops(t) ==
  /\ Write(t, "lock", "begin") /\ outbound_q # <<>>
  /\ message' = [message EXCEPT ![t] = Head(outbound_q)]
  /\ outbound_q' = Tail(outbound_q)
  /\ UNCHANGED <<life, net, reader, users, pos, received, audience, strays, queued, inbound_q, user, crashed>>

\* front() of a queue the other thread has emptied since the test.
WriteUnderflows(t) ==
  /\ Alive /\ write_pc[t] = "lock" /\ outbound_q = <<>>
  /\ crashed' = "empty_front"
  /\ UNCHANGED <<life, net, reader, users, writer, outq, inbound_q, user>>

WriteBegins(t) ==
  /\ Write(t, "begin", "send")
  /\ pos' = [pos EXCEPT ![t] = From(client_socket, 0)]
  /\ audience' = [audience EXCEPT ![message[t]] = Clients(client_socket)]
  /\ UNCHANGED <<life, net, reader, users, message, received, strays, outq, inbound_q, user, crashed>>

At(t, k) == Alive /\ write_pc[t] = "send" /\ pos[t] = k
\* Mutant: an element is skipped.
AdvancesTwice(t) == pos' = [pos EXCEPT ![t] = From(client_socket, @ + 2)]

\* Mutant: the iterator is not advanced.
StandsStill(t) == pos' = [pos EXCEPT ![t] = @]

\* ++it from an element that is there.
Advance(t) == pos' = [pos EXCEPT ![t] = From(client_socket, @ + 1)]

\* ++it from an element that is not: the links of the freed node lead to any other,
\* forwards or back, or to one that is freed too.
GoesAstray(t) ==
  /\ strays[message[t]] < MaxStray
  /\ strays' = [strays EXCEPT ![message[t]] = @ + 1]
  /\ \E k \in Keys \cup {End} : pos' = [pos EXCEPT ![t] = k]

\* They lead nowhere, or the element is erased a second time.
Dies == crashed' = "dangling" /\ UNCHANGED <<pos, received, strays>>

WriteSends(t) ==
  /\ \E k \in Present(client_socket) :
       /\ At(t, k)
       /\ received' = [received EXCEPT ![client_socket[k]] = Append(@, message[t])]
  /\ Advance(t)
  /\ UNCHANGED <<life, net, reader, users, write_pc, message, audience, strays, outq, inbound_q, user, crashed>>
\* Mutant: a client is erased and its socket left open.
FailsUnclosed(t) ==
  /\ \E k \in Present(client_socket) :
       /\ At(t, k)
       /\ client_socket' = [client_socket EXCEPT ![k] = 0]
  /\ (GoesAstray(t) /\ UNCHANGED <<received, crashed>>) \/ Dies
  /\ UNCHANGED <<life, net, reader, newly_added, num_users_entered, connected,
                 write_pc, message, audience, outq, inbound_q, user>>

\* send() returns -1: the connection is broken, or its buffer is full.  It is
\* closed, its element erased and the erased iterator advanced.
WriteSendFails(t) ==
  /\ \E k \in Present(client_socket) :
       /\ At(t, k)
       /\ closed' = closed \cup {client_socket[k]}
       /\ client_edge' = client_edge \ {client_socket[k]}
       /\ client_socket' = [client_socket EXCEPT ![k] = 0]
  /\ (GoesAstray(t) /\ UNCHANGED <<received, crashed>>) \/ Dies
  /\ UNCHANGED <<life, listener, epoll_open, reached, accepted, listen_edge, rcvbuf, gone, sender, reader,
                 newly_added, num_users_entered, connected, write_pc, message, audience, outq, inbound_q, user>>

\* send() to a peer that has reset the connection raises SIGPIPE.
WriteSignalled(t) ==
  /\ \E k \in Present(client_socket) : At(t, k) /\ client_socket[k] \in gone
  /\ crashed' = "sigpipe"
  /\ UNCHANGED <<life, net, reader, users, writer, outq, inbound_q, user>>

\* The other writer has erased the element: before the send(), which then goes to
\* whatever socket has the number in the freed node now, or between send() and ++it.
WriteGone(t) == Alive /\ write_pc[t] = "send" /\ pos[t] \notin Present(client_socket) \cup {End}

WriteDangles(t) ==
  /\ WriteGone(t)
  /\ \/ /\ GoesAstray(t) /\ UNCHANGED crashed
        /\ \/ UNCHANGED received
           \/ \E c \in (1..accepted) \ closed : received' = [received EXCEPT ![c] = Append(@, message[t])]
     \/ Dies
  /\ UNCHANGED <<life, net, reader, users, write_pc, message, audience, outq, inbound_q, user>>

WriteEnds(t) ==
  /\ pos[t] = End /\ WriteReturns(t, "send")
  /\ message' = [message EXCEPT ![t] = 0]
  /\ UNCHANGED <<life, net, rpos, chunk, users, pos, received, audience, strays, outq, inbound_q, user, crashed>>

\* Two threads inside one std::map, one of them changing it: any step of the two
\* may be the process's last.
NewlyUsers ==
  {t \in Writers : write_pc[t] = "clear" \/ (write_pc[t] = "newly" /\ newly_added # Nothing)}
    \cup (IF epoll_pc = "accept" THEN {"epoll"} ELSE {})
ClientChangers ==
  {t \in Writers : write_pc[t] = "send" \/ (write_pc[t] = "newly" /\ newly_added # Nothing)}
ClientUsers ==
  ClientChangers \cup {t \in Writers : write_pc[t] \in {"clear", "begin"}}
    \cup (IF epoll_pc \in {"scan", "push"} THEN {"epoll"} ELSE {})

MapRace ==
  /\ Alive
  /\ \/ NewlyUsers = Writers
     \/ ClientUsers = Writers /\ ClientChangers # {}
     \/ ClientUsers # {} /\ \E c \in Callers : caller_pc[c] = "close"
  /\ crashed' = "map_race"
  /\ UNCHANGED <<life, net, reader, users, writer, outq, inbound_q, user>>

-------------------------------------------------------------------------------
(* the callback thread, the application, the clients                       *)

\* The test of empty(), _read_mutex and front(): one consumer, so the queue only
\* grows in between.
CallbackTakes ==
  /\ Alive /\ callback_pc = "check" /\ inbound_q # <<>>
  /\ callback_pc' = "call"
  /\ UNCHANGED <<life, net, reader, users, writer, outq, inbound_q, receive_callback, hung, handled, crashed>>

CallbackCalls ==
  /\ Alive /\ callback_pc = "call"
  /\ \/ /\ receive_callback # "half"
        /\ handled' = Append(handled, Head(inbound_q))
        /\ callback_pc' = "pop"
        /\ UNCHANGED crashed
     \/ /\ receive_callback = "half"
        /\ crashed' = "half_callback"
        /\ UNCHANGED <<handled, callback_pc>>
  /\ UNCHANGED <<life, net, reader, users, writer, outq, inbound_q, receive_callback, hung>>

\* The callback may not return, and it may call stop(), which joins the epoll thread:
\* for ever, unless it has died.
CallbackStays ==
  /\ Alive /\ callback_pc = "pop" /\ ~hung /\ receive_callback = "set"
  /\ is_running' \in {is_running, FALSE}
  /\ hung' \in BOOLEAN
  /\ UNCHANGED <<server_socket, caller_pc, starts, net, reader, users, writer, outq, inbound_q,
                 callback_pc, receive_callback, handled, crashed>>
\* Mutant: pop_back() for pop_front().
PopsBack ==
  /\ Alive /\ callback_pc = "pop" /\ ~hung
  /\ inbound_q' = SubSeq(inbound_q, 1, Len(inbound_q) - 1)
  /\ callback_pc' = "check"
  /\ UNCHANGED <<life, net, reader, users, writer, outq, receive_callback, hung, handled, crashed>>

CallbackPops ==
  /\ Alive /\ callback_pc = "pop" /\ ~hung
  /\ inbound_q' = Tail(inbound_q)
  /\ callback_pc' = "check"
  /\ UNCHANGED <<life, net, reader, users, writer, outq, receive_callback, hung, handled, crashed>>

RegisterBegin(c) ==
  /\ c \in Registrants
  /\ Alive /\ caller_pc[c] = "idle" /\ receive_callback = "none"
  /\ receive_callback' = "half"
  /\ caller_pc' = [caller_pc EXCEPT ![c] = "reg"]
  /\ UNCHANGED <<is_running, server_socket, starts, net, reader, users, writer, outq, inbound_q,
                 callback_pc, hung, handled, crashed>>

RegisterEnd(c) ==
  /\ Alive /\ caller_pc[c] = "reg"
  /\ receive_callback' = "set"
  /\ caller_pc' = [caller_pc EXCEPT ![c] = "idle"]
  /\ UNCHANGED <<is_running, server_socket, starts, net, reader, users, writer, outq, inbound_q,
                 callback_pc, hung, handled, crashed>>

\* By a thread of the application or by its callback; the id is not looked at.
SendMessage ==
  /\ Alive /\ queued < MaxSend
  /\ queued' = queued + 1
  /\ outbound_q' = Append(outbound_q, queued + 1)
  /\ UNCHANGED <<life, net, reader, users, writer, inbound_q, user, crashed>>

Connect ==
  /\ Alive /\ listener /\ reached < MaxConn
  /\ reached' = reached + 1
  /\ listen_edge' = TRUE
  /\ UNCHANGED <<life, listener, epoll_open, accepted, client_edge, rcvbuf, gone, closed, sender,
                 reader, users, writer, outq, inbound_q, user, crashed>>

Watched(c) == c <= accepted /\ c \notin closed

ClientSends(c) ==
  /\ Alive /\ c <= reached /\ c \notin gone \cup closed /\ Len(sender) < MaxChunk
  /\ sender' = Append(sender, c)
  /\ rcvbuf' = [rcvbuf EXCEPT ![c] = Append(@, Len(sender) + 1)]
  /\ client_edge' = IF Watched(c) THEN client_edge \cup {c} ELSE client_edge
  /\ UNCHANGED <<life, listener, epoll_open, reached, accepted, listen_edge, gone, closed,
                 reader, users, writer, outq, inbound_q, user, crashed>>

ClientLeaves(c) ==
  /\ Alive /\ c <= reached /\ c \in Leavers \ gone
  /\ gone' = gone \cup {c}
  /\ client_edge' = IF Watched(c) THEN client_edge \cup {c} ELSE client_edge
  /\ UNCHANGED <<life, listener, epoll_open, reached, accepted, listen_edge, rcvbuf, closed, sender,
                 reader, users, writer, outq, inbound_q, user, crashed>>

-------------------------------------------------------------------------------
(* the specification *)

Caller(c) ==
  \/ StartEnter(c) \/ StartSucceeds(c) \/ StartFails(c)
  \/ StopEnter(c) \/ StopJoins(c) \/ StopReturnsEarly(c) \/ StopCloses(c) \/ StopReturns(c)
  \/ RegisterBegin(c) \/ RegisterEnd(c)
EpollThread ==
  \/ EpollReturnsListener \/ (\E c \in Conns : EpollReturnsClient(c))
  \/ Accept \/ AcceptFails \/ AcceptCounts
  \/ ReadAccepts \/ ReadBegins \/ ReadReceives \/ ReadSkips \/ ReadPushes \/ ReadDangles \/ ReadStray \/ ReadReturns
WriteSteps(t) ==
  \/ WriteInserts(t) \/ WriteNoneNew(t) \/ WriteClears(t) \/ WriteChecks(t) \/ WriteIdle(t)
  \/ WritePops(t) \/ WriteUnderflows(t) \/ WriteBegins(t)
  \/ WriteSends(t) \/ WriteSendFails(t) \/ WriteSignalled(t) \/ WriteDangles(t) \/ WriteEnds(t)
CallbackThread == CallbackTakes \/ CallbackCalls \/ CallbackPops

Next ==
  \/ \E c \in Callers : Caller(c)
  \/ EpollThread \/ EpollFails \/ AcceptRefused
  \/ \E t \in Writers : WriteSteps(t)
  \/ MapRace \/ CallbackThread \/ CallbackStays
  \/ SendMessage \/ Connect \/ \E c \in Conns : ClientSends(c) \/ ClientLeaves(c)

\* The scheduler runs every thread that can run; nothing makes the application
\* call or its callback return, a client act, a system call fail or a race show.
Fairness ==
  /\ WF_vars(EpollThread) /\ WF_vars(CallbackThread)
  /\ \A t \in Writers : WF_vars(WriteSteps(t))
  /\ \A c \in Callers : WF_vars(RegisterEnd(c))

Spec == Init /\ [][Next]_vars
FairSpec == Spec /\ Fairness

-------------------------------------------------------------------------------
(* Properties *)

Elements(q) == {q[i] : i \in DOMAIN q}

\* insert() never drops a client because its key is taken: a connection gets a
\* key that no other open one has had, although accept_connection() nests in itself
\* and counts only at its end.
KeyNamesOneClient ==
  /\ \A k \in Keys : newly_added[k] # 0 /\ client_socket[k] # 0 => newly_added[k] = client_socket[k]
  /\ \A j, k \in Present(client_socket) : client_socket[j] = client_socket[k] => j = k

\* _num_users_entered counts every connection once: it lags by the accepts that
\* are still in progress, none when the epoll thread waits.
AllAcceptsCounted ==
  epoll_pc = "wait" /\ epoll_open => num_users_entered = accepted

\* A message write() is done with has been handed to send() once for every client of
\* the map it started from, those it closed excepted, unless its own iterator met an
\* element that was gone: a client erased by one writer makes the other, on its way
\* through the rest of the map, neither skip nor repeat one.
MessageDone(m) == m <= queued /\ m \notin Elements(outbound_q) /\ \A t \in Writers : message[t] # m
Astray == {m \in Messages : strays[m] > 0}
BroadcastComplete ==
  \A m \in Messages \ Astray :
    MessageDone(m) => \A c \in audience[m] \ closed : m \in Elements(received[c])
SentOnce ==
  \A c \in Conns : \A i, j \in DOMAIN received[c] :
    i # j /\ received[c][i] \notin Astray => received[c][i] # received[c][j]

\* The outbound side broadcasts (Broadcast): the two writers take the messages in the
\* order send_message() accepted them, and each hands its own, once, to every client of
\* the map it began with that is not closed before the end, while the other one inserts
\* clients, erases them and sends.  A message whose write() advanced an iterator from an
\* erased element is lost to that promise, and it alone.
Outbound == INSTANCE Broadcast WITH
  Servers <- Writers, Members <- Conns,
  offered <- queued, taken <- queued - Len(outbound_q), serving <- message,
  begun <- {t \in Writers : write_pc[t] = "send"},
  group <- audience, lost <- Astray, cut <- closed
OutboundIsBroadcast == Outbound!Spec

\* tcp_server_handler.cpp:613: the lock is "not needed because the buffers differ".
\* An accepted connection that is open is in one of the two maps.
Forgotten ==
  {c \in 1..accepted : c \notin closed \cup Clients(newly_added) \cup Clients(client_socket)}
NoneForgotten == Forgotten = {}

\* A client is forgotten in one window only: the write thread's clear(), when the
\* epoll thread has accepted since the write thread's insert().
ForgottenOnlyByClear ==
  [][Forgotten' # Forgotten => write_pc["write"] = "clear" /\ write_pc'["write"] = "check"]_vars

\* One client's chunks reach the callback once each and in the order it sent them.
ClientOrder ==
  \A i, j \in DOMAIN handled :
    i < j /\ sender[handled[i]] = sender[handled[j]] => handled[i] < handled[j]

\* The inbound side, from on_read() on, is a FIFO pipe that serves one chunk at a
\* time (MessagePipe).
Turn == callback_pc = "pop"
Inbound == INSTANCE MessagePipe WITH
  Items <- Chunks,
  offered <- handled \o (IF Turn THEN Tail(inbound_q) ELSE inbound_q),
  taken <- Len(handled),
  serving <- IF Turn THEN Head(inbound_q) ELSE 0
InboundIsPipe == Inbound!Spec

\* A message accepted by a server with workers is eventually done with, and the
\* epoll thread gets back to its events, however its calls nest, unless freed nodes
\* lead an iterator round for ever or a callback does not return.
Adrift == ReadGone \/ \E t \in Writers : WriteGone(t)
MessagesServed ==
  \A m \in Messages : (Spawned /\ m <= queued) ~> (MessageDone(m) \/ ~Alive \/ []<>Adrift)
EventsGoOn == (epoll_pc = "accept") ~> (epoll_pc \in {"wait", "dead"} \/ ~Alive \/ hung \/ []<>Adrift)
===============================================================================
