------------------------------ MODULE UdpHandler ------------------------------
(***************************************************************************)
(* udp_handler (network/modules/udp_handler.cpp), Linux build: one UDP     *)
(* socket watched by an edge-triggered epoll instance, an inbound queue    *)
(* emptied by a callback thread, an outbound queue emptied by a write      *)
(* thread.  Every start() that succeeds spawns one more generation of the  *)
(* three threads; none of them ever looks at _is_running again.            *)
(*                                                                         *)
(* Sockets are numbered by the start() attempt that opened them and are    *)
(* never renumbered, 0 stands for "no descriptor" (NULL or -1).  Epoll     *)
(* instances are numbered by the generation of workers they belong to.     *)
(* Messages and datagrams are numbered in the order the program accepts    *)
(* or the network delivers them.                                           *)
(***************************************************************************)
EXTENDS Integers, Sequences

CONSTANTS
  Callers,     \* threads of the application that call the handler
  Dests,       \* DestinationIDs of _udp_info._destinations, all well formed
  Addressees,  \* destination_id_ arguments of send_message; -1 is "all"
  Overlays,    \* integers a payload may hold at its bytes 480..483
  NodeSlots,   \* elements per node of a std::deque (21 in libstdc++)
  MaxStart,    \* bound: start() calls that get as far as socket()
  MaxSend,     \* bound: messages passed to send_message
  MaxRecv,     \* bound: datagrams that reach the host
  Refused      \* bound: sockets that ICMP errors may reach

ASSUME CountsAssumption ==
  MaxStart \in Nat \ {0} /\ MaxSend \in Nat /\ MaxRecv \in Nat /\ NodeSlots \in Nat \ {0}
ASSUME DestsAssumption == Dests \subseteq Nat /\ Addressees \subseteq Int /\ Overlays \subseteq Int

All       == -1
Gens      == 1..MaxStart
Sockets   == 1..MaxStart
Messages  == 1..MaxSend
Datagrams == 1..MaxRecv
Words     == Addressees \cup Overlays

VARIABLES
  is_running, udp_socket, epoll_fd, dest_list,      \* members of the handler
  attempts,          \* sockets start() has asked for
  gens,              \* generations of workers spawned (workers.size() / 3)
  caller_pc, caller_hand,
  live, rcvbuf,      \* kernel: open sockets and their receive buffers
  err,               \* kernel: sockets with a pending ICMP error (IP_RECVERR)
  watch, edge,       \* kernel: the socket of each epoll instance, pending event
  arrivals,
  epoll_pc, waits, epoll_hand,                      \* epoll_thread
  inbound_q, read_mutex, receive_callback,
  callback_pc,                                      \* callback_thread
  hung,              \* callback threads inside a callback that never returns
  handled,           \* datagrams whose turn in the callback thread came
  outbound_q, write_mutex,
  write_pc, current, front_to, todo,                \* write_thread
  accepted, sent,
  crashed

life   == <<is_running, udp_socket, epoll_fd, dest_list, attempts, gens>>
caller == <<caller_pc, caller_hand>>
kernel == <<live, rcvbuf, err, watch, edge, arrivals>>
epoll  == <<epoll_pc, waits, epoll_hand>>
inq    == <<inbound_q, read_mutex>>
user   == <<receive_callback, callback_pc, hung, handled>>
outq   == <<outbound_q, write_mutex, accepted>>
writer == <<write_pc, current, front_to, todo, sent>>
vars   == <<life, caller, kernel, epoll, inq, user, outq, writer, crashed>>

LifeType ==
  /\ is_running \in BOOLEAN
  /\ udp_socket \in 0..MaxStart /\ epoll_fd \in 0..MaxStart
  /\ dest_list \in SUBSET Dests
  /\ attempts \in 0..MaxStart /\ gens \in 0..MaxStart
CallerType ==
  /\ caller_pc \in [Callers -> {"idle", "open", "epoll", "recv", "push", "join", "close", "reg"}]
  /\ caller_hand \in [Callers -> 0..MaxRecv]
  /\ \A c \in Callers : caller_pc[c] = "push" => caller_hand[c] # 0
KernelType ==
  /\ live \in SUBSET Sockets /\ err \in SUBSET Sockets
  /\ rcvbuf \in [Sockets -> Seq(Datagrams)]
  /\ watch \in [Gens -> 0..MaxStart] /\ edge \in [Gens -> BOOLEAN]
  /\ arrivals \in 0..MaxRecv
EpollType ==
  /\ epoll_pc \in [Gens -> {"none", "wait", "recv", "push", "dead"}]
  /\ waits \in [Gens -> 0..MaxStart]
  /\ epoll_hand \in [Gens -> 0..MaxRecv]
  /\ \A g \in Gens : epoll_pc[g] = "push" => epoll_hand[g] # 0
InType == inbound_q \in Seq(Datagrams) /\ read_mutex \in 0..MaxStart
UserType ==
  /\ receive_callback \in {"none", "half", "set"}
  /\ callback_pc \in [Gens -> {"none", "check", "lock", "call", "pop"}]
  /\ hung \in SUBSET Gens
  /\ handled \in Seq(Datagrams)
OutType ==
  /\ outbound_q \in Seq(Messages) /\ write_mutex \in 0..MaxStart
  /\ accepted \in Seq([to : Addressees, overlay : Words])
WriterType ==
  /\ write_pc \in [Gens -> {"none", "check", "lock", "send"}]
  /\ current \in [Gens -> 0..MaxSend]
  /\ front_to \in [Gens -> Int]
  /\ todo \in [Gens -> SUBSET Dests]
  /\ sent \in [Dests -> Seq(Messages)]
TypeOK ==
  /\ LifeType /\ CallerType /\ KernelType /\ EpollType /\ InType /\ UserType /\ OutType /\ WriterType
  /\ crashed \in {"no", "empty_front", "half_callback"}

Init ==
  /\ is_running = FALSE /\ udp_socket = 0 /\ epoll_fd = 0 /\ dest_list = {}
  /\ attempts = 0 /\ gens = 0
  /\ caller_pc = [c \in Callers |-> "idle"] /\ caller_hand = [c \in Callers |-> 0]
  /\ live = {} /\ rcvbuf = [s \in Sockets |-> <<>>] /\ err = {}
  /\ watch = [g \in Gens |-> 0] /\ edge = [g \in Gens |-> FALSE]
  /\ arrivals = 0
  /\ epoll_pc = [g \in Gens |-> "none"] /\ waits = [g \in Gens |-> 0]
  /\ epoll_hand = [g \in Gens |-> 0]
  /\ inbound_q = <<>> /\ read_mutex = 0
  /\ receive_callback = "none" /\ callback_pc = [g \in Gens |-> "none"]
  /\ hung = {} /\ handled = <<>>
  /\ outbound_q = <<>> /\ write_mutex = 0 /\ accepted = <<>>
  /\ write_pc = [g \in Gens |-> "none"] /\ current = [g \in Gens |-> 0]
  /\ front_to = [g \in Gens |-> 0] /\ todo = [g \in Gens |-> {}]
  /\ sent = [d \in Dests |-> <<>>]
  /\ crashed = "no"

Alive == crashed = "no"

\* close(s): the kernel forgets the socket, what it had received, its error and events.
Close(s) ==
  /\ live' = live \ {s} /\ err' = err \ {s}
  /\ rcvbuf' = [x \in Sockets |-> IF x = s THEN <<>> ELSE rcvbuf[x]]
  /\ edge' = [g \in Gens |-> edge[g] /\ watch[g] # s]

-------------------------------------------------------------------------------
(* start() *)

StartEnter(c) ==
  /\ Alive /\ caller_pc[c] = "idle" /\ ~is_running
  /\ caller_pc' = [caller_pc EXCEPT ![c] = "open"]
  /\ UNCHANGED <<life, caller_hand, kernel, epoll, inq, user, outq, writer, crashed>>

\* socket(), options, destinations and bind() succeed: lines 161-310.
StartOpens(c) ==
  /\ Alive /\ caller_pc[c] = "open" /\ attempts < MaxStart
  /\ attempts' = attempts + 1
  /\ udp_socket' = attempts + 1
  /\ live' = live \cup {attempts + 1}
  /\ dest_list' = Dests
  /\ is_running' = TRUE
  /\ caller_pc' = [caller_pc EXCEPT ![c] = "epoll"]
  /\ UNCHANGED <<epoll_fd, gens, caller_hand, rcvbuf, err, watch, edge, arrivals,
                 epoll, inq, user, outq, writer, crashed>>

\* socket() fails, or a later step does: some of the early returns close the
\* socket, some leave it open, and _udp_socket keeps its number in both cases.
StartOpenFails(c) ==
  /\ Alive /\ caller_pc[c] = "open" /\ attempts < MaxStart
  /\ attempts' = attempts + 1
  /\ \/ udp_socket' = 0 /\ UNCHANGED <<live, dest_list>>
     \/ udp_socket' = attempts + 1 /\ UNCHANGED live /\ dest_list' \in {dest_list, Dests}
     \/ udp_socket' = attempts + 1 /\ live' = live \cup {attempts + 1}
        /\ dest_list' \in {dest_list, Dests}
  /\ caller_pc' = [caller_pc EXCEPT ![c] = "idle"]
  /\ UNCHANGED <<is_running, epoll_fd, gens, caller_hand, rcvbuf, err, watch, edge, arrivals,
                 epoll, inq, user, outq, writer, crashed>>

\* epoll_create1, epoll_ctl and the three threads: lines 342-545.
StartWorkers(c) ==
  /\ Alive /\ caller_pc[c] = "epoll" /\ udp_socket \in live /\ gens < MaxStart
  /\ LET g == gens + 1 IN
       /\ gens' = g
       /\ epoll_fd' = g
       /\ watch' = [watch EXCEPT ![g] = udp_socket]
       /\ edge' = [edge EXCEPT ![g] = rcvbuf[udp_socket] # <<>>]
       /\ epoll_pc' = [epoll_pc EXCEPT ![g] = "wait"]
       /\ waits' = [waits EXCEPT ![g] = g]
       /\ callback_pc' = [callback_pc EXCEPT ![g] = "check"]
       /\ write_pc' = [write_pc EXCEPT ![g] = "check"]
  /\ caller_pc' = [caller_pc EXCEPT ![c] = "recv"]
  /\ UNCHANGED <<is_running, udp_socket, dest_list, attempts, caller_hand,
                 live, rcvbuf, err, arrivals, epoll_hand, inq, receive_callback, hung, handled,
                 outq, current, front_to, todo, sent, crashed>>

\* epoll_create1 or epoll_ctl fails: the socket is closed, _is_running stays true.
StartEpollFails(c) ==
  /\ Alive /\ caller_pc[c] = "epoll"
  /\ Close(udp_socket)
  /\ epoll_fd' = 0
  /\ caller_pc' = [caller_pc EXCEPT ![c] = "idle"]
  /\ UNCHANGED <<is_running, udp_socket, dest_list, attempts, gens, caller_hand, watch, arrivals,
                 epoll, inq, user, outq, writer, crashed>>

-------------------------------------------------------------------------------
(* read() and on_read(), by an epoll thread and by the thread in start()   *)

Readable == udp_socket \in live /\ rcvbuf[udp_socket] # <<>>

\* A pending error comes first: recv() returns -1 and leaves the buffer as it is.
Receives == Readable /\ udp_socket \notin err

\* epoll_wait returns: the edge is consumed, however much has been received.
EpollReturns(g) ==
  /\ Alive /\ epoll_pc[g] = "wait" /\ waits[g] # 0 /\ edge[waits[g]]
  /\ edge' = [edge EXCEPT ![waits[g]] = FALSE]
  /\ epoll_pc' = [epoll_pc EXCEPT ![g] = "recv"]
  /\ UNCHANGED <<life, caller, live, rcvbuf, err, watch, arrivals, waits, epoll_hand,
                 inq, user, outq, writer, crashed>>

\* epoll_wait returns -1 (a signal, or epoll_fd closed): the thread closes the
\* descriptors the members name now and ends.
EpollFails(g) ==
  /\ Alive /\ epoll_pc[g] = "wait"
  /\ Close(udp_socket)
  /\ epoll_fd' = 0
  /\ epoll_pc' = [epoll_pc EXCEPT ![g] = "dead"]
  /\ UNCHANGED <<is_running, udp_socket, dest_list, attempts, gens, caller, watch, arrivals,
                 waits, epoll_hand, inq, user, outq, writer, crashed>>

\* One recv() per event; a datagram goes on to on_read().
EpollRecv(g) ==
  /\ Alive /\ epoll_pc[g] = "recv" /\ Receives
  /\ epoll_hand' = [epoll_hand EXCEPT ![g] = Head(rcvbuf[udp_socket])]
  /\ rcvbuf' = [rcvbuf EXCEPT ![udp_socket] = Tail(@)]
  /\ epoll_pc' = [epoll_pc EXCEPT ![g] = "push"]
  /\ UNCHANGED <<life, caller, live, err, watch, edge, arrivals, waits, inq, user, outq, writer, crashed>>
\* Mutant: on_read() is called whatever recv() returned.
RecvUntested(g) ==
  /\ Alive /\ epoll_pc[g] = "recv" /\ ~Receives
  /\ err' = err \ {udp_socket}
  /\ epoll_pc' = [epoll_pc EXCEPT ![g] = "push"]
  /\ waits' = [waits EXCEPT ![g] = epoll_fd]
  /\ UNCHANGED <<life, caller, live, rcvbuf, watch, edge, arrivals, epoll_hand, inq, user, outq,
                 writer, crashed>>

\* The event is gone either way, and a datagram behind an error stays.
EpollRecvNothing(g) ==
  /\ Alive /\ epoll_pc[g] = "recv" /\ ~Receives
  /\ err' = err \ {udp_socket}
  /\ epoll_pc' = [epoll_pc EXCEPT ![g] = "wait"]
  /\ waits' = [waits EXCEPT ![g] = epoll_fd]
  /\ UNCHANGED <<life, caller, live, rcvbuf, watch, edge, arrivals, epoll_hand, inq, user, outq,
                 writer, crashed>>
EpollPush(g) ==
  /\ Alive /\ epoll_pc[g] = "push" /\ read_mutex = 0
  /\ inbound_q' = Append(inbound_q, epoll_hand[g])
  /\ epoll_hand' = [epoll_hand EXCEPT ![g] = 0]
  /\ epoll_pc' = [epoll_pc EXCEPT ![g] = "wait"]
  /\ waits' = [waits EXCEPT ![g] = epoll_fd]
  /\ UNCHANGED <<life, caller, kernel, read_mutex, user, outq, writer, crashed>>

\* start() itself calls read() once, after it has spawned the threads.
StarterRecv(c) ==
  /\ Alive /\ caller_pc[c] = "recv" /\ Receives
  /\ caller_hand' = [caller_hand EXCEPT ![c] = Head(rcvbuf[udp_socket])]
  /\ rcvbuf' = [rcvbuf EXCEPT ![udp_socket] = Tail(@)]
  /\ caller_pc' = [caller_pc EXCEPT ![c] = "push"]
  /\ UNCHANGED <<life, live, err, watch, edge, arrivals, epoll, inq, user, outq, writer, crashed>>

StarterRecvNothing(c) ==
  /\ Alive /\ caller_pc[c] = "recv" /\ ~Receives
  /\ err' = err \ {udp_socket}
  /\ caller_pc' = [caller_pc EXCEPT ![c] = "idle"]
  /\ UNCHANGED <<life, caller_hand, live, rcvbuf, watch, edge, arrivals, epoll, inq, user, outq,
                 writer, crashed>>

StarterPush(c) ==
  /\ Alive /\ caller_pc[c] = "push" /\ read_mutex = 0
  /\ inbound_q' = Append(inbound_q, caller_hand[c])
  /\ caller_hand' = [caller_hand EXCEPT ![c] = 0]
  /\ caller_pc' = [caller_pc EXCEPT ![c] = "idle"]
  /\ UNCHANGED <<life, kernel, epoll, read_mutex, user, outq, writer, crashed>>

-------------------------------------------------------------------------------
(* the callback thread *)
\* Mutant: the callback thread does not test empty().
CheckUntested(g) ==
  /\ Alive /\ callback_pc[g] = "check"
  /\ callback_pc' = [callback_pc EXCEPT ![g] = "lock"]
  /\ UNCHANGED <<life, caller, kernel, epoll, inq, receive_callback, hung, handled,
                 outq, writer, crashed>>

\* _inbound_q.empty() is read without the mutex.
CallbackCheck(g) ==
  /\ Alive /\ callback_pc[g] = "check" /\ inbound_q # <<>>
  /\ callback_pc' = [callback_pc EXCEPT ![g] = "lock"]
  /\ UNCHANGED <<life, caller, kernel, epoll, inq, receive_callback, hung, handled,
                 outq, writer, crashed>>
\* Mutant: a callback thread that does not take _read_mutex.
LockShared(g) ==
  /\ Alive /\ callback_pc[g] = "lock"
  /\ \/ /\ inbound_q # <<>>
        /\ callback_pc' = [callback_pc EXCEPT ![g] = "call"]
        /\ UNCHANGED <<read_mutex, crashed>>
     \/ /\ inbound_q = <<>>
        /\ crashed' = "empty_front"
        /\ UNCHANGED <<read_mutex, callback_pc>>
  /\ UNCHANGED <<life, caller, kernel, epoll, inbound_q, receive_callback, hung, handled,
                 outq, writer>>

\* front() and the read of front.second; on an empty deque the process dies.
CallbackLock(g) ==
  /\ Alive /\ callback_pc[g] = "lock" /\ read_mutex = 0
  /\ \/ /\ inbound_q # <<>>
        /\ read_mutex' = g
        /\ callback_pc' = [callback_pc EXCEPT ![g] = "call"]
        /\ UNCHANGED crashed
     \/ /\ inbound_q = <<>>
        /\ crashed' = "empty_front"
        /\ UNCHANGED <<read_mutex, callback_pc>>
  /\ UNCHANGED <<life, caller, kernel, epoll, inbound_q, receive_callback, hung, handled,
                 outq, writer>>
\* The registered callback runs, with _read_mutex held; without one the datagram
\* is only dropped.
CallbackCalls(g) ==
  /\ Alive /\ callback_pc[g] = "call" /\ receive_callback # "half"
  /\ handled' = Append(handled, Head(inbound_q))
  /\ callback_pc' = [callback_pc EXCEPT ![g] = "pop"]
  /\ UNCHANGED <<life, caller, kernel, epoll, inq, receive_callback, hung, outq, writer, crashed>>

\* A std::function under assignment: it tests true and has no invoker yet.
CallbackCallsHalf(g) ==
  /\ Alive /\ callback_pc[g] = "call" /\ receive_callback = "half"
  /\ crashed' = "half_callback"
  /\ UNCHANGED <<life, caller, kernel, epoll, inq, user, outq, writer>>

\* The callback may not return, and it may call stop(), which clears the flag and
\* joins the epoll thread, for ever unless that thread has died and the join of the
\* callback thread by itself throws.  Its other calls are those of the callers.
CallbackStays(g) ==
  /\ Alive /\ callback_pc[g] = "pop" /\ g \notin hung
  /\ is_running' \in {is_running, FALSE}
  /\ hung' \in {hung, hung \cup {g}}
  /\ UNCHANGED <<udp_socket, epoll_fd, dest_list, attempts, gens, caller, kernel, epoll, inq,
                 receive_callback, callback_pc, handled, outq, writer, crashed>>
\* Mutant: the loop of the callback thread is while (_is_running).
PopsRunning(g) ==
  /\ Alive /\ callback_pc[g] = "pop" /\ g \notin hung
  /\ inbound_q' = Tail(inbound_q)
  /\ read_mutex' = 0
  /\ callback_pc' = [callback_pc EXCEPT ![g] = IF is_running THEN "check" ELSE "none"]
  /\ UNCHANGED <<life, caller, kernel, epoll, receive_callback, hung, handled,
                 outq, writer, crashed>>

CallbackPops(g) ==
  /\ Alive /\ callback_pc[g] = "pop" /\ g \notin hung
  /\ inbound_q' = Tail(inbound_q)
  /\ read_mutex' = 0
  /\ callback_pc' = [callback_pc EXCEPT ![g] = "check"]
  /\ UNCHANGED <<life, caller, kernel, epoll, receive_callback, hung, handled,
                 outq, writer, crashed>>

\* register_callback() assigns the member while the callback thread may read it.
RegisterBegin(c) ==
  /\ Alive /\ caller_pc[c] = "idle" /\ receive_callback = "none"
  /\ receive_callback' = "half"
  /\ caller_pc' = [caller_pc EXCEPT ![c] = "reg"]
  /\ UNCHANGED <<life, caller_hand, kernel, epoll, inq, callback_pc, hung, handled,
                 outq, writer, crashed>>

RegisterEnd(c) ==
  /\ Alive /\ caller_pc[c] = "reg"
  /\ receive_callback' = "set"
  /\ caller_pc' = [caller_pc EXCEPT ![c] = "idle"]
  /\ UNCHANGED <<life, caller_hand, kernel, epoll, inq, callback_pc, hung, handled,
                 outq, writer, crashed>>

-------------------------------------------------------------------------------
(* send_message() and write() *)

\* By a thread of the application, or by the callback it registered.  `overlay` is
\* what front.first will read in write() once a copy of the payload has been made:
\* `to`, unless pop_front() frees the node of the deque with this element and the
\* copy is of the size (489..504 bytes) that the allocator puts in its place.
SendMessage(to, overlay) ==
  /\ Alive /\ write_mutex = 0 /\ Len(accepted) < MaxSend
  /\ overlay = to \/ (Len(accepted) + 1) % NodeSlots = 0
  /\ accepted' = Append(accepted, [to |-> to, overlay |-> overlay])
  /\ outbound_q' = Append(outbound_q, Len(accepted) + 1)
  /\ UNCHANGED <<life, caller, kernel, epoll, inq, user, write_mutex, writer, crashed>>

\* _outbound_q.empty() is read without the mutex.
WriteCheck(g) ==
  /\ Alive /\ write_pc[g] = "check" /\ outbound_q # <<>>
  /\ write_pc' = [write_pc EXCEPT ![g] = "lock"]
  /\ UNCHANGED <<life, caller, kernel, epoll, inq, user, outq, current, front_to, todo, sent, crashed>>
\* Mutant: write() gives up _write_mutex after the pop, before it sends.
PopUnlocks(g) ==
  /\ Alive /\ write_pc[g] = "lock" /\ write_mutex = 0
  /\ \/ /\ outbound_q # <<>>
        /\ current' = [current EXCEPT ![g] = Head(outbound_q)]
        /\ front_to' = [front_to EXCEPT ![g] = accepted[Head(outbound_q)].to]
        /\ todo' = [todo EXCEPT ![g] = dest_list]
        /\ outbound_q' = Tail(outbound_q)
        /\ write_pc' = [write_pc EXCEPT ![g] = "send"]
        /\ UNCHANGED <<write_mutex, crashed>>
     \/ /\ outbound_q = <<>>
        /\ crashed' = "empty_front"
        /\ UNCHANGED <<write_mutex, write_pc, current, front_to, todo, outbound_q>>
  /\ UNCHANGED <<life, caller, kernel, epoll, inq, user, accepted, sent>>

\* front() and pop_front(); `front` stays a reference into the deque.
WritePop(g) ==
  /\ Alive /\ write_pc[g] = "lock" /\ write_mutex = 0
  /\ \/ /\ outbound_q # <<>>
        /\ write_mutex' = g
        /\ current' = [current EXCEPT ![g] = Head(outbound_q)]
        /\ front_to' = [front_to EXCEPT ![g] = accepted[Head(outbound_q)].to]
        /\ todo' = [todo EXCEPT ![g] = dest_list]
        /\ outbound_q' = Tail(outbound_q)
        /\ write_pc' = [write_pc EXCEPT ![g] = "send"]
        /\ UNCHANGED crashed
     \/ /\ outbound_q = <<>>
        /\ crashed' = "empty_front"
        /\ UNCHANGED <<write_mutex, write_pc, current, front_to, todo, outbound_q>>
  /\ UNCHANGED <<life, caller, kernel, epoll, inq, user, accepted, sent>>
\* Mutant: the loop over the destinations ends at the first one.
SendFirst(g, d) ==
  /\ Alive /\ write_pc[g] = "send" /\ d \in todo[g] /\ \A e \in todo[g] : d <= e
  /\ todo' = [todo EXCEPT ![g] = {}]
  /\ \/ /\ front_to[g] \in {All, d}
        /\ sent' = [sent EXCEPT ![d] = Append(@, current[g])]
        /\ front_to' = [front_to EXCEPT ![g] = accepted[current[g]].overlay]
        /\ err' = err \ {udp_socket}
     \/ /\ front_to[g] \notin {All, d}
        /\ UNCHANGED <<sent, front_to, err>>
  /\ UNCHANGED <<life, caller, live, rcvbuf, watch, edge, arrivals, epoll, inq, user, outq, write_pc,
                 current, crashed>>

\* The destinations are taken in the order of the std::map.  A pending error is
\* the result of the next sendto(), which goes unnoticed here.
WriteSend(g, d) ==
  /\ Alive /\ write_pc[g] = "send" /\ d \in todo[g] /\ \A e \in todo[g] : d <= e
  /\ todo' = [todo EXCEPT ![g] = @ \ {d}]
  /\ \/ /\ front_to[g] \in {All, d}
        /\ sent' = [sent EXCEPT ![d] = Append(@, current[g])]
        /\ front_to' = [front_to EXCEPT ![g] = accepted[current[g]].overlay]
        /\ err' = err \ {udp_socket}
     \/ /\ front_to[g] \notin {All, d}
        /\ UNCHANGED <<sent, front_to, err>>
  /\ UNCHANGED <<life, caller, live, rcvbuf, watch, edge, arrivals, epoll, inq, user, outq, write_pc,
                 current, crashed>>
\* Mutant: the loop of the write thread is while (_is_running).
DoneRunning(g) ==
  /\ Alive /\ write_pc[g] = "send" /\ todo[g] = {}
  /\ write_mutex' = 0
  /\ current' = [current EXCEPT ![g] = 0]
  /\ write_pc' = [write_pc EXCEPT ![g] = IF is_running THEN "check" ELSE "none"]
  /\ UNCHANGED <<life, caller, kernel, epoll, inq, user, outbound_q, accepted, front_to, todo, sent,
                 crashed>>

WriteDone(g) ==
  /\ Alive /\ write_pc[g] = "send" /\ todo[g] = {}
  /\ write_mutex' = 0
  /\ current' = [current EXCEPT ![g] = 0]
  /\ write_pc' = [write_pc EXCEPT ![g] = "check"]
  /\ UNCHANGED <<life, caller, kernel, epoll, inq, user, outbound_q, accepted, front_to, todo, sent,
                 crashed>>

-------------------------------------------------------------------------------
(* stop(), the network, the specification *)

\* A member that is NULL ends it here; what 0 stands for may be another value.
StopEnter(c) ==
  /\ Alive /\ caller_pc[c] = "idle"
  /\ is_running' = FALSE
  /\ \/ caller_pc' = [caller_pc EXCEPT ![c] = "join"]
     \/ udp_socket = 0 /\ UNCHANGED caller_pc
  /\ UNCHANGED <<udp_socket, epoll_fd, dest_list, attempts, gens, caller_hand, kernel, epoll, inq, user,
                 outq, writer, crashed>>

\* The join loop gets past a generation only when its callback thread and its
\* write thread end, and they never do.
StopJoins(c) ==
  /\ Alive /\ caller_pc[c] = "join"
  /\ \A g \in Gens : callback_pc[g] = "none" /\ write_pc[g] = "none"
  /\ caller_pc' = [caller_pc EXCEPT ![c] = "close"]
  /\ UNCHANGED <<life, caller_hand, kernel, epoll, inq, user, outq, writer, crashed>>

\* It closes what the member names now, a socket start() has just opened included.
StopReturns(c) ==
  /\ Alive /\ caller_pc[c] = "close"
  /\ Close(udp_socket)
  /\ caller_pc' = [caller_pc EXCEPT ![c] = "idle"]
  /\ UNCHANGED <<life, caller_hand, watch, arrivals, epoll, inq, user, outq, writer, crashed>>

\* A datagram reaches a bound socket.
Arrive(s) ==
  /\ Alive /\ s \in live /\ arrivals < MaxRecv
  /\ arrivals' = arrivals + 1
  /\ rcvbuf' = [rcvbuf EXCEPT ![s] = Append(@, arrivals + 1)]
  /\ edge' = [g \in Gens |-> edge[g] \/ watch[g] = s]
  /\ UNCHANGED <<life, caller, live, err, watch, epoll, inq, user, outq, writer, crashed>>

\* An ICMP error answers a datagram sent from s.  It is an event, one that says
\* EPOLLIN as well when the buffer holds something.
IcmpError(s) ==
  /\ Alive /\ s \in live \cap Refused /\ \E d \in Dests : sent[d] # <<>>
  /\ err' = err \cup {s}
  /\ edge' = [g \in Gens |-> edge[g] \/ (watch[g] = s /\ rcvbuf[s] # <<>>)]
  /\ UNCHANGED <<life, caller, live, rcvbuf, watch, arrivals, epoll, inq, user, outq, writer, crashed>>

Caller(c) ==
  \/ StartEnter(c) \/ StartOpens(c) \/ StartOpenFails(c) \/ StartWorkers(c) \/ StartEpollFails(c)
  \/ StarterRecv(c) \/ StarterRecvNothing(c) \/ StarterPush(c)
  \/ RegisterBegin(c) \/ RegisterEnd(c)
  \/ StopEnter(c) \/ StopJoins(c) \/ StopReturns(c)
EpollThread(g) ==
  EpollReturns(g) \/ EpollFails(g) \/ EpollRecv(g) \/ EpollRecvNothing(g) \/ EpollPush(g)
CallbackThread(g) ==
  \/ CallbackCheck(g) \/ CallbackLock(g) \/ CallbackCalls(g) \/ CallbackCallsHalf(g) \/ CallbackPops(g)
WriteThread(g) ==
  WriteCheck(g) \/ WritePop(g) \/ (\E d \in Dests : WriteSend(g, d)) \/ WriteDone(g)

Next ==
  \/ \E c \in Callers : Caller(c)
  \/ \E g \in Gens : EpollThread(g) \/ CallbackThread(g) \/ WriteThread(g)
  \/ \E to \in Addressees : \E overlay \in Overlays \cup {to} : SendMessage(to, overlay)
  \/ \E g \in Gens : CallbackStays(g)
  \/ \E s \in Sockets : Arrive(s) \/ IcmpError(s)

\* The scheduler runs every thread that can run; nothing makes the application
\* call, a callback return that is not to, the network deliver or epoll_wait fail.
Fairness ==
  /\ \A g \in Gens :
       /\ WF_vars(EpollReturns(g)) /\ WF_vars(EpollRecv(g) \/ EpollRecvNothing(g))
       /\ WF_vars(EpollPush(g))
       /\ WF_vars(CallbackThread(g)) /\ WF_vars(WriteThread(g))
  /\ \A c \in Callers :
       WF_vars(StarterRecv(c) \/ StarterRecvNothing(c) \/ StarterPush(c) \/ RegisterEnd(c))

Spec == Init /\ [][Next]_vars
FairSpec == Spec /\ Fairness

-------------------------------------------------------------------------------
(* Properties *)

Elements(q) == {q[i] : i \in DOMAIN q}

\* Both consumers test empty() without the lock and then take front(): sound
\* with one generation of workers only.  The process dies on the front() of an
\* empty queue only after start() has spawned a second generation, which takes a
\* stop() that is still joining the first one, or two start() calls at once.
OneGenerationNeverUnderflows == crashed = "empty_front" => gens > 1

\* send_message() order is what every destination sees, and no message is handed
\* to sendto() twice for one destination, whatever number of write threads run.
SentInOrder ==
  \A d \in Dests : \A i, j \in DOMAIN sent[d] : i < j => sent[d][i] < sent[d][j]

Addressed(n) == IF accepted[n].to = All THEN Dests ELSE Dests \cap {accepted[n].to}
Recipients(n) == {d \in Dests : n \in Elements(sent[d])}
Finished == {n \in DOMAIN accepted : n \notin Elements(outbound_q) /\ \A g \in Gens : current[g] # n}
RouteKept(n) == accepted[n].overlay = accepted[n].to

\* A message write() is done with went to all destinations when it is addressed to
\* -1 and to the one of that DestinationID otherwise, unless it was the last of a
\* deque node and its payload took the place of that node.
Routed == \A n \in Finished : RouteKept(n) => Recipients(n) = Addressed(n)

\* AsyncKJW.h:51 promises the same of every message.
RoutedAsDocumented == \A n \in Finished : Recipients(n) = Addressed(n)

Held == Elements(inbound_q) \cup {epoll_hand[g] : g \in Gens} \cup {caller_hand[c] : c \in Callers}

\* A datagram recv() has taken stays with the handler until its turn in the
\* callback thread, and is passed on once: epoll threads and a thread still in
\* start() receive from one socket into one queue.
TakenOnceHandledOnce ==
  /\ \A i, j \in DOMAIN handled : i # j => handled[i] # handled[j]
  /\ \A s \in Sockets : Elements(rcvbuf[s]) \cap (Held \cup Elements(handled)) = {}

\* The handler's outbound side, and its inbound side from on_read() on, are FIFO
\* pipes that serve one message at a time (MessagePipe).
Outbound == INSTANCE MessagePipe WITH
  Items <- Messages,
  offered <- [n \in DOMAIN accepted |-> n],
  taken <- Len(accepted) - Len(outbound_q),
  serving <- IF write_mutex = 0 THEN 0 ELSE current[write_mutex]
OutboundIsPipe == Outbound!Spec

Turn == \E g \in Gens : callback_pc[g] = "pop"
Inbound == INSTANCE MessagePipe WITH
  Items <- Datagrams,
  offered <- handled \o (IF Turn THEN Tail(inbound_q) ELSE inbound_q),
  taken <- Len(handled),
  serving <- IF Turn THEN Head(inbound_q) ELSE 0
InboundIsPipe == Inbound!Spec

\* Every message accepted by a handler that has workers is eventually served,
\* stop() or no stop().
MessagesServed ==
  \A n \in Messages : (gens > 0 /\ n \in DOMAIN accepted) ~> (n \in Finished \/ ~Alive)

\* An edge-triggered event buys one recv(): the first datagram in the buffer when it
\* is reported is taken, or the socket closed, or an error was pending, which uses up
\* the event; later datagrams may stay behind.  Every datagram taken reaches its turn,
\* stop() or no stop(), unless a callback never returns.
Reported(n) ==
  /\ Readable /\ n = Head(rcvbuf[udp_socket])
  /\ \E g \in Gens : watch[g] = udp_socket /\ (edge[g] \/ epoll_pc[g] = "recv")
===============================================================================
