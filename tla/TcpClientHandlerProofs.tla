------------------------ MODULE TcpClientHandlerProofs ------------------------
(***************************************************************************)
(* Theorems about TcpClientHandler for every value of its constants: any   *)
(* number of callers, start() calls, sockets, messages and chunks.         *)
(*                                                                         *)
(* The inductive invariant follows a chunk from the server to the callback *)
(* (Places: it is in one receive buffer, one hand, or what on_read() has   *)
(* taken), and says what one generation of threads may rely on: that no    *)
(* other connects or writes (Connection, SentInv), that all its recv() are *)
(* on one socket (OneSocket), so that the chunks behind it are later ones  *)
(* (OrderInv), and that only the member is open (LeakInv).                 *)
(***************************************************************************)
EXTENDS TcpClientHandler, QueueLemmas

\* A generation that start() has not spawned has no thread; a connection needs one.
Spawned ==
  /\ \A g \in Gens : g > gens =>
       /\ pc[<<"connect", g>>] = "none" /\ pc[<<"epoll", g>>] = "none"
       /\ callback_pc[g] = "none" /\ write_pc[g] = "none"
  /\ connected => gens > 0
  /\ opened > 0 => gens > 0

\* A thread blocked in recv() is blocked on a socket.
Blocked == \A r \in Readers : pc[r] = "recv" => on[r] \in Sockets

\* The callback is called with the mutex held and the queue not empty.
TurnInv ==
  /\ \A g \in Gens : callback_pc[g] \in {"call", "pop"} <=> read_mutex = g
  /\ \A g \in Gens : callback_pc[g] \in {"call", "pop"} => inbound_q # <<>>

\* With one generation, what a consumer has seen in the queue is still there.
Ready == gens <= 1 =>
  /\ \A g \in Gens : callback_pc[g] = "lock" => inbound_q # <<>>
  /\ \A g \in Gens : write_pc[g] = "lock" => outbound_q # <<>>
  /\ crashed # "empty_front"

Popped == queued - Len(outbound_q)
OutQueue ==
  /\ Popped \in Nat
  /\ \A i \in 1..Len(outbound_q) : outbound_q[i] = Popped + i
  /\ \A g \in Gens : write_pc[g] = "send" => message[g] \in Messages

\* Where the threads of one generation are, before and after the connection.
Connection ==
  gens <= 1 =>
    /\ connected => \A g \in Gens : pc[<<"connect", g>>] \in {"none", "read", "recv", "push", "loop", "done"}
    /\ ~connected => \A g \in Gens :
         /\ pc[<<"connect", g>>] \in {"none", "loop", "bind", "connect", "connecting", "peer", "watch"}
         /\ pc[<<"epoll", g>>] \in {"none", "loop"}
         /\ write_pc[g] \in {"none", "check"}

\* One write thread: what is sent is what was popped, until the connection is lost,
\* and from then on nothing is but by a send() that was blocked on it.
SentInv ==
  gens <= 1 =>
    /\ \A i \in 1..Len(sent) : sent[i] = i
    /\ ~connected => Popped = 0
    /\ Len(sent) <= Popped
    /\ \A g \in Gens : write_pc[g] = "send" => message[g] = Popped
    /\ \A g \in Gens : into[g] # 0 => write_pc[g] = "send" /\ Len(sent) = Popped - 1
    /\ connected /\ State(client_socket) = "up" =>
         /\ \A g \in Gens : write_pc[g] = "send" => Len(sent) = Popped - 1
         /\ (\A g \in Gens : write_pc[g] # "send") => Len(sent) = Popped

Pending == IF Turn THEN Tail(inbound_q) ELSE inbound_q
Offered == handled \o Pending

\* A chunk is in one place: one receive buffer, one hand, or what on_read() took.
InOffered ==
  /\ \A i \in DOMAIN Offered : Offered[i] <= chunks
  /\ \A i, j \in DOMAIN Offered : i # j => Offered[i] # Offered[j]
InBuffers ==
  \A s \in Sockets : \A i \in DOMAIN rcvbuf[s] :
    /\ rcvbuf[s][i] <= chunks
    /\ \A j \in DOMAIN Offered : Offered[j] # rcvbuf[s][i]
    /\ \A j \in DOMAIN rcvbuf[s] : i < j => rcvbuf[s][i] < rcvbuf[s][j]
    /\ \A t \in Sockets : \A j \in DOMAIN rcvbuf[t] : s # t => rcvbuf[s][i] # rcvbuf[t][j]
InHands ==
  \A r \in Readers : pc[r] = "push" =>
    /\ chunk[r] <= chunks
    /\ \A i \in DOMAIN Offered : Offered[i] # chunk[r]
    /\ \A s \in Sockets : \A i \in DOMAIN rcvbuf[s] : rcvbuf[s][i] # chunk[r]
    /\ \A q \in Readers : pc[q] = "push" /\ q # r => chunk[q] # chunk[r]
FirstReads ==
  /\ \A g \in Gens : pc[<<"connect", g>>] = "push" => chunk[<<"connect", g>>] \in first_read
  /\ \A n \in first_read :
       /\ n <= chunks
       /\ \A s \in Sockets : \A i \in DOMAIN rcvbuf[s] : rcvbuf[s][i] # n
       /\ \A g \in Gens : pc[<<"epoll", g>>] = "push" => chunk[<<"epoll", g>>] # n
Places == InOffered /\ InBuffers /\ InHands /\ FirstReads

Watched(s) == s = client_socket \/ \E r \in Readers : pc[r] = "recv" /\ on[r] = s
OneSocket ==
  gens <= 1 =>
    /\ ~connected => Offered = <<>>
    /\ connected => \A q, r \in Readers : pc[q] = "recv" /\ pc[r] = "recv" => on[q] = on[r]
    /\ connected /\ client_socket # 0 => \A r \in Readers : pc[r] = "recv" => on[r] = client_socket
OrderInv ==
  gens <= 1 =>
    /\ \A i, j \in DOMAIN Offered :
         i < j /\ Offered[i] \notin first_read /\ Offered[j] \notin first_read => Offered[i] < Offered[j]
    /\ \A g \in Gens : pc[<<"epoll", g>>] = "push" =>
         \A i \in DOMAIN Offered : Offered[i] \notin first_read => Offered[i] < chunk[<<"epoll", g>>]
    /\ connected => \A s \in Sockets : Watched(s) => \A k \in DOMAIN rcvbuf[s] :
         /\ \A i \in DOMAIN Offered : Offered[i] \notin first_read => Offered[i] < rcvbuf[s][k]
         /\ \A g \in Gens : pc[<<"epoll", g>>] = "push" => chunk[<<"epoll", g>>] < rcvbuf[s][k]

IsOpen(s) == sock[s] \in {"open", "bound", "up"}
\* One generation, calls by one thread: no socket is open but the member's, and none
\* when the connect thread is about to open one.
LeakInv ==
  /\ \A c \in Callers : caller_pc[c] \in {"close", "null", "rejoin"} => gens = 0
  /\ client_socket <= opened
  /\ opened = 0 => \A s \in Sockets : sock[s] = "none"
  /\ gens <= 1 =>
       /\ \A s \in Sockets : IsOpen(s) => s = client_socket
       /\ ~connected => \A g \in Gens : pc[<<"connect", g>>] = "loop" => \A s \in Sockets : ~IsOpen(s)

-------------------------------------------------------------------------------
(* Types *)

LEMMA Bounds ==
  /\ MaxStart \in Nat \ {0} /\ MaxTry \in Nat \ {0} /\ MaxSend \in Nat /\ MaxChunk \in Nat
  /\ 0 \notin Gens /\ 0 \notin Sockets /\ -1 \notin Sockets /\ Gens \subseteq Nat
  /\ \A g \in Gens : <<"connect", g>> \in Readers /\ <<"epoll", g>> \in Readers
BY BoundsAssumption DEF Gens, Sockets, Readers

LEMMA TypeFrame ==
  ASSUME TypeOK
  PROVE  /\ UNCHANGED life => LifeType'
         /\ UNCHANGED <<client_socket, connected, epoll_fd, kernel>> => SocketType'
         /\ UNCHANGED network => NetworkType'
         /\ UNCHANGED reader => ReaderType'
         /\ UNCHANGED writer => WriterType'
         /\ UNCHANGED outq => OutType'
         /\ UNCHANGED <<inbound_q, read_mutex, user>> => InType'
<1>1. UNCHANGED life => LifeType' BY DEF TypeOK, LifeType, life
<1>2. UNCHANGED <<client_socket, connected, epoll_fd, kernel>> => SocketType'
  BY DEF TypeOK, SocketType, kernel
<1>3. UNCHANGED network => NetworkType' BY DEF TypeOK, NetworkType, network
<1>4. UNCHANGED reader => ReaderType' BY DEF TypeOK, ReaderType, reader
<1>5. UNCHANGED writer => WriterType' BY DEF TypeOK, WriterType, writer
<1>6. UNCHANGED outq => OutType' BY DEF TypeOK, OutType, outq
<1>7. UNCHANGED <<inbound_q, read_mutex, user>> => InType' BY DEF TypeOK, InType, user
<1> QED BY <1>1, <1>2, <1>3, <1>4, <1>5, <1>6, <1>7

LEMMA TypeInit == Init => TypeOK
<1> SUFFICES ASSUME Init PROVE TypeOK OBVIOUS
<1> USE Bounds DEF Init
<1>1. LifeType
  <2>1. 0 \in 0..MaxStart OBVIOUS
  <2>2. caller_pc \in [Callers -> {"idle", "join", "close", "null", "rejoin"}] OBVIOUS
  <2>3. is_running \in BOOLEAN OBVIOUS
  <2> QED BY <2>1, <2>2, <2>3 DEF LifeType
<1>2. SocketType
  <2>1. connected \in BOOLEAN OBVIOUS
  <2>2. client_socket \in -1..MaxTry /\ epoll_fd \in 0..MaxTry /\ opened \in 0..MaxTry OBVIOUS
  <2>3. sock \in [Sockets -> {"none", "open", "bound", "up", "closed"}] OBVIOUS
  <2> QED BY <2>1, <2>2, <2>3 DEF SocketType
<1>3. NetworkType BY DEF NetworkType
<1>4. ReaderType BY DEF ReaderType
<1>5. WriterType
  <2>1. errno \in [Gens -> BOOLEAN] OBVIOUS
  <2>2. sent \in Seq(Messages) /\ message \in [Gens -> 0..MaxSend] OBVIOUS
  <2>3. write_pc \in [Gens -> {"none", "check", "lock", "send"}] OBVIOUS
  <2> QED BY <2>1, <2>2, <2>3 DEF WriterType
<1>6. OutType /\ InType BY DEF OutType, InType
<1> QED BY <1>1, <1>2, <1>3, <1>4, <1>5, <1>6 DEF TypeOK

LEMMA CloseType ==
  ASSUME TypeOK, NEW fd, Close(fd)
  PROVE  /\ sock' \in [Sockets -> {"none", "open", "bound", "up", "closed"}]
         /\ watched' \in SUBSET Sockets /\ edge' \in SUBSET Sockets /\ opened' \in 0..MaxTry
BY DEF TypeOK, SocketType, Close

LEMMA TypeCaller ==
  ASSUME TypeOK, NEW c \in Callers, Caller(c)
  PROVE  TypeOK'
<1> USE Bounds
<1>1. CASE Start(c)
  <2>1. gens + 1 \in Gens /\ gens + 1 \in 0..MaxStart BY <1>1 DEF TypeOK, LifeType, Start, Gens
  <2>2. LifeType' BY <1>1, <2>1 DEF TypeOK, LifeType, Start
  <2>3. ReaderType' BY <1>1 DEF TypeOK, ReaderType, Start
  <2>4. WriterType' BY <1>1, <2>1 DEF TypeOK, WriterType, Start
  <2>5. InType' BY <1>1, <2>1 DEF TypeOK, InType, Start
  <2> QED BY <1>1, <2>2, <2>3, <2>4, <2>5, TypeFrame DEF TypeOK, Start
<1>2. CASE StopReturnsEarly(c) \/ StopEnter(c) \/ StopJoins(c) \/ StopReturns(c)
  <2>1. LifeType' BY <1>2 DEF TypeOK, LifeType, StopReturnsEarly, StopEnter, StopJoins, StopReturns
  <2> QED BY <1>2, <2>1, TypeFrame DEF TypeOK, StopReturnsEarly, StopEnter, StopJoins, StopReturns
<1>3. CASE StopCloses(c)
  <2>1. LifeType' BY <1>3 DEF TypeOK, LifeType, StopCloses
  <2>2. SocketType' BY <1>3, CloseType DEF TypeOK, SocketType, StopCloses
  <2>3. NetworkType' BY <1>3 DEF TypeOK, NetworkType, StopCloses
  <2> QED BY <1>3, <2>1, <2>2, <2>3, TypeFrame DEF TypeOK, StopCloses
<1>4. CASE StopClears(c)
  <2>1. LifeType' BY <1>4 DEF TypeOK, LifeType, StopClears
  <2>2. SocketType' BY <1>4 DEF TypeOK, SocketType, StopClears, kernel
  <2> QED BY <1>4, <2>1, <2>2, TypeFrame DEF TypeOK, StopClears
<1> QED BY <1>1, <1>2, <1>3, <1>4 DEF Caller

\* A step of a thread that runs read(): where it goes on.
LEMMA StepType ==
  ASSUME TypeOK, NEW r \in Readers, NEW here, NEW there, Step(r, here, there),
         there \in {"loop", "bind", "connect", "connecting", "peer", "watch", "wait", "read", "recv", "done"},
         chunk' = chunk, waits' \in [Gens -> 0..MaxTry], first_read' = first_read,
         on' \in [Readers -> 0..MaxTry]
  PROVE  ReaderType'
BY DEF TypeOK, ReaderType, Step

LEMMA TypeConnect ==
  ASSUME TypeOK, NEW g \in Gens, ConnectThread(g)
  PROVE  TypeOK'
<1> USE Bounds
<1> DEFINE r == <<"connect", g>>
<1>a. on \in [Readers -> 0..MaxTry] /\ waits \in [Gens -> 0..MaxTry] /\ 0 \in 0..MaxTry
  BY DEF TypeOK, ReaderType
<1>0. /\ on \in [Readers -> 0..MaxTry] /\ waits \in [Gens -> 0..MaxTry]
      /\ [on EXCEPT ![r] = 0] \in [Readers -> 0..MaxTry]
  BY <1>a
<1>1. CASE ConnectDone(g)
  <2>1. ReaderType' BY <1>0, <1>1, StepType DEF ConnectDone
  <2> QED BY <1>1, <2>1, TypeFrame DEF TypeOK, ConnectDone
<1>2. CASE ConnectOpens(g)
  <2>1. ReaderType' BY <1>0, <1>2, StepType DEF ConnectOpens
  <2>2. opened + 1 \in Sockets BY <1>2 DEF TypeOK, SocketType, ConnectOpens, Sockets
  <2>3. SocketType' BY <1>2, <2>2 DEF TypeOK, SocketType, ConnectOpens, Sockets
  <2> QED BY <1>2, <2>1, <2>3, TypeFrame DEF TypeOK, ConnectOpens
<1>3. CASE ConnectOpenFails(g)
  <2>1. ReaderType' BY <1>0, <1>3, StepType DEF ConnectOpenFails
  <2>2. SocketType' BY <1>3 DEF TypeOK, SocketType, ConnectOpenFails, kernel
  <2> QED BY <1>3, <2>1, <2>2, TypeFrame DEF TypeOK, ConnectOpenFails
<1>4. CASE ConnectBinds(g)
  <2>1. ReaderType' BY <1>0, <1>4, StepType DEF ConnectBinds
  <2>2. SocketType' BY <1>4 DEF TypeOK, SocketType, ConnectBinds
  <2> QED BY <1>4, <2>1, <2>2, TypeFrame DEF TypeOK, ConnectBinds
<1>5. CASE ConnectGivesUp(g)
  <2>1. ReaderType' BY <1>0, <1>5, StepType DEF ConnectGivesUp
  <2>2. SocketType' BY <1>5, CloseType DEF TypeOK, SocketType, ConnectGivesUp
  <2> QED BY <1>5, <2>1, <2>2, TypeFrame DEF TypeOK, ConnectGivesUp
<1>6. CASE ConnectCalls(g)
  <2>1. on' \in [Readers -> 0..MaxTry] BY <1>0, <1>6 DEF ConnectCalls, State, Sockets
  <2>2. ReaderType' BY <1>0, <1>6, <2>1, StepType DEF ConnectCalls
  <2> QED BY <1>6, <2>2, TypeFrame DEF TypeOK, ConnectCalls
<1>7. CASE ConnectSucceeds(g)
  <2>1. ReaderType' BY <1>0, <1>7, StepType DEF ConnectSucceeds
  <2>2. SocketType' BY <1>7 DEF TypeOK, SocketType, ConnectSucceeds
  <2> QED BY <1>7, <2>1, <2>2, TypeFrame DEF TypeOK, ConnectSucceeds
<1>8. CASE ConnectNamesPeer(g)
  <2>1. ReaderType' BY <1>0, <1>8, StepType DEF ConnectNamesPeer
  <2> QED BY <1>8, <2>1, TypeFrame DEF TypeOK, ConnectNamesPeer
<1>9. CASE ConnectDrops(g)
  <2>1. ReaderType' BY <1>0, <1>9, StepType DEF ConnectDrops
  <2>2. SocketType' BY <1>9, CloseType DEF TypeOK, SocketType, ConnectDrops
  <2> QED BY <1>9, <2>1, <2>2, TypeFrame DEF TypeOK, ConnectDrops
<1>10. CASE ConnectWatches(g)
  <2>1. ReaderType' BY <1>0, <1>10, StepType DEF ConnectWatches
  <2>2. client_socket \in Sockets BY <1>10 DEF ConnectWatches, State
  <2>3. SocketType' BY <1>10, <2>2 DEF TypeOK, SocketType, ConnectWatches, Sockets
  <2> QED BY <1>10, <2>1, <2>3, TypeFrame DEF TypeOK, ConnectWatches
<1> QED BY <1>1, <1>2, <1>3, <1>4, <1>5, <1>6, <1>7, <1>8, <1>9, <1>10 DEF ConnectThread

\* What a recv() that returns data takes.
LEMMA RecvFacts ==
  ASSUME TypeOK, Blocked, NEW r \in Readers, RecvTakes(r)
  PROVE  /\ on[r] \in Sockets /\ rcvbuf[on[r]] \in Seq(Chunks)
         /\ Head(rcvbuf[on[r]]) \in Chunks /\ Tail(rcvbuf[on[r]]) \in Seq(Chunks)
<1>1. on[r] \in Sockets /\ rcvbuf[on[r]] \in Seq(Chunks) /\ rcvbuf[on[r]] # <<>>
  BY DEF TypeOK, NetworkType, Blocked, RecvTakes, Step
<1> QED BY <1>1, HeadTail

LEMMA TypeRead ==
  ASSUME TypeOK, Blocked, NEW r \in Readers, ReadSteps(r)
  PROVE  TypeOK'
<1> USE Bounds
<1>0. /\ on \in [Readers -> 0..MaxTry] /\ waits \in [Gens -> 0..MaxTry]
      /\ [on EXCEPT ![r] = 0] \in [Readers -> 0..MaxTry]
  BY DEF TypeOK, ReaderType
<1>1. CASE Recv(r)
  <2>1. on' \in [Readers -> 0..MaxTry] BY <1>0, <1>1 DEF Recv, State, Sockets
  <2>2. ReaderType' BY <1>0, <1>1, <2>1, StepType DEF Recv
  <2> QED BY <1>1, <2>2, TypeFrame DEF TypeOK, Recv
<1>2. CASE RecvRefused(r)
  <2>1. ReaderType' BY <1>0, <1>2, StepType DEF RecvRefused
  <2> QED BY <1>2, <2>1, TypeFrame DEF TypeOK, RecvRefused
<1>3. CASE RecvTakes(r)
  <2>1. /\ on[r] \in Sockets /\ Head(rcvbuf[on[r]]) \in Chunks
        /\ Tail(rcvbuf[on[r]]) \in Seq(Chunks)
    BY <1>3, RecvFacts
  <2>2. Chunks \subseteq 0..MaxChunk /\ 0 \notin Chunks BY DEF Chunks
  <2>3. ReaderType' BY <1>0, <1>3, <2>1, <2>2 DEF TypeOK, ReaderType, RecvTakes, Step
  <2>4. NetworkType' BY <1>3, <2>1 DEF TypeOK, NetworkType, RecvTakes
  <2> QED BY <1>3, <2>3, <2>4, TypeFrame DEF TypeOK, RecvTakes
<1>4. CASE RecvEnds(r)
  <2>1. ReaderType' BY <1>0, <1>4, StepType DEF RecvEnds
  <2> QED BY <1>4, <2>1, TypeFrame DEF TypeOK, RecvEnds
<1>5. CASE Push(r)
  <2>1. chunk[r] \in Chunks BY <1>5 DEF TypeOK, ReaderType, Push, Step, Chunks
  <2>2. ReaderType' BY <1>0, <1>5 DEF TypeOK, ReaderType, Push, Step
  <2>3. Append(inbound_q, chunk[r]) \in Seq(Chunks) BY <2>1, AppendFacts DEF TypeOK, InType
  <2>4. InType' BY <1>5, <2>3 DEF TypeOK, InType, Push, user
  <2> QED BY <1>5, <2>2, <2>4, TypeFrame DEF TypeOK, Push
<1> QED BY <1>1, <1>2, <1>3, <1>4, <1>5 DEF ReadSteps

LEMMA TypeEpoll ==
  ASSUME TypeOK, NEW g \in Gens, EpollThread(g) \/ EpollFails(g)
  PROVE  TypeOK'
<1> USE Bounds
<1>0. on \in [Readers -> 0..MaxTry] /\ waits \in [Gens -> 0..MaxTry] BY DEF TypeOK, ReaderType
<1>1. CASE EpollWaits(g)
  <2>1. waits' \in [Gens -> 0..MaxTry] BY <1>0, <1>1 DEF TypeOK, SocketType, EpollWaits
  <2>2. ReaderType' BY <1>0, <1>1, <2>1, StepType DEF EpollWaits
  <2> QED BY <1>1, <2>2, TypeFrame DEF TypeOK, EpollWaits
<1>2. CASE EpollReturns(g)
  <2>1. ReaderType' BY <1>0, <1>2, StepType DEF EpollReturns
  <2>2. SocketType' BY <1>2 DEF TypeOK, SocketType, EpollReturns
  <2> QED BY <1>2, <2>1, <2>2, TypeFrame DEF TypeOK, EpollReturns
<1>3. CASE EpollFails(g)
  <2>1. ReaderType' BY <1>0, <1>3, StepType DEF EpollFails
  <2>2. SocketType' BY <1>3 DEF TypeOK, SocketType, EpollFails
  <2> QED BY <1>3, <2>1, <2>2, TypeFrame DEF TypeOK, EpollFails
<1> QED BY <1>1, <1>2, <1>3 DEF EpollThread

LEMMA TypeWrite ==
  ASSUME TypeOK, NEW g \in Gens, WriteThread(g) \/ WriteInterrupted(g) \/ WriteBlocks(g),
         write_pc[g] = "send" => message[g] \in Messages
  PROVE  TypeOK'
<1> USE Bounds
<1>1. CASE WriteChecks(g)
  <2>1. WriterType' BY <1>1 DEF TypeOK, WriterType, WriteChecks
  <2> QED BY <1>1, <2>1, TypeFrame DEF TypeOK, WriteChecks
<1>2. CASE WritePops(g)
  <2>1. outbound_q # <<>> => Head(outbound_q) \in Messages /\ Tail(outbound_q) \in Seq(Messages)
    BY HeadTail DEF TypeOK, OutType
  <2>2. WriterType'
    <3>1. message' \in [Gens -> 0..MaxSend] BY <1>2, <2>1 DEF TypeOK, WriterType, WritePops, Messages
    <3>2. write_pc' \in [Gens -> {"none", "check", "lock", "send"}] BY <1>2 DEF TypeOK, WriterType, WritePops
    <3>3. UNCHANGED <<errno, into, sent>> BY <1>2 DEF WritePops
    <3> QED BY <3>1, <3>2, <3>3 DEF TypeOK, WriterType
  <2>3. OutType' BY <1>2, <2>1 DEF TypeOK, OutType, WritePops
  <2> QED BY <1>2, <2>2, <2>3, TypeFrame DEF TypeOK, WritePops
<1>3. CASE WriteSends(g)
  <2>1. Append(sent, message[g]) \in Seq(Messages)
    BY <1>3, AppendFacts DEF TypeOK, WriterType, WriteSends, Written
  <2>2. WriterType' BY <1>3, <2>1 DEF TypeOK, WriterType, WriteSends, Written
  <2>3. LifeType' BY <1>3 DEF TypeOK, LifeType, WriteSends
  <2>4. SocketType' BY <1>3, CloseType DEF TypeOK, SocketType, WriteSends, kernel
  <2> QED BY <1>3, <2>2, <2>3, <2>4, TypeFrame DEF TypeOK, WriteSends
<1>4. CASE WriteSendFails(g)
  <2>1. WriterType' BY <1>4 DEF TypeOK, WriterType, WriteSendFails, Written
  <2>2. SocketType' BY <1>4, CloseType DEF TypeOK, SocketType, WriteSendFails
  <2> QED BY <1>4, <2>1, <2>2, TypeFrame DEF TypeOK, WriteSendFails
<1>5. CASE WriteSignalled(g) BY <1>5, TypeFrame DEF TypeOK, WriteSignalled
<1>6. CASE WriteInterrupted(g)
  <2>1. WriterType' BY <1>6 DEF TypeOK, WriterType, WriteInterrupted
  <2> QED BY <1>6, <2>1, TypeFrame DEF TypeOK, WriteInterrupted
<1>7. CASE WriteBlocks(g)
  <2>1. client_socket \in 0..MaxTry BY <1>7 DEF WriteBlocks, State, Sockets
  <2>2. WriterType' BY <1>7, <2>1 DEF TypeOK, WriterType, WriteBlocks
  <2> QED BY <1>7, <2>2, TypeFrame DEF TypeOK, WriteBlocks
<1> QED BY <1>1, <1>2, <1>3, <1>4, <1>5, <1>6, <1>7 DEF WriteThread

LEMMA TypeCallback ==
  ASSUME TypeOK, TurnInv, NEW g \in Gens, CallbackThread(g) \/ CallbackStays(g)
  PROVE  TypeOK'
<1> USE Bounds
<1>0. inbound_q # <<>> => Head(inbound_q) \in Chunks /\ Tail(inbound_q) \in Seq(Chunks)
  BY HeadTail DEF TypeOK, InType
<1>1. CASE CallbackChecks(g)
  <2>1. InType' BY <1>1 DEF TypeOK, InType, CallbackChecks
  <2> QED BY <1>1, <2>1, TypeFrame DEF TypeOK, CallbackChecks
<1>2. CASE CallbackLocks(g)
  <2>1. InType' BY <1>2 DEF TypeOK, InType, CallbackLocks, Gens
  <2> QED BY <1>2, <2>1, TypeFrame DEF TypeOK, CallbackLocks
<1>3. CASE CallbackCalls(g)
  <2>1. Append(handled, Head(inbound_q)) \in Seq(Chunks)
    BY <1>0, <1>3, AppendFacts DEF TypeOK, InType, TurnInv, CallbackCalls
  <2>2. InType' BY <1>3, <2>1 DEF TypeOK, InType, CallbackCalls
  <2> QED BY <1>3, <2>2, TypeFrame DEF TypeOK, CallbackCalls
<1>4. CASE CallbackPops(g)
  <2>1. InType' BY <1>0, <1>4 DEF TypeOK, InType, TurnInv, CallbackPops
  <2> QED BY <1>4, <2>1, TypeFrame DEF TypeOK, CallbackPops
<1>5. CASE CallbackStays(g)
  <2>1. InType' BY <1>5 DEF TypeOK, InType, CallbackStays
  <2>2. LifeType' BY <1>5 DEF TypeOK, LifeType, CallbackStays
  <2> QED BY <1>5, <2>1, <2>2, TypeFrame DEF TypeOK, CallbackStays
<1> QED BY <1>1, <1>2, <1>3, <1>4, <1>5 DEF CallbackThread

LEMMA TypeOthers ==
  ASSUME TypeOK, SendMessage \/ \E s \in Sockets : ServerSends(s) \/ ServerLeaves(s)
  PROVE  TypeOK'
<1> USE Bounds
<1>1. CASE SendMessage
  <2>1. queued + 1 \in Messages BY <1>1 DEF TypeOK, OutType, SendMessage, Messages
  <2>2. Append(outbound_q, queued + 1) \in Seq(Messages) BY <2>1, AppendFacts DEF TypeOK, OutType
  <2>3. OutType' BY <1>1, <2>1, <2>2 DEF TypeOK, OutType, SendMessage, Messages
  <2> QED BY <1>1, <2>3, TypeFrame DEF TypeOK, SendMessage
<1>2. ASSUME NEW s \in Sockets, ServerSends(s) PROVE TypeOK'
  <2>1. chunks + 1 \in Chunks BY <1>2 DEF TypeOK, NetworkType, ServerSends, Chunks
  <2>2. Append(rcvbuf[s], chunks + 1) \in Seq(Chunks) BY <2>1, AppendFacts DEF TypeOK, NetworkType
  <2>3. NetworkType' BY <1>2, <2>1, <2>2 DEF TypeOK, NetworkType, ServerSends, Chunks
  <2>4. SocketType' BY <1>2 DEF TypeOK, SocketType, ServerSends
  <2> QED BY <1>2, <2>3, <2>4, TypeFrame DEF TypeOK, ServerSends
<1>3. ASSUME NEW s \in Sockets, ServerLeaves(s) PROVE TypeOK'
  <2>1. NetworkType' BY <1>3 DEF TypeOK, NetworkType, ServerLeaves
  <2>2. SocketType' BY <1>3 DEF TypeOK, SocketType, ServerLeaves
  <2> QED BY <1>3, <2>1, <2>2, TypeFrame DEF TypeOK, ServerLeaves
<1> QED BY <1>1, <1>2, <1>3

LEMMA TypeStep ==
  ASSUME TypeOK, Blocked, TurnInv, OutQueue, [Next]_vars
  PROVE  TypeOK'
<1>1. CASE UNCHANGED vars
  <2>1. /\ UNCHANGED <<life, network, reader, writer, outq, user, crashed>>
        /\ UNCHANGED <<client_socket, connected, epoll_fd, kernel>>
        /\ UNCHANGED <<inbound_q, read_mutex, user>>
    BY <1>1 DEF vars
  <2> QED BY <2>1, TypeFrame DEF TypeOK
<1>2. ASSUME NEW g \in Gens, WriteThread(g) \/ WriteInterrupted(g) \/ WriteBlocks(g) PROVE TypeOK'
  BY <1>2, TypeWrite DEF OutQueue
<1> QED BY <1>1, <1>2, TypeCaller, TypeConnect, TypeEpoll, TypeRead, TypeCallback, TypeOthers DEF Next

-------------------------------------------------------------------------------
(* Threads *)

LEMMA ReaderFacts ==
  ASSUME NEW r \in Readers
  PROVE  r[2] \in Gens /\ (r = <<"connect", r[2]>> \/ r = <<"epoll", r[2]>>)
BY DEF Readers

\* With one start() there is one thread of each kind.
LEMMA OnlyOne ==
  ASSUME TypeOK, Spawned
  PROVE  /\ \A g \in Gens : \/ pc[<<"connect", g>>] # "none" \/ pc[<<"epoll", g>>] # "none"
                              \/ callback_pc[g] # "none" \/ write_pc[g] # "none"
                              => gens > 0 /\ g <= gens /\ (gens <= 1 => g = 1)
         /\ \A r \in Readers : pc[r] # "none" => gens > 0 /\ r[2] <= gens /\ (gens <= 1 => r[2] = 1)
<1>1. ASSUME NEW g \in Gens, \/ pc[<<"connect", g>>] # "none" \/ pc[<<"epoll", g>>] # "none"
                              \/ callback_pc[g] # "none" \/ write_pc[g] # "none"
      PROVE  gens > 0 /\ g <= gens /\ (gens <= 1 => g = 1)
  BY <1>1, Bounds DEF TypeOK, LifeType, Spawned, Gens
<1> QED BY <1>1, ReaderFacts

\* What a step may do to the positions of the threads.
Spawns == \E c \in Callers : Start(c)
Reads  == /\ \E r \in Readers : \E here, there : here # "none" /\ Step(r, here, there)
          /\ UNCHANGED <<gens, callback_pc, write_pc>>
Writes == /\ \E g \in Gens : \E there : write_pc[g] # "none" /\ write_pc' = [write_pc EXCEPT ![g] = there]
          /\ UNCHANGED <<gens, pc, callback_pc, connected, opened>>
Calls  == /\ \E g \in Gens : \E there : callback_pc[g] # "none" /\ callback_pc' = [callback_pc EXCEPT ![g] = there]
          /\ UNCHANGED <<gens, pc, write_pc, connected, opened>>
Rests  == UNCHANGED <<gens, pc, callback_pc, write_pc, connected, opened>>

LEMMA Moves ==
  ASSUME [Next]_vars
  PROVE  Spawns \/ Reads \/ Writes \/ Calls \/ Rests
<1>1. ASSUME NEW c \in Callers, Caller(c) PROVE Spawns \/ Rests
  BY <1>1 DEF Caller, StopReturnsEarly, StopEnter, StopJoins, StopCloses, StopClears, StopReturns, Close,
     Spawns, Rests, life, kernel, reader, writer, user
<1>2. ASSUME NEW g \in Gens, ConnectThread(g) PROVE Reads
  <2>1. UNCHANGED <<gens, callback_pc, write_pc>>
    BY <1>2 DEF ConnectThread, ConnectDone, ConnectOpens, ConnectOpenFails, ConnectBinds, ConnectGivesUp,
       ConnectCalls, ConnectSucceeds, ConnectNamesPeer, ConnectDrops, ConnectWatches, life, writer, user
  <2>2. \E here \in {"loop", "bind", "connect", "connecting", "peer", "watch"} : \E there :
          Step(<<"connect", g>>, here, there)
    BY <1>2 DEF ConnectThread, ConnectDone, ConnectOpens, ConnectOpenFails, ConnectBinds, ConnectGivesUp,
       ConnectCalls, ConnectSucceeds, ConnectNamesPeer, ConnectDrops, ConnectWatches
  <2> QED BY <2>1, <2>2, Bounds DEF Reads
<1>3. ASSUME NEW g \in Gens, EpollThread(g) \/ EpollFails(g) PROVE Reads
  <2>1. UNCHANGED <<gens, callback_pc, write_pc>>
    BY <1>3 DEF EpollThread, EpollWaits, EpollReturns, EpollFails, life, writer, user
  <2>2. \E here \in {"loop", "wait"} : \E there : Step(<<"epoll", g>>, here, there)
    BY <1>3 DEF EpollThread, EpollWaits, EpollReturns, EpollFails
  <2> QED BY <2>1, <2>2, Bounds DEF Reads
<1>4. ASSUME NEW r \in Readers, ReadSteps(r) PROVE Reads
  <2>1. UNCHANGED <<gens, callback_pc, write_pc>>
    BY <1>4 DEF ReadSteps, Recv, RecvRefused, RecvTakes, RecvEnds, Push, life, writer, user
  <2>2. \E here \in {"read", "recv", "push"} : \E there : Step(r, here, there)
    BY <1>4 DEF ReadSteps, Recv, RecvRefused, RecvTakes, RecvEnds, Push
  <2> QED BY <2>1, <2>2 DEF Reads
<1>5. ASSUME NEW g \in Gens, WriteThread(g) \/ WriteInterrupted(g) \/ WriteBlocks(g) PROVE Writes \/ Rests
  <2>1. UNCHANGED <<gens, pc, callback_pc, connected, opened>>
    BY <1>5 DEF WriteThread, WriteChecks, WritePops, WriteSends, WriteSendFails, WriteSignalled,
       WriteInterrupted, WriteBlocks, Written, Close, life, kernel, reader, writer, user
  <2>2. \/ UNCHANGED write_pc
        \/ write_pc[g] \in {"check", "lock", "send"} /\ \E there : write_pc' = [write_pc EXCEPT ![g] = there]
    BY <1>5 DEF WriteThread, WriteChecks, WritePops, WriteSends, WriteSendFails, WriteSignalled,
       WriteInterrupted, WriteBlocks, Written, writer
  <2> QED BY <2>1, <2>2 DEF Writes, Rests
<1>6. ASSUME NEW g \in Gens, CallbackThread(g) \/ CallbackStays(g) PROVE Calls \/ Rests
  <2>1. UNCHANGED <<gens, pc, write_pc, connected, opened>>
    BY <1>6 DEF CallbackThread, CallbackChecks, CallbackLocks, CallbackCalls, CallbackPops, CallbackStays, life, kernel,
       reader, writer
  <2>2. \/ UNCHANGED callback_pc
        \/ callback_pc[g] # "none" /\ \E there : callback_pc' = [callback_pc EXCEPT ![g] = there]
    BY <1>6 DEF CallbackThread, CallbackChecks, CallbackLocks, CallbackCalls, CallbackPops, CallbackStays
  <2> QED BY <2>1, <2>2 DEF Calls, Rests
<1>7. ASSUME SendMessage \/ (\E s \in Sockets : ServerSends(s) \/ ServerLeaves(s)) \/ UNCHANGED vars PROVE Rests
  BY <1>7 DEF SendMessage, ServerSends, ServerLeaves, vars, Rests, life, kernel, reader, writer, user
<1> QED BY <1>1, <1>2, <1>3, <1>4, <1>5, <1>6, <1>7 DEF Next

LEMMA SpawnedStep ==
  ASSUME TypeOK, Spawned, [Next]_vars
  PROVE  Spawned'
<1> USE Bounds
<1>1. CASE Spawns
  <2>1. PICK c \in Callers : Start(c) BY <1>1 DEF Spawns
  <2>2. /\ gens' = gens + 1 /\ gens \in Nat
        /\ pc' = [r \in Readers |-> IF r[2] = gens + 1 THEN "loop" ELSE pc[r]]
        /\ callback_pc' = [callback_pc EXCEPT ![gens + 1] = "check"]
        /\ write_pc' = [write_pc EXCEPT ![gens + 1] = "check"]
    BY <2>1 DEF Start, TypeOK, LifeType
  <2>3. DOMAIN callback_pc = Gens /\ DOMAIN write_pc = Gens BY DEF TypeOK, WriterType, InType
  <2>4. ASSUME NEW g \in Gens, g > gens + 1
        PROVE  /\ pc'[<<"connect", g>>] = "none" /\ pc'[<<"epoll", g>>] = "none"
               /\ callback_pc'[g] = "none" /\ write_pc'[g] = "none"
    <3>1. gens + 1 \in Gens /\ g # gens + 1 /\ g > gens
      BY <2>1, <2>2, <2>4 DEF Start, Gens
    <3>2. callback_pc'[g] = callback_pc[g] /\ write_pc'[g] = write_pc[g] BY <2>2, <2>3, <3>1
    <3>3. pc'[<<"connect", g>>] = pc[<<"connect", g>>] /\ pc'[<<"epoll", g>>] = pc[<<"epoll", g>>]
      BY <2>2, <3>1
    <3> QED BY <3>1, <3>2, <3>3 DEF Spawned
  <2> QED BY <2>2, <2>4 DEF Spawned
<1>2. CASE Reads
  <2>1. PICK r \in Readers : pc[r] # "none" /\ \A q \in Readers : q # r => pc'[q] = pc[q]
    BY <1>2 DEF Reads, Step, TypeOK, ReaderType
  <2>2. gens > 0 /\ r[2] <= gens BY <2>1, OnlyOne
  <2>3. ASSUME NEW q \in Readers, q[2] > gens PROVE pc'[q] = pc[q]
    <3>1. gens \in Nat /\ r[2] \in Nat BY ReaderFacts DEF TypeOK, LifeType, Gens
    <3> QED BY <2>1, <2>2, <2>3, <3>1
  <2> QED BY <1>2, <2>2, <2>3 DEF Spawned, Reads
<1>3. CASE Writes
  <2>1. PICK g \in Gens : write_pc[g] # "none" /\ \E there : write_pc' = [write_pc EXCEPT ![g] = there]
    BY <1>3 DEF Writes
  <2> QED BY <1>3, <2>1, OnlyOne DEF Writes, Spawned, TypeOK, WriterType, Gens, LifeType
<1>4. CASE Calls
  <2>1. PICK g \in Gens : callback_pc[g] # "none" /\ \E there : callback_pc' = [callback_pc EXCEPT ![g] = there]
    BY <1>4 DEF Calls
  <2> QED BY <1>4, <2>1, OnlyOne DEF Calls, Spawned, TypeOK, InType, Gens, LifeType
<1>5. CASE Rests BY <1>5 DEF Rests, Spawned
<1> QED BY <1>1, <1>2, <1>3, <1>4, <1>5, Moves

LEMMA BlockedStep ==
  ASSUME TypeOK, Blocked, [Next]_vars
  PROVE  Blocked'
<1> USE Bounds DEF Blocked
<1>1. ASSUME NEW c \in Callers, Start(c) PROVE Blocked'
  BY <1>1 DEF Start
<1>2. ASSUME NEW r \in Readers, NEW here, NEW there, Step(r, here, there), there # "recv",
             \A q \in Readers : q # r => on'[q] = on[q]
      PROVE  Blocked'
  BY <1>2 DEF Step, TypeOK, ReaderType
<1>3. ASSUME NEW r \in Readers, Recv(r) PROVE Blocked'
  BY <1>3 DEF Recv, Step, State, TypeOK, ReaderType
<1>4. ASSUME NEW g \in Gens, ConnectThread(g) PROVE Blocked'
  <2>1. \E here : \E there \in {"loop", "bind", "connect", "connecting", "peer", "watch", "read", "done"} :
          Step(<<"connect", g>>, here, there)
    BY <1>4 DEF ConnectThread, ConnectDone, ConnectOpens, ConnectOpenFails, ConnectBinds, ConnectGivesUp,
       ConnectCalls, ConnectSucceeds, ConnectNamesPeer, ConnectDrops, ConnectWatches
  <2>2. on' = on \/ \E s : on' = [on EXCEPT ![<<"connect", g>>] = s]
    BY <1>4 DEF ConnectThread, ConnectDone, ConnectOpens, ConnectOpenFails, ConnectBinds, ConnectGivesUp,
       ConnectCalls, ConnectSucceeds, ConnectNamesPeer, ConnectDrops, ConnectWatches
  <2> QED BY <1>2, <2>1, <2>2 DEF TypeOK, ReaderType
<1>5. ASSUME NEW g \in Gens, EpollThread(g) \/ EpollFails(g) PROVE Blocked'
  <2>1. \E here : \E there \in {"wait", "read", "done"} : Step(<<"epoll", g>>, here, there)
    BY <1>5 DEF EpollThread, EpollWaits, EpollReturns, EpollFails
  <2>2. on' = on BY <1>5 DEF EpollThread, EpollWaits, EpollReturns, EpollFails
  <2> QED BY <1>2, <2>1, <2>2
<1>6. ASSUME NEW r \in Readers, ReadSteps(r), ~Recv(r) PROVE Blocked'
  <2>1. \E here : \E there \in {"loop", "push"} : Step(r, here, there)
    BY <1>6 DEF ReadSteps, RecvRefused, RecvTakes, RecvEnds, Push
  <2>2. on' = on \/ on' = [on EXCEPT ![r] = 0]
    BY <1>6 DEF ReadSteps, RecvRefused, RecvTakes, RecvEnds, Push
  <2> QED BY <1>2, <2>1, <2>2 DEF TypeOK, ReaderType
<1>7. ASSUME \/ \E c \in Callers : Caller(c) /\ ~Start(c)
             \/ \E g \in Gens : WriteThread(g) \/ WriteInterrupted(g) \/ WriteBlocks(g)
                                \/ CallbackThread(g) \/ CallbackStays(g)
             \/ SendMessage \/ (\E s \in Sockets : ServerSends(s) \/ ServerLeaves(s))
             \/ UNCHANGED vars
      PROVE  UNCHANGED <<pc, on>>
  BY <1>7 DEF Caller, StopReturnsEarly, StopEnter, StopJoins, StopCloses, StopClears, StopReturns,
     WriteThread, WriteChecks, WritePops, WriteSends, WriteSendFails, WriteSignalled, WriteInterrupted,
     WriteBlocks, CallbackStays, CallbackThread, CallbackChecks, CallbackLocks, CallbackCalls, CallbackPops,
     SendMessage, ServerSends, ServerLeaves, vars, reader
<1> QED BY <1>1, <1>3, <1>4, <1>5, <1>6, <1>7 DEF Next

\* What leaves the inbound side as it is, and what the outbound side.
LEMMA InFrame ==
  ASSUME [Next]_vars
  PROVE  \/ Spawns \/ (\E g \in Gens : CallbackThread(g)) \/ (\E r \in Readers : Push(r))
         \/ UNCHANGED <<inbound_q, read_mutex, callback_pc, handled>>
<1>1. ASSUME NEW c \in Callers, Caller(c)
      PROVE  Spawns \/ UNCHANGED <<inbound_q, read_mutex, callback_pc, handled>>
  BY <1>1 DEF Caller, StopReturnsEarly, StopEnter, StopJoins, StopCloses, StopClears, StopReturns, Spawns, user
<1>2. ASSUME NEW g \in Gens, ConnectThread(g) PROVE UNCHANGED <<inbound_q, read_mutex, callback_pc, handled>>
  BY <1>2 DEF ConnectThread, ConnectDone, ConnectOpens, ConnectOpenFails, ConnectBinds, ConnectGivesUp,
     ConnectCalls, ConnectSucceeds, ConnectNamesPeer, ConnectDrops, ConnectWatches, user
<1>3. ASSUME NEW g \in Gens, \/ EpollThread(g) \/ EpollFails(g) \/ WriteThread(g) \/ WriteInterrupted(g)
                             \/ WriteBlocks(g) \/ CallbackStays(g)
      PROVE  UNCHANGED <<inbound_q, read_mutex, callback_pc, handled>>
  BY <1>3 DEF EpollThread, EpollWaits, EpollReturns, EpollFails, WriteThread, WriteChecks, WritePops,
     WriteSends, WriteSendFails, WriteSignalled, WriteInterrupted, WriteBlocks, CallbackStays, user
<1>4. ASSUME NEW r \in Readers, ReadSteps(r), ~Push(r)
      PROVE  UNCHANGED <<inbound_q, read_mutex, callback_pc, handled>>
  BY <1>4 DEF ReadSteps, Recv, RecvRefused, RecvTakes, RecvEnds, user
<1>5. ASSUME SendMessage \/ (\E s \in Sockets : ServerSends(s) \/ ServerLeaves(s)) \/ UNCHANGED vars
      PROVE  UNCHANGED <<inbound_q, read_mutex, callback_pc, handled>>
  BY <1>5 DEF SendMessage, ServerSends, ServerLeaves, vars, user
<1> QED BY <1>1, <1>2, <1>3, <1>4, <1>5 DEF Next

LEMMA OutFrame ==
  ASSUME [Next]_vars
  PROVE  \/ Spawns \/ (\E g \in Gens : WriteThread(g)) \/ SendMessage
         \/ UNCHANGED <<outq, sent, message, write_pc>>
<1>1. ASSUME NEW c \in Callers, Caller(c)
      PROVE  Spawns \/ UNCHANGED <<outq, sent, message, write_pc>>
  BY <1>1 DEF Caller, StopReturnsEarly, StopEnter, StopJoins, StopCloses, StopClears, StopReturns, Spawns,
     writer
<1>2. ASSUME NEW g \in Gens, ConnectThread(g) PROVE UNCHANGED <<outq, sent, message, write_pc>>
  BY <1>2 DEF ConnectThread, ConnectDone, ConnectOpens, ConnectOpenFails, ConnectBinds, ConnectGivesUp,
     ConnectCalls, ConnectSucceeds, ConnectNamesPeer, ConnectDrops, ConnectWatches, writer
<1>3. ASSUME NEW g \in Gens, \/ EpollThread(g) \/ EpollFails(g) \/ CallbackThread(g) \/ WriteInterrupted(g)
                             \/ WriteBlocks(g) \/ CallbackStays(g)
      PROVE  UNCHANGED <<outq, sent, message, write_pc>>
  BY <1>3 DEF EpollThread, EpollWaits, EpollReturns, EpollFails, CallbackThread, CallbackChecks,
     CallbackLocks, CallbackCalls, CallbackPops, CallbackStays, WriteInterrupted, WriteBlocks, writer
<1>4. ASSUME NEW r \in Readers, ReadSteps(r) PROVE UNCHANGED <<outq, sent, message, write_pc>>
  BY <1>4 DEF ReadSteps, Recv, RecvRefused, RecvTakes, RecvEnds, Push, writer
<1>5. ASSUME (\E s \in Sockets : ServerSends(s) \/ ServerLeaves(s)) \/ UNCHANGED vars
      PROVE  UNCHANGED <<outq, sent, message, write_pc>>
  BY <1>5 DEF ServerSends, ServerLeaves, vars, writer
<1> QED BY <1>1, <1>2, <1>3, <1>4, <1>5 DEF Next

\* What leaves the sockets as they are on which a send() is blocked.
LEMMA IntoFrame ==
  ASSUME [Next]_vars
  PROVE  UNCHANGED into \/ \E g \in Gens : WriteThread(g) \/ WriteBlocks(g)
<1>1. ASSUME NEW c \in Callers, Caller(c) PROVE UNCHANGED into
  BY <1>1 DEF Caller, Start, StopReturnsEarly, StopEnter, StopJoins, StopCloses, StopClears, StopReturns, writer
<1>2. ASSUME NEW g \in Gens, ConnectThread(g) PROVE UNCHANGED into
  BY <1>2 DEF ConnectThread, ConnectDone, ConnectOpens, ConnectOpenFails, ConnectBinds, ConnectGivesUp,
     ConnectCalls, ConnectSucceeds, ConnectNamesPeer, ConnectDrops, ConnectWatches, writer
<1>3. ASSUME NEW g \in Gens, \/ EpollThread(g) \/ EpollFails(g) \/ CallbackThread(g) \/ WriteInterrupted(g)
                             \/ CallbackStays(g)
      PROVE  UNCHANGED into
  BY <1>3 DEF EpollThread, EpollWaits, EpollReturns, EpollFails, CallbackThread, CallbackChecks,
     CallbackLocks, CallbackCalls, CallbackPops, CallbackStays, WriteInterrupted, writer
<1>4. ASSUME NEW r \in Readers, ReadSteps(r) PROVE UNCHANGED into
  BY <1>4 DEF ReadSteps, Recv, RecvRefused, RecvTakes, RecvEnds, Push, writer
<1>5. ASSUME SendMessage \/ (\E s \in Sockets : ServerSends(s) \/ ServerLeaves(s)) \/ UNCHANGED vars
      PROVE  UNCHANGED into
  BY <1>5 DEF SendMessage, ServerSends, ServerLeaves, vars, writer
<1> QED BY <1>1, <1>2, <1>3, <1>4, <1>5 DEF Next

LEMMA CrashFrame ==
  ASSUME [Next]_vars
  PROVE  \/ \E g \in Gens : CallbackThread(g) \/ WriteThread(g)
         \/ crashed' = "self_join"
         \/ UNCHANGED crashed
<1>1. ASSUME NEW c \in Callers, Caller(c) PROVE UNCHANGED crashed
  BY <1>1 DEF Caller, Start, StopReturnsEarly, StopEnter, StopJoins, StopCloses, StopClears, StopReturns
<1>2. ASSUME NEW g \in Gens, ConnectThread(g) PROVE UNCHANGED crashed
  BY <1>2 DEF ConnectThread, ConnectDone, ConnectOpens, ConnectOpenFails, ConnectBinds, ConnectGivesUp,
     ConnectCalls, ConnectSucceeds, ConnectNamesPeer, ConnectDrops, ConnectWatches
<1>3. ASSUME NEW g \in Gens, \/ EpollThread(g) \/ EpollFails(g) \/ WriteInterrupted(g) \/ WriteBlocks(g)
                             \/ CallbackStays(g)
      PROVE  UNCHANGED crashed \/ crashed' = "self_join"
  BY <1>3 DEF EpollThread, EpollWaits, EpollReturns, EpollFails, WriteInterrupted, WriteBlocks, CallbackStays
<1>4. ASSUME NEW r \in Readers, ReadSteps(r) PROVE UNCHANGED crashed
  BY <1>4 DEF ReadSteps, Recv, RecvRefused, RecvTakes, RecvEnds, Push
<1>5. ASSUME SendMessage \/ (\E s \in Sockets : ServerSends(s) \/ ServerLeaves(s)) \/ UNCHANGED vars
      PROVE  UNCHANGED crashed
  BY <1>5 DEF SendMessage, ServerSends, ServerLeaves, vars
<1> QED BY <1>1, <1>2, <1>3, <1>4, <1>5 DEF Next

\* start(): the new generation had no thread yet.
LEMMA StartFacts ==
  ASSUME TypeOK, Spawned, NEW c \in Callers, Start(c)
  PROVE  /\ gens + 1 \in Gens /\ gens' = gens + 1 /\ gens \in Nat
         /\ callback_pc[gens + 1] = "none" /\ write_pc[gens + 1] = "none"
         /\ \A g \in Gens : IF g = gens + 1 THEN callback_pc'[g] = "check" /\ write_pc'[g] = "check"
                            ELSE callback_pc'[g] = callback_pc[g] /\ write_pc'[g] = write_pc[g]
         /\ \A r \in Readers : IF r[2] = gens + 1 THEN pc[r] = "none" /\ pc'[r] = "loop" ELSE pc'[r] = pc[r]
<1>1. gens + 1 \in Gens /\ gens' = gens + 1 /\ gens \in Nat
  BY Bounds DEF Start, TypeOK, LifeType, Gens
<1>2. /\ callback_pc[gens + 1] = "none" /\ write_pc[gens + 1] = "none"
      /\ pc[<<"connect", gens + 1>>] = "none" /\ pc[<<"epoll", gens + 1>>] = "none"
  BY <1>1 DEF Spawned
<1>3. /\ callback_pc' = [callback_pc EXCEPT ![gens + 1] = "check"]
      /\ write_pc' = [write_pc EXCEPT ![gens + 1] = "check"]
      /\ DOMAIN callback_pc = Gens /\ DOMAIN write_pc = Gens
  BY DEF Start, TypeOK, WriterType, InType
<1>4. \A g \in Gens : IF g = gens + 1 THEN callback_pc'[g] = "check" /\ write_pc'[g] = "check"
                       ELSE callback_pc'[g] = callback_pc[g] /\ write_pc'[g] = write_pc[g]
  BY <1>1, <1>3
<1>5. ASSUME NEW r \in Readers
      PROVE  IF r[2] = gens + 1 THEN pc[r] = "none" /\ pc'[r] = "loop" ELSE pc'[r] = pc[r]
  BY <1>2, ReaderFacts DEF Start
<1> QED BY <1>1, <1>2, <1>4, <1>5

LEMMA TurnStep ==
  ASSUME TypeOK, Spawned, TurnInv, [Next]_vars
  PROVE  TurnInv'
<1> USE Bounds
<1>1. CASE Spawns
  <2>1. PICK c \in Callers : Start(c) BY <1>1 DEF Spawns
  <2>2. UNCHANGED <<inbound_q, read_mutex>> BY <2>1 DEF Start
  <2> QED BY <2>1, <2>2, StartFacts DEF TurnInv
<1>2. ASSUME NEW r \in Readers, Push(r) PROVE TurnInv'
  <2>1. chunk[r] \in Chunks BY <1>2 DEF TypeOK, ReaderType, Push, Step, Chunks
  <2>2. inbound_q' # <<>> BY <1>2, <2>1, AppendFacts DEF Push, TypeOK, InType
  <2> QED BY <1>2, <2>2 DEF Push, TurnInv, user
<1>3. ASSUME NEW g \in Gens, CallbackThread(g) PROVE TurnInv'
  <2>0. DOMAIN callback_pc = Gens BY DEF TypeOK, InType
  <2>1. CASE CallbackChecks(g) BY <2>0, <2>1 DEF CallbackChecks, TurnInv
  <2>2. CASE CallbackLocks(g) BY <2>0, <2>2 DEF CallbackLocks, TurnInv
  <2>3. CASE CallbackCalls(g) BY <2>0, <2>3 DEF CallbackCalls, TurnInv
  <2>4. CASE CallbackPops(g) BY <2>0, <2>4 DEF CallbackPops, TurnInv
  <2> QED BY <1>3, <2>1, <2>2, <2>3, <2>4 DEF CallbackThread
<1>4. CASE UNCHANGED <<inbound_q, read_mutex, callback_pc, handled>> BY <1>4 DEF TurnInv
<1> QED BY <1>1, <1>2, <1>3, <1>4, InFrame

LEMMA OutStep ==
  ASSUME TypeOK, Spawned, OutQueue, [Next]_vars
  PROVE  OutQueue'
<1> USE Bounds
<1>0. DOMAIN write_pc = Gens /\ DOMAIN message = Gens BY DEF TypeOK, WriterType
<1>1. CASE Spawns
  <2>1. PICK c \in Callers : Start(c) BY <1>1 DEF Spawns
  <2>2. UNCHANGED <<outq, message>> BY <2>1 DEF Start
  <2> QED BY <2>1, <2>2, StartFacts DEF OutQueue, outq, Popped
<1>2. CASE SendMessage
  <2>1. /\ Len(outbound_q') = Len(outbound_q) + 1 /\ Len(outbound_q) \in Nat
        /\ \A i \in 1..Len(outbound_q) : outbound_q'[i] = outbound_q[i]
        /\ outbound_q'[Len(outbound_q) + 1] = queued + 1
    <3>1. queued + 1 \in Messages BY <1>2 DEF TypeOK, OutType, SendMessage, Messages
    <3> QED BY <1>2, <3>1, AppendFacts DEF TypeOK, OutType, SendMessage
  <2>2. queued' = queued + 1 /\ queued \in Nat /\ UNCHANGED <<write_pc, message>>
    BY <1>2 DEF SendMessage, writer, TypeOK, OutType
  <2>3. Popped' = Popped BY <2>1, <2>2 DEF Popped
  <2> QED BY <2>1, <2>2, <2>3 DEF OutQueue, Popped
<1>3. ASSUME NEW g \in Gens, WriteThread(g) PROVE OutQueue'
  <2>1. CASE WritePops(g) /\ outbound_q # <<>>
    <3>0. outbound_q \in Seq(Messages) /\ outbound_q # <<>> /\ outbound_q' = Tail(outbound_q)
          /\ UNCHANGED queued /\ queued \in Nat
      BY <2>1 DEF WritePops, TypeOK, OutType
    <3>1. /\ Head(outbound_q) = outbound_q[1] /\ Len(outbound_q) \in Nat /\ Len(outbound_q) > 0
          /\ Len(outbound_q') = Len(outbound_q) - 1 /\ Head(outbound_q) \in Messages
          /\ \A i \in 1..(Len(outbound_q) - 1) : outbound_q'[i] = outbound_q[i + 1]
          /\ UNCHANGED queued /\ queued \in Nat
      BY <3>0, HeadTail
    <3>2. Popped' = Popped + 1 BY <3>1 DEF Popped
    <3>3. /\ write_pc' = [write_pc EXCEPT ![g] = "send"]
          /\ message' = [message EXCEPT ![g] = Head(outbound_q)]
      BY <2>1 DEF WritePops
    <3>4. \A h \in Gens : write_pc'[h] = "send" => message'[h] \in Messages
      BY <1>0, <3>1, <3>3 DEF OutQueue
    <3>5. /\ Popped' \in Nat
          /\ \A i \in 1..Len(outbound_q') : outbound_q'[i] = Popped' + i
      BY <3>1, <3>2 DEF OutQueue
    <3> QED BY <3>4, <3>5 DEF OutQueue
  <2>2. CASE WriteChecks(g) \/ (WritePops(g) /\ outbound_q = <<>>) \/ WriteSends(g) \/ WriteSendFails(g)
             \/ WriteSignalled(g)
    <3>1. UNCHANGED outq
      BY <2>2 DEF WriteChecks, WritePops, WriteSends, WriteSendFails, WriteSignalled, outq
    <3>2. \/ UNCHANGED <<write_pc, message>>
          \/ write_pc' = [write_pc EXCEPT ![g] = "lock"] /\ UNCHANGED message
          \/ write_pc' = [write_pc EXCEPT ![g] = "check"] /\ message' = [message EXCEPT ![g] = 0]
      BY <2>2 DEF WriteChecks, WritePops, WriteSends, WriteSendFails, WriteSignalled, Written, writer
    <3> QED BY <1>0, <3>1, <3>2 DEF OutQueue, Popped, outq
  <2> QED BY <1>3, <2>1, <2>2 DEF WriteThread
<1>4. CASE UNCHANGED <<outq, sent, message, write_pc>> BY <1>4 DEF OutQueue, Popped, outq
<1> QED BY <1>1, <1>2, <1>3, <1>4, OutFrame

LEMMA ReadyStep ==
  ASSUME TypeOK, Spawned, TurnInv, Ready, [Next]_vars
  PROVE  Ready'
<1> USE Bounds
<1>0. DOMAIN callback_pc = Gens /\ DOMAIN write_pc = Gens BY DEF TypeOK, InType, WriterType
<1>1. CASE Spawns
  <2>1. PICK c \in Callers : Start(c) BY <1>1 DEF Spawns
  <2>2. UNCHANGED <<inbound_q, outbound_q, crashed>> BY <2>1 DEF Start, outq
  <2>3. gens' <= 1 => gens <= 1 BY <2>1, StartFacts
  <2> QED BY <2>1, <2>2, <2>3, StartFacts DEF Ready
<1>2. ASSUME NEW g \in Gens, CallbackThread(g) PROVE Ready'
  <2>1. UNCHANGED <<gens, write_pc, outbound_q>>
    BY <1>2 DEF CallbackThread, CallbackChecks, CallbackLocks, CallbackCalls, CallbackPops, life, outq, writer
  <2>2. callback_pc[g] # "none"
    BY <1>2 DEF CallbackThread, CallbackChecks, CallbackLocks, CallbackCalls, CallbackPops
  <2>3. gens <= 1 => \A h \in Gens : callback_pc[h] # "none" => h = g BY <2>2, OnlyOne
  <2>4. CASE CallbackChecks(g) BY <1>0, <2>1, <2>4 DEF CallbackChecks, Ready
  <2>5. CASE CallbackLocks(g) BY <1>0, <2>1, <2>5 DEF CallbackLocks, Ready
  <2>6. CASE CallbackCalls(g) BY <1>0, <2>1, <2>6 DEF CallbackCalls, Ready
  <2>7. CASE CallbackPops(g) BY <1>0, <2>1, <2>3, <2>7 DEF CallbackPops, Ready
  <2> QED BY <1>2, <2>4, <2>5, <2>6, <2>7 DEF CallbackThread
<1>3. ASSUME NEW g \in Gens, WriteThread(g) PROVE Ready'
  <2>1. UNCHANGED <<gens, callback_pc, inbound_q>>
    BY <1>3 DEF WriteThread, WriteChecks, WritePops, WriteSends, WriteSendFails, WriteSignalled, life, user
  <2>2. write_pc[g] # "none"
    BY <1>3 DEF WriteThread, WriteChecks, WritePops, WriteSends, WriteSendFails, WriteSignalled, Written
  <2>3. gens <= 1 => \A h \in Gens : write_pc[h] # "none" => h = g BY <2>2, OnlyOne
  <2>4. CASE WriteChecks(g) BY <1>0, <2>1, <2>4 DEF WriteChecks, Ready, outq
  <2>5. CASE WritePops(g) BY <1>0, <2>1, <2>3, <2>5 DEF WritePops, Ready
  <2>6. CASE WriteSends(g) \/ WriteSendFails(g)
    <3>1. UNCHANGED <<outbound_q, crashed>> /\ write_pc' = [write_pc EXCEPT ![g] = "check"]
      BY <2>6 DEF WriteSends, WriteSendFails, Written, outq
    <3> QED BY <1>0, <2>1, <3>1 DEF Ready
  <2>7. CASE WriteSignalled(g) BY <2>1, <2>7 DEF WriteSignalled, Ready, outq, writer
  <2> QED BY <1>3, <2>4, <2>5, <2>6, <2>7 DEF WriteThread
<1>4. ASSUME ~Spawns, \A g \in Gens : ~CallbackThread(g) /\ ~WriteThread(g) PROVE Ready'
  <2>1. UNCHANGED crashed \/ crashed' = "self_join" BY <1>4, CrashFrame
  <2>2. UNCHANGED callback_pc /\ (UNCHANGED inbound_q \/ inbound_q' # <<>>)
    <3>1. ASSUME NEW r \in Readers, Push(r) PROVE inbound_q' # <<>> /\ UNCHANGED callback_pc
      <4>1. chunk[r] \in Chunks BY <3>1 DEF TypeOK, ReaderType, Push, Step, Chunks
      <4> QED BY <3>1, <4>1, AppendFacts DEF Push, TypeOK, InType, user
    <3> QED BY <1>4, <3>1, InFrame
  <2>3. UNCHANGED write_pc /\ (UNCHANGED outbound_q \/ outbound_q' # <<>>)
    <3>1. ASSUME SendMessage PROVE outbound_q' # <<>> /\ UNCHANGED write_pc
      <4>1. queued + 1 \in Messages BY <3>1 DEF TypeOK, OutType, SendMessage, Messages
      <4> QED BY <3>1, <4>1, AppendFacts DEF SendMessage, TypeOK, OutType, writer
    <3> QED BY <1>4, <3>1, OutFrame DEF outq
  <2>4. UNCHANGED gens BY <1>4, Moves DEF Reads, Writes, Calls, Rests
  <2> QED BY <2>1, <2>2, <2>3, <2>4 DEF Ready
<1> QED BY <1>1, <1>2, <1>3, <1>4

\* What a step may do to the connection and the member, as long as one generation runs.
Connects == \E g \in Gens : ConnectWatches(g)
LEMMA ConnectionFrame ==
  ASSUME TypeOK, Spawned, Connection, [Next]_vars, gens <= 1
  PROVE  \/ Connects
         \/ ~connected /\ ~connected'
         \/ connected /\ connected' /\ UNCHANGED <<client_socket, sock>>
         \/ connected /\ connected' /\ client_socket' = 0
         \/ connected /\ connected' /\ UNCHANGED client_socket /\ sock' = [s \in Sockets |-> IF s = client_socket THEN "closed" ELSE sock[s]]
<1>0. connected \in BOOLEAN BY DEF TypeOK, SocketType
<1>1. ASSUME NEW c \in Callers, Caller(c), ~StopCloses(c), ~StopClears(c)
      PROVE  UNCHANGED <<connected, client_socket, sock>>
  BY <1>1 DEF Caller, Start, StopReturnsEarly, StopEnter, StopJoins, StopReturns, kernel
<1>2. ASSUME NEW c \in Callers, StopCloses(c)
      PROVE  /\ UNCHANGED <<connected, client_socket>>
             /\ sock' = [s \in Sockets |-> IF s = client_socket THEN "closed" ELSE sock[s]]
  BY <1>2 DEF StopCloses, Close
<1>3. ASSUME NEW c \in Callers, StopClears(c) PROVE UNCHANGED connected /\ client_socket' = 0
  BY <1>3 DEF StopClears
<1>4. ASSUME NEW g \in Gens, ConnectThread(g), ~ConnectWatches(g), ~ConnectDone(g)
      PROVE ~connected /\ UNCHANGED connected
  <2>1. UNCHANGED connected
    BY <1>4 DEF ConnectThread, ConnectOpens, ConnectOpenFails, ConnectBinds, ConnectGivesUp,
       ConnectCalls, ConnectSucceeds, ConnectNamesPeer, ConnectDrops
  <2>2. ~connected \/ pc[<<"connect", g>>] \in {"bind", "connect", "connecting", "peer", "watch"}
    BY <1>4 DEF ConnectThread, ConnectOpens, ConnectOpenFails, ConnectBinds, ConnectGivesUp,
       ConnectCalls, ConnectSucceeds, ConnectNamesPeer, ConnectDrops, Step
  <2>3. gens <= 1 => (connected => \A h \in Gens : pc[<<"connect", h>>] \in {"none", "read", "recv", "push", "loop", "done"})
    BY DEF Connection
  <2> QED BY <2>1, <2>2, <2>3
<1>5. ASSUME NEW g \in Gens, ConnectDone(g) PROVE UNCHANGED <<connected, client_socket, sock>>
  BY <1>5 DEF ConnectDone, kernel
<1>6. ASSUME NEW g \in Gens, \/ EpollThread(g) \/ CallbackThread(g) \/ WriteInterrupted(g) \/ WriteBlocks(g)
                             \/ CallbackStays(g)
      PROVE  UNCHANGED <<connected, client_socket, sock>>
  BY <1>6 DEF EpollThread, EpollWaits, EpollReturns, CallbackThread, CallbackChecks,
     CallbackLocks, CallbackCalls, CallbackPops, CallbackStays, WriteInterrupted, WriteBlocks, kernel
<1>7. ASSUME NEW g \in Gens, EpollFails(g)
      PROVE  /\ UNCHANGED <<connected, client_socket>>
             /\ sock' = [s \in Sockets |-> IF s = client_socket THEN "closed" ELSE sock[s]]
  BY <1>7 DEF EpollFails
<1>8. ASSUME NEW g \in Gens, WriteThread(g)
      PROVE  /\ UNCHANGED <<connected, client_socket>>
             /\ UNCHANGED sock \/ sock' = [s \in Sockets |-> IF s = client_socket THEN "closed" ELSE sock[s]]
  BY <1>8 DEF WriteThread, WriteChecks, WritePops, WriteSends, WriteSendFails, WriteSignalled, Close, kernel
<1>9. ASSUME NEW r \in Readers, ReadSteps(r) PROVE UNCHANGED <<connected, client_socket, sock>>
  BY <1>9 DEF ReadSteps, Recv, RecvRefused, RecvTakes, RecvEnds, Push, kernel
<1>10. ASSUME SendMessage \/ (\E s \in Sockets : ServerSends(s) \/ ServerLeaves(s)) \/ UNCHANGED vars
      PROVE  UNCHANGED <<connected, client_socket, sock>>
  BY <1>10 DEF SendMessage, ServerSends, ServerLeaves, vars, kernel
<1> QED BY <1>0, <1>1, <1>2, <1>3, <1>4, <1>5, <1>6, <1>7, <1>8, <1>9, <1>10 DEF Next, Connects

Before == {"none", "loop", "bind", "connect", "connecting", "peer", "watch"}
After  == {"none", "read", "recv", "push", "loop", "done"}

LEMMA ConnectionStep ==
  ASSUME TypeOK, Spawned, Connection, [Next]_vars
  PROVE  Connection'
<1> USE Bounds
<1>0. /\ DOMAIN write_pc = Gens /\ DOMAIN pc = Readers /\ connected \in BOOLEAN
  BY DEF TypeOK, SocketType, ReaderType, WriterType
<1>1. CASE Spawns
  <2>1. PICK c \in Callers : Start(c) BY <1>1 DEF Spawns
  <2>2. UNCHANGED connected BY <2>1 DEF Start
  <2>3. gens' <= 1 => gens = 0 BY <2>1, StartFacts
  <2>4. gens = 0 => ~connected BY DEF Spawned
  <2>5. gens = 0 => \A g \in Gens : /\ pc'[<<"connect", g>>] \in {"none", "loop"}
                                    /\ pc'[<<"epoll", g>>] \in {"none", "loop"}
                                    /\ write_pc'[g] \in {"none", "check"}
    <3> SUFFICES ASSUME gens = 0, NEW g \in Gens
                 PROVE  /\ pc'[<<"connect", g>>] \in {"none", "loop"}
                        /\ pc'[<<"epoll", g>>] \in {"none", "loop"}
                        /\ write_pc'[g] \in {"none", "check"}
      OBVIOUS
    <3>1. g > gens BY DEF Gens
    <3>2. <<"connect", g>>[2] = g /\ <<"epoll", g>>[2] = g OBVIOUS
    <3> QED BY <2>1, <3>1, <3>2, StartFacts DEF Spawned
  <2> QED BY <2>2, <2>3, <2>4, <2>5 DEF Connection
<1>2. ASSUME gens <= 1, ~Spawns PROVE Connection'
  <2>0. gens' = gens BY <1>2, Moves DEF Reads, Writes, Calls, Rests
  <2>1. ASSUME NEW g \in Gens, ConnectThread(g) PROVE Connection'
    <3>0. UNCHANGED write_pc /\ \A r \in Readers : r # <<"connect", g>> => pc'[r] = pc[r]
      <4>1. \E here, there : Step(<<"connect", g>>, here, there)
        BY <2>1 DEF ConnectThread, ConnectDone, ConnectOpens, ConnectOpenFails, ConnectBinds, ConnectGivesUp,
           ConnectCalls, ConnectSucceeds, ConnectNamesPeer, ConnectDrops, ConnectWatches
      <4>2. UNCHANGED write_pc
        BY <2>1 DEF ConnectThread, ConnectDone, ConnectOpens, ConnectOpenFails, ConnectBinds, ConnectGivesUp,
           ConnectCalls, ConnectSucceeds, ConnectNamesPeer, ConnectDrops, ConnectWatches, writer
      <4> QED BY <1>0, <4>1, <4>2 DEF Step
    <3>1. CASE ConnectDone(g)
      <4>1. connected /\ connected' /\ pc'[<<"connect", g>>] = "done" BY <1>0, <3>1 DEF ConnectDone, Step
      <4> QED BY <1>2, <3>0, <4>1 DEF Connection
    <3>2. CASE ConnectWatches(g)
      <4>1. connected' /\ pc[<<"connect", g>>] = "watch" /\ pc'[<<"connect", g>>] = "read"
        BY <1>0, <3>2 DEF ConnectWatches, Step
      <4>2. \A h \in Gens : pc[<<"connect", h>>] # "none" => h = g BY <1>2, <4>1, OnlyOne
      <4>3. \A h \in Gens : h # g => pc'[<<"connect", h>>] = "none" BY <3>0, <4>2
      <4> QED BY <4>1, <4>3 DEF Connection
    <3>3. CASE ~ConnectDone(g) /\ ~ConnectWatches(g)
      <4>1. ~connected /\ ~connected'
        <5>1. UNCHANGED connected
          BY <2>1, <3>3 DEF ConnectThread, ConnectOpens, ConnectOpenFails, ConnectBinds, ConnectGivesUp,
             ConnectCalls, ConnectSucceeds, ConnectNamesPeer, ConnectDrops
        <5>2. ~connected \/ pc[<<"connect", g>>] \in {"bind", "connect", "connecting", "peer", "watch"}
          BY <2>1, <3>3 DEF ConnectThread, ConnectOpens, ConnectOpenFails, ConnectBinds, ConnectGivesUp,
             ConnectCalls, ConnectSucceeds, ConnectNamesPeer, ConnectDrops, Step
        <5> QED BY <1>2, <5>1, <5>2 DEF Connection
      <4>2. pc'[<<"connect", g>>] \in Before
        BY <1>0, <2>1, <3>3 DEF ConnectThread, ConnectOpens, ConnectOpenFails, ConnectBinds, ConnectGivesUp,
           ConnectCalls, ConnectSucceeds, ConnectNamesPeer, ConnectDrops, Step, Before
      <4> QED BY <1>2, <3>0, <4>1, <4>2 DEF Connection, Before
    <3> QED BY <3>1, <3>2, <3>3
  <2>2. ASSUME NEW g \in Gens, EpollThread(g) \/ EpollFails(g) PROVE Connection'
    <3>1. UNCHANGED <<connected, write_pc>> /\ \A h \in Gens : pc'[<<"connect", h>>] = pc[<<"connect", h>>]
      BY <1>0, <2>2 DEF EpollThread, EpollWaits, EpollReturns, EpollFails, Step, writer
    <3>2. connected \/ pc[<<"epoll", g>>] = "wait"
      BY <2>2 DEF EpollThread, EpollWaits, EpollReturns, EpollFails, Step
    <3>3. connected BY <1>2, <3>2 DEF Connection
    <3> QED BY <1>2, <3>1, <3>3 DEF Connection
  <2>3. ASSUME NEW r \in Readers, ReadSteps(r) PROVE Connection'
    <3>1. UNCHANGED <<connected, write_pc>> /\ pc[r] \in {"read", "recv", "push"}
          /\ pc'[r] \in {"loop", "recv", "push"} /\ \A q \in Readers : q # r => pc'[q] = pc[q]
      BY <1>0, <2>3 DEF ReadSteps, Recv, RecvRefused, RecvTakes, RecvEnds, Push, Step, writer
    <3>2. connected BY <1>2, <3>1, ReaderFacts DEF Connection
    <3>3. ASSUME NEW h \in Gens PROVE pc'[<<"connect", h>>] \in After
      BY <1>2, <3>1, <3>2 DEF Connection, After
    <3> QED BY <3>1, <3>2, <3>3 DEF Connection, After
  <2>4. ASSUME NEW g \in Gens, WriteThread(g) PROVE Connection'
    <3>1. UNCHANGED <<connected, pc>> /\ \A h \in Gens : h # g => write_pc'[h] = write_pc[h]
      BY <1>0, <2>4 DEF WriteThread, WriteChecks, WritePops, WriteSends, WriteSendFails, WriteSignalled, Written,
         reader, writer
    <3>2. connected \/ write_pc[g] \in {"lock", "send"}
      BY <2>4 DEF WriteThread, WriteChecks, WritePops, WriteSends, WriteSendFails, WriteSignalled, Written
    <3>3. connected BY <1>2, <3>2 DEF Connection
    <3> QED BY <1>2, <2>0, <3>1, <3>3 DEF Connection
  <2>5. ASSUME \/ \E c \in Callers : Caller(c)
               \/ \E g \in Gens : WriteInterrupted(g) \/ WriteBlocks(g) \/ CallbackThread(g) \/ CallbackStays(g)
               \/ SendMessage \/ (\E s \in Sockets : ServerSends(s) \/ ServerLeaves(s)) \/ UNCHANGED vars
        PROVE  Connection'
    <3>1. UNCHANGED <<connected, pc, write_pc>>
      BY <1>2, <2>5 DEF Caller, StopReturnsEarly, StopEnter, StopJoins, StopCloses, StopClears, StopReturns,
         Spawns, CallbackThread, CallbackChecks, CallbackLocks, CallbackCalls, CallbackPops, CallbackStays,
         WriteInterrupted, WriteBlocks,
         SendMessage, ServerSends, ServerLeaves, vars, reader, writer
    <3> QED BY <1>2, <3>1 DEF Connection
  <2> QED BY <2>1, <2>2, <2>3, <2>4, <2>5 DEF Next
<1>3. ASSUME gens > 1, ~Spawns PROVE Connection'
  BY <1>3, Moves DEF Reads, Writes, Calls, Rests, Connection, TypeOK, LifeType
<1> QED BY <1>1, <1>2, <1>3 DEF TypeOK, LifeType

-------------------------------------------------------------------------------
(* What the server is sent *)

UpNow == connected /\ State(client_socket) = "up"

LEMMA UpFrame ==
  ASSUME TypeOK, Spawned, Connection, [Next]_vars, gens <= 1, ~Connects
  PROVE  /\ connected' <=> connected
         /\ UpNow' => UpNow
<1>1. CASE ~connected /\ ~connected' BY <1>1 DEF UpNow
<1>2. CASE connected /\ connected' /\ UNCHANGED <<client_socket, sock>> BY <1>2 DEF UpNow, State
<1>3. CASE connected /\ connected' /\ client_socket' = 0 BY <1>3, Bounds DEF UpNow, State
<1>4. CASE connected /\ connected' /\ UNCHANGED client_socket /\ sock' = [s \in Sockets |-> IF s = client_socket THEN "closed" ELSE sock[s]]
  <2>1. State(client_socket)' # "up" BY <1>4 DEF State
  <2>2. connected' <=> connected BY <1>4
  <2> QED BY <2>1, <2>2 DEF UpNow
<1> QED BY <1>1, <1>2, <1>3, <1>4, ConnectionFrame

LEMMA SentStep ==
  ASSUME TypeOK, Spawned, OutQueue, Connection, SentInv, [Next]_vars
  PROVE  SentInv'
<1> USE Bounds
<1>0. /\ DOMAIN write_pc = Gens /\ DOMAIN message = Gens /\ gens \in Nat /\ connected \in BOOLEAN
      /\ DOMAIN into = Gens
      /\ sent \in Seq(Messages) /\ Len(sent) \in Nat /\ Popped \in Nat
  BY DEF TypeOK, LifeType, SocketType, WriterType, OutQueue
<1>1. CASE Spawns
  <2>1. PICK c \in Callers : Start(c) BY <1>1 DEF Spawns
  <2>2. UNCHANGED <<connected, sent, message, into, Popped>> BY <2>1 DEF Start, outq, Popped
  <2>3. gens' <= 1 => gens = 0 BY <2>1, StartFacts
  <2>4. gens = 0 => ~connected BY DEF Spawned
  <2>5. gens = 0 => \A g \in Gens : write_pc'[g] # "send"
    <3> SUFFICES ASSUME gens = 0, NEW g \in Gens PROVE write_pc'[g] # "send" OBVIOUS
    <3>1. g > gens BY DEF Gens
    <3> QED BY <2>1, <3>1, StartFacts DEF Spawned
  <2> QED BY <2>2, <2>3, <2>4, <2>5 DEF SentInv
<1>2. ASSUME gens <= 1, ~Spawns PROVE SentInv'
  <2>0. gens' = gens BY <1>2, Moves DEF Reads, Writes, Calls, Rests
  <2>1. CASE SendMessage
    <3>1. UNCHANGED <<sent, message, into, write_pc, connected, client_socket, sock>>
      BY <2>1 DEF SendMessage, writer, kernel
    <3>2. Popped' = Popped
      <4>1. queued + 1 \in Messages /\ queued \in Nat BY <2>1 DEF TypeOK, OutType, SendMessage, Messages
      <4>2. Len(outbound_q') = Len(outbound_q) + 1 /\ Len(outbound_q) \in Nat
        BY <2>1, <4>1, AppendFacts DEF TypeOK, OutType, SendMessage
      <4> QED BY <2>1, <4>1, <4>2 DEF SendMessage, Popped
    <3> QED BY <1>2, <2>0, <3>1, <3>2 DEF SentInv, State
  <2>2. ASSUME NEW g \in Gens, WriteThread(g) PROVE SentInv'
    <3>1. write_pc[g] # "none"
      BY <2>2 DEF WriteThread, WriteChecks, WritePops, WriteSends, WriteSendFails, WriteSignalled, Written
    <3>2. \A h \in Gens : h # g => write_pc[h] = "none" BY <1>2, <3>1, OnlyOne
    <3>3. ~Connects
      <4>1. ~connected \/ connected' = connected
        BY <2>2 DEF WriteThread, WriteChecks, WritePops, WriteSends, WriteSendFails, WriteSignalled
      <4>2. \A h \in Gens : ConnectWatches(h) => write_pc' = write_pc /\ ~connected
        BY <1>2 DEF ConnectWatches, writer, Step, Connection
      <4>3. UNCHANGED connected
        BY <2>2 DEF WriteThread, WriteChecks, WritePops, WriteSends, WriteSendFails, WriteSignalled
      <4>4. \A h \in Gens : ConnectWatches(h) => connected' BY DEF ConnectWatches
      <4> QED BY <4>2, <4>3, <4>4 DEF Connects
    <3>4. (connected' <=> connected) /\ (UpNow' => UpNow) BY <1>2, <3>3, UpFrame
    <3>5. CASE WriteChecks(g)
      <4>1. /\ UNCHANGED <<sent, message, into, outq>> /\ write_pc' = [write_pc EXCEPT ![g] = "lock"]
            /\ write_pc[g] = "check"
        BY <3>5 DEF WriteChecks
      <4> QED BY <1>0, <1>2, <2>0, <3>2, <3>4, <4>1 DEF SentInv, UpNow, Popped, outq
    <3>6. CASE WritePops(g) /\ outbound_q = <<>>
      <4>1. UNCHANGED <<sent, message, into, outq, write_pc>> BY <3>6 DEF WritePops, outq
      <4> QED BY <1>0, <1>2, <2>0, <3>4, <4>1 DEF SentInv, UpNow, Popped, outq
    <3>7. CASE WritePops(g) /\ outbound_q # <<>>
      <4>1. /\ UNCHANGED <<sent, queued, into>> /\ write_pc[g] = "lock" /\ outbound_q' = Tail(outbound_q)
            /\ message' = [message EXCEPT ![g] = Head(outbound_q)]
            /\ write_pc' = [write_pc EXCEPT ![g] = "send"]
        BY <3>7 DEF WritePops
      <4>2. outbound_q \in Seq(Messages) /\ queued \in Nat BY DEF TypeOK, OutType
      <4>3. /\ Len(outbound_q') = Len(outbound_q) - 1 /\ Len(outbound_q) \in Nat /\ Len(outbound_q) > 0
            /\ Head(outbound_q) = outbound_q[1]
        BY <3>7, <4>1, <4>2, HeadTail
      <4>4. Popped' = Popped + 1 /\ Head(outbound_q) = Popped + 1
        <5>1. outbound_q[1] = Popped + 1 BY <4>3 DEF OutQueue
        <5>2. queued' = queued BY <4>1
        <5> QED BY <4>2, <4>3, <5>1, <5>2 DEF Popped
      <4>5. connected BY <1>2, <4>1 DEF Connection
      <4>6. \A h \in Gens : write_pc'[h] = "send" => h = g BY <1>0, <3>2, <4>1
      <4>7. message'[g] = Popped' /\ write_pc'[g] = "send" BY <1>0, <4>1, <4>4
      <4>8. UpNow => Len(sent) = Popped
        <5>1. \A h \in Gens : write_pc[h] # "send" BY <3>2, <4>1
        <5> QED BY <1>2, <5>1 DEF SentInv, UpNow
      <4>9. Len(sent) <= Popped /\ \A i \in 1..Len(sent) : sent[i] = i BY <1>2 DEF SentInv
      <4>10. \A h \in Gens : into'[h] = 0 BY <1>2, <3>2, <4>1 DEF SentInv
      <4> QED BY <1>0, <3>4, <4>1, <4>4, <4>5, <4>6, <4>7, <4>8, <4>9, <4>10 DEF SentInv, UpNow
    <3>8. CASE WriteSends(g)
      <4>1. /\ UNCHANGED outq /\ write_pc[g] = "send" /\ sent' = Append(sent, message[g])
            /\ write_pc' = [write_pc EXCEPT ![g] = "check"] /\ message' = [message EXCEPT ![g] = 0]
            /\ into[g] # 0 \/ State(client_socket) = "up"
            /\ into' = [into EXCEPT ![g] = 0]
        BY <3>8 DEF WriteSends, Written
      <4>2. connected /\ (into[g] # 0 \/ UpNow) BY <1>2, <4>1 DEF Connection, UpNow
      <4>3. Len(sent) = Popped - 1 /\ message[g] = Popped /\ message[g] \in Messages
        BY <1>2, <4>1, <4>2 DEF SentInv, UpNow, OutQueue
      <4>4. /\ Len(sent') = Len(sent) + 1 /\ sent'[Len(sent) + 1] = message[g]
            /\ \A i \in 1..Len(sent) : sent'[i] = sent[i]
        BY <1>0, <4>1, <4>3, AppendFacts
      <4>5. Popped' = Popped BY <4>1 DEF Popped, outq
      <4>6. \A h \in Gens : write_pc'[h] # "send" BY <1>0, <3>2, <4>1
      <4>7. \A i \in 1..Len(sent') : sent'[i] = i BY <1>0, <1>2, <4>3, <4>4 DEF SentInv
      <4>8. \A h \in Gens : into'[h] = 0 BY <1>0, <1>2, <3>2, <4>1 DEF SentInv
      <4> QED BY <1>0, <3>4, <4>2, <4>3, <4>4, <4>5, <4>6, <4>7, <4>8 DEF SentInv
    <3>9. CASE WriteSendFails(g)
      <4>1. /\ UNCHANGED <<outq, sent, client_socket>> /\ write_pc[g] = "send"
            /\ write_pc' = [write_pc EXCEPT ![g] = "check"] /\ into' = [into EXCEPT ![g] = 0]
            /\ sock' = [s \in Sockets |-> IF s = client_socket THEN "closed" ELSE sock[s]]
        BY <3>9 DEF WriteSendFails, Written, Close
      <4>2. ~UpNow' BY <4>1 DEF UpNow, State
      <4>3. \A h \in Gens : write_pc'[h] # "send" BY <1>0, <3>2, <4>1
      <4>4. Popped' = Popped BY <4>1 DEF Popped, outq
      <4>5. \A h \in Gens : into'[h] = 0 BY <1>0, <1>2, <3>2, <4>1 DEF SentInv
      <4> QED BY <1>0, <1>2, <3>4, <4>1, <4>2, <4>3, <4>4, <4>5 DEF SentInv, UpNow
    <3>10. CASE WriteSignalled(g)
      <4>1. UNCHANGED <<sent, message, into, outq, write_pc>> BY <3>10 DEF WriteSignalled, writer
      <4> QED BY <1>0, <1>2, <2>0, <3>4, <4>1 DEF SentInv, UpNow, Popped, outq
    <3> QED BY <2>2, <3>5, <3>6, <3>7, <3>8, <3>9, <3>10 DEF WriteThread
  <2>3. CASE UNCHANGED <<outq, sent, message, write_pc>> /\ Connects
    <3>1. ~connected /\ \A g \in Gens : write_pc[g] \in {"none", "check"}
      <4>1. PICK g \in Gens : ConnectWatches(g) BY <2>3 DEF Connects
      <4>2. pc[<<"connect", g>>] = "watch" BY <4>1 DEF ConnectWatches, Step
      <4> QED BY <1>2, <4>2 DEF Connection
    <3>2. Popped = 0 /\ Len(sent) = 0 BY <1>0, <1>2, <3>1 DEF SentInv
    <3>3. Popped' = Popped BY <2>3 DEF Popped, outq
    <3>4. UNCHANGED into BY <2>3 DEF Connects, ConnectWatches, writer
    <3> QED BY <1>2, <2>3, <3>1, <3>2, <3>3, <3>4 DEF SentInv
  <2>4. CASE UNCHANGED <<outq, sent, message, into, write_pc>> /\ ~Connects
    <3>1. (connected' <=> connected) /\ (UpNow' => UpNow) BY <1>2, <2>4, UpFrame
    <3>2. Popped' = Popped BY <2>4 DEF Popped, outq
    <3> QED BY <1>0, <1>2, <2>4, <3>1, <3>2 DEF SentInv, UpNow
  <2>5. ASSUME NEW g \in Gens, WriteBlocks(g) PROVE SentInv'
    <3>1. /\ UNCHANGED <<outq, sent, message, write_pc, connected, client_socket, sock>>
          /\ write_pc[g] = "send" /\ State(client_socket) = "up"
          /\ \A h \in Gens : h # g => into'[h] = into[h]
      BY <1>0, <2>5 DEF WriteBlocks, kernel
    <3>2. Popped' = Popped BY <3>1 DEF Popped, outq
    <3>3. connected BY <1>2, <3>1 DEF Connection
    <3>4. Len(sent) = Popped - 1 BY <1>2, <3>1, <3>3 DEF SentInv
    <3> QED BY <1>2, <2>0, <3>1, <3>2, <3>3, <3>4 DEF SentInv, State
  <2> QED BY <1>2, <2>1, <2>2, <2>3, <2>4, <2>5, OutFrame, IntoFrame
<1>3. ASSUME gens > 1, ~Spawns PROVE SentInv'
  BY <1>0, <1>3, Moves DEF Reads, Writes, Calls, Rests, SentInv
<1> QED BY <1>0, <1>1, <1>2, <1>3

-------------------------------------------------------------------------------
(* What on_read() has taken, from the queue to the callback *)

LEMMA OfferedType ==
  ASSUME TypeOK, TurnInv
  PROVE  /\ inbound_q \in Seq(Chunks) /\ handled \in Seq(Chunks) /\ Pending \in Seq(Chunks)
         /\ Offered \in Seq(Chunks) /\ DOMAIN Offered = 1..Len(Offered) /\ Len(Offered) \in Nat
<1>1. inbound_q \in Seq(Chunks) /\ handled \in Seq(Chunks) BY DEF TypeOK, InType
<1>2. Pending \in Seq(Chunks)
  <2>1. CASE Turn
    <3>1. inbound_q # <<>> BY <2>1 DEF Turn, TurnInv
    <3> QED BY <1>1, <2>1, <3>1, HeadTail DEF Pending
  <2>2. CASE ~Turn BY <1>1, <2>2 DEF Pending
  <2> QED BY <2>1, <2>2
<1>3. Offered \in Seq(Chunks) BY <1>1, <1>2, ConcatFacts DEF Offered
<1> QED BY <1>1, <1>2, <1>3, SequenceIsFunction

LEMMA PushOffers ==
  ASSUME TypeOK, TurnInv, NEW r \in Readers, Push(r)
  PROVE  Offered' = Append(Offered, chunk[r])
<1>1. /\ read_mutex = 0 /\ UNCHANGED <<callback_pc, handled>> /\ inbound_q' = Append(inbound_q, chunk[r])
  BY DEF Push, user
<1>2. ~Turn /\ ~Turn' BY <1>1, Bounds DEF Turn, TurnInv
<1>3. chunk[r] \in Chunks BY DEF TypeOK, ReaderType, Push, Step, Chunks
<1> QED BY <1>1, <1>2, <1>3, AppendsBehind, OfferedType DEF Offered, Pending

\* Only on_read() adds to it; the callback thread moves a chunk within it.
LEMMA OfferedStep ==
  ASSUME TypeOK, Spawned, TurnInv, [Next]_vars
  PROVE  UNCHANGED Offered \/ \E r \in Readers : Push(r) /\ Offered' = Append(Offered, chunk[r])
<1>0. DOMAIN callback_pc = Gens BY DEF TypeOK, InType
<1>1. CASE Spawns
  <2>1. PICK c \in Callers : Start(c) BY <1>1 DEF Spawns
  <2>2. UNCHANGED <<inbound_q, handled>> BY <2>1 DEF Start
  <2>3. Turn' = Turn BY <2>1, StartFacts DEF Turn
  <2> QED BY <2>2, <2>3 DEF Offered, Pending
<1>2. ASSUME NEW r \in Readers, Push(r) PROVE Offered' = Append(Offered, chunk[r])
  BY <1>2, PushOffers
<1>3. ASSUME NEW g \in Gens, CallbackThread(g) PROVE UNCHANGED Offered
  <2>1. CASE CallbackChecks(g)
    <3>1. Turn' = Turn BY <1>0, <2>1 DEF Turn, CallbackChecks
    <3> QED BY <2>1, <3>1 DEF CallbackChecks, Offered, Pending
  <2>2. CASE CallbackLocks(g)
    <3>1. Turn' = Turn BY <1>0, <2>2 DEF Turn, CallbackLocks
    <3> QED BY <2>2, <3>1 DEF CallbackLocks, Offered, Pending
  <2>3. CASE CallbackCalls(g)
    <3>1. /\ callback_pc[g] = "call" /\ callback_pc' = [callback_pc EXCEPT ![g] = "pop"]
          /\ UNCHANGED inbound_q /\ handled' = Append(handled, Head(inbound_q))
      BY <2>3 DEF CallbackCalls
    <3>2. inbound_q # <<>> /\ ~Turn /\ Turn' BY <1>0, <3>1 DEF TurnInv, Turn
    <3> QED BY <3>1, <3>2, MovesOver, OfferedType DEF Offered, Pending
  <2>4. CASE CallbackPops(g)
    <3>1. /\ callback_pc[g] = "pop" /\ callback_pc' = [callback_pc EXCEPT ![g] = "check"]
          /\ inbound_q' = Tail(inbound_q) /\ UNCHANGED handled
      BY <2>4 DEF CallbackPops
    <3>2. Turn /\ ~Turn' BY <1>0, <3>1 DEF TurnInv, Turn
    <3> QED BY <3>1, <3>2 DEF Offered, Pending
  <2> QED BY <1>3, <2>1, <2>2, <2>3, <2>4 DEF CallbackThread
<1>4. CASE UNCHANGED <<inbound_q, read_mutex, callback_pc, handled>> BY <1>4 DEF Offered, Pending, Turn
<1> QED BY <1>1, <1>2, <1>3, <1>4, InFrame

-------------------------------------------------------------------------------
(* Where a chunk is *)

\* Steps that take no chunk anywhere.
LEMMA ChunkFrame ==
  ASSUME TypeOK, Spawned, [Next]_vars
  PROVE  \/ \E r \in Readers : RecvTakes(r) \/ Push(r)
         \/ \E s \in Sockets : ServerSends(s)
         \/ /\ UNCHANGED <<rcvbuf, chunks, chunk, first_read>>
            /\ \A r \in Readers : pc'[r] = "push" <=> pc[r] = "push"
<1>0. DOMAIN pc = Readers BY DEF TypeOK, ReaderType
<1>1. ASSUME NEW c \in Callers, Start(c)
      PROVE  /\ UNCHANGED <<rcvbuf, chunks, chunk, first_read>>
             /\ \A r \in Readers : pc'[r] = "push" <=> pc[r] = "push"
  <2>1. UNCHANGED <<rcvbuf, chunks, chunk, first_read>> BY <1>1 DEF Start, network
  <2>2. \A r \in Readers : IF r[2] = gens + 1 THEN pc[r] = "none" /\ pc'[r] = "loop" ELSE pc'[r] = pc[r]
    BY <1>1, StartFacts
  <2> QED BY <2>1, <2>2
<1>2. ASSUME NEW c \in Callers, Caller(c), ~Start(c)
      PROVE  UNCHANGED <<rcvbuf, chunks, chunk, first_read, pc>>
  BY <1>2 DEF Caller, StopReturnsEarly, StopEnter, StopJoins, StopCloses, StopClears, StopReturns,
     network, reader
<1>3. ASSUME NEW g \in Gens, ConnectThread(g)
      PROVE  /\ UNCHANGED <<rcvbuf, chunks, chunk, first_read>>
             /\ \E here \in {"loop", "bind", "connect", "connecting", "peer", "watch"} :
                \E there \in {"loop", "bind", "connect", "connecting", "peer", "watch", "read", "done"} :
                  Step(<<"connect", g>>, here, there)
  <2>1. UNCHANGED <<rcvbuf, chunks, chunk, first_read>>
    BY <1>3 DEF ConnectThread, ConnectDone, ConnectOpens, ConnectOpenFails, ConnectBinds, ConnectGivesUp,
       ConnectCalls, ConnectSucceeds, ConnectNamesPeer, ConnectDrops, ConnectWatches, network
  <2>2. \E here \in {"loop", "bind", "connect", "connecting", "peer", "watch"} :
        \E there \in {"loop", "bind", "connect", "connecting", "peer", "watch", "read", "done"} :
           Step(<<"connect", g>>, here, there)
    BY <1>3 DEF ConnectThread, ConnectDone, ConnectOpens, ConnectOpenFails, ConnectBinds, ConnectGivesUp,
       ConnectCalls, ConnectSucceeds, ConnectNamesPeer, ConnectDrops, ConnectWatches
  <2> QED BY <2>1, <2>2
<1>4. ASSUME NEW g \in Gens, EpollThread(g) \/ EpollFails(g)
      PROVE  /\ UNCHANGED <<rcvbuf, chunks, chunk, first_read>>
             /\ \E here \in {"loop", "wait"} : \E there \in {"wait", "read", "done"} :
                  Step(<<"epoll", g>>, here, there)
  BY <1>4 DEF EpollThread, EpollWaits, EpollReturns, EpollFails, network
<1>5. ASSUME NEW r \in Readers, Recv(r) \/ RecvRefused(r) \/ RecvEnds(r)
      PROVE  /\ UNCHANGED <<rcvbuf, chunks, chunk, first_read>>
             /\ \E here \in {"read", "recv"} : \E there \in {"recv", "loop"} : Step(r, here, there)
  BY <1>5 DEF Recv, RecvRefused, RecvEnds, network
<1>6. ASSUME \/ \E g \in Gens : WriteThread(g) \/ WriteInterrupted(g) \/ WriteBlocks(g)
                                \/ CallbackThread(g) \/ CallbackStays(g)
             \/ SendMessage \/ (\E s \in Sockets : ServerLeaves(s)) \/ UNCHANGED vars
      PROVE  UNCHANGED <<rcvbuf, chunks, chunk, first_read, pc>>
  BY <1>6 DEF WriteThread, WriteChecks, WritePops, WriteSends, WriteSendFails, WriteSignalled, WriteInterrupted,
     WriteBlocks, CallbackStays, CallbackThread, CallbackChecks, CallbackLocks, CallbackCalls, CallbackPops,
     SendMessage, ServerLeaves, vars, network, reader
<1>7. ASSUME NEW r \in Readers, NEW here, NEW there, Step(r, here, there), here # "push", there # "push"
      PROVE  \A q \in Readers : pc'[q] = "push" <=> pc[q] = "push"
  BY <1>0, <1>7 DEF Step
<1>8. ASSUME NEW g \in Gens, ConnectThread(g) PROVE \A q \in Readers : pc'[q] = "push" <=> pc[q] = "push"
  BY <1>3, <1>7, <1>8, Bounds
<1>9. ASSUME NEW g \in Gens, EpollThread(g) \/ EpollFails(g)
      PROVE  \A q \in Readers : pc'[q] = "push" <=> pc[q] = "push"
  BY <1>4, <1>7, <1>9, Bounds
<1>10. ASSUME NEW r \in Readers, Recv(r) \/ RecvRefused(r) \/ RecvEnds(r)
       PROVE  \A q \in Readers : pc'[q] = "push" <=> pc[q] = "push"
  BY <1>5, <1>7, <1>10
<1> QED BY <1>1, <1>2, <1>3, <1>4, <1>5, <1>6, <1>8, <1>9, <1>10 DEF Next, ReadSteps

LEMMA ChunkTypes ==
  ASSUME TypeOK, TurnInv
  PROVE  /\ chunks \in Nat /\ \A r \in Readers : chunk[r] \in Nat
         /\ DOMAIN Offered = 1..Len(Offered) /\ Len(Offered) \in Nat
         /\ \A i \in DOMAIN Offered : Offered[i] \in Nat
         /\ \A s \in Sockets : /\ rcvbuf[s] \in Seq(Chunks)
                              /\ DOMAIN rcvbuf[s] = 1..Len(rcvbuf[s]) /\ Len(rcvbuf[s]) \in Nat
                              /\ \A i \in DOMAIN rcvbuf[s] : rcvbuf[s][i] \in Nat
<1>0. Chunks \subseteq Nat BY DEF Chunks
<1>1. chunks \in Nat /\ \A r \in Readers : chunk[r] \in Nat BY Bounds DEF TypeOK, NetworkType, ReaderType
<1>2. DOMAIN Offered = 1..Len(Offered) /\ Len(Offered) \in Nat /\ Offered \in Seq(Chunks) BY OfferedType
<1>3. \A i \in DOMAIN Offered : Offered[i] \in Nat BY <1>0, <1>2, ElementType
<1>4. ASSUME NEW s \in Sockets
      PROVE  /\ rcvbuf[s] \in Seq(Chunks) /\ DOMAIN rcvbuf[s] = 1..Len(rcvbuf[s]) /\ Len(rcvbuf[s]) \in Nat
             /\ \A i \in DOMAIN rcvbuf[s] : rcvbuf[s][i] \in Nat
  <2>1. rcvbuf[s] \in Seq(Chunks) BY DEF TypeOK, NetworkType
  <2>2. DOMAIN rcvbuf[s] = 1..Len(rcvbuf[s]) /\ Len(rcvbuf[s]) \in Nat BY <2>1, SequenceIsFunction
  <2> QED BY <1>0, <2>1, <2>2, ElementType
<1> QED BY <1>1, <1>2, <1>3, <1>4

\* A recv() takes the first chunk of one buffer.
LEMMA TakeFacts ==
  ASSUME TypeOK, Blocked, NEW r \in Readers, RecvTakes(r)
  PROVE  LET s == on[r]
             h == Head(rcvbuf[s])
             n == Len(rcvbuf[s])
         IN  /\ s \in Sockets /\ n \in Nat /\ n > 0 /\ h = rcvbuf[s][1]
             /\ DOMAIN rcvbuf[s] = 1..n /\ DOMAIN rcvbuf'[s] = 1..(n - 1)
             /\ \A i \in 1..(n - 1) : rcvbuf'[s][i] = rcvbuf[s][i + 1]
             /\ \A t \in Sockets : t # s => rcvbuf'[t] = rcvbuf[t]
             /\ pc[r] = "recv" /\ pc'[r] = "push" /\ chunk'[r] = h
             /\ \A q \in Readers : q # r => pc'[q] = pc[q] /\ chunk'[q] = chunk[q]
             /\ first_read' = IF r[1] = "connect" THEN first_read \cup {h} ELSE first_read
             /\ UNCHANGED <<chunks, gens, connected, client_socket>>
             /\ \A q \in Readers : q # r => on'[q] = on[q]
<1> DEFINE s == on[r]
<1>1. s \in Sockets /\ rcvbuf[s] \in Seq(Chunks) /\ rcvbuf[s] # <<>>
  BY RecvFacts DEF RecvTakes
<1>2. rcvbuf' = [rcvbuf EXCEPT ![s] = Tail(rcvbuf[s])] /\ DOMAIN rcvbuf = Sockets
  BY DEF RecvTakes, TypeOK, NetworkType
<1>3. rcvbuf'[s] = Tail(rcvbuf[s]) /\ \A t \in Sockets : t # s => rcvbuf'[t] = rcvbuf[t]
  BY <1>1, <1>2
<1>4. /\ Len(rcvbuf[s]) \in Nat /\ Len(rcvbuf[s]) > 0 /\ Head(rcvbuf[s]) = rcvbuf[s][1]
      /\ DOMAIN rcvbuf[s] = 1..Len(rcvbuf[s]) /\ DOMAIN rcvbuf'[s] = 1..(Len(rcvbuf[s]) - 1)
      /\ \A i \in 1..(Len(rcvbuf[s]) - 1) : rcvbuf'[s][i] = rcvbuf[s][i + 1]
  BY <1>1, <1>3, HeadTail
<1>5. /\ pc[r] = "recv" /\ pc'[r] = "push" /\ chunk'[r] = Head(rcvbuf[s])
      /\ \A q \in Readers : q # r => pc'[q] = pc[q] /\ chunk'[q] = chunk[q] /\ on'[q] = on[q]
  BY DEF RecvTakes, Step, TypeOK, ReaderType
<1>6. /\ first_read' = IF r[1] = "connect" THEN first_read \cup {Head(rcvbuf[s])} ELSE first_read
      /\ UNCHANGED <<chunks, gens, connected, client_socket>>
  BY DEF RecvTakes, life
<1> QED BY <1>1, <1>3, <1>4, <1>5, <1>6

LEMMA TakeOffered ==
  ASSUME TypeOK, Spawned, TurnInv, NEW r \in Readers, RecvTakes(r)
  PROVE  UNCHANGED Offered
BY DEF RecvTakes, user, Offered, Pending, Turn

LEMMA PlacesTake ==
  ASSUME TypeOK, Spawned, Blocked, TurnInv, Places, NEW r \in Readers, RecvTakes(r)
  PROVE  Places'
<1> DEFINE s == on[r]
           h == Head(rcvbuf[s])
           n == Len(rcvbuf[s])
           O == Offered
<1>0. /\ s \in Sockets /\ n \in Nat /\ n > 0 /\ h = rcvbuf[s][1]
      /\ DOMAIN rcvbuf[s] = 1..n /\ DOMAIN rcvbuf'[s] = 1..(n - 1)
      /\ \A i \in 1..(n - 1) : rcvbuf'[s][i] = rcvbuf[s][i + 1]
      /\ \A t \in Sockets : t # s => rcvbuf'[t] = rcvbuf[t]
      /\ pc'[r] = "push" /\ chunk'[r] = h
      /\ \A q \in Readers : q # r => pc'[q] = pc[q] /\ chunk'[q] = chunk[q]
      /\ first_read' = IF r[1] = "connect" THEN first_read \cup {h} ELSE first_read
      /\ UNCHANGED chunks /\ O' = O
  BY TakeFacts, TakeOffered
<1>1. 1 \in DOMAIN rcvbuf[s] BY <1>0
\* what is in a buffer now was in it, behind the first
<1>2. ASSUME NEW t \in Sockets, NEW i \in DOMAIN rcvbuf'[t]
      PROVE  \E k \in DOMAIN rcvbuf[t] : /\ rcvbuf'[t][i] = rcvbuf[t][k]
                                         /\ k = (IF t = s THEN i + 1 ELSE i) /\ (t = s => 1 < k)
  <2>1. CASE t = s
    <3>1. i \in 1..(n - 1) BY <1>0, <1>2, <2>1
    <3>2. i + 1 \in 1..n /\ 1 < i + 1 BY <1>0, <3>1
    <3>3. rcvbuf'[t][i] = rcvbuf[t][i + 1] /\ i + 1 \in DOMAIN rcvbuf[t] BY <1>0, <2>1, <3>1, <3>2
    <3> QED BY <2>1, <3>2, <3>3
  <2>2. CASE t # s
    <3>1. rcvbuf'[t] = rcvbuf[t] BY <1>0, <2>2
    <3> QED BY <1>2, <2>2, <3>1
  <2> QED BY <2>1, <2>2
<1>3. /\ h <= chunks /\ \A i \in DOMAIN O : O[i] # h
      /\ \A t \in Sockets : \A i \in DOMAIN rcvbuf'[t] : rcvbuf'[t][i] # h
      /\ \A q \in Readers : pc[q] = "push" => chunk[q] # h
      /\ h \notin first_read
  <2>1. h <= chunks /\ \A i \in DOMAIN O : O[i] # h BY <1>0, <1>1 DEF Places, InBuffers
  <2>2. \A q \in Readers : pc[q] = "push" => chunk[q] # h BY <1>0, <1>1 DEF Places, InHands
  <2>3. h \notin first_read BY <1>0, <1>1 DEF Places, FirstReads
  <2>4. ASSUME NEW t \in Sockets, NEW i \in DOMAIN rcvbuf'[t] PROVE rcvbuf'[t][i] # h
    <3>1. PICK k \in DOMAIN rcvbuf[t] : rcvbuf'[t][i] = rcvbuf[t][k] /\ (t = s => 1 < k) BY <1>2
    <3>2. CASE t = s
      <4>1. rcvbuf[s][1] < rcvbuf[s][k] BY <1>0, <1>1, <3>1, <3>2 DEF Places, InBuffers
      <4>2. rcvbuf[s][1] \in Nat /\ rcvbuf[s][k] \in Nat BY <1>0, <1>1, <3>1, <3>2, ChunkTypes
      <4> QED BY <1>0, <3>1, <3>2, <4>1, <4>2
    <3>3. CASE t # s BY <1>0, <1>1, <3>1, <3>3 DEF Places, InBuffers
    <3> QED BY <3>2, <3>3
  <2> QED BY <2>1, <2>2, <2>3, <2>4
<1> HIDE DEF h, n, O, s
<1>4. InOffered' BY <1>0 DEF Places, InOffered, O
<1>5. InBuffers'
  <2> SUFFICES ASSUME NEW t \in Sockets, NEW i \in DOMAIN rcvbuf'[t]
      PROVE  /\ rcvbuf'[t][i] <= chunks
             /\ \A j \in DOMAIN O : O[j] # rcvbuf'[t][i]
             /\ \A j \in DOMAIN rcvbuf'[t] : i < j => rcvbuf'[t][i] < rcvbuf'[t][j]
             /\ \A u \in Sockets : \A j \in DOMAIN rcvbuf'[u] : t # u => rcvbuf'[t][i] # rcvbuf'[u][j]
    BY <1>0 DEF InBuffers, O
  <2>1. PICK k \in DOMAIN rcvbuf[t] : rcvbuf'[t][i] = rcvbuf[t][k] /\ k = (IF t = s THEN i + 1 ELSE i) BY <1>2
  <2>2. rcvbuf'[t][i] <= chunks /\ \A j \in DOMAIN O : O[j] # rcvbuf'[t][i]
    BY <2>1 DEF Places, InBuffers, O
  <2>3. ASSUME NEW j \in DOMAIN rcvbuf'[t], i < j PROVE rcvbuf'[t][i] < rcvbuf'[t][j]
    <3>1. PICK l \in DOMAIN rcvbuf[t] : rcvbuf'[t][j] = rcvbuf[t][l] /\ l = (IF t = s THEN j + 1 ELSE j) BY <1>2
    <3>2. k < l
      <4>1. DOMAIN rcvbuf'[t] \subseteq Nat BY <1>0, ChunkTypes
      <4> QED BY <2>1, <2>3, <3>1, <4>1
    <3> QED BY <2>1, <3>1, <3>2 DEF Places, InBuffers
  <2>4. ASSUME NEW u \in Sockets, NEW j \in DOMAIN rcvbuf'[u], t # u PROVE rcvbuf'[t][i] # rcvbuf'[u][j]
    <3>1. PICK l \in DOMAIN rcvbuf[u] : rcvbuf'[u][j] = rcvbuf[u][l] BY <1>2
    <3> QED BY <2>1, <2>4, <3>1 DEF Places, InBuffers
  <2> QED BY <2>2, <2>3, <2>4
<1>6. InHands'
  <2> SUFFICES ASSUME NEW q \in Readers, pc'[q] = "push"
      PROVE  /\ chunk'[q] <= chunks
             /\ \A i \in DOMAIN O : O[i] # chunk'[q]
             /\ \A t \in Sockets : \A i \in DOMAIN rcvbuf'[t] : rcvbuf'[t][i] # chunk'[q]
             /\ \A p \in Readers : pc'[p] = "push" /\ p # q => chunk'[p] # chunk'[q]
    BY <1>0 DEF InHands, O
  <2>1. CASE q = r BY <1>0, <1>3, <2>1
  <2>2. CASE q # r
    <3>1. chunk'[q] = chunk[q] /\ pc[q] = "push" BY <1>0, <2>2
    <3>2. chunk[q] <= chunks /\ \A i \in DOMAIN O : O[i] # chunk[q] BY <3>1 DEF Places, InHands, O
    <3>3. ASSUME NEW t \in Sockets, NEW i \in DOMAIN rcvbuf'[t] PROVE rcvbuf'[t][i] # chunk[q]
      <4>1. PICK k \in DOMAIN rcvbuf[t] : rcvbuf'[t][i] = rcvbuf[t][k] BY <1>2
      <4> QED BY <3>1, <4>1 DEF Places, InHands
    <3>4. ASSUME NEW p \in Readers, pc'[p] = "push", p # q PROVE chunk'[p] # chunk[q]
      <4>1. CASE p = r BY <1>0, <1>3, <3>1, <4>1
      <4>2. CASE p # r BY <1>0, <3>1, <3>4, <4>2 DEF Places, InHands
      <4> QED BY <4>1, <4>2
    <3> QED BY <3>1, <3>2, <3>3, <3>4
  <2> QED BY <2>1, <2>2
<1>7. FirstReads'
  <2>1. ASSUME NEW g \in Gens, pc'[<<"connect", g>>] = "push" PROVE chunk'[<<"connect", g>>] \in first_read'
    <3>1. CASE r = <<"connect", g>> BY <1>0, <3>1
    <3>2. CASE r # <<"connect", g>> BY <1>0, <2>1, <3>2, Bounds DEF Places, FirstReads
    <3> QED BY <3>1, <3>2
  <2>2. ASSUME NEW m \in first_read'
        PROVE  /\ m <= chunks
               /\ \A t \in Sockets : \A i \in DOMAIN rcvbuf'[t] : rcvbuf'[t][i] # m
               /\ \A g \in Gens : pc'[<<"epoll", g>>] = "push" => chunk'[<<"epoll", g>>] # m
    <3>1. CASE m \in first_read
      <4>1. m <= chunks BY <3>1 DEF Places, FirstReads
      <4>2. ASSUME NEW t \in Sockets, NEW i \in DOMAIN rcvbuf'[t] PROVE rcvbuf'[t][i] # m
        <5>1. PICK k \in DOMAIN rcvbuf[t] : rcvbuf'[t][i] = rcvbuf[t][k] BY <1>2
        <5> QED BY <3>1, <5>1 DEF Places, FirstReads
      <4>3. ASSUME NEW g \in Gens, pc'[<<"epoll", g>>] = "push" PROVE chunk'[<<"epoll", g>>] # m
        <5>1. CASE r = <<"epoll", g>> BY <1>0, <1>3, <3>1, <5>1
        <5>2. CASE r # <<"epoll", g>> BY <1>0, <3>1, <4>3, <5>2, Bounds DEF Places, FirstReads
        <5> QED BY <5>1, <5>2
      <4> QED BY <4>1, <4>2, <4>3
    <3>2. CASE m \notin first_read
      <4>1. m = h /\ r[1] = "connect" BY <1>0, <2>2, <3>2
      <4>2. ASSUME NEW g \in Gens, pc'[<<"epoll", g>>] = "push" PROVE chunk'[<<"epoll", g>>] # m
        <5>1. <<"epoll", g>> # r BY <4>1
        <5> QED BY <1>0, <1>3, <4>1, <4>2, <5>1, Bounds
      <4> QED BY <1>3, <4>1, <4>2
    <3> QED BY <3>1, <3>2
  <2> QED BY <1>0, <2>1, <2>2 DEF FirstReads
<1> QED BY <1>4, <1>5, <1>6, <1>7 DEF Places

LEMMA PushFacts ==
  ASSUME TypeOK, TurnInv, NEW r \in Readers, Push(r), Offered' = Append(Offered, chunk[r])
  PROVE  LET n == Len(Offered)
         IN  /\ n \in Nat /\ DOMAIN Offered = 1..n /\ DOMAIN Offered' = 1..(n + 1)
             /\ \A i \in 1..n : Offered'[i] = Offered[i]
             /\ Offered'[n + 1] = chunk[r]
             /\ UNCHANGED <<rcvbuf, chunks, first_read, gens, connected, client_socket, on>>
             /\ pc[r] = "push" /\ pc'[r] = "loop" /\ chunk[r] \in Chunks
             /\ \A q \in Readers : q # r => pc'[q] = pc[q] /\ chunk'[q] = chunk[q]
<1>1. pc[r] = "push" /\ chunk[r] \in Chunks BY DEF TypeOK, ReaderType, Push, Step, Chunks
<1>2. /\ Len(Offered) \in Nat /\ DOMAIN Offered = 1..Len(Offered) /\ DOMAIN Offered' = 1..(Len(Offered) + 1)
      /\ \A i \in 1..Len(Offered) : Offered'[i] = Offered[i]
      /\ Offered'[Len(Offered) + 1] = chunk[r]
  BY <1>1, OfferedType, AppendFacts
<1>3. UNCHANGED <<rcvbuf, chunks, first_read, gens, connected, client_socket, on>> BY DEF Push, network, life
<1>4. pc'[r] = "loop" /\ \A q \in Readers : q # r => pc'[q] = pc[q] /\ chunk'[q] = chunk[q]
  BY DEF Push, Step, TypeOK, ReaderType
<1> QED BY <1>1, <1>2, <1>3, <1>4

LEMMA PlacesPush ==
  ASSUME TypeOK, TurnInv, Places, NEW r \in Readers, Push(r), Offered' = Append(Offered, chunk[r])
  PROVE  Places'
<1> DEFINE n == Len(Offered)
<1>0. /\ n \in Nat /\ DOMAIN Offered = 1..n /\ DOMAIN Offered' = 1..(n + 1)
      /\ \A i \in 1..n : Offered'[i] = Offered[i]
      /\ Offered'[n + 1] = chunk[r]
      /\ UNCHANGED <<rcvbuf, chunks, first_read>>
      /\ pc[r] = "push" /\ pc'[r] = "loop"
      /\ \A q \in Readers : q # r => pc'[q] = pc[q] /\ chunk'[q] = chunk[q]
  BY PushFacts
<1> HIDE DEF n
<1>1. /\ chunk[r] <= chunks /\ \A i \in DOMAIN Offered : Offered[i] # chunk[r]
      /\ \A s \in Sockets : \A i \in DOMAIN rcvbuf[s] : rcvbuf[s][i] # chunk[r]
      /\ \A q \in Readers : pc[q] = "push" /\ q # r => chunk[q] # chunk[r]
  BY <1>0 DEF Places, InHands
<1>2. ASSUME NEW i \in DOMAIN Offered'
      PROVE  IF i = n + 1 THEN Offered'[i] = chunk[r] ELSE i \in DOMAIN Offered /\ Offered'[i] = Offered[i]
  <2>1. i \in 1..(n + 1) BY <1>0
  <2>2. i # n + 1 => i \in 1..n BY <1>0, <2>1
  <2> QED BY <1>0, <2>1, <2>2
<1>3. InOffered' BY <1>0, <1>1, <1>2 DEF Places, InOffered
<1>4. InBuffers' BY <1>0, <1>1, <1>2 DEF Places, InBuffers
<1>5. InHands'
  <2> SUFFICES ASSUME NEW q \in Readers, pc'[q] = "push"
      PROVE  /\ chunk'[q] <= chunks
             /\ \A i \in DOMAIN Offered' : Offered'[i] # chunk'[q]
             /\ \A s \in Sockets : \A i \in DOMAIN rcvbuf[s] : rcvbuf[s][i] # chunk'[q]
             /\ \A p \in Readers : pc'[p] = "push" /\ p # q => chunk'[p] # chunk'[q]
    BY <1>0 DEF InHands
  <2>1. q # r /\ chunk'[q] = chunk[q] /\ pc[q] = "push" BY <1>0
  <2>2. \A i \in DOMAIN Offered' : Offered'[i] # chunk[q] BY <1>1, <1>2, <2>1 DEF Places, InHands
  <2> QED BY <1>0, <2>1, <2>2 DEF Places, InHands
<1>6. FirstReads'
  <2>1. \A q \in Readers : pc'[q] = "push" => pc[q] = "push" /\ chunk'[q] = chunk[q] BY <1>0
  <2> QED BY <1>0, <2>1, Bounds DEF Places, FirstReads
<1> QED BY <1>3, <1>4, <1>5, <1>6 DEF Places

\* What the server sends is new, and last in the buffer of its socket.
LEMMA ArriveFacts ==
  ASSUME TypeOK, Spawned, TurnInv, NEW s \in Sockets, ServerSends(s)
  PROVE  LET n == Len(rcvbuf[s])
         IN  /\ n \in Nat /\ DOMAIN rcvbuf[s] = 1..n /\ DOMAIN rcvbuf'[s] = 1..(n + 1)
             /\ \A i \in 1..n : rcvbuf'[s][i] = rcvbuf[s][i]
             /\ rcvbuf'[s][n + 1] = chunks + 1
             /\ \A t \in Sockets : t # s => rcvbuf'[t] = rcvbuf[t]
             /\ chunks' = chunks + 1 /\ chunks \in Nat
             /\ UNCHANGED <<Offered, pc, on, chunk, first_read, gens, connected, client_socket>>
<1>1. chunks + 1 \in Chunks /\ chunks \in Nat BY Bounds DEF TypeOK, NetworkType, ServerSends, Chunks
<1>2. rcvbuf[s] \in Seq(Chunks) /\ DOMAIN rcvbuf = Sockets BY DEF TypeOK, NetworkType
<1>3. rcvbuf'[s] = Append(rcvbuf[s], chunks + 1) /\ \A t \in Sockets : t # s => rcvbuf'[t] = rcvbuf[t]
  BY <1>2 DEF ServerSends
<1>4. UNCHANGED <<Offered, pc, on, chunk, first_read, gens, connected, client_socket>> /\ chunks' = chunks + 1
  BY DEF ServerSends, reader, user, life, Offered, Pending, Turn
<1> QED BY <1>1, <1>2, <1>3, <1>4, AppendFacts

LEMMA PlacesArrive ==
  ASSUME TypeOK, Spawned, TurnInv, Places, NEW s \in Sockets, ServerSends(s)
  PROVE  Places'
<1> DEFINE n == Len(rcvbuf[s])
<1>0. /\ n \in Nat /\ DOMAIN rcvbuf[s] = 1..n /\ DOMAIN rcvbuf'[s] = 1..(n + 1)
      /\ \A i \in 1..n : rcvbuf'[s][i] = rcvbuf[s][i]
      /\ rcvbuf'[s][n + 1] = chunks + 1
      /\ \A t \in Sockets : t # s => rcvbuf'[t] = rcvbuf[t]
      /\ chunks' = chunks + 1 /\ chunks \in Nat
      /\ UNCHANGED <<Offered, pc, chunk, first_read>>
  BY ArriveFacts
<1> HIDE DEF n
<1>1. ASSUME NEW t \in Sockets, NEW i \in DOMAIN rcvbuf'[t]
      PROVE  IF t = s /\ i = n + 1 THEN rcvbuf'[t][i] = chunks + 1
                                   ELSE i \in DOMAIN rcvbuf[t] /\ rcvbuf'[t][i] = rcvbuf[t][i]
  <2>1. CASE t = s
    <3>1. i \in 1..(n + 1) BY <1>0, <1>1, <2>1
    <3>2. i # n + 1 => i \in 1..n BY <1>0, <3>1
    <3> QED BY <1>0, <2>1, <3>1, <3>2
  <2>2. CASE t # s
    <3>1. rcvbuf'[t] = rcvbuf[t] BY <1>0, <2>2
    <3> QED BY <1>1, <2>2, <3>1
  <2> QED BY <2>1, <2>2
<1>2. /\ \A i \in DOMAIN Offered : Offered[i] \in Nat /\ Offered[i] <= chunks
      /\ \A t \in Sockets : \A i \in DOMAIN rcvbuf[t] : rcvbuf[t][i] \in Nat /\ rcvbuf[t][i] <= chunks
      /\ \A r \in Readers : chunk[r] \in Nat /\ (pc[r] = "push" => chunk[r] <= chunks)
      /\ \A m \in first_read : m \in Nat /\ m <= chunks
  <2>1. \A m \in first_read : m \in Nat BY DEF TypeOK, ReaderType, Chunks
  <2> QED BY <2>1, ChunkTypes DEF Places, InOffered, InBuffers, InHands, FirstReads
<1>3. InOffered' BY <1>0, <1>2 DEF Places, InOffered
<1>4. InBuffers'
  <2> SUFFICES ASSUME NEW t \in Sockets, NEW i \in DOMAIN rcvbuf'[t]
      PROVE  /\ rcvbuf'[t][i] <= chunks + 1
             /\ \A j \in DOMAIN Offered : Offered[j] # rcvbuf'[t][i]
             /\ \A j \in DOMAIN rcvbuf'[t] : i < j => rcvbuf'[t][i] < rcvbuf'[t][j]
             /\ \A u \in Sockets : \A j \in DOMAIN rcvbuf'[u] : t # u => rcvbuf'[t][i] # rcvbuf'[u][j]
    BY <1>0 DEF InBuffers
  <2>1. CASE t = s /\ i = n + 1
    <3>1. rcvbuf'[t][i] = chunks + 1 BY <1>1, <2>1
    <3>2. \A j \in DOMAIN rcvbuf'[t] : ~(i < j) BY <1>0, <2>1
    <3>3. ASSUME NEW u \in Sockets, NEW j \in DOMAIN rcvbuf'[u], t # u PROVE rcvbuf'[t][i] # rcvbuf'[u][j]
      <4>1. j \in DOMAIN rcvbuf[u] /\ rcvbuf'[u][j] = rcvbuf[u][j] BY <1>1, <2>1, <3>3
      <4> QED BY <1>0, <1>2, <3>1, <4>1
    <3> QED BY <1>0, <1>2, <3>1, <3>2, <3>3
  <2>2. CASE ~(t = s /\ i = n + 1)
    <3>1. i \in DOMAIN rcvbuf[t] /\ rcvbuf'[t][i] = rcvbuf[t][i] BY <1>1, <2>2
    <3>2. rcvbuf[t][i] \in Nat /\ rcvbuf[t][i] <= chunks BY <1>2, <3>1
    <3>3. ASSUME NEW j \in DOMAIN rcvbuf'[t], i < j PROVE rcvbuf'[t][i] < rcvbuf'[t][j]
      <4>1. CASE t = s /\ j = n + 1 BY <1>0, <1>1, <3>1, <3>2, <4>1
      <4>2. CASE ~(t = s /\ j = n + 1)
        <5>1. j \in DOMAIN rcvbuf[t] /\ rcvbuf'[t][j] = rcvbuf[t][j] BY <1>1, <4>2
        <5> QED BY <3>1, <3>3, <5>1 DEF Places, InBuffers
      <4> QED BY <4>1, <4>2
    <3>4. ASSUME NEW u \in Sockets, NEW j \in DOMAIN rcvbuf'[u], t # u PROVE rcvbuf'[t][i] # rcvbuf'[u][j]
      <4>1. CASE u = s /\ j = n + 1 BY <1>0, <1>1, <3>1, <3>2, <4>1
      <4>2. CASE ~(u = s /\ j = n + 1)
        <5>1. j \in DOMAIN rcvbuf[u] /\ rcvbuf'[u][j] = rcvbuf[u][j] BY <1>1, <4>2
        <5> QED BY <3>1, <3>4, <5>1 DEF Places, InBuffers
      <4> QED BY <4>1, <4>2
    <3>5. \A j \in DOMAIN Offered : Offered[j] # rcvbuf[t][i] BY <3>1 DEF Places, InBuffers
    <3> QED BY <1>0, <3>1, <3>2, <3>3, <3>4, <3>5
  <2> QED BY <2>1, <2>2
<1>5. InHands'
  <2> SUFFICES ASSUME NEW q \in Readers, pc[q] = "push"
      PROVE  /\ chunk[q] <= chunks + 1
             /\ \A i \in DOMAIN Offered : Offered[i] # chunk[q]
             /\ \A t \in Sockets : \A i \in DOMAIN rcvbuf'[t] : rcvbuf'[t][i] # chunk[q]
             /\ \A p \in Readers : pc[p] = "push" /\ p # q => chunk[p] # chunk[q]
    BY <1>0 DEF InHands
  <2>1. \A t \in Sockets : \A i \in DOMAIN rcvbuf[t] : rcvbuf[t][i] # chunk[q] BY DEF Places, InHands
  <2>2. chunk[q] \in Nat /\ chunk[q] <= chunks BY <1>2
  <2>3. \A t \in Sockets : \A i \in DOMAIN rcvbuf'[t] : rcvbuf'[t][i] # chunk[q]
    BY <1>0, <1>1, <2>1, <2>2
  <2> QED BY <1>0, <2>2, <2>3 DEF Places, InHands
<1>6. FirstReads'
  <2>1. ASSUME NEW m \in first_read, NEW t \in Sockets, NEW i \in DOMAIN rcvbuf'[t] PROVE rcvbuf'[t][i] # m
    <3>1. m \in Nat /\ m <= chunks BY <1>2
    <3>2. i \in DOMAIN rcvbuf[t] => rcvbuf[t][i] # m BY DEF Places, FirstReads
    <3> QED BY <1>0, <1>1, <3>1, <3>2
  <2>2. \A m \in first_read : m <= chunks + 1 BY <1>0, <1>2
  <2> QED BY <1>0, <2>1, <2>2 DEF Places, FirstReads
<1> QED BY <1>3, <1>4, <1>5, <1>6 DEF Places

LEMMA PlacesStep ==
  ASSUME TypeOK, Spawned, Blocked, TurnInv, Places, [Next]_vars
  PROVE  Places'
<1>1. ASSUME NEW r \in Readers, Push(r) PROVE Places' BY <1>1, PushOffers, PlacesPush
<1>2. CASE UNCHANGED <<rcvbuf, chunks, chunk, first_read>> /\ \A r \in Readers : pc'[r] = "push" <=> pc[r] = "push"
  <2>1. CASE UNCHANGED Offered
    <3>1. InOffered' /\ InBuffers' BY <1>2, <2>1 DEF Places, InOffered, InBuffers
    <3>2. InHands' BY <1>2, <2>1 DEF Places, InHands
    <3>3. FirstReads' BY <1>2, Bounds DEF Places, FirstReads
    <3> QED BY <3>1, <3>2, <3>3 DEF Places
  <2>2. CASE \E r \in Readers : Push(r) BY <1>1, <2>2
  <2> QED BY <2>1, <2>2, OfferedStep
<1> QED BY <1>1, <1>2, ChunkFrame, PlacesTake, PlacesArrive

-------------------------------------------------------------------------------
(* The order of the chunks *)

\* Only recv() blocks a thread.
LEMMA BlockFrame ==
  ASSUME TypeOK, Spawned, [Next]_vars
  PROVE  \/ \E r \in Readers : Recv(r)
         \/ \A r \in Readers : pc'[r] = "recv" => pc[r] = "recv" /\ on'[r] = on[r]
<1>0. DOMAIN pc = Readers /\ DOMAIN on = Readers BY DEF TypeOK, ReaderType
<1>1. ASSUME NEW c \in Callers, Start(c)
      PROVE  \A r \in Readers : pc'[r] = "recv" => pc[r] = "recv" /\ on'[r] = on[r]
  <2>1. UNCHANGED on BY <1>1 DEF Start
  <2>2. \A r \in Readers : IF r[2] = gens + 1 THEN pc[r] = "none" /\ pc'[r] = "loop" ELSE pc'[r] = pc[r]
    BY <1>1, StartFacts
  <2> QED BY <2>1, <2>2
<1>2. ASSUME NEW r \in Readers, NEW here, NEW there, Step(r, here, there), there # "recv",
             on' = on \/ \E s : on' = [on EXCEPT ![r] = s]
      PROVE  \A q \in Readers : pc'[q] = "recv" => pc[q] = "recv" /\ on'[q] = on[q]
  BY <1>0, <1>2 DEF Step
<1>3. ASSUME NEW g \in Gens, ConnectThread(g)
      PROVE  \A q \in Readers : pc'[q] = "recv" => pc[q] = "recv" /\ on'[q] = on[q]
  <2>1. \E here : \E there \in {"loop", "bind", "connect", "connecting", "peer", "watch", "read", "done"} :
          Step(<<"connect", g>>, here, there)
    BY <1>3 DEF ConnectThread, ConnectDone, ConnectOpens, ConnectOpenFails, ConnectBinds, ConnectGivesUp,
       ConnectCalls, ConnectSucceeds, ConnectNamesPeer, ConnectDrops, ConnectWatches
  <2>2. on' = on \/ \E s : on' = [on EXCEPT ![<<"connect", g>>] = s]
    BY <1>3 DEF ConnectThread, ConnectDone, ConnectOpens, ConnectOpenFails, ConnectBinds, ConnectGivesUp,
       ConnectCalls, ConnectSucceeds, ConnectNamesPeer, ConnectDrops, ConnectWatches
  <2> QED BY <1>2, <2>1, <2>2, Bounds
<1>4. ASSUME NEW g \in Gens, EpollThread(g) \/ EpollFails(g)
      PROVE  \A q \in Readers : pc'[q] = "recv" => pc[q] = "recv" /\ on'[q] = on[q]
  <2>1. \E here : \E there \in {"wait", "read", "done"} : Step(<<"epoll", g>>, here, there)
    BY <1>4 DEF EpollThread, EpollWaits, EpollReturns, EpollFails
  <2>2. on' = on BY <1>4 DEF EpollThread, EpollWaits, EpollReturns, EpollFails
  <2> QED BY <1>2, <2>1, <2>2, Bounds
<1>5. ASSUME NEW r \in Readers, ReadSteps(r), ~Recv(r)
      PROVE  \A q \in Readers : pc'[q] = "recv" => pc[q] = "recv" /\ on'[q] = on[q]
  <2>1. \E here : \E there \in {"loop", "push"} : Step(r, here, there)
    BY <1>5 DEF ReadSteps, RecvRefused, RecvTakes, RecvEnds, Push
  <2>2. on' = on \/ on' = [on EXCEPT ![r] = 0]
    BY <1>5 DEF ReadSteps, RecvRefused, RecvTakes, RecvEnds, Push
  <2> QED BY <1>2, <2>1, <2>2
<1>6. ASSUME \/ \E c \in Callers : Caller(c) /\ ~Start(c)
             \/ \E g \in Gens : WriteThread(g) \/ WriteInterrupted(g) \/ WriteBlocks(g)
                                \/ CallbackThread(g) \/ CallbackStays(g)
             \/ SendMessage \/ (\E s \in Sockets : ServerSends(s) \/ ServerLeaves(s))
             \/ UNCHANGED vars
      PROVE  UNCHANGED <<pc, on>>
  BY <1>6 DEF Caller, StopReturnsEarly, StopEnter, StopJoins, StopCloses, StopClears, StopReturns,
     WriteThread, WriteChecks, WritePops, WriteSends, WriteSendFails, WriteSignalled, WriteInterrupted,
     WriteBlocks, CallbackStays, CallbackThread, CallbackChecks, CallbackLocks, CallbackCalls, CallbackPops,
     SendMessage, ServerSends, ServerLeaves, vars, reader
<1> QED BY <1>1, <1>3, <1>4, <1>5, <1>6 DEF Next

\* Before the connection nothing is received.
LEMMA NothingYet ==
  ASSUME TypeOK, Connection, OneSocket, gens <= 1, ~connected
  PROVE  Offered = <<>> /\ \A r \in Readers : pc[r] \notin {"read", "recv", "push"}
BY ReaderFacts DEF Connection, OneSocket

LEMMA OneSocketStep ==
  ASSUME TypeOK, Spawned, Blocked, TurnInv, Connection, OneSocket, [Next]_vars
  PROVE  OneSocket'
<1> USE Bounds
<1>0. gens \in Nat /\ connected \in BOOLEAN BY DEF TypeOK, LifeType, SocketType
<1>1. CASE Spawns
  <2>1. PICK c \in Callers : Start(c) BY <1>1 DEF Spawns
  <2>2. gens' <= 1 => gens = 0 BY <2>1, StartFacts
  <2>3. gens = 0 => ~connected BY DEF Spawned
  <2>4. UNCHANGED connected /\ ~\E r \in Readers : Push(r)
    <3>1. gens' = gens + 1 BY <2>1 DEF Start
    <3>2. \A r \in Readers : Push(r) => gens' = gens BY DEF Push, life
    <3> QED BY <1>0, <2>1, <3>1, <3>2 DEF Start
  <2>5. UNCHANGED Offered BY <2>4, OfferedStep
  <2> QED BY <2>2, <2>3, <2>4, <2>5 DEF OneSocket
<1>2. ASSUME gens <= 1, ~Spawns PROVE OneSocket'
  <2>0. gens' = gens BY <1>2, Moves DEF Reads, Writes, Calls, Rests
  <2>1. CASE Connects
    <3>1. PICK g \in Gens : ConnectWatches(g) BY <2>1 DEF Connects
    <3>2. pc[<<"connect", g>>] = "watch" /\ pc' = [pc EXCEPT ![<<"connect", g>>] = "read"] /\ connected'
      BY <3>1 DEF ConnectWatches, Step
    <3>3. ~connected BY <1>2, <3>2 DEF Connection
    <3>4. \A r \in Readers : pc'[r] # "recv" BY <1>2, <3>2, <3>3, NothingYet DEF TypeOK, ReaderType
    <3> QED BY <3>2, <3>4 DEF OneSocket
  <2>2. CASE ~connected /\ ~connected'
    <3>1. \A r \in Readers : ~Push(r) BY <1>2, <2>2, NothingYet DEF Push, Step
    <3>2. UNCHANGED Offered BY <3>1, OfferedStep
    <3> QED BY <1>2, <2>2, <3>2 DEF OneSocket
  <2>3. ASSUME connected, connected', client_socket' \in {client_socket, 0} PROVE OneSocket'
    <3>1. ASSUME NEW r \in Readers, Recv(r) PROVE OneSocket'
      <4>1. /\ UNCHANGED client_socket /\ client_socket # 0
            /\ pc' = [pc EXCEPT ![r] = "recv"] /\ on' = [on EXCEPT ![r] = client_socket]
        BY <3>1 DEF Recv, Step, State
      <4>2. \A q \in Readers : pc'[q] = "recv" => on'[q] = client_socket
        BY <1>2, <2>3, <4>1 DEF OneSocket, TypeOK, ReaderType
      <4> QED BY <2>3, <4>1, <4>2 DEF OneSocket
    <3>2. ASSUME \A r \in Readers : pc'[r] = "recv" => pc[r] = "recv" /\ on'[r] = on[r] PROVE OneSocket'
      BY <1>2, <2>3, <3>2 DEF OneSocket
    <3> QED BY <3>1, <3>2, BlockFrame
  <2> QED BY <1>2, <2>1, <2>2, <2>3, ConnectionFrame
<1>3. ASSUME gens > 1, ~Spawns PROVE OneSocket'
  BY <1>0, <1>3, Moves DEF Reads, Writes, Calls, Rests, OneSocket
<1> QED BY <1>0, <1>1, <1>2, <1>3

\* The sockets the one generation reads from are the ones it read from before.
LEMMA WatchFrame ==
  ASSUME TypeOK, Spawned, [Next]_vars, client_socket' \in {client_socket, 0}
  PROVE  \A s \in Sockets : Watched(s)' => Watched(s)
<1>1. ASSUME NEW r \in Readers, Recv(r), NEW s \in Sockets, Watched(s)' PROVE Watched(s)
  <2>1. /\ UNCHANGED client_socket
        /\ pc' = [pc EXCEPT ![r] = "recv"] /\ on' = [on EXCEPT ![r] = client_socket]
    BY <1>1 DEF Recv, Step
  <2> QED BY <1>1, <2>1 DEF Watched, TypeOK, ReaderType
<1>2. ASSUME \A r \in Readers : pc'[r] = "recv" => pc[r] = "recv" /\ on'[r] = on[r],
             NEW s \in Sockets, Watched(s)'
      PROVE  Watched(s)
  <2>1. client_socket' = s => client_socket = s BY Bounds
  <2> QED BY <1>2, <2>1 DEF Watched
<1> QED BY <1>1, <1>2, BlockFrame

LEMMA OrderTake ==
  ASSUME TypeOK, Spawned, Blocked, TurnInv, Connection, Places, OneSocket, OrderInv, gens <= 1,
         NEW r \in Readers, RecvTakes(r)
  PROVE  OrderInv'
<1> DEFINE s == on[r]
           h == Head(rcvbuf[s])
           n == Len(rcvbuf[s])
<1>0. /\ s \in Sockets /\ n \in Nat /\ n > 0 /\ h = rcvbuf[s][1]
      /\ DOMAIN rcvbuf[s] = 1..n /\ DOMAIN rcvbuf'[s] = 1..(n - 1)
      /\ \A i \in 1..(n - 1) : rcvbuf'[s][i] = rcvbuf[s][i + 1]
      /\ \A t \in Sockets : t # s => rcvbuf'[t] = rcvbuf[t]
      /\ pc[r] = "recv" /\ pc'[r] = "push" /\ chunk'[r] = h
      /\ \A q \in Readers : q # r => pc'[q] = pc[q] /\ chunk'[q] = chunk[q]
      /\ first_read' = IF r[1] = "connect" THEN first_read \cup {h} ELSE first_read
      /\ UNCHANGED <<gens, connected, client_socket>> /\ UNCHANGED Offered
  BY TakeFacts, TakeOffered
<1>1. connected /\ Watched(s) /\ \A t \in Sockets : Watched(t)' => Watched(t)
  <2>1. connected BY <1>0, ReaderFacts DEF Connection
  <2>2. [Next]_vars BY DEF Next, ReadSteps
  <2> QED BY <1>0, <2>1, <2>2, WatchFrame DEF Watched
<1>2. \A t \in Sockets : Watched(t) => t = s
  BY <1>0, <1>1, Bounds DEF OneSocket, Watched
<1> HIDE DEF h, n, s
<1>3. ASSUME NEW i \in DOMAIN rcvbuf'[s]
      PROVE  i + 1 \in DOMAIN rcvbuf[s] /\ rcvbuf'[s][i] = rcvbuf[s][i + 1] /\ h < rcvbuf'[s][i]
  <2>1. i \in 1..(n - 1) BY <1>0, <1>3
  <2>2. i + 1 \in 1..n /\ 1 \in 1..n /\ 1 < i + 1 BY <1>0, <2>1
  <2>3. rcvbuf[s][1] < rcvbuf[s][i + 1] BY <1>0, <2>2 DEF Places, InBuffers
  <2> QED BY <1>0, <2>1, <2>2, <2>3
<1>4. \A i \in DOMAIN Offered : Offered[i] \notin first_read => Offered[i] < h
  <2>1. 1 \in DOMAIN rcvbuf[s] BY <1>0
  <2> QED BY <1>0, <1>1, <2>1 DEF OrderInv
<1>5. first_read \subseteq first_read' BY <1>0
<1>6. \A i, j \in DOMAIN Offered :
         i < j /\ Offered[i] \notin first_read' /\ Offered[j] \notin first_read' => Offered[i] < Offered[j]
  BY <1>5 DEF OrderInv
<1>7. ASSUME NEW g \in Gens, pc'[<<"epoll", g>>] = "push"
      PROVE  /\ \A i \in DOMAIN Offered : Offered[i] \notin first_read' => Offered[i] < chunk'[<<"epoll", g>>]
             /\ \A k \in DOMAIN rcvbuf'[s] : chunk'[<<"epoll", g>>] < rcvbuf'[s][k]
  <2>1. CASE r = <<"epoll", g>> BY <1>0, <1>3, <1>4, <1>5, <2>1
  <2>2. CASE r # <<"epoll", g>>
    <3>1. pc[<<"epoll", g>>] = "push" /\ chunk'[<<"epoll", g>>] = chunk[<<"epoll", g>>]
      BY <1>0, <1>7, <2>2, Bounds
    <3> QED BY <1>1, <1>0, <1>3, <1>5, <3>1 DEF OrderInv
  <2> QED BY <2>1, <2>2
<1>8. ASSUME NEW t \in Sockets, Watched(t)', NEW k \in DOMAIN rcvbuf'[t]
      PROVE  /\ \A i \in DOMAIN Offered : Offered[i] \notin first_read' => Offered[i] < rcvbuf'[t][k]
             /\ \A g \in Gens : pc'[<<"epoll", g>>] = "push" => chunk'[<<"epoll", g>>] < rcvbuf'[t][k]
  <2>1. t = s BY <1>1, <1>2, <1>8
  <2>2. k + 1 \in DOMAIN rcvbuf[s] /\ rcvbuf'[s][k] = rcvbuf[s][k + 1] BY <1>3, <1>8, <2>1
  <2>3. \A i \in DOMAIN Offered : Offered[i] \notin first_read => Offered[i] < rcvbuf[s][k + 1]
    BY <1>0, <1>1, <2>2 DEF OrderInv
  <2> QED BY <1>5, <1>7, <1>8, <2>1, <2>2, <2>3
<1> QED BY <1>0, <1>6, <1>7, <1>8 DEF OrderInv

LEMMA OrderPush ==
  ASSUME TypeOK, Spawned, TurnInv, Connection, Places, OneSocket, OrderInv, gens <= 1,
         NEW r \in Readers, Push(r)
  PROVE  OrderInv'
<1> DEFINE n == Len(Offered)
           x == chunk[r]
<1>0. /\ n \in Nat /\ DOMAIN Offered = 1..n /\ DOMAIN Offered' = 1..(n + 1)
      /\ \A i \in 1..n : Offered'[i] = Offered[i]
      /\ Offered'[n + 1] = x
      /\ UNCHANGED <<rcvbuf, first_read, gens, connected, client_socket, on>>
      /\ pc[r] = "push" /\ pc'[r] = "loop"
      /\ \A q \in Readers : q # r => pc'[q] = pc[q] /\ chunk'[q] = chunk[q]
  BY PushOffers, PushFacts
<1>1. connected /\ \A t \in Sockets : Watched(t)' => Watched(t)
  <2>1. connected BY <1>0, ReaderFacts DEF Connection
  <2>2. [Next]_vars BY DEF Next, ReadSteps
  <2> QED BY <1>0, <2>1, <2>2, WatchFrame
<1> HIDE DEF n, x
<1>2. \/ x \in first_read
      \/ /\ \A i \in DOMAIN Offered : Offered[i] \notin first_read => Offered[i] < x
         /\ \A s \in Sockets : Watched(s) => \A k \in DOMAIN rcvbuf[s] : x < rcvbuf[s][k]
         /\ \A g \in Gens : pc'[<<"epoll", g>>] # "push"
  <2>1. CASE r = <<"connect", r[2]>> BY <1>0, <2>1, ReaderFacts DEF Places, FirstReads, x
  <2>2. CASE r = <<"epoll", r[2]>>
    <3>1. \A i \in DOMAIN Offered : Offered[i] \notin first_read => Offered[i] < x
      BY <1>0, <2>2, ReaderFacts DEF OrderInv, x
    <3>2. \A s \in Sockets : Watched(s) => \A k \in DOMAIN rcvbuf[s] : x < rcvbuf[s][k]
      BY <1>0, <1>1, <2>2, ReaderFacts DEF OrderInv, x
    <3>3. ASSUME NEW g \in Gens PROVE pc'[<<"epoll", g>>] # "push"
      <4>1. CASE g = r[2] BY <1>0, <2>2, <4>1
      <4>2. CASE g # r[2]
        <5>1. r[2] = 1 BY <1>0, OnlyOne
        <5>2. pc[<<"epoll", g>>] = "none" BY <4>2, <5>1, OnlyOne
        <5>3. <<"epoll", g>> # r BY <2>2, <4>2
        <5> QED BY <1>0, <5>2, <5>3, Bounds
      <4> QED BY <4>1, <4>2
    <3> QED BY <3>1, <3>2, <3>3
  <2> QED BY <2>1, <2>2, ReaderFacts
<1>3. ASSUME NEW i \in DOMAIN Offered'
      PROVE  IF i = n + 1 THEN Offered'[i] = x ELSE i \in DOMAIN Offered /\ i < n + 1 /\ Offered'[i] = Offered[i]
  <2>1. i \in 1..(n + 1) BY <1>0, <1>3
  <2>2. i # n + 1 => i \in 1..n /\ i < n + 1 BY <1>0, <2>1
  <2> QED BY <1>0, <2>1, <2>2
<1>4. ASSUME NEW i \in DOMAIN Offered', NEW j \in DOMAIN Offered',
             i < j, Offered'[i] \notin first_read, Offered'[j] \notin first_read
      PROVE  Offered'[i] < Offered'[j]
  <2>1. i # n + 1 BY <1>0, <1>4
  <2>2. CASE j = n + 1 BY <1>2, <1>3, <1>4, <2>1, <2>2
  <2>3. CASE j # n + 1 BY <1>3, <1>4, <2>1, <2>3 DEF OrderInv
  <2> QED BY <2>2, <2>3
<1>5. ASSUME NEW g \in Gens, pc'[<<"epoll", g>>] = "push", NEW i \in DOMAIN Offered', Offered'[i] \notin first_read
      PROVE  Offered'[i] < chunk'[<<"epoll", g>>]
  <2>1. <<"epoll", g>> # r BY <1>0, <1>5
  <2>2. pc[<<"epoll", g>>] = "push" /\ chunk'[<<"epoll", g>>] = chunk[<<"epoll", g>>]
    BY <1>0, <1>5, <2>1, Bounds
  <2>3. x \in first_read BY <1>2, <1>5
  <2>4. i # n + 1 BY <1>3, <1>5, <2>3
  <2> QED BY <1>3, <1>5, <2>2, <2>4 DEF OrderInv
<1>6. ASSUME NEW s \in Sockets, Watched(s)', NEW k \in DOMAIN rcvbuf[s]
      PROVE  /\ \A i \in DOMAIN Offered' : Offered'[i] \notin first_read => Offered'[i] < rcvbuf[s][k]
             /\ \A g \in Gens : pc'[<<"epoll", g>>] = "push" => chunk'[<<"epoll", g>>] < rcvbuf[s][k]
  <2>0. Watched(s) BY <1>1, <1>6
  <2>1. ASSUME NEW i \in DOMAIN Offered', Offered'[i] \notin first_read PROVE Offered'[i] < rcvbuf[s][k]
    <3>1. CASE i = n + 1 BY <1>2, <1>3, <2>0, <2>1, <3>1
    <3>2. CASE i # n + 1 BY <1>1, <1>3, <2>0, <2>1, <3>2 DEF OrderInv
    <3> QED BY <3>1, <3>2
  <2>2. ASSUME NEW g \in Gens, pc'[<<"epoll", g>>] = "push" PROVE chunk'[<<"epoll", g>>] < rcvbuf[s][k]
    <3>1. <<"epoll", g>> # r BY <1>0, <2>2
    <3>2. pc[<<"epoll", g>>] = "push" /\ chunk'[<<"epoll", g>>] = chunk[<<"epoll", g>>]
      BY <1>0, <2>2, <3>1, Bounds
    <3> QED BY <1>1, <2>0, <3>2 DEF OrderInv
  <2> QED BY <2>1, <2>2
<1> QED BY <1>0, <1>4, <1>5, <1>6 DEF OrderInv

LEMMA OrderArrive ==
  ASSUME TypeOK, Spawned, TurnInv, Places, OrderInv, gens <= 1, NEW s \in Sockets, ServerSends(s)
  PROVE  OrderInv'
<1> DEFINE n == Len(rcvbuf[s])
<1>0. /\ n \in Nat /\ DOMAIN rcvbuf[s] = 1..n /\ DOMAIN rcvbuf'[s] = 1..(n + 1)
      /\ \A i \in 1..n : rcvbuf'[s][i] = rcvbuf[s][i]
      /\ rcvbuf'[s][n + 1] = chunks + 1
      /\ \A t \in Sockets : t # s => rcvbuf'[t] = rcvbuf[t]
      /\ chunks \in Nat
      /\ UNCHANGED <<Offered, pc, on, chunk, first_read, gens, connected, client_socket>>
  BY ArriveFacts
<1> HIDE DEF n
<1>1. \A t \in Sockets : Watched(t)' <=> Watched(t) BY <1>0 DEF Watched
<1>2. /\ \A i \in DOMAIN Offered : Offered[i] \in Nat /\ Offered[i] <= chunks
      /\ \A g \in Gens : pc[<<"epoll", g>>] = "push" =>
           chunk[<<"epoll", g>>] \in Nat /\ chunk[<<"epoll", g>>] <= chunks
  BY ChunkTypes, Bounds DEF Places, InOffered, InHands
<1>3. ASSUME NEW t \in Sockets, NEW k \in DOMAIN rcvbuf'[t], connected, Watched(t)
      PROVE  /\ \A i \in DOMAIN Offered : Offered[i] \notin first_read => Offered[i] < rcvbuf'[t][k]
             /\ \A g \in Gens : pc[<<"epoll", g>>] = "push" => chunk[<<"epoll", g>>] < rcvbuf'[t][k]
  <2>1. CASE t = s /\ k = n + 1
    <3>1. rcvbuf'[t][k] = chunks + 1 BY <1>0, <2>1
    <3> QED BY <1>0, <1>2, <3>1
  <2>2. CASE t = s /\ k # n + 1
    <3>1. k \in 1..(n + 1) BY <1>0, <1>3, <2>2
    <3>2. k \in 1..n BY <1>0, <2>2, <3>1
    <3>3. k \in DOMAIN rcvbuf[t] /\ rcvbuf'[t][k] = rcvbuf[t][k] BY <1>0, <2>2, <3>2
    <3> QED BY <1>3, <3>3 DEF OrderInv
  <2>3. CASE t # s
    <3>1. rcvbuf'[t] = rcvbuf[t] BY <1>0, <2>3
    <3> QED BY <1>3, <3>1 DEF OrderInv
  <2> QED BY <2>1, <2>2, <2>3
<1> QED BY <1>0, <1>1, <1>3 DEF OrderInv

LEMMA OrderStep ==
  ASSUME TypeOK, Spawned, Blocked, TurnInv, Connection, Places, OneSocket, OrderInv, [Next]_vars
  PROVE  OrderInv'
<1> USE Bounds
<1>0. gens \in Nat /\ connected \in BOOLEAN BY DEF TypeOK, LifeType, SocketType
<1>1. CASE Spawns
  <2>1. PICK c \in Callers : Start(c) BY <1>1 DEF Spawns
  <2>2. gens' <= 1 => gens = 0 BY <2>1, StartFacts
  <2>3. gens = 0 => ~connected BY DEF Spawned
  <2>4. UNCHANGED connected /\ ~\E r \in Readers : Push(r)
    <3>1. gens' = gens + 1 BY <2>1 DEF Start
    <3>2. \A r \in Readers : Push(r) => gens' = gens BY DEF Push, life
    <3> QED BY <1>0, <2>1, <3>1, <3>2 DEF Start
  <2>5. UNCHANGED Offered BY <2>4, OfferedStep
  <2>6. gens = 0 => Offered' = <<>> BY <2>3, <2>5, NothingYet
  <2> QED BY <2>2, <2>3, <2>4, <2>6 DEF OrderInv
<1>2. ASSUME gens <= 1, ~Spawns PROVE OrderInv'
  <2>0. gens' = gens BY <1>2, Moves DEF Reads, Writes, Calls, Rests
  <2>1. CASE ~connected
    <3>1. \A r \in Readers : ~Push(r) BY <1>2, <2>1, NothingYet DEF Push, Step
    <3>2. Offered' = <<>> BY <1>2, <2>1, <3>1, NothingYet, OfferedStep
    <3>3. CASE ~connected' BY <3>2, <3>3 DEF OrderInv
    <3>4. CASE connected'
      <4>1. CASE Connects
        <5>1. PICK g \in Gens : ConnectWatches(g) BY <4>1 DEF Connects
        <5>2. pc' = [pc EXCEPT ![<<"connect", g>>] = "read"] BY <5>1 DEF ConnectWatches, Step
        <5>3. \A r \in Readers : pc'[r] # "push" BY <1>2, <2>1, <5>2, NothingYet DEF TypeOK, ReaderType
        <5>4. DOMAIN Offered' = {}
          <6>1. DOMAIN <<>> = {} OBVIOUS
          <6> QED BY <3>2, <6>1
        <5> QED BY <5>3, <5>4 DEF OrderInv
      <4> QED BY <1>2, <2>1, <3>4, <4>1, ConnectionFrame
    <3> QED BY <3>3, <3>4
  <2>2. CASE connected
    <3>1. ~Connects
      <4>1. \A g \in Gens : ConnectWatches(g) => pc[<<"connect", g>>] = "watch" BY DEF ConnectWatches, Step
      <4> QED BY <1>2, <2>2, <4>1 DEF Connects, Connection
    <3>2. connected' /\ client_socket' \in {client_socket, 0} BY <1>2, <2>2, <3>1, ConnectionFrame
    <3>3. \A s \in Sockets : Watched(s)' => Watched(s) BY <3>2, WatchFrame
    <3>4. CASE /\ UNCHANGED <<rcvbuf, chunks, chunk, first_read>>
               /\ \A r \in Readers : pc'[r] = "push" <=> pc[r] = "push"
      <4>1. CASE UNCHANGED Offered
        <5>1. \A g \in Gens : pc'[<<"epoll", g>>] = "push" => pc[<<"epoll", g>>] = "push" BY <3>4
        <5>2. /\ \A i, j \in DOMAIN Offered :
                   i < j /\ Offered[i] \notin first_read /\ Offered[j] \notin first_read => Offered[i] < Offered[j]
              /\ \A g \in Gens : pc[<<"epoll", g>>] = "push" =>
                   \A i \in DOMAIN Offered : Offered[i] \notin first_read => Offered[i] < chunk[<<"epoll", g>>]
          BY <1>2 DEF OrderInv
        <5>3. ASSUME NEW s \in Sockets, Watched(s)', NEW k \in DOMAIN rcvbuf[s]
              PROVE  /\ \A i \in DOMAIN Offered : Offered[i] \notin first_read => Offered[i] < rcvbuf[s][k]
                     /\ \A g \in Gens : pc[<<"epoll", g>>] = "push" => chunk[<<"epoll", g>>] < rcvbuf[s][k]
          BY <1>2, <2>2, <3>3, <5>3 DEF OrderInv
        <5>4. Offered' = Offered /\ chunk' = chunk /\ first_read' = first_read /\ rcvbuf' = rcvbuf BY <3>4, <4>1
        <5> QED BY <5>1, <5>2, <5>3, <5>4 DEF OrderInv
      <4>2. CASE \E r \in Readers : Push(r) BY <1>2, <4>2, OrderPush
      <4> QED BY <4>1, <4>2, OfferedStep
    <3> QED BY <1>2, <3>4, ChunkFrame, OrderPush, OrderTake, OrderArrive
  <2> QED BY <2>1, <2>2
<1>3. ASSUME gens > 1, ~Spawns PROVE OrderInv'
  BY <1>0, <1>3, Moves DEF Reads, Writes, Calls, Rests, OrderInv
<1> QED BY <1>0, <1>1, <1>2, <1>3

-------------------------------------------------------------------------------
(* The invariant *)

IInv == /\ TypeOK /\ Spawned /\ Blocked /\ TurnInv /\ Ready /\ OutQueue
        /\ Connection /\ SentInv /\ Places /\ OneSocket /\ OrderInv

LEMMA IInvInit == Init => IInv
<1> SUFFICES ASSUME Init PROVE IInv OBVIOUS
<1>1. TypeOK BY TypeInit
<1>2. /\ gens = 0 /\ ~connected /\ opened = 0 /\ inbound_q = <<>> /\ outbound_q = <<>> /\ queued = 0
      /\ handled = <<>> /\ sent = <<>> /\ read_mutex = 0 /\ crashed = "no" /\ first_read = {}
  BY DEF Init
<1>3. /\ \A r \in Readers : pc[r] = "none"
      /\ \A g \in Gens : callback_pc[g] = "none" /\ write_pc[g] = "none" /\ into[g] = 0
      /\ \A s \in Sockets : rcvbuf[s] = <<>>
  BY DEF Init
<1>4. Spawned /\ Blocked BY <1>2, <1>3, Bounds DEF Spawned, Blocked
<1>5. TurnInv /\ Ready BY <1>2, <1>3, Bounds DEF TurnInv, Ready
<1>6. Len(<<>>) = 0 /\ <<>> \o <<>> = <<>> /\ DOMAIN <<>> = {} OBVIOUS
<1>7. Popped = 0
  <2>1. Len(outbound_q) = 0 BY <1>2, <1>6, Zenon
  <2>2. queued - Len(outbound_q) = 0 - 0 BY <1>2, <2>1, Zenon
  <2>3. 0 - 0 = 0 OBVIOUS
  <2> QED BY <2>2, <2>3, Zenon DEF Popped
<1>8. OutQueue BY <1>2, <1>3, <1>6, <1>7 DEF OutQueue
<1>9. Connection BY <1>2, <1>3, Bounds DEF Connection
<1>10. SentInv BY <1>2, <1>3, <1>6, <1>7 DEF SentInv
<1>11. Offered = <<>>
  <2>1. ~Turn BY <1>3 DEF Turn
  <2>2. Pending = <<>> BY <1>2, <2>1 DEF Pending
  <2> QED BY <1>2, <1>6, <2>2, Zenon DEF Offered
<1>12. OneSocket BY <1>2, <1>11 DEF OneSocket
<1>13. DOMAIN Offered = {} /\ \A s \in Sockets : DOMAIN rcvbuf[s] = {} BY <1>3, <1>6, <1>11, Zenon
<1>14. Places
  <2>1. InOffered /\ InBuffers BY <1>13 DEF InOffered, InBuffers
  <2>2. InHands /\ FirstReads BY <1>2, <1>3, Bounds DEF InHands, FirstReads
  <2> QED BY <2>1, <2>2 DEF Places
<1>15. OrderInv BY <1>2, <1>13 DEF OrderInv
<1> QED BY <1>1, <1>4, <1>5, <1>8, <1>9, <1>10, <1>12, <1>14, <1>15 DEF IInv

LEMMA IInvStep == IInv /\ [Next]_vars => IInv'
<1> SUFFICES ASSUME IInv, [Next]_vars PROVE IInv' OBVIOUS
<1> USE DEF IInv
<1>1. TypeOK' /\ Spawned' /\ Blocked' /\ TurnInv' BY TypeStep, SpawnedStep, BlockedStep, TurnStep
<1>2. Ready' /\ OutQueue' BY ReadyStep, OutStep
<1>3. Connection' /\ SentInv' BY ConnectionStep, SentStep
<1>4. Places' /\ OneSocket' /\ OrderInv' BY PlacesStep, OneSocketStep, OrderStep
<1> QED BY <1>1, <1>2, <1>3, <1>4

LEMMA IInvHolds == Spec => []IInv
BY IInvInit, IInvStep, PTL DEF Spec

\* Every variable keeps its type: a recv() is blocked on a socket, and what a thread
\* takes from a queue or a buffer is there to be taken.
THEOREM ClientTypeCorrect == Spec => []TypeOK
BY IInvHolds, PTL DEF IInv

\* The server is sent a gap-free prefix of the messages as long as one write thread
\* runs, whatever send() and the application do: the first send() that fails closes
\* the one connection there ever is.
THEOREM ClientSentIsPrefix == Spec => []SentIsPrefix
<1>1. IInv => SentIsPrefix
  <2>1. ASSUME IInv PROVE DOMAIN sent = 1..Len(sent)
    BY <2>1, SequenceIsFunction DEF IInv, TypeOK, WriterType
  <2> QED BY <2>1 DEF IInv, SentInv, SentIsPrefix
<1> QED BY <1>1, IInvHolds, PTL

\* A chunk reaches the callback once, whichever threads of however many generations
\* read() and handle; with one generation, in the order the server sent it, but for
\* what the connect thread's own read() takes.
THEOREM ClientInOrderButFirst == Spec => []InOrderButFirst
<1>1. ASSUME IInv PROVE InOrderButFirst
  <2>1. /\ handled \in Seq(Chunks) /\ Pending \in Seq(Chunks)
        /\ DOMAIN Offered = 1..Len(Offered) /\ DOMAIN handled = 1..Len(handled)
    BY <1>1, OfferedType, SequenceIsFunction DEF IInv
  <2>2. /\ Len(Offered) = Len(handled) + Len(Pending) /\ Len(handled) \in Nat /\ Len(Pending) \in Nat
        /\ \A i \in 1..Len(handled) : Offered[i] = handled[i]
    BY <2>1, ConcatFacts DEF Offered
  <2>3. \A i \in DOMAIN handled : i \in DOMAIN Offered /\ Offered[i] = handled[i] BY <2>1, <2>2
  <2>4. \A i, j \in DOMAIN handled : i # j => handled[i] # handled[j]
    BY <1>1, <2>3 DEF IInv, Places, InOffered
  <2>5. gens <= 1 => \A i, j \in DOMAIN handled :
          i < j /\ {handled[i], handled[j]} \cap first_read = {} => handled[i] < handled[j]
    BY <1>1, <2>3 DEF IInv, OrderInv
  <2> QED BY <2>4, <2>5 DEF InOrderButFirst
<1> QED BY <1>1, IInvHolds, PTL

\* front() is never called on an empty queue before a second start(), although both
\* consumers test empty() without the mutex.
THEOREM ClientNoUnderflow == Spec => []OneStartNeverUnderflows
<1>1. IInv => OneStartNeverUnderflows
  BY DEF IInv, Ready, OneStartNeverUnderflows, TypeOK, LifeType
<1> QED BY <1>1, IInvHolds, PTL

-------------------------------------------------------------------------------
(* Sockets *)

\* Closing the member, or what is no socket, leaves nothing but the member open.
LEMMA LeakClose ==
  ASSUME TypeOK, LeakInv, UNCHANGED <<opened, client_socket>>,
         sock' = [s \in Sockets |-> IF s = client_socket THEN "closed" ELSE sock[s]]
  PROVE  /\ client_socket' <= opened'
         /\ opened' = 0 => \A s \in Sockets : sock'[s] = "none"
         /\ \A s \in Sockets : IsOpen(s)' => IsOpen(s) /\ s # client_socket
<1>1. opened = 0 => client_socket \notin Sockets BY Bounds DEF LeakInv, TypeOK, SocketType, Sockets
<1> QED BY <1>1 DEF LeakInv, IsOpen

LEMMA LeakCaller ==
  ASSUME TypeOK, Spawned, LeakInv, \A c, d \in Callers : c = d, NEW c \in Callers, Caller(c)
  PROVE  LeakInv'
<1> USE Bounds
<1>0. gens \in Nat /\ opened \in Nat /\ client_socket \in Int /\ DOMAIN caller_pc = Callers
  BY DEF TypeOK, LifeType, SocketType
<1>1. CASE Start(c)
  <2>1. UNCHANGED <<caller_pc, client_socket, connected, opened, sock>> /\ caller_pc[c] = "idle"
    BY <1>1 DEF Start, kernel
  <2>2. \A d \in Callers : caller_pc[d] = "idle" BY <2>1
  <2>3. gens' <= 1 => gens = 0 BY <1>1, StartFacts
  <2>4. gens = 0 => opened = 0 /\ \A s \in Sockets : sock[s] = "none" BY <1>0 DEF Spawned, LeakInv
  <2> QED BY <2>1, <2>2, <2>3, <2>4 DEF LeakInv, IsOpen
<1>2. CASE StopReturnsEarly(c) \/ StopEnter(c) \/ StopJoins(c) \/ StopReturns(c)
  <2>1. UNCHANGED <<client_socket, connected, opened, sock, gens, pc>>
    BY <1>2 DEF StopReturnsEarly, StopEnter, StopJoins, StopReturns, kernel, reader
  <2>2. \/ UNCHANGED caller_pc
        \/ \E p \in {"join", "idle"} : caller_pc' = [caller_pc EXCEPT ![c] = p]
        \/ caller_pc' = [caller_pc EXCEPT ![c] = "close"] /\ gens = 0
    BY <1>2 DEF StopReturnsEarly, StopEnter, StopJoins, StopReturns
  <2>3. \A d \in Callers : caller_pc'[d] \in {"close", "null", "rejoin"} => gens = 0
    BY <1>0, <2>2 DEF LeakInv
  <2> QED BY <2>1, <2>3 DEF LeakInv, IsOpen
<1>3. CASE StopCloses(c)
  <2>1. /\ UNCHANGED <<client_socket, connected, opened, gens, pc>> /\ caller_pc[c] = "close"
        /\ sock' = [s \in Sockets |-> IF s = client_socket THEN "closed" ELSE sock[s]]
        /\ caller_pc' = [caller_pc EXCEPT ![c] = "null"]
    BY <1>3 DEF StopCloses, Close, reader
  <2>2. gens = 0 BY <2>1 DEF LeakInv
  <2> QED BY <1>0, <2>1, <2>2, LeakClose DEF LeakInv
<1>4. CASE StopClears(c)
  <2>1. /\ UNCHANGED <<connected, opened, sock, gens, pc>> /\ caller_pc[c] = "null"
        /\ client_socket' = 0 /\ caller_pc' = [caller_pc EXCEPT ![c] = "rejoin"]
    BY <1>4 DEF StopClears, kernel, reader
  <2>2. gens = 0 BY <2>1 DEF LeakInv
  <2>3. opened = 0 /\ \A s \in Sockets : sock[s] = "none" BY <1>0, <2>2 DEF Spawned, LeakInv
  <2> QED BY <1>0, <2>1, <2>2, <2>3 DEF LeakInv, IsOpen
<1> QED BY <1>1, <1>2, <1>3, <1>4 DEF Caller

LEMMA LeakConnect ==
  ASSUME TypeOK, Spawned, Connection, LeakInv, NEW g \in Gens, ConnectThread(g)
  PROVE  LeakInv'
<1> USE Bounds
<1> DEFINE r == <<"connect", g>>
<1>0. /\ gens \in Nat /\ opened \in Nat /\ client_socket \in Int /\ DOMAIN pc = Readers /\ r \in Readers
      /\ DOMAIN sock = Sockets /\ opened \in 0..MaxTry /\ connected \in BOOLEAN
  <2>1. gens \in Nat /\ DOMAIN pc = Readers
    <3>1. gens \in 0..MaxStart /\ DOMAIN pc = Readers BY DEF TypeOK, LifeType, ReaderType
    <3> QED BY <3>1
  <2>3. r \in Readers OBVIOUS
  <2>2. /\ opened \in Nat /\ client_socket \in Int
        /\ DOMAIN sock = Sockets /\ opened \in 0..MaxTry /\ connected \in BOOLEAN
    BY DEF TypeOK, SocketType
  <2> QED BY <2>1, <2>2, <2>3
<1>1. UNCHANGED <<gens, caller_pc>>
  BY DEF ConnectThread, ConnectDone, ConnectOpens, ConnectOpenFails, ConnectBinds, ConnectGivesUp,
     ConnectCalls, ConnectSucceeds, ConnectNamesPeer, ConnectDrops, ConnectWatches, life
<1>2. pc[r] # "none" /\ \A q \in Readers : q # r => pc'[q] = pc[q]
  <2>1. \E here \in {"loop", "bind", "connect", "connecting", "peer", "watch"} : \E there : Step(r, here, there)
    BY DEF ConnectThread, ConnectDone, ConnectOpens, ConnectOpenFails, ConnectBinds, ConnectGivesUp,
       ConnectCalls, ConnectSucceeds, ConnectNamesPeer, ConnectDrops, ConnectWatches
  <2> QED BY <1>0, <2>1 DEF Step
<1>3. gens > 0 /\ (gens <= 1 => \A h \in Gens : h # g => pc'[<<"connect", h>>] = "none")
  BY <1>0, <1>2, OnlyOne
<1> HIDE DEF r
\* what is left to show of each step
<1>4. ASSUME client_socket' <= opened', opened' = 0 => \A s \in Sockets : sock'[s] = "none",
             gens <= 1 => /\ \A s \in Sockets : IsOpen(s)' => s = client_socket'
                          /\ ~connected' /\ pc'[r] = "loop" => \A s \in Sockets : ~IsOpen(s)'
      PROVE  LeakInv'
  <2>1. gens <= 1 /\ ~connected' => \A h \in Gens : pc'[<<"connect", h>>] = "loop" => \A s \in Sockets : ~IsOpen(s)'
    BY <1>3, <1>4 DEF r
  <2> QED BY <1>1, <1>4, <2>1 DEF LeakInv
<1>5. CASE ConnectDone(g) \/ ConnectCalls(g) \/ ConnectNamesPeer(g) \/ ConnectWatches(g)
  <2>1. UNCHANGED <<client_socket, opened, sock>>
    BY <1>5 DEF ConnectDone, ConnectCalls, ConnectNamesPeer, ConnectWatches, kernel
  <2>2. pc'[r] \in {"done", "connecting", "watch", "read"}
    BY <1>0, <1>5 DEF ConnectDone, ConnectCalls, ConnectNamesPeer, ConnectWatches, Step, r
  <2> QED BY <1>4, <2>1, <2>2 DEF LeakInv, IsOpen
<1>6. CASE ConnectOpens(g)
  <2>1. /\ pc[r] = "loop" /\ pc'[r] = "bind" /\ ~connected /\ opened' = opened + 1
        /\ client_socket' = opened + 1 /\ sock' = [sock EXCEPT ![opened + 1] = "open"]
    BY <1>0, <1>6 DEF ConnectOpens, Step, r
  <2>2. gens <= 1 => \A s \in Sockets : ~IsOpen(s) BY <2>1 DEF LeakInv, r
  <2>3. gens <= 1 => \A s \in Sockets : IsOpen(s)' => s = client_socket' BY <1>0, <2>1, <2>2 DEF IsOpen
  <2> QED BY <1>0, <1>4, <2>1, <2>3
<1>7. CASE ConnectOpenFails(g)
  <2>1. /\ pc[r] = "loop" /\ ~connected /\ UNCHANGED <<opened, sock, connected>> /\ client_socket' = -1
    BY <1>7 DEF ConnectOpenFails, Step, kernel, r
  <2>2. gens <= 1 => \A s \in Sockets : ~IsOpen(s) BY <2>1 DEF LeakInv, r
  <2> QED BY <1>0, <1>4, <2>1, <2>2 DEF LeakInv, IsOpen
<1>8. CASE ConnectBinds(g)
  <2>1. /\ pc'[r] = "connect" /\ UNCHANGED <<client_socket, opened>> /\ State(client_socket) = "open"
        /\ sock' = [sock EXCEPT ![client_socket] = "bound"]
    BY <1>0, <1>8 DEF ConnectBinds, Step, r
  <2>2. client_socket \in Sockets /\ sock[client_socket] = "open" BY <2>1 DEF State
  <2>3. opened # 0 BY <2>2 DEF LeakInv
  <2> QED BY <1>0, <1>4, <2>1, <2>2, <2>3 DEF LeakInv, IsOpen
<1>9. CASE ConnectGivesUp(g)
  <2>1. /\ client_socket' = -1 /\ UNCHANGED opened
        /\ sock' = [s \in Sockets |-> IF s = client_socket THEN "closed" ELSE sock[s]]
    BY <1>9 DEF ConnectGivesUp, Close
  <2>2. opened = 0 => client_socket \notin Sockets BY <1>0 DEF LeakInv, Sockets
  <2>3. gens <= 1 => \A s \in Sockets : ~IsOpen(s)' BY <2>1 DEF LeakInv, IsOpen
  <2> QED BY <1>0, <1>4, <2>1, <2>2, <2>3 DEF LeakInv
<1>10. CASE ConnectSucceeds(g)
  <2>1. /\ pc'[r] = "peer" /\ UNCHANGED <<client_socket, opened>>
        /\ sock' = [sock EXCEPT ![on[r]] = IF sock[on[r]] \in {"open", "bound"} THEN "up" ELSE sock[on[r]]]
    BY <1>0, <1>10 DEF ConnectSucceeds, Step, r
  <2>2. \A s \in Sockets : (IsOpen(s)' <=> IsOpen(s)) /\ (sock[s] = "none" => sock'[s] = "none")
    BY <1>0, <2>1 DEF IsOpen
  <2> QED BY <1>4, <2>1, <2>2 DEF LeakInv
<1>11. CASE ConnectDrops(g)
  <2>1. /\ UNCHANGED <<client_socket, opened>>
        /\ sock' = [s \in Sockets |-> IF s = client_socket THEN "closed" ELSE sock[s]]
    BY <1>11 DEF ConnectDrops, Close
  <2>2. gens <= 1 => \A s \in Sockets : ~IsOpen(s)' BY <2>1, LeakClose DEF LeakInv
  <2> QED BY <1>4, <2>1, <2>2, LeakClose
<1> QED BY <1>5, <1>6, <1>7, <1>8, <1>9, <1>10, <1>11 DEF ConnectThread

LEMMA LeakStep ==
  ASSUME TypeOK, Spawned, Connection, LeakInv, \A c, d \in Callers : c = d, [Next]_vars
  PROVE  LeakInv'
<1> USE Bounds
\* the other threads change no socket but to close the member, and start no connection
<1>1. ASSUME UNCHANGED <<gens, caller_pc, opened, client_socket, connected>>,
             UNCHANGED sock \/ sock' = [s \in Sockets |-> IF s = client_socket THEN "closed" ELSE sock[s]],
             connected \/ \A g \in Gens : pc'[<<"connect", g>>] = pc[<<"connect", g>>]
      PROVE  LeakInv'
  <2>1. CASE UNCHANGED sock BY <1>1, <2>1 DEF LeakInv, IsOpen
  <2>2. CASE sock' = [s \in Sockets |-> IF s = client_socket THEN "closed" ELSE sock[s]]
    BY <1>1, <2>2, LeakClose DEF LeakInv
  <2> QED BY <1>1, <2>1, <2>2
<1>2. ASSUME NEW g \in Gens, EpollThread(g) \/ EpollFails(g) PROVE LeakInv'
  <2>1. UNCHANGED <<gens, caller_pc, opened, client_socket, connected>>
    BY <1>2 DEF EpollThread, EpollWaits, EpollReturns, EpollFails, life, kernel
  <2>2. UNCHANGED sock \/ sock' = [s \in Sockets |-> IF s = client_socket THEN "closed" ELSE sock[s]]
    BY <1>2 DEF EpollThread, EpollWaits, EpollReturns, EpollFails, kernel
  <2>3. \A h \in Gens : pc'[<<"connect", h>>] = pc[<<"connect", h>>]
    BY <1>2 DEF EpollThread, EpollWaits, EpollReturns, EpollFails, Step, TypeOK, ReaderType
  <2> QED BY <1>1, <2>1, <2>2, <2>3
<1>3. ASSUME NEW r \in Readers, ReadSteps(r) PROVE LeakInv'
  <2>1. UNCHANGED <<gens, caller_pc, opened, client_socket, connected, sock>>
    BY <1>3 DEF ReadSteps, Recv, RecvRefused, RecvTakes, RecvEnds, Push, life, kernel
  <2>2. /\ pc[r] \in {"read", "recv", "push"} /\ \A q \in Readers : q # r => pc'[q] = pc[q]
    BY <1>3 DEF ReadSteps, Recv, RecvRefused, RecvTakes, RecvEnds, Push, Step, TypeOK, ReaderType
  <2>3. gens <= 1 => connected BY <2>2, ReaderFacts DEF Connection
  <2>4. CASE gens <= 1
    <3>1. connected BY <2>3, <2>4
    <3> QED BY <1>1, <2>1, <3>1
  <2>5. CASE ~(gens <= 1) BY <2>1, <2>5 DEF LeakInv
  <2> QED BY <2>4, <2>5
<1>4. ASSUME NEW g \in Gens, WriteThread(g) \/ WriteInterrupted(g) \/ WriteBlocks(g)
                                \/ CallbackThread(g) \/ CallbackStays(g) PROVE LeakInv'
  <2>1. UNCHANGED <<gens, caller_pc, opened, client_socket, connected, pc>>
    BY <1>4 DEF WriteThread, WriteChecks, WritePops, WriteSends, WriteSendFails, WriteSignalled, WriteInterrupted,
       WriteBlocks, CallbackStays, CallbackThread, CallbackChecks, CallbackLocks, CallbackCalls, CallbackPops, Close, life, kernel, reader
  <2>2. UNCHANGED sock \/ sock' = [s \in Sockets |-> IF s = client_socket THEN "closed" ELSE sock[s]]
    BY <1>4 DEF WriteThread, WriteChecks, WritePops, WriteSends, WriteSendFails, WriteSignalled, WriteInterrupted,
       WriteBlocks, CallbackStays, CallbackThread, CallbackChecks, CallbackLocks, CallbackCalls, CallbackPops, Close, kernel
  <2> QED BY <1>1, <2>1, <2>2
<1>5. ASSUME SendMessage \/ (\E s \in Sockets : ServerSends(s) \/ ServerLeaves(s)) \/ UNCHANGED vars
      PROVE  LeakInv'
  <2>1. UNCHANGED <<gens, caller_pc, opened, client_socket, connected, pc, sock>>
    BY <1>5 DEF SendMessage, ServerSends, ServerLeaves, vars, life, kernel, reader
  <2> QED BY <1>1, <2>1
<1> QED BY <1>2, <1>3, <1>4, <1>5, LeakCaller, LeakConnect DEF Next

LEMMA LeakInit == Init => LeakInv
<1> SUFFICES ASSUME Init PROVE LeakInv OBVIOUS
<1>1. /\ gens = 0 /\ opened = 0 /\ client_socket \in {0, -1} /\ caller_pc = [c \in Callers |-> "idle"]
      /\ sock = [s \in Sockets |-> "none"]
  BY DEF Init
<1> QED BY <1>1 DEF LeakInv, IsOpen

\* However bind(), connect(), getpeername() or epoll fail, one start() leaves no socket
\* open but the one _client_socket names, when one thread makes the calls.
THEOREM ClientNoSocketLeaks ==
  ASSUME \A c, d \in Callers : c = d
  PROVE  Spec => []NoSocketLeaks
<1>1. Init => LeakInv BY LeakInit
<1>2. IInv /\ LeakInv /\ [Next]_vars => LeakInv' BY LeakStep DEF IInv
<1>3. LeakInv => NoSocketLeaks BY DEF LeakInv, NoSocketLeaks, IsOpen
<1> QED BY <1>1, <1>2, <1>3, IInvHolds, PTL DEF Spec

-------------------------------------------------------------------------------
(* The inbound side, from on_read() on, implements MessagePipe *)

LEMMA TurnHolds ==
  ASSUME TypeOK, TurnInv
  PROVE  /\ \A g \in Gens : callback_pc[g] \in {"call", "pop"} => read_mutex = g /\ inbound_q # <<>>
         /\ read_mutex = 0 => ~Turn
         /\ \A g \in Gens : callback_pc[g] = "call" => ~Turn
         /\ \A g \in Gens, h \in Gens : callback_pc[g] = "pop" /\ callback_pc[h] = "pop" => g = h
BY Bounds DEF TurnInv, Turn

LEMMA InboundStutter ==
  ASSUME TypeOK, UNCHANGED <<inbound_q, handled>>,
         \A g \in Gens : callback_pc'[g] = "pop" <=> callback_pc[g] = "pop"
  PROVE  UNCHANGED Inbound!vars
<1>1. Turn' = Turn BY DEF Turn
<1> QED BY <1>1 DEF Inbound!vars

LEMMA InboundInit == Init => Inbound!Init
<1> SUFFICES ASSUME Init PROVE Inbound!Init OBVIOUS
<1>1. inbound_q = <<>> /\ handled = <<>> /\ ~Turn BY DEF Init, Turn
<1>2. <<>> \o <<>> = <<>> /\ Len(<<>>) = 0 OBVIOUS
<1>3. handled \o inbound_q = <<>> /\ Len(handled) = 0 BY <1>1, <1>2, Zenon
<1> QED BY <1>1, <1>3, Zenon DEF Inbound!Init

\* on_read() is an Offer, whichever thread calls it.
LEMMA InboundOffers ==
  ASSUME TypeOK, TurnInv, NEW r \in Readers, Push(r)
  PROVE  Inbound!Offer
<1>1. read_mutex = 0 /\ inbound_q' = Append(inbound_q, chunk[r]) /\ UNCHANGED <<handled, callback_pc>>
  BY DEF Push, user
<1>2. ~Turn /\ ~Turn' BY <1>1, TurnHolds DEF Turn
<1>3. chunk[r] \in Chunks BY DEF TypeOK, ReaderType, Push, Step, Chunks
<1>4. handled \o inbound_q' = Append(handled \o inbound_q, chunk[r])
  BY <1>1, <1>3, AppendsBehind DEF TypeOK, InType
<1> QED BY <1>1, <1>2, <1>3, <1>4 DEF Inbound!Offer

LEMMA InboundTakes ==
  ASSUME TypeOK, TurnInv, NEW g \in Gens, CallbackCalls(g)
  PROVE  Inbound!Take
<1>1. /\ ~Turn /\ inbound_q # <<>> /\ UNCHANGED inbound_q
      /\ handled' = Append(handled, Head(inbound_q)) /\ callback_pc' = [callback_pc EXCEPT ![g] = "pop"]
  BY TurnHolds DEF CallbackCalls
<1>2. Turn' BY <1>1 DEF TypeOK, InType, Turn
<1>3. handled \in Seq(Chunks) /\ inbound_q \in Seq(Chunks) BY DEF TypeOK, InType
<1>4. /\ handled' \o Tail(inbound_q) = handled \o inbound_q
      /\ (handled \o inbound_q)[Len(handled) + 1] = Head(inbound_q)
      /\ Len(handled) < Len(handled \o inbound_q)
  BY <1>1, <1>3, MovesOver
<1>5. Len(handled') = Len(handled) + 1
  <2>1. Head(inbound_q) \in Chunks BY <1>1, <1>3, HeadTail
  <2> QED BY <1>1, <1>3, <2>1, AppendFacts
<1> QED BY <1>1, <1>2, <1>4, <1>5 DEF Inbound!Take

LEMMA InboundFinishes ==
  ASSUME TypeOK, TurnInv, NEW g \in Gens, CallbackPops(g)
  PROVE  Inbound!Finish
<1>1. /\ Turn /\ inbound_q # <<>> /\ UNCHANGED handled
      /\ inbound_q' = Tail(inbound_q) /\ callback_pc' = [callback_pc EXCEPT ![g] = "check"]
      /\ callback_pc[g] = "pop"
  BY TurnHolds DEF CallbackPops, Turn
<1>2. ~Turn' BY <1>1, TurnHolds DEF TypeOK, InType, Turn
<1>3. Head(inbound_q) # 0
  <2>1. Head(inbound_q) \in Chunks BY <1>1, HeadTail DEF TypeOK, InType
  <2> QED BY <2>1 DEF Chunks
<1> QED BY <1>1, <1>2, <1>3 DEF Inbound!Finish

LEMMA InboundStep == IInv /\ [Next]_vars => [Inbound!Next]_(Inbound!vars)
<1> SUFFICES ASSUME IInv, [Next]_vars PROVE [Inbound!Next]_(Inbound!vars) OBVIOUS
<1>0. TypeOK /\ TurnInv /\ Spawned BY DEF IInv
<1>1. CASE Spawns
  <2>1. PICK c \in Callers : Start(c) BY <1>1 DEF Spawns
  <2>2. UNCHANGED <<inbound_q, handled>> BY <2>1 DEF Start
  <2>3. \A g \in Gens : callback_pc'[g] = "pop" <=> callback_pc[g] = "pop" BY <1>0, <2>1, StartFacts
  <2> QED BY <1>0, <2>2, <2>3, InboundStutter
<1>2. ASSUME NEW r \in Readers, Push(r) PROVE Inbound!Next
  BY <1>0, <1>2, InboundOffers DEF Inbound!Next
<1>3. ASSUME NEW g \in Gens, CallbackThread(g) PROVE [Inbound!Next]_(Inbound!vars)
  <2>1. CASE CallbackChecks(g) \/ CallbackLocks(g)
    <3>1. /\ UNCHANGED <<inbound_q, handled>>
          /\ \/ UNCHANGED callback_pc
             \/ /\ callback_pc[g] \in {"check", "lock"}
                /\ \E p \in {"lock", "call"} : callback_pc' = [callback_pc EXCEPT ![g] = p]
      BY <2>1 DEF CallbackChecks, CallbackLocks
    <3> QED BY <1>0, <3>1, InboundStutter DEF TypeOK, InType
  <2>2. CASE CallbackCalls(g) BY <1>0, <2>2, InboundTakes DEF Inbound!Next
  <2>3. CASE CallbackPops(g) BY <1>0, <2>3, InboundFinishes DEF Inbound!Next
  <2> QED BY <1>3, <2>1, <2>2, <2>3 DEF CallbackThread
<1>4. CASE UNCHANGED <<inbound_q, read_mutex, callback_pc, handled>> BY <1>0, <1>4, InboundStutter
<1> QED BY <1>1, <1>2, <1>3, <1>4, InFrame

\* From on_read() on, chunks are handled in the order they were queued, each in one
\* turn of a callback thread and one turn at a time, whichever threads receive them
\* and however often start() was called.
THEOREM ClientInboundRefines == Spec => InboundIsPipe
BY InboundInit, InboundStep, IInvHolds, PTL DEF Spec, InboundIsPipe, Inbound!Spec
===============================================================================
