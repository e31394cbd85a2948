--------------------------- MODULE UdpHandlerProofs ---------------------------
(***************************************************************************)
(* Theorems about UdpHandler for every value of its constants: any number  *)
(* of callers, destinations, generations of workers, messages, datagrams.  *)
(*                                                                         *)
(* The inductive invariant has one part per queue.  Outbound: the queue    *)
(* holds the accepted messages not yet popped, in order (OutQueue); the    *)
(* one thread that is sending holds the mutex and has the last popped      *)
(* message (Writing); what a destination was sent is what was popped       *)
(* (SentSoFar), and the destinations the message being sent still has to   *)
(* go to are those it is addressed to and did not reach yet (RoutedSoFar). *)
(* With a single generation, a consumer that saw a non-empty queue still   *)
(* finds it so (OutReady, InReady).                                        *)
(*                                                                         *)
(* Inbound: a datagram is in one receive buffer, in one thread's hand, or  *)
(* among what on_read() took (Places), which is what was handled and the   *)
(* queue behind the item whose turn it is.                                 *)
(***************************************************************************)
EXTENDS UdpHandler, QueueLemmas

Popped == Len(accepted) - Len(outbound_q)

OutQueue ==
  /\ Popped \in Nat
  /\ \A i \in 1..Len(outbound_q) : outbound_q[i] = Popped + i

Writing ==
  \A g \in Gens :
    /\ write_pc[g] = "send" <=> write_mutex = g
    /\ write_pc[g] = "send" => current[g] = Popped /\ current[g] \in 1..Len(accepted)

SentSoFar ==
  \A d \in Dests : \A i \in 1..Len(sent[d]) :
    /\ sent[d][i] <= Popped
    /\ \A g \in Gens : write_pc[g] = "send" /\ d \in todo[g] => sent[d][i] < Popped

Spawned ==
  \A g \in Gens : g > gens => callback_pc[g] = "none" /\ write_pc[g] = "none"

OutReady == gens <= 1 => \A g \in Gens : write_pc[g] = "lock" => outbound_q # <<>>

InReady ==
  /\ \A g \in Gens : callback_pc[g] \in {"call", "pop"} <=> read_mutex = g
  /\ \A g \in Gens : callback_pc[g] \in {"call", "pop"} => inbound_q # <<>>
  /\ gens <= 1 => \A g \in Gens : callback_pc[g] = "lock" => inbound_q # <<>>

Pending == IF Turn THEN Tail(inbound_q) ELSE inbound_q
Offered == handled \o Pending

\* The threads that call read(), and the datagram each is taking to on_read().
Readers == ({"start"} \X Callers) \cup ({"epoll"} \X Gens)
Hand == [r \in Readers |-> IF r[1] = "start" THEN caller_hand[r[2]] ELSE epoll_hand[r[2]]]

InOffered ==
  \A i \in DOMAIN Offered :
    /\ Offered[i] <= arrivals
    /\ \A j \in DOMAIN Offered : i # j => Offered[i] # Offered[j]
InBuffers ==
  \A s \in Sockets : \A i \in DOMAIN rcvbuf[s] :
    /\ rcvbuf[s][i] <= arrivals
    /\ \A j \in DOMAIN Offered : Offered[j] # rcvbuf[s][i]
    /\ \A j \in DOMAIN rcvbuf[s] : i < j => rcvbuf[s][i] < rcvbuf[s][j]
    /\ \A t \in Sockets : \A j \in DOMAIN rcvbuf[t] : s # t => rcvbuf[s][i] # rcvbuf[t][j]
InHands ==
  \A r \in Readers : Hand[r] # 0 =>
    /\ Hand[r] <= arrivals
    /\ \A i \in DOMAIN Offered : Offered[i] # Hand[r]
    /\ \A s \in Sockets : \A i \in DOMAIN rcvbuf[s] : rcvbuf[s][i] # Hand[r]
    /\ \A q \in Readers : q # r => Hand[q] # Hand[r]
Places == InOffered /\ InBuffers /\ InHands

\* The workers run with the destinations of the configuration; a message popped went
\* where it is addressed to, or goes there while its destinations are taken in turn.
Configured == (gens > 0 \/ \E c \in Callers : caller_pc[c] = "epoll") => dest_list = Dests
IdleWriters == \A g \in Gens : write_pc[g] # "send" => current[g] = 0
RoutedSoFar ==
  \A n \in 1..Popped : RouteKept(n) =>
    /\ (\A g \in Gens : current[g] # n) => Recipients(n) = Addressed(n)
    /\ \A g \in Gens : current[g] = n =>
         front_to[g] = accepted[n].to /\ Recipients(n) = Addressed(n) \ todo[g]

-------------------------------------------------------------------------------
\* Kernel-side steps that several actions share keep the types.
LEMMA CloseType ==
  ASSUME TypeOK, NEW s, Close(s)
  PROVE  /\ live' \in SUBSET Sockets /\ err' \in SUBSET Sockets
         /\ rcvbuf' \in [Sockets -> Seq(Datagrams)]
         /\ edge' \in [Gens -> BOOLEAN]
BY DEF TypeOK, KernelType, Close

LEMMA ReadableFacts ==
  ASSUME TypeOK, Readable
  PROVE  /\ udp_socket \in Sockets
         /\ Head(rcvbuf[udp_socket]) \in Datagrams
         /\ [rcvbuf EXCEPT ![udp_socket] = Tail(@)] \in [Sockets -> Seq(Datagrams)]
<1>1. udp_socket \in Sockets /\ rcvbuf[udp_socket] \in Seq(Datagrams)
  BY DEF TypeOK, LifeType, KernelType, Readable
<1>2. Head(rcvbuf[udp_socket]) \in Datagrams /\ Tail(rcvbuf[udp_socket]) \in Seq(Datagrams)
  BY <1>1, HeadTail DEF Readable
<1> QED BY <1>1, <1>2 DEF TypeOK, KernelType

-------------------------------------------------------------------------------
(* Types *)

LEMMA TypeStutter ==
  ASSUME TypeOK
  PROVE  /\ UNCHANGED life => LifeType'
         /\ UNCHANGED caller => CallerType'
         /\ UNCHANGED kernel => KernelType'
         /\ UNCHANGED epoll => EpollType'
         /\ UNCHANGED inq => InType'
         /\ UNCHANGED user => UserType'
         /\ UNCHANGED outq => OutType'
         /\ UNCHANGED writer => WriterType'
<1>1. UNCHANGED life => LifeType' BY DEF TypeOK, LifeType, life
<1>2. UNCHANGED caller => CallerType' BY DEF TypeOK, CallerType, caller
<1>3. UNCHANGED kernel => KernelType' BY DEF TypeOK, KernelType, kernel
<1>4. UNCHANGED epoll => EpollType' BY DEF TypeOK, EpollType, epoll
<1>5. UNCHANGED inq => InType' BY DEF TypeOK, InType, inq
<1>6. UNCHANGED user => UserType' BY DEF TypeOK, UserType, user
<1>7. UNCHANGED outq => OutType' BY DEF TypeOK, OutType, outq
<1>8. UNCHANGED writer => WriterType' BY DEF TypeOK, WriterType, writer
<1> QED BY <1>1, <1>2, <1>3, <1>4, <1>5, <1>6, <1>7, <1>8

LEMMA AcceptedType ==
  ASSUME TypeOK, NEW n \in 1..Len(accepted)
  PROVE  accepted[n].to \in Int /\ accepted[n].overlay \in Int
<1>1. accepted[n] \in [to : Addressees, overlay : Words]
  BY ElementType DEF TypeOK, OutType
<1> QED BY <1>1, DestsAssumption DEF Words

\* What the heads and tails of the two queues are.
LEMMA QueueFacts ==
  ASSUME TypeOK, OutQueue
  PROVE  /\ inbound_q # <<>> => Head(inbound_q) \in Datagrams /\ Tail(inbound_q) \in Seq(Datagrams)
         /\ outbound_q # <<>> =>
              /\ Head(outbound_q) \in Messages /\ Tail(outbound_q) \in Seq(Messages)
              /\ Head(outbound_q) = Popped + 1 /\ Head(outbound_q) \in 1..Len(accepted)
              /\ accepted[Head(outbound_q)].to \in Int
<1>1. inbound_q # <<>> => Head(inbound_q) \in Datagrams /\ Tail(inbound_q) \in Seq(Datagrams)
  BY HeadTail DEF TypeOK, InType
<1>2. ASSUME outbound_q # <<>>
      PROVE  /\ Head(outbound_q) \in Messages /\ Tail(outbound_q) \in Seq(Messages)
             /\ Head(outbound_q) = Popped + 1 /\ Head(outbound_q) \in 1..Len(accepted)
  <2>1. Head(outbound_q) = outbound_q[1] /\ 1 \in 1..Len(outbound_q)
    BY <1>2, HeadTail DEF TypeOK, OutType
  <2> QED BY <1>2, <2>1, HeadTail DEF TypeOK, OutType, OutQueue, Popped
<1> QED BY <1>1, <1>2, AcceptedType

LEMMA TypeInit == Init => TypeOK
<1> SUFFICES ASSUME Init PROVE TypeOK OBVIOUS
<1> USE CountsAssumption DEF Init
<1>1. LifeType
  <2>1. 0 \in 0..MaxStart BY CountsAssumption DEF CountsAssumption
  <2>2. dest_list \in SUBSET Dests OBVIOUS
  <2> QED BY <2>1, <2>2 DEF LifeType
<1>5. CallerType
  <2>1. \A c \in Callers : caller_pc[c] = "idle" /\ caller_hand[c] = 0 OBVIOUS
  <2> QED BY <2>1 DEF CallerType
<1>2. KernelType /\ EpollType BY DEF KernelType, EpollType
<1>3. UserType /\ WriterType BY DEF UserType, WriterType
<1>4. InType /\ OutType BY DEF InType, OutType
<1> QED BY <1>1, <1>2, <1>3, <1>4, <1>5 DEF TypeOK

LEMMA TypeStep ==
  ASSUME TypeOK, OutQueue, Writing, InReady, [Next]_vars
  PROVE  TypeOK'
<1> USE CountsAssumption
<1>1. ASSUME NEW c \in Callers, Caller(c) PROVE TypeOK'
  <2>1. CASE StartEnter(c)
    <3>1. CallerType' BY <2>1 DEF TypeOK, CallerType, StartEnter
    <3> QED BY <2>1, <3>1, TypeStutter DEF TypeOK, StartEnter
  <2>2. CASE StartOpens(c)
    <3>1. LifeType' BY <2>2 DEF TypeOK, LifeType, StartOpens, Sockets, Gens
    <3>2. CallerType' BY <2>2 DEF TypeOK, CallerType, LifeType, StartOpens
    <3>3. KernelType' BY <2>2 DEF TypeOK, KernelType, LifeType, StartOpens, Sockets, Gens
    <3> QED BY <2>2, <3>1, <3>2, <3>3, TypeStutter DEF TypeOK, StartOpens
  <2>3. CASE StartOpenFails(c)
    <3>1. LifeType' BY <2>3 DEF TypeOK, LifeType, StartOpenFails, Sockets, Gens
    <3>2. CallerType' BY <2>3 DEF TypeOK, CallerType, LifeType, StartOpenFails
    <3>3. live' \in SUBSET Sockets
      <4>1. live' = live \/ live' = live \cup {attempts + 1} BY <2>3 DEF StartOpenFails
      <4>2. attempts + 1 \in Sockets BY <2>3 DEF TypeOK, LifeType, StartOpenFails, Sockets
      <4> QED BY <4>1, <4>2 DEF TypeOK, KernelType
    <3>4. KernelType' BY <2>3, <3>3 DEF TypeOK, KernelType, StartOpenFails
    <3> QED BY <2>3, <3>1, <3>2, <3>4, TypeStutter DEF TypeOK, StartOpenFails
  <2>4. CASE StartWorkers(c)
    <3>1. LifeType' BY <2>4 DEF TypeOK, LifeType, StartWorkers, Sockets, Gens
    <3>2. CallerType' BY <2>4 DEF TypeOK, CallerType, LifeType, StartWorkers
    <3>3. KernelType' BY <2>4 DEF TypeOK, KernelType, LifeType, StartWorkers, Sockets, Gens
    <3>4. EpollType' BY <2>4 DEF TypeOK, EpollType, LifeType, StartWorkers, Gens
    <3>5. UserType' BY <2>4 DEF TypeOK, UserType, LifeType, StartWorkers, Gens
    <3>6. WriterType' BY <2>4 DEF TypeOK, WriterType, LifeType, StartWorkers, Gens
    <3> QED BY <2>4, <3>1, <3>2, <3>3, <3>4, <3>5, <3>6, TypeStutter DEF TypeOK, StartWorkers
  <2>5. CASE StartEpollFails(c)
    <3>1. LifeType' BY <2>5 DEF TypeOK, LifeType, StartEpollFails, Sockets, Gens
    <3>2. CallerType' BY <2>5 DEF TypeOK, CallerType, StartEpollFails
    <3>3. KernelType' BY <2>5, CloseType DEF TypeOK, KernelType, StartEpollFails
    <3> QED BY <2>5, <3>1, <3>2, <3>3, TypeStutter DEF TypeOK, StartEpollFails
  <2>6. CASE StarterRecv(c)
    <3>1. CallerType' BY <2>6, ReadableFacts DEF TypeOK, CallerType, StarterRecv, Receives, Datagrams
    <3>2. KernelType' BY <2>6, ReadableFacts DEF TypeOK, KernelType, StarterRecv, Receives
    <3> QED BY <2>6, <3>1, <3>2, TypeStutter DEF TypeOK, StarterRecv
  <2>7. CASE StarterRecvNothing(c)
    <3>1. CallerType' BY <2>7 DEF TypeOK, CallerType, StarterRecvNothing
    <3>2. KernelType' BY <2>7 DEF TypeOK, KernelType, StarterRecvNothing
    <3> QED BY <2>7, <3>1, <3>2, TypeStutter DEF TypeOK, StarterRecvNothing
  <2>8. CASE StarterPush(c)
    <3>1. CallerType' BY <2>8 DEF TypeOK, CallerType, StarterPush, Datagrams
    <3>2. InType' BY <2>8 DEF TypeOK, InType, CallerType, StarterPush, Datagrams
    <3> QED BY <2>8, <3>1, <3>2, TypeStutter DEF TypeOK, StarterPush
  <2>9. CASE RegisterBegin(c)
    <3>1. CallerType' BY <2>9 DEF TypeOK, CallerType, RegisterBegin
    <3>2. UserType' BY <2>9 DEF TypeOK, UserType, RegisterBegin
    <3> QED BY <2>9, <3>1, <3>2, TypeStutter DEF TypeOK, RegisterBegin
  <2>10. CASE RegisterEnd(c)
    <3>1. CallerType' BY <2>10 DEF TypeOK, CallerType, RegisterEnd
    <3>2. UserType' BY <2>10 DEF TypeOK, UserType, RegisterEnd
    <3> QED BY <2>10, <3>1, <3>2, TypeStutter DEF TypeOK, RegisterEnd
  <2>11. CASE StopEnter(c)
    <3>1. LifeType' BY <2>11 DEF TypeOK, LifeType, StopEnter, Sockets, Gens
    <3>2. CallerType' BY <2>11 DEF TypeOK, CallerType, StopEnter
    <3> QED BY <2>11, <3>1, <3>2, TypeStutter DEF TypeOK, StopEnter
  <2>12. CASE StopJoins(c)
    <3>1. CallerType' BY <2>12 DEF TypeOK, CallerType, StopJoins
    <3> QED BY <2>12, <3>1, TypeStutter DEF TypeOK, StopJoins
  <2>13. CASE StopReturns(c)
    <3>1. CallerType' BY <2>13 DEF TypeOK, CallerType, StopReturns
    <3>2. KernelType' BY <2>13, CloseType DEF TypeOK, KernelType, StopReturns
    <3> QED BY <2>13, <3>1, <3>2, TypeStutter DEF TypeOK, StopReturns
  <2> QED BY <1>1, <2>1, <2>2, <2>3, <2>4, <2>5, <2>6, <2>7, <2>8, <2>9, <2>10, <2>11, <2>12, <2>13
       DEF Caller
<1>2. ASSUME NEW g \in Gens, EpollThread(g) PROVE TypeOK'
  <2>1. CASE EpollReturns(g)
    <3>1. KernelType' BY <2>1 DEF TypeOK, KernelType, EpollReturns, Gens
    <3>2. EpollType' BY <2>1 DEF TypeOK, EpollType, EpollReturns, Gens
    <3> QED BY <2>1, <3>1, <3>2, TypeStutter DEF TypeOK, EpollReturns
  <2>2. CASE EpollFails(g)
    <3>1. LifeType' BY <2>2 DEF TypeOK, LifeType, EpollFails, Sockets, Gens
    <3>2. KernelType' BY <2>2, CloseType DEF TypeOK, KernelType, EpollFails
    <3>3. EpollType' BY <2>2 DEF TypeOK, EpollType, EpollFails
    <3> QED BY <2>2, <3>1, <3>2, <3>3, TypeStutter DEF TypeOK, EpollFails
  <2>3. CASE EpollRecv(g)
    <3>1. KernelType' BY <2>3, ReadableFacts DEF TypeOK, KernelType, EpollRecv, Receives
    <3>2. EpollType' BY <2>3, ReadableFacts DEF TypeOK, EpollType, EpollRecv, Receives, Datagrams
    <3> QED BY <2>3, <3>1, <3>2, TypeStutter DEF TypeOK, EpollRecv
  <2>4. CASE EpollRecvNothing(g)
    <3>1. EpollType' BY <2>4 DEF TypeOK, EpollType, LifeType, EpollRecvNothing
    <3>2. KernelType' BY <2>4 DEF TypeOK, KernelType, EpollRecvNothing
    <3> QED BY <2>4, <3>1, <3>2, TypeStutter DEF TypeOK, EpollRecvNothing
  <2>5. CASE EpollPush(g)
    <3>1. EpollType' BY <2>5 DEF TypeOK, EpollType, LifeType, EpollPush, Datagrams
    <3>2. InType' BY <2>5 DEF TypeOK, InType, EpollType, EpollPush, Datagrams
    <3> QED BY <2>5, <3>1, <3>2, TypeStutter DEF TypeOK, EpollPush
  <2> QED BY <1>2, <2>1, <2>2, <2>3, <2>4, <2>5 DEF EpollThread
<1>3. ASSUME NEW g \in Gens, CallbackThread(g) PROVE TypeOK'
  <2>1. CASE CallbackCheck(g)
    <3>1. UserType' BY <2>1 DEF TypeOK, UserType, CallbackCheck
    <3> QED BY <2>1, <3>1, TypeStutter DEF TypeOK, CallbackCheck
  <2>2. CASE CallbackLock(g)
    <3>1. InType' BY <2>2 DEF TypeOK, InType, CallbackLock, Gens
    <3>2. UserType' BY <2>2 DEF TypeOK, UserType, CallbackLock
    <3> QED BY <2>2, <3>1, <3>2, TypeStutter DEF TypeOK, CallbackLock
  <2>3. CASE CallbackCalls(g)
    <3>1. UserType' BY <2>3, QueueFacts DEF TypeOK, UserType, InReady, CallbackCalls
    <3> QED BY <2>3, <3>1, TypeStutter DEF TypeOK, CallbackCalls
  <2>4. CASE CallbackCallsHalf(g)
    <3> QED BY <2>4, TypeStutter DEF TypeOK, CallbackCallsHalf
  <2>5. CASE CallbackPops(g)
    <3>1. InType' BY <2>5, QueueFacts DEF TypeOK, InType, InReady, CallbackPops
    <3>2. UserType' BY <2>5, QueueFacts DEF TypeOK, UserType, CallbackPops
    <3> QED BY <2>5, <3>1, <3>2, TypeStutter DEF TypeOK, CallbackPops
  <2> QED BY <1>3, <2>1, <2>2, <2>3, <2>4, <2>5 DEF CallbackThread
<1>4. ASSUME NEW g \in Gens, WriteThread(g) PROVE TypeOK'
  <2>1. CASE WriteCheck(g)
    <3>1. WriterType' BY <2>1 DEF TypeOK, WriterType, WriteCheck
    <3> QED BY <2>1, <3>1, TypeStutter DEF TypeOK, WriteCheck
  <2>2. CASE WritePop(g)
    <3>1. OutType'
      <4>1. outbound_q' = outbound_q \/ (outbound_q # <<>> /\ outbound_q' = Tail(outbound_q))
        BY <2>2 DEF WritePop
      <4>2. outbound_q' \in Seq(Messages) BY <4>1, QueueFacts DEF TypeOK, OutType
      <4>3. write_mutex' \in 0..MaxStart /\ UNCHANGED accepted
        BY <2>2 DEF TypeOK, OutType, WritePop, Gens
      <4> QED BY <4>2, <4>3 DEF TypeOK, OutType
    <3>2. CASE outbound_q = <<>> BY <2>2, <3>2, <3>1, TypeStutter DEF TypeOK, WriterType, WritePop
    <3>3. CASE outbound_q # <<>>
      <4>1. Head(outbound_q) \in 0..MaxSend /\ accepted[Head(outbound_q)].to \in Int
        BY <3>3, QueueFacts DEF Messages
      <4>2. WriterType' BY <2>2, <3>3, <4>1 DEF TypeOK, LifeType, WriterType, WritePop
      <4> QED BY <2>2, <3>1, <4>2, TypeStutter DEF TypeOK, WritePop
    <3> QED BY <3>2, <3>3
  <2>3. ASSUME NEW d \in Dests, WriteSend(g, d) PROVE TypeOK'
    <3>1. current[g] \in Messages /\ accepted[current[g]].overlay \in Int
      BY <2>3, AcceptedType DEF TypeOK, WriterType, Writing, WriteSend, Messages
    <3>2. Append(sent[d], current[g]) \in Seq(Messages) BY <3>1 DEF TypeOK, WriterType
    <3>3. WriterType' BY <2>3, <3>1, <3>2 DEF TypeOK, WriterType, WriteSend
    <3>4. KernelType' BY <2>3 DEF TypeOK, KernelType, WriteSend
    <3> QED BY <2>3, <3>3, <3>4, TypeStutter DEF TypeOK, WriteSend
  <2>4. CASE WriteDone(g)
    <3>1. OutType' BY <2>4 DEF TypeOK, OutType, WriteDone, Gens
    <3>2. WriterType' BY <2>4 DEF TypeOK, WriterType, WriteDone
    <3> QED BY <2>4, <3>1, <3>2, TypeStutter DEF TypeOK, WriteDone
  <2> QED BY <1>4, <2>1, <2>2, <2>3, <2>4 DEF WriteThread
<1>5. ASSUME NEW to \in Addressees, NEW overlay \in Overlays \cup {to}, SendMessage(to, overlay)
      PROVE TypeOK'
  <2>1. OutType' BY <1>5 DEF TypeOK, OutType, SendMessage, Words, Messages
  <2> QED BY <1>5, <2>1, TypeStutter DEF TypeOK, SendMessage
<1>6. ASSUME NEW s \in Sockets, Arrive(s) PROVE TypeOK'
  <2>1. KernelType' BY <1>6 DEF TypeOK, KernelType, Arrive, Datagrams
  <2> QED BY <1>6, <2>1, TypeStutter DEF TypeOK, Arrive
<1>7. CASE UNCHANGED vars BY <1>7, TypeStutter DEF TypeOK, vars
<1>8. ASSUME NEW s \in Sockets, IcmpError(s) PROVE TypeOK'
  <2>1. KernelType' BY <1>8 DEF TypeOK, KernelType, IcmpError
  <2> QED BY <1>8, <2>1, TypeStutter DEF TypeOK, IcmpError
<1>9. ASSUME NEW g \in Gens, CallbackStays(g) PROVE TypeOK'
  <2>1. LifeType' BY <1>9 DEF TypeOK, LifeType, CallbackStays
  <2>2. UserType' BY <1>9 DEF TypeOK, UserType, CallbackStays
  <2> QED BY <1>9, <2>1, <2>2, TypeStutter DEF TypeOK, CallbackStays
<1> QED BY <1>1, <1>2, <1>3, <1>4, <1>5, <1>6, <1>7, <1>8, <1>9 DEF Next

-------------------------------------------------------------------------------
(* The outbound queue and the destinations *)

OutInv == OutQueue /\ Writing /\ SentSoFar /\ SentInOrder

LEMMA OutInit == Init => OutInv
BY DEF Init, OutInv, OutQueue, Writing, SentSoFar, SentInOrder, Popped, Gens

LEMMA OutFrame == OutInv /\ UNCHANGED <<outq, writer>> => OutInv'
BY DEF OutInv, OutQueue, Writing, SentSoFar, SentInOrder, Popped, outq, writer

\* At most one thread is sending: it holds the mutex.
LEMMA OneSender ==
  ASSUME Writing, NEW g \in Gens, NEW h \in Gens, write_pc[g] = "send", write_pc[h] = "send"
  PROVE  g = h
BY DEF Writing

LEMMA OutSpawn ==
  ASSUME TypeOK, OutInv, Spawned, NEW c \in Callers, StartWorkers(c)
  PROVE  OutInv'
<1>1. gens + 1 \in Gens /\ write_pc[gens + 1] = "none"
  <2>1. gens + 1 \in Gens /\ gens + 1 > gens
    BY CountsAssumption DEF TypeOK, LifeType, StartWorkers, Gens
  <2> QED BY <2>1 DEF Spawned
<1>2. \A g \in Gens : write_pc'[g] = "send" <=> write_pc[g] = "send"
  BY <1>1 DEF TypeOK, WriterType, StartWorkers
<1>3. UNCHANGED <<outq, current, todo, sent>> BY DEF StartWorkers
<1> QED BY <1>2, <1>3 DEF OutInv, OutQueue, Writing, SentSoFar, SentInOrder, Popped, outq

LEMMA OutSend ==
  ASSUME TypeOK, OutInv, NEW to \in Addressees, NEW overlay \in Overlays \cup {to},
         SendMessage(to, overlay)
  PROVE  OutInv'
<1>1. UNCHANGED <<writer, write_mutex>> BY DEF SendMessage
<1>2. /\ Len(accepted') = Len(accepted) + 1
      /\ Len(outbound_q') = Len(outbound_q) + 1
      /\ \A i \in 1..Len(outbound_q) : outbound_q'[i] = outbound_q[i]
      /\ outbound_q'[Len(outbound_q) + 1] = Len(accepted) + 1
  BY DEF TypeOK, OutType, SendMessage
<1>3. Len(accepted) \in Nat /\ Len(outbound_q) \in Nat BY DEF TypeOK, OutType
<1>4. Popped' = Popped BY <1>2, <1>3 DEF Popped
<1>5. OutQueue' BY <1>2, <1>3, <1>4 DEF OutInv, OutQueue, Popped
<1>6. Writing' BY <1>1, <1>2, <1>3, <1>4 DEF OutInv, Writing, writer
<1>7. SentSoFar' /\ SentInOrder' BY <1>1, <1>4 DEF OutInv, SentSoFar, SentInOrder, writer
<1> QED BY <1>5, <1>6, <1>7 DEF OutInv

LEMMA OutWriteCheck ==
  ASSUME TypeOK, OutInv, NEW g \in Gens, WriteCheck(g)
  PROVE  OutInv'
<1>1. UNCHANGED <<outq, current, todo, sent>> BY DEF WriteCheck
<1>2. \A h \in Gens : write_pc'[h] = "send" <=> write_pc[h] = "send"
  BY DEF TypeOK, WriterType, WriteCheck
<1> QED BY <1>1, <1>2 DEF OutInv, OutQueue, Writing, SentSoFar, SentInOrder, Popped, outq

LEMMA OutWritePop ==
  ASSUME TypeOK, OutInv, NEW g \in Gens, WritePop(g)
  PROVE  OutInv'
<1>1. CASE outbound_q = <<>>
  <2>1. UNCHANGED <<outq, writer>> BY <1>1 DEF WritePop, outq, writer
  <2> QED BY <2>1, OutFrame
<1>2. CASE outbound_q # <<>>
  <2>1. /\ write_mutex = 0 /\ write_mutex' = g /\ UNCHANGED <<accepted, sent>>
        /\ write_pc' = [write_pc EXCEPT ![g] = "send"]
        /\ current' = [current EXCEPT ![g] = Head(outbound_q)]
        /\ outbound_q' = Tail(outbound_q)
    BY <1>2 DEF WritePop
  <2>2. Head(outbound_q) = Popped + 1 /\ Head(outbound_q) \in 1..Len(accepted)
    BY <1>2, QueueFacts DEF OutInv
  <2>3. /\ Len(outbound_q') = Len(outbound_q) - 1 /\ Len(outbound_q') \in Nat
        /\ \A i \in 1..Len(outbound_q') : outbound_q'[i] = outbound_q[i + 1]
    BY <1>2, <2>1, HeadTail DEF TypeOK, OutType
  <2>4. Len(accepted) \in Nat /\ Len(outbound_q) \in Nat BY DEF TypeOK, OutType
  <2>5. Popped' = Popped + 1 /\ Popped \in Nat
    <3>1. Popped \in Nat BY DEF OutInv, OutQueue
    <3>2. accepted' = accepted /\ Len(outbound_q') = Len(outbound_q) - 1 BY <2>1, <2>3
    <3> QED BY <2>4, <3>1, <3>2 DEF Popped
  <2>6. OutQueue' BY <2>3, <2>4, <2>5 DEF OutInv, OutQueue
  <2>7. \A h \in Gens : write_pc[h] # "send" BY <2>1 DEF OutInv, Writing, Gens
  <2>8. \A h \in Gens : write_pc'[h] = "send" <=> h = g
    BY <2>1, <2>7 DEF TypeOK, WriterType
  <2>9. current'[g] = Popped' /\ current'[g] \in 1..Len(accepted')
    BY <2>1, <2>2, <2>5 DEF TypeOK, WriterType
  <2>10. Writing' BY <2>1, <2>8, <2>9 DEF Writing
  <2>11. \A d \in Dests : \A i \in 1..Len(sent[d]) : sent[d][i] \in Nat
    <3> SUFFICES ASSUME NEW d \in Dests, NEW i \in 1..Len(sent[d]) PROVE sent[d][i] \in Nat
      OBVIOUS
    <3>1. sent[d][i] \in Messages BY ElementType DEF TypeOK, WriterType
    <3> QED BY <3>1, CountsAssumption DEF Messages
  <2>12. SentSoFar' BY <2>1, <2>5, <2>11 DEF OutInv, SentSoFar
  <2>13. SentInOrder' BY <2>1 DEF OutInv, SentInOrder
  <2> QED BY <2>6, <2>10, <2>12, <2>13 DEF OutInv
<1> QED BY <1>1, <1>2

LEMMA OutWriteSend ==
  ASSUME TypeOK, OutInv, NEW g \in Gens, NEW d \in Dests, WriteSend(g, d)
  PROVE  OutInv'
<1>1. /\ UNCHANGED <<outq, write_pc, current>>
      /\ todo' = [todo EXCEPT ![g] = @ \ {d}] /\ d \in todo[g]
      /\ write_pc[g] = "send"
      /\ UNCHANGED sent \/ sent' = [sent EXCEPT ![d] = Append(@, current[g])]
  BY DEF WriteSend
<1>2. OutQueue' /\ Writing' /\ UNCHANGED Popped
  BY <1>1 DEF OutInv, OutQueue, Writing, Popped, outq
<1>3. current[g] = Popped /\ current[g] \in Messages
  BY <1>1 DEF OutInv, Writing, TypeOK, WriterType, Messages
<1>4. \A e \in Dests : \A h \in Gens : write_pc[h] = "send" /\ e \in todo'[h] => h = g /\ e \in todo[g] /\ e # d
  BY <1>1, OneSender DEF OutInv, TypeOK, WriterType
<1>5. CASE UNCHANGED sent
  <2>1. SentSoFar' BY <1>1, <1>2, <1>4, <1>5 DEF OutInv, SentSoFar
  <2> QED BY <1>2, <1>5, <2>1 DEF OutInv, SentInOrder
<1>6. CASE sent' = [sent EXCEPT ![d] = Append(@, current[g])]
  <2>1. /\ Len(sent'[d]) = Len(sent[d]) + 1 /\ Len(sent[d]) \in Nat
        /\ \A i \in 1..Len(sent[d]) : sent'[d][i] = sent[d][i]
        /\ sent'[d][Len(sent[d]) + 1] = Popped
        /\ \A e \in Dests : e # d => sent'[e] = sent[e]
    BY <1>3, <1>6, AppendFacts DEF TypeOK, WriterType
  <2>2. \A i \in 1..Len(sent[d]) : sent[d][i] < Popped
    BY <1>1 DEF OutInv, SentSoFar
  <2>3. Popped \in Nat BY DEF OutInv, OutQueue
  <2>4. \A i \in 1..Len(sent'[d]) : sent'[d][i] <= Popped
    BY <2>1, <2>2, <2>3, ElementType DEF OutInv, SentSoFar
  <2>5. SentSoFar'
    <3>1. \A i \in 1..Len(sent'[d]) : sent'[d][i] <= Popped' BY <1>2, <2>4
    <3>2. \A e \in Dests : e # d => \A i \in 1..Len(sent'[e]) :
            /\ sent'[e][i] <= Popped'
            /\ \A h \in Gens : write_pc'[h] = "send" /\ e \in todo'[h] => sent'[e][i] < Popped'
      BY <1>1, <1>2, <1>4, <2>1 DEF OutInv, SentSoFar
    <3>3. \A h \in Gens : ~(write_pc'[h] = "send" /\ d \in todo'[h]) BY <1>1, <1>4
    <3> QED BY <3>1, <3>2, <3>3 DEF SentSoFar
  <2>6. SentInOrder'
    <3> SUFFICES ASSUME NEW e \in Dests, NEW i \in DOMAIN sent'[e], NEW j \in DOMAIN sent'[e], i < j
                 PROVE  sent'[e][i] < sent'[e][j]
      BY DEF SentInOrder
    <3>1. CASE e # d BY <2>1, <3>1 DEF OutInv, SentInOrder
    <3>2. CASE e = d
      <4>1. sent[d] \in Seq(Messages) /\ sent'[d] \in Seq(Messages)
        BY <1>3, <1>6, AppendFacts DEF TypeOK, WriterType
      <4>2. i \in 1..Len(sent[d]) + 1 /\ j \in 1..Len(sent[d]) + 1 BY <2>1, <3>2, <4>1
      <4>3. CASE j = Len(sent[d]) + 1
        <5>1. i \in 1..Len(sent[d]) BY <2>1, <4>2, <4>3
        <5> QED BY <2>1, <2>2, <3>2, <4>3, <5>1
      <4>4. CASE j # Len(sent[d]) + 1
        <5>1. i \in DOMAIN sent[d] /\ j \in DOMAIN sent[d] BY <2>1, <4>1, <4>2, <4>4
        <5>2. sent[d][i] < sent[d][j] BY <5>1 DEF OutInv, SentInOrder
        <5> QED BY <2>1, <3>2, <4>1, <5>1, <5>2
      <4> QED BY <4>3, <4>4
    <3> QED BY <3>1, <3>2
  <2> QED BY <1>2, <2>5, <2>6 DEF OutInv
<1> QED BY <1>1, <1>5, <1>6

LEMMA OutWriteDone ==
  ASSUME TypeOK, OutInv, NEW g \in Gens, WriteDone(g)
  PROVE  OutInv'
<1>1. /\ UNCHANGED <<outbound_q, accepted, todo, sent>> /\ write_mutex' = 0
      /\ write_pc' = [write_pc EXCEPT ![g] = "check"] /\ write_pc[g] = "send"
  BY DEF WriteDone
<1>2. UNCHANGED Popped BY <1>1 DEF Popped
<1>3. \A h \in Gens : write_pc'[h] # "send"
  BY <1>1, OneSender DEF OutInv, TypeOK, WriterType
<1>4. Writing' BY <1>1, <1>3 DEF Writing, Gens
<1> QED BY <1>1, <1>2, <1>3, <1>4 DEF OutInv, OutQueue, SentSoFar, SentInOrder

-------------------------------------------------------------------------------
(* Both queues, as the consumers see them *)

ReadyInv == Spawned /\ OutReady /\ InReady /\ OneGenerationNeverUnderflows

LEMMA ReadyInit == Init => ReadyInv
BY DEF Init, ReadyInv, Spawned, OutReady, InReady, OneGenerationNeverUnderflows, Gens

LEMMA ReadyFrame ==
  ReadyInv /\ UNCHANGED <<gens, inq, callback_pc, write_pc, outbound_q, crashed>> => ReadyInv'
BY DEF ReadyInv, Spawned, OutReady, InReady, OneGenerationNeverUnderflows, inq

\* A thread that runs belongs to a generation that was spawned; with one
\* generation there is one callback thread and one write thread.
LEMMA OneOfEach ==
  ASSUME TypeOK, Spawned, gens <= 1, NEW g \in Gens, NEW h \in Gens,
         \/ callback_pc[g] # "none" /\ callback_pc[h] # "none"
         \/ write_pc[g] # "none" /\ write_pc[h] # "none"
  PROVE  g = h
<1>1. g <= gens /\ h <= gens BY CountsAssumption DEF Spawned, TypeOK, LifeType, Gens
<1> QED BY <1>1, CountsAssumption DEF TypeOK, LifeType, Gens

LEMMA ReadySpawn ==
  ASSUME TypeOK, ReadyInv, NEW c \in Callers, StartWorkers(c)
  PROVE  ReadyInv'
<1>1. gens + 1 \in Gens /\ gens \in Nat /\ gens' = gens + 1
  BY CountsAssumption DEF TypeOK, LifeType, StartWorkers, Gens
<1>2. callback_pc[gens + 1] = "none" /\ write_pc[gens + 1] = "none"
  BY <1>1 DEF ReadyInv, Spawned
<1>3. /\ UNCHANGED <<inq, outbound_q, crashed>>
      /\ \A g \in Gens : g # gens + 1 => callback_pc'[g] = callback_pc[g] /\ write_pc'[g] = write_pc[g]
      /\ callback_pc'[gens + 1] = "check" /\ write_pc'[gens + 1] = "check"
  BY <1>1 DEF TypeOK, UserType, WriterType, StartWorkers, outq
<1>4. Spawned' BY <1>1, <1>3, CountsAssumption DEF ReadyInv, Spawned, Gens
<1>5. OutReady' BY <1>1, <1>3 DEF ReadyInv, OutReady
<1>6. InReady'
  <2>1. \A g \in Gens : callback_pc'[g] \in {"call", "pop"} <=> callback_pc[g] \in {"call", "pop"}
    BY <1>2, <1>3
  <2>2. UNCHANGED <<read_mutex, inbound_q>> BY <1>3 DEF inq
  <2>3. gens' <= 1 => \A g \in Gens : callback_pc'[g] = "lock" => inbound_q' # <<>>
    BY <1>1, <1>3, <2>2 DEF ReadyInv, InReady
  <2> QED BY <2>1, <2>2, <2>3 DEF ReadyInv, InReady
<1>7. OneGenerationNeverUnderflows' BY <1>1, <1>3 DEF ReadyInv, OneGenerationNeverUnderflows
<1> QED BY <1>4, <1>5, <1>6, <1>7 DEF ReadyInv

\* on_read() and send_message() only make the queues longer.
LEMMA ReadyGrow ==
  ASSUME TypeOK, ReadyInv,
         UNCHANGED <<gens, read_mutex, callback_pc, write_pc, crashed>>,
         inbound_q' = inbound_q \/ inbound_q' # <<>>,
         outbound_q' = outbound_q \/ outbound_q' # <<>>
  PROVE  ReadyInv'
BY DEF ReadyInv, Spawned, OutReady, InReady, OneGenerationNeverUnderflows

LEMMA ReadyCallback ==
  ASSUME TypeOK, ReadyInv, NEW g \in Gens, CallbackThread(g)
  PROVE  ReadyInv'
<1>0. UNCHANGED <<gens, outbound_q, write_pc>>
  BY DEF CallbackThread, CallbackCheck, CallbackLock, CallbackCalls, CallbackCallsHalf, CallbackPops,
         life, outq, writer
<1>1. OutReady' BY <1>0 DEF ReadyInv, OutReady
<1>2. CASE CallbackCheck(g)
  <2>1. UNCHANGED <<inq, crashed>> /\ callback_pc[g] = "check" /\ inbound_q # <<>>
        /\ callback_pc' = [callback_pc EXCEPT ![g] = "lock"]
    BY <1>2 DEF CallbackCheck
  <2> QED BY <1>0, <1>1, <2>1
          DEF TypeOK, UserType, ReadyInv, Spawned, InReady, OneGenerationNeverUnderflows, inq
<1>3. CASE CallbackLock(g) /\ inbound_q # <<>>
  <2>1. UNCHANGED <<inbound_q, crashed>> /\ callback_pc[g] = "lock" /\ read_mutex = 0
        /\ callback_pc' = [callback_pc EXCEPT ![g] = "call"] /\ read_mutex' = g
    BY <1>3 DEF CallbackLock
  <2>2. \A h \in Gens : callback_pc[h] \notin {"call", "pop"} BY <2>1 DEF ReadyInv, InReady, Gens
  <2>3. InReady' BY <1>0, <1>3, <2>1, <2>2 DEF TypeOK, UserType, ReadyInv, InReady
  <2>4. Spawned' BY <1>0, <2>1 DEF TypeOK, UserType, ReadyInv, Spawned
  <2> QED BY <1>0, <1>1, <2>1, <2>3, <2>4 DEF ReadyInv, OneGenerationNeverUnderflows
<1>4. CASE CallbackLock(g) /\ inbound_q = <<>>
  <2>1. UNCHANGED <<inq, callback_pc>> /\ callback_pc[g] = "lock"
    BY <1>4 DEF CallbackLock, inq
  <2>2. ~(gens <= 1) BY <1>4, <2>1 DEF ReadyInv, InReady
  <2>3. OneGenerationNeverUnderflows'
    BY <1>0, <2>2 DEF TypeOK, LifeType, OneGenerationNeverUnderflows
  <2> QED BY <1>0, <1>1, <2>1, <2>3 DEF ReadyInv, Spawned, InReady, inq
<1>5. CASE CallbackCalls(g)
  <2>1. UNCHANGED <<inq, crashed>> /\ callback_pc[g] = "call"
        /\ callback_pc' = [callback_pc EXCEPT ![g] = "pop"]
    BY <1>5 DEF CallbackCalls
  <2> QED BY <1>0, <1>1, <2>1
          DEF TypeOK, UserType, ReadyInv, Spawned, InReady, OneGenerationNeverUnderflows, inq
<1>6. CASE CallbackCallsHalf(g)
  <2>1. UNCHANGED <<inq, callback_pc>> /\ crashed' = "half_callback"
    BY <1>6 DEF CallbackCallsHalf, user
  <2> QED BY <1>0, <1>1, <2>1 DEF ReadyInv, Spawned, InReady, OneGenerationNeverUnderflows, inq
<1>7. CASE CallbackPops(g)
  <2>1. UNCHANGED crashed /\ callback_pc[g] = "pop" /\ read_mutex' = 0
        /\ callback_pc' = [callback_pc EXCEPT ![g] = "check"]
    BY <1>7 DEF CallbackPops
  <2>2. \A h \in Gens : h # g => callback_pc[h] \notin {"call", "pop"}
    BY <2>1 DEF ReadyInv, InReady
  <2>3. gens <= 1 => \A h \in Gens : callback_pc'[h] # "lock"
    BY <2>1, OneOfEach DEF TypeOK, UserType, ReadyInv
  <2>4. InReady' BY <1>0, <2>1, <2>2, <2>3 DEF TypeOK, UserType, InReady, Gens
  <2>5. Spawned' BY <1>0, <2>1 DEF TypeOK, UserType, ReadyInv, Spawned
  <2> QED BY <1>0, <1>1, <2>1, <2>4, <2>5 DEF ReadyInv, OneGenerationNeverUnderflows
<1> QED BY <1>2, <1>3, <1>4, <1>5, <1>6, <1>7 DEF CallbackThread

LEMMA ReadyWrite ==
  ASSUME TypeOK, ReadyInv, NEW g \in Gens, WriteThread(g)
  PROVE  ReadyInv'
<1>0. UNCHANGED <<gens, inq, callback_pc>>
  BY DEF WriteThread, WriteCheck, WritePop, WriteSend, WriteDone, life, user
<1>1. InReady' BY <1>0 DEF ReadyInv, InReady, inq
<1>2. CASE WriteCheck(g)
  <2>1. UNCHANGED <<outbound_q, crashed>> /\ write_pc[g] = "check" /\ outbound_q # <<>>
        /\ write_pc' = [write_pc EXCEPT ![g] = "lock"]
    BY <1>2 DEF WriteCheck, outq
  <2> QED BY <1>0, <1>1, <2>1
          DEF TypeOK, WriterType, ReadyInv, Spawned, OutReady, OneGenerationNeverUnderflows
<1>3. CASE WritePop(g) /\ outbound_q # <<>>
  <2>1. UNCHANGED crashed /\ write_pc[g] = "lock" /\ write_pc' = [write_pc EXCEPT ![g] = "send"]
    BY <1>3 DEF WritePop
  <2>2. gens <= 1 => \A h \in Gens : write_pc'[h] # "lock"
    BY <2>1, OneOfEach DEF TypeOK, WriterType, ReadyInv
  <2>3. OutReady' BY <1>0, <2>2 DEF OutReady
  <2>4. Spawned' BY <1>0, <2>1 DEF TypeOK, WriterType, ReadyInv, Spawned
  <2> QED BY <1>0, <1>1, <2>1, <2>3, <2>4 DEF ReadyInv, OneGenerationNeverUnderflows
<1>4. CASE WritePop(g) /\ outbound_q = <<>>
  <2>1. UNCHANGED <<outbound_q, write_pc>> /\ write_pc[g] = "lock" BY <1>4 DEF WritePop
  <2>2. ~(gens <= 1) BY <1>4, <2>1 DEF ReadyInv, OutReady
  <2>3. OneGenerationNeverUnderflows'
    BY <1>0, <2>2 DEF TypeOK, LifeType, OneGenerationNeverUnderflows
  <2> QED BY <1>0, <1>1, <2>1, <2>3 DEF ReadyInv, Spawned, OutReady
<1>5. ASSUME NEW d \in Dests, WriteSend(g, d) PROVE ReadyInv'
  <2>1. UNCHANGED <<outbound_q, write_pc, crashed>> BY <1>5 DEF WriteSend, outq
  <2> QED BY <1>0, <2>1, ReadyFrame
<1>6. CASE WriteDone(g)
  <2>1. UNCHANGED <<outbound_q, crashed>> /\ write_pc[g] = "send"
        /\ write_pc' = [write_pc EXCEPT ![g] = "check"]
    BY <1>6 DEF WriteDone
  <2> QED BY <1>0, <1>1, <2>1
          DEF TypeOK, WriterType, ReadyInv, Spawned, OutReady, OneGenerationNeverUnderflows
<1> QED BY <1>2, <1>3, <1>4, <1>5, <1>6 DEF WriteThread

-------------------------------------------------------------------------------
IInv == TypeOK /\ OutInv /\ ReadyInv

LEMMA StepIInv == IInv /\ [Next]_vars => IInv'
<1> SUFFICES ASSUME IInv, [Next]_vars PROVE IInv' OBVIOUS
<1> USE DEF IInv
<1>1. TypeOK' BY TypeStep DEF OutInv, ReadyInv
<1>2. OutInv' /\ ReadyInv'
  <2>1. ASSUME NEW c \in Callers, Caller(c) PROVE OutInv' /\ ReadyInv'
    <3>1. CASE StartWorkers(c) BY <3>1, OutSpawn, ReadySpawn DEF ReadyInv
    <3>2. CASE StarterPush(c)
      <4>1. /\ UNCHANGED <<outq, writer, life, user, read_mutex, crashed>>
            /\ inbound_q' = Append(inbound_q, caller_hand[c])
        BY <3>2 DEF StarterPush
      <4>2. inbound_q' # <<>> BY <4>1 DEF TypeOK, InType
      <4> QED BY <4>1, <4>2, OutFrame, ReadyGrow DEF outq, writer, life, user
    <3>3. CASE ~StartWorkers(c) /\ ~StarterPush(c)
      <4>1. UNCHANGED <<outq, writer, gens, inq, callback_pc, crashed>>
        BY <2>1, <3>3 DEF Caller, StartEnter, StartOpens, StartOpenFails, StartEpollFails, StarterRecv,
             StarterRecvNothing, RegisterBegin, RegisterEnd, StopEnter, StopJoins, StopReturns,
             life, user
      <4> QED BY <4>1, OutFrame, ReadyFrame DEF outq, writer
    <3> QED BY <3>1, <3>2, <3>3
  <2>2. ASSUME NEW g \in Gens, EpollThread(g) PROVE OutInv' /\ ReadyInv'
    <3>1. CASE EpollPush(g)
      <4>1. /\ UNCHANGED <<outq, writer, life, user, read_mutex, crashed>>
            /\ inbound_q' = Append(inbound_q, epoll_hand[g])
        BY <3>1 DEF EpollPush
      <4>2. inbound_q' # <<>> BY <4>1 DEF TypeOK, InType
      <4> QED BY <4>1, <4>2, OutFrame, ReadyGrow DEF outq, writer, life, user
    <3>2. CASE ~EpollPush(g)
      <4>1. UNCHANGED <<outq, writer, gens, inq, callback_pc, crashed>>
        BY <2>2, <3>2 DEF EpollThread, EpollReturns, EpollFails, EpollRecv, EpollRecvNothing, life, user
      <4> QED BY <4>1, OutFrame, ReadyFrame DEF outq, writer
    <3> QED BY <3>1, <3>2
  <2>3. ASSUME NEW g \in Gens, CallbackThread(g) PROVE OutInv' /\ ReadyInv'
    <3>1. UNCHANGED <<outq, writer>>
      BY <2>3 DEF CallbackThread, CallbackCheck, CallbackLock, CallbackCalls, CallbackCallsHalf, CallbackPops
    <3> QED BY <2>3, <3>1, OutFrame, ReadyCallback
  <2>4. ASSUME NEW g \in Gens, WriteThread(g) PROVE OutInv' /\ ReadyInv'
    <3>1. OutInv' BY <2>4, OutWriteCheck, OutWritePop, OutWriteSend, OutWriteDone DEF WriteThread
    <3> QED BY <2>4, <3>1, ReadyWrite
  <2>5. ASSUME NEW to \in Addressees, NEW overlay \in Overlays \cup {to}, SendMessage(to, overlay)
        PROVE OutInv' /\ ReadyInv'
    <3>1. /\ UNCHANGED <<life, inq, user, writer, crashed>>
          /\ outbound_q' = Append(outbound_q, Len(accepted) + 1)
      BY <2>5 DEF SendMessage
    <3>2. outbound_q' # <<>> BY <3>1 DEF TypeOK, OutType
    <3> QED BY <2>5, <3>1, <3>2, OutSend, ReadyGrow DEF life, inq, user, writer
  <2>6. ASSUME NEW s \in Sockets, Arrive(s) \/ IcmpError(s) PROVE OutInv' /\ ReadyInv'
    <3>1. UNCHANGED <<life, inq, user, outq, writer, crashed>> BY <2>6 DEF Arrive, IcmpError
    <3> QED BY <3>1, OutFrame, ReadyFrame DEF life, user, outq, writer
  <2>7. CASE UNCHANGED vars
    <3>1. UNCHANGED <<life, inq, user, outq, writer, crashed>> BY <2>7 DEF vars
    <3> QED BY <3>1, OutFrame, ReadyFrame DEF life, user, outq, writer
  <2>8. ASSUME NEW g \in Gens, CallbackStays(g) PROVE OutInv' /\ ReadyInv'
    <3>1. UNCHANGED <<gens, inq, callback_pc, outq, writer, crashed>> BY <2>8 DEF CallbackStays
    <3> QED BY <3>1, OutFrame, ReadyFrame DEF outq, writer
  <2> QED BY <2>1, <2>2, <2>3, <2>4, <2>5, <2>6, <2>7, <2>8 DEF Next
<1> QED BY <1>1, <1>2

LEMMA IInvHolds == Spec => []IInv
<1>1. Init => IInv BY TypeInit, OutInit, ReadyInit DEF IInv
<1> QED BY <1>1, StepIInv, PTL DEF Spec

\* Every variable keeps its type: what a thread takes from a queue, a buffer or
\* the accepted messages is always there to be taken.
THEOREM UdpTypeCorrect == Spec => []TypeOK
BY IInvHolds, PTL DEF IInv

\* send_message() order at every destination, once each, for any number of
\* write threads: the mutex is held from pop_front() to the last sendto().
THEOREM UdpSentInOrder == Spec => []SentInOrder
<1>1. IInv => SentInOrder BY DEF IInv, OutInv
<1> QED BY <1>1, IInvHolds, PTL

\* front() is never called on an empty queue while one generation runs, although
\* empty() is tested without the mutex.
THEOREM UdpNoUnderflow == Spec => []OneGenerationNeverUnderflows
<1>1. IInv => OneGenerationNeverUnderflows BY DEF IInv, ReadyInv
<1> QED BY <1>1, IInvHolds, PTL

-------------------------------------------------------------------------------
(* The outbound side implements MessagePipe *)

OutOffered == [n \in DOMAIN accepted |-> n]
OutServing == IF write_mutex = 0 THEN 0 ELSE current[write_mutex]

LEMMA OutboundInit == Init => Outbound!Init
BY DEF Init, Outbound!Init

LEMMA OutboundStutter ==
  ASSUME TypeOK, UNCHANGED <<accepted, outbound_q, write_mutex, current>>
  PROVE  UNCHANGED Outbound!vars
BY DEF Outbound!vars

LEMMA OutboundStep == IInv /\ [Next]_vars => [Outbound!Next]_(Outbound!vars)
<1> SUFFICES ASSUME IInv, [Next]_vars PROVE [Outbound!Next]_(Outbound!vars) OBVIOUS
<1> USE DEF IInv
<1>1. ASSUME NEW c \in Callers, Caller(c) PROVE UNCHANGED Outbound!vars
  <2>1. UNCHANGED <<accepted, outbound_q, write_mutex, current>>
    BY <1>1 DEF Caller, StartEnter, StartOpens, StartOpenFails, StartWorkers, StartEpollFails,
         StarterRecv, StarterRecvNothing, StarterPush, RegisterBegin, RegisterEnd, StopEnter,
         StopJoins, StopReturns, outq, writer
  <2> QED BY <2>1, OutboundStutter
<1>2. ASSUME NEW g \in Gens, EpollThread(g) \/ CallbackThread(g) PROVE UNCHANGED Outbound!vars
  <2>1. UNCHANGED <<accepted, outbound_q, write_mutex, current>>
    BY <1>2 DEF EpollThread, EpollReturns, EpollFails, EpollRecv, EpollRecvNothing, EpollPush,
         CallbackThread, CallbackCheck, CallbackLock, CallbackCalls, CallbackCallsHalf, CallbackPops,
         outq, writer
  <2> QED BY <2>1, OutboundStutter
<1>3. ASSUME NEW g \in Gens, WriteThread(g) PROVE [Outbound!Next]_(Outbound!vars)
  <2>1. CASE WritePop(g) /\ outbound_q # <<>>
    <3>1. /\ UNCHANGED accepted /\ write_mutex = 0 /\ write_mutex' = g
          /\ current' = [current EXCEPT ![g] = Head(outbound_q)]
          /\ outbound_q' = Tail(outbound_q)
      BY <2>1 DEF WritePop
    <3>2. Len(outbound_q') = Len(outbound_q) - 1 /\ Len(outbound_q) > 0
      BY <2>1, <3>1, HeadTail DEF TypeOK, OutType
    <3>3. Head(outbound_q) = Popped + 1 /\ Head(outbound_q) \in 1..Len(accepted)
      BY <2>1, QueueFacts DEF OutInv
    <3>4. Len(accepted) \in Nat /\ Len(outbound_q) \in Nat /\ DOMAIN accepted = 1..Len(accepted)
      BY DEF TypeOK, OutType
    <3>5. OutServing = 0 BY <3>1 DEF OutServing
    <3>6. OutServing' = Popped + 1
      BY <3>1, <3>3 DEF TypeOK, WriterType, OutServing, Gens
    <3>7. Popped < Len(OutOffered) /\ OutOffered[Popped + 1] = Popped + 1 /\ UNCHANGED OutOffered
      <4>1. Len(OutOffered) = Len(accepted) BY <3>4 DEF OutOffered
      <4> QED BY <3>1, <3>2, <3>3, <3>4, <4>1 DEF OutOffered, Popped
    <3>8. Popped' = Popped + 1
      <4>1. accepted' = accepted BY <3>1
      <4> QED BY <3>2, <3>4, <4>1 DEF Popped
    <3>9. Outbound!Take BY <3>5, <3>6, <3>7, <3>8 DEF Outbound!Take, OutServing, OutOffered, Popped
    <3> QED BY <3>9 DEF Outbound!Next
  <2>2. CASE WriteDone(g)
    <3>1. /\ UNCHANGED <<accepted, outbound_q>> /\ write_pc[g] = "send" /\ write_mutex' = 0
      BY <2>2 DEF WriteDone
    <3>2. write_mutex = g /\ current[g] \in 1..Len(accepted)
      BY <3>1 DEF OutInv, Writing
    <3>3. OutServing # 0 /\ OutServing' = 0 BY <3>1, <3>2 DEF OutServing, Gens
    <3>4. Outbound!Finish BY <3>1, <3>3 DEF Outbound!Finish, OutServing
    <3> QED BY <3>4 DEF Outbound!Next
  <2>3. CASE WriteCheck(g) \/ (WritePop(g) /\ outbound_q = <<>>) \/ (\E d \in Dests : WriteSend(g, d))
    <3>1. UNCHANGED <<accepted, outbound_q, write_mutex, current>>
      BY <2>3 DEF WriteCheck, WritePop, WriteSend, outq
    <3> QED BY <3>1, OutboundStutter
  <2> QED BY <1>3, <2>1, <2>2, <2>3 DEF WriteThread
<1>4. ASSUME NEW to \in Addressees, NEW overlay \in Overlays \cup {to}, SendMessage(to, overlay)
      PROVE Outbound!Next
  <2>1. /\ UNCHANGED <<write_mutex, current>> /\ Len(accepted) < MaxSend
        /\ accepted' = Append(accepted, [to |-> to, overlay |-> overlay])
        /\ outbound_q' = Append(outbound_q, Len(accepted) + 1)
    BY <1>4 DEF SendMessage, writer
  <2>2. /\ Len(accepted) \in Nat /\ Len(outbound_q) \in Nat
        /\ Len(accepted') = Len(accepted) + 1 /\ Len(outbound_q') = Len(outbound_q) + 1
        /\ DOMAIN accepted = 1..Len(accepted) /\ DOMAIN accepted' = 1..(Len(accepted) + 1)
    BY <2>1 DEF TypeOK, OutType
  <2>3. UNCHANGED <<Popped, OutServing>> BY <2>1, <2>2 DEF Popped, OutServing
  <2>4. Len(accepted) + 1 \in Messages BY <2>1, <2>2, CountsAssumption DEF Messages
  <2>5. OutOffered' = Append(OutOffered, Len(accepted) + 1)
    <3> DEFINE m == Len(accepted)
               longer == Append(OutOffered, m + 1)
    <3>1. OutOffered \in Seq(Nat) /\ Len(OutOffered) = m
      <4>1. OutOffered = [n \in 1..m |-> n] BY <2>2 DEF OutOffered
      <4>2. OutOffered \in [1..m -> Nat] BY <2>2, <4>1
      <4>3. DOMAIN OutOffered = 1..m BY <4>1
      <4> QED BY <2>2, <4>2, <4>3
    <3>2. OutOffered' = [n \in 1..(m + 1) |-> n] BY <2>2 DEF OutOffered
    <3>3. longer \in Seq(Nat) /\ Len(longer) = m + 1 BY <2>2, <3>1, AppendFacts
    <3>4. longer = [i \in 1..(m + 1) |-> longer[i]] BY <3>3
    <3>5. \A i \in 1..(m + 1) : longer[i] = i BY <2>2, <3>1, AppendFacts DEF OutOffered
    <3> QED BY <3>2, <3>4, <3>5
  <2>6. Outbound!Offer BY <2>3, <2>4, <2>5 DEF Outbound!Offer, OutOffered, OutServing, Popped
  <2> QED BY <2>6 DEF Outbound!Next
<1>5. ASSUME \/ \E s \in Sockets : Arrive(s) \/ IcmpError(s)
             \/ \E g \in Gens : CallbackStays(g)
      PROVE  UNCHANGED Outbound!vars
  <2>1. UNCHANGED <<accepted, outbound_q, write_mutex, current>>
    BY <1>5 DEF Arrive, IcmpError, CallbackStays, outq, writer
  <2> QED BY <2>1, OutboundStutter
<1>6. CASE UNCHANGED vars
  <2>1. UNCHANGED <<accepted, outbound_q, write_mutex, current>> BY <1>6 DEF vars, outq, writer
  <2> QED BY <2>1, OutboundStutter
<1> QED BY <1>1, <1>2, <1>3, <1>4, <1>5, <1>6 DEF Next

\* The outbound queue, its mutex and the write threads together serve the
\* messages in the order of send_message(), one at a time and once each.
THEOREM UdpOutboundRefines == Spec => OutboundIsPipe
BY OutboundInit, OutboundStep, IInvHolds, PTL DEF Spec, OutboundIsPipe, Outbound!Spec
-------------------------------------------------------------------------------
(* The inbound side, from on_read() on, implements MessagePipe *)

\* The mutex is free of callback threads exactly when nobody's turn is on.
LEMMA TurnHolds ==
  ASSUME TypeOK, InReady
  PROVE  /\ \A g \in Gens : callback_pc[g] \in {"call", "pop"} => read_mutex = g /\ inbound_q # <<>>
         /\ read_mutex = 0 => ~Turn
         /\ \A g \in Gens : callback_pc[g] = "call" => ~Turn
         /\ \A g \in Gens, h \in Gens : callback_pc[g] = "pop" /\ callback_pc[h] = "pop" => g = h
BY DEF InReady, Turn, Gens

LEMMA InboundStutter ==
  ASSUME TypeOK, UNCHANGED <<inbound_q, handled>>,
         \A g \in Gens : callback_pc'[g] = "pop" <=> callback_pc[g] = "pop"
  PROVE  UNCHANGED Inbound!vars
<1>1. Turn' = Turn BY DEF Turn
<1> QED BY <1>1 DEF Inbound!vars

LEMMA InboundInit == Init => Inbound!Init
<1> SUFFICES ASSUME Init PROVE Inbound!Init OBVIOUS
<1>1. inbound_q = <<>> /\ handled = <<>> /\ ~Turn BY DEF Init, Turn
<1>2. <<>> \o <<>> = <<>> /\ Len(<<>>) = 0 OBVIOUS
<1>3. handled \o inbound_q = <<>> /\ Len(handled) = 0 BY <1>1, <1>2, Zenon
<1> QED BY <1>1, <1>3, Zenon DEF Inbound!Init

\* on_read() is an Offer, whoever calls it.
LEMMA InboundOffers ==
  ASSUME TypeOK, InReady, NEW x \in Datagrams,
         read_mutex = 0, inbound_q' = Append(inbound_q, x), UNCHANGED <<handled, callback_pc>>
  PROVE  Inbound!Offer
<1>1. ~Turn /\ ~Turn' BY TurnHolds DEF Turn
<1>2. handled \o inbound_q' = Append(handled \o inbound_q, x)
  BY AppendsBehind DEF TypeOK, InType, UserType
<1> QED BY <1>1, <1>2 DEF Inbound!Offer

LEMMA InboundTakes ==
  ASSUME TypeOK, InReady, NEW g \in Gens, CallbackCalls(g)
  PROVE  Inbound!Take
<1>1. /\ ~Turn /\ inbound_q # <<>> /\ UNCHANGED inbound_q
      /\ handled' = Append(handled, Head(inbound_q)) /\ callback_pc' = [callback_pc EXCEPT ![g] = "pop"]
  BY TurnHolds DEF CallbackCalls, inq
<1>2. Turn' BY <1>1 DEF TypeOK, UserType, Turn
<1>3. handled \in Seq(Datagrams) /\ inbound_q \in Seq(Datagrams) BY DEF TypeOK, InType, UserType
<1>4. /\ handled' \o Tail(inbound_q) = handled \o inbound_q
      /\ (handled \o inbound_q)[Len(handled) + 1] = Head(inbound_q)
      /\ Len(handled) < Len(handled \o inbound_q)
  BY <1>1, <1>3, MovesOver
<1>5. Len(handled') = Len(handled) + 1
  <2>1. Head(inbound_q) \in Datagrams BY <1>1, <1>3, HeadTail
  <2> QED BY <1>1, <1>3, <2>1, AppendFacts
<1> QED BY <1>1, <1>2, <1>4, <1>5 DEF Inbound!Take

LEMMA InboundFinishes ==
  ASSUME TypeOK, InReady, NEW g \in Gens, CallbackPops(g)
  PROVE  Inbound!Finish
<1>1. /\ Turn /\ inbound_q # <<>> /\ UNCHANGED handled
      /\ inbound_q' = Tail(inbound_q) /\ callback_pc' = [callback_pc EXCEPT ![g] = "check"]
      /\ callback_pc[g] = "pop"
  BY TurnHolds DEF CallbackPops, Turn
<1>2. ~Turn' BY <1>1, TurnHolds DEF TypeOK, UserType, Turn
<1>3. Head(inbound_q) # 0
  <2>1. Head(inbound_q) \in Datagrams BY <1>1, HeadTail DEF TypeOK, InType
  <2> QED BY <2>1 DEF Datagrams
<1> QED BY <1>1, <1>2, <1>3 DEF Inbound!Finish

LEMMA InboundStep == IInv /\ [Next]_vars => [Inbound!Next]_(Inbound!vars)
<1> SUFFICES ASSUME IInv, [Next]_vars PROVE [Inbound!Next]_(Inbound!vars) OBVIOUS
<1>0. TypeOK /\ InReady BY DEF IInv, ReadyInv
<1>1. ASSUME NEW c \in Callers, StarterPush(c) PROVE Inbound!Offer
  <2>1. caller_hand[c] \in Datagrams
    BY <1>0, <1>1, CountsAssumption DEF TypeOK, CallerType, StarterPush, Datagrams
  <2> QED BY <1>0, <1>1, <2>1, InboundOffers DEF StarterPush, user
<1>2. ASSUME NEW g \in Gens, EpollPush(g) PROVE Inbound!Offer
  <2>1. epoll_hand[g] \in Datagrams
    BY <1>0, <1>2, CountsAssumption DEF TypeOK, EpollType, EpollPush, Datagrams
  <2> QED BY <1>0, <1>2, <2>1, InboundOffers DEF EpollPush, user
<1>3. ASSUME NEW c \in Callers, Caller(c), ~StarterPush(c) PROVE UNCHANGED Inbound!vars
  <2>1. CASE StartWorkers(c)
    <3>1. UNCHANGED <<inbound_q, handled>> /\ gens < MaxStart
          /\ callback_pc' = [callback_pc EXCEPT ![gens + 1] = "check"]
      BY <2>1 DEF StartWorkers, inq
    <3>2. gens + 1 \in Gens /\ gens + 1 > gens BY <1>0, <3>1, CountsAssumption DEF TypeOK, LifeType, Gens
    <3>3. callback_pc[gens + 1] = "none" BY <3>2 DEF IInv, ReadyInv, Spawned
    <3> QED BY <1>0, <3>1, <3>3, InboundStutter DEF TypeOK, UserType
  <2>2. CASE ~StartWorkers(c)
    <3>1. UNCHANGED <<inbound_q, handled, callback_pc>>
      BY <1>3, <2>2 DEF Caller, StartEnter, StartOpens, StartOpenFails, StartEpollFails,
           StarterRecv, StarterRecvNothing, RegisterBegin, RegisterEnd, StopEnter,
           StopJoins, StopReturns, inq, user
    <3> QED BY <1>0, <3>1, InboundStutter
  <2> QED BY <2>1, <2>2
<1>4. ASSUME NEW g \in Gens, CallbackCheck(g) \/ CallbackLock(g) \/ CallbackCallsHalf(g)
      PROVE  UNCHANGED Inbound!vars
  <2>1. /\ UNCHANGED <<inbound_q, handled>>
        /\ \/ UNCHANGED callback_pc
           \/ /\ callback_pc[g] \in {"check", "lock"}
              /\ \E pc \in {"lock", "call"} : callback_pc' = [callback_pc EXCEPT ![g] = pc]
    BY <1>4 DEF CallbackCheck, CallbackLock, CallbackCallsHalf, inq, user
  <2> QED BY <1>0, <2>1, InboundStutter DEF TypeOK, UserType
<1>5. ASSUME NEW g \in Gens, (EpollThread(g) /\ ~EpollPush(g)) \/ WriteThread(g) PROVE UNCHANGED Inbound!vars
  <2>1. UNCHANGED <<inbound_q, handled, callback_pc>>
    BY <1>5 DEF EpollThread, EpollReturns, EpollFails, EpollRecv, EpollRecvNothing, WriteThread, WriteCheck,
       WritePop, WriteSend, WriteDone, inq, user
  <2> QED BY <1>0, <2>1, InboundStutter
<1>6. ASSUME \/ \E to \in Addressees : \E overlay \in Overlays \cup {to} : SendMessage(to, overlay)
             \/ \E s \in Sockets : Arrive(s) \/ IcmpError(s)
             \/ \E g \in Gens : CallbackStays(g)
             \/ UNCHANGED vars
      PROVE  UNCHANGED Inbound!vars
  <2>1. UNCHANGED <<inbound_q, handled, callback_pc>> 
    BY <1>6 DEF SendMessage, Arrive, IcmpError, CallbackStays, vars, inq, user
  <2> QED BY <1>0, <2>1, InboundStutter
<1>7. ASSUME NEW g \in Gens, CallbackThread(g)
      PROVE  Inbound!Next \/ UNCHANGED Inbound!vars
  BY <1>0, <1>4, <1>7, InboundTakes, InboundFinishes DEF CallbackThread, Inbound!Next
<1> QED BY <1>1, <1>2, <1>3, <1>5, <1>6, <1>7 DEF Next, Inbound!Next

\* From on_read() on, datagrams are handled in the order they were queued, each in
\* one turn of a callback thread and one turn at a time, whichever threads receive
\* and however many generations handle.
THEOREM UdpInboundRefines == Spec => InboundIsPipe
BY InboundInit, InboundStep, IInvHolds, PTL DEF Spec, InboundIsPipe, Inbound!Spec

-------------------------------------------------------------------------------
(* Where a datagram is: in a receive buffer, in a hand, or taken by on_read() *)

\* What a step may do to the buffers, the hands and what on_read() has taken.
Takes(r, s) ==
  /\ rcvbuf[s] # <<>>
  /\ Hand' = [Hand EXCEPT ![r] = Head(rcvbuf[s])]
  /\ rcvbuf' = [rcvbuf EXCEPT ![s] = Tail(rcvbuf[s])]
  /\ UNCHANGED <<Offered, arrivals>>
Puts(r) ==
  /\ Hand[r] # 0
  /\ Hand' = [Hand EXCEPT ![r] = 0]
  /\ Offered' = Append(Offered, Hand[r])
  /\ UNCHANGED <<rcvbuf, arrivals>>
Comes(s) ==
  /\ arrivals' = arrivals + 1
  /\ rcvbuf' = [rcvbuf EXCEPT ![s] = Append(rcvbuf[s], arrivals + 1)]
  /\ UNCHANGED <<Hand, Offered>>
Loses == /\ \A s \in Sockets : rcvbuf'[s] \in {rcvbuf[s], <<>>}
         /\ UNCHANGED <<Hand, Offered, arrivals>>

LEMMA OfferedType ==
  ASSUME TypeOK, InReady
  PROVE  /\ inbound_q \in Seq(Datagrams) /\ handled \in Seq(Datagrams) /\ Pending \in Seq(Datagrams)
         /\ Offered \in Seq(Datagrams) /\ DOMAIN Offered = 1..Len(Offered) /\ Len(Offered) \in Nat
<1>1. inbound_q \in Seq(Datagrams) /\ handled \in Seq(Datagrams) BY DEF TypeOK, InType, UserType
<1>2. Pending \in Seq(Datagrams)
  <2>1. CASE Turn
    <3>1. inbound_q # <<>> BY <2>1 DEF Turn, InReady
    <3> QED BY <1>1, <2>1, <3>1, HeadTail DEF Pending
  <2>2. CASE ~Turn BY <1>1, <2>2 DEF Pending
  <2> QED BY <2>1, <2>2
<1>3. Offered \in Seq(Datagrams) BY <1>1, <1>2, ConcatFacts DEF Offered
<1> QED BY <1>1, <1>2, <1>3, SequenceIsFunction

LEMMA ReaderFacts ==
  /\ \A c \in Callers : <<"start", c>> \in Readers
  /\ \A g \in Gens : <<"epoll", g>> \in Readers
  /\ \A r \in Readers : \/ \E c \in Callers : r = <<"start", c>>
                        \/ \E g \in Gens : r = <<"epoll", g>>
  /\ DOMAIN Hand = Readers
  /\ \A c \in Callers : Hand[<<"start", c>>] = caller_hand[c]
  /\ \A g \in Gens : Hand[<<"epoll", g>>] = epoll_hand[g]
<1>1. /\ \A c \in Callers : <<"start", c>> \in Readers
      /\ \A g \in Gens : <<"epoll", g>> \in Readers
      /\ \A r \in Readers : \/ \E c \in Callers : r = <<"start", c>>
                            \/ \E g \in Gens : r = <<"epoll", g>>
  BY DEF Readers
<1> QED BY <1>1 DEF Hand

LEMMA PlaceTypes ==
  ASSUME TypeOK, InReady
  PROVE  /\ arrivals \in Nat /\ \A r \in Readers : Hand[r] \in Nat
         /\ DOMAIN Offered = 1..Len(Offered) /\ Len(Offered) \in Nat
         /\ \A i \in DOMAIN Offered : Offered[i] \in Nat
         /\ \A s \in Sockets : /\ rcvbuf[s] \in Seq(Datagrams)
                              /\ DOMAIN rcvbuf[s] = 1..Len(rcvbuf[s]) /\ Len(rcvbuf[s]) \in Nat
                              /\ \A i \in DOMAIN rcvbuf[s] : rcvbuf[s][i] \in Nat \ {0}
<1>0. Datagrams \subseteq Nat \ {0} BY DEF Datagrams
<1>1. arrivals \in Nat BY CountsAssumption DEF TypeOK, KernelType
<1>2. \A r \in Readers : Hand[r] \in Nat
  BY ReaderFacts, CountsAssumption DEF TypeOK, CallerType, EpollType
<1>3. DOMAIN Offered = 1..Len(Offered) /\ Len(Offered) \in Nat /\ Offered \in Seq(Datagrams) BY OfferedType
<1>4. \A i \in DOMAIN Offered : Offered[i] \in Nat BY <1>0, <1>3, ElementType
<1>5. ASSUME NEW s \in Sockets
      PROVE  /\ rcvbuf[s] \in Seq(Datagrams) /\ DOMAIN rcvbuf[s] = 1..Len(rcvbuf[s])
             /\ Len(rcvbuf[s]) \in Nat /\ \A i \in DOMAIN rcvbuf[s] : rcvbuf[s][i] \in Nat \ {0}
  <2>1. rcvbuf[s] \in Seq(Datagrams) BY DEF TypeOK, KernelType
  <2>2. DOMAIN rcvbuf[s] = 1..Len(rcvbuf[s]) /\ Len(rcvbuf[s]) \in Nat BY <2>1, SequenceIsFunction
  <2> QED BY <1>0, <2>1, <2>2, ElementType
<1> QED BY <1>1, <1>2, <1>3, <1>4, <1>5

\* A hand that changes, as a change of Hand.
LEMMA HandChanges ==
  ASSUME TypeOK, NEW x
  PROVE  /\ \A c \in Callers :
              caller_hand' = [caller_hand EXCEPT ![c] = x] /\ UNCHANGED epoll_hand
              => Hand' = [Hand EXCEPT ![<<"start", c>>] = x]
         /\ \A g \in Gens :
              epoll_hand' = [epoll_hand EXCEPT ![g] = x] /\ UNCHANGED caller_hand
              => Hand' = [Hand EXCEPT ![<<"epoll", g>>] = x]
<1>1. DOMAIN caller_hand = Callers /\ DOMAIN epoll_hand = Gens BY DEF TypeOK, CallerType, EpollType
<1>2. ASSUME NEW c \in Callers, caller_hand' = [caller_hand EXCEPT ![c] = x], UNCHANGED epoll_hand
      PROVE  Hand' = [Hand EXCEPT ![<<"start", c>>] = x]
  <2>1. ASSUME NEW r \in Readers PROVE Hand'[r] = [Hand EXCEPT ![<<"start", c>>] = x][r]
    <3>1. CASE \E d \in Callers : r = <<"start", d>>
      <4>1. PICK d \in Callers : r = <<"start", d>> BY <3>1
      <4>2. Hand'[r] = caller_hand'[d] BY <4>1 DEF Hand, Readers
      <4>3. Hand[r] = caller_hand[d] BY <4>1, ReaderFacts
      <4> QED BY <1>1, <1>2, <4>1, <4>2, <4>3, ReaderFacts
    <3>2. CASE \E h \in Gens : r = <<"epoll", h>>
      <4>1. PICK h \in Gens : r = <<"epoll", h>> BY <3>2
      <4>2. Hand'[r] = epoll_hand'[h] BY <4>1 DEF Hand, Readers
      <4>3. Hand[r] = epoll_hand[h] BY <4>1, ReaderFacts
      <4> QED BY <1>2, <4>1, <4>2, <4>3, ReaderFacts
    <3> QED BY <3>1, <3>2, ReaderFacts
  <2>2. Hand' = [r \in Readers |-> Hand'[r]] BY DEF Hand
  <2>3. [Hand EXCEPT ![<<"start", c>>] = x] = [r \in Readers |-> [Hand EXCEPT ![<<"start", c>>] = x][r]]
    BY ReaderFacts
  <2> QED BY <2>1, <2>2, <2>3
<1>3. ASSUME NEW g \in Gens, epoll_hand' = [epoll_hand EXCEPT ![g] = x], UNCHANGED caller_hand
      PROVE  Hand' = [Hand EXCEPT ![<<"epoll", g>>] = x]
  <2>1. ASSUME NEW r \in Readers PROVE Hand'[r] = [Hand EXCEPT ![<<"epoll", g>>] = x][r]
    <3>1. CASE \E d \in Callers : r = <<"start", d>>
      <4>1. PICK d \in Callers : r = <<"start", d>> BY <3>1
      <4>2. Hand'[r] = caller_hand'[d] BY <4>1 DEF Hand, Readers
      <4>3. Hand[r] = caller_hand[d] BY <4>1, ReaderFacts
      <4> QED BY <1>3, <4>1, <4>2, <4>3, ReaderFacts
    <3>2. CASE \E h \in Gens : r = <<"epoll", h>>
      <4>1. PICK h \in Gens : r = <<"epoll", h>> BY <3>2
      <4>2. Hand'[r] = epoll_hand'[h] BY <4>1 DEF Hand, Readers
      <4>3. Hand[r] = epoll_hand[h] BY <4>1, ReaderFacts
      <4> QED BY <1>1, <1>3, <4>1, <4>2, <4>3, ReaderFacts
    <3> QED BY <3>1, <3>2, ReaderFacts
  <2>2. Hand' = [r \in Readers |-> Hand'[r]] BY DEF Hand
  <2>3. [Hand EXCEPT ![<<"epoll", g>>] = x] = [r \in Readers |-> [Hand EXCEPT ![<<"epoll", g>>] = x][r]]
    BY ReaderFacts
  <2> QED BY <2>1, <2>2, <2>3
<1> QED BY <1>2, <1>3

LEMMA PushOffers ==
  ASSUME TypeOK, InReady, NEW x \in Datagrams, read_mutex = 0, UNCHANGED <<callback_pc, handled>>,
         inbound_q' = Append(inbound_q, x)
  PROVE  Offered' = Append(Offered, x)
<1>1. ~Turn /\ ~Turn' BY TurnHolds DEF Turn
<1> QED BY <1>1, AppendsBehind, OfferedType DEF Offered, Pending

\* The callback thread moves a datagram within what on_read() has taken.
LEMMA TurnKeeps ==
  ASSUME TypeOK, ReadyInv, NEW g \in Gens, CallbackThread(g)
  PROVE  UNCHANGED Offered
<1>0. DOMAIN callback_pc = Gens /\ InReady BY DEF TypeOK, UserType, ReadyInv
<1>1. CASE CallbackCheck(g) \/ CallbackLock(g) \/ CallbackCallsHalf(g)
  <2>1. /\ UNCHANGED <<inbound_q, handled>>
        /\ \/ UNCHANGED callback_pc
           \/ /\ callback_pc[g] \in {"check", "lock"}
              /\ \E pc \in {"lock", "call"} : callback_pc' = [callback_pc EXCEPT ![g] = pc]
    BY <1>1 DEF CallbackCheck, CallbackLock, CallbackCallsHalf, inq, user
  <2>2. Turn' = Turn BY <1>0, <2>1 DEF Turn
  <2> QED BY <2>1, <2>2 DEF Offered, Pending
<1>2. CASE CallbackCalls(g)
  <2>1. /\ callback_pc[g] = "call" /\ callback_pc' = [callback_pc EXCEPT ![g] = "pop"]
        /\ UNCHANGED inbound_q /\ handled' = Append(handled, Head(inbound_q))
    BY <1>2 DEF CallbackCalls, inq
  <2>2. inbound_q # <<>> /\ ~Turn /\ Turn' BY <1>0, <2>1 DEF InReady, Turn
  <2> QED BY <1>0, <2>1, <2>2, MovesOver, OfferedType DEF Offered, Pending
<1>3. CASE CallbackPops(g)
  <2>1. /\ callback_pc[g] = "pop" /\ callback_pc' = [callback_pc EXCEPT ![g] = "check"]
        /\ inbound_q' = Tail(inbound_q) /\ UNCHANGED handled
    BY <1>3 DEF CallbackPops
  <2>2. Turn /\ ~Turn' BY <1>0, <2>1 DEF InReady, Turn
  <2> QED BY <2>1, <2>2 DEF Offered, Pending
<1> QED BY <1>1, <1>2, <1>3 DEF CallbackThread

LEMMA Close0 ==
  ASSUME TypeOK, NEW s, Close(s)
  PROVE  \A x \in Sockets : rcvbuf'[x] \in {rcvbuf[x], <<>>}
BY DEF Close

LEMMA PlaceFrame ==
  ASSUME TypeOK, ReadyInv, [Next]_vars
  PROVE  \/ \E r \in Readers, s \in Sockets : Takes(r, s)
         \/ \E r \in Readers : Puts(r)
         \/ \E s \in Sockets : Comes(s)
         \/ Loses
<1>0. InReady BY DEF ReadyInv
<1> DEFINE Done == \/ \E r \in Readers, s \in Sockets : Takes(r, s)
                   \/ \E r \in Readers : Puts(r)
                   \/ \E s \in Sockets : Comes(s)
                   \/ Loses
           Same == UNCHANGED <<rcvbuf, arrivals, caller_hand, epoll_hand>>
<1>1. ASSUME UNCHANGED <<inbound_q, handled>>, \A g \in Gens : callback_pc'[g] = "pop" <=> callback_pc[g] = "pop"
      PROVE  UNCHANGED Offered
  <2>1. Turn' <=> Turn BY <1>1 DEF Turn
  <2> QED BY <1>1, <2>1 DEF Offered, Pending
<1>2. UNCHANGED <<caller_hand, epoll_hand>> => UNCHANGED Hand BY DEF Hand
<1>3. ASSUME NEW c \in Callers, Caller(c) PROVE Done
  <2>1. CASE StartWorkers(c)
    <3>1. UNCHANGED <<inbound_q, handled>> /\ gens < MaxStart
          /\ callback_pc' = [callback_pc EXCEPT ![gens + 1] = "check"] /\ Same
      BY <2>1 DEF StartWorkers, inq
    <3>2. gens + 1 \in Gens /\ gens + 1 > gens BY <3>1, CountsAssumption DEF TypeOK, LifeType, Gens
    <3>3. callback_pc[gens + 1] = "none" BY <3>2 DEF ReadyInv, Spawned
    <3>4. \A g \in Gens : callback_pc'[g] = "pop" <=> callback_pc[g] = "pop"
      BY <3>1, <3>3 DEF TypeOK, UserType
    <3> QED BY <1>1, <1>2, <3>1, <3>4 DEF Loses
  <2>2. CASE StartEpollFails(c) \/ StopReturns(c)
    <3>1. Close(udp_socket) /\ UNCHANGED <<inbound_q, handled, callback_pc, arrivals, caller_hand, epoll_hand>>
      BY <2>2 DEF StartEpollFails, StopReturns, inq, user, epoll
    <3> QED BY <1>1, <1>2, <3>1, Close0 DEF Loses
  <2>3. CASE StarterRecv(c)
    <3>1. /\ Readable /\ UNCHANGED <<inbound_q, handled, callback_pc, arrivals, epoll_hand>>
          /\ caller_hand' = [caller_hand EXCEPT ![c] = Head(rcvbuf[udp_socket])]
          /\ rcvbuf' = [rcvbuf EXCEPT ![udp_socket] = Tail(rcvbuf[udp_socket])]
      BY <2>3 DEF StarterRecv, Receives, inq, user, epoll
    <3>2. udp_socket \in Sockets /\ rcvbuf[udp_socket] # <<>> BY <3>1, ReadableFacts DEF Readable
    <3>3. Hand' = [Hand EXCEPT ![<<"start", c>>] = Head(rcvbuf[udp_socket])] BY <3>1, HandChanges
    <3>4. Takes(<<"start", c>>, udp_socket) BY <1>1, <3>1, <3>2, <3>3 DEF Takes
    <3> QED BY <3>2, <3>4, ReaderFacts
  <2>4. CASE StarterPush(c)
    <3>1. /\ caller_pc[c] = "push" /\ read_mutex = 0 /\ inbound_q' = Append(inbound_q, caller_hand[c])
          /\ caller_hand' = [caller_hand EXCEPT ![c] = 0]
          /\ UNCHANGED <<handled, callback_pc, arrivals, epoll_hand, rcvbuf>>
      BY <2>4 DEF StarterPush, user, epoll, kernel
    <3>2. caller_hand[c] \in Datagrams /\ caller_hand[c] # 0
      BY <3>1, CountsAssumption DEF TypeOK, CallerType, Datagrams
    <3>3. Offered' = Append(Offered, caller_hand[c]) BY <1>0, <3>1, <3>2, PushOffers
    <3>4. Hand' = [Hand EXCEPT ![<<"start", c>>] = 0] BY <3>1, HandChanges
    <3>5. Puts(<<"start", c>>) BY <3>1, <3>2, <3>3, <3>4, ReaderFacts DEF Puts
    <3> QED BY <3>5, ReaderFacts
  <2>5. CASE ~(StartWorkers(c) \/ StartEpollFails(c) \/ StopReturns(c) \/ StarterRecv(c) \/ StarterPush(c))
    <3>1. UNCHANGED <<inbound_q, handled, callback_pc>> /\ Same
      BY <1>3, <2>5 DEF Caller, StartEnter, StartOpens, StartOpenFails, StarterRecvNothing, RegisterBegin,
         RegisterEnd, StopEnter, StopJoins, inq, user, epoll, kernel
    <3> QED BY <1>1, <1>2, <3>1 DEF Loses
  <2> QED BY <2>1, <2>2, <2>3, <2>4, <2>5
<1>4. ASSUME NEW g \in Gens, EpollThread(g) PROVE Done
  <2>1. CASE EpollFails(g)
    <3>1. Close(udp_socket) /\ UNCHANGED <<inbound_q, handled, callback_pc, arrivals, caller_hand, epoll_hand>>
      BY <2>1 DEF EpollFails, inq, user, caller
    <3> QED BY <1>1, <1>2, <3>1, Close0 DEF Loses
  <2>2. CASE EpollRecv(g)
    <3>1. /\ Readable /\ UNCHANGED <<inbound_q, handled, callback_pc, arrivals, caller_hand>>
          /\ epoll_hand' = [epoll_hand EXCEPT ![g] = Head(rcvbuf[udp_socket])]
          /\ rcvbuf' = [rcvbuf EXCEPT ![udp_socket] = Tail(rcvbuf[udp_socket])]
      BY <2>2 DEF EpollRecv, Receives, inq, user, caller
    <3>2. udp_socket \in Sockets /\ rcvbuf[udp_socket] # <<>> BY <3>1, ReadableFacts DEF Readable
    <3>3. Hand' = [Hand EXCEPT ![<<"epoll", g>>] = Head(rcvbuf[udp_socket])] BY <3>1, HandChanges
    <3>4. Takes(<<"epoll", g>>, udp_socket) BY <1>1, <3>1, <3>2, <3>3 DEF Takes
    <3> QED BY <3>2, <3>4, ReaderFacts
  <2>3. CASE EpollPush(g)
    <3>1. /\ epoll_pc[g] = "push" /\ read_mutex = 0 /\ inbound_q' = Append(inbound_q, epoll_hand[g])
          /\ epoll_hand' = [epoll_hand EXCEPT ![g] = 0]
          /\ UNCHANGED <<handled, callback_pc, arrivals, caller_hand, rcvbuf>>
      BY <2>3 DEF EpollPush, user, caller, kernel
    <3>2. epoll_hand[g] \in Datagrams /\ epoll_hand[g] # 0
      BY <3>1, CountsAssumption DEF TypeOK, EpollType, Datagrams
    <3>3. Offered' = Append(Offered, epoll_hand[g]) BY <1>0, <3>1, <3>2, PushOffers
    <3>4. Hand' = [Hand EXCEPT ![<<"epoll", g>>] = 0] BY <3>1, HandChanges
    <3>5. Puts(<<"epoll", g>>) BY <3>1, <3>2, <3>3, <3>4, ReaderFacts DEF Puts
    <3> QED BY <3>5, ReaderFacts
  <2>4. CASE EpollReturns(g) \/ EpollRecvNothing(g)
    <3>1. UNCHANGED <<inbound_q, handled, callback_pc>> /\ Same
      BY <2>4 DEF EpollReturns, EpollRecvNothing, inq, user, caller, kernel
    <3> QED BY <1>1, <1>2, <3>1 DEF Loses
  <2> QED BY <1>4, <2>1, <2>2, <2>3, <2>4 DEF EpollThread
<1>5. ASSUME NEW g \in Gens, CallbackThread(g) PROVE Done
  <2>1. Same
    BY <1>5 DEF CallbackThread, CallbackCheck, CallbackLock, CallbackCalls, CallbackCallsHalf, CallbackPops,
       caller, kernel, epoll
  <2>2. UNCHANGED Offered BY <1>5, TurnKeeps
  <2> QED BY <1>2, <2>1, <2>2 DEF Loses
<1>6. ASSUME \/ \E g \in Gens : WriteThread(g)
             \/ \E to \in Addressees : \E overlay \in Overlays \cup {to} : SendMessage(to, overlay)
             \/ \E s \in Sockets : IcmpError(s)
             \/ \E g \in Gens : CallbackStays(g)
             \/ UNCHANGED vars
      PROVE  Done
  <2>1. UNCHANGED <<inbound_q, handled, callback_pc>> /\ Same
    BY <1>6 DEF WriteThread, WriteCheck, WritePop, WriteSend, WriteDone, SendMessage, IcmpError,
       CallbackStays, vars, inq, user,
       caller, kernel, epoll
  <2> QED BY <1>1, <1>2, <2>1 DEF Loses
<1>7. ASSUME NEW s \in Sockets, Arrive(s) PROVE Done
  <2>1. /\ UNCHANGED <<inbound_q, handled, callback_pc, caller_hand, epoll_hand>>
        /\ arrivals' = arrivals + 1
        /\ rcvbuf' = [rcvbuf EXCEPT ![s] = Append(rcvbuf[s], arrivals + 1)]
    BY <1>7 DEF Arrive, inq, user, caller, epoll
  <2>2. Comes(s) BY <1>1, <1>2, <2>1 DEF Comes
  <2> QED BY <2>2
<1> HIDE DEF Done, Same
<1>8. Done BY <1>3, <1>4, <1>5, <1>6, <1>7 DEF Next
<1> QED BY <1>8 DEF Done

LEMMA PlacesTakes ==
  ASSUME TypeOK, InReady, Places, NEW r \in Readers, NEW s \in Sockets, Takes(r, s)
  PROVE  Places'
<1> DEFINE h == Head(rcvbuf[s])
           n == Len(rcvbuf[s])
           O == Offered
<1>0. /\ n \in Nat /\ n > 0 /\ h = rcvbuf[s][1] /\ h \in Nat \ {0}
      /\ DOMAIN rcvbuf[s] = 1..n /\ DOMAIN rcvbuf'[s] = 1..(n - 1)
      /\ \A i \in 1..(n - 1) : rcvbuf'[s][i] = rcvbuf[s][i + 1]
      /\ \A t \in Sockets : t # s => rcvbuf'[t] = rcvbuf[t]
      /\ Hand'[r] = h /\ \A q \in Readers : q # r => Hand'[q] = Hand[q]
      /\ UNCHANGED arrivals /\ O' = O
  <2>1. rcvbuf[s] \in Seq(Datagrams) /\ rcvbuf[s] # <<>> BY PlaceTypes DEF Takes
  <2>2. rcvbuf'[s] = Tail(rcvbuf[s]) /\ \A t \in Sockets : t # s => rcvbuf'[t] = rcvbuf[t]
    BY DEF Takes, TypeOK, KernelType
  <2>3. /\ n \in Nat /\ n > 0 /\ h = rcvbuf[s][1] /\ h \in Datagrams
        /\ DOMAIN rcvbuf[s] = 1..n /\ DOMAIN rcvbuf'[s] = 1..(n - 1)
        /\ \A i \in 1..(n - 1) : rcvbuf'[s][i] = rcvbuf[s][i + 1]
    BY <2>1, <2>2, HeadTail
  <2>4. Hand'[r] = h /\ \A q \in Readers : q # r => Hand'[q] = Hand[q] BY ReaderFacts DEF Takes
  <2> QED BY <2>2, <2>3, <2>4 DEF Takes, Datagrams
<1>1. 1 \in DOMAIN rcvbuf[s] BY <1>0
\* what is in a buffer now was in it, behind the first
<1>2. ASSUME NEW t \in Sockets, NEW i \in DOMAIN rcvbuf'[t]
      PROVE  \E k \in DOMAIN rcvbuf[t] : /\ rcvbuf'[t][i] = rcvbuf[t][k]
                                         /\ k = (IF t = s THEN i + 1 ELSE i) /\ (t = s => 1 < k)
  <2>1. CASE t = s
    <3>1. i \in 1..(n - 1) BY <1>0, <1>2, <2>1
    <3>2. i + 1 \in 1..n /\ 1 < i + 1 BY <1>0, <3>1
    <3>3. rcvbuf'[t][i] = rcvbuf[t][i + 1] /\ i + 1 \in DOMAIN rcvbuf[t] BY <1>0, <2>1, <3>1, <3>2
    <3> QED BY <2>1, <3>2, <3>3
  <2>2. CASE t # s
    <3>1. rcvbuf'[t] = rcvbuf[t] BY <1>0, <2>2
    <3> QED BY <1>2, <2>2, <3>1
  <2> QED BY <2>1, <2>2
<1>3. /\ h <= arrivals /\ \A i \in DOMAIN O : O[i] # h
      /\ \A t \in Sockets : \A i \in DOMAIN rcvbuf'[t] : rcvbuf'[t][i] # h
      /\ \A q \in Readers : Hand[q] # h
  <2>1. h <= arrivals /\ \A i \in DOMAIN O : O[i] # h BY <1>0, <1>1 DEF Places, InBuffers
  <2>2. \A q \in Readers : Hand[q] # h BY <1>0, <1>1 DEF Places, InHands
  <2>3. ASSUME NEW t \in Sockets, NEW i \in DOMAIN rcvbuf'[t] PROVE rcvbuf'[t][i] # h
    <3>1. PICK k \in DOMAIN rcvbuf[t] : rcvbuf'[t][i] = rcvbuf[t][k] /\ (t = s => 1 < k) BY <1>2
    <3>2. CASE t = s
      <4>1. rcvbuf[s][1] < rcvbuf[s][k] BY <1>0, <1>1, <3>1, <3>2 DEF Places, InBuffers
      <4>2. rcvbuf[s][1] \in Nat /\ rcvbuf[s][k] \in Nat BY <1>0, <1>1, <3>1, <3>2, PlaceTypes
      <4> QED BY <1>0, <3>1, <3>2, <4>1, <4>2
    <3>3. CASE t # s BY <1>0, <1>1, <3>1, <3>3 DEF Places, InBuffers
    <3> QED BY <3>2, <3>3
  <2> QED BY <2>1, <2>2, <2>3
<1> HIDE DEF h, n, O
<1>4. InOffered' BY <1>0 DEF Places, InOffered, O
<1>5. InBuffers'
  <2> SUFFICES ASSUME NEW t \in Sockets, NEW i \in DOMAIN rcvbuf'[t]
      PROVE  /\ rcvbuf'[t][i] <= arrivals
             /\ \A j \in DOMAIN O : O[j] # rcvbuf'[t][i]
             /\ \A j \in DOMAIN rcvbuf'[t] : i < j => rcvbuf'[t][i] < rcvbuf'[t][j]
             /\ \A u \in Sockets : \A j \in DOMAIN rcvbuf'[u] : t # u => rcvbuf'[t][i] # rcvbuf'[u][j]
    BY <1>0 DEF InBuffers, O
  <2>1. PICK k \in DOMAIN rcvbuf[t] : rcvbuf'[t][i] = rcvbuf[t][k] /\ k = (IF t = s THEN i + 1 ELSE i) BY <1>2
  <2>2. rcvbuf'[t][i] <= arrivals /\ \A j \in DOMAIN O : O[j] # rcvbuf'[t][i]
    BY <2>1 DEF Places, InBuffers, O
  <2>3. ASSUME NEW j \in DOMAIN rcvbuf'[t], i < j PROVE rcvbuf'[t][i] < rcvbuf'[t][j]
    <3>1. PICK l \in DOMAIN rcvbuf[t] : rcvbuf'[t][j] = rcvbuf[t][l] /\ l = (IF t = s THEN j + 1 ELSE j) BY <1>2
    <3>2. k < l
      <4>1. DOMAIN rcvbuf'[t] \subseteq Nat
        <5>1. CASE t = s BY <1>0, <5>1
        <5>2. CASE t # s BY <1>0, <5>2, PlaceTypes
        <5> QED BY <5>1, <5>2
      <4> QED BY <2>1, <2>3, <3>1, <4>1
    <3> QED BY <2>1, <3>1, <3>2 DEF Places, InBuffers
  <2>4. ASSUME NEW u \in Sockets, NEW j \in DOMAIN rcvbuf'[u], t # u PROVE rcvbuf'[t][i] # rcvbuf'[u][j]
    <3>1. PICK l \in DOMAIN rcvbuf[u] : rcvbuf'[u][j] = rcvbuf[u][l] BY <1>2
    <3> QED BY <2>1, <2>4, <3>1 DEF Places, InBuffers
  <2> QED BY <2>2, <2>3, <2>4
<1>6. InHands'
  <2> SUFFICES ASSUME NEW q \in Readers, Hand'[q] # 0
      PROVE  /\ Hand'[q] <= arrivals
             /\ \A i \in DOMAIN O : O[i] # Hand'[q]
             /\ \A t \in Sockets : \A i \in DOMAIN rcvbuf'[t] : rcvbuf'[t][i] # Hand'[q]
             /\ \A p \in Readers : p # q => Hand'[p] # Hand'[q]
    BY <1>0 DEF InHands, O
  <2>1. CASE q = r BY <1>0, <1>3, <2>1
  <2>2. CASE q # r
    <3>1. Hand'[q] = Hand[q] /\ Hand[q] # 0 BY <1>0, <2>2
    <3>2. Hand[q] <= arrivals /\ \A i \in DOMAIN O : O[i] # Hand[q] BY <3>1 DEF Places, InHands, O
    <3>3. ASSUME NEW t \in Sockets, NEW i \in DOMAIN rcvbuf'[t] PROVE rcvbuf'[t][i] # Hand[q]
      <4>1. PICK k \in DOMAIN rcvbuf[t] : rcvbuf'[t][i] = rcvbuf[t][k] BY <1>2
      <4> QED BY <3>1, <4>1 DEF Places, InHands
    <3>4. ASSUME NEW p \in Readers, p # q PROVE Hand'[p] # Hand[q]
      <4>1. CASE p = r BY <1>0, <1>3, <3>1, <4>1
      <4>2. CASE p # r BY <1>0, <3>1, <3>4, <4>2 DEF Places, InHands
      <4> QED BY <4>1, <4>2
    <3> QED BY <3>1, <3>2, <3>3, <3>4
  <2> QED BY <2>1, <2>2
<1> QED BY <1>4, <1>5, <1>6 DEF Places

LEMMA PlacesPuts ==
  ASSUME TypeOK, InReady, Places, NEW r \in Readers, Puts(r)
  PROVE  Places'
<1> DEFINE n == Len(Offered)
<1>0. /\ n \in Nat /\ DOMAIN Offered = 1..n /\ DOMAIN Offered' = 1..(n + 1)
      /\ \A i \in 1..n : Offered'[i] = Offered[i]
      /\ Offered'[n + 1] = Hand[r]
      /\ UNCHANGED <<rcvbuf, arrivals>>
      /\ Hand[r] # 0 /\ Hand'[r] = 0 /\ \A q \in Readers : q # r => Hand'[q] = Hand[q]
  <2>1. Offered \in Seq(Nat)
    <3>1. Offered \in Seq(Datagrams) BY OfferedType
    <3>2. Datagrams \subseteq Nat BY DEF Datagrams
    <3> QED BY <3>1, <3>2, WiderType
  <2>2. /\ n \in Nat /\ DOMAIN Offered = 1..n /\ DOMAIN Offered' = 1..(n + 1)
        /\ \A i \in 1..n : Offered'[i] = Offered[i]
        /\ Offered'[n + 1] = Hand[r]
    BY <2>1, PlaceTypes, AppendFacts DEF Puts
  <2> QED BY <2>2, ReaderFacts DEF Puts
<1> HIDE DEF n
<1>1. /\ Hand[r] <= arrivals /\ \A i \in DOMAIN Offered : Offered[i] # Hand[r]
      /\ \A s \in Sockets : \A i \in DOMAIN rcvbuf[s] : rcvbuf[s][i] # Hand[r]
      /\ \A q \in Readers : q # r => Hand[q] # Hand[r]
  BY <1>0 DEF Places, InHands
<1>2. ASSUME NEW i \in DOMAIN Offered'
      PROVE  IF i = n + 1 THEN Offered'[i] = Hand[r] ELSE i \in DOMAIN Offered /\ Offered'[i] = Offered[i]
  <2>1. i \in 1..(n + 1) BY <1>0
  <2>2. i # n + 1 => i \in 1..n BY <1>0, <2>1
  <2> QED BY <1>0, <2>1, <2>2
<1>3. InOffered' BY <1>0, <1>1, <1>2 DEF Places, InOffered
<1>4. InBuffers' BY <1>0, <1>1, <1>2 DEF Places, InBuffers
<1>5. InHands'
  <2> SUFFICES ASSUME NEW q \in Readers, Hand'[q] # 0
      PROVE  /\ Hand'[q] <= arrivals
             /\ \A i \in DOMAIN Offered' : Offered'[i] # Hand'[q]
             /\ \A s \in Sockets : \A i \in DOMAIN rcvbuf[s] : rcvbuf[s][i] # Hand'[q]
             /\ \A p \in Readers : p # q => Hand'[p] # Hand'[q]
    BY <1>0 DEF InHands
  <2>1. q # r /\ Hand'[q] = Hand[q] /\ Hand[q] # 0 BY <1>0
  <2>2. \A i \in DOMAIN Offered' : Offered'[i] # Hand[q] BY <1>1, <1>2, <2>1 DEF Places, InHands
  <2> QED BY <1>0, <2>1, <2>2 DEF Places, InHands
<1> QED BY <1>3, <1>4, <1>5 DEF Places

LEMMA PlacesComes ==
  ASSUME TypeOK, InReady, Places, NEW s \in Sockets, Comes(s)
  PROVE  Places'
<1> DEFINE n == Len(rcvbuf[s])
<1>0. /\ n \in Nat /\ DOMAIN rcvbuf[s] = 1..n /\ DOMAIN rcvbuf'[s] = 1..(n + 1)
      /\ \A i \in 1..n : rcvbuf'[s][i] = rcvbuf[s][i]
      /\ rcvbuf'[s][n + 1] = arrivals + 1
      /\ \A t \in Sockets : t # s => rcvbuf'[t] = rcvbuf[t]
      /\ arrivals' = arrivals + 1 /\ arrivals \in Nat
      /\ UNCHANGED <<Offered, Hand>>
  <2>1. arrivals \in Nat /\ rcvbuf[s] \in Seq(Datagrams) BY PlaceTypes
  <2>2. rcvbuf[s] \in Seq(Nat) /\ DOMAIN rcvbuf = Sockets
    <3>1. Datagrams \subseteq Nat BY DEF Datagrams
    <3> QED BY <2>1, <3>1, WiderType DEF TypeOK, KernelType
  <2>3. rcvbuf'[s] = Append(rcvbuf[s], arrivals + 1) /\ \A t \in Sockets : t # s => rcvbuf'[t] = rcvbuf[t]
    BY <2>2 DEF Comes
  <2>4. arrivals + 1 \in Nat BY <2>1
  <2>5. /\ n \in Nat /\ DOMAIN rcvbuf[s] = 1..n /\ DOMAIN rcvbuf'[s] = 1..(n + 1)
        /\ \A i \in 1..n : rcvbuf'[s][i] = rcvbuf[s][i]
        /\ rcvbuf'[s][n + 1] = arrivals + 1
    BY <2>2, <2>3, <2>4, AppendFacts
  <2> QED BY <2>1, <2>3, <2>5 DEF Comes
<1> HIDE DEF n
<1>1. ASSUME NEW t \in Sockets, NEW i \in DOMAIN rcvbuf'[t]
      PROVE  IF t = s /\ i = n + 1 THEN rcvbuf'[t][i] = arrivals + 1
                                   ELSE i \in DOMAIN rcvbuf[t] /\ rcvbuf'[t][i] = rcvbuf[t][i]
  <2>1. CASE t = s
    <3>1. i \in 1..(n + 1) BY <1>0, <1>1, <2>1
    <3>2. i # n + 1 => i \in 1..n BY <1>0, <3>1
    <3> QED BY <1>0, <2>1, <3>1, <3>2
  <2>2. CASE t # s
    <3>1. rcvbuf'[t] = rcvbuf[t] BY <1>0, <2>2
    <3> QED BY <1>1, <2>2, <3>1
  <2> QED BY <2>1, <2>2
<1>2. /\ \A i \in DOMAIN Offered : Offered[i] \in Nat /\ Offered[i] <= arrivals
      /\ \A t \in Sockets : \A i \in DOMAIN rcvbuf[t] : rcvbuf[t][i] \in Nat /\ rcvbuf[t][i] <= arrivals
      /\ \A r \in Readers : Hand[r] \in Nat /\ Hand[r] <= arrivals
  <2>1. \A r \in Readers : Hand[r] \in Nat /\ Hand[r] <= arrivals BY PlaceTypes DEF Places, InHands
  <2> QED BY <2>1, PlaceTypes DEF Places, InOffered, InBuffers
<1>3. InOffered' BY <1>0, <1>2 DEF Places, InOffered
<1>4. InBuffers'
  <2> SUFFICES ASSUME NEW t \in Sockets, NEW i \in DOMAIN rcvbuf'[t]
      PROVE  /\ rcvbuf'[t][i] <= arrivals + 1
             /\ \A j \in DOMAIN Offered : Offered[j] # rcvbuf'[t][i]
             /\ \A j \in DOMAIN rcvbuf'[t] : i < j => rcvbuf'[t][i] < rcvbuf'[t][j]
             /\ \A u \in Sockets : \A j \in DOMAIN rcvbuf'[u] : t # u => rcvbuf'[t][i] # rcvbuf'[u][j]
    BY <1>0 DEF InBuffers
  <2>1. CASE t = s /\ i = n + 1
    <3>1. rcvbuf'[t][i] = arrivals + 1 BY <1>1, <2>1
    <3>2. \A j \in DOMAIN rcvbuf'[t] : ~(i < j) BY <1>0, <2>1
    <3>3. ASSUME NEW u \in Sockets, NEW j \in DOMAIN rcvbuf'[u], t # u PROVE rcvbuf'[t][i] # rcvbuf'[u][j]
      <4>1. j \in DOMAIN rcvbuf[u] /\ rcvbuf'[u][j] = rcvbuf[u][j] BY <1>1, <2>1, <3>3
      <4> QED BY <1>0, <1>2, <3>1, <4>1
    <3> QED BY <1>0, <1>2, <3>1, <3>2, <3>3
  <2>2. CASE ~(t = s /\ i = n + 1)
    <3>1. i \in DOMAIN rcvbuf[t] /\ rcvbuf'[t][i] = rcvbuf[t][i] BY <1>1, <2>2
    <3>2. rcvbuf[t][i] \in Nat /\ rcvbuf[t][i] <= arrivals BY <1>2, <3>1
    <3>3. ASSUME NEW j \in DOMAIN rcvbuf'[t], i < j PROVE rcvbuf'[t][i] < rcvbuf'[t][j]
      <4>1. CASE t = s /\ j = n + 1 BY <1>0, <1>1, <3>1, <3>2, <4>1
      <4>2. CASE ~(t = s /\ j = n + 1)
        <5>1. j \in DOMAIN rcvbuf[t] /\ rcvbuf'[t][j] = rcvbuf[t][j] BY <1>1, <4>2
        <5> QED BY <3>1, <3>3, <5>1 DEF Places, InBuffers
      <4> QED BY <4>1, <4>2
    <3>4. ASSUME NEW u \in Sockets, NEW j \in DOMAIN rcvbuf'[u], t # u PROVE rcvbuf'[t][i] # rcvbuf'[u][j]
      <4>1. CASE u = s /\ j = n + 1 BY <1>0, <1>1, <3>1, <3>2, <4>1
      <4>2. CASE ~(u = s /\ j = n + 1)
        <5>1. j \in DOMAIN rcvbuf[u] /\ rcvbuf'[u][j] = rcvbuf[u][j] BY <1>1, <4>2
        <5> QED BY <3>1, <3>4, <5>1 DEF Places, InBuffers
      <4> QED BY <4>1, <4>2
    <3>5. \A j \in DOMAIN Offered : Offered[j] # rcvbuf[t][i] BY <3>1 DEF Places, InBuffers
    <3> QED BY <1>0, <3>1, <3>2, <3>3, <3>4, <3>5
  <2> QED BY <2>1, <2>2
<1>5. InHands'
  <2> SUFFICES ASSUME NEW q \in Readers, Hand[q] # 0
      PROVE  /\ Hand[q] <= arrivals + 1
             /\ \A i \in DOMAIN Offered : Offered[i] # Hand[q]
             /\ \A t \in Sockets : \A i \in DOMAIN rcvbuf'[t] : rcvbuf'[t][i] # Hand[q]
             /\ \A p \in Readers : p # q => Hand[p] # Hand[q]
    BY <1>0 DEF InHands
  <2>1. \A t \in Sockets : \A i \in DOMAIN rcvbuf[t] : rcvbuf[t][i] # Hand[q] BY DEF Places, InHands
  <2>2. Hand[q] \in Nat /\ Hand[q] <= arrivals BY <1>2
  <2>3. \A t \in Sockets : \A i \in DOMAIN rcvbuf'[t] : rcvbuf'[t][i] # Hand[q]
    BY <1>0, <1>1, <2>1, <2>2
  <2> QED BY <1>0, <2>2, <2>3 DEF Places, InHands
<1> QED BY <1>3, <1>4, <1>5 DEF Places

LEMMA PlacesLoses ==
  ASSUME Places, Loses
  PROVE  Places'
<1>1. ASSUME NEW s \in Sockets, NEW i \in DOMAIN rcvbuf'[s] PROVE rcvbuf'[s] = rcvbuf[s]
  <2>1. rcvbuf'[s] = rcvbuf[s] \/ rcvbuf'[s] = <<>> BY DEF Loses
  <2>2. DOMAIN <<>> = {} OBVIOUS
  <2> QED BY <1>1, <2>1, <2>2
<1>2. UNCHANGED <<Hand, Offered, arrivals>> BY DEF Loses
<1>3. InOffered' BY <1>2 DEF Places, InOffered
<1>4. InBuffers' BY <1>1, <1>2 DEF Places, InBuffers
<1>5. InHands' BY <1>1, <1>2 DEF Places, InHands
<1> QED BY <1>3, <1>4, <1>5 DEF Places

LEMMA PlacesInit == Init => Places
<1> SUFFICES ASSUME Init PROVE Places OBVIOUS
<1>1. inbound_q = <<>> /\ handled = <<>> /\ ~Turn BY DEF Init, Turn
<1>2. DOMAIN (<<>> \o <<>>) = {} /\ DOMAIN <<>> = {} OBVIOUS
<1>3. DOMAIN Offered = {} BY <1>1, <1>2 DEF Offered, Pending
<1>4. \A s \in Sockets : DOMAIN rcvbuf[s] = {} BY <1>2 DEF Init
<1>5. \A r \in Readers : Hand[r] = 0 BY ReaderFacts DEF Init
<1> QED BY <1>3, <1>4, <1>5 DEF Places, InOffered, InBuffers, InHands

\* The datagram whose turn it is is the last one handled, and still in front.
TurnIsLast ==
  Turn => Len(handled) > 0 /\ Offered[Len(handled)] = Head(inbound_q)

LEMMA TurnIsLastStep ==
  IInv /\ TurnIsLast /\ [Next]_vars => TurnIsLast'
<1> SUFFICES ASSUME IInv, TurnIsLast, [Next]_vars PROVE TurnIsLast' OBVIOUS
<1>0. TypeOK /\ InReady /\ inbound_q \in Seq(Datagrams) /\ handled \in Seq(Datagrams)
      /\ TypeOK' /\ InReady'
  BY StepIInv, OfferedType DEF IInv, ReadyInv
<1>1. Len(handled) \in Nat /\ Len(handled) <= Len(Offered) /\ Len(Offered) \in Nat
  BY <1>0, OfferedType, ConcatFacts DEF Offered
<1>2. Turn => Head(inbound_q) # 0 /\ inbound_q # <<>>
  <2>1. Turn => inbound_q # <<>> BY <1>0 DEF InReady, Turn
  <2>2. Turn => Head(inbound_q) \in Datagrams BY <1>0, <2>1, HeadTail
  <2> QED BY <2>1, <2>2 DEF Datagrams
<1>3. Turn' => Head(inbound_q') # 0
  <2>1. Turn' => inbound_q' # <<>> BY <1>0 DEF InReady, Turn
  <2>2. inbound_q' \in Seq(Datagrams) BY <1>0 DEF TypeOK, InType
  <2>3. Turn' => Head(inbound_q') \in Datagrams BY <2>1, <2>2, HeadTail
  <2> QED BY <2>3 DEF Datagrams
<1>4. [Inbound!Next]_(Inbound!vars) BY InboundStep
<1>5. CASE Inbound!Offer
  <2>1. /\ Len(handled') = Len(handled)
        /\ (IF Turn' THEN Head(inbound_q') ELSE 0) = (IF Turn THEN Head(inbound_q) ELSE 0)
        /\ \E x \in Datagrams : Offered' = Append(Offered, x)
    BY <1>5 DEF Inbound!Offer, Offered, Pending
  <2>2. Turn' => Turn /\ Head(inbound_q') = Head(inbound_q) BY <1>3, <2>1
  <2>3. \A i \in 1..Len(Offered) : Offered'[i] = Offered[i] BY <1>0, <2>1, OfferedType, AppendFacts
  <2>4. Turn' => Len(handled) \in 1..Len(Offered) BY <1>1, <2>2 DEF TurnIsLast
  <2> QED BY <2>1, <2>2, <2>3, <2>4 DEF TurnIsLast
<1>6. CASE Inbound!Take
  <2>1. /\ Len(handled') = Len(handled) + 1 /\ Offered' = Offered
        /\ (IF Turn' THEN Head(inbound_q') ELSE 0) = Offered[Len(handled) + 1]
    BY <1>6 DEF Inbound!Take, Offered, Pending
  <2> QED BY <1>1, <2>1 DEF TurnIsLast
<1>7. CASE Inbound!Finish
  <2>1. (IF Turn' THEN Head(inbound_q') ELSE 0) = 0 BY <1>7 DEF Inbound!Finish
  <2> QED BY <1>3, <2>1 DEF TurnIsLast
<1>8. CASE UNCHANGED Inbound!vars
  <2>1. /\ Len(handled') = Len(handled) /\ Offered' = Offered
        /\ (IF Turn' THEN Head(inbound_q') ELSE 0) = (IF Turn THEN Head(inbound_q) ELSE 0)
    BY <1>8 DEF Inbound!vars, Offered, Pending
  <2> QED BY <1>3, <2>1 DEF TurnIsLast
<1> QED BY <1>4, <1>5, <1>6, <1>7, <1>8 DEF Inbound!Next

LEMMA QueuedIsOffered ==
  ASSUME TypeOK, InReady, TurnIsLast
  PROVE  \A j \in DOMAIN inbound_q : \E k \in DOMAIN Offered : Offered[k] = inbound_q[j]
<1>0. /\ handled \in Seq(Datagrams) /\ inbound_q \in Seq(Datagrams) /\ Pending \in Seq(Datagrams)
      /\ DOMAIN Offered = 1..Len(Offered)
  BY OfferedType
<1>1. /\ Len(handled) \in Nat /\ Len(Pending) \in Nat /\ Len(Offered) = Len(handled) + Len(Pending)
      /\ \A i \in 1..Len(Pending) : Offered[Len(handled) + i] = Pending[i]
  BY <1>0, ConcatFacts DEF Offered
<1>2. \A i \in 1..Len(Pending) : \E k \in DOMAIN Offered : Offered[k] = Pending[i]
  <2> SUFFICES ASSUME NEW i \in 1..Len(Pending) PROVE Len(handled) + i \in DOMAIN Offered BY <1>1
  <2> QED BY <1>0, <1>1
<1>3. CASE ~Turn
  <2>1. Pending = inbound_q /\ DOMAIN inbound_q = 1..Len(inbound_q)
    BY <1>0, <1>3, SequenceIsFunction DEF Pending
  <2> QED BY <1>2, <2>1
<1>4. CASE Turn
  <2>1. inbound_q # <<>> /\ Pending = Tail(inbound_q) BY <1>4 DEF InReady, Turn, Pending
  <2>2. /\ DOMAIN inbound_q = 1..Len(inbound_q) /\ Len(inbound_q) \in Nat /\ Head(inbound_q) = inbound_q[1]
        /\ Len(Pending) = Len(inbound_q) - 1
        /\ \A i \in 1..(Len(inbound_q) - 1) : Pending[i] = inbound_q[i + 1]
    BY <1>0, <2>1, HeadTail
  <2>3. Len(handled) \in DOMAIN Offered /\ Offered[Len(handled)] = inbound_q[1]
    BY <1>0, <1>1, <1>4, <2>2 DEF TurnIsLast
  <2>4. ASSUME NEW j \in DOMAIN inbound_q, j # 1 PROVE \E k \in DOMAIN Offered : Offered[k] = inbound_q[j]
    <3>1. j \in 1..Len(inbound_q) BY <2>2
    <3>2. j - 1 \in 1..(Len(inbound_q) - 1) /\ (j - 1) + 1 = j BY <2>2, <2>4, <3>1
    <3>3. Pending[j - 1] = inbound_q[j] BY <2>2, <3>2
    <3> QED BY <1>2, <2>2, <3>2, <3>3
  <2> QED BY <2>3, <2>4
<1> QED BY <1>3, <1>4

LEMMA TurnIsLastHolds == Spec => []TurnIsLast
<1>1. Init => TurnIsLast BY DEF Init, TurnIsLast, Turn
<1> QED BY <1>1, TurnIsLastStep, IInvHolds, PTL DEF Spec

LEMMA PlacesHold == Spec => []Places
<1>1. IInv /\ Places /\ [Next]_vars => Places'
  BY PlaceFrame, PlacesTakes, PlacesPuts, PlacesComes, PlacesLoses DEF IInv, ReadyInv
<1> QED BY <1>1, PlacesInit, IInvHolds, PTL DEF Spec

\* A datagram recv() took is handed to the callback at most once and is in no receive
\* buffer again, whichever epoll threads and start() calls read, and however many
\* generations handle.
THEOREM UdpTakenOnce == Spec => []TakenOnceHandledOnce
<1>1. IInv /\ Places /\ TurnIsLast => TakenOnceHandledOnce
  <2> SUFFICES ASSUME IInv, Places, TurnIsLast PROVE TakenOnceHandledOnce OBVIOUS
  <2>0. TypeOK /\ InReady BY DEF IInv, ReadyInv
  <2>1. \A i \in DOMAIN handled : i \in DOMAIN Offered /\ Offered[i] = handled[i]
    <3>1. handled \in Seq(Datagrams) /\ Pending \in Seq(Datagrams) BY <2>0, OfferedType
    <3>2. DOMAIN Offered = 1..Len(Offered) /\ DOMAIN handled = 1..Len(handled)
      BY <2>0, <3>1, OfferedType, SequenceIsFunction
    <3> QED BY <3>1, <3>2, ConcatFacts DEF Offered
  <2>2. \A i, j \in DOMAIN handled : i # j => handled[i] # handled[j] BY <2>1 DEF Places, InOffered
  <2>3. ASSUME NEW s \in Sockets, NEW i \in DOMAIN rcvbuf[s]
        PROVE  /\ \A j \in DOMAIN handled : handled[j] # rcvbuf[s][i]
               /\ \A g \in Gens : epoll_hand[g] # rcvbuf[s][i]
               /\ \A c \in Callers : caller_hand[c] # rcvbuf[s][i]
               /\ \A j \in DOMAIN inbound_q : inbound_q[j] # rcvbuf[s][i]
    <3>1. rcvbuf[s][i] # 0 BY <2>0, PlaceTypes
    <3>2. \A r \in Readers : Hand[r] # rcvbuf[s][i] BY <3>1 DEF Places, InHands
    <3>3. \A g \in Gens : epoll_hand[g] # rcvbuf[s][i] BY <3>2, ReaderFacts
    <3>4. \A c \in Callers : caller_hand[c] # rcvbuf[s][i] BY <3>2, ReaderFacts
    <3>5. \A j \in DOMAIN handled : handled[j] # rcvbuf[s][i] BY <2>1 DEF Places, InBuffers
    <3>6. \A j \in DOMAIN inbound_q : \E k \in DOMAIN Offered : Offered[k] = inbound_q[j]
      BY <2>0, QueuedIsOffered
    <3> QED BY <3>3, <3>4, <3>5, <3>6 DEF Places, InBuffers
  <2> QED BY <2>2, <2>3 DEF TakenOnceHandledOnce, Elements, Held
<1> QED BY <1>1, IInvHolds, PlacesHold, TurnIsLastHolds, PTL

-------------------------------------------------------------------------------
(* Where a message goes *)

LEMMA ConfiguredStep ==
  ASSUME TypeOK, Configured, [Next]_vars
  PROVE  Configured'
<1>0. DOMAIN caller_pc = Callers BY DEF TypeOK, CallerType
<1>1. CASE dest_list' = Dests BY <1>1 DEF Configured
<1>2. CASE UNCHANGED <<dest_list, gens>> /\ \A c \in Callers : caller_pc'[c] = "epoll" => caller_pc[c] = "epoll"
  BY <1>2 DEF Configured
<1>3. ASSUME NEW c \in Callers, Caller(c) PROVE Configured'
  <2>1. CASE StartOpens(c) BY <1>1, <2>1 DEF StartOpens
  <2>2. CASE StartOpenFails(c)
    <3>1. dest_list' = dest_list \/ dest_list' = Dests BY <2>2 DEF StartOpenFails
    <3>2. gens' = gens /\ \A b \in Callers : caller_pc'[b] = "epoll" => caller_pc[b] = "epoll"
      BY <1>0, <2>2 DEF StartOpenFails
    <3> QED BY <1>1, <1>2, <3>1, <3>2
  <2>3. CASE StartWorkers(c)
    <3>1. dest_list' = Dests BY <2>3 DEF StartWorkers, Configured
    <3> QED BY <1>1, <3>1
  <2>4. CASE ~(StartOpens(c) \/ StartOpenFails(c) \/ StartWorkers(c))
    <3>1. UNCHANGED <<dest_list, gens>>
      BY <1>3, <2>4 DEF Caller, StartEnter, StartEpollFails, StarterRecv, StarterRecvNothing, StarterPush,
         RegisterBegin, RegisterEnd, StopEnter, StopJoins, StopReturns, life
    <3>2. \/ UNCHANGED caller_pc
          \/ \E pc \in {"open", "idle", "push", "reg", "join", "close"} : caller_pc' = [caller_pc EXCEPT ![c] = pc]
      BY <1>3, <2>4 DEF Caller, StartEnter, StartEpollFails, StarterRecv, StarterRecvNothing, StarterPush,
         RegisterBegin, RegisterEnd, StopEnter, StopJoins, StopReturns
    <3> QED BY <1>0, <1>2, <3>1, <3>2
  <2> QED BY <2>1, <2>2, <2>3, <2>4
<1>4. ASSUME \/ \E g \in Gens : EpollThread(g) \/ CallbackThread(g) \/ WriteThread(g)
             \/ \E to \in Addressees : \E overlay \in Overlays \cup {to} : SendMessage(to, overlay)
             \/ \E s \in Sockets : Arrive(s) \/ IcmpError(s)
             \/ \E g \in Gens : CallbackStays(g)
             \/ UNCHANGED vars
      PROVE  Configured'
  <2>1. UNCHANGED <<dest_list, gens, caller_pc>>
    BY <1>4 DEF EpollThread, EpollReturns, EpollFails, EpollRecv, EpollRecvNothing, EpollPush,
       CallbackThread, CallbackCheck, CallbackLock, CallbackCalls, CallbackCallsHalf, CallbackPops,
       WriteThread, WriteCheck, WritePop, WriteSend, WriteDone, SendMessage, Arrive, IcmpError,
       CallbackStays, vars, life, caller
  <2> QED BY <1>2, <2>1
<1> QED BY <1>3, <1>4 DEF Next

LEMMA RouteFrame ==
  ASSUME RoutedSoFar, UNCHANGED <<accepted, outbound_q, current, front_to, todo, sent>>
  PROVE  RoutedSoFar'
BY DEF RoutedSoFar, Popped, RouteKept, Recipients, Addressed

LEMMA RoutePop ==
  ASSUME TypeOK, OutInv, ReadyInv, Configured, IdleWriters, RoutedSoFar, NEW g \in Gens, WritePop(g)
  PROVE  IdleWriters' /\ RoutedSoFar'
<1>1. CASE outbound_q = <<>>
  <2>1. UNCHANGED <<accepted, outbound_q, write_pc, current, front_to, todo, sent>> BY <1>1 DEF WritePop
  <2> QED BY <2>1, RouteFrame DEF IdleWriters
<1>2. CASE outbound_q # <<>>
  <2>0. PICK m \in Nat : m = Popped + 1 BY DEF OutInv, OutQueue
  <2>1. /\ write_mutex = 0 /\ UNCHANGED <<accepted, sent>> /\ write_pc[g] = "lock"
        /\ write_pc' = [write_pc EXCEPT ![g] = "send"]
        /\ current' = [current EXCEPT ![g] = Head(outbound_q)]
        /\ front_to' = [front_to EXCEPT ![g] = accepted[Head(outbound_q)].to]
        /\ todo' = [todo EXCEPT ![g] = dest_list] /\ outbound_q' = Tail(outbound_q)
    BY <1>2 DEF WritePop
  <2>2. Head(outbound_q) = m /\ m \in 1..Len(accepted) BY <1>2, <2>0, QueueFacts DEF OutInv
  <2>3. Popped \in Nat /\ Popped' = m
    <3>1. Len(outbound_q') = Len(outbound_q) - 1 /\ Len(outbound_q) \in Nat /\ Len(accepted) \in Nat
      BY <1>2, <2>1, HeadTail DEF TypeOK, OutType
    <3>2. Popped \in Nat /\ accepted' = accepted BY <2>1 DEF OutInv, OutQueue
    <3> QED BY <2>0, <3>1, <3>2 DEF Popped
  <2>4. dest_list = Dests
    <3>1. gens > 0 BY <2>1, CountsAssumption DEF ReadyInv, Spawned, TypeOK, LifeType, Gens
    <3> QED BY <3>1 DEF Configured
  <2>5. \A h \in Gens : write_pc[h] # "send" /\ current[h] = 0
    BY <2>1 DEF OutInv, Writing, Gens, IdleWriters
  <2>6. /\ current'[g] = m /\ front_to'[g] = accepted[m].to /\ todo'[g] = Dests
        /\ \A h \in Gens : h # g => current'[h] = 0
        /\ write_pc'[g] = "send"
    BY <2>1, <2>2, <2>4, <2>5 DEF TypeOK, WriterType
  <2>7. IdleWriters' BY <2>1, <2>6 DEF IdleWriters
  <2>8. UNCHANGED <<Recipients(m), Addressed(m)>> /\ \A n \in 1..Popped : UNCHANGED <<Recipients(n), Addressed(n), RouteKept(n)>>
    BY <2>1 DEF Recipients, Addressed, RouteKept
  <2>9. Recipients(m) = {}
    <3> SUFFICES ASSUME NEW d \in Dests, NEW i \in DOMAIN sent[d] PROVE sent[d][i] # m
      BY DEF Recipients, Elements
    <3>1. i \in 1..Len(sent[d]) /\ sent[d][i] \in Messages
      BY SequenceIsFunction, ElementType DEF TypeOK, WriterType
    <3>2. sent[d][i] <= Popped BY <3>1 DEF OutInv, SentSoFar
    <3>3. sent[d][i] \in Nat BY <3>1 DEF Messages
    <3> QED BY <2>0, <2>3, <3>2, <3>3
  <2>10. Addressed(m) \subseteq Dests BY DEF Addressed
  <2>11. ASSUME NEW n \in 1..Popped', RouteKept(n)'
         PROVE  /\ (\A h \in Gens : current'[h] # n) => Recipients(n)' = Addressed(n)'
                /\ \A h \in Gens : current'[h] = n =>
                     front_to'[h] = accepted'[n].to /\ Recipients(n)' = Addressed(n)' \ todo'[h]
    <3>1. CASE n = m
      <4>1. \A h \in Gens : current'[h] = n => h = g BY <2>0, <2>3, <2>6, <3>1
      <4> QED BY <2>1, <2>6, <2>8, <2>9, <2>10, <3>1, <4>1
    <3>2. CASE n # m
      <4>1. n \in 1..Popped /\ n # 0 BY <2>0, <2>3, <2>11, <3>2
      <4>2. RouteKept(n) BY <2>8, <2>11, <4>1
      <4>3. Recipients(n) = Addressed(n) BY <2>5, <4>1, <4>2 DEF RoutedSoFar
      <4>4. \A h \in Gens : current'[h] # n BY <2>6, <3>2, <4>1
      <4> QED BY <2>8, <4>1, <4>3, <4>4
    <3> QED BY <3>1, <3>2
  <2>12. RoutedSoFar' BY <2>11 DEF RoutedSoFar
  <2> QED BY <2>7, <2>12
<1> QED BY <1>1, <1>2

LEMMA RouteSend ==
  ASSUME TypeOK, OutInv, IdleWriters, RoutedSoFar, NEW g \in Gens, NEW d \in Dests, WriteSend(g, d)
  PROVE  IdleWriters' /\ RoutedSoFar'
<1>0. PICK m \in 0..MaxSend : m = current[g] BY DEF TypeOK, WriterType
<1>1. /\ UNCHANGED <<accepted, outbound_q, write_pc, current>>
      /\ write_pc[g] = "send" /\ d \in todo[g] /\ todo' = [todo EXCEPT ![g] = todo[g] \ {d}]
      /\ IF front_to[g] \in {All, d}
         THEN /\ sent' = [sent EXCEPT ![d] = Append(sent[d], m)]
              /\ front_to' = [front_to EXCEPT ![g] = accepted[m].overlay]
         ELSE UNCHANGED <<sent, front_to>>
  BY <1>0 DEF WriteSend, outq
<1>2. m = Popped /\ m \in 1..Len(accepted) /\ m \in Messages /\ m \in 1..Popped /\ UNCHANGED Popped
  BY <1>0, <1>1 DEF OutInv, Writing, TypeOK, WriterType, Messages, Popped
<1>3. \A h \in Gens : current[h] = m => h = g
  <2>1. m # 0 BY <1>2
  <2> QED BY <1>0, <1>1, <2>1, OneSender DEF OutInv, IdleWriters
<1>4. \A n : UNCHANGED <<Addressed(n), RouteKept(n)>> BY <1>1 DEF Addressed, RouteKept
<1>5. ASSUME NEW n \in 1..Popped, n # m PROVE UNCHANGED Recipients(n)
  <2>1. CASE UNCHANGED sent BY <2>1 DEF Recipients
  <2>2. CASE sent' = [sent EXCEPT ![d] = Append(sent[d], m)]
    <3>1. \A e \in Dests : n \in Elements(sent'[e]) <=> n \in Elements(sent[e])
      <4> SUFFICES ASSUME NEW e \in Dests PROVE n \in Elements(sent'[e]) <=> n \in Elements(sent[e]) OBVIOUS
      <4>1. CASE e # d BY <2>2, <4>1 DEF TypeOK, WriterType
      <4>2. CASE e = d
        <5>1. sent[d] \in Seq(Messages) /\ sent'[e] = Append(sent[d], m) BY <2>2, <4>2 DEF TypeOK, WriterType
        <5>2. /\ Len(sent[d]) \in Nat /\ DOMAIN sent[d] = 1..Len(sent[d]) /\ DOMAIN sent'[e] = 1..(Len(sent[d]) + 1)
              /\ \A i \in 1..Len(sent[d]) : sent'[e][i] = sent[d][i]
              /\ sent'[e][Len(sent[d]) + 1] = m
          BY <1>2, <5>1, AppendFacts
        <5>3. ASSUME NEW i \in DOMAIN sent'[e], sent'[e][i] = n PROVE i \in DOMAIN sent[d] /\ sent[d][i] = n
          <6>1. i \in 1..(Len(sent[d]) + 1) /\ i # Len(sent[d]) + 1 BY <1>5, <5>2, <5>3
          <6>2. i \in 1..Len(sent[d]) BY <5>2, <6>1
          <6> QED BY <5>2, <5>3, <6>2
        <5>4. \A i \in DOMAIN sent[d] : i \in DOMAIN sent'[e] /\ sent'[e][i] = sent[d][i] BY <5>2
        <5> QED BY <4>2, <5>3, <5>4 DEF Elements
      <4> QED BY <4>1, <4>2
    <3> QED BY <3>1 DEF Recipients
  <2> QED BY <1>1, <2>1, <2>2
<1>6. ASSUME RouteKept(m)
      PROVE  front_to'[g] = accepted[m].to /\ Recipients(m)' = Addressed(m) \ todo'[g]
  <2>1. front_to[g] = accepted[m].to /\ Recipients(m) = Addressed(m) \ todo[g] BY <1>0, <1>2, <1>6 DEF RoutedSoFar
  <2>2. todo'[g] = todo[g] \ {d} BY <1>1 DEF TypeOK, WriterType
  <2>3. CASE front_to[g] \in {All, d}
    <3>1. front_to'[g] = accepted[m].to BY <1>1, <1>6, <2>3 DEF RouteKept, TypeOK, WriterType
    <3>2. d \in Addressed(m) BY <2>1, <2>3 DEF Addressed
    <3>3. Recipients(m)' = Recipients(m) \cup {d}
      <4>1. \A e \in Dests : e # d => sent'[e] = sent[e] BY <1>1, <2>3 DEF TypeOK, WriterType
      <4>2. sent[d] \in Seq(Messages) /\ sent'[d] = Append(sent[d], m) BY <1>1, <2>3 DEF TypeOK, WriterType
      <4>3. Len(sent[d]) + 1 \in DOMAIN sent'[d] /\ sent'[d][Len(sent[d]) + 1] = m
        BY <1>2, <4>2, AppendFacts
      <4>4. m \in Elements(sent'[d]) BY <4>3 DEF Elements
      <4> QED BY <4>1, <4>4 DEF Recipients
    <3> QED BY <2>1, <2>2, <3>1, <3>2, <3>3
  <2>4. CASE front_to[g] \notin {All, d}
    <3>1. d \notin Addressed(m) BY <2>1, <2>4 DEF Addressed
    <3>2. UNCHANGED <<sent, front_to>> BY <1>1, <2>4
    <3>3. Recipients(m)' = Recipients(m) BY <3>2 DEF Recipients
    <3> QED BY <2>1, <2>2, <3>1, <3>2, <3>3
  <2> QED BY <2>3, <2>4
<1>7. ASSUME NEW n \in 1..Popped', RouteKept(n)'
      PROVE  /\ (\A h \in Gens : current'[h] # n) => Recipients(n)' = Addressed(n)'
             /\ \A h \in Gens : current'[h] = n =>
                  front_to'[h] = accepted'[n].to /\ Recipients(n)' = Addressed(n)' \ todo'[h]
  <2>1. n \in 1..Popped /\ RouteKept(n) BY <1>2, <1>4, <1>7
  <2>2. CASE n = m
    <3>1. ~(\A h \in Gens : current'[h] # n) BY <1>0, <1>1, <2>2
    <3>2. \A h \in Gens : current'[h] = n => h = g BY <1>1, <1>3, <2>2
    <3> QED BY <1>1, <1>4, <1>6, <2>1, <2>2, <3>1, <3>2
  <2>3. CASE n # m
    <3>1. \A h \in Gens : current[h] = n => h # g BY <1>0, <2>3
    <3>2. \A h \in Gens : h # g => todo'[h] = todo[h] /\ front_to'[h] = front_to[h]
      BY <1>1 DEF TypeOK, WriterType
    <3> QED BY <1>1, <1>4, <1>5, <2>1, <2>3, <3>1, <3>2 DEF RoutedSoFar
  <2> QED BY <2>2, <2>3
<1>8. RoutedSoFar' BY <1>7 DEF RoutedSoFar
<1> QED BY <1>1, <1>8 DEF IdleWriters

LEMMA RouteDone ==
  ASSUME TypeOK, OutInv, IdleWriters, RoutedSoFar, NEW g \in Gens, WriteDone(g)
  PROVE  IdleWriters' /\ RoutedSoFar'
<1>1. /\ UNCHANGED <<outbound_q, accepted, front_to, todo, sent>>
      /\ write_pc[g] = "send" /\ todo[g] = {} /\ current' = [current EXCEPT ![g] = 0]
      /\ write_pc' = [write_pc EXCEPT ![g] = "check"]
  BY DEF WriteDone
<1>2. current'[g] = 0 /\ \A h \in Gens : h # g => current'[h] = current[h] /\ write_pc'[h] = write_pc[h]
  BY <1>1 DEF TypeOK, WriterType
<1>3. UNCHANGED Popped BY <1>1 DEF Popped
<1>4. \A n : UNCHANGED <<Recipients(n), Addressed(n), RouteKept(n)>>
  BY <1>1 DEF Recipients, Addressed, RouteKept
<1>5. ASSUME NEW n \in 1..Popped', RouteKept(n)'
      PROVE  /\ (\A h \in Gens : current'[h] # n) => Recipients(n)' = Addressed(n)'
             /\ \A h \in Gens : current'[h] = n =>
                  front_to'[h] = accepted'[n].to /\ Recipients(n)' = Addressed(n)' \ todo'[h]
  <2>1. n \in 1..Popped /\ RouteKept(n) /\ n # 0 BY <1>3, <1>4, <1>5
  <2>2. current[g] = n => Recipients(n) = Addressed(n) \ {} BY <1>1, <2>1 DEF RoutedSoFar
  <2>3. (\A h \in Gens : current'[h] # n) => Recipients(n) = Addressed(n)
    <3>1. CASE current[g] = n BY <2>2, <3>1
    <3>2. CASE current[g] # n BY <1>2, <2>1, <3>2 DEF RoutedSoFar
    <3> QED BY <3>1, <3>2
  <2>4. \A h \in Gens : current'[h] = n => h # g /\ current[h] = n BY <1>2, <2>1
  <2>5. \A h \in Gens : current'[h] = n => front_to[h] = accepted[n].to /\ Recipients(n) = Addressed(n) \ todo[h]
    BY <2>1, <2>4 DEF RoutedSoFar
  <2> QED BY <1>1, <1>4, <2>3, <2>5
<1>6. RoutedSoFar' BY <1>5 DEF RoutedSoFar
<1> QED BY <1>2, <1>6 DEF IdleWriters

LEMMA RouteAccepts ==
  ASSUME TypeOK, OutInv, IdleWriters, RoutedSoFar,
         NEW to \in Addressees, NEW overlay \in Overlays \cup {to}, SendMessage(to, overlay)
  PROVE  IdleWriters' /\ RoutedSoFar'
<1>1. /\ UNCHANGED <<write_pc, current, front_to, todo, sent>>
      /\ accepted' = Append(accepted, [to |-> to, overlay |-> overlay])
      /\ outbound_q' = Append(outbound_q, Len(accepted) + 1) /\ Len(accepted) < MaxSend
  BY DEF SendMessage, writer
<1>2. [to |-> to, overlay |-> overlay] \in [to : Addressees, overlay : Words] BY DEF Words
<1>3. Len(accepted) \in Nat /\ Len(outbound_q) \in Nat /\ Len(accepted) + 1 \in Messages
  BY <1>1, CountsAssumption DEF TypeOK, OutType, Messages
<1>4. /\ Len(accepted') = Len(accepted) + 1 /\ Len(outbound_q') = Len(outbound_q) + 1
      /\ \A n \in 1..Len(accepted) : accepted'[n] = accepted[n]
  BY <1>1, <1>2, <1>3, AppendFacts DEF TypeOK, OutType
<1>5. UNCHANGED Popped /\ \A n \in 1..Popped : n \in 1..Len(accepted)
  BY <1>3, <1>4 DEF Popped, OutInv, OutQueue
<1>6. \A n \in 1..Popped : accepted'[n] = accepted[n] BY <1>4, <1>5
<1>7. \A n \in 1..Popped : UNCHANGED <<Recipients(n), Addressed(n), RouteKept(n)>>
  BY <1>1, <1>6 DEF Recipients, Addressed, RouteKept
<1>8. RoutedSoFar' BY <1>1, <1>5, <1>6, <1>7 DEF RoutedSoFar
<1> QED BY <1>1, <1>8 DEF IdleWriters

LEMMA RouteStep ==
  IInv /\ Configured /\ IdleWriters /\ RoutedSoFar /\ [Next]_vars => Configured' /\ IdleWriters' /\ RoutedSoFar'
<1> SUFFICES ASSUME IInv, Configured, IdleWriters, RoutedSoFar, [Next]_vars
             PROVE  Configured' /\ IdleWriters' /\ RoutedSoFar'
  OBVIOUS
<1>0. TypeOK /\ OutInv /\ ReadyInv BY DEF IInv
<1>1. Configured' BY <1>0, ConfiguredStep
<1>2. CASE UNCHANGED <<outq, writer>>
  <2>1. UNCHANGED <<accepted, outbound_q, write_pc, current, front_to, todo, sent>> BY <1>2 DEF outq, writer
  <2> QED BY <1>1, <2>1, RouteFrame DEF IdleWriters
<1>3. ASSUME NEW c \in Callers, Caller(c) PROVE IdleWriters' /\ RoutedSoFar'
  <2>1. CASE StartWorkers(c)
    <3>1. UNCHANGED <<accepted, outbound_q, current, front_to, todo, sent>> /\ gens < MaxStart
          /\ write_pc' = [write_pc EXCEPT ![gens + 1] = "check"]
      BY <2>1 DEF StartWorkers, outq
    <3>2. gens + 1 \in Gens /\ gens + 1 > gens
      BY <1>0, <3>1, CountsAssumption DEF TypeOK, LifeType, Gens
    <3>3. write_pc[gens + 1] = "none" BY <1>0, <3>2 DEF ReadyInv, Spawned
    <3>4. IdleWriters' BY <1>0, <3>1, <3>2, <3>3 DEF IdleWriters, TypeOK, WriterType
    <3> QED BY <3>1, <3>4, RouteFrame
  <2>2. CASE ~StartWorkers(c)
    <3>1. UNCHANGED <<outq, writer>>
      BY <1>3, <2>2 DEF Caller, StartEnter, StartOpens, StartOpenFails, StartEpollFails, StarterRecv,
         StarterRecvNothing, StarterPush, RegisterBegin, RegisterEnd, StopEnter, StopJoins, StopReturns
    <3> QED BY <1>2, <3>1
  <2> QED BY <2>1, <2>2
<1>4. ASSUME NEW g \in Gens, WriteThread(g) PROVE IdleWriters' /\ RoutedSoFar'
  <2>1. CASE WriteCheck(g)
    <3>1. UNCHANGED <<accepted, outbound_q, current, front_to, todo, sent>> /\ write_pc[g] = "check"
          /\ write_pc' = [write_pc EXCEPT ![g] = "lock"]
      BY <2>1 DEF WriteCheck, outq
    <3>2. IdleWriters' BY <1>0, <3>1 DEF IdleWriters, TypeOK, WriterType
    <3> QED BY <3>1, <3>2, RouteFrame
  <2> QED BY <1>0, <1>4, <2>1, RoutePop, RouteSend, RouteDone DEF WriteThread
<1>5. ASSUME \/ \E g \in Gens : EpollThread(g) \/ CallbackThread(g)
             \/ \E s \in Sockets : Arrive(s) \/ IcmpError(s)
             \/ \E g \in Gens : CallbackStays(g)
             \/ UNCHANGED vars
      PROVE  IdleWriters' /\ RoutedSoFar'
  <2>1. UNCHANGED <<outq, writer>>
    BY <1>5 DEF EpollThread, EpollReturns, EpollFails, EpollRecv, EpollRecvNothing, EpollPush,
       CallbackThread, CallbackCheck, CallbackLock, CallbackCalls, CallbackCallsHalf, CallbackPops, Arrive,
       IcmpError, CallbackStays, vars
  <2> QED BY <1>2, <2>1
<1>6. ASSUME NEW to \in Addressees, NEW overlay \in Overlays \cup {to}, SendMessage(to, overlay)
      PROVE  IdleWriters' /\ RoutedSoFar'
  BY <1>0, <1>6, RouteAccepts
<1> QED BY <1>1, <1>3, <1>4, <1>5, <1>6 DEF Next

LEMMA RouteInit == Init => Configured /\ IdleWriters /\ RoutedSoFar
<1> SUFFICES ASSUME Init PROVE Configured /\ IdleWriters /\ RoutedSoFar OBVIOUS
<1>1. Popped = 0 BY DEF Init, Popped
<1>2. Configured /\ IdleWriters BY DEF Init, Configured, IdleWriters
<1> QED BY <1>1, <1>2 DEF RoutedSoFar

\* A message that write() is done with went to every destination when it is addressed
\* to -1, and to the one of its DestinationID otherwise, whatever start(), stop() and
\* other writers do meanwhile, if its payload did not take the place of its node.
THEOREM UdpRouted == Spec => []Routed
<1>1. IInv /\ RoutedSoFar => Routed
  <2> SUFFICES ASSUME IInv, RoutedSoFar, NEW n \in Finished, RouteKept(n)
               PROVE  Recipients(n) = Addressed(n)
    BY DEF Routed
  <2>1. /\ outbound_q \in Seq(Messages) /\ accepted \in Seq([to : Addressees, overlay : Words])
        /\ Popped \in Nat /\ \A i \in 1..Len(outbound_q) : outbound_q[i] = Popped + i
    BY DEF IInv, TypeOK, OutType, OutInv, OutQueue
  <2>2. /\ DOMAIN outbound_q = 1..Len(outbound_q) /\ Len(outbound_q) \in Nat
        /\ DOMAIN accepted = 1..Len(accepted) /\ Len(accepted) \in Nat
    BY <2>1, SequenceIsFunction
  <2>3. n \in 1..Len(accepted) /\ n \notin Elements(outbound_q) /\ \A g \in Gens : current[g] # n
    BY <2>2 DEF Finished
  <2>4. n \in 1..Popped
    <3> SUFFICES ASSUME n > Popped PROVE FALSE BY <2>1, <2>3
    <3>1. n - Popped \in 1..Len(outbound_q) BY <2>1, <2>2, <2>3 DEF Popped
    <3>2. outbound_q[n - Popped] = n BY <2>1, <2>2, <2>3, <3>1
    <3> QED BY <2>2, <2>3, <3>1, <3>2 DEF Elements
  <2> QED BY <2>3, <2>4 DEF RoutedSoFar
<1> QED BY <1>1, RouteStep, RouteInit, IInvHolds, PTL DEF Spec
=============================================================================
