------------------------- MODULE TcpServerHandlerProofs -------------------------
(***************************************************************************)
(* Theorems about TcpServerHandler for every value of its constants: any   *)
(* number of callers, connections, messages and chunks.                    *)
(*                                                                         *)
(* The epoll thread's nesting is a number: Nesting and Counting say how    *)
(* many accepts are in progress at each depth, which is what               *)
(* _num_users_entered lags by.  From it NewKeys and ClientKeys say which   *)
(* key each of the two maps can have next, so that no insert() meets a key *)
(* that is taken.                                                          *)
(*                                                                         *)
(* Outbound: the queue holds the messages not popped yet (OutQueue), each  *)
(* writer has its own message (Writing), a client that already has it is   *)
(* behind the writer's iterator (Sent), and one of its audience that has   *)
(* not is at the iterator or after it (Reach), as long as that iterator    *)
(* was not advanced from an erased element (Astray).                       *)
(*                                                                         *)
(* Inbound: a chunk in a receive buffer, in the epoll thread's hand or     *)
(* offered to the callback is younger than those of its sender before it   *)
(* (OrderInv).                                                             *)
(***************************************************************************)
EXTENDS TcpServerHandler, QueueLemmas, WellFoundedInduction

\* Calls of accept_connection() that have accepted and not counted: one per two levels
\* of nesting, for accept_connection() and read() call one another.
InProgress ==
  CASE epoll_pc \in {"write", "count"}        -> depth \div 2 + 1
    [] epoll_pc = "accept"                    -> depth \div 2
    [] epoll_pc \in {"read", "scan", "push"}  -> (depth + 1) \div 2
    [] OTHER                                  -> 0

Nesting ==
  /\ epoll_pc \in {"none", "wait", "dead"} => depth = 0
  /\ epoll_pc = "write" <=> write_pc["epoll"] # "none"
  /\ ~Spawned => epoll_pc = "none" /\ accepted = 0 /\ write_pc["write"] = "none"
Counting ==
  /\ num_users_entered + InProgress <= accepted
  /\ epoll_open => num_users_entered + InProgress = accepted

\* The callback thread is the only consumer.
TurnInv == callback_pc \in {"call", "pop"} => inbound_q # <<>>

\* The newest connection is the only one in newly_added, until write() of the accept
\* clears it; no client has a key that is not given out yet.
AtRest ==
  \/ epoll_pc \in {"none", "wait", "dead", "accept"}
  \/ depth = 0 /\ epoll_pc \in {"read", "scan", "push"}
NewKeys ==
  \A k \in Keys : newly_added[k] # 0 =>
    /\ k = num_users_entered /\ newly_added[k] = accepted
    /\ write_pc["epoll"] \in {"newly", "clear"}
    /\ client_socket[k] \in {0, newly_added[k]}
    /\ \A j \in Keys : j # k => client_socket[j] # newly_added[k]
    /\ write_pc["epoll"] = "clear" => newly_added[k] \in closed \cup {client_socket[k]}
ClientKeys ==
  \A k \in Keys : client_socket[k] # 0 =>
    /\ k <= num_users_entered /\ client_socket[k] <= accepted
    /\ AtRest => k < num_users_entered
    /\ \A j \in Keys : client_socket[j] = client_socket[k] => j = k

\* The outbound queue holds the messages not popped yet, in order; the two writers
\* have different ones of those popped.
Popped == queued - Len(outbound_q)
OutQueue ==
  /\ Popped \in Nat
  /\ \A i \in 1..Len(outbound_q) : outbound_q[i] = Popped + i
Writing ==
  /\ \A t \in Writers : /\ write_pc[t] \in {"begin", "send"} <=> message[t] # 0
                        /\ message[t] <= Popped
  /\ message["epoll"] = message["write"] => message["epoll"] = 0

\* What send() took was popped before, and not by a write() that is only beginning;
\* a client that has the message of a writer is behind the writer's iterator.
Has(c, m) == m \in Elements(received[c])
Sent ==
  \A c \in Conns : \A m \in Messages : Has(c, m) =>
    /\ m <= Popped /\ c <= accepted
    /\ \A t \in Writers : message[t] = m =>
         /\ write_pc[t] = "send"
         /\ m \notin Astray => \A k \in Keys : c \in {client_socket[k], newly_added[k]} => k < pos[t]
Reach ==
  /\ \A t \in Writers : write_pc[t] = "send" /\ message[t] \notin Astray =>
       \A c \in audience[message[t]] \ closed :
         Has(c, message[t]) \/ \E k \in Keys : k >= pos[t] /\ client_socket[k] = c
  /\ \A m \in (1..Popped) \ Astray : (\A t \in Writers : message[t] # m) =>
       \A c \in audience[m] \ closed : Has(c, m)

\* A chunk is younger than those of its sender that went before it.
Waiting == IF Turn THEN Tail(inbound_q) ELSE inbound_q
Offered == handled \o Waiting
InBuffers ==
  \A c \in Conns : \A i \in DOMAIN rcvbuf[c] :
    /\ rcvbuf[c][i] \in DOMAIN sender /\ sender[rcvbuf[c][i]] = c
    /\ \A j \in DOMAIN rcvbuf[c] : i < j => rcvbuf[c][i] < rcvbuf[c][j]
    /\ \A j \in DOMAIN Offered : sender[Offered[j]] = c => Offered[j] < rcvbuf[c][i]
InOffered ==
  \A i \in DOMAIN Offered :
    /\ Offered[i] \in DOMAIN sender
    /\ \A j \in DOMAIN Offered :
         i < j /\ sender[Offered[i]] = sender[Offered[j]] => Offered[i] < Offered[j]
InHand ==
  epoll_pc = "push" =>
    /\ chunk \in DOMAIN sender
    /\ \A i \in DOMAIN Offered : sender[Offered[i]] = sender[chunk] => Offered[i] < chunk
    /\ \A i \in DOMAIN rcvbuf[sender[chunk]] : chunk < rcvbuf[sender[chunk]][i]
OrderInv == InBuffers /\ InOffered /\ InHand

IInv ==
  /\ TypeOK /\ Nesting /\ Counting /\ TurnInv
  /\ NewKeys /\ ClientKeys
  /\ OutQueue /\ Writing /\ Sent /\ SentOnce /\ Reach
  /\ OrderInv

-------------------------------------------------------------------------------
(* The maps *)

LEMMA Bounds ==
  /\ MaxConn \in Nat /\ MaxConn > 0 /\ MaxSend \in Nat /\ MaxChunk \in Nat /\ MaxStart \in Nat
  /\ Conns = 1..MaxConn /\ Keys = 0..(MaxConn - 1) /\ End = MaxConn
  /\ Messages = 1..MaxSend /\ Chunks = 1..MaxChunk /\ MaxStray \in Nat
BY BoundsAssumption DEF Conns, Keys, End, Messages, Chunks

LEMMA SmallestOf ==
  ASSUME NEW S, S \subseteq Nat, S # {}
  PROVE  \E x \in S : \A y \in S : x <= y
<1>1. PICK x \in S : \A y \in S : <<y, x>> \notin OpToRel(<, Nat)
  BY WFMin, NatLessThanWellFounded, Zenon
<1>2. \A y \in S : ~(y < x) BY <1>1, Zenon DEF OpToRel
<1> QED BY <1>2

\* An iterator names the end or an element, and none before it is skipped.
LEMMA FromFacts ==
  ASSUME NEW map \in [Keys -> 0..MaxConn], NEW k \in Nat
  PROVE  /\ From(map, k) \in Keys \cup {End} /\ (From(map, k) >= k \/ From(map, k) = End)
         /\ \A x \in Keys : map[x] # 0 /\ x >= k => From(map, k) <= x
<1> DEFINE S == {x \in Present(map) : x >= k}
<1>1. S \subseteq Keys /\ S \subseteq Nat /\ \A x \in S : x >= k /\ x <= End
  BY Bounds DEF Present
<1>2. \A x \in Keys : map[x] # 0 /\ x >= k => x \in S BY DEF Present
<1>3. CASE S = {}
  <2>1. From(map, k) = End BY <1>3 DEF From
  <2> QED BY <1>2, <1>3, <2>1, Bounds
<1>4. CASE S # {}
  <2>1. From(map, k) = CHOOSE x \in S : \A y \in S : x <= y BY <1>4 DEF From
  <2>2. \E x \in S : \A y \in S : x <= y
    <3> HIDE DEF S
    <3> QED BY <1>1, <1>4, SmallestOf
  <2>3. From(map, k) \in S /\ \A y \in S : From(map, k) <= y
    <3> HIDE DEF S
    <3> QED BY <2>1, <2>2
  <2> QED BY <1>1, <1>2, <2>3, Bounds
<1> QED BY <1>3, <1>4

\* The two ways to look for a client.
LEMMA ClientsFacts ==
  ASSUME NEW map \in [Keys -> 0..MaxConn]
  PROVE  /\ Clients(map) \subseteq Conns
         /\ \A c : c \in Clients(map) <=> c # 0 /\ \E k \in Keys : map[k] = c
<1>1. \A k \in Keys : map[k] # 0 => map[k] \in Conns BY Bounds
<1> QED BY <1>1 DEF Clients, Present

-------------------------------------------------------------------------------
(* Types *)

LEMMA TypeFrame ==
  ASSUME TypeOK
  PROVE  /\ UNCHANGED life => LifeType'
         /\ UNCHANGED net => NetType'
         /\ UNCHANGED reader => ReaderType'
         /\ UNCHANGED users => UsersType'
         /\ UNCHANGED writer => WriterType'
         /\ UNCHANGED outq => OutType'
         /\ UNCHANGED <<inbound_q, user>> => UserType'
<1>1. UNCHANGED life => LifeType' BY DEF TypeOK, LifeType, life
<1>2. UNCHANGED net => NetType' BY DEF TypeOK, NetType, net
<1>3. UNCHANGED reader => ReaderType' BY DEF TypeOK, ReaderType, reader
<1>4. UNCHANGED users => UsersType' BY DEF TypeOK, UsersType, users
<1>5. UNCHANGED writer => WriterType' BY DEF TypeOK, WriterType, writer
<1>6. UNCHANGED outq => OutType' BY DEF TypeOK, OutType, outq
<1>7. UNCHANGED <<inbound_q, user>> => UserType' BY DEF TypeOK, UserType, user
<1> QED BY <1>1, <1>2, <1>3, <1>4, <1>5, <1>6, <1>7

LEMMA TypeInit == Init => TypeOK
<1> SUFFICES ASSUME Init PROVE TypeOK OBVIOUS
<1> USE Bounds
<1>0. 0 \in 0..MaxConn /\ 0 \in 0..MaxSend /\ 0 \in 0..MaxChunk /\ 0 \in 0..MaxStart OBVIOUS
<1>1. LifeType BY <1>0 DEF Init, LifeType
<1>2. NetType
  <2>1. reached \in 0..MaxConn /\ accepted \in 0..reached BY DEF Init
  <2>2. rcvbuf \in [Conns -> Seq(Chunks)] /\ sender \in Seq(Conns) BY DEF Init
  <2> QED BY <2>1, <2>2 DEF Init, NetType
<1>3. ReaderType BY <1>0 DEF Init, ReaderType
<1>4. UsersType BY <1>0 DEF Init, UsersType, Nothing
<1>5. WriterType
  <2>1. message \in [Writers -> 0..MaxSend] BY <1>0 DEF Init
  <2>2. received \in [Conns -> Seq(Messages)] /\ audience \in [Messages -> SUBSET Conns] BY DEF Init
  <2>3. strays \in [Messages -> 0..MaxStray] BY DEF Init
  <2> QED BY <2>1, <2>2, <2>3 DEF Init, WriterType
<1>6. OutType BY <1>0 DEF Init, OutType
<1>8. UserType
  <2>1. inbound_q \in Seq(Chunks) /\ handled \in Seq(Chunks) BY DEF Init
  <2>2. hung \in BOOLEAN BY DEF Init
  <2> QED BY <2>1, <2>2 DEF Init, UserType
<1>7. crashed = "no" BY DEF Init
<1> QED BY <1>1, <1>2, <1>3, <1>4, <1>5, <1>6, <1>7, <1>8 DEF TypeOK

LEMMA TypeCaller ==
  ASSUME TypeOK, NEW c \in Callers, Caller(c)
  PROVE  TypeOK'
<1>1. CASE StartEnter(c)
  <2>1. LifeType' BY <1>1, Bounds DEF TypeOK, LifeType, StartEnter
  <2> QED BY <1>1, <2>1, TypeFrame DEF TypeOK, StartEnter
<1>2. CASE StartSucceeds(c)
  <2>1. LifeType' BY <1>2 DEF TypeOK, LifeType, StartSucceeds
  <2>2. NetType' BY <1>2 DEF TypeOK, NetType, StartSucceeds
  <2>3. ReaderType' BY <1>2 DEF TypeOK, ReaderType, StartSucceeds
  <2>4. WriterType' BY <1>2 DEF TypeOK, WriterType, StartSucceeds
  <2>5. UserType' BY <1>2 DEF TypeOK, UserType, StartSucceeds
  <2> QED BY <1>2, <2>1, <2>2, <2>3, <2>4, <2>5, TypeFrame DEF TypeOK, StartSucceeds
<1>3. CASE StartFails(c) \/ StopEnter(c) \/ StopJoins(c) \/ StopReturnsEarly(c) \/ StopReturns(c)
  <2>1. LifeType'
    BY <1>3 DEF TypeOK, LifeType, StartFails, StopEnter, StopJoins, StopReturnsEarly, StopReturns
  <2> QED BY <1>3, <2>1, TypeFrame DEF TypeOK, StartFails, StopEnter, StopJoins, StopReturnsEarly, StopReturns
<1>4. CASE StopCloses(c)
  <2>0. Clients(client_socket) \subseteq Conns BY ClientsFacts DEF TypeOK, UsersType
  <2>1. LifeType' BY <1>4 DEF TypeOK, LifeType, StopCloses
  <2>2. NetType' BY <1>4, <2>0 DEF TypeOK, NetType, StopCloses
  <2>3. UsersType' BY <1>4, Bounds DEF TypeOK, UsersType, StopCloses, Nothing
  <2> QED BY <1>4, <2>1, <2>2, <2>3, TypeFrame DEF TypeOK, StopCloses
<1>5. CASE RegisterBegin(c) \/ RegisterEnd(c)
  <2>1. LifeType' BY <1>5 DEF TypeOK, LifeType, RegisterBegin, RegisterEnd
  <2>2. UserType' BY <1>5 DEF TypeOK, UserType, RegisterBegin, RegisterEnd
  <2> QED BY <1>5, <2>1, <2>2, TypeFrame DEF TypeOK, RegisterBegin, RegisterEnd
<1> QED BY <1>1, <1>2, <1>3, <1>4, <1>5 DEF Caller

\* The iterators that the actions compute.
LEMMA Iterators ==
  ASSUME TypeOK
  PROVE  /\ From(client_socket, 0) \in Keys \cup {End}
         /\ \A k \in Keys \cup {End} : From(client_socket, k + 1) \in Keys \cup {End}
<1>1. client_socket \in [Keys -> 0..MaxConn] BY DEF TypeOK, UsersType
<1>2. 0 \in Nat /\ \A k \in Keys \cup {End} : k + 1 \in Nat BY Bounds
<1> QED BY <1>1, <1>2, FromFacts

LEMMA AcceptReturnsType ==
  ASSUME TypeOK, epoll_pc \in {"accept", "count"}, AcceptReturns, chunk' = chunk
  PROVE  ReaderType'
<1>1. From(client_socket, 0) \in Keys \cup {End} BY Iterators
<1> QED BY <1>1 DEF TypeOK, ReaderType, AcceptReturns

LEMMA TypeEpoll ==
  ASSUME TypeOK, Counting, EpollThread \/ EpollFails \/ AcceptRefused
  PROVE  TypeOK'
<1>1. CASE EpollReturnsListener
  <2>1. NetType' BY <1>1 DEF TypeOK, NetType, EpollReturnsListener
  <2>2. ReaderType' BY <1>1 DEF TypeOK, ReaderType, EpollReturnsListener
  <2> QED BY <1>1, <2>1, <2>2, TypeFrame DEF TypeOK, EpollReturnsListener
<1>2. ASSUME NEW c \in Conns, EpollReturnsClient(c) PROVE TypeOK'
  <2>1. NetType' BY <1>2 DEF TypeOK, NetType, EpollReturnsClient
  <2>2. ReaderType' BY <1>2 DEF TypeOK, ReaderType, EpollReturnsClient
  <2> QED BY <1>2, <2>1, <2>2, TypeFrame DEF TypeOK, EpollReturnsClient
<1>3. CASE Accept
  <2>1. accepted + 1 \in Conns /\ accepted + 1 \in 0..MaxConn /\ accepted + 1 \in 0..reached
    BY <1>3, Bounds DEF TypeOK, NetType, Accept, Pending
  <2>2. NetType' BY <1>3, <2>1 DEF TypeOK, NetType, Accept
  <2>3. ReaderType' BY <1>3 DEF TypeOK, ReaderType, Accept
  <2>4. UsersType' BY <1>3, <2>1 DEF TypeOK, UsersType, Accept
  <2>5. WriterType' BY <1>3 DEF TypeOK, WriterType, Accept
  <2> QED BY <1>3, <2>2, <2>3, <2>4, <2>5, TypeFrame DEF TypeOK, Accept
<1>4. CASE AcceptFails
  <2>1. ReaderType' BY <1>4, AcceptReturnsType DEF AcceptFails
  <2> QED BY <1>4, <2>1, TypeFrame DEF TypeOK, AcceptFails
<1>5. CASE AcceptCounts
  <2>1. ReaderType' BY <1>5, AcceptReturnsType DEF AcceptCounts
  <2>2. num_users_entered + 1 \in 0..MaxConn
    <3>1. depth \div 2 >= 0 BY DEF TypeOK, ReaderType
    <3>2. num_users_entered + (depth \div 2 + 1) <= accepted
      BY <1>5 DEF Counting, InProgress, AcceptCounts
    <3> QED BY <3>1, <3>2, Bounds DEF TypeOK, ReaderType, UsersType, NetType
  <2>3. UsersType' BY <1>5, <2>2 DEF TypeOK, UsersType, AcceptCounts
  <2> QED BY <1>5, <2>1, <2>3, TypeFrame DEF TypeOK, AcceptCounts
<1>6. CASE ReadAccepts
  <2>1. ReaderType' BY <1>6 DEF TypeOK, ReaderType, ReadAccepts
  <2> QED BY <1>6, <2>1, TypeFrame DEF TypeOK, ReadAccepts
<1>7. CASE ReadBegins
  <2>1. ReaderType' BY <1>7, Iterators DEF TypeOK, ReaderType, ReadBegins
  <2> QED BY <1>7, <2>1, TypeFrame DEF TypeOK, ReadBegins
<1>8. CASE ReadReceives
  <2>1. client_socket[rpos] \in Conns BY <1>8, Bounds DEF TypeOK, UsersType, ReadReceives, Present
  <2>2. PICK c \in Conns : c = client_socket[rpos] BY <2>1
  <2>3. rcvbuf[c] \in Seq(Chunks) /\ rcvbuf[c] # <<>> /\ chunk' = Head(rcvbuf[c])
        /\ rcvbuf' = [rcvbuf EXCEPT ![c] = Tail(rcvbuf[c])]
    BY <1>8, <2>2 DEF TypeOK, NetType, ReadReceives
  <2>4. Head(rcvbuf[c]) \in Chunks /\ Tail(rcvbuf[c]) \in Seq(Chunks) BY <2>3, HeadTail
  <2>5. NetType' BY <1>8, <2>3, <2>4 DEF TypeOK, NetType, ReadReceives
  <2>6. ReaderType' BY <1>8, <2>3, <2>4, Bounds DEF TypeOK, ReaderType, ReadReceives
  <2> QED BY <1>8, <2>5, <2>6, TypeFrame DEF TypeOK, ReadReceives
<1>9. CASE ReadSkips
  <2>1. From(client_socket, rpos + 1) \in Keys \cup {End} BY <1>9, Iterators DEF ReadSkips, Present
  <2>2. ReaderType' BY <1>9, <2>1 DEF TypeOK, ReaderType, ReadSkips
  <2> QED BY <1>9, <2>2, TypeFrame DEF TypeOK, ReadSkips
<1>10. CASE ReadPushes
  <2>0. rpos' \in Keys \cup {End} /\ crashed' \in {crashed, "dangling"}
    BY <1>10, Iterators DEF TypeOK, ReaderType, ReadPushes, ReadAdvances
  <2>1. ReaderType' BY <1>10, <2>0, Bounds DEF TypeOK, ReaderType, ReadPushes
  <2>2. chunk \in Chunks BY <1>10, Bounds DEF TypeOK, ReaderType, ReadPushes
  <2>3. Append(inbound_q, chunk) \in Seq(Chunks) BY <2>2, AppendFacts DEF TypeOK, UserType
  <2>4. UserType' BY <1>10, <2>3 DEF TypeOK, UserType, ReadPushes, user
  <2> QED BY <1>10, <2>0, <2>1, <2>4, TypeFrame DEF TypeOK, ReadPushes
<1>11. CASE ReadDangles
  <2>0. rpos' \in Keys \cup {End} /\ crashed' \in {crashed, "dangling"}
    BY <1>11, Iterators DEF TypeOK, ReaderType, ReadDangles, ReadAdvances
  <2>1. ReaderType' BY <1>11, <2>0 DEF TypeOK, ReaderType, ReadDangles
  <2> QED BY <1>11, <2>0, <2>1, TypeFrame DEF TypeOK, ReadDangles
<1>15. CASE ReadStray
  <2>1. PICK c \in (1..accepted) : /\ rcvbuf[c] # <<>> /\ chunk' = Head(rcvbuf[c])
                                 /\ rcvbuf' = [rcvbuf EXCEPT ![c] = Tail(rcvbuf[c])]
    BY <1>15 DEF ReadStray
  <2>2. c \in Conns BY Bounds DEF TypeOK, NetType
  <2>3. rcvbuf[c] \in Seq(Chunks) BY <2>2 DEF TypeOK, NetType
  <2>4. Head(rcvbuf[c]) \in Chunks /\ Tail(rcvbuf[c]) \in Seq(Chunks) BY <2>1, <2>3, HeadTail
  <2>5. NetType' BY <1>15, <2>1, <2>4 DEF TypeOK, NetType, ReadStray
  <2>6. ReaderType' BY <1>15, <2>1, <2>4, Bounds DEF TypeOK, ReaderType, ReadStray
  <2> QED BY <1>15, <2>5, <2>6, TypeFrame DEF TypeOK, ReadStray
<1>12. CASE ReadReturns
  <2>1. ReaderType' BY <1>12 DEF TypeOK, ReaderType, ReadReturns
  <2> QED BY <1>12, <2>1, TypeFrame DEF TypeOK, ReadReturns
<1>13. CASE EpollFails
  <2>1. LifeType' BY <1>13 DEF TypeOK, LifeType, EpollFails, CloseListener
  <2>2. NetType' BY <1>13 DEF TypeOK, NetType, EpollFails, CloseListener
  <2>3. ReaderType' BY <1>13 DEF TypeOK, ReaderType, EpollFails
  <2> QED BY <1>13, <2>1, <2>2, <2>3, TypeFrame DEF TypeOK, EpollFails
<1>14. CASE AcceptRefused
  <2>1. accepted + 1 \in Conns /\ accepted + 1 \in 0..reached
    BY <1>14, Bounds DEF TypeOK, NetType, AcceptRefused, Pending
  <2>2. LifeType' BY <1>14 DEF TypeOK, LifeType, AcceptRefused, CloseListener
  <2>3. NetType' BY <1>14, <2>1 DEF TypeOK, NetType, AcceptRefused, CloseListener
  <2>4. ReaderType' BY <1>14, AcceptReturnsType DEF AcceptRefused
  <2> QED BY <1>14, <2>2, <2>3, <2>4, TypeFrame DEF TypeOK, AcceptRefused
<1> QED BY <1>1, <1>2, <1>3, <1>4, <1>5, <1>6, <1>7, <1>8, <1>9, <1>10, <1>11, <1>12, <1>13, <1>14,
        <1>15
     DEF EpollThread

\* What ++ of an erased iterator does to the variables of its writer.
LEMMA GoesAstrayType ==
  ASSUME TypeOK, NEW t \in Writers, message[t] \in Messages, GoesAstray(t)
  PROVE  strays' \in [Messages -> 0..MaxStray] /\ pos' \in [Writers -> Keys \cup {End}]
<1>1. strays[message[t]] + 1 \in 0..MaxStray BY Bounds DEF TypeOK, WriterType, GoesAstray
<1> QED BY <1>1 DEF TypeOK, WriterType, GoesAstray

LEMMA TypeWrite ==
  ASSUME TypeOK, Writing, NEW t \in Writers, WriteSteps(t)
  PROVE  TypeOK'
<1>0. /\ pos[t] \in Keys \cup {End} /\ From(client_socket, 0) \in Keys \cup {End}
      /\ From(client_socket, pos[t] + 1) \in Keys \cup {End}
  BY Iterators DEF TypeOK, WriterType
<1>1. CASE WriteInserts(t)
  <2>1. UsersType' BY <1>1 DEF TypeOK, UsersType, WriteInserts
  <2>2. WriterType' BY <1>1 DEF TypeOK, WriterType, WriteInserts, Write
  <2> QED BY <1>1, <2>1, <2>2, TypeFrame DEF TypeOK, WriteInserts
<1>2. CASE WriteNoneNew(t) \/ WriteChecks(t)
  <2>1. WriterType' BY <1>2 DEF TypeOK, WriterType, WriteNoneNew, WriteChecks, Write
  <2> QED BY <1>2, <2>1, TypeFrame DEF TypeOK, WriteNoneNew, WriteChecks
<1>3. CASE WriteClears(t)
  <2>1. UsersType' BY <1>3, Bounds DEF TypeOK, UsersType, WriteClears, Nothing
  <2>2. WriterType' BY <1>3 DEF TypeOK, WriterType, WriteClears, Write
  <2> QED BY <1>3, <2>1, <2>2, TypeFrame DEF TypeOK, WriteClears
<1>4. CASE WriteIdle(t)
  <2>1. WriterType' BY <1>4 DEF TypeOK, WriterType, WriteIdle, WriteReturns, Write
  <2>2. ReaderType' BY <1>4 DEF TypeOK, ReaderType, WriteIdle, WriteReturns
  <2> QED BY <1>4, <2>1, <2>2, TypeFrame DEF TypeOK, WriteIdle
<1>5. CASE WritePops(t)
  <2>1. outbound_q \in Seq(Messages) /\ outbound_q # <<>> BY <1>5 DEF TypeOK, OutType, WritePops
  <2>2. Head(outbound_q) \in Messages /\ Tail(outbound_q) \in Seq(Messages) BY <2>1, HeadTail
  <2>a. Head(outbound_q) \in 0..MaxSend BY <2>2, Bounds
  <2>b. message' \in [Writers -> 0..MaxSend] BY <1>5, <2>a DEF TypeOK, WriterType, WritePops
  <2>c. write_pc' \in [Writers -> {"none", "newly", "clear", "check", "lock", "begin", "send"}]
    BY <1>5 DEF TypeOK, WriterType, WritePops, Write
  <2>3. WriterType' BY <1>5, <2>b, <2>c DEF TypeOK, WriterType, WritePops
  <2>4. OutType' BY <1>5, <2>2 DEF TypeOK, OutType, WritePops
  <2> QED BY <1>5, <2>3, <2>4, TypeFrame DEF TypeOK, WritePops
<1>6. CASE WriteUnderflows(t)
  BY <1>6, TypeFrame DEF TypeOK, WriteUnderflows
<1>7. CASE WriteBegins(t)
  <2>1. Clients(client_socket) \subseteq Conns BY ClientsFacts DEF TypeOK, UsersType
  <2>2. WriterType' BY <1>0, <1>7, <2>1 DEF TypeOK, WriterType, WriteBegins, Write
  <2> QED BY <1>7, <2>2, TypeFrame DEF TypeOK, WriteBegins
<1>8. CASE WriteSends(t)
  <2>1. PICK k \in Present(client_socket) :
          At(t, k) /\ received' = [received EXCEPT ![client_socket[k]] = Append(@, message[t])]
    BY <1>8 DEF WriteSends
  <2>2. client_socket[k] \in Conns BY Bounds DEF TypeOK, UsersType, Present
  <2>3. message[t] \in Messages BY <2>1, Bounds DEF TypeOK, WriterType, Writing, At
  <2>4. \A c \in Conns : Append(received[c], message[t]) \in Seq(Messages)
    BY <2>3, AppendFacts DEF TypeOK, WriterType
  <2>5. received' \in [Conns -> Seq(Messages)] BY <2>1, <2>2, <2>4 DEF TypeOK, WriterType
  <2>6. pos' \in [Writers -> Keys \cup {End}]
    BY <1>0, <1>8 DEF TypeOK, WriterType, WriteSends, Advance, users
  <2>7. WriterType' BY <1>8, <2>5, <2>6 DEF TypeOK, WriterType, WriteSends
  <2> QED BY <1>8, <2>7, TypeFrame DEF TypeOK, WriteSends
<1>9. CASE WriteSendFails(t)
  <2>1. PICK k \in Present(client_socket) :
          /\ At(t, k) /\ closed' = closed \cup {client_socket[k]}
          /\ client_edge' = client_edge \ {client_socket[k]}
          /\ client_socket' = [client_socket EXCEPT ![k] = 0]
    BY <1>9 DEF WriteSendFails
  <2>2. client_socket[k] \in Conns BY Bounds DEF TypeOK, UsersType, Present
  <2>3. NetType' BY <1>9, <2>1, <2>2 DEF TypeOK, NetType, WriteSendFails
  <2>a. 0 \in 0..MaxConn BY Bounds
  <2>4. client_socket' \in [Keys -> 0..MaxConn] BY <2>1, <2>a DEF TypeOK, UsersType
  <2>5. UsersType' BY <1>9, <2>4 DEF TypeOK, UsersType, WriteSendFails
  <2>6. message[t] \in Messages BY <2>1, Bounds DEF TypeOK, WriterType, Writing, At
  <2>7. /\ strays' \in [Messages -> 0..MaxStray] /\ pos' \in [Writers -> Keys \cup {End}]
        /\ received' = received /\ crashed' \in {crashed, "dangling"}
    BY <1>9, <2>6, GoesAstrayType DEF TypeOK, WriterType, WriteSendFails, Dies
  <2>8. WriterType' BY <1>9, <2>7 DEF TypeOK, WriterType, WriteSendFails
  <2> QED BY <1>9, <2>3, <2>5, <2>7, <2>8, TypeFrame DEF TypeOK, WriteSendFails
<1>10. CASE WriteSignalled(t)
  BY <1>10, TypeFrame DEF TypeOK, WriteSignalled
<1>11. CASE WriteDangles(t)
  <2>1. message[t] \in Messages BY <1>11, Bounds DEF TypeOK, WriterType, Writing, WriteDangles, WriteGone
  <2>2. /\ strays' \in [Messages -> 0..MaxStray] /\ pos' \in [Writers -> Keys \cup {End}]
        /\ crashed' \in {crashed, "dangling"}
    BY <1>11, <2>1, GoesAstrayType DEF TypeOK, WriterType, WriteDangles, Dies
  <2>3. 1..accepted \subseteq Conns BY Bounds DEF TypeOK, NetType
  <2>4. \A c \in Conns : Append(received[c], message[t]) \in Seq(Messages)
    BY <2>1, AppendFacts DEF TypeOK, WriterType
  <2>5. received' \in [Conns -> Seq(Messages)]
    BY <1>11, <2>3, <2>4 DEF TypeOK, WriterType, WriteDangles, Dies
  <2>6. WriterType' BY <1>11, <2>2, <2>5 DEF TypeOK, WriterType, WriteDangles
  <2> QED BY <1>11, <2>2, <2>6, TypeFrame DEF TypeOK, WriteDangles
<1>12. CASE WriteEnds(t)
  <2>1. write_pc' \in [Writers -> {"none", "newly", "clear", "check", "lock", "begin", "send"}]
    BY <1>12 DEF TypeOK, WriterType, WriteEnds, WriteReturns, Write
  <2>a. 0 \in 0..MaxSend BY Bounds
  <2>b. message' \in [Writers -> 0..MaxSend] /\ UNCHANGED <<pos, received, audience, strays>>
    BY <1>12, <2>a DEF TypeOK, WriterType, WriteEnds
  <2>2. WriterType' BY <2>1, <2>b DEF TypeOK, WriterType
  <2>3. ReaderType' BY <1>12 DEF TypeOK, ReaderType, WriteEnds, WriteReturns
  <2> QED BY <1>12, <2>2, <2>3, TypeFrame DEF TypeOK, WriteEnds
<1> QED BY <1>1, <1>2, <1>3, <1>4, <1>5, <1>6, <1>7, <1>8, <1>9, <1>10, <1>11, <1>12 DEF WriteSteps

LEMMA TypeOthers ==
  ASSUME TypeOK, TurnInv,
         \/ CallbackThread \/ CallbackStays \/ SendMessage \/ Connect
         \/ \E c \in Conns : ClientSends(c) \/ ClientLeaves(c)
  PROVE  TypeOK'
<1>0. inbound_q # <<>> => Head(inbound_q) \in Chunks /\ Tail(inbound_q) \in Seq(Chunks)
  BY HeadTail DEF TypeOK, UserType
<1>1. CASE CallbackTakes
  <2>1. UserType' BY <1>1 DEF TypeOK, UserType, CallbackTakes
  <2> QED BY <1>1, <2>1, TypeFrame DEF TypeOK, CallbackTakes
<1>2. CASE CallbackCalls
  <2>1. Append(handled, Head(inbound_q)) \in Seq(Chunks)
    BY <1>0, <1>2, AppendFacts DEF TypeOK, UserType, TurnInv, CallbackCalls
  <2>2. UserType' BY <1>2, <2>1 DEF TypeOK, UserType, CallbackCalls
  <2>3. crashed' \in {crashed, "half_callback"} BY <1>2 DEF CallbackCalls
  <2> QED BY <1>2, <2>2, <2>3, TypeFrame DEF TypeOK, CallbackCalls
<1>3. CASE CallbackPops
  <2>1. UserType' BY <1>0, <1>3 DEF TypeOK, UserType, TurnInv, CallbackPops
  <2> QED BY <1>3, <2>1, TypeFrame DEF TypeOK, CallbackPops
<1>4. CASE SendMessage
  <2>1. queued + 1 \in Messages /\ queued + 1 \in 0..MaxSend
    BY <1>4, Bounds DEF TypeOK, OutType, SendMessage
  <2>2. Append(outbound_q, queued + 1) \in Seq(Messages) BY <2>1, AppendFacts DEF TypeOK, OutType
  <2>3. OutType' BY <1>4, <2>1, <2>2 DEF TypeOK, OutType, SendMessage
  <2> QED BY <1>4, <2>3, TypeFrame DEF TypeOK, SendMessage
<1>5. CASE Connect
  <2>1. reached + 1 \in 0..MaxConn /\ accepted \in 0..(reached + 1)
    BY <1>5, Bounds DEF TypeOK, NetType, Connect
  <2>2. NetType' BY <1>5, <2>1 DEF TypeOK, NetType, Connect
  <2> QED BY <1>5, <2>2, TypeFrame DEF TypeOK, Connect
<1>6. ASSUME NEW c \in Conns, ClientSends(c) PROVE TypeOK'
  <2>1. sender \in Seq(Conns) /\ rcvbuf[c] \in Seq(Chunks) /\ Len(sender) \in Nat
    BY DEF TypeOK, NetType
  <2>2. Len(sender) + 1 \in Chunks BY <1>6, <2>1, Bounds DEF ClientSends
  <2>3. Append(sender, c) \in Seq(Conns) /\ Append(rcvbuf[c], Len(sender) + 1) \in Seq(Chunks)
    BY <2>1, <2>2, AppendFacts
  <2>4. NetType' BY <1>6, <2>3 DEF TypeOK, NetType, ClientSends
  <2> QED BY <1>6, <2>4, TypeFrame DEF TypeOK, ClientSends
<1>7. ASSUME NEW c \in Conns, ClientLeaves(c) PROVE TypeOK'
  <2>1. NetType' BY <1>7 DEF TypeOK, NetType, ClientLeaves
  <2> QED BY <1>7, <2>1, TypeFrame DEF TypeOK, ClientLeaves
<1>8. CASE CallbackStays
  <2>1. LifeType' BY <1>8 DEF TypeOK, LifeType, CallbackStays
  <2>2. UserType' BY <1>8 DEF TypeOK, UserType, CallbackStays
  <2> QED BY <1>8, <2>1, <2>2, TypeFrame DEF TypeOK, CallbackStays
<1> QED BY <1>1, <1>2, <1>3, <1>4, <1>5, <1>6, <1>7, <1>8 DEF CallbackThread

LEMMA TypeStep ==
  ASSUME TypeOK, Counting, TurnInv, Writing, [Next]_vars
  PROVE  TypeOK'
<1>1. CASE MapRace BY <1>1, TypeFrame DEF TypeOK, MapRace
<1>2. CASE UNCHANGED vars
  <2>1. UNCHANGED <<life, net, reader, users, writer, outq, inbound_q, user, crashed>> BY <1>2 DEF vars
  <2> QED BY <2>1, TypeFrame DEF TypeOK
<1> QED BY <1>1, <1>2, TypeCaller, TypeEpoll, TypeWrite, TypeOthers DEF Next

-------------------------------------------------------------------------------
(* The epoll thread's nested calls *)

\* write() goes on, in a thread that runs it.
GoesOn(t) ==
  /\ write_pc[t] # "none"
  /\ \E there \in {"newly", "clear", "check", "lock", "begin", "send"} :
       write_pc' = [write_pc EXCEPT ![t] = there]
  /\ UNCHANGED <<epoll_pc, depth>>
\* write() returns to the accept that called it.
Returns ==
  /\ write_pc["epoll"] # "none" /\ write_pc' = [write_pc EXCEPT !["epoll"] = "none"]
  /\ epoll_pc' = "read" /\ depth' = depth + 1

LEMMA ControlFrame ==
  ASSUME [Next]_vars
  PROVE  \/ \E c \in Callers : StartSucceeds(c)
         \/ EpollReturnsListener \/ EpollFails \/ Accept \/ AcceptFails \/ AcceptCounts
         \/ AcceptRefused \/ ReadAccepts \/ ReadBegins \/ ReadReturns
         \/ \E c \in Conns : EpollReturnsClient(c)
         \/ /\ UNCHANGED <<accepted, num_users_entered>>
            /\ epoll_open' => epoll_open
            /\ callback_pc' = "none" <=> callback_pc = "none"
            /\ \/ UNCHANGED <<epoll_pc, depth, write_pc>>
               \/ (\E t \in Writers : GoesOn(t)) \/ Returns
               \/ ReadReceives \/ ReadStray \/ ReadPushes
<1> DEFINE Same == /\ UNCHANGED <<accepted, num_users_entered, epoll_pc, depth, write_pc>>
                   /\ epoll_open' => epoll_open
                   /\ callback_pc' = "none" <=> callback_pc = "none"
           Kept == /\ UNCHANGED <<accepted, num_users_entered, epoll_open, callback_pc>>
<1>1. ASSUME NEW c \in Callers, Caller(c), ~StartSucceeds(c) PROVE Same
  BY <1>1 DEF Caller, StartEnter, StartFails, StopEnter, StopJoins, StopReturnsEarly, StopCloses,
       StopReturns, RegisterBegin, RegisterEnd, net, reader, users, writer, user
<1>2. CASE ReadReceives \/ ReadStray \/ ReadSkips \/ ReadPushes \/ ReadDangles
  <2>1. CASE ReadReceives \/ ReadStray \/ ReadPushes
    BY <2>1 DEF ReadReceives, ReadStray, ReadPushes, users, net, user
  <2>2. CASE ReadSkips \/ ReadDangles
    BY <2>2 DEF ReadSkips, ReadDangles, users, net, user, writer
  <2> QED BY <1>2, <2>1, <2>2
<1>3. ASSUME NEW t \in Writers, WriteSteps(t)
      PROVE  Kept /\ (UNCHANGED <<epoll_pc, depth, write_pc>> \/ GoesOn(t) \/ Returns)
  <2>1. CASE WriteInserts(t) \/ WriteNoneNew(t) \/ WriteClears(t) \/ WriteChecks(t)
    BY <2>1 DEF WriteInserts, WriteNoneNew, WriteClears, WriteChecks, Write, GoesOn, net, users, user, reader
  <2>2. CASE WritePops(t) \/ WriteBegins(t)
    BY <2>2 DEF WritePops, WriteBegins, Write, GoesOn, net, users, user, reader
  <2>3. CASE WriteIdle(t) \/ WriteEnds(t)
    BY <2>3 DEF WriteIdle, WriteEnds, WriteReturns, Write, GoesOn, Returns, net, users, user, reader
  <2>4. CASE WriteUnderflows(t) \/ WriteSignalled(t)
    BY <2>4 DEF WriteUnderflows, WriteSignalled, net, users, user, reader, writer
  <2>5. CASE WriteSends(t) \/ WriteSendFails(t) \/ WriteDangles(t)
    BY <2>5 DEF WriteSends, WriteSendFails, WriteDangles, net, users, user, reader
  <2> QED BY <1>3, <2>1, <2>2, <2>3, <2>4, <2>5 DEF WriteSteps
<1>4. CASE MapRace \/ CallbackThread \/ CallbackStays
  BY <1>4 DEF MapRace, CallbackThread, CallbackTakes, CallbackCalls, CallbackPops, CallbackStays, net, users,
       user, reader, writer
<1>5. CASE SendMessage \/ Connect
  BY <1>5 DEF SendMessage, Connect, net, users, user, reader, writer
<1>6. ASSUME NEW c \in Conns, ClientSends(c) \/ ClientLeaves(c) PROVE Same
  BY <1>6 DEF ClientSends, ClientLeaves, net, users, user, reader, writer
<1>7. CASE UNCHANGED vars BY <1>7 DEF vars, net, users, user, reader, writer
<1> QED BY <1>1, <1>2, <1>3, <1>4, <1>5, <1>6, <1>7 DEF Next, EpollThread

\* Half of the depth, without a division.
LEMMA Halves ==
  ASSUME NEW n \in Nat
  PROVE  /\ n \div 2 \in Nat /\ (n + 1) \div 2 \in Nat /\ (n + 1 + 1) \div 2 = n \div 2 + 1
         /\ n > 0 => (n - 1 + 1) \div 2 = n \div 2 /\ (n - 1) \div 2 + 1 = (n + 1) \div 2
         /\ n = 0 => n \div 2 = 0 /\ (n + 1) \div 2 = 0
OBVIOUS

LEMMA NestingStep ==
  ASSUME TypeOK, Nesting, Counting, [Next]_vars
  PROVE  Nesting'
<1>0. depth \in Nat /\ write_pc = [t \in Writers |-> write_pc[t]] /\ "epoll" \in Writers /\ "write" \in Writers
  BY DEF TypeOK, ReaderType, WriterType, Writers
<1>1. ASSUME NEW c \in Callers, StartSucceeds(c) PROVE Nesting'
  BY <1>0, <1>1 DEF Nesting, StartSucceeds, Spawned, net
<1>2. CASE EpollReturnsListener \/ \E c \in Conns : EpollReturnsClient(c)
  BY <1>0, <1>2 DEF Nesting, EpollReturnsListener, EpollReturnsClient, Spawned, user, writer
<1>3. CASE EpollFails
  BY <1>0, <1>3 DEF Nesting, EpollFails, Spawned, user, writer
<1>4. CASE Accept
  BY <1>0, <1>4 DEF Nesting, Accept, Spawned, user, writer
<1>5. CASE AcceptFails \/ AcceptCounts \/ AcceptRefused
  BY <1>0, <1>5 DEF Nesting, AcceptFails, AcceptCounts, AcceptRefused, AcceptReturns, Spawned, user, writer, net
<1>6. CASE ReadAccepts \/ ReadBegins \/ ReadReturns
  BY <1>0, <1>6 DEF Nesting, ReadAccepts, ReadBegins, ReadReturns, Spawned, user, writer, net
<1>7. ASSUME UNCHANGED <<accepted, num_users_entered>>, epoll_open' => epoll_open,
             callback_pc' = "none" <=> callback_pc = "none",
             \/ UNCHANGED <<epoll_pc, depth, write_pc>>
             \/ (\E t \in Writers : GoesOn(t)) \/ Returns
             \/ ReadReceives \/ ReadStray \/ ReadPushes
      PROVE  Nesting'
  <2>1. CASE UNCHANGED <<epoll_pc, depth, write_pc>> BY <1>7, <2>1 DEF Nesting, Spawned
  <2>2. ASSUME NEW t \in Writers, GoesOn(t) PROVE Nesting'
    BY <1>0, <1>7, <2>2 DEF Nesting, Spawned, GoesOn, Writers
  <2>3. CASE Returns BY <1>0, <1>7, <2>3 DEF Nesting, Spawned, Returns
  <2>4. CASE ReadReceives \/ ReadStray \/ ReadPushes
    BY <1>0, <1>7, <2>4 DEF Nesting, Spawned, ReadReceives, ReadStray, ReadGone, ReadPushes, writer
  <2> QED BY <1>7, <2>1, <2>2, <2>3, <2>4
<1> QED BY <1>1, <1>2, <1>3, <1>4, <1>5, <1>6, <1>7, ControlFrame

LEMMA CountingStep ==
  ASSUME TypeOK, Nesting, Counting, [Next]_vars
  PROVE  Counting'
<1>0. /\ depth \in Nat /\ num_users_entered \in Nat /\ accepted \in Nat
      /\ depth \div 2 \in Nat /\ (depth + 1) \div 2 \in Nat
  BY Halves, Bounds DEF TypeOK, ReaderType, UsersType, NetType
<1>1. ASSUME NEW c \in Callers, StartSucceeds(c) PROVE Counting'
  BY <1>0, <1>1 DEF Nesting, Counting, InProgress, StartSucceeds, Spawned, users
<1>2. CASE EpollReturnsListener \/ \E c \in Conns : EpollReturnsClient(c)
  <2>1. depth = 0 /\ depth' = 0 /\ UNCHANGED <<accepted, num_users_entered, epoll_open>>
        /\ epoll_pc = "wait" /\ epoll_pc' \in {"accept", "read"}
    BY <1>2 DEF Nesting, EpollReturnsListener, EpollReturnsClient, users
  <2>2. 0 \div 2 = 0 /\ (0 + 1) \div 2 = 0 OBVIOUS
  <2>3. InProgress = 0 /\ InProgress' = 0 BY <2>1, <2>2 DEF InProgress
  <2> QED BY <2>1, <2>3 DEF Counting
<1>3. CASE EpollFails
  <2>1. InProgress = 0 /\ InProgress' = 0 BY <1>3 DEF InProgress, EpollFails
  <2> QED BY <1>3, <2>1 DEF Counting, EpollFails, CloseListener, users
<1>4. CASE Accept
  <2>1. InProgress' = InProgress + 1 BY <1>0, <1>4 DEF InProgress, Accept
  <2> QED BY <1>0, <1>4, <2>1 DEF Counting, InProgress, Accept
<1>5. CASE AcceptFails \/ AcceptCounts \/ AcceptRefused
  <2>1. AcceptReturns /\ epoll_pc \in {"accept", "count"}
    BY <1>5 DEF AcceptFails, AcceptCounts, AcceptRefused
  <2>2. InProgress' = depth \div 2
    <3>1. CASE depth = 0 BY <2>1, <3>1, Halves DEF InProgress, AcceptReturns
    <3>2. CASE depth > 0
      <4>1. epoll_pc' = "scan" /\ depth' = depth - 1 BY <2>1, <3>2 DEF AcceptReturns
      <4>2. InProgress' = (depth - 1 + 1) \div 2 BY <4>1 DEF InProgress
      <4> QED BY <1>0, <3>2, <4>2, Halves
    <3> QED BY <1>0, <3>1, <3>2
  <2>3. CASE AcceptFails
    BY <1>0, <2>2, <2>3 DEF Counting, InProgress, AcceptFails, net, users
  <2>4. CASE AcceptCounts
    <3>1. num_users_entered' = num_users_entered + 1 /\ UNCHANGED <<accepted, epoll_open>>
      BY <2>4 DEF AcceptCounts, net
    <3>2. InProgress = depth \div 2 + 1 BY <2>4 DEF InProgress, AcceptCounts
    <3> QED BY <1>0, <2>2, <3>1, <3>2 DEF Counting
  <2>5. CASE AcceptRefused
    BY <1>0, <2>2, <2>5 DEF Counting, InProgress, AcceptRefused, CloseListener, users
  <2> QED BY <1>5, <2>3, <2>4, <2>5
<1>6. CASE ReadAccepts \/ ReadBegins
  BY <1>6 DEF Counting, InProgress, ReadAccepts, ReadBegins, net, users
<1>7. CASE ReadReturns
  <2>1. InProgress' = InProgress
    <3>1. CASE depth = 0 BY <1>7, <3>1, Halves DEF InProgress, ReadReturns
    <3>2. CASE depth > 0 BY <1>0, <1>7, <3>2, Halves DEF InProgress, ReadReturns
    <3> QED BY <1>0, <3>1, <3>2
  <2> QED BY <1>7, <2>1 DEF Counting, ReadReturns, net, users
<1>8. ASSUME UNCHANGED <<accepted, num_users_entered>>, epoll_open' => epoll_open,
             callback_pc' = "none" <=> callback_pc = "none",
             \/ UNCHANGED <<epoll_pc, depth, write_pc>>
             \/ (\E t \in Writers : GoesOn(t)) \/ Returns
             \/ ReadReceives \/ ReadStray \/ ReadPushes
      PROVE  Counting'
  <2>1. InProgress' = InProgress
    <3>1. CASE UNCHANGED <<epoll_pc, depth>> BY <3>1 DEF InProgress
    <3>2. CASE Returns
      <4>1. epoll_pc = "write" BY <3>2 DEF Returns, Nesting
      <4>2. InProgress' = (depth + 1 + 1) \div 2 BY <3>2 DEF InProgress, Returns
      <4> QED BY <1>0, <4>1, <4>2, Halves DEF InProgress
    <3>3. CASE ReadReceives \/ ReadStray \/ ReadPushes
      BY <3>3 DEF InProgress, ReadReceives, ReadStray, ReadGone, ReadPushes
    <3> QED BY <1>8, <3>1, <3>2, <3>3 DEF GoesOn
  <2> QED BY <1>8, <2>1 DEF Counting
<1> QED BY <1>1, <1>2, <1>3, <1>4, <1>5, <1>6, <1>7, <1>8, ControlFrame

LEMMA TurnStep ==
  ASSUME TypeOK, Nesting, TurnInv, [Next]_vars
  PROVE  TurnInv'
<1>1. CASE UNCHANGED <<callback_pc, inbound_q>> BY <1>1 DEF TurnInv
<1>2. ASSUME NEW c \in Callers, Caller(c) PROVE TurnInv'
  BY <1>2 DEF TurnInv, Caller, StartEnter, StartSucceeds, StartFails, StopEnter, StopJoins, StopReturnsEarly,
       StopCloses, StopReturns, RegisterBegin, RegisterEnd, user
<1>3. CASE ReadPushes BY <1>3 DEF TurnInv, ReadPushes, user
<1>4. CASE EpollFails \/ AcceptRefused \/ (EpollThread /\ ~ReadPushes)
  <2>1. UNCHANGED <<callback_pc, inbound_q>>
    BY <1>4 DEF EpollThread, EpollReturnsListener, EpollReturnsClient, EpollFails, Accept, AcceptFails,
         AcceptCounts, AcceptRefused, ReadAccepts, ReadBegins, ReadReceives, ReadSkips, ReadDangles,
         ReadStray, ReadReturns, user
  <2> QED BY <1>1, <2>1
<1>5. ASSUME NEW t \in Writers, WriteSteps(t) PROVE TurnInv'
  <2>1. UNCHANGED <<callback_pc, inbound_q>>
    BY <1>5 DEF WriteSteps, WriteInserts, WriteNoneNew, WriteClears, WriteChecks, WriteIdle, WritePops,
         WriteUnderflows, WriteBegins, WriteSends, WriteSendFails, WriteSignalled, WriteDangles, WriteEnds, user
  <2> QED BY <1>1, <2>1
<1>6. CASE CallbackThread
  BY <1>6 DEF TurnInv, CallbackThread, CallbackTakes, CallbackCalls, CallbackPops
<1>7. CASE MapRace \/ CallbackStays \/ SendMessage \/ Connect \/ UNCHANGED vars
  <2>1. UNCHANGED <<callback_pc, inbound_q>> BY <1>7 DEF MapRace, CallbackStays, SendMessage, Connect, vars, user
  <2> QED BY <1>1, <2>1
<1>8. ASSUME NEW c \in Conns, ClientSends(c) \/ ClientLeaves(c) PROVE TurnInv'
  <2>1. UNCHANGED <<callback_pc, inbound_q>> BY <1>8 DEF ClientSends, ClientLeaves, user
  <2> QED BY <1>1, <2>1
<1> QED BY <1>2, <1>3, <1>4, <1>5, <1>6, <1>7, <1>8 DEF Next

-------------------------------------------------------------------------------
(* Keys *)

\* Outside of the accepts' write() no connection is waiting to be inserted.
LEMMA NothingNew ==
  ASSUME TypeOK, Nesting, NewKeys, write_pc["epoll"] \notin {"newly", "clear"}
  PROVE  newly_added = Nothing /\ \A k \in Keys : newly_added[k] = 0
<1>1. \A k \in Keys : newly_added[k] = 0 BY DEF NewKeys
<1>2. newly_added = [k \in Keys |-> newly_added[k]] BY DEF TypeOK, UsersType
<1> QED BY <1>1, <1>2 DEF Nothing

\* A step of the epoll thread, or the one that starts it, that leaves the maps alone.
MapsKept ==
  /\ epoll_pc # "write" /\ UNCHANGED <<newly_added, client_socket, closed>>
  /\ accepted' = accepted /\ num_users_entered' \in {num_users_entered, num_users_entered + 1}
  /\ AtRest' => \/ AtRest \/ client_socket = Nothing
                \/ num_users_entered' = num_users_entered + 1
\* A step of write() behind its clear().
Late(t) ==
  /\ write_pc[t] \in {"check", "lock", "begin", "send"}
  /\ \E there \in {"none", "newly", "lock", "begin", "send"} :
       write_pc' = [write_pc EXCEPT ![t] = there]

LEMMA KeysFrame ==
  ASSUME Nesting, [Next]_vars
  PROVE  \/ \E c \in Callers : StopCloses(c)
         \/ Accept \/ AcceptRefused \/ MapsKept
         \/ \E t \in Writers : WriteInserts(t) \/ WriteNoneNew(t) \/ WriteClears(t) \/ WriteSendFails(t)
         \/ /\ UNCHANGED <<newly_added, client_socket, closed, accepted, num_users_entered>>
            /\ UNCHANGED <<epoll_pc, depth>> \/ Returns
            /\ UNCHANGED write_pc \/ \E t \in Writers : Late(t)
<1> DEFINE Kept == UNCHANGED <<newly_added, client_socket, closed, accepted, num_users_entered>>
<1>1. ASSUME NEW c \in Callers, Caller(c), ~StopCloses(c), ~StartSucceeds(c)
      PROVE  Kept /\ UNCHANGED <<epoll_pc, depth, write_pc>>
  BY <1>1 DEF Caller, StartEnter, StartFails, StopEnter, StopJoins, StopReturnsEarly,
       StopReturns, RegisterBegin, RegisterEnd, net, reader, users, writer
<1>2. ASSUME NEW c \in Callers, StartSucceeds(c) PROVE MapsKept
  BY <1>2 DEF StartSucceeds, MapsKept, Nesting, AtRest, users
<1>3. CASE EpollReturnsListener \/ EpollFails \/ \E c \in Conns : EpollReturnsClient(c)
  BY <1>3 DEF EpollReturnsListener, EpollFails, EpollReturnsClient, CloseListener, MapsKept, AtRest, users
<1>4. CASE AcceptFails \/ AcceptCounts
  BY <1>4 DEF AcceptFails, AcceptCounts, AcceptReturns, MapsKept, AtRest, users, net
<1>5. CASE ReadAccepts \/ ReadBegins \/ ReadReceives \/ ReadStray \/ ReadReturns \/ ReadPushes
  BY <1>5 DEF ReadAccepts, ReadBegins, ReadReceives, ReadStray, ReadGone, ReadPushes, ReadReturns, MapsKept, AtRest, users, net
<1>6. CASE ReadSkips \/ ReadDangles
  BY <1>6 DEF ReadSkips, ReadDangles, ReadGone, MapsKept, AtRest, users, net
<1>7. ASSUME NEW t \in Writers, WriteSteps(t),
             ~(WriteInserts(t) \/ WriteNoneNew(t) \/ WriteClears(t) \/ WriteSendFails(t))
      PROVE  /\ Kept /\ (UNCHANGED <<epoll_pc, depth>> \/ Returns)
             /\ UNCHANGED write_pc \/ Late(t)
  <2>1. CASE WriteChecks(t) \/ WritePops(t) \/ WriteBegins(t)
    BY <2>1 DEF WriteChecks, WritePops, WriteBegins, Write, Late, net, users, reader
  <2>2. CASE WriteIdle(t) \/ WriteEnds(t)
    BY <2>2 DEF WriteIdle, WriteEnds, WriteReturns, Write, Late, Returns, net, users
  <2>3. CASE WriteUnderflows(t) \/ WriteSignalled(t) \/ WriteSends(t) \/ WriteDangles(t)
    BY <2>3 DEF WriteUnderflows, WriteSignalled, WriteSends, WriteDangles, net, users, reader, writer
  <2> QED BY <1>7, <2>1, <2>2, <2>3 DEF WriteSteps
<1>8. CASE MapRace \/ CallbackThread \/ CallbackStays
  BY <1>8 DEF MapRace, CallbackThread, CallbackTakes, CallbackCalls, CallbackPops, CallbackStays, net, users,
       reader, writer
<1>9. CASE SendMessage \/ Connect \/ \E c \in Conns : ClientSends(c) \/ ClientLeaves(c)
  BY <1>9 DEF SendMessage, Connect, ClientSends, ClientLeaves, net, users, reader, writer
<1>10. CASE UNCHANGED vars BY <1>10 DEF vars, net, users, reader, writer
<1> QED BY <1>1, <1>2, <1>3, <1>4, <1>5, <1>6, <1>7, <1>8, <1>9, <1>10 DEF Next, EpollThread

\* The key and the number that an accept gives are new.
LEMMA AcceptFacts ==
  ASSUME TypeOK, Nesting, Counting, NewKeys, ClientKeys, Accept
  PROVE  /\ num_users_entered \in Keys /\ accepted + 1 \in Conns /\ accepted \in Nat
         /\ newly_added' = [k \in Keys |-> IF k = num_users_entered THEN accepted + 1 ELSE 0]
         /\ client_socket[num_users_entered] = 0
         /\ \A k \in Keys : client_socket[k] # accepted + 1
         /\ write_pc'["epoll"] = "newly" /\ epoll_pc' = "write"
         /\ UNCHANGED <<client_socket, closed, num_users_entered>> /\ accepted' = accepted + 1
<1>1. accepted \in Nat /\ num_users_entered \in Nat /\ accepted < reached /\ reached <= MaxConn
  BY Bounds DEF TypeOK, NetType, UsersType, Accept, Pending
<1>2. num_users_entered <= accepted
  <2>1. epoll_pc = "accept" /\ depth \in Nat BY DEF Accept, TypeOK, ReaderType
  <2>2. depth \div 2 \in Nat BY <2>1, Halves
  <2>3. num_users_entered + depth \div 2 <= accepted BY <2>1 DEF Counting, InProgress
  <2> QED BY <1>1, <2>2, <2>3
<1>3. num_users_entered \in Keys /\ accepted + 1 \in Conns
  BY <1>1, <1>2, Bounds DEF TypeOK, NetType
<1>4. newly_added = Nothing /\ \A k \in Keys : newly_added[k] = 0
  <2>1. write_pc["epoll"] = "none" BY DEF Nesting, Accept
  <2> QED BY <2>1, NothingNew
<1>5. AtRest BY DEF AtRest, Accept
<1>6. client_socket[num_users_entered] = 0 /\ \A k \in Keys : client_socket[k] # accepted + 1
  BY <1>1, <1>3, <1>5 DEF ClientKeys, TypeOK, UsersType
<1>7. newly_added' = [k \in Keys |-> IF k = num_users_entered THEN accepted + 1 ELSE 0]
  BY <1>3, <1>4 DEF Accept, Nothing
<1>8. write_pc'["epoll"] = "newly" BY DEF Accept, TypeOK, WriterType, Writers
<1> QED BY <1>1, <1>3, <1>6, <1>7, <1>8 DEF Accept

LEMMA InsertFacts ==
  ASSUME TypeOK, Nesting, NewKeys, NEW t \in Writers, WriteInserts(t)
  PROVE  /\ \A k \in Keys : client_socket'[k] = IF client_socket[k] = 0 THEN newly_added[k] ELSE client_socket[k]
         /\ UNCHANGED <<newly_added, closed, accepted, num_users_entered, epoll_pc, depth>>
         /\ write_pc[t] = "newly" /\ write_pc' = [write_pc EXCEPT ![t] = "clear"]
         /\ epoll_pc = "write"
<1>1. UNCHANGED <<newly_added, closed, accepted, num_users_entered, epoll_pc, depth>>
  BY DEF WriteInserts, net, reader
<1>2. epoll_pc = "write"
  <2>1. newly_added # Nothing BY DEF WriteInserts
  <2>2. write_pc["epoll"] # "none" BY <2>1, NothingNew
  <2> QED BY <2>2 DEF Nesting
<1> QED BY <1>1, <1>2 DEF WriteInserts, Write

LEMMA NewKeysStep ==
  ASSUME TypeOK, Nesting, Counting, NewKeys, ClientKeys, [Next]_vars
  PROVE  NewKeys'
<1>0. /\ newly_added \in [Keys -> 0..MaxConn] /\ client_socket \in [Keys -> 0..MaxConn]
      /\ write_pc = [t \in Writers |-> write_pc[t]] /\ "epoll" \in Writers
  BY DEF TypeOK, UsersType, WriterType, Writers
<1>1. CASE newly_added' = Nothing
  BY <1>1 DEF NewKeys, Nothing
<1>2. ASSUME NEW c \in Callers, StopCloses(c) PROVE NewKeys'
  <2>1. /\ UNCHANGED <<newly_added, num_users_entered, accepted, write_pc>>
        /\ closed' = closed \cup Clients(client_socket) /\ \A k \in Keys : client_socket'[k] = 0
    BY <1>2 DEF StopCloses, writer, Nothing
  <2>2. \A k \in Keys : client_socket[k] # 0 => client_socket[k] \in Clients(client_socket)
    BY <1>0, ClientsFacts
  <2>3. \A k \in Keys : newly_added[k] # 0 => newly_added[k] \in Conns BY <1>0, Bounds
  <2> QED BY <1>0, <2>1, <2>2, <2>3, Bounds DEF NewKeys
<1>3. CASE Accept
  <2>1. \A k \in Keys : newly_added'[k] # 0 => k = num_users_entered /\ newly_added'[k] = accepted + 1
    BY <1>3, AcceptFacts
  <2> QED BY <1>3, <2>1, AcceptFacts DEF NewKeys
<1>4. CASE AcceptRefused
  <2>1. write_pc["epoll"] = "none" BY <1>4 DEF Nesting, AcceptRefused
  <2>2. newly_added' = Nothing BY <1>4, <2>1, NothingNew DEF AcceptRefused, users
  <2> QED BY <1>1, <2>2
<1>5. CASE MapsKept
  <2>1. write_pc["epoll"] = "none" BY <1>5 DEF Nesting, MapsKept
  <2>2. newly_added' = Nothing BY <1>5, <2>1, NothingNew DEF MapsKept
  <2> QED BY <1>1, <2>2
<1>6. ASSUME NEW t \in Writers, WriteInserts(t) PROVE NewKeys'
  <2> SUFFICES ASSUME NEW k \in Keys, newly_added'[k] # 0
               PROVE  /\ k = num_users_entered' /\ newly_added'[k] = accepted'
                      /\ write_pc'["epoll"] \in {"newly", "clear"}
                      /\ client_socket'[k] \in {0, newly_added'[k]}
                      /\ \A j \in Keys : j # k => client_socket'[j] # newly_added'[k]
                      /\ write_pc'["epoll"] = "clear" => newly_added'[k] \in closed' \cup {client_socket'[k]}
    BY DEF NewKeys
  <2>1. newly_added[k] # 0 /\ newly_added'[k] = newly_added[k] BY <1>6, InsertFacts
  <2>2. /\ k = num_users_entered /\ newly_added[k] = accepted
        /\ write_pc["epoll"] \in {"newly", "clear"} /\ client_socket[k] \in {0, newly_added[k]}
        /\ \A j \in Keys : j # k => client_socket[j] # newly_added[k] /\ newly_added[j] = 0
    BY <2>1 DEF NewKeys
  <2>3. client_socket'[k] = newly_added[k] BY <1>6, <2>1, <2>2, InsertFacts
  <2>4. \A j \in Keys : j # k => client_socket'[j] # newly_added[k]
    BY <1>6, <2>1, <2>2, InsertFacts
  <2>5. write_pc'["epoll"] \in {"newly", "clear"}
    BY <1>0, <1>6, <2>2, InsertFacts
  <2> QED BY <1>6, <2>1, <2>2, <2>3, <2>4, <2>5, InsertFacts
<1>7. ASSUME NEW t \in Writers, WriteNoneNew(t) PROVE NewKeys'
  BY <1>1, <1>7 DEF WriteNoneNew, users
<1>8. ASSUME NEW t \in Writers, WriteClears(t) PROVE NewKeys'
  BY <1>1, <1>8 DEF WriteClears
<1>9. ASSUME NEW t \in Writers, WriteSendFails(t) PROVE NewKeys'
  <2>1. PICK k \in Present(client_socket) :
          /\ closed' = closed \cup {client_socket[k]} /\ client_socket' = [client_socket EXCEPT ![k] = 0]
    BY <1>9 DEF WriteSendFails
  <2>2. k \in Keys /\ UNCHANGED <<newly_added, num_users_entered, accepted, write_pc>>
    BY <1>9 DEF WriteSendFails, Present
  <2>3. \A j \in Keys : client_socket'[j] = IF j = k THEN 0 ELSE client_socket[j] BY <1>0, <2>1, <2>2
  <2>4. \A j \in Keys : newly_added[j] # 0 =>
          (newly_added[j] \in closed \cup {client_socket[j]}
             => newly_added[j] \in closed' \cup {client_socket'[j]})
    BY <2>1, <2>3
  <2> QED BY <2>1, <2>2, <2>3, <2>4 DEF NewKeys
<1>10. ASSUME UNCHANGED <<newly_added, client_socket, closed, accepted, num_users_entered>>,
              UNCHANGED <<epoll_pc, depth>> \/ Returns,
              UNCHANGED write_pc \/ \E t \in Writers : Late(t)
       PROVE  NewKeys'
  <2>1. CASE UNCHANGED write_pc BY <1>10, <2>1 DEF NewKeys
  <2>2. ASSUME NEW t \in Writers, Late(t) PROVE NewKeys'
    <3>1. CASE t = "epoll"
      <4>1. newly_added' = Nothing BY <1>10, <2>2, <3>1, NothingNew DEF Late
      <4> QED BY <1>1, <4>1
    <3>2. CASE t # "epoll"
      <4>1. write_pc'["epoll"] = write_pc["epoll"] BY <1>0, <2>2, <3>2 DEF Late
      <4> QED BY <1>10, <4>1 DEF NewKeys
    <3> QED BY <3>1, <3>2
  <2> QED BY <1>10, <2>1, <2>2
<1> QED BY <1>2, <1>3, <1>4, <1>5, <1>6, <1>7, <1>8, <1>9, <1>10, KeysFrame

LEMMA ClientKeysStep ==
  ASSUME TypeOK, Nesting, Counting, NewKeys, ClientKeys, [Next]_vars
  PROVE  ClientKeys'
<1>0. /\ client_socket \in [Keys -> 0..MaxConn] /\ num_users_entered \in Nat /\ accepted \in Nat
      /\ Keys \subseteq Nat /\ \A k \in Keys : client_socket[k] \in Nat
  BY Bounds DEF TypeOK, UsersType, NetType
<1>1. ASSUME NEW c \in Callers, StopCloses(c) PROVE ClientKeys'
  BY <1>1 DEF ClientKeys, StopCloses, Nothing
<1>2. CASE Accept
  <2>1. ~AtRest' BY <1>2 DEF AtRest, Accept
  <2>2. UNCHANGED <<client_socket, num_users_entered>> /\ accepted' = accepted + 1
    BY <1>2, AcceptFacts
  <2>3. \A k \in Keys : client_socket[k] <= accepted => client_socket[k] <= accepted + 1 BY <1>0
  <2> QED BY <2>1, <2>2, <2>3 DEF ClientKeys
<1>3. CASE AcceptRefused
  <2>1. AtRest BY <1>3 DEF AtRest, AcceptRefused
  <2>2. UNCHANGED <<client_socket, num_users_entered>> /\ accepted' = accepted + 1
    BY <1>3 DEF AcceptRefused, users
  <2>3. \A k \in Keys : client_socket[k] <= accepted => client_socket[k] <= accepted + 1 BY <1>0
  <2> QED BY <2>1, <2>2, <2>3 DEF ClientKeys
<1>4. CASE MapsKept
  <2>1. /\ UNCHANGED <<client_socket, accepted>>
        /\ num_users_entered' \in {num_users_entered, num_users_entered + 1}
        /\ AtRest' => AtRest \/ client_socket = Nothing \/ num_users_entered' = num_users_entered + 1
    BY <1>4 DEF MapsKept
  <2>2. \A k \in Keys : client_socket[k] # 0 => client_socket # Nothing BY DEF Nothing
  <2>3. ASSUME NEW k \in Keys, client_socket[k] # 0
        PROVE  k <= num_users_entered' /\ (AtRest' => k < num_users_entered')
    <3>1. /\ k \in Nat /\ k <= num_users_entered
          /\ AtRest => k < num_users_entered
          /\ AtRest' => AtRest \/ num_users_entered' = num_users_entered + 1
      BY <1>0, <2>1, <2>2, <2>3 DEF ClientKeys
    <3>2. CASE num_users_entered' = num_users_entered BY <1>0, <3>1, <3>2
    <3>3. CASE num_users_entered' = num_users_entered + 1 BY <1>0, <3>1, <3>3
    <3> QED BY <2>1, <3>2, <3>3
  <2> QED BY <2>1, <2>3 DEF ClientKeys
<1>5. ASSUME NEW t \in Writers, WriteInserts(t) PROVE ClientKeys'
  <2>1. ~AtRest' BY <1>5, InsertFacts DEF AtRest
  <2> SUFFICES ASSUME NEW k \in Keys, client_socket'[k] # 0
               PROVE  /\ k <= num_users_entered /\ client_socket'[k] <= accepted
                      /\ \A j \in Keys : client_socket'[j] = client_socket'[k] => j = k
    BY <1>5, <2>1, InsertFacts DEF ClientKeys
  <2>2. k <= num_users_entered /\ client_socket'[k] <= accepted
    BY <1>0, <1>5, InsertFacts DEF ClientKeys, NewKeys
  <2>3. ASSUME NEW j \in Keys, client_socket'[j] = client_socket'[k] PROVE j = k
    BY <1>5, <2>3, InsertFacts DEF ClientKeys, NewKeys
  <2> QED BY <2>2, <2>3
<1>6. ASSUME NEW t \in Writers, WriteNoneNew(t) \/ WriteClears(t) PROVE ClientKeys'
  <2>1. UNCHANGED <<client_socket, accepted, num_users_entered, epoll_pc, depth>>
    BY <1>6 DEF WriteNoneNew, WriteClears, users, net, reader
  <2> QED BY <2>1 DEF ClientKeys, AtRest
<1>7. ASSUME NEW t \in Writers, WriteSendFails(t) PROVE ClientKeys'
  <2>1. PICK k \in Present(client_socket) : client_socket' = [client_socket EXCEPT ![k] = 0]
    BY <1>7 DEF WriteSendFails
  <2>2. k \in Keys /\ UNCHANGED <<num_users_entered, accepted, epoll_pc, depth>>
    BY <1>7 DEF WriteSendFails, Present, reader
  <2>3. \A j \in Keys : client_socket'[j] = IF j = k THEN 0 ELSE client_socket[j] BY <1>0, <2>1, <2>2
  <2> QED BY <2>2, <2>3 DEF ClientKeys, AtRest
<1>8. ASSUME UNCHANGED <<newly_added, client_socket, closed, accepted, num_users_entered>>,
             UNCHANGED <<epoll_pc, depth>> \/ Returns
      PROVE  ClientKeys'
  <2>1. CASE UNCHANGED <<epoll_pc, depth>> BY <1>8, <2>1 DEF ClientKeys, AtRest
  <2>2. CASE Returns
    <3>1. ~AtRest' BY <2>2 DEF AtRest, Returns, TypeOK, ReaderType
    <3> QED BY <1>8, <3>1 DEF ClientKeys
  <2> QED BY <1>8, <2>1, <2>2
<1> QED BY <1>1, <1>2, <1>3, <1>4, <1>5, <1>6, <1>7, <1>8, KeysFrame

-------------------------------------------------------------------------------
(* The outbound queue and the two writers *)

\* What any step may do to the maps: a connection comes into them at its accept, keeps
\* its key, and leaves the clients only to be closed.
LEMMA MapsStep ==
  ASSUME TypeOK, Nesting, Counting, NewKeys, ClientKeys, [Next]_vars
  PROVE  /\ accepted' >= accepted /\ closed \subseteq closed'
         /\ \A c \in Conns : \A k \in Keys :
              c \in {client_socket'[k], newly_added'[k]} =>
                c \in {client_socket[k], newly_added[k]} \/ c > accepted
         /\ \A k \in Keys : client_socket[k] # 0 =>
              client_socket'[k] = client_socket[k] \/ client_socket[k] \in closed'
<1>0. /\ accepted \in Nat /\ 0 \notin Conns /\ Conns \subseteq Nat
      /\ client_socket \in [Keys -> 0..MaxConn] /\ newly_added \in [Keys -> 0..MaxConn]
  BY Bounds DEF TypeOK, NetType, UsersType
<1>1. ASSUME NEW c \in Callers, StopCloses(c)
      PROVE  /\ accepted' = accepted /\ closed \subseteq closed' /\ newly_added' = newly_added
             /\ \A k \in Keys : client_socket'[k] = 0
             /\ \A k \in Keys : client_socket[k] # 0 => client_socket[k] \in closed'
  <2>1. \A k \in Keys : client_socket[k] # 0 => client_socket[k] \in Clients(client_socket)
    BY <1>0, ClientsFacts
  <2> QED BY <1>1, <2>1 DEF StopCloses, Nothing
<1>2. CASE Accept
  <2>1. \A k \in Keys : newly_added'[k] \in {0, accepted + 1} BY <1>2, AcceptFacts
  <2> QED BY <1>0, <1>2, <2>1, AcceptFacts
<1>3. CASE AcceptRefused
  BY <1>0, <1>3 DEF AcceptRefused, users
<1>4. CASE MapsKept BY <1>0, <1>4 DEF MapsKept
<1>5. ASSUME NEW t \in Writers, WriteInserts(t)
      PROVE  /\ accepted' = accepted /\ closed \subseteq closed' /\ newly_added' = newly_added
             /\ \A k \in Keys : client_socket'[k] \in {client_socket[k], newly_added[k]}
             /\ \A k \in Keys : client_socket[k] # 0 => client_socket'[k] = client_socket[k]
  BY <1>5, InsertFacts
<1>6. ASSUME NEW t \in Writers, WriteNoneNew(t) \/ WriteClears(t)
      PROVE  /\ accepted' = accepted /\ closed \subseteq closed' /\ client_socket' = client_socket
             /\ \A k \in Keys : newly_added'[k] \in {0, newly_added[k]}
  BY <1>6 DEF WriteNoneNew, WriteClears, users, net, Nothing
<1>7. ASSUME NEW t \in Writers, WriteSendFails(t)
      PROVE  /\ accepted' = accepted /\ closed \subseteq closed' /\ newly_added' = newly_added
             /\ \A k \in Keys : client_socket'[k] \in {client_socket[k], 0}
             /\ \A k \in Keys : client_socket'[k] = client_socket[k] \/ client_socket[k] \in closed'
  BY <1>0, <1>7 DEF WriteSendFails
<1> QED BY <1>0, <1>1, <1>2, <1>3, <1>4, <1>5, <1>6, <1>7, KeysFrame

\* A step that leaves the messages where they are.
Steady ==
  /\ UNCHANGED <<outq, pos, message, received, audience, strays>>
  /\ \A t \in Writers : write_pc'[t] # write_pc[t] =>
       write_pc[t] \notin {"begin", "send"} /\ write_pc'[t] \notin {"begin", "send"}

LEMMA OutFrame ==
  ASSUME TypeOK, Nesting, [Next]_vars
  PROVE  \/ Steady \/ SendMessage
         \/ \E t \in Writers : WritePops(t) \/ WriteBegins(t) \/ WriteSends(t) \/ WriteSendFails(t)
                                 \/ WriteDangles(t) \/ WriteEnds(t)
<1>0. write_pc = [t \in Writers |-> write_pc[t]] BY DEF TypeOK, WriterType
<1>1. ASSUME NEW c \in Callers, Caller(c), ~StartSucceeds(c) PROVE UNCHANGED <<outq, writer>>
  BY <1>1 DEF Caller, StartEnter, StartFails, StopEnter, StopJoins, StopReturnsEarly, StopCloses,
       StopReturns, RegisterBegin, RegisterEnd
<1>2. ASSUME NEW c \in Callers, StartSucceeds(c) PROVE Steady
  <2>1. write_pc["write"] = "none" BY <1>2 DEF StartSucceeds, Nesting
  <2> QED BY <1>0, <1>2, <2>1 DEF StartSucceeds, Steady
<1>3. CASE Accept
  <2>1. write_pc["epoll"] = "none" BY <1>3 DEF Accept, Nesting
  <2> QED BY <1>0, <1>3, <2>1 DEF Accept, Steady
<1>4. CASE EpollFails \/ AcceptRefused \/ (EpollThread /\ ~Accept)
  <2>1. UNCHANGED <<outq, writer>>
    BY <1>4 DEF EpollThread, EpollReturnsListener, EpollReturnsClient, EpollFails, AcceptFails,
         AcceptCounts, AcceptRefused, ReadAccepts, ReadBegins, ReadReceives, ReadSkips, ReadPushes,
         ReadDangles, ReadStray, ReadReturns
  <2> QED BY <2>1 DEF Steady, writer
<1>5. ASSUME NEW t \in Writers, WriteInserts(t) \/ WriteNoneNew(t) \/ WriteClears(t) \/ WriteChecks(t)
      PROVE  Steady
  BY <1>0, <1>5 DEF WriteInserts, WriteNoneNew, WriteClears, WriteChecks, Write, Steady
<1>6. ASSUME NEW t \in Writers, WriteIdle(t) PROVE Steady
  BY <1>0, <1>6 DEF WriteIdle, WriteReturns, Write, Steady
<1>7. ASSUME NEW t \in Writers, WriteUnderflows(t) \/ WriteSignalled(t) PROVE UNCHANGED <<outq, writer>>
  BY <1>7 DEF WriteUnderflows, WriteSignalled
<1>8. CASE MapRace \/ CallbackThread \/ CallbackStays \/ Connect \/ UNCHANGED vars
  <2>1. UNCHANGED <<outq, writer>>
    BY <1>8 DEF MapRace, CallbackThread, CallbackTakes, CallbackCalls, CallbackPops, CallbackStays, Connect,
         vars
  <2> QED BY <2>1 DEF Steady, writer
<1>9. ASSUME NEW c \in Conns, ClientSends(c) \/ ClientLeaves(c) PROVE UNCHANGED <<outq, writer>>
  BY <1>9 DEF ClientSends, ClientLeaves
<1>10. UNCHANGED <<outq, writer>> => Steady BY DEF Steady, writer
<1> QED BY <1>1, <1>2, <1>3, <1>4, <1>5, <1>6, <1>7, <1>8, <1>9, <1>10 DEF Next, WriteSteps

LEMMA PopFacts ==
  ASSUME TypeOK, OutQueue, NEW t \in Writers, WritePops(t)
  PROVE  /\ OutQueue' /\ Popped' = Popped + 1 /\ Popped + 1 \in Messages
         /\ message' = [message EXCEPT ![t] = Popped + 1]
         /\ write_pc[t] = "lock" /\ write_pc' = [write_pc EXCEPT ![t] = "begin"]
         /\ UNCHANGED <<pos, received, audience, client_socket, newly_added, closed, accepted>>
<1>1. /\ outbound_q \in Seq(Messages) /\ outbound_q # <<>> /\ outbound_q' = Tail(outbound_q)
      /\ UNCHANGED queued /\ queued \in 0..MaxSend
  BY DEF WritePops, TypeOK, OutType
<1>2. /\ Len(outbound_q) \in Nat /\ Len(outbound_q) > 0 /\ Len(outbound_q') = Len(outbound_q) - 1
      /\ Head(outbound_q) = outbound_q[1]
      /\ \A i \in 1..(Len(outbound_q) - 1) : outbound_q'[i] = outbound_q[i + 1]
  BY <1>1, HeadTail
<1>3. Popped \in Nat /\ \A i \in 1..Len(outbound_q) : outbound_q[i] = Popped + i BY DEF OutQueue
<1>4. Popped' = Popped + 1 /\ Popped' \in Nat BY <1>1, <1>2, <1>3, Bounds DEF Popped
<1>5. Head(outbound_q) = Popped + 1 BY <1>2, <1>3
<1>6. ASSUME NEW i \in 1..Len(outbound_q') PROVE outbound_q'[i] = Popped' + i
  <2>1. i \in 1..(Len(outbound_q) - 1) /\ i + 1 \in 1..Len(outbound_q) BY <1>2
  <2> QED BY <1>2, <1>3, <1>4, <2>1
<1>7. OutQueue' BY <1>4, <1>6 DEF OutQueue
<1>8. Popped + 1 \in Messages BY <1>1, <1>5, HeadTail
<1> QED BY <1>4, <1>5, <1>7, <1>8 DEF WritePops, Write, users, net

LEMMA SendFacts ==
  ASSUME TypeOK, OutQueue, SendMessage
  PROVE  OutQueue' /\ Popped' = Popped /\ UNCHANGED <<write_pc, pos, message, received, audience>>
<1>1. outbound_q \in Seq(Messages) /\ queued \in 0..MaxSend /\ queued + 1 \in Messages
      /\ outbound_q' = Append(outbound_q, queued + 1) /\ queued' = queued + 1
  BY Bounds DEF SendMessage, TypeOK, OutType
<1>2. /\ Len(outbound_q) \in Nat /\ Len(outbound_q') = Len(outbound_q) + 1
      /\ \A i \in 1..Len(outbound_q) : outbound_q'[i] = outbound_q[i]
      /\ outbound_q'[Len(outbound_q) + 1] = queued + 1
  BY <1>1, AppendFacts
<1>3. Popped \in Nat /\ \A i \in 1..Len(outbound_q) : outbound_q[i] = Popped + i BY DEF OutQueue
<1>4. Popped' = Popped /\ Popped + Len(outbound_q) = queued BY <1>1, <1>2, Bounds DEF Popped
<1>5. ASSUME NEW i \in 1..Len(outbound_q') PROVE outbound_q'[i] = Popped' + i
  <2>1. CASE i \in 1..Len(outbound_q) BY <1>2, <1>3, <1>4, <2>1
  <2>2. CASE i = Len(outbound_q) + 1 BY <1>1, <1>2, <1>3, <1>4, <2>2
  <2> QED BY <1>2, <2>1, <2>2
<1>6. OutQueue' BY <1>3, <1>4, <1>5 DEF OutQueue
<1> QED BY <1>4, <1>6 DEF SendMessage, writer

\* The other steps of write() leave the queue alone.
LEMMA QueueKept ==
  ASSUME OutQueue, NEW t \in Writers,
         WriteBegins(t) \/ WriteSends(t) \/ WriteSendFails(t) \/ WriteDangles(t) \/ WriteEnds(t)
  PROVE  OutQueue' /\ Popped' = Popped
<1>1. UNCHANGED outq BY DEF WriteBegins, WriteSends, WriteSendFails, WriteDangles, WriteEnds
<1> QED BY <1>1 DEF OutQueue, Popped, outq

LEMMA OutQueueStep ==
  ASSUME TypeOK, Nesting, OutQueue, [Next]_vars
  PROVE  OutQueue'
<1>1. CASE Steady BY <1>1 DEF Steady, OutQueue, Popped, outq
<1> QED BY <1>1, OutFrame, PopFacts, SendFacts, QueueKept

LEMMA WritingStep ==
  ASSUME TypeOK, Nesting, OutQueue, Writing, [Next]_vars
  PROVE  Writing'
<1>0. /\ write_pc = [t \in Writers |-> write_pc[t]] /\ message = [t \in Writers |-> message[t]]
      /\ \A t \in Writers : message[t] \in Nat
      /\ Writers = {"epoll", "write"} /\ Popped \in Nat
  BY Bounds DEF TypeOK, WriterType, Writers, OutQueue
<1>1. CASE Steady
  <2>1. Popped' = Popped BY <1>1 DEF Steady, Popped, outq
  <2> QED BY <1>1, <2>1 DEF Steady, Writing
<1>2. CASE SendMessage BY <1>2, SendFacts DEF Writing
<1>3. ASSUME NEW t \in Writers, WritePops(t) PROVE Writing'
  <2>1. /\ Popped' = Popped + 1 /\ message' = [message EXCEPT ![t] = Popped + 1]
        /\ write_pc' = [write_pc EXCEPT ![t] = "begin"]
    BY <1>3, PopFacts
  <2>2. \A u \in Writers : message'[u] = (IF u = t THEN Popped + 1 ELSE message[u])
          /\ write_pc'[u] = (IF u = t THEN "begin" ELSE write_pc[u])
    BY <1>0, <2>1
  <2>3. \A u \in Writers : (write_pc'[u] \in {"begin", "send"} <=> message'[u] # 0) /\ message'[u] <= Popped'
    BY <1>0, <2>1, <2>2 DEF Writing
  <2>4. \A u \in Writers : u # t => message'[u] # message'[t]
    BY <1>0, <2>2 DEF Writing
  <2>5. message'["epoll"] # message'["write"] BY <1>0, <2>4
  <2> QED BY <2>3, <2>5, Zenon DEF Writing
<1>4. ASSUME NEW t \in Writers, WriteBegins(t) PROVE Writing'
  BY <1>0, <1>4, QueueKept DEF Writing, WriteBegins, Write
<1>5. ASSUME NEW t \in Writers, WriteSends(t) \/ WriteSendFails(t) \/ WriteDangles(t) PROVE Writing'
  BY <1>0, <1>5, QueueKept DEF Writing, WriteSends, WriteSendFails, WriteDangles
<1>6. ASSUME NEW t \in Writers, WriteEnds(t) PROVE Writing'
  <2>1. /\ Popped' = Popped /\ message' = [message EXCEPT ![t] = 0]
        /\ \E there \in {"none", "newly"} : write_pc' = [write_pc EXCEPT ![t] = there]
    BY <1>6, QueueKept DEF WriteEnds, WriteReturns, Write
  <2>2. \A u \in Writers : /\ message'[u] = IF u = t THEN 0 ELSE message[u]
                          /\ u # t => write_pc'[u] = write_pc[u]
    BY <1>0, <2>1
  <2>3. write_pc'[t] \in {"none", "newly"} BY <1>0, <2>1
  <2>4. \A u \in Writers : (write_pc'[u] \in {"begin", "send"} <=> message'[u] # 0) /\ message'[u] <= Popped'
    BY <1>0, <2>1, <2>2, <2>3 DEF Writing
  <2>5. message'["epoll"] = message'["write"] => message'["epoll"] = 0
    <3>1. message'[t] = 0 /\ (t = "epoll" \/ t = "write") BY <1>0, <2>1
    <3>2. CASE t = "epoll" BY <3>1, <3>2
    <3>3. CASE t = "write" BY <3>1, <3>3
    <3> QED BY <3>1, <3>2, <3>3
  <2> QED BY <2>4, <2>5, Zenon DEF Writing
<1> QED BY <1>1, <1>2, <1>3, <1>4, <1>5, <1>6, OutFrame

-------------------------------------------------------------------------------
(* What the clients have and whom a message still has to reach *)

LEMMA WriterFacts ==
  ASSUME TypeOK, Writing
  PROVE  /\ \A t \in Writers : write_pc[t] \in {"begin", "send"} => message[t] \in Messages
         /\ \A t \in Writers : \A u \in Writers :
              t # u /\ message[t] # 0 => message[u] # message[t]
         /\ \A t \in Writers : pos[t] \in 0..End
         /\ \A t \in Writers : pos[t] # End => pos[t] \in Keys
BY Bounds DEF TypeOK, WriterType, Writing, Writers

\* The iterators go astray in two kinds of step.
LEMMA AstrayKept ==
  ASSUME \/ Steady \/ SendMessage
         \/ \E t \in Writers : WritePops(t) \/ WriteBegins(t) \/ WriteSends(t) \/ WriteEnds(t)
  PROVE  Astray' = Astray
<1>1. strays' = strays
  BY DEF Steady, SendMessage, WritePops, WriteBegins, WriteSends, WriteEnds, writer
<1> QED BY <1>1 DEF Astray

\* A message that a client has, in a step that moves no sending write() back, or only
\* one that goes astray.
LEMMA PairKept ==
  ASSUME Sent, Popped' >= Popped, Popped \in Nat, Popped' \in Nat, Astray \subseteq Astray',
         accepted \in Nat, accepted' \in Nat, accepted' >= accepted,
         NEW c \in Conns, NEW m \in Messages, Has(c, m),
         \A k \in Keys : c \in {client_socket'[k], newly_added'[k]} =>
           c \in {client_socket[k], newly_added[k]} \/ c > accepted,
         \A t \in Writers : m <= Popped /\ message'[t] = m =>
           /\ message[t] = m
           /\ write_pc[t] = "send" => write_pc'[t] = "send" /\ (m \in Astray' \/ pos'[t] >= pos[t]),
         \A t \in Writers : pos[t] \in Nat /\ pos'[t] \in Nat
  PROVE  /\ m <= Popped' /\ c <= accepted'
         /\ \A t \in Writers : message'[t] = m =>
              /\ write_pc'[t] = "send"
              /\ m \notin Astray' =>
                   \A k \in Keys : c \in {client_socket'[k], newly_added'[k]} => k < pos'[t]
<1>2. /\ m <= Popped /\ c <= accepted
      /\ \A t \in Writers : message[t] = m =>
           /\ write_pc[t] = "send"
           /\ m \notin Astray => \A k \in Keys : c \in {client_socket[k], newly_added[k]} => k < pos[t]
  BY DEF Sent
<1>3. m \in Nat /\ c \in Nat /\ Keys \subseteq Nat BY Bounds
<1>4. m <= Popped' /\ c <= accepted' /\ ~(c > accepted) BY <1>2, <1>3
<1>5. ASSUME NEW t \in Writers, message'[t] = m
      PROVE  /\ write_pc'[t] = "send"
             /\ m \notin Astray' =>
                  \A k \in Keys : c \in {client_socket'[k], newly_added'[k]} => k < pos'[t]
  <2>1. /\ message[t] = m /\ write_pc[t] = "send" /\ write_pc'[t] = "send"
        /\ m \in Astray' \/ pos'[t] >= pos[t]
    BY <1>2, <1>5
  <2>2. ASSUME m \notin Astray', NEW k \in Keys, c \in {client_socket'[k], newly_added'[k]} PROVE k < pos'[t]
    <3>1. c \in {client_socket[k], newly_added[k]} BY <1>4, <2>2
    <3>2. k < pos[t] /\ pos'[t] >= pos[t] BY <1>2, <2>1, <2>2, <3>1
    <3> QED BY <1>3, <3>2
  <2> QED BY <2>1, <2>2
<1> QED BY <1>4, <1>5

\* A step after which the clients that were ahead of an iterator still are, have the
\* message or are closed.
LEMMA ReachKept ==
  ASSUME TypeOK, OutQueue, Writing, Reach, audience' = audience, Popped' = Popped,
         closed \subseteq closed', Astray \subseteq Astray',
         \A c \in Conns : \A m \in Messages : Has(c, m) => Has(c, m)',
         \A t \in Writers : message'[t] = message[t]
                         /\ (write_pc'[t] = "send" => write_pc[t] = "send"),
         \A t \in Writers : \A k \in Keys :
           write_pc[t] = "send" /\ client_socket[k] # 0 /\ k >= pos[t] =>
             \/ message[t] \in Astray'
             \/ client_socket[k] \in closed'
             \/ k >= pos'[t] /\ client_socket'[k] = client_socket[k]
  PROVE  Reach'
<1>0. /\ 0 \notin Conns /\ \A m \in Messages : audience[m] \subseteq Conns
      /\ 1..Popped \subseteq Messages
  BY Bounds DEF TypeOK, WriterType, OutQueue, Popped, OutType
<1>1. ASSUME NEW t \in Writers, write_pc'[t] = "send", message'[t] \notin Astray',
             NEW c \in (audience'[message'[t]] \ closed')
      PROVE  Has(c, message[t])' \/ \E k \in Keys : k >= pos'[t] /\ client_socket'[k] = c
  <2>1. write_pc[t] = "send" /\ message[t] \notin Astray /\ c \in (audience[message[t]] \ closed) BY <1>1
  <2>2. Has(c, message[t]) \/ \E k \in Keys : k >= pos[t] /\ client_socket[k] = c
    BY <2>1 DEF Reach
  <2>3. ASSUME NEW k \in Keys, k >= pos[t], client_socket[k] = c, c # 0
        PROVE  k >= pos'[t] /\ client_socket'[k] = c
    BY <1>1, <2>1, <2>3
  <2>4. message[t] \in Messages BY <2>1, WriterFacts
  <2>5. c # 0 /\ c \in Conns BY <1>0, <2>1, <2>4
  <2>6. Has(c, message[t]) => Has(c, message[t])'
    <3>1. \A m \in Messages : Has(c, m) => Has(c, m)' BY <2>5
    <3>2. message'[t] = message[t] OBVIOUS
    <3> QED BY <2>4, <3>1, <3>2 DEF Has
  <2> QED BY <2>2, <2>3, <2>5, <2>6
<1>2. ASSUME NEW m \in ((1..Popped') \ Astray'), \A t \in Writers : message'[t] # m,
             NEW c \in (audience'[m] \ closed')
      PROVE  Has(c, m)'
  <2>1. m \in Messages /\ c \in Conns BY <1>0, <1>2
  <2>2. Has(c, m) BY <1>2 DEF Reach
  <2> QED BY <2>1, <2>2
<1>3. \A t \in Writers : message'[t] = message[t] OBVIOUS
<1> QED BY <1>1, <1>2, <1>3 DEF Reach, Has

LEMMA AppendElements ==
  ASSUME NEW S, NEW q \in Seq(S), NEW x \in S
  PROVE  \A y : y \in Elements(Append(q, x)) <=> y \in Elements(q) \/ y = x
<1>1. /\ DOMAIN q = 1..Len(q) /\ DOMAIN Append(q, x) = 1..(Len(q) + 1) /\ Len(q) \in Nat
      /\ \A i \in 1..Len(q) : Append(q, x)[i] = q[i]
      /\ Append(q, x)[Len(q) + 1] = x
  BY AppendFacts
<1>2. \A i \in 1..(Len(q) + 1) : i \in 1..Len(q) \/ i = Len(q) + 1 BY <1>1
<1>3. 1..Len(q) \subseteq 1..(Len(q) + 1) /\ Len(q) + 1 \in 1..(Len(q) + 1) BY <1>1
<1> QED BY <1>1, <1>2, <1>3 DEF Elements

\* ++it of an element that is there.
LEMMA AdvanceFacts ==
  ASSUME TypeOK, NEW t \in Writers, pos[t] \in Keys, Advance(t)
  PROVE  /\ pos'[t] \in Nat /\ pos'[t] > pos[t]
         /\ \A u \in Writers : u # t => pos'[u] = pos[u]
         /\ \A k \in Keys : client_socket[k] # 0 /\ k > pos[t] => k >= pos'[t]
<1>1. client_socket \in [Keys -> 0..MaxConn] /\ pos = [u \in Writers |-> pos[u]]
  BY DEF TypeOK, UsersType, WriterType
<1>2. pos[t] \in Nat /\ pos[t] < End /\ pos[t] + 1 \in Nat /\ Keys \subseteq Nat /\ End \in Nat BY Bounds
<1>3. /\ pos'[t] = From(client_socket, pos[t] + 1)
      /\ \A u \in Writers : u # t => pos'[u] = pos[u]
  BY <1>1 DEF Advance
<1>4. /\ pos'[t] \in Keys \cup {End} /\ (pos'[t] >= pos[t] + 1 \/ pos'[t] = End)
      /\ \A x \in Keys : client_socket[x] # 0 /\ x >= pos[t] + 1 => pos'[t] <= x
  BY <1>1, <1>2, <1>3, FromFacts
<1>5. pos'[t] \in Nat /\ pos'[t] > pos[t]
  <2>1. pos'[t] \in Nat BY <1>2, <1>4
  <2>2. CASE pos'[t] = End BY <1>2, <2>1, <2>2
  <2>3. CASE pos'[t] >= pos[t] + 1 BY <1>2, <2>1, <2>3
  <2> QED BY <1>4, <2>1, <2>2, <2>3
<1>6. \A k \in Keys : k > pos[t] => k >= pos[t] + 1 BY <1>2
<1> QED BY <1>2, <1>3, <1>4, <1>5, <1>6

\* The iteration of a send() that succeeds.
LEMMA LoopFacts ==
  ASSUME TypeOK, NEW t \in Writers, WriteSends(t)
  PROVE  /\ write_pc[t] = "send" /\ pos[t] \in Keys
         /\ UNCHANGED <<write_pc, message, audience, strays, outq, users, net>>
         /\ \A u \in Writers : pos'[u] \in Nat /\ pos'[u] >= pos[u] /\ (u # t => pos'[u] = pos[u])
         /\ pos'[t] > pos[t]
         /\ \A k \in Keys : client_socket[k] # 0 /\ k > pos[t] => k >= pos'[t]
<1>0. (\A u \in Writers : pos[u] \in Nat) /\ \A x \in Nat : x >= x
  BY Bounds DEF TypeOK, WriterType
<1>1. /\ write_pc[t] = "send" /\ pos[t] \in Keys /\ Advance(t)
      /\ UNCHANGED <<write_pc, message, audience, strays, outq, users, net>>
  BY DEF WriteSends, At, Present
<1>2. /\ pos'[t] \in Nat /\ pos'[t] > pos[t]
      /\ \A u \in Writers : u # t => pos'[u] = pos[u]
      /\ \A k \in Keys : client_socket[k] # 0 /\ k > pos[t] => k >= pos'[t]
  BY <1>1, AdvanceFacts
<1>3. ASSUME NEW u \in Writers PROVE pos'[u] \in Nat /\ pos'[u] >= pos[u]
  <2>1. CASE u = t BY <1>0, <1>2, <2>1
  <2>2. CASE u # t BY <1>0, <1>2, <2>2
  <2> QED BY <2>1, <2>2
<1> QED BY <1>1, <1>2, <1>3

\* A send() to one more connection.
LEMMA HasFacts ==
  ASSUME TypeOK, NEW c0 \in Conns, NEW x \in Messages,
         received' = [received EXCEPT ![c0] = Append(received[c0], x)]
  PROVE  \A c \in Conns : \A m : Has(c, m)' <=> Has(c, m) \/ (c = c0 /\ m = x)
<1>1. \A c \in Conns : received[c] \in Seq(Messages) /\ received'[c] =
        (IF c = c0 THEN Append(received[c], x) ELSE received[c])
  BY DEF TypeOK, WriterType
<1>2. ASSUME NEW c \in Conns PROVE \A m : Has(c, m)' <=> Has(c, m) \/ (c = c0 /\ m = x)
  <2>1. \A m : m \in Elements(Append(received[c], x)) <=> m \in Elements(received[c]) \/ m = x
    BY <1>1, AppendElements
  <2>2. CASE c = c0 BY <1>1, <2>1, <2>2 DEF Has
  <2>3. CASE c # c0 BY <1>1, <2>3 DEF Has
  <2> QED BY <2>2, <2>3
<1> QED BY <1>2

\* A writer whose element has been erased, by itself or by the other.
LEMMA GoneFacts ==
  ASSUME TypeOK, TypeOK', Writing, NEW t \in Writers, WriteSendFails(t) \/ WriteDangles(t)
  PROVE  /\ write_pc[t] = "send" /\ message[t] \in Messages /\ Astray \subseteq Astray'
         /\ UNCHANGED <<write_pc, message, audience, outq, newly_added, accepted>>
         /\ \A u \in Writers : pos'[u] \in Nat /\ (u # t => pos'[u] = pos[u])
         /\ \/ UNCHANGED <<pos, received, strays>>
            \/ /\ Astray' = Astray \cup {message[t]}
               /\ \/ UNCHANGED received
                  \/ \E c \in 1..accepted : received' = [received EXCEPT ![c] = Append(@, message[t])]
<1>1. /\ write_pc[t] = "send" /\ UNCHANGED <<write_pc, message, audience, outq, newly_added, accepted>>
      /\ \/ UNCHANGED <<pos, received, strays>>
         \/ /\ GoesAstray(t)
            /\ \/ UNCHANGED received
               \/ \E c \in 1..accepted : received' = [received EXCEPT ![c] = Append(@, message[t])]
  BY DEF WriteSendFails, WriteDangles, WriteGone, Dies, At, users, net
<1>2. message[t] \in Messages BY <1>1, WriterFacts
<1>a. pos = [u \in Writers |-> pos[u]] /\ \A u \in Writers : pos'[u] \in Nat
  BY Bounds DEF TypeOK, WriterType
<1>b. strays \in [Messages -> Nat]
  <2>1. strays \in [Messages -> 0..MaxStray] /\ 0..MaxStray \subseteq Nat BY Bounds DEF TypeOK, WriterType
  <2> QED BY <2>1
<1>3. /\ strays \in [Messages -> Nat] /\ pos = [u \in Writers |-> pos[u]]
      /\ \A u \in Writers : pos'[u] \in Nat
  BY <1>a, <1>b
<1>4. GoesAstray(t) => Astray' = Astray \cup {message[t]} /\ \A u \in Writers : u # t => pos'[u] = pos[u]
  <2> SUFFICES ASSUME GoesAstray(t)
               PROVE  Astray' = Astray \cup {message[t]} /\ \A u \in Writers : u # t => pos'[u] = pos[u]
    OBVIOUS
  <2>1. /\ \A m \in Messages : strays'[m] = IF m = message[t] THEN strays[m] + 1 ELSE strays[m]
        /\ \A u \in Writers : u # t => pos'[u] = pos[u]
    BY <1>3 DEF GoesAstray
  <2>2. \A m \in Messages : strays'[m] > 0 <=> m = message[t] \/ strays[m] > 0 BY <1>3, <2>1
  <2>3. Astray' = {m \in Messages : strays'[m] > 0} BY DEF Astray
  <2> QED BY <1>2, <2>1, <2>2, <2>3 DEF Astray
<1>5. UNCHANGED strays => Astray' = Astray BY DEF Astray
<1> QED BY <1>1, <1>2, <1>3, <1>4, <1>5

\* One send() that succeeds.
LEMMA SendsFacts ==
  ASSUME TypeOK, ClientKeys, Writing, Sent, NEW t \in Writers, WriteSends(t)
  PROVE  LET c0 == client_socket[pos[t]] IN
         /\ c0 \in Conns /\ message[t] \in Messages
         /\ message[t] \notin Astray => ~Has(c0, message[t])
         /\ received' = [received EXCEPT ![c0] = Append(received[c0], message[t])]
         /\ \A c \in Conns : \A m : Has(c, m)' <=> Has(c, m) \/ (c = c0 /\ m = message[t])
         /\ UNCHANGED users
<1> DEFINE c0 == client_socket[pos[t]]
<1>1. /\ pos[t] \in Present(client_socket) /\ write_pc[t] = "send" /\ UNCHANGED users
      /\ received' = [received EXCEPT ![c0] = Append(received[c0], message[t])]
  BY DEF WriteSends, At
<1>2. pos[t] \in Keys /\ c0 \in Conns /\ message[t] \in Messages
  BY <1>1, WriterFacts, Bounds DEF Present, TypeOK, UsersType
<1>3. ASSUME message[t] \notin Astray, Has(c0, message[t]) PROVE FALSE
  <2>1. pos[t] < pos[t] BY <1>1, <1>2, <1>3 DEF Sent
  <2> QED BY <1>2, <2>1, Bounds
<1>4. \A c \in Conns : \A m : Has(c, m)' <=> Has(c, m) \/ (c = c0 /\ m = message[t])
  <2> HIDE DEF c0
  <2> QED BY <1>1, <1>2, HasFacts
<1> QED BY <1>1, <1>2, <1>3, <1>4

LEMMA SentStep ==
  ASSUME TypeOK, TypeOK', Nesting, Counting, NewKeys, ClientKeys, OutQueue, OutQueue', Writing, Sent, [Next]_vars
  PROVE  Sent'
<1>a. \A t \in Writers : pos[t] \in Nat /\ pos'[t] \in Nat BY Bounds DEF TypeOK, WriterType
<1>0. /\ accepted \in Nat /\ accepted' \in Nat /\ Popped \in Nat /\ Popped' \in Nat
      /\ \A t \in Writers : pos[t] \in Nat /\ pos'[t] \in Nat
      /\ \A m \in Messages : m \in Nat /\ m # 0
      /\ \A c \in Conns : c \in Nat /\ c # 0
      /\ message = [t \in Writers |-> message[t]] /\ write_pc = [t \in Writers |-> write_pc[t]]
      /\ pos = [t \in Writers |-> pos[t]] /\ \A x \in Nat : x >= x /\ x + 1 >= x
  BY <1>a, Bounds DEF TypeOK, NetType, WriterType, OutQueue
<1>1. /\ accepted' >= accepted
      /\ \A c \in Conns : \A k \in Keys :
           c \in {client_socket'[k], newly_added'[k]} =>
             c \in {client_socket[k], newly_added[k]} \/ c > accepted
  BY MapsStep
<1> SUFFICES ASSUME NEW c \in Conns, NEW m \in Messages, Has(c, m)'
             PROVE  /\ m <= Popped' /\ c <= accepted'
                    /\ \A t \in Writers : message'[t] = m =>
                         /\ write_pc'[t] = "send"
                         /\ m \notin Astray' =>
                              \A k \in Keys : c \in {client_socket'[k], newly_added'[k]} => k < pos'[t]
  BY DEF Sent
<1>2. ASSUME Has(c, m), Popped' >= Popped, Astray \subseteq Astray',
             \A t \in Writers : m <= Popped /\ message'[t] = m =>
               /\ message[t] = m
               /\ write_pc[t] = "send" => write_pc'[t] = "send" /\ (m \in Astray' \/ pos'[t] >= pos[t])
      PROVE  /\ m <= Popped' /\ c <= accepted'
             /\ \A t \in Writers : message'[t] = m =>
                  /\ write_pc'[t] = "send"
                  /\ m \notin Astray' =>
                              \A k \in Keys : c \in {client_socket'[k], newly_added'[k]} => k < pos'[t]
  BY <1>0, <1>1, <1>2, PairKept
<1>3. received' = received => Has(c, m) BY DEF Has
<1>4. CASE Steady
  <2>1. Popped' = Popped /\ UNCHANGED <<received, message, pos>> BY <1>4 DEF Steady, Popped, outq
  <2>2. \A t \in Writers : write_pc[t] = "send" => write_pc'[t] = "send" BY <1>4 DEF Steady
  <2>3. Astray' = Astray BY <1>4, AstrayKept
  <2> QED BY <1>0, <1>2, <1>3, <2>1, <2>2, <2>3
<1>5. CASE SendMessage
  <2>1. Popped' = Popped /\ UNCHANGED <<received, message, pos, write_pc>> BY <1>5, SendFacts
  <2>2. Astray' = Astray BY <1>5, AstrayKept
  <2> QED BY <1>0, <1>2, <1>3, <2>1, <2>2
<1>6. ASSUME NEW t \in Writers, WritePops(t)
      PROVE  /\ Has(c, m) /\ Popped' >= Popped /\ Astray' = Astray
             /\ \A u \in Writers : m <= Popped /\ message'[u] = m =>
                  message[u] = m /\ (write_pc[u] = "send" => write_pc'[u] = "send" /\ pos'[u] >= pos[u])
  <2>1. /\ Popped' = Popped + 1 /\ UNCHANGED <<received, pos>>
        /\ message' = [message EXCEPT ![t] = Popped + 1]
        /\ write_pc' = [write_pc EXCEPT ![t] = "begin"]
    BY <1>6, PopFacts
  <2>2. ASSUME NEW u \in Writers, m <= Popped, message'[u] = m
        PROVE  message[u] = m /\ write_pc'[u] = write_pc[u]
    <3>1. u # t BY <1>0, <2>1, <2>2
    <3> QED BY <1>0, <2>1, <2>2, <3>1
  <2>3. Astray' = Astray BY <1>6, AstrayKept
  <2> QED BY <1>0, <1>3, <2>1, <2>2, <2>3
<1>7. ASSUME NEW t \in Writers, WriteBegins(t)
      PROVE  /\ Has(c, m) /\ Popped' >= Popped /\ Astray' = Astray
             /\ \A u \in Writers : m <= Popped /\ message'[u] = m =>
                  message[u] = m /\ (write_pc[u] = "send" => write_pc'[u] = "send" /\ pos'[u] >= pos[u])
  <2>1. Popped' = Popped BY <1>7, QueueKept
  <2>2. /\ UNCHANGED <<received, message>> /\ write_pc[t] = "begin"
        /\ write_pc' = [write_pc EXCEPT ![t] = "send"]
        /\ \A u \in Writers : u # t => pos'[u] = pos[u]
    BY <1>0, <1>7 DEF WriteBegins, Write
  <2>3. Astray' = Astray BY <1>7, AstrayKept
  <2> QED BY <1>0, <1>3, <2>1, <2>2, <2>3
<1>8. ASSUME NEW t \in Writers, WriteSendFails(t) \/ WriteDangles(t)
      PROVE  /\ m <= Popped' /\ c <= accepted'
             /\ \A u \in Writers : message'[u] = m =>
                  /\ write_pc'[u] = "send"
                  /\ m \notin Astray' =>
                       \A k \in Keys : c \in {client_socket'[k], newly_added'[k]} => k < pos'[u]
  <2>1. Popped' = Popped BY <1>8, QueueKept
  <2>2. /\ write_pc[t] = "send" /\ message[t] \in Messages /\ Astray \subseteq Astray'
        /\ UNCHANGED <<write_pc, message, accepted>>
        /\ \A u \in Writers : u # t => pos'[u] = pos[u]
        /\ \/ UNCHANGED <<pos, received, strays>>
           \/ /\ Astray' = Astray \cup {message[t]}
              /\ \/ UNCHANGED received
                 \/ \E d \in 1..accepted : received' = [received EXCEPT ![d] = Append(@, message[t])]
    BY <1>8, GoneFacts
  <2>3. CASE Has(c, m)
    <3>1. ASSUME NEW u \in Writers, message'[u] = m PROVE m \in Astray' \/ pos'[u] >= pos[u]
      <4>1. pos'[u] = pos[u] => pos'[u] >= pos[u] BY <1>0
      <4> QED BY <2>2, <3>1, <4>1
    <3> QED BY <1>0, <1>2, <2>1, <2>2, <2>3, <3>1
  <2>4. CASE ~Has(c, m)
    <3>1. PICK d \in 1..accepted : received' = [received EXCEPT ![d] = Append(received[d], message[t])]
      BY <1>3, <2>2, <2>4
    <3>2. d \in Conns BY Bounds DEF TypeOK, NetType
    <3>3. c = d /\ m = message[t] BY <2>2, <2>4, <3>1, <3>2, HasFacts
    <3>4. received # received' BY <1>3, <2>4
    <3>5. m \in Astray' BY <2>2, <3>3, <3>4
    <3>6. m <= Popped /\ c <= accepted BY <1>0, <3>3 DEF Writing
    <3>7. \A u \in Writers : message'[u] = m => u = t BY <1>0, <2>2, <3>3, WriterFacts
    <3> QED BY <2>1, <2>2, <3>5, <3>6, <3>7
  <2> QED BY <2>3, <2>4
<1>9. ASSUME NEW t \in Writers, WriteEnds(t)
      PROVE  /\ Has(c, m) /\ Popped' >= Popped /\ Astray' = Astray
             /\ \A u \in Writers : m <= Popped /\ message'[u] = m =>
                  message[u] = m /\ (write_pc[u] = "send" => write_pc'[u] = "send" /\ pos'[u] >= pos[u])
  <2>1. Popped' = Popped BY <1>9, QueueKept
  <2>2. /\ UNCHANGED <<received, pos>> /\ message' = [message EXCEPT ![t] = 0]
        /\ \A u \in Writers : u # t => write_pc'[u] = write_pc[u]
    BY <1>0, <1>9 DEF WriteEnds, WriteReturns, Write
  <2>3. Astray' = Astray BY <1>9, AstrayKept
  <2> QED BY <1>0, <1>3, <2>1, <2>2, <2>3
<1>10. ASSUME NEW t \in Writers, WriteSends(t)
       PROVE  /\ m <= Popped' /\ c <= accepted'
              /\ \A u \in Writers : message'[u] = m =>
                   /\ write_pc'[u] = "send"
                   /\ m \notin Astray' =>
                        \A k \in Keys : c \in {client_socket'[k], newly_added'[k]} => k < pos'[u]
  <2>1. Popped' = Popped BY <1>10, QueueKept
  <2>2. /\ write_pc[t] = "send" /\ pos[t] \in Keys /\ UNCHANGED <<write_pc, message, accepted>>
        /\ \A u \in Writers : pos'[u] >= pos[u]
        /\ pos'[t] > pos[t] /\ Astray' = Astray
    BY <1>10, LoopFacts, AstrayKept DEF net
  <2>3. /\ client_socket[pos[t]] \in Conns /\ message[t] \in Messages
        /\ Has(c, m) \/ (c = client_socket[pos[t]] /\ m = message[t])
        /\ UNCHANGED <<client_socket, newly_added>>
    BY <1>10, SendsFacts DEF users
  <2>4. CASE Has(c, m) BY <1>0, <1>2, <2>1, <2>2, <2>4
  <2>5. CASE c = client_socket[pos[t]] /\ m = message[t]
    <3>1. m <= Popped /\ c <= accepted BY <1>0, <2>2, <2>3, <2>5 DEF Writing, ClientKeys
    <3>2. \A u \in Writers : message'[u] = m => u = t BY <1>0, <2>2, <2>5, WriterFacts
    <3>3. ASSUME NEW k \in Keys, c \in {client_socket'[k], newly_added'[k]} PROVE k < pos'[t]
      <4>1. c = client_socket[k] \/ c = newly_added[k] BY <2>3, <3>3
      <4>2. k = pos[t]
        <5>1. CASE c = client_socket[k] BY <1>0, <2>2, <2>5, <5>1 DEF ClientKeys
        <5>2. CASE c = newly_added[k] BY <1>0, <2>2, <2>5, <5>2 DEF NewKeys
        <5> QED BY <4>1, <5>1, <5>2
      <4> QED BY <1>0, <2>2, <4>2
    <3> QED BY <2>1, <2>2, <3>1, <3>2, <3>3
  <2> QED BY <2>3, <2>4, <2>5
<1>11. ASSUME NEW t \in Writers, WritePops(t) \/ WriteBegins(t) \/ WriteEnds(t)
       PROVE  /\ m <= Popped' /\ c <= accepted'
              /\ \A u \in Writers : message'[u] = m =>
                   /\ write_pc'[u] = "send"
                   /\ m \notin Astray' =>
                        \A k \in Keys : c \in {client_socket'[k], newly_added'[k]} => k < pos'[u]
  BY <1>2, <1>6, <1>7, <1>9, <1>11
<1> QED BY <1>4, <1>5, <1>8, <1>10, <1>11, OutFrame

\* A send() of a message that the client does not have, or that went astray.
LEMMA OnceKept ==
  ASSUME TypeOK, SentOnce, Astray \subseteq Astray', NEW c0 \in Conns, NEW x \in Messages,
         received' = [received EXCEPT ![c0] = Append(received[c0], x)],
         x \in Astray' \/ ~Has(c0, x)
  PROVE  SentOnce'
<1>1. \A c \in Conns : received[c] \in Seq(Messages) /\ received'[c] =
        (IF c = c0 THEN Append(received[c], x) ELSE received[c])
  BY DEF TypeOK, WriterType
<1> SUFFICES ASSUME NEW c \in Conns, NEW i \in DOMAIN received'[c], NEW j \in DOMAIN received'[c], i # j,
                    received'[c][i] \notin Astray'
             PROVE  received'[c][i] # received'[c][j]
  BY DEF SentOnce
<1>2. CASE c # c0
  <2>1. received'[c] = received[c] BY <1>1, <1>2
  <2> QED BY <2>1 DEF SentOnce
<1>3. CASE c = c0
  <2> DEFINE n == Len(received[c])
  <2>1. /\ n \in Nat /\ DOMAIN received[c] = 1..n /\ DOMAIN received'[c] = 1..(n + 1)
        /\ \A y \in 1..n : received'[c][y] = received[c][y]
        /\ received'[c][n + 1] = x
    <3>1. received[c] \in Seq(Messages) /\ received'[c] = Append(received[c], x) BY <1>1, <1>3
    <3> QED BY <3>1, AppendFacts
  <2>2. x \in Astray' \/ \A y \in 1..n : received[c][y] # x BY <1>3, <2>1 DEF Has, Elements
  <2>3. \A y \in 1..n : \A z \in 1..n : y # z /\ received[c][y] \notin Astray' => received[c][y] # received[c][z]
    BY <2>1 DEF SentOnce
  <2>4. (i \in 1..n \/ i = n + 1) /\ (j \in 1..n \/ j = n + 1)
    <3> HIDE DEF n
    <3> QED BY <2>1
  <2> HIDE DEF n
  <2>5. CASE i \in 1..n /\ j \in 1..n BY <2>1, <2>3, <2>5
  <2>6. CASE i \in 1..n /\ j = n + 1 BY <2>1, <2>2, <2>6
  <2>7. CASE i = n + 1 /\ j \in 1..n BY <2>1, <2>2, <2>7
  <2> QED BY <2>4, <2>5, <2>6, <2>7
<1> QED BY <1>2, <1>3

LEMMA SentOnceStep ==
  ASSUME TypeOK, TypeOK', Nesting, ClientKeys, Writing, Sent, SentOnce, [Next]_vars
  PROVE  SentOnce'
<1>1. UNCHANGED received /\ Astray \subseteq Astray' => SentOnce' BY DEF SentOnce
<1>2. ASSUME NEW t \in Writers, WriteSends(t) PROVE SentOnce'
  <2> DEFINE c0 == client_socket[pos[t]]
  <2>1. /\ c0 \in Conns /\ message[t] \in Messages /\ (message[t] \notin Astray => ~Has(c0, message[t]))
        /\ received' = [received EXCEPT ![c0] = Append(received[c0], message[t])]
    BY <1>2, SendsFacts
  <2>2. Astray' = Astray BY <1>2, AstrayKept
  <2> HIDE DEF c0
  <2> QED BY <2>1, <2>2, OnceKept
<1>3. ASSUME NEW t \in Writers, WriteSendFails(t) \/ WriteDangles(t) PROVE SentOnce'
  <2>1. /\ message[t] \in Messages /\ Astray \subseteq Astray'
        /\ \/ UNCHANGED <<pos, received, strays>>
           \/ /\ Astray' = Astray \cup {message[t]}
              /\ \/ UNCHANGED received
                 \/ \E c \in 1..accepted : received' = [received EXCEPT ![c] = Append(@, message[t])]
    BY <1>3, GoneFacts
  <2>2. CASE UNCHANGED received BY <1>1, <2>1, <2>2
  <2>3. ASSUME NEW c \in 1..accepted, message[t] \in Astray',
               received' = [received EXCEPT ![c] = Append(received[c], message[t])]
        PROVE  SentOnce'
    <3>1. c \in Conns BY Bounds DEF TypeOK, NetType
    <3> QED BY <2>1, <2>3, <3>1, OnceKept
  <2> QED BY <2>1, <2>2, <2>3
<1>4. ASSUME NEW t \in Writers, WritePops(t) \/ WriteBegins(t) \/ WriteEnds(t) PROVE SentOnce'
  <2>1. UNCHANGED received BY <1>4 DEF WritePops, WriteBegins, WriteEnds
  <2>2. Astray' = Astray BY <1>4, AstrayKept
  <2> QED BY <1>1, <2>1, <2>2
<1>5. CASE Steady \/ SendMessage
  <2>1. UNCHANGED received BY <1>5 DEF Steady, SendMessage, writer
  <2>2. Astray' = Astray BY <1>5, AstrayKept
  <2> QED BY <1>1, <2>1, <2>2
<1> QED BY <1>2, <1>3, <1>4, <1>5, OutFrame

LEMMA ReachStep ==
  ASSUME TypeOK, TypeOK', Nesting, Counting, NewKeys, ClientKeys, OutQueue, Writing, Sent, Reach, [Next]_vars
  PROVE  Reach'
<1>0. /\ Popped \in Nat /\ \A t \in Writers : pos[t] \in Nat /\ \A m \in Messages : m # 0
      /\ client_socket \in [Keys -> 0..MaxConn] /\ Keys \subseteq Nat /\ 0 \notin Conns
      /\ message = [t \in Writers |-> message[t]] /\ write_pc = [t \in Writers |-> write_pc[t]]
      /\ pos = [t \in Writers |-> pos[t]] /\ audience = [m \in Messages |-> audience[m]]
      /\ \A x \in Nat : x >= x
  BY Bounds DEF TypeOK, UsersType, WriterType, OutQueue
<1>1. /\ closed \subseteq closed'
      /\ \A k \in Keys : client_socket[k] # 0 =>
           client_socket'[k] = client_socket[k] \/ client_socket[k] \in closed'
  BY MapsStep
<1>2. CASE Steady
  <2>1. Popped' = Popped /\ UNCHANGED <<received, audience, message, pos>>
    BY <1>2 DEF Steady, Popped, outq
  <2>2. \A t \in Writers : write_pc'[t] = "send" => write_pc[t] = "send" BY <1>2 DEF Steady
  <2>3. Astray' = Astray BY <1>2, AstrayKept
  <2> QED BY <1>0, <1>1, <2>1, <2>2, <2>3, ReachKept DEF Has
<1>3. CASE SendMessage
  <2>1. Popped' = Popped /\ UNCHANGED <<received, audience, message, pos, write_pc>> BY <1>3, SendFacts
  <2>2. Astray' = Astray BY <1>3, AstrayKept
  <2> QED BY <1>0, <1>1, <2>1, <2>2, ReachKept DEF Has
<1>4. ASSUME NEW t \in Writers, WriteSendFails(t) \/ WriteDangles(t) PROVE Reach'
  <2>1. Popped' = Popped BY <1>4, QueueKept
  <2>2. /\ message[t] \in Messages /\ Astray \subseteq Astray'
        /\ UNCHANGED <<write_pc, message, audience>>
        /\ \A u \in Writers : u # t => pos'[u] = pos[u]
        /\ \/ UNCHANGED <<pos, received, strays>>
           \/ /\ Astray' = Astray \cup {message[t]}
              /\ \/ UNCHANGED received
                 \/ \E d \in 1..accepted : received' = [received EXCEPT ![d] = Append(@, message[t])]
    BY <1>4, GoneFacts
  <2>3. ASSUME NEW c \in Conns, NEW m \in Messages, Has(c, m) PROVE Has(c, m)'
    <3>1. CASE UNCHANGED received BY <2>3, <3>1 DEF Has
    <3>2. ASSUME NEW d \in 1..accepted, received' = [received EXCEPT ![d] = Append(received[d], message[t])]
          PROVE  Has(c, m)'
      <4>1. d \in Conns BY Bounds DEF TypeOK, NetType
      <4> QED BY <2>2, <2>3, <3>2, <4>1, HasFacts
    <3> QED BY <2>2, <3>1, <3>2
  <2>4. ASSUME NEW u \in Writers, NEW k \in Keys, client_socket[k] # 0, k >= pos[u]
        PROVE  \/ message[u] \in Astray'
               \/ client_socket[k] \in closed'
               \/ k >= pos'[u] /\ client_socket'[k] = client_socket[k]
    BY <1>1, <2>2, <2>4
  <2> QED BY <1>1, <2>1, <2>2, <2>3, <2>4, ReachKept
<1>5. ASSUME NEW t \in Writers, WritePops(t) PROVE Reach'
  <2>1. /\ Popped' = Popped + 1 /\ message' = [message EXCEPT ![t] = Popped + 1]
        /\ write_pc[t] = "lock" /\ write_pc' = [write_pc EXCEPT ![t] = "begin"]
        /\ UNCHANGED <<pos, received, audience, client_socket, closed>> /\ Astray' = Astray
    BY <1>5, PopFacts, AstrayKept
  <2>2. \A u \in Writers : write_pc'[u] = "send" => message'[u] = message[u] /\ write_pc[u] = "send"
    BY <1>0, <2>1
  <2>3. message[t] = 0 BY <2>1 DEF Writing
  <2>4. ASSUME NEW m \in ((1..Popped') \ Astray'), \A u \in Writers : message'[u] # m
        PROVE  m \in ((1..Popped) \ Astray) /\ \A u \in Writers : message[u] # m
    <3>1. m # Popped + 1 BY <1>0, <2>1, <2>4
    <3>2. m \in ((1..Popped) \ Astray) /\ m # 0 BY <1>0, <2>1, <3>1
    <3>3. ASSUME NEW u \in Writers PROVE message[u] # m
      <4>1. CASE u = t BY <2>3, <3>2, <4>1
      <4>2. CASE u # t BY <1>0, <2>1, <2>4, <4>2
      <4> QED BY <4>1, <4>2
    <3> QED BY <3>2, <3>3
  <2> QED BY <2>1, <2>2, <2>4 DEF Reach, Has
<1>6. ASSUME NEW t \in Writers, WriteBegins(t) PROVE Reach'
  <2>1. /\ Popped' = Popped /\ UNCHANGED <<message, received, client_socket, closed>>
        /\ write_pc[t] = "begin" /\ write_pc' = [write_pc EXCEPT ![t] = "send"]
        /\ pos' = [pos EXCEPT ![t] = From(client_socket, 0)]
        /\ audience' = [audience EXCEPT ![message[t]] = Clients(client_socket)] /\ Astray' = Astray
    BY <1>6, QueueKept, AstrayKept DEF WriteBegins, Write, users, net
  <2>2. message[t] \in Messages BY <2>1, WriterFacts
  <2>3. ASSUME NEW u \in Writers, write_pc'[u] = "send", message'[u] \notin Astray',
               NEW c \in (audience'[message'[u]] \ closed')
        PROVE  Has(c, message[u]) \/ \E k \in Keys : k >= pos'[u] /\ client_socket[k] = c
    <3>1. CASE u = t
      <4>1. c \in Clients(client_socket) BY <1>0, <2>1, <2>2, <2>3, <3>1
      <4>2. PICK k \in Keys : client_socket[k] = c /\ c # 0 BY <1>0, <4>1, ClientsFacts
      <4>3. From(client_socket, 0) <= k BY <1>0, <4>2, FromFacts
      <4>4. From(client_socket, 0) \in Nat BY Iterators, Bounds
      <4>5. k >= pos'[u] BY <1>0, <2>1, <3>1, <4>3, <4>4
      <4> QED BY <4>2, <4>5
    <3>2. CASE u # t
      <4>1. write_pc[u] = "send" /\ pos'[u] = pos[u] BY <1>0, <2>1, <2>3, <3>2
      <4>2. message[u] \in Messages /\ message[u] # message[t]
        BY <1>0, <2>2, <3>2, <4>1, WriterFacts
      <4>3. c \in (audience[message[u]] \ closed) BY <1>0, <2>1, <2>3, <4>2
      <4>4. message[u] \notin Astray BY <2>1, <2>3
      <4> QED BY <4>1, <4>3, <4>4 DEF Reach
    <3> QED BY <3>1, <3>2
  <2>4. ASSUME NEW m \in ((1..Popped') \ Astray'), \A u \in Writers : message'[u] # m, NEW c \in (audience'[m] \ closed')
        PROVE  Has(c, m)
    <3>1. m # message[t] /\ m \in ((1..Popped) \ Astray) /\ \A u \in Writers : message[u] # m BY <2>1, <2>4
    <3>2. audience'[m] = audience[m] BY <1>0, <2>1, <3>1
    <3> QED BY <2>1, <2>4, <3>1, <3>2 DEF Reach
  <2> QED BY <2>1, <2>3, <2>4 DEF Reach, Has
<1>7. ASSUME NEW t \in Writers, WriteEnds(t) PROVE Reach'
  <2>1. /\ Popped' = Popped /\ UNCHANGED <<pos, received, audience, client_socket, closed>>
        /\ message' = [message EXCEPT ![t] = 0] /\ write_pc[t] = "send" /\ pos[t] = End
        /\ \A u \in Writers : u # t => write_pc'[u] = write_pc[u]
        /\ write_pc'[t] \in {"none", "newly"} /\ Astray' = Astray
    BY <1>0, <1>7, QueueKept, AstrayKept DEF WriteEnds, WriteReturns, Write, users, net
  <2>2. \A u \in Writers : write_pc'[u] = "send" => message'[u] = message[u] /\ write_pc[u] = "send"
    BY <1>0, <2>1
  <2>3. ASSUME NEW m \in ((1..Popped') \ Astray'), \A u \in Writers : message'[u] # m, NEW c \in (audience'[m] \ closed')
        PROVE  Has(c, m)
    <3>1. CASE m = message[t]
      <4>1. ~ \E k \in Keys : k >= pos[t] BY <2>1, Bounds
      <4> QED BY <2>1, <2>3, <3>1, <4>1 DEF Reach
    <3>2. CASE m # message[t]
      <4>1. \A u \in Writers : message[u] # m BY <1>0, <2>1, <2>3, <3>2
      <4> QED BY <2>1, <2>3, <4>1 DEF Reach
    <3> QED BY <3>1, <3>2
  <2> QED BY <2>1, <2>2, <2>3 DEF Reach, Has
<1>8. ASSUME NEW t \in Writers, WriteSends(t) PROVE Reach'
  <2> DEFINE c0 == client_socket[pos[t]]
  <2>1. Popped' = Popped BY <1>8, QueueKept
  <2>2. /\ write_pc[t] = "send" /\ pos[t] \in Keys /\ UNCHANGED <<write_pc, message, audience>>
        /\ \A u \in Writers : u # t => pos'[u] = pos[u]
        /\ \A k \in Keys : client_socket[k] # 0 /\ k > pos[t] => k >= pos'[t]
        /\ Astray' = Astray
    BY <1>8, LoopFacts, AstrayKept
  <2>3. /\ \A c \in Conns : \A m : Has(c, m)' <=> Has(c, m) \/ (c = c0 /\ m = message[t])
        /\ UNCHANGED client_socket
    BY <1>8, SendsFacts DEF users
  <2>4. /\ \A u \in Writers : write_pc[u] = "send" => audience[message[u]] \subseteq Conns
        /\ \A m \in 1..Popped : audience[m] \subseteq Conns
    <3>1. 1..Popped \subseteq Messages
      BY <1>0, Bounds DEF Popped, TypeOK, OutType
    <3> QED BY <3>1, WriterFacts DEF TypeOK, WriterType
  <2>5. ASSUME NEW u \in Writers, write_pc[u] = "send", message[u] \notin Astray, NEW c \in (audience[message[u]] \ closed')
        PROVE  Has(c, message[u])' \/ \E k \in Keys : k >= pos'[u] /\ client_socket[k] = c
    <3>1. c \in Conns /\ c # 0 BY <1>0, <2>4, <2>5
    <3>2. Has(c, message[u]) \/ \E k \in Keys : k >= pos[u] /\ client_socket[k] = c
      BY <1>1, <2>5 DEF Reach
    <3>3. CASE Has(c, message[u]) BY <2>2, <2>3, <3>1, <3>3
    <3>4. ASSUME NEW k \in Keys, k >= pos[u], client_socket[k] = c, ~Has(c, message[u])
          PROVE  Has(c, message[u])' \/ k >= pos'[u]
      <4>1. CASE u # t BY <2>2, <3>4, <4>1
      <4>2. CASE u = t /\ k = pos[t] BY <2>2, <2>3, <3>1, <3>4, <4>2
      <4>3. CASE u = t /\ k # pos[t]
        <5>1. k > pos[t] BY <1>0, <3>4, <4>3
        <5> QED BY <2>2, <2>3, <3>1, <3>4, <4>3, <5>1
      <4> QED BY <4>1, <4>2, <4>3
    <3> QED BY <3>2, <3>3, <3>4
  <2>6. ASSUME NEW m \in ((1..Popped) \ Astray), \A u \in Writers : message[u] # m, NEW c \in (audience[m] \ closed')
        PROVE  Has(c, m)'
    <3>1. Has(c, m) /\ c \in Conns BY <1>1, <2>4, <2>6 DEF Reach
    <3> QED BY <2>3, <3>1
  <2> HIDE DEF c0
  <2> QED BY <2>1, <2>2, <2>3, <2>5, <2>6 DEF Reach
<1> QED BY <1>2, <1>3, <1>4, <1>5, <1>6, <1>7, <1>8, OutFrame

-------------------------------------------------------------------------------
(* The inbound side *)

LEMMA InboundFrame ==
  ASSUME Nesting, [Next]_vars
  PROVE  \/ ReadReceives \/ ReadStray \/ ReadPushes \/ CallbackCalls \/ CallbackPops
         \/ \E c \in Conns : ClientSends(c)
         \/ /\ UNCHANGED <<rcvbuf, sender, inbound_q, handled>>
            /\ Turn' <=> Turn
            /\ epoll_pc' = "push" => epoll_pc = "push" /\ chunk' = chunk
<1> DEFINE Kept == /\ UNCHANGED <<rcvbuf, sender, inbound_q, handled>>
                   /\ Turn' <=> Turn
                   /\ epoll_pc' = "push" => epoll_pc = "push" /\ chunk' = chunk
<1>1. ASSUME NEW c \in Callers, Caller(c), ~StartSucceeds(c) PROVE Kept
  BY <1>1 DEF Caller, StartEnter, StartFails, StopEnter, StopJoins, StopReturnsEarly, StopCloses,
       StopReturns, RegisterBegin, RegisterEnd, net, reader, user, Turn
<1>2. ASSUME NEW c \in Callers, StartSucceeds(c) PROVE Kept
  BY <1>2 DEF StartSucceeds, Spawned, Turn
<1>3. CASE EpollReturnsListener \/ EpollFails \/ \E c \in Conns : EpollReturnsClient(c)
  BY <1>3 DEF EpollReturnsListener, EpollFails, EpollReturnsClient, user, Turn
<1>4. CASE Accept \/ AcceptFails \/ AcceptCounts \/ AcceptRefused
  BY <1>4 DEF Accept, AcceptFails, AcceptCounts, AcceptRefused, AcceptReturns, net, user, Turn
<1>5. CASE ReadAccepts \/ ReadBegins \/ ReadReturns \/ ReadSkips \/ ReadDangles
  BY <1>5 DEF ReadAccepts, ReadBegins, ReadReturns, ReadSkips, ReadDangles, net, user, Turn
<1>6. ASSUME NEW t \in Writers, WriteSteps(t) PROVE Kept
  <2>1. CASE WriteInserts(t) \/ WriteNoneNew(t) \/ WriteClears(t) \/ WriteChecks(t) \/ WritePops(t)
             \/ WriteBegins(t) \/ WriteUnderflows(t) \/ WriteSignalled(t)
    BY <2>1 DEF WriteInserts, WriteNoneNew, WriteClears, WriteChecks, WritePops, WriteBegins,
         WriteUnderflows, WriteSignalled, net, reader, user, Turn
  <2>2. CASE WriteSends(t) \/ WriteSendFails(t) \/ WriteDangles(t)
    BY <2>2 DEF WriteSends, WriteSendFails, WriteDangles, net, reader, user, Turn
  <2>3. CASE WriteIdle(t) \/ WriteEnds(t)
    BY <2>3 DEF WriteIdle, WriteEnds, WriteReturns, net, user, Turn
  <2> QED BY <1>6, <2>1, <2>2, <2>3 DEF WriteSteps
<1>7. CASE CallbackTakes BY <1>7 DEF CallbackTakes, net, reader, Turn
<1>8. CASE MapRace \/ CallbackStays \/ SendMessage \/ Connect \/ UNCHANGED vars
  BY <1>8 DEF MapRace, CallbackStays, SendMessage, Connect, vars, net, reader, user, Turn
<1>9. ASSUME NEW c \in Conns, ClientLeaves(c) PROVE Kept
  BY <1>9 DEF ClientLeaves, reader, user, Turn
<1> QED BY <1>1, <1>2, <1>3, <1>4, <1>5, <1>6, <1>7, <1>8, <1>9 DEF Next, EpollThread, CallbackThread

LEMMA OfferedType ==
  ASSUME TypeOK, TurnInv
  PROVE  Offered \in Seq(Chunks) /\ Waiting \in Seq(Chunks) /\ handled \in Seq(Chunks)
<1>1. Turn => inbound_q # <<>> BY DEF Turn, TurnInv
<1>2. handled \in Seq(Chunks) /\ inbound_q \in Seq(Chunks) BY DEF TypeOK, UserType
<1>3. Waiting \in Seq(Chunks) BY <1>1, <1>2, HeadTail DEF Waiting
<1> QED BY <1>2, <1>3, ConcatFacts DEF Offered

\* on_read() adds a chunk to what is offered.
LEMMA PushOffers ==
  ASSUME TypeOK, TurnInv, ReadPushes
  PROVE  /\ Offered' = Append(Offered, chunk) /\ chunk \in Chunks /\ epoll_pc = "push"
         /\ ~Turn /\ ~Turn' /\ UNCHANGED <<rcvbuf, sender, handled>> /\ epoll_pc' = "scan"
<1>1. /\ inbound_q' = Append(inbound_q, chunk) /\ callback_pc \notin {"call", "pop"}
      /\ UNCHANGED <<rcvbuf, sender, handled, callback_pc>> /\ epoll_pc = "push" /\ epoll_pc' = "scan"
  BY DEF ReadPushes, net, user
<1>2. ~Turn /\ ~Turn' BY <1>1 DEF Turn
<1>3. chunk \in Chunks BY <1>1, Bounds DEF TypeOK, ReaderType
<1>4. handled \o inbound_q' = Append(handled \o inbound_q, chunk)
  BY <1>1, <1>3, AppendsBehind DEF TypeOK, UserType
<1> QED BY <1>1, <1>2, <1>3, <1>4 DEF Offered, Waiting

\* A turn of the callback thread moves a chunk, from what waits to what was handled.
LEMMA CallKeeps ==
  ASSUME TypeOK, TurnInv, CallbackCalls
  PROVE  /\ Offered' = Offered /\ inbound_q # <<>> /\ ~Turn /\ UNCHANGED inbound_q
         /\ \/ /\ Turn' /\ Len(handled') = Len(handled) + 1 /\ Len(handled) < Len(Offered)
               /\ Offered[Len(handled) + 1] = Head(inbound_q)
            \/ UNCHANGED <<callback_pc, handled>>
<1>1. /\ ~Turn /\ inbound_q # <<>> /\ UNCHANGED inbound_q
      /\ \/ handled' = Append(handled, Head(inbound_q)) /\ callback_pc' = "pop"
         \/ UNCHANGED <<callback_pc, handled>>
  BY DEF CallbackCalls, TurnInv, Turn
<1>2. handled \in Seq(Chunks) /\ inbound_q \in Seq(Chunks) BY DEF TypeOK, UserType
<1>3. Offered = handled \o inbound_q BY <1>1 DEF Offered, Waiting
<1>4. CASE handled' = Append(handled, Head(inbound_q)) /\ callback_pc' = "pop"
  <2>1. Turn' BY <1>4 DEF Turn
  <2>2. Offered' = Append(handled, Head(inbound_q)) \o Tail(inbound_q)
    BY <1>1, <1>4, <2>1 DEF Offered, Waiting
  <2>3. /\ Append(handled, Head(inbound_q)) \o Tail(inbound_q) = handled \o inbound_q
        /\ (handled \o inbound_q)[Len(handled) + 1] = Head(inbound_q)
        /\ Len(handled) < Len(handled \o inbound_q)
    BY <1>1, <1>2, MovesOver
  <2>4. Len(handled') = Len(handled) + 1
    <3>1. Head(inbound_q) \in Chunks BY <1>1, <1>2, HeadTail
    <3> QED BY <1>2, <1>4, <3>1, AppendFacts
  <2> QED BY <1>1, <1>3, <2>1, <2>2, <2>3, <2>4
<1>5. CASE UNCHANGED <<callback_pc, handled>>
  <2>1. Offered' = Offered BY <1>1, <1>5 DEF Offered, Waiting, Turn
  <2> QED BY <1>1, <1>5, <2>1
<1> QED BY <1>1, <1>4, <1>5

LEMMA PopKeeps ==
  ASSUME TypeOK, TurnInv, CallbackPops
  PROVE  Offered' = Offered /\ Turn /\ ~Turn' /\ inbound_q # <<>> /\ UNCHANGED handled
<1>1. Turn /\ ~Turn' /\ inbound_q # <<>> /\ inbound_q' = Tail(inbound_q) /\ UNCHANGED handled
  BY DEF CallbackPops, TurnInv, Turn
<1> QED BY <1>1 DEF Offered, Waiting

LEMMA OrderKept ==
  ASSUME OrderInv, Offered' = Offered, UNCHANGED <<rcvbuf, sender>>,
         epoll_pc' = "push" => epoll_pc = "push" /\ chunk' = chunk
  PROVE  OrderInv'
<1>1. InBuffers' BY DEF OrderInv, InBuffers
<1>2. InOffered' BY DEF OrderInv, InOffered
<1>3. InHand' BY DEF OrderInv, InHand
<1> QED BY <1>1, <1>2, <1>3 DEF OrderInv

\* A new chunk is younger than any other.
LEMMA OrderArrives ==
  ASSUME TypeOK, TurnInv, OrderInv, NEW c0 \in Conns, ClientSends(c0)
  PROVE  OrderInv'
<1> DEFINE n == Len(sender) + 1
           b == rcvbuf[c0]
<1>1. /\ sender' = Append(sender, c0) /\ rcvbuf' = [rcvbuf EXCEPT ![c0] = Append(b, n)]
      /\ UNCHANGED <<inbound_q, handled, callback_pc, epoll_pc, chunk>>
  BY DEF ClientSends, reader, user
<1>2. Offered' = Offered BY <1>1 DEF Offered, Waiting, Turn
<1>3. /\ sender \in Seq(Conns) /\ b \in Seq(Chunks) /\ rcvbuf = [c \in Conns |-> rcvbuf[c]] /\ n \in Nat
      /\ n \in Chunks
  <2>1. sender \in Seq(Conns) /\ b \in Seq(Chunks) /\ rcvbuf = [c \in Conns |-> rcvbuf[c]]
    BY DEF TypeOK, NetType
  <2> QED BY <2>1, Bounds DEF ClientSends
<1>4. /\ DOMAIN sender = 1..(n - 1) /\ DOMAIN sender' = 1..n /\ sender'[n] = c0
      /\ \A x \in 1..(n - 1) : sender'[x] = sender[x] /\ x \in 1..n /\ x < n
  BY <1>1, <1>3, AppendFacts
<1>5. /\ DOMAIN b = 1..Len(b) /\ Len(b) \in Nat /\ rcvbuf'[c0] = Append(b, n)
      /\ DOMAIN rcvbuf'[c0] = 1..(Len(b) + 1) /\ rcvbuf'[c0][Len(b) + 1] = n
      /\ \A i \in 1..Len(b) : rcvbuf'[c0][i] = b[i]
      /\ \A c \in Conns : c # c0 => rcvbuf'[c] = rcvbuf[c]
  <2>1. rcvbuf'[c0] = Append(b, n) /\ \A c \in Conns : c # c0 => rcvbuf'[c] = rcvbuf[c]
    <3> HIDE DEF b, n
    <3> QED BY <1>1, <1>3
  <2> HIDE DEF b, n
  <2> QED BY <1>3, <2>1, AppendFacts
<1> HIDE DEF n
<1>6. \A i \in DOMAIN Offered : /\ Offered[i] \in 1..(n - 1) /\ Offered[i] < n
                                /\ sender'[Offered[i]] = sender[Offered[i]]
  BY <1>4 DEF OrderInv, InOffered
<1>7. InOffered' BY <1>2, <1>4, <1>6 DEF OrderInv, InOffered
<1>8. InBuffers'
  <2> SUFFICES ASSUME NEW c \in Conns, NEW i \in DOMAIN rcvbuf'[c]
               PROVE  /\ rcvbuf'[c][i] \in DOMAIN sender' /\ sender'[rcvbuf'[c][i]] = c
                      /\ \A j \in DOMAIN rcvbuf'[c] : i < j => rcvbuf'[c][i] < rcvbuf'[c][j]
                      /\ \A j \in DOMAIN Offered : sender'[Offered[j]] = c => Offered[j] < rcvbuf'[c][i]
    BY <1>2 DEF InBuffers
  <2>1. CASE i \in DOMAIN rcvbuf[c] /\ rcvbuf'[c][i] = rcvbuf[c][i]
    <3>1. /\ rcvbuf[c][i] \in 1..(n - 1) /\ sender[rcvbuf[c][i]] = c
          /\ \A j \in DOMAIN rcvbuf[c] : i < j => rcvbuf[c][i] < rcvbuf[c][j]
          /\ \A j \in DOMAIN Offered : sender[Offered[j]] = c => Offered[j] < rcvbuf[c][i]
      BY <1>4, <2>1 DEF OrderInv, InBuffers
    <3>2. ASSUME NEW j \in DOMAIN rcvbuf'[c], i < j PROVE rcvbuf'[c][i] < rcvbuf'[c][j]
      <4>1. CASE c # c0 BY <1>5, <2>1, <3>1, <3>2, <4>1
      <4>2. CASE c = c0 /\ j \in 1..Len(b) BY <1>5, <2>1, <3>1, <3>2, <4>2
      <4>3. CASE c = c0 /\ j = Len(b) + 1 BY <1>4, <1>5, <2>1, <3>1, <4>3
      <4>4. c = c0 => j \in 1..Len(b) \/ j = Len(b) + 1
        <5> HIDE DEF b
        <5> QED BY <1>5, <3>2
      <4> QED BY <4>1, <4>2, <4>3, <4>4
    <3> QED BY <1>4, <1>6, <2>1, <3>1, <3>2
  <2>2. CASE c = c0 /\ i = Len(b) + 1
    <3> HIDE DEF b
    <3>1. rcvbuf'[c][i] = n /\ n \in DOMAIN sender' BY <1>3, <1>4, <1>5, <2>2, Bounds
    <3>2. \A j \in DOMAIN rcvbuf'[c] : ~(i < j) BY <1>5, <2>2
    <3> QED BY <1>4, <1>6, <2>2, <3>1, <3>2
  <2>3. \/ i \in DOMAIN rcvbuf[c] /\ rcvbuf'[c][i] = rcvbuf[c][i]
        \/ c = c0 /\ i = Len(b) + 1
    <3>1. CASE c # c0 BY <1>5, <3>1
    <3>2. CASE c = c0
      <4>1. i \in 1..Len(b) \/ i = Len(b) + 1
        <5> HIDE DEF b
        <5> QED BY <1>5, <3>2
      <4> QED BY <1>5, <3>2, <4>1
    <3> QED BY <3>1, <3>2
  <2> QED BY <2>1, <2>2, <2>3
<1>9. InHand'
  <2> SUFFICES ASSUME epoll_pc = "push"
               PROVE  /\ chunk \in DOMAIN sender'
                      /\ \A i \in DOMAIN Offered : sender'[Offered[i]] = sender'[chunk] => Offered[i] < chunk
                      /\ \A i \in DOMAIN rcvbuf'[sender'[chunk]] : chunk < rcvbuf'[sender'[chunk]][i]
    BY <1>1, <1>2 DEF InHand
  <2>1. /\ chunk \in 1..(n - 1)
        /\ \A i \in DOMAIN Offered : sender[Offered[i]] = sender[chunk] => Offered[i] < chunk
        /\ \A i \in DOMAIN rcvbuf[sender[chunk]] : chunk < rcvbuf[sender[chunk]][i]
    BY <1>4 DEF OrderInv, InHand
  <2>2. sender'[chunk] = sender[chunk] /\ chunk \in DOMAIN sender' /\ chunk < n BY <1>4, <2>1
  <2>3. sender[chunk] \in Conns BY <1>3, <1>4, <2>1, ElementType
  <2>4. PICK c \in Conns : c = sender[chunk] BY <2>3
  <2>5. ASSUME NEW i \in DOMAIN rcvbuf'[c] PROVE chunk < rcvbuf'[c][i]
    <3>1. CASE c # c0 BY <1>5, <2>1, <2>4, <3>1
    <3>2. CASE c = c0 /\ i \in 1..Len(b) BY <1>5, <2>1, <2>4, <3>2
    <3>3. CASE c = c0 /\ i = Len(b) + 1 BY <1>5, <2>2, <3>3
    <3>4. c = c0 => i \in 1..Len(b) \/ i = Len(b) + 1
      <4> HIDE DEF b
      <4> QED BY <1>5, <2>5
    <3> QED BY <3>1, <3>2, <3>3, <3>4
  <2> QED BY <1>6, <2>1, <2>2, <2>4, <2>5
<1> QED BY <1>7, <1>8, <1>9 DEF OrderInv

\* recv() takes a client's oldest chunk.
\* The epoll thread takes the first chunk of a connection.
LEMMA OrderTaken ==
  ASSUME TypeOK, TurnInv, OrderInv, NEW c0 \in Conns, rcvbuf[c0] # <<>>, chunk' = Head(rcvbuf[c0]),
         rcvbuf' = [rcvbuf EXCEPT ![c0] = Tail(rcvbuf[c0])], epoll_pc' = "push",
         UNCHANGED <<inbound_q, handled, callback_pc, sender>>
  PROVE  OrderInv'
<1> DEFINE b == rcvbuf[c0]
<1>3. b \in Seq(Chunks) /\ rcvbuf = [c \in Conns |-> rcvbuf[c]] BY DEF TypeOK, NetType
<1>4. /\ b # <<>> /\ chunk' = Head(b) /\ rcvbuf' = [rcvbuf EXCEPT ![c0] = Tail(b)]
      /\ epoll_pc' = "push" /\ UNCHANGED <<inbound_q, handled, callback_pc, sender>>
  OBVIOUS
<1>5. Offered' = Offered BY <1>4 DEF Offered, Waiting, Turn
<1>6. /\ Len(b) \in Nat /\ Len(b) > 0 /\ chunk' = b[1] /\ DOMAIN b = 1..Len(b)
      /\ DOMAIN rcvbuf'[c0] = 1..(Len(b) - 1)
      /\ \A i \in 1..(Len(b) - 1) : rcvbuf'[c0][i] = b[i + 1] /\ i + 1 \in 1..Len(b) /\ 1 < i + 1
      /\ \A c \in Conns : c # c0 => rcvbuf'[c] = rcvbuf[c]
      /\ 1 \in 1..Len(b)
  <2>1. rcvbuf'[c0] = Tail(b) /\ \A c \in Conns : c # c0 => rcvbuf'[c] = rcvbuf[c]
    <3> HIDE DEF b
    <3> QED BY <1>3, <1>4
  <2> HIDE DEF b
  <2> QED BY <1>3, <1>4, <2>1, HeadTail
<1>7. \A i \in 1..Len(b) :
        /\ b[i] \in DOMAIN sender /\ sender[b[i]] = c0
        /\ \A j \in 1..Len(b) : i < j => b[i] < b[j]
        /\ \A j \in DOMAIN Offered : sender[Offered[j]] = c0 => Offered[j] < b[i]
  BY <1>6 DEF OrderInv, InBuffers
<1>8. InOffered' BY <1>4, <1>5 DEF OrderInv, InOffered
<1>9. InBuffers'
  <2> SUFFICES ASSUME NEW c \in Conns, NEW i \in DOMAIN rcvbuf'[c]
               PROVE  /\ rcvbuf'[c][i] \in DOMAIN sender /\ sender[rcvbuf'[c][i]] = c
                      /\ \A j \in DOMAIN rcvbuf'[c] : i < j => rcvbuf'[c][i] < rcvbuf'[c][j]
                      /\ \A j \in DOMAIN Offered : sender[Offered[j]] = c => Offered[j] < rcvbuf'[c][i]
    BY <1>4, <1>5 DEF InBuffers
  <2>1. CASE c # c0 BY <1>6, <2>1 DEF OrderInv, InBuffers
  <2>2. CASE c = c0
    <3> HIDE DEF b
    <3>1. i \in 1..(Len(b) - 1) BY <1>6, <2>2
    <3>2. i + 1 \in 1..Len(b) /\ rcvbuf'[c0][i] = b[i + 1] BY <1>6, <3>1
    <3>3. ASSUME NEW j \in DOMAIN rcvbuf'[c0], i < j PROVE rcvbuf'[c0][i] < rcvbuf'[c0][j]
      <4>1. j \in 1..(Len(b) - 1) BY <1>6
      <4>2. j + 1 \in 1..Len(b) /\ rcvbuf'[c0][j] = b[j + 1] BY <1>6, <4>1
      <4>3. i + 1 < j + 1 BY <1>6, <3>1, <3>3, <4>1
      <4> QED BY <1>7, <3>2, <4>2, <4>3
    <3> QED BY <1>7, <2>2, <3>2, <3>3
  <2> QED BY <2>1, <2>2
<1>10. InHand'
  <2>1. /\ chunk' \in DOMAIN sender' /\ sender'[chunk'] = c0
        /\ \A i \in DOMAIN Offered : sender[Offered[i]] = c0 => Offered[i] < chunk'
    BY <1>4, <1>6, <1>7
  <2>2. \A i \in DOMAIN rcvbuf'[c0] : chunk' < rcvbuf'[c0][i]
    <3> HIDE DEF b
    <3> QED BY <1>6, <1>7
  <2> QED BY <1>4, <1>5, <2>1, <2>2 DEF InHand
<1> QED BY <1>8, <1>9, <1>10 DEF OrderInv

LEMMA OrderReceives ==
  ASSUME TypeOK, TurnInv, OrderInv, ReadReceives \/ ReadStray
  PROVE  OrderInv'
<1>1. CASE ReadReceives
  <2>1. client_socket[rpos] \in Conns BY <1>1, Bounds DEF TypeOK, UsersType, ReadReceives, Present
  <2>2. PICK c0 \in Conns : c0 = client_socket[rpos] BY <2>1
  <2>3. /\ rcvbuf[c0] # <<>> /\ chunk' = Head(rcvbuf[c0])
        /\ rcvbuf' = [rcvbuf EXCEPT ![c0] = Tail(rcvbuf[c0])]
        /\ epoll_pc' = "push" /\ UNCHANGED <<inbound_q, handled, callback_pc, sender>>
    BY <1>1, <2>2 DEF ReadReceives, user
  <2> QED BY <2>3, OrderTaken
<1>2. CASE ReadStray
  <2>1. PICK c0 \in (1..accepted) :
          /\ rcvbuf[c0] # <<>> /\ chunk' = Head(rcvbuf[c0])
          /\ rcvbuf' = [rcvbuf EXCEPT ![c0] = Tail(rcvbuf[c0])]
    BY <1>2 DEF ReadStray
  <2>2. c0 \in Conns BY Bounds DEF TypeOK, NetType
  <2>3. epoll_pc' = "push" /\ UNCHANGED <<inbound_q, handled, callback_pc, sender>>
    BY <1>2 DEF ReadStray, user
  <2> QED BY <2>1, <2>2, <2>3, OrderTaken
<1> QED BY <1>1, <1>2

LEMMA OrderPushes ==
  ASSUME TypeOK, TurnInv, OrderInv, ReadPushes
  PROVE  OrderInv'
<1> DEFINE n == Len(Offered)
<1>1. /\ Offered' = Append(Offered, chunk) /\ chunk \in Chunks /\ epoll_pc = "push"
      /\ UNCHANGED <<rcvbuf, sender>> /\ epoll_pc' = "scan"
  BY PushOffers
<1>2. Offered \in Seq(Chunks) BY OfferedType
<1>3. /\ n \in Nat /\ DOMAIN Offered = 1..n /\ DOMAIN Offered' = 1..(n + 1)
      /\ \A i \in 1..n : Offered'[i] = Offered[i]
      /\ Offered'[n + 1] = chunk
  BY <1>1, <1>2, AppendFacts
<1>4. /\ chunk \in DOMAIN sender
      /\ \A i \in 1..n : sender[Offered[i]] = sender[chunk] => Offered[i] < chunk
      /\ \A i \in DOMAIN rcvbuf[sender[chunk]] : chunk < rcvbuf[sender[chunk]][i]
  BY <1>1, <1>3 DEF OrderInv, InHand
<1>5. \A i \in 1..n : /\ Offered[i] \in DOMAIN sender
                      /\ \A j \in 1..n : i < j /\ sender[Offered[i]] = sender[Offered[j]] =>
                           Offered[i] < Offered[j]
  BY <1>3 DEF OrderInv, InOffered
<1>6. \A i \in 1..(n + 1) : i \in 1..n \/ i = n + 1
  <2> HIDE DEF n
  <2> QED BY <1>3
<1> HIDE DEF n
<1>7. InOffered'
  <2>1. ASSUME NEW i \in 1..(n + 1)
        PROVE  /\ Offered'[i] \in DOMAIN sender
               /\ \A j \in 1..(n + 1) : i < j /\ sender[Offered'[i]] = sender[Offered'[j]] =>
                    Offered'[i] < Offered'[j]
    <3>1. CASE i \in 1..n
      <4>1. ASSUME NEW j \in 1..(n + 1), i < j, sender[Offered'[i]] = sender[Offered'[j]]
            PROVE  Offered'[i] < Offered'[j]
        <5>1. CASE j \in 1..n BY <1>3, <1>5, <3>1, <4>1, <5>1
        <5>2. CASE j = n + 1 BY <1>3, <1>4, <3>1, <4>1, <5>2
        <5> QED BY <1>6, <5>1, <5>2
      <4> QED BY <1>3, <1>5, <3>1, <4>1
    <3>2. CASE i = n + 1
      <4>1. \A j \in 1..(n + 1) : ~(i < j) BY <1>3, <3>2
      <4> QED BY <1>3, <1>4, <3>2, <4>1
    <3> QED BY <1>6, <3>1, <3>2
  <2> QED BY <1>1, <1>3, <2>1 DEF InOffered
<1>8. InBuffers'
  <2>1. ASSUME NEW c \in Conns, NEW i \in DOMAIN rcvbuf[c]
        PROVE  \A j \in 1..(n + 1) : sender[Offered'[j]] = c => Offered'[j] < rcvbuf[c][i]
    <3>1. \A j \in 1..n : sender[Offered[j]] = c => Offered[j] < rcvbuf[c][i]
      BY <1>3 DEF OrderInv, InBuffers
    <3>2. ASSUME NEW j \in 1..(n + 1), sender[Offered'[j]] = c PROVE Offered'[j] < rcvbuf[c][i]
      <4>1. CASE j \in 1..n BY <1>3, <3>1, <3>2, <4>1
      <4>2. CASE j = n + 1 BY <1>3, <1>4, <3>2, <4>2
      <4> QED BY <1>6, <4>1, <4>2
    <3> QED BY <3>2
  <2> QED BY <1>1, <1>3, <2>1 DEF OrderInv, InBuffers
<1>9. InHand' BY <1>1 DEF InHand
<1> QED BY <1>7, <1>8, <1>9 DEF OrderInv

LEMMA OrderStep ==
  ASSUME TypeOK, Nesting, TurnInv, OrderInv, [Next]_vars
  PROVE  OrderInv'
<1>1. CASE CallbackCalls \/ CallbackPops
  <2>1. Offered' = Offered BY <1>1, CallKeeps, PopKeeps
  <2>2. UNCHANGED <<rcvbuf, sender, epoll_pc, chunk>>
    BY <1>1 DEF CallbackCalls, CallbackPops, net, reader
  <2> QED BY <2>1, <2>2, OrderKept
<1>2. ASSUME UNCHANGED <<rcvbuf, sender, inbound_q, handled>>, Turn' <=> Turn,
             epoll_pc' = "push" => epoll_pc = "push" /\ chunk' = chunk
      PROVE  OrderInv'
  <2>1. Offered' = Offered BY <1>2 DEF Offered, Waiting
  <2> QED BY <1>2, <2>1, OrderKept
<1> QED BY <1>1, <1>2, InboundFrame, OrderArrives, OrderReceives, OrderPushes

-------------------------------------------------------------------------------
(* The invariant *)

LEMMA IInvInit == Init => IInv
<1> SUFFICES ASSUME Init PROVE IInv OBVIOUS
<1>0. Popped = 0
  <2>1. outbound_q = <<>> /\ queued = 0 BY DEF Init
  <2>2. Len(<<>>) = 0 OBVIOUS
  <2>3. Len(outbound_q) = 0 BY <2>1, <2>2, Zenon
  <2>4. 0 - 0 = 0 OBVIOUS
  <2> QED BY <2>1, <2>3, <2>4, Zenon DEF Popped
<1>1. TypeOK BY TypeInit
<1>2. Nesting /\ Counting BY DEF Init, Nesting, Counting, Spawned, InProgress, Writers
<1>3. TurnInv BY DEF Init, TurnInv
<1>4. NewKeys /\ ClientKeys BY DEF Init, NewKeys, ClientKeys, Nothing
<1>5. OutQueue BY <1>0 DEF Init, OutQueue
<1>6. Writing
  <2>1. Popped \in Nat BY <1>5 DEF OutQueue
  <2> QED BY <2>1 DEF Init, Writing, Writers
<1>7. \A c \in Conns : received[c] = <<>> /\ rcvbuf[c] = <<>> BY DEF Init
<1>8. DOMAIN <<>> = {} OBVIOUS
<1>9. Sent /\ SentOnce BY <1>7, <1>8 DEF Sent, SentOnce, Has, Elements
<1>10. Reach
  <2>1. \A t \in Writers : write_pc[t] = "none" BY DEF Init
  <2>2. \A m \in Messages : audience[m] = {} BY DEF Init
  <2> QED BY <2>1, <1>0 DEF Reach
<1>11. OrderInv
  <2>1. Offered = <<>>
    <3>1. Waiting = <<>> /\ handled = <<>> BY DEF Init, Waiting, Turn
    <3>2. <<>> \o <<>> = <<>> OBVIOUS
    <3> QED BY <3>1, <3>2, Zenon DEF Offered
  <2>2. epoll_pc # "push" BY DEF Init
  <2> QED BY <1>7, <1>8, <2>1, <2>2 DEF OrderInv, InBuffers, InOffered, InHand
<1> QED BY <1>1, <1>2, <1>3, <1>4, <1>5, <1>6, <1>9, <1>10, <1>11 DEF IInv

LEMMA IInvStep == IInv /\ [Next]_vars => IInv'
<1> SUFFICES ASSUME IInv, [Next]_vars PROVE IInv' OBVIOUS
<1>0. /\ TypeOK /\ Nesting /\ Counting /\ TurnInv /\ NewKeys /\ ClientKeys
      /\ OutQueue /\ Writing /\ Sent /\ SentOnce /\ Reach /\ OrderInv
  BY DEF IInv
<1>1. TypeOK' BY <1>0, TypeStep
<1>2. Nesting' /\ Counting' BY <1>0, NestingStep, CountingStep
<1>3. TurnInv' BY <1>0, TurnStep
<1>4. NewKeys' /\ ClientKeys' BY <1>0, NewKeysStep, ClientKeysStep
<1>5. OutQueue' BY <1>0, OutQueueStep
<1>6. Writing' BY <1>0, WritingStep
<1>7. Sent' BY <1>0, <1>1, <1>5, SentStep
<1>8. SentOnce' BY <1>0, <1>1, SentOnceStep
<1>9. Reach' BY <1>0, <1>1, ReachStep
<1>10. OrderInv' BY <1>0, OrderStep
<1> QED BY <1>1, <1>2, <1>3, <1>4, <1>5, <1>6, <1>7, <1>8, <1>9, <1>10 DEF IInv

LEMMA IInvHolds == Spec => []IInv
BY IInvInit, IInvStep, PTL DEF Spec

\* Every variable keeps its type, under any number of callers, connections and messages.
THEOREM ServerTypeCorrect == Spec => []TypeOK
<1>1. IInv => TypeOK BY DEF IInv
<1> QED BY <1>1, IInvHolds, PTL

\* accept_connection() keys a client by the number of users it has counted, and counts
\* only after the write() and read() it makes, which may accept again: still no insert()
\* meets a key that names another client, and no client has two keys.
THEOREM ServerKeyNamesOneClient == Spec => []KeyNamesOneClient
<1>1. ASSUME IInv PROVE KeyNamesOneClient
  <2>1. NewKeys /\ ClientKeys BY <1>1 DEF IInv
  <2> QED BY <2>1 DEF KeyNamesOneClient, NewKeys, ClientKeys, Present
<1> QED BY <1>1, IInvHolds, PTL

\* However deep accept_connection() and read() have called one another, all accepts are
\* counted when the epoll thread is back in epoll_wait().
THEOREM ServerAllAcceptsCounted == Spec => []AllAcceptsCounted
<1>1. ASSUME IInv PROVE AllAcceptsCounted
  <2>1. TypeOK /\ Counting BY <1>1 DEF IInv
  <2>2. num_users_entered \in Nat /\ accepted \in Nat BY <2>1, Bounds DEF TypeOK, UsersType, NetType
  <2>3. epoll_pc = "wait" => InProgress = 0 BY DEF InProgress
  <2> QED BY <2>1, <2>2, <2>3 DEF AllAcceptsCounted, Counting
<1> QED BY <1>1, IInvHolds, PTL

\* The two threads that run write() hand no message to send() twice for one client, though
\* each erases elements of the map the other walks through, unless the message's own
\* iterator was advanced from an erased element, which may lead it back.
THEOREM ServerSentOnce == Spec => []SentOnce
<1>1. IInv => SentOnce BY DEF IInv
<1> QED BY <1>1, IInvHolds, PTL

\* A message that write() is done with has been handed to send() for every client of the
\* map it started from that is not closed, unless its own iterator was advanced from an
\* erased element: what the other thread inserts and erases makes it skip nobody.
THEOREM ServerBroadcastComplete == Spec => []BroadcastComplete
<1>1. ASSUME IInv PROVE BroadcastComplete
  <2>1. TypeOK /\ OutQueue /\ Reach BY <1>1 DEF IInv
  <2>2. queued \in Nat /\ Len(outbound_q) \in Nat /\ DOMAIN outbound_q = 1..Len(outbound_q)
    BY <2>1, Bounds DEF TypeOK, OutType
  <2> SUFFICES ASSUME NEW m \in Messages, m \notin Astray, MessageDone(m),
                      NEW c \in audience[m] \ closed
               PROVE  Has(c, m)
    BY DEF BroadcastComplete, Has
  <2>3. m \in Nat /\ m >= 1 /\ m <= queued /\ m \notin Elements(outbound_q)
    BY Bounds DEF MessageDone
  <2>4. m <= Popped
    <3> SUFFICES ASSUME m > Popped PROVE FALSE BY <2>1, <2>3 DEF OutQueue
    <3> DEFINE i == m - Popped
    <3>1. i \in 1..Len(outbound_q) BY <2>1, <2>2, <2>3 DEF OutQueue, Popped
    <3>2. outbound_q[i] = Popped + i BY <2>1, <3>1 DEF OutQueue
    <3>3. Popped + i = m BY <2>1, <2>3 DEF OutQueue
    <3> QED BY <2>2, <2>3, <3>1, <3>2, <3>3 DEF Elements
  <2>5. m \in (1..Popped) \ Astray BY <2>1, <2>2, <2>3, <2>4 DEF OutQueue
  <2> QED BY <2>1, <2>5 DEF Reach, MessageDone
<1> QED BY <1>1, IInvHolds, PTL

\* What one client sends reaches the callback in that order and once, however the epoll
\* thread's calls nest and whatever the write thread erases under read()'s iterator.
THEOREM ServerClientOrder == Spec => []ClientOrder
<1>1. ASSUME IInv PROVE ClientOrder
  <2>1. TypeOK /\ TurnInv /\ InOffered BY <1>1 DEF IInv, OrderInv
  <2>2. Waiting \in Seq(Chunks) /\ handled \in Seq(Chunks) BY <2>1, OfferedType
  <2>3. /\ Len(handled) \in Nat /\ Len(Waiting) \in Nat /\ Offered \in Seq(Chunks)
        /\ Len(Offered) = Len(handled) + Len(Waiting)
        /\ \A i \in 1..Len(handled) : Offered[i] = handled[i]
    BY <2>2, ConcatFacts DEF Offered
  <2>4. DOMAIN handled = 1..Len(handled) /\ DOMAIN Offered = 1..Len(Offered)
    BY <2>2, <2>3, SequenceIsFunction
  <2>5. DOMAIN handled \subseteq DOMAIN Offered /\ DOMAIN handled \subseteq Nat BY <2>3, <2>4
  <2> QED BY <2>1, <2>3, <2>4, <2>5 DEF ClientOrder, InOffered
<1> QED BY <1>1, IInvHolds, PTL

-------------------------------------------------------------------------------
(* The clients that neither map has *)

\* A connection is not forgotten while it is closed or has a key.
Kept ==
  {c \in Conns : c \in closed \/ \E k \in Keys : c \in {newly_added[k], client_socket[k]}}

LEMMA ForgottenFacts ==
  ASSUME NEW n \in 0..MaxConn, NEW shut, NEW new \in [Keys -> 0..MaxConn], NEW old \in [Keys -> 0..MaxConn]
  PROVE  {c \in 1..n : c \notin shut \cup Clients(new) \cup Clients(old)}
           = (1..n) \ {c \in Conns : c \in shut \/ \E k \in Keys : c \in {new[k], old[k]}}
<1>1. \A c \in 1..n : c # 0 /\ c \in Conns BY Bounds
<1>2. \A c \in 1..n : /\ c \in Clients(new) <=> \E k \in Keys : new[k] = c
                      /\ c \in Clients(old) <=> \E k \in Keys : old[k] = c
  BY <1>1, ClientsFacts
<1> QED BY <1>1, <1>2

LEMMA ForgottenSame ==
  ASSUME TypeOK, TypeOK', accepted' \in {accepted, accepted + 1},
         \A c \in 1..accepted : c \in Kept' <=> c \in Kept, accepted' # accepted => accepted + 1 \in Kept'
  PROVE  Forgotten' = Forgotten
<1>1. accepted \in Nat BY Bounds DEF TypeOK, NetType
<1>2. Forgotten = (1..accepted) \ Kept
  <2>1. accepted \in 0..MaxConn
    <3>1. reached \in 0..MaxConn /\ accepted \in 0..reached BY DEF TypeOK, NetType
    <3> QED BY <3>1, Bounds
  <2>2. newly_added \in [Keys -> 0..MaxConn] /\ client_socket \in [Keys -> 0..MaxConn]
    BY DEF TypeOK, UsersType
  <2> QED BY <2>1, <2>2, ForgottenFacts DEF Forgotten, Kept
<1>3. Forgotten' = (1..accepted') \ Kept'
  <2>1. accepted' \in 0..MaxConn
    <3>1. reached' \in 0..MaxConn /\ accepted' \in 0..reached' BY DEF TypeOK, NetType
    <3> QED BY <3>1, Bounds
  <2>2. newly_added' \in [Keys -> 0..MaxConn] /\ client_socket' \in [Keys -> 0..MaxConn]
    BY DEF TypeOK, UsersType
  <2> QED BY <2>1, <2>2, ForgottenFacts DEF Forgotten, Kept
<1>4. CASE accepted' = accepted BY <1>2, <1>3, <1>4
<1>5. CASE accepted' = accepted + 1
  <2>1. \A c : c \in 1..accepted' <=> c \in 1..accepted \/ c = accepted + 1 BY <1>1, <1>5
  <2> QED BY <1>1, <1>2, <1>3, <1>5, <2>1
<1> QED BY <1>4, <1>5

LEMMA ForgottenStep ==
  ASSUME IInv, [Next]_vars, Forgotten' # Forgotten
  PROVE  write_pc["write"] = "clear" /\ write_pc'["write"] = "check"
<1>0. /\ TypeOK /\ Nesting /\ Counting /\ NewKeys /\ ClientKeys
      /\ newly_added \in [Keys -> 0..MaxConn] /\ client_socket \in [Keys -> 0..MaxConn]
      /\ accepted \in Nat /\ \A c \in 1..accepted : c # 0 /\ c # accepted + 1
  BY Bounds DEF IInv, TypeOK, UsersType, NetType
<1>1. TypeOK' /\ accepted' \in 0..MaxConn
  <2>1. Writing /\ TurnInv BY DEF IInv
  <2>2. TypeOK' BY <1>0, <2>1, TypeStep
  <2> QED BY <2>2, Bounds DEF TypeOK, NetType
<1> SUFFICES ASSUME ~WriteClears("write") PROVE Forgotten' = Forgotten
  BY <1>0 DEF WriteClears, Write, TypeOK, WriterType, Writers
<1>2. ASSUME accepted' = accepted, \A c \in 1..accepted : c \in Kept' <=> c \in Kept
      PROVE  Forgotten' = Forgotten
  BY <1>0, <1>1, <1>2, ForgottenSame
<1>3. CASE UNCHANGED <<newly_added, client_socket, closed, accepted>>
  BY <1>2, <1>3 DEF Kept
<1>4. ASSUME NEW c \in Callers, StopCloses(c) PROVE Forgotten' = Forgotten
  <2>1. /\ UNCHANGED <<newly_added, accepted>> /\ closed' = closed \cup Clients(client_socket)
        /\ \A k \in Keys : client_socket'[k] = 0
    BY <1>4 DEF StopCloses, Nothing
  <2>2. \A x \in 1..accepted : x \in Clients(client_socket) <=> \E k \in Keys : client_socket[k] = x
    BY <1>0, ClientsFacts
  <2>3. \A x \in 1..accepted : x \in Kept' <=> x \in Kept BY <1>0, <2>1, <2>2 DEF Kept
  <2> QED BY <1>2, <2>1, <2>3
<1>5. CASE Accept
  <2>1. /\ num_users_entered \in Keys /\ accepted' = accepted + 1
        /\ newly_added' = [k \in Keys |-> IF k = num_users_entered THEN accepted + 1 ELSE 0]
        /\ UNCHANGED <<client_socket, closed>> /\ accepted + 1 \in Conns
    BY <1>0, <1>5, AcceptFacts
  <2>2. \A k \in Keys : newly_added[k] = 0
    <3>1. write_pc["epoll"] = "none" BY <1>0, <1>5 DEF Nesting, Accept
    <3> QED BY <1>0, <3>1, NothingNew
  <2>3. accepted + 1 \in Kept'
    <3>1. newly_added'[num_users_entered] = accepted + 1 BY <2>1
    <3> QED BY <2>1, <3>1 DEF Kept
  <2>4. \A x \in 1..accepted : x \in Kept' <=> x \in Kept BY <1>0, <2>1, <2>2 DEF Kept
  <2> QED BY <1>0, <1>1, <2>1, <2>3, <2>4, ForgottenSame
<1>6. CASE AcceptRefused
  <2>1. /\ accepted' = accepted + 1 /\ closed' = closed \cup {accepted + 1}
        /\ UNCHANGED <<newly_added, client_socket>>
    BY <1>6 DEF AcceptRefused, users
  <2>3. accepted + 1 \in Kept' BY <1>0, <1>1, <2>1, Bounds DEF Kept
  <2>4. \A x \in 1..accepted : x \in Kept' <=> x \in Kept BY <1>0, <2>1 DEF Kept
  <2> QED BY <1>0, <1>1, <2>1, <2>3, <2>4, ForgottenSame
<1>7. ASSUME NEW t \in Writers, WriteInserts(t) PROVE Forgotten' = Forgotten
  <2>1. /\ UNCHANGED <<newly_added, closed, accepted>>
        /\ \A k \in Keys : client_socket'[k] = IF client_socket[k] = 0 THEN newly_added[k] ELSE client_socket[k]
    BY <1>0, <1>7, InsertFacts
  <2>2. \A x \in 1..accepted : x \in Kept' <=> x \in Kept BY <1>0, <2>1 DEF Kept
  <2> QED BY <1>2, <2>1, <2>2
<1>8. CASE WriteClears("epoll")
  <2>1. /\ UNCHANGED <<client_socket, closed, accepted>> /\ write_pc["epoll"] = "clear"
        /\ \A k \in Keys : newly_added'[k] = 0
    BY <1>8 DEF WriteClears, Write, net, Nothing
  <2>2. \A k \in Keys : newly_added[k] # 0 => newly_added[k] \in closed \cup {client_socket[k]}
    BY <1>0, <2>1 DEF NewKeys
  <2>3. \A x \in 1..accepted : x \in Kept' <=> x \in Kept BY <1>0, <2>1, <2>2 DEF Kept
  <2> QED BY <1>2, <2>1, <2>3
<1>9. ASSUME NEW t \in Writers, WriteSendFails(t) PROVE Forgotten' = Forgotten
  <2>1. PICK k \in Present(client_socket) :
          /\ closed' = closed \cup {client_socket[k]} /\ client_socket' = [client_socket EXCEPT ![k] = 0]
    BY <1>9 DEF WriteSendFails
  <2>2. k \in Keys /\ UNCHANGED <<newly_added, accepted>> BY <1>9 DEF WriteSendFails, Present
  <2>3. \A j \in Keys : client_socket'[j] = IF j = k THEN 0 ELSE client_socket[j] BY <1>0, <2>1, <2>2
  <2>4. \A x \in 1..accepted : x \in Kept' <=> x \in Kept BY <1>0, <2>1, <2>2, <2>3 DEF Kept
  <2> QED BY <1>2, <2>2, <2>4
<1>10. CASE MapsKept BY <1>3, <1>10 DEF MapsKept
<1>11. ASSUME NEW t \in Writers, WriteNoneNew(t) PROVE Forgotten' = Forgotten
  BY <1>3, <1>11 DEF WriteNoneNew, net, users
<1> QED BY <1>0, <1>3, <1>4, <1>5, <1>6, <1>7, <1>8, <1>9, <1>10, <1>11, KeysFrame DEF Writers

\* A connection that is accepted and open is in one of the two maps, but for what the
\* write thread's clear() of newly_added drops; the epoll thread's own clear(), a client
\* closed by either writer, stop() and a refused accept forget none.
THEOREM ServerForgottenOnlyByClear == Spec => ForgottenOnlyByClear
<1>1. IInv /\ [Next]_vars =>
        [Forgotten' # Forgotten => write_pc["write"] = "clear" /\ write_pc'["write"] = "check"]_vars
  BY ForgottenStep
<1> QED BY <1>1, IInvHolds, PTL DEF Spec, ForgottenOnlyByClear

-------------------------------------------------------------------------------
(* The outbound side implements Broadcast *)

\* What Outbound has, by the names the invariant uses.
LEMMA OutboundNames ==
  /\ \A c \in Conns, m \in Messages : Outbound!Has(c, m) <=> Has(c, m)
  /\ Popped = queued - Len(outbound_q)
  /\ Init => Outbound!Init
<1>1. \A c \in Conns, m \in Messages : Outbound!Has(c, m) <=> Has(c, m)
  BY DEF Outbound!Has, Has, Elements
<1>2. ASSUME Init PROVE Outbound!Init
  <2>1. outbound_q = <<>> /\ queued = 0 BY <1>2 DEF Init
  <2>2. Len(<<>>) = 0 /\ 0 - 0 = 0 OBVIOUS
  <2>3. queued - Len(outbound_q) = 0 BY <2>1, <2>2, Zenon
  <2>4. {t \in Writers : write_pc[t] = "send"} = {} BY <1>2 DEF Init
  <2>5. Astray = {}
    <3>1. \A m \in Messages : strays[m] = 0 BY <1>2 DEF Init
    <3>2. \A m \in Messages : ~(strays[m] > 0) BY <3>1
    <3> QED BY <3>2 DEF Astray
  <2> QED BY <1>2, <2>3, <2>4, <2>5, Zenon DEF Init, Outbound!Init
<1> QED BY <1>1, <1>2, Zenon DEF Popped

\* A step that hands nothing out and takes nothing may close clients.
LEMMA OutboundCuts ==
  ASSUME closed \subseteq closed', closed' \in SUBSET Conns,
         UNCHANGED <<queued, message, audience, received, Astray>>, Popped' = Popped,
         \A t \in Writers : write_pc'[t] = "send" <=> write_pc[t] = "send"
  PROVE  Outbound!CutOff
BY OutboundNames DEF Outbound!CutOff, Popped

LEMMA OutboundStep == IInv /\ [Next]_vars => [Outbound!Next]_(Outbound!vars)
<1> SUFFICES ASSUME IInv, [Next]_vars PROVE Outbound!Next BY DEF Outbound!Next
<1>0. /\ TypeOK /\ TypeOK' /\ Nesting /\ Counting /\ NewKeys /\ ClientKeys
      /\ OutQueue /\ Writing /\ Sent /\ Reach
  BY IInvStep DEF IInv
<1>1. closed \subseteq closed' /\ closed' \in SUBSET Conns BY <1>0, MapsStep DEF TypeOK, NetType
<1>2. /\ message = [t \in Writers |-> message[t]] /\ write_pc = [t \in Writers |-> write_pc[t]]
      /\ audience \in [Messages -> SUBSET Conns] /\ Popped \in Nat
  BY <1>0 DEF TypeOK, WriterType, OutQueue
<1>3. CASE Steady
  <2>1. Outbound!CutOff BY <1>1, <1>3, OutboundCuts, AstrayKept DEF Steady, outq, Popped
  <2> QED BY <2>1 DEF Outbound!Next
<1>4. CASE SendMessage
  <2>1. /\ UNCHANGED <<message, audience, received, write_pc, closed>> /\ Popped' = Popped
        /\ queued' = queued + 1 /\ queued + 1 \in Messages
    BY <1>0, <1>4, SendFacts, Bounds DEF SendMessage, TypeOK, OutType, net
  <2>2. Outbound!Offer BY <1>4, <2>1, AstrayKept DEF Outbound!Offer, Popped
  <2> QED BY <2>2 DEF Outbound!Next
<1>5. ASSUME NEW t \in Writers, WritePops(t) PROVE Outbound!Next
  <2>1. /\ Popped' = Popped + 1 /\ message' = [message EXCEPT ![t] = Popped + 1]
        /\ write_pc[t] = "lock" /\ write_pc' = [write_pc EXCEPT ![t] = "begin"]
        /\ UNCHANGED <<received, audience, closed>>
    BY <1>0, <1>5, PopFacts
  <2>2. UNCHANGED queued /\ outbound_q # <<>> BY <1>5 DEF WritePops
  <2>3. message[t] = 0 BY <1>0, <2>1 DEF Writing
  <2>4. Popped < queued
    <3>1. queued \in Nat /\ Len(outbound_q) \in Nat /\ Len(outbound_q) > 0
      BY <1>0, <2>2, Bounds, HeadTail DEF TypeOK, OutType
    <3> QED BY <3>1 DEF Popped
  <2>5. \A u \in Writers : write_pc'[u] = "send" <=> write_pc[u] = "send" BY <1>2, <2>1
  <2>6. Outbound!Take(t) BY <1>5, AstrayKept, <2>1, <2>2, <2>3, <2>4, <2>5 DEF Outbound!Take, Popped
  <2> QED BY <2>6 DEF Outbound!Next
<1>6. ASSUME NEW t \in Writers, WriteBegins(t) PROVE Outbound!Next
  <2>1. /\ UNCHANGED <<queued, outbound_q, message, received, closed>> /\ write_pc[t] = "begin"
        /\ write_pc' = [write_pc EXCEPT ![t] = "send"]
        /\ audience' = [audience EXCEPT ![message[t]] = Clients(client_socket)]
    BY <1>6 DEF WriteBegins, Write, outq, net
  <2>2. message[t] # 0 BY <1>0, <2>1 DEF Writing
  <2>3. Clients(client_socket) \in SUBSET Conns
    <3>1. message[t] \in Messages BY <1>0, <2>1, WriterFacts
    <3>2. audience'[message[t]] \in SUBSET Conns BY <1>0, <3>1 DEF TypeOK, WriterType
    <3> QED BY <1>2, <2>1, <3>1, <3>2
  <2>4. {u \in Writers : write_pc'[u] = "send"} = {u \in Writers : write_pc[u] = "send"} \cup {t}
    BY <1>2, <2>1
  <2>5. Outbound!Begin(t) BY <1>6, AstrayKept, <2>1, <2>2, <2>3, <2>4 DEF Outbound!Begin
  <2> QED BY <2>5 DEF Outbound!Next
<1>7. ASSUME NEW t \in Writers, WriteSends(t) PROVE Outbound!Next
  <2> DEFINE c0 == client_socket[pos[t]]
  <2>1. /\ c0 \in Conns /\ message[t] \in Messages /\ (message[t] \notin Astray => ~Has(c0, message[t]))
        /\ received' = [received EXCEPT ![c0] = Append(received[c0], message[t])]
    BY <1>0, <1>7, SendsFacts
  <2>2. write_pc[t] = "send" /\ UNCHANGED <<queued, outbound_q, message, audience, write_pc, closed>>
    BY <1>7 DEF WriteSends, At, outq, net
  <2> HIDE DEF c0
  <2>3. ~Outbound!Has(c0, message[t]) \/ message[t] \in Astray BY <2>1, OutboundNames
  <2>4. Outbound!Deliver(t) BY <1>7, AstrayKept, <2>1, <2>2, <2>3 DEF Outbound!Deliver
  <2> QED BY <2>4 DEF Outbound!Next
<1>8. ASSUME NEW t \in Writers, WriteSendFails(t) \/ WriteDangles(t) PROVE Outbound!Next
  <2>1. /\ write_pc[t] = "send" /\ UNCHANGED <<message, audience, write_pc>>
        /\ \/ UNCHANGED <<pos, received, strays>>
           \/ /\ Astray' = Astray \cup {message[t]}
              /\ \/ UNCHANGED received
                 \/ \E c \in 1..accepted : received' = [received EXCEPT ![c] = Append(@, message[t])]
    BY <1>0, <1>8, GoneFacts
  <2>2. UNCHANGED <<queued, outbound_q>> /\ Popped' = Popped
    BY <1>0, <1>8, QueueKept DEF WriteSendFails, WriteDangles, outq
  <2>3. CASE UNCHANGED <<pos, received, strays>>
    <3>1. Astray' = Astray BY <2>3 DEF Astray
    <3>2. Outbound!CutOff BY <1>1, <2>1, <2>2, <2>3, <3>1, OutboundCuts
    <3> QED BY <3>2 DEF Outbound!Next
  <2>4. CASE /\ Astray' = Astray \cup {message[t]}
             /\ \/ UNCHANGED received
                \/ \E c \in 1..accepted : received' = [received EXCEPT ![c] = Append(@, message[t])]
    <3>1. 1..accepted \subseteq Conns BY <1>0, Bounds DEF TypeOK, NetType
    <3>2. \/ UNCHANGED received
          \/ \E c \in Conns : received' = [received EXCEPT ![c] = Append(@, message[t])]
      BY <2>4, <3>1
    <3>3. Outbound!Lose(t) BY <1>1, <2>1, <2>2, <2>4, <3>2 DEF Outbound!Lose
    <3> QED BY <3>3 DEF Outbound!Next
  <2> QED BY <2>1, <2>3, <2>4
<1>9. ASSUME NEW t \in Writers, WriteEnds(t) PROVE Outbound!Next
  <2>1. /\ UNCHANGED <<queued, outbound_q, received, audience, closed>>
        /\ message' = [message EXCEPT ![t] = 0]
        /\ write_pc[t] = "send" /\ pos[t] = End
        /\ \E there \in {"none", "newly"} : write_pc' = [write_pc EXCEPT ![t] = there]
    BY <1>9 DEF WriteEnds, WriteReturns, Write, outq, net
  <2>2. message[t] \in Messages BY <1>0, <2>1, WriterFacts
  <2>3. ASSUME message[t] \notin Astray, NEW c \in (audience[message[t]] \ closed)
        PROVE  Outbound!Has(c, message[t])
    <3>1. Has(c, message[t]) \/ \E k \in Keys : k >= pos[t] /\ client_socket[k] = c
      BY <1>0, <2>1, <2>3 DEF Reach
    <3>2. \A k \in Keys : ~(k >= End) BY Bounds
    <3>3. c \in Conns BY <1>2, <2>2
    <3> QED BY <2>1, <2>2, <2>3, <3>1, <3>2, <3>3, OutboundNames
  <2>4. {u \in Writers : write_pc'[u] = "send"} = {u \in Writers : write_pc[u] = "send"} \ {t}
    BY <1>2, <2>1
  <2>5. Outbound!Finish(t) BY <1>9, AstrayKept, <2>1, <2>3, <2>4 DEF Outbound!Finish
  <2> QED BY <2>5 DEF Outbound!Next
<1> QED BY <1>0, <1>3, <1>4, <1>5, <1>6, <1>7, <1>8, <1>9, OutFrame

\* The two threads that run write() are two servers of one broadcast: whatever they do to
\* the map under each other's iterator, a message is taken once and in its turn, goes to no
\* client twice, and is finished with only when every client it was for has it or is closed;
\* only one whose own iterator was advanced from an erased element is lost to that.
THEOREM ServerOutboundRefines == Spec => OutboundIsBroadcast
<1>1. Init => Outbound!Init BY OutboundNames
<1> QED BY <1>1, OutboundStep, IInvHolds, PTL DEF Spec, OutboundIsBroadcast, Outbound!Spec

-------------------------------------------------------------------------------
(* The inbound side, from on_read() on, implements MessagePipe *)

\* What Inbound's items have been offered, by the name the invariant uses.
LEMMA InboundNames ==
  /\ UNCHANGED <<Offered, handled, inbound_q, Turn>> => UNCHANGED Inbound!vars
  /\ Init => Inbound!Init
<1>1. UNCHANGED <<Offered, handled, inbound_q, Turn>> => UNCHANGED Inbound!vars
  BY DEF Offered, Waiting, Inbound!vars
<1>2. ASSUME Init PROVE Inbound!Init
  <2>1. inbound_q = <<>> /\ handled = <<>> /\ ~Turn BY <1>2 DEF Init, Turn
  <2>2. <<>> \o <<>> = <<>> /\ Len(<<>>) = 0 OBVIOUS
  <2>3. handled \o inbound_q = <<>> /\ Len(handled) = 0 BY <2>1, <2>2, Zenon
  <2> QED BY <2>1, <2>3, Zenon DEF Inbound!Init
<1> QED BY <1>1, <1>2

LEMMA InboundStep == IInv /\ [Next]_vars => [Inbound!Next]_(Inbound!vars)
<1> SUFFICES ASSUME IInv, [Next]_vars PROVE [Inbound!Next]_(Inbound!vars) OBVIOUS
<1>0. TypeOK /\ Nesting /\ TurnInv BY DEF IInv
<1>1. CASE ReadPushes
  <2>1. /\ Offered' = Append(Offered, chunk) /\ chunk \in Chunks
        /\ ~Turn /\ ~Turn' /\ UNCHANGED handled
    BY <1>0, <1>1, PushOffers
  <2>2. Inbound!Offer BY <2>1 DEF Inbound!Offer, Offered, Waiting
  <2> QED BY <2>2 DEF Inbound!Next
<1>2. CASE CallbackCalls
  <2>1. /\ Offered' = Offered /\ inbound_q # <<>> /\ ~Turn /\ UNCHANGED inbound_q
        /\ \/ /\ Turn' /\ Len(handled') = Len(handled) + 1 /\ Len(handled) < Len(Offered)
              /\ Offered[Len(handled) + 1] = Head(inbound_q)
           \/ UNCHANGED <<callback_pc, handled>>
    BY <1>0, <1>2, CallKeeps
  <2>2. CASE Turn'
    <3>1. Len(handled') = Len(handled) + 1 BY <2>1, <2>2 DEF Turn
    <3> QED BY <2>1, <2>2, <3>1 DEF Inbound!Next, Inbound!Take, Offered, Waiting, Turn
  <2>3. CASE UNCHANGED <<callback_pc, handled>>
    BY <2>1, <2>3, InboundNames DEF Turn
  <2> QED BY <2>1, <2>2, <2>3
<1>3. CASE CallbackPops
  <2>1. Offered' = Offered /\ Turn /\ ~Turn' /\ inbound_q # <<>> /\ UNCHANGED handled
    BY <1>0, <1>3, PopKeeps
  <2>2. Head(inbound_q) # 0
    <3>1. Head(inbound_q) \in Chunks BY <1>0, <2>1, HeadTail DEF TypeOK, UserType
    <3> QED BY <3>1, Bounds
  <2>3. Inbound!Finish BY <2>1, <2>2 DEF Inbound!Finish, Offered, Waiting
  <2> QED BY <2>3 DEF Inbound!Next
<1>4. CASE UNCHANGED <<inbound_q, handled>> /\ (Turn' <=> Turn)
  <2>1. Turn' = Turn BY <1>4 DEF Turn
  <2>2. Offered' = Offered BY <1>4, <2>1 DEF Offered, Waiting
  <2> QED BY <1>4, <2>1, <2>2, InboundNames
<1>5. CASE ReadReceives \/ ReadStray \/ \E c \in Conns : ClientSends(c)
  <2>1. UNCHANGED <<inbound_q, handled, callback_pc>>
    BY <1>5 DEF ReadReceives, ReadStray, ClientSends, user
  <2> QED BY <1>4, <2>1 DEF Turn
<1> QED BY <1>0, <1>1, <1>2, <1>3, <1>4, <1>5, InboundFrame

\* From on_read() on, chunks are handled in the order they were queued, each in one turn
\* of the callback thread, although accept_connection() and read() recurse.
THEOREM ServerInboundRefines == Spec => InboundIsPipe
<1>1. Init => Inbound!Init BY InboundNames
<1> QED BY <1>1, InboundStep, IInvHolds, PTL DEF Spec, InboundIsPipe, Inbound!Spec
===============================================================================
