-------------------------- MODULE SerialHandlerProofs --------------------------
(***************************************************************************)
(* Theorems about SerialHandler for every value of its constants: any      *)
(* number of callers, opens, messages and bytes.                           *)
(*                                                                         *)
(* The inductive invariant has four parts besides the types.  Counted: a   *)
(* generation of workers has an open of its own (so their number is        *)
(* bounded).  Outbound: the queue holds the accepted messages not yet      *)
(* popped, in order; the one thread that writes holds the mutex and has    *)
(* the last popped message.  Line: what the port holds is ascending and    *)
(* later than what was read or delivered.  Calm: as long as no start() met *)
(* another start() or stop(), at most one start() is under way, only       *)
(* before the first generation, and nobody clears the flag after it.       *)
(***************************************************************************)
EXTENDS SerialHandler, FiniteSetTheorems, QueueLemmas

Underway == {c \in Callers : caller_pc[c] \in {"run", "spawn"}}

Counted ==
  /\ IsFiniteSet(Underway)
  /\ gens + Cardinality(Underway) <= opens
  /\ \A g \in Gens : g > gens => read_pc[g] = "none" /\ write_pc[g] = "none"

Popped == accepted - Len(outbound_q)

OutInv ==
  /\ Popped \in Nat
  /\ \A i \in 1..Len(outbound_q) : outbound_q[i] = Popped + i
  /\ \A g \in Gens :
       /\ write_pc[g] = "write" <=> write_mutex = g
       /\ write_pc[g] = "write" => current[g] = Popped /\ current[g] \in Messages

LineInv ==
  /\ \A i, j \in DOMAIN rx : i < j => rx[i] < rx[j]
  /\ \A j \in DOMAIN rx : rx[j] <= arrivals
  /\ \A i \in DOMAIN delivered : delivered[i] <= arrivals
  /\ \A i \in DOMAIN delivered, j \in DOMAIN rx : delivered[i] < rx[j]
  /\ \A g \in Gens : read_pc[g] = "call" =>
       /\ inbound_packet[g] \in Bytes /\ inbound_packet[g] <= arrivals
       /\ \A j \in DOMAIN rx : inbound_packet[g] < rx[j]

CalmCallers ==
  ~overlapped =>
    /\ gens <= 1
    /\ \A c, d \in Callers : Starting(c) /\ (Starting(d) \/ Stopping(d)) => c = d
    /\ \A c \in Callers : Starting(c) \/ caller_pc[c] = "clear" => gens = 0
    /\ \A c \in Callers : caller_pc[c] \in {"run", "spawn"} => serial_handle \in Ports
    /\ \A c \in Callers : caller_pc[c] = "spawn" => is_running
    /\ gens > 0 => is_running /\ serial_handle \in Ports

CalmReader ==
  ~overlapped =>
    /\ InOrder
    /\ \A g \in Gens : read_pc[g] = "call" => \A i \in DOMAIN delivered : delivered[i] < inbound_packet[g]

CalmWriter ==
  ~overlapped =>
    /\ \A g \in Gens : write_pc[g] = "lock" => outbound_q # <<>>
    /\ crashed # "empty_front"

-------------------------------------------------------------------------------
LEMMA GensFacts == MaxOpen \in Nat \ {0} /\ MaxSend \in Nat /\ MaxRecv \in Nat /\ 0 \notin Gens /\ Gens \subseteq Nat
BY CountsAssumption DEF Gens

-------------------------------------------------------------------------------
(* Types *)

\* There is an open left for the generation about to be spawned.
LEMMA RoomToSpawn ==
  ASSUME TypeOK, Counted, NEW c \in Callers, caller_pc[c] = "spawn"
  PROVE  gens + 1 \in Gens /\ read_pc[gens + 1] = "none" /\ write_pc[gens + 1] = "none"
<1>1. c \in Underway BY DEF Underway
<1>2. Cardinality(Underway) \in Nat /\ Cardinality(Underway) # 0
  BY <1>1, FS_CardinalityType, FS_EmptySet DEF Counted
<1>3. gens \in Nat /\ opens \in Nat /\ opens <= MaxOpen BY GensFacts DEF TypeOK
<1>4. gens + 1 <= MaxOpen BY <1>2, <1>3, GensFacts DEF Counted
<1>5. gens + 1 \in Gens /\ gens + 1 > gens BY <1>3, <1>4 DEF Gens
<1> QED BY <1>5 DEF Counted

LEMMA TypeInit == Init => TypeOK
<1> SUFFICES ASSUME Init PROVE TypeOK OBVIOUS
<1> USE GensFacts DEF Init
<1>1. /\ serial_handle \in Ports \cup {0, INVALID}
      /\ opens \in 0..MaxOpen /\ gens \in 0..MaxOpen
      /\ accepted \in 0..MaxSend /\ write_mutex \in 0..MaxOpen /\ arrivals \in 0..MaxRecv
  OBVIOUS
<1>2. caller_pc \in [Callers -> {"idle", "open", "run", "spawn", "join", "clear", "reg"}]
  OBVIOUS
<1>3. /\ read_pc \in [Gens -> {"none", "test", "read", "call"}]
      /\ inbound_packet \in [Gens -> 0..MaxRecv]
      /\ write_pc \in [Gens -> {"none", "flag", "queue", "lock", "write"}]
      /\ current \in [Gens -> 0..MaxSend]
  OBVIOUS
<1>4. /\ rx \in Seq(Bytes) /\ delivered \in Seq(Bytes) /\ outbound_q \in Seq(Messages)
      /\ receive_callback \in {"none", "half", "set"}
      /\ crashed \in {"no", "empty_front", "half_callback"}
  OBVIOUS
<1>5. is_running \in BOOLEAN /\ overlapped \in BOOLEAN BY Zenon
<1> QED BY ONLY <1>1, <1>2, <1>3, <1>4, <1>5 DEF TypeOK

LEMMA TypeCaller ==
  ASSUME TypeOK, Counted, NEW c \in Callers, Caller(c)
  PROVE  TypeOK'
<1> USE GensFacts
<1>1. CASE StartEnter(c)
  BY <1>1 DEF TypeOK, StartEnter, Goto, life, line, reader, outq, writer
<1>2. CASE StartOpens(c)
  BY <1>2 DEF TypeOK, StartOpens, Goto, Ports, reader, outq, writer
<1>3. CASE StartOpenFails(c)
  BY <1>3 DEF TypeOK, StartOpenFails, Goto, line, reader, outq, writer
<1>4. CASE StartRuns(c)
  BY <1>4 DEF TypeOK, StartRuns, Goto, line, reader, outq, writer
<1>5. CASE StartSpawns(c)
  <2>1. gens + 1 \in Gens BY <1>5, RoomToSpawn DEF StartSpawns
  <2> QED BY <1>5, <2>1 DEF TypeOK, StartSpawns, Goto, line, outq, Gens
<1>6. CASE StopEnter(c)
  BY <1>6 DEF TypeOK, StopEnter, Goto, life, line, reader, outq, writer
<1>7. CASE StopJoins(c)
  BY <1>7 DEF TypeOK, StopJoins, Goto, life, line, reader, outq, writer
<1>8. CASE StopClears(c)
  BY <1>8 DEF TypeOK, StopClears, Goto, line, reader, outq, writer
<1>9. CASE RegisterBegin(c)
  BY <1>9 DEF TypeOK, RegisterBegin, Goto, life, line, reader, outq, writer
<1>10. CASE RegisterEnd(c)
  BY <1>10 DEF TypeOK, RegisterEnd, Goto, life, line, reader, outq, writer
<1> QED BY <1>1, <1>2, <1>3, <1>4, <1>5, <1>6, <1>7, <1>8, <1>9, <1>10 DEF Caller

LEMMA TypeRead ==
  ASSUME TypeOK, LineInv, NEW g \in Gens, ReadThread(g)
  PROVE  TypeOK'
<1> USE GensFacts
<1>1. CASE ReadTests(g) BY <1>1 DEF TypeOK, ReadTests, life, caller, line, outq, writer
<1>2. CASE ReadTakes(g)
  <2>1. Head(rx) \in Bytes /\ Tail(rx) \in Seq(Bytes) BY <1>2, HeadTail DEF TypeOK, ReadTakes
  <2>2. Head(rx) \in 0..MaxRecv BY <2>1 DEF Bytes
  <2> QED BY <1>2, <2>1, <2>2 DEF TypeOK, ReadTakes, life, caller, outq, writer
<1>3. CASE ReadNothing(g) BY <1>3 DEF TypeOK, ReadNothing, life, caller, line, outq, writer
<1>4. CASE ReadCalls(g)
  <2>1. inbound_packet[g] \in Bytes BY <1>4 DEF LineInv, ReadCalls
  <2>2. delivered' \in Seq(Bytes)
    <3>1. delivered \in Seq(Bytes) BY DEF TypeOK
    <3>2. Append(delivered, inbound_packet[g]) \in Seq(Bytes) BY <2>1, <3>1, AppendFacts
    <3>3. delivered' = delivered \/ delivered' = Append(delivered, inbound_packet[g])
      BY <1>4 DEF ReadCalls
    <3> QED BY <3>1, <3>2, <3>3
  <2>3. read_pc' \in [Gens -> {"none", "test", "read", "call"}] BY <1>4 DEF TypeOK, ReadCalls
  <2> QED BY <1>4, <2>2, <2>3 DEF TypeOK, ReadCalls, life, caller, line, outq, writer
<1> QED BY <1>1, <1>2, <1>3, <1>4 DEF ReadThread

LEMMA TypeWrite ==
  ASSUME TypeOK, NEW g \in Gens, WriteThread(g)
  PROVE  TypeOK'
<1> USE GensFacts
<1>1. CASE WriteTests(g)
  BY <1>1 DEF TypeOK, WriteTests, life, caller, line, reader, outq
<1>2. CASE WriteChecks(g)
  BY <1>2 DEF TypeOK, WriteChecks, life, caller, line, reader, outq
<1>3. CASE WritePops(g)
  <2>1. outbound_q # <<>> => Head(outbound_q) \in Messages /\ Tail(outbound_q) \in Seq(Messages)
    BY HeadTail DEF TypeOK
  <2>2. outbound_q # <<>> => Head(outbound_q) \in 0..MaxSend BY <2>1 DEF Messages
  <2>3. g \in 0..MaxOpen BY DEF Gens
  <2> QED BY <1>3, <2>1, <2>2, <2>3 DEF TypeOK, WritePops, life, caller, line, reader
<1>4. CASE WriteDone(g)
  BY <1>4 DEF TypeOK, WriteDone, life, caller, line, reader
<1> QED BY <1>1, <1>2, <1>3, <1>4 DEF WriteThread

LEMMA TypeStep ==
  ASSUME TypeOK, Counted, LineInv, [Next]_vars
  PROVE  TypeOK'
<1> USE GensFacts
<1>1. CASE SendMessage
  <2>1. accepted + 1 \in Messages /\ accepted + 1 \in 0..MaxSend BY <1>1 DEF TypeOK, SendMessage, Messages
  <2> QED BY <1>1, <2>1 DEF TypeOK, SendMessage, life, caller, line, reader, writer
<1>2. CASE Arrive
  <2>1. arrivals + 1 \in Bytes /\ arrivals + 1 \in 0..MaxRecv BY <1>2 DEF TypeOK, Arrive, Bytes
  <2> QED BY <1>2, <2>1 DEF TypeOK, Arrive, life, caller, reader, outq, writer
<1>3. CASE UNCHANGED vars
  BY <1>3 DEF TypeOK, vars, life, caller, line, reader, outq, writer
<1> QED BY <1>1, <1>2, <1>3, TypeCaller, TypeRead, TypeWrite DEF Next
-------------------------------------------------------------------------------
(* Counted *)

LEMMA UnderwayMoves ==
  ASSUME TypeOK, IsFiniteSet(Underway), NEW c \in Callers, NEW pc, Goto(c, pc)
  PROVE  /\ IsFiniteSet(Underway') /\ Cardinality(Underway) \in Nat /\ Cardinality(Underway') \in Nat
         /\ pc \in {"run", "spawn"} =>
              Cardinality(Underway') = IF c \in Underway THEN Cardinality(Underway) ELSE Cardinality(Underway) + 1
         /\ pc \notin {"run", "spawn"} =>
              Cardinality(Underway') = IF c \in Underway THEN Cardinality(Underway) - 1 ELSE Cardinality(Underway)
<1>1. \A d \in Callers : caller_pc'[d] = IF d = c THEN pc ELSE caller_pc[d] BY DEF TypeOK, Goto
<1>2. Cardinality(Underway) \in Nat BY FS_CardinalityType
<1>3. CASE pc \in {"run", "spawn"}
  <2>1. Underway' = Underway \cup {c} BY <1>1, <1>3 DEF Underway
  <2> QED BY <1>2, <1>3, <2>1, FS_AddElement, FS_CardinalityType
<1>4. CASE pc \notin {"run", "spawn"}
  <2>1. Underway' = Underway \ {c} BY <1>1, <1>4 DEF Underway
  <2> QED BY <1>2, <1>4, <2>1, FS_RemoveElement, FS_CardinalityType
<1> QED BY <1>3, <1>4

LEMMA CountedInit == Init => Counted
<1> SUFFICES ASSUME Init PROVE Counted OBVIOUS
<1>1. Underway = {} BY DEF Init, Underway
<1>2. IsFiniteSet(Underway) /\ Cardinality(Underway) = 0 BY <1>1, FS_EmptySet
<1> QED BY <1>2 DEF Init, Counted

\* Worker threads never become "none" or stop being so.
LEMMA CountedFrame ==
  ASSUME Counted, UNCHANGED <<gens, opens, caller_pc>>,
         \A g \in Gens : read_pc[g] = "none" => read_pc'[g] = "none",
         \A g \in Gens : write_pc[g] = "none" => write_pc'[g] = "none"
  PROVE  Counted'
<1>1. Underway' = Underway BY DEF Underway
<1> QED BY <1>1 DEF Counted

LEMMA CountedCaller ==
  ASSUME TypeOK, Counted, NEW c \in Callers, Caller(c)
  PROVE  Counted'
<1> USE GensFacts
<1>0. /\ IsFiniteSet(Underway) /\ gens \in Nat /\ opens \in Nat
      /\ c \in Underway <=> caller_pc[c] \in {"run", "spawn"}
  BY DEF TypeOK, Counted, Underway
<1>1. CASE StartOpens(c)
  <2>1. /\ Goto(c, "run") /\ caller_pc[c] = "open" /\ opens' = opens + 1
        /\ UNCHANGED <<gens, read_pc, write_pc>>
    BY <1>1 DEF StartOpens, reader, writer
  <2>2. IsFiniteSet(Underway') /\ Cardinality(Underway') = Cardinality(Underway) + 1
        /\ Cardinality(Underway) \in Nat
    BY <1>0, <2>1, UnderwayMoves
  <2> QED BY <1>0, <2>1, <2>2 DEF Counted
<1>2. CASE StartRuns(c)
  <2>1. Goto(c, "spawn") /\ caller_pc[c] = "run" /\ UNCHANGED <<opens, gens, read_pc, write_pc>>
    BY <1>2 DEF StartRuns, reader, writer
  <2>2. IsFiniteSet(Underway') /\ Cardinality(Underway') = Cardinality(Underway)
    BY <1>0, <2>1, UnderwayMoves
  <2> QED BY <1>0, <2>1, <2>2 DEF Counted
<1>3. CASE StartSpawns(c)
  <2>1. /\ Goto(c, "idle") /\ caller_pc[c] = "spawn" /\ gens' = gens + 1 /\ UNCHANGED opens
        /\ read_pc' = [read_pc EXCEPT ![gens + 1] = "test"]
        /\ write_pc' = [write_pc EXCEPT ![gens + 1] = "flag"]
    BY <1>3 DEF StartSpawns
  <2>2. IsFiniteSet(Underway') /\ Cardinality(Underway') = Cardinality(Underway) - 1
        /\ Cardinality(Underway) \in Nat
    BY <1>0, <2>1, UnderwayMoves
  <2>3. gens' + Cardinality(Underway') <= opens' BY <1>0, <2>1, <2>2 DEF Counted
  <2>4. \A g \in Gens : g > gens' => g > gens /\ g # gens + 1 BY <1>0, <2>1
  <2>5. \A g \in Gens : g > gens' => read_pc'[g] = "none" /\ write_pc'[g] = "none"
    BY <2>1, <2>4 DEF TypeOK, Counted
  <2> QED BY <2>2, <2>3, <2>5 DEF Counted
<1>4. CASE StartEnter(c) \/ StartOpenFails(c) \/ StopEnter(c) \/ StopJoins(c) \/ StopClears(c)
           \/ RegisterBegin(c) \/ RegisterEnd(c)
  <2>1. /\ \E pc \in {"idle", "open", "join", "clear", "reg"} : Goto(c, pc)
        /\ caller_pc[c] \notin {"run", "spawn"}
        /\ UNCHANGED <<gens, read_pc, write_pc>>
        /\ opens' = opens \/ opens' = opens + 1
    BY <1>4 DEF StartEnter, StartOpenFails, StopEnter, StopJoins, StopClears, RegisterBegin, RegisterEnd,
         life, reader, writer
  <2>2. PICK pc \in {"idle", "open", "join", "clear", "reg"} : Goto(c, pc) BY <2>1
  <2>3. IsFiniteSet(Underway') /\ Cardinality(Underway') = Cardinality(Underway)
        /\ Cardinality(Underway) \in Nat
    BY <1>0, <2>1, <2>2, UnderwayMoves
  <2> QED BY <1>0, <2>1, <2>3 DEF Counted
<1> QED BY <1>1, <1>2, <1>3, <1>4 DEF Caller

LEMMA CountedStep ==
  ASSUME TypeOK, Counted, [Next]_vars
  PROVE  Counted'
<1>1. ASSUME NEW g \in Gens, ReadThread(g) PROVE Counted'
  <2>1. read_pc[g] # "none" /\ \A h \in Gens : h # g => read_pc'[h] = read_pc[h]
    BY <1>1 DEF TypeOK, ReadThread, ReadTests, ReadTakes, ReadNothing, ReadCalls
  <2>2. UNCHANGED <<gens, opens, caller_pc, write_pc>>
    BY <1>1 DEF ReadThread, ReadTests, ReadTakes, ReadNothing, ReadCalls, life, caller, writer
  <2> QED BY <2>1, <2>2, CountedFrame
<1>2. ASSUME NEW g \in Gens, WriteThread(g) PROVE Counted'
  <2>1. write_pc[g] # "none" /\ \A h \in Gens : h # g => write_pc'[h] = write_pc[h]
    BY <1>2 DEF TypeOK, WriteThread, WriteTests, WriteChecks, WritePops, WriteDone
  <2>2. UNCHANGED <<gens, opens, caller_pc, read_pc>>
    BY <1>2 DEF WriteThread, WriteTests, WriteChecks, WritePops, WriteDone, life, caller, reader
  <2> QED BY <2>1, <2>2, CountedFrame
<1>3. CASE SendMessage \/ Arrive \/ UNCHANGED vars
  <2>1. UNCHANGED <<gens, opens, caller_pc, read_pc, write_pc>>
    BY <1>3 DEF SendMessage, Arrive, vars, life, caller, reader, writer
  <2> QED BY <2>1, CountedFrame
<1> QED BY <1>1, <1>2, <1>3, CountedCaller DEF Next

-------------------------------------------------------------------------------
(* The outbound queue *)

LEMMA OutInit == Init => OutInv
BY GensFacts DEF Init, OutInv, Popped

LEMMA OutFrame ==
  ASSUME OutInv, UNCHANGED <<outq, current>>,
         \A g \in Gens : write_pc'[g] = "write" <=> write_pc[g] = "write"
  PROVE  OutInv'
BY DEF OutInv, Popped, outq

LEMMA OneWriter ==
  ASSUME OutInv, NEW g \in Gens, NEW h \in Gens, write_pc[g] = "write", write_pc[h] = "write"
  PROVE  g = h
BY DEF OutInv

\* What the head of the queue is.
LEMMA OutHead ==
  ASSUME TypeOK, OutInv, outbound_q # <<>>
  PROVE  /\ Head(outbound_q) = Popped + 1 /\ Head(outbound_q) \in Messages
         /\ Head(outbound_q) \in 1..accepted
<1>1. /\ Head(outbound_q) = outbound_q[1] /\ Head(outbound_q) \in Messages
      /\ Len(outbound_q) \in Nat /\ Len(outbound_q) > 0
  BY HeadTail DEF TypeOK
<1>2. accepted \in Nat BY GensFacts DEF TypeOK
<1>3. 1 \in 1..Len(outbound_q) BY <1>1
<1> QED BY <1>1, <1>2, <1>3 DEF OutInv, Popped

LEMMA OutPops ==
  ASSUME TypeOK, OutInv, NEW g \in Gens, WritePops(g)
  PROVE  OutInv'
<1>1. CASE outbound_q = <<>>
  <2>1. UNCHANGED <<outq, current, write_pc>> BY <1>1 DEF WritePops, outq
  <2> QED BY <2>1, OutFrame
<1>2. CASE outbound_q # <<>>
  <2>1. /\ write_mutex = 0 /\ write_mutex' = g /\ UNCHANGED accepted
        /\ write_pc' = [write_pc EXCEPT ![g] = "write"]
        /\ current' = [current EXCEPT ![g] = Head(outbound_q)]
        /\ outbound_q' = Tail(outbound_q)
    BY <1>2 DEF WritePops
  <2>2. Head(outbound_q) = Popped + 1 /\ Head(outbound_q) \in Messages BY <1>2, OutHead
  <2>3. /\ Len(outbound_q) \in Nat /\ Len(outbound_q') = Len(outbound_q) - 1 /\ Len(outbound_q) > 0
        /\ \A i \in 1..Len(outbound_q') : outbound_q'[i] = outbound_q[i + 1]
    BY <1>2, <2>1, HeadTail DEF TypeOK
  <2>4. accepted \in Nat BY GensFacts DEF TypeOK
  <2>5. Popped' = Popped + 1 /\ Popped \in Nat
    <3>1. accepted' = accepted BY <2>1
    <3> QED BY <2>3, <2>4, <3>1 DEF OutInv, Popped
  <2>6. \A i \in 1..Len(outbound_q') : outbound_q'[i] = Popped' + i BY <2>3, <2>5 DEF OutInv
  <2>7. \A h \in Gens : write_pc[h] # "write" BY <2>1, GensFacts DEF OutInv
  <2>8. \A h \in Gens : write_pc'[h] = "write" <=> write_mutex' = h BY <2>1, <2>7 DEF TypeOK
  <2>9. \A h \in Gens : write_pc'[h] = "write" => current'[h] = Popped' /\ current'[h] \in Messages
    BY <2>1, <2>2, <2>5, <2>7 DEF TypeOK
  <2> QED BY <2>5, <2>6, <2>8, <2>9 DEF OutInv, Messages
<1> QED BY <1>1, <1>2

LEMMA OutDone ==
  ASSUME TypeOK, OutInv, NEW g \in Gens, WriteDone(g)
  PROVE  OutInv'
<1>1. /\ UNCHANGED <<outbound_q, accepted>> /\ write_mutex' = 0
      /\ write_pc' = [write_pc EXCEPT ![g] = "flag"] /\ write_pc[g] = "write"
  BY DEF WriteDone
<1>2. UNCHANGED Popped BY <1>1 DEF Popped
<1>3. \A h \in Gens : write_pc'[h] # "write" BY <1>1, OneWriter DEF TypeOK
<1> QED BY <1>1, <1>2, <1>3, GensFacts DEF OutInv

LEMMA OutSend ==
  ASSUME TypeOK, OutInv, SendMessage
  PROVE  OutInv'
<1>1. /\ UNCHANGED <<write_mutex, write_pc, current>> /\ accepted' = accepted + 1 /\ accepted < MaxSend
      /\ outbound_q' = Append(outbound_q, accepted + 1)
  BY DEF SendMessage, writer
<1>2. accepted \in Nat /\ accepted + 1 \in Messages BY <1>1, GensFacts DEF TypeOK, Messages
<1>3. /\ Len(outbound_q) \in Nat /\ Len(outbound_q') = Len(outbound_q) + 1
      /\ \A i \in 1..Len(outbound_q) : outbound_q'[i] = outbound_q[i]
      /\ outbound_q'[Len(outbound_q) + 1] = accepted + 1
  BY <1>1, <1>2, AppendFacts DEF TypeOK
<1>4. UNCHANGED Popped BY <1>1, <1>2, <1>3 DEF Popped
<1>5. \A i \in 1..Len(outbound_q') : outbound_q'[i] = Popped + i BY <1>2, <1>3 DEF OutInv, Popped
<1> QED BY <1>1, <1>4, <1>5 DEF OutInv

LEMMA OutStep ==
  ASSUME TypeOK, Counted, OutInv, [Next]_vars
  PROVE  OutInv'
<1>1. ASSUME NEW c \in Callers, StartSpawns(c) PROVE OutInv'
  <2>1. gens + 1 \in Gens /\ write_pc[gens + 1] = "none" BY <1>1, RoomToSpawn DEF StartSpawns
  <2>2. UNCHANGED <<outq, current>> /\ write_pc' = [write_pc EXCEPT ![gens + 1] = "flag"]
    BY <1>1 DEF StartSpawns
  <2> QED BY <2>1, <2>2, OutFrame DEF TypeOK
<1>2. ASSUME NEW c \in Callers, Caller(c), ~StartSpawns(c) PROVE OutInv'
  <2>1. UNCHANGED <<outq, writer>>
    BY <1>2 DEF Caller, StartEnter, StartOpens, StartOpenFails, StartRuns, StopEnter, StopJoins, StopClears,
         RegisterBegin, RegisterEnd
  <2> QED BY <2>1, OutFrame DEF writer
<1>3. ASSUME NEW g \in Gens, WriteTests(g) \/ WriteChecks(g) PROVE OutInv'
  <2>1. /\ UNCHANGED <<outq, current>> /\ write_pc[g] \in {"flag", "queue"}
        /\ \E pc \in {"flag", "queue", "lock"} : write_pc' = [write_pc EXCEPT ![g] = pc]
    BY <1>3 DEF WriteTests, WriteChecks
  <2> QED BY <2>1, OutFrame DEF TypeOK
<1>4. ASSUME (\E g \in Gens : ReadThread(g)) \/ Arrive \/ UNCHANGED vars PROVE OutInv'
  <2>1. UNCHANGED <<outq, writer>>
    BY <1>4 DEF ReadThread, ReadTests, ReadTakes, ReadNothing, ReadCalls, Arrive, vars
  <2> QED BY <2>1, OutFrame DEF writer
<1> QED BY <1>1, <1>2, <1>3, <1>4, OutPops, OutDone, OutSend DEF Next, WriteThread

-------------------------------------------------------------------------------
(* The port *)

LEMMA LineInit == Init => LineInv
BY GensFacts DEF Init, LineInv

LEMMA LineFrame ==
  ASSUME LineInv, UNCHANGED <<rx, arrivals, delivered, inbound_packet>>,
         \A g \in Gens : read_pc'[g] = "call" => read_pc[g] = "call"
  PROVE  LineInv'
BY DEF LineInv

LEMMA LineTakes ==
  ASSUME TypeOK, LineInv, NEW g \in Gens, ReadTakes(g)
  PROVE  LineInv'
<1>1. /\ rx # <<>> /\ rx' = Tail(rx) /\ UNCHANGED <<arrivals, delivered>>
      /\ inbound_packet' = [inbound_packet EXCEPT ![g] = Head(rx)]
      /\ read_pc' = [read_pc EXCEPT ![g] = "call"]
  BY DEF ReadTakes
<1>2. /\ Head(rx) \in Bytes /\ Len(rx) \in Nat /\ Len(rx) > 0 /\ Head(rx) = rx[1]
      /\ DOMAIN rx = 1..Len(rx) /\ DOMAIN rx' = 1..(Len(rx) - 1)
      /\ \A j \in 1..(Len(rx) - 1) : rx'[j] = rx[j + 1]
  BY <1>1, HeadTail DEF TypeOK
<1>3. \A j \in DOMAIN rx' : j + 1 \in DOMAIN rx /\ j + 1 > 1 /\ rx'[j] = rx[j + 1] /\ j \in Nat
  BY <1>2
<1>4. 1 \in DOMAIN rx BY <1>2
<1>5. \A i, j \in DOMAIN rx' : i < j => rx'[i] < rx'[j] BY <1>3 DEF LineInv
<1>6. \A j \in DOMAIN rx' : rx'[j] <= arrivals /\ Head(rx) < rx'[j] BY <1>2, <1>3, <1>4 DEF LineInv
<1>7. \A i \in DOMAIN delivered, j \in DOMAIN rx' : delivered[i] < rx'[j] BY <1>3 DEF LineInv
<1>8. ASSUME NEW h \in Gens, read_pc'[h] = "call"
      PROVE  /\ inbound_packet'[h] \in Bytes /\ inbound_packet'[h] <= arrivals
             /\ \A j \in DOMAIN rx' : inbound_packet'[h] < rx'[j]
  <2>1. CASE h = g
    <3>1. inbound_packet'[h] = Head(rx) BY <1>1, <2>1 DEF TypeOK
    <3>2. Head(rx) <= arrivals BY <1>2, <1>4 DEF LineInv
    <3> QED BY <1>2, <1>6, <3>1, <3>2
  <2>2. CASE h # g
    <3>1. inbound_packet'[h] = inbound_packet[h] /\ read_pc[h] = "call" BY <1>1, <1>8, <2>2 DEF TypeOK
    <3> QED BY <1>3, <3>1 DEF LineInv
  <2> QED BY <2>1, <2>2
<1> QED BY <1>1, <1>5, <1>6, <1>7, <1>8 DEF LineInv

LEMMA LineCalls ==
  ASSUME TypeOK, LineInv, NEW g \in Gens, ReadCalls(g)
  PROVE  LineInv'
<1>1. /\ UNCHANGED <<rx, arrivals, inbound_packet>> /\ read_pc[g] = "call"
      /\ delivered' = delivered \/ delivered' = Append(delivered, inbound_packet[g])
      /\ \A h \in Gens : read_pc'[h] = "call" => read_pc[h] = "call"
  BY DEF TypeOK, ReadCalls, line
<1>2. CASE delivered' = delivered BY <1>1, <1>2, LineFrame
<1>3. CASE delivered' = Append(delivered, inbound_packet[g])
  <2>1. /\ inbound_packet[g] \in Bytes /\ inbound_packet[g] <= arrivals
        /\ \A j \in DOMAIN rx : inbound_packet[g] < rx[j]
    BY <1>1 DEF LineInv
  <2>2. /\ DOMAIN delivered = 1..Len(delivered) /\ DOMAIN delivered' = 1..(Len(delivered) + 1)
        /\ Len(delivered) \in Nat
        /\ \A i \in 1..Len(delivered) : delivered'[i] = delivered[i]
        /\ delivered'[Len(delivered) + 1] = inbound_packet[g]
    BY <1>3, <2>1, AppendFacts DEF TypeOK
  <2>3. \A i \in DOMAIN delivered' :
           (i \in DOMAIN delivered /\ delivered'[i] = delivered[i]) \/ delivered'[i] = inbound_packet[g]
    BY <2>2
  <2> QED BY <1>1, <2>1, <2>3 DEF LineInv
<1> QED BY <1>1, <1>2, <1>3

LEMMA LineArrive ==
  ASSUME TypeOK, LineInv, Arrive
  PROVE  LineInv'
<1>1. /\ arrivals' = arrivals + 1 /\ arrivals < MaxRecv /\ rx' = Append(rx, arrivals + 1)
      /\ UNCHANGED <<delivered, inbound_packet, read_pc>>
  BY DEF Arrive, reader
<1>2. arrivals \in Nat /\ arrivals + 1 \in Bytes BY <1>1, GensFacts DEF TypeOK, Bytes
<1>3. /\ DOMAIN rx = 1..Len(rx) /\ DOMAIN rx' = 1..(Len(rx) + 1) /\ Len(rx) \in Nat
      /\ \A j \in 1..Len(rx) : rx'[j] = rx[j]
      /\ rx'[Len(rx) + 1] = arrivals + 1
  BY <1>1, <1>2, AppendFacts DEF TypeOK
<1>4. \A j \in DOMAIN rx' :
         \/ j \in DOMAIN rx /\ rx'[j] = rx[j] /\ j < Len(rx) + 1
         \/ j = Len(rx) + 1 /\ rx'[j] = arrivals + 1
  BY <1>3
<1>5. \A j \in DOMAIN rx : rx[j] \in Nat /\ rx[j] <= arrivals
  <2>1. \A j \in 1..Len(rx) : rx[j] \in Bytes BY ElementType DEF TypeOK
  <2> QED BY <1>3, <2>1 DEF LineInv, Bytes
<1>6. \A i \in DOMAIN delivered : delivered[i] \in Nat /\ delivered[i] <= arrivals
  <2>1. \A i \in 1..Len(delivered) : delivered[i] \in Bytes BY ElementType DEF TypeOK
  <2>2. DOMAIN delivered = 1..Len(delivered) BY DEF TypeOK
  <2> QED BY <2>1, <2>2 DEF LineInv, Bytes
<1>7. \A i, j \in DOMAIN rx' : i < j => rx'[i] < rx'[j]
  <2> SUFFICES ASSUME NEW i \in DOMAIN rx', NEW j \in DOMAIN rx', i < j PROVE rx'[i] < rx'[j] OBVIOUS
  <2>1. i \in DOMAIN rx /\ rx'[i] = rx[i] BY <1>3
  <2>2. CASE j \in DOMAIN rx BY <1>3, <2>1, <2>2 DEF LineInv
  <2>3. CASE j = Len(rx) + 1 BY <1>2, <1>3, <1>5, <2>1, <2>3
  <2> QED BY <1>4, <2>2, <2>3
<1>8. \A j \in DOMAIN rx' : rx'[j] <= arrivals' BY <1>1, <1>2, <1>4, <1>5
<1>9. \A i \in DOMAIN delivered : delivered[i] <= arrivals' /\ \A j \in DOMAIN rx' : delivered[i] < rx'[j]
  BY <1>1, <1>2, <1>4, <1>6 DEF LineInv
<1>10. ASSUME NEW g \in Gens, read_pc[g] = "call"
       PROVE  /\ inbound_packet[g] \in Bytes /\ inbound_packet[g] <= arrivals'
              /\ \A j \in DOMAIN rx' : inbound_packet[g] < rx'[j]
  <2>1. /\ inbound_packet[g] \in Bytes /\ inbound_packet[g] <= arrivals
        /\ \A j \in DOMAIN rx : inbound_packet[g] < rx[j]
    BY <1>10 DEF LineInv
  <2>2. inbound_packet[g] \in Nat BY <2>1 DEF Bytes
  <2> QED BY <1>1, <1>2, <1>4, <2>1, <2>2
<1> QED BY <1>1, <1>7, <1>8, <1>9, <1>10 DEF LineInv

LEMMA LineStep ==
  ASSUME TypeOK, Counted, LineInv, [Next]_vars
  PROVE  LineInv'
<1>1. ASSUME NEW c \in Callers, StartOpens(c) PROVE LineInv'
  <2>1. rx' = <<>> /\ UNCHANGED <<arrivals, reader>> BY <1>1 DEF StartOpens
  <2> QED BY <2>1 DEF LineInv, reader
<1>2. ASSUME NEW c \in Callers, StartSpawns(c) PROVE LineInv'
  <2>1. UNCHANGED <<rx, arrivals, delivered, inbound_packet>>
        /\ read_pc' = [read_pc EXCEPT ![gens + 1] = "test"]
    BY <1>2 DEF StartSpawns, line
  <2> QED BY <2>1, LineFrame DEF TypeOK
<1>3. ASSUME NEW c \in Callers, Caller(c), ~StartOpens(c), ~StartSpawns(c) PROVE LineInv'
  <2>1. UNCHANGED <<line, reader>>
    BY <1>3 DEF Caller, StartEnter, StartOpenFails, StartRuns, StopEnter, StopJoins, StopClears,
         RegisterBegin, RegisterEnd
  <2> QED BY <2>1, LineFrame DEF line, reader
<1>4. ASSUME NEW g \in Gens, ReadTests(g) \/ ReadNothing(g) PROVE LineInv'
  <2>1. UNCHANGED <<rx, arrivals, delivered, inbound_packet>>
        /\ \E pc \in {"read", "test"} : read_pc' = [read_pc EXCEPT ![g] = pc]
    BY <1>4 DEF ReadTests, ReadNothing, line
  <2> QED BY <2>1, LineFrame DEF TypeOK
<1>5. ASSUME (\E g \in Gens : WriteThread(g)) \/ SendMessage \/ UNCHANGED vars PROVE LineInv'
  <2>1. UNCHANGED <<line, reader>>
    BY <1>5 DEF WriteThread, WriteTests, WriteChecks, WritePops, WriteDone, SendMessage, vars
  <2> QED BY <2>1, LineFrame DEF line, reader
<1> QED BY <1>1, <1>2, <1>3, <1>4, <1>5, LineTakes, LineCalls, LineArrive DEF Next, ReadThread

-------------------------------------------------------------------------------
(* The calm history *)

LEMMA CalmInit == Init => CalmCallers /\ CalmReader /\ CalmWriter
BY DEF Init, CalmCallers, CalmReader, CalmWriter, InOrder, Starting, Stopping

\* The history of overlaps only grows.
LEMMA OverlappedStays ==
  ASSUME TypeOK, [Next]_vars, ~overlapped'
  PROVE  ~overlapped
<1>1. overlapped \in BOOLEAN BY DEF TypeOK
<1>2. ASSUME NEW c \in Callers, Caller(c) PROVE ~overlapped
  BY <1>2, <1>1 DEF Caller, StartEnter, StartOpens, StartOpenFails, StartRuns, StartSpawns, StopEnter, StopJoins,
     StopClears, RegisterBegin, RegisterEnd
<1>3. ASSUME ~(\E c \in Callers : Caller(c)) PROVE overlapped' = overlapped
  BY <1>3 DEF Next, ReadThread, ReadTests, ReadTakes, ReadNothing, ReadCalls, WriteThread, WriteTests,
     WriteChecks, WritePops, WriteDone, SendMessage, Arrive, vars, caller
<1> QED BY <1>2, <1>3

LEMMA CallersFrame ==
  ASSUME CalmCallers, UNCHANGED <<life, caller>>
  PROVE  CalmCallers'
BY DEF CalmCallers, Starting, Stopping, life, caller

LEMMA CallersStart ==
  ASSUME TypeOK, CalmCallers, NEW c \in Callers, ~overlapped, ~overlapped',
         StartEnter(c) \/ StartOpens(c) \/ StartOpenFails(c) \/ StartRuns(c) \/ StartSpawns(c)
  PROVE  CalmCallers'
<1> USE GensFacts
<1>1. CASE StartEnter(c)
  <2>1. /\ UNCHANGED <<gens, serial_handle, is_running>> /\ ~is_running /\ caller_pc[c] = "idle"
        /\ \A d \in Callers : caller_pc'[d] = IF d = c THEN "open" ELSE caller_pc[d]
        /\ \A d \in Callers : ~Starting(d) /\ ~Stopping(d)
    BY <1>1 DEF TypeOK, StartEnter, Goto, life
  <2>2. gens = 0 BY <2>1 DEF TypeOK, CalmCallers
  <2> QED BY <2>1, <2>2 DEF CalmCallers, Starting, Stopping
<1>2. CASE StartOpens(c)
  <2>1. /\ UNCHANGED <<gens, is_running>> /\ serial_handle' \in Ports /\ caller_pc[c] = "open"
        /\ \A d \in Callers : caller_pc'[d] = IF d = c THEN "run" ELSE caller_pc[d]
    BY <1>2 DEF TypeOK, StartOpens, Goto, Ports
  <2> QED BY <2>1 DEF CalmCallers, Starting, Stopping
<1>3. CASE StartOpenFails(c)
  <2>1. /\ UNCHANGED <<gens, is_running>> /\ caller_pc[c] = "open"
        /\ \A d \in Callers : caller_pc'[d] = IF d = c THEN "idle" ELSE caller_pc[d]
    BY <1>3 DEF TypeOK, StartOpenFails, Goto
  <2>2. gens = 0 /\ \A d \in Callers : caller_pc[d] \in {"run", "spawn"} => FALSE
    BY <2>1 DEF CalmCallers, Starting
  <2> QED BY <2>1, <2>2 DEF CalmCallers, Starting, Stopping
<1>4. CASE StartRuns(c)
  <2>1. /\ UNCHANGED <<gens, serial_handle>> /\ is_running' = TRUE /\ caller_pc[c] = "run"
        /\ \A d \in Callers : caller_pc'[d] = IF d = c THEN "spawn" ELSE caller_pc[d]
    BY <1>4 DEF TypeOK, StartRuns, Goto
  <2> QED BY <2>1 DEF CalmCallers, Starting, Stopping
<1>5. CASE StartSpawns(c)
  <2>1. /\ gens' = gens + 1 /\ UNCHANGED <<is_running, serial_handle>> /\ caller_pc[c] = "spawn"
        /\ \A d \in Callers : caller_pc'[d] = IF d = c THEN "idle" ELSE caller_pc[d]
    BY <1>5 DEF TypeOK, StartSpawns, Goto
  <2>2. gens = 0 /\ is_running /\ serial_handle \in Ports BY <2>1 DEF CalmCallers, Starting
  <2>3. \A d \in Callers : (caller_pc[d] # "clear" /\ ~Starting(d)) \/ d = c
    BY <2>1 DEF CalmCallers, Starting, Stopping
  <2>4. \A d \in Callers : caller_pc'[d] # "clear" /\ caller_pc'[d] \notin {"open", "run", "spawn"}
    BY <2>1, <2>3 DEF Starting
  <2> QED BY <2>1, <2>2, <2>4 DEF CalmCallers, Starting, Stopping
<1> QED BY <1>1, <1>2, <1>3, <1>4, <1>5

LEMMA CallersOther ==
  ASSUME TypeOK, CalmCallers, NEW c \in Callers, ~overlapped, ~overlapped',
         StopEnter(c) \/ StopJoins(c) \/ StopClears(c) \/ RegisterBegin(c) \/ RegisterEnd(c)
  PROVE  CalmCallers'
<1> USE GensFacts
<1>1. CASE StopEnter(c)
  <2>1. /\ UNCHANGED <<gens, serial_handle, is_running>> /\ caller_pc[c] = "idle"
        /\ \A d \in Callers : caller_pc'[d] = IF d = c THEN "join" ELSE caller_pc[d]
        /\ \A d \in Callers : ~Starting(d)
    BY <1>1 DEF TypeOK, StopEnter, Goto, life
  <2> QED BY <2>1 DEF CalmCallers, Starting, Stopping
<1>2. CASE StopJoins(c)
  <2>1. /\ UNCHANGED <<gens, serial_handle, is_running>> /\ caller_pc[c] = "join" /\ gens = 0
        /\ \A d \in Callers : caller_pc'[d] = IF d = c THEN "clear" ELSE caller_pc[d]
    BY <1>2 DEF TypeOK, StopJoins, Goto, life
  <2> QED BY <2>1 DEF CalmCallers, Starting, Stopping
<1>3. CASE StopClears(c)
  <2>1. /\ UNCHANGED <<gens, serial_handle>> /\ caller_pc[c] = "clear"
        /\ \A d \in Callers : caller_pc'[d] = IF d = c THEN "idle" ELSE caller_pc[d]
    BY <1>3 DEF TypeOK, StopClears, Goto
  <2>2. gens = 0 BY <2>1 DEF CalmCallers
  <2>3. \A d \in Callers : ~Starting(d) BY <2>1 DEF CalmCallers, Starting, Stopping
  <2> QED BY <2>1, <2>2, <2>3 DEF CalmCallers, Starting, Stopping
<1>4. CASE RegisterBegin(c) \/ RegisterEnd(c)
  <2>1. /\ UNCHANGED <<gens, serial_handle, is_running>> /\ caller_pc[c] \in {"idle", "reg"}
        /\ \A d \in Callers : d # c => caller_pc'[d] = caller_pc[d]
        /\ caller_pc'[c] \in {"idle", "reg"}
    BY <1>4 DEF TypeOK, RegisterBegin, RegisterEnd, Goto, life
  <2> QED BY <2>1 DEF CalmCallers, Starting, Stopping
<1> QED BY <1>1, <1>2, <1>3, <1>4

LEMMA CallersStep ==
  ASSUME TypeOK, CalmCallers, [Next]_vars
  PROVE  CalmCallers'
<1>1. CASE overlapped' BY <1>1 DEF CalmCallers
<1>2. CASE ~overlapped'
  <2>1. ~overlapped BY <1>2, OverlappedStays
  <2>2. ASSUME NEW c \in Callers, Caller(c) PROVE CalmCallers'
    BY <1>2, <2>1, <2>2, CallersStart, CallersOther DEF Caller
  <2>3. ASSUME ~(\E c \in Callers : Caller(c)) PROVE UNCHANGED <<life, caller>>
    BY <2>3 DEF Next, ReadThread, ReadTests, ReadTakes, ReadNothing, ReadCalls, WriteThread, WriteTests,
       WriteChecks, WritePops, WriteDone, SendMessage, Arrive, vars
  <2> QED BY <2>2, <2>3, CallersFrame
<1> QED BY <1>1, <1>2

\* In a calm history the workers that run are those of generation 1.
LEMMA OneGeneration ==
  ASSUME TypeOK, Counted, CalmCallers, ~overlapped, NEW g \in Gens,
         read_pc[g] # "none" \/ write_pc[g] # "none"
  PROVE  g = 1
<1>1. g <= gens BY GensFacts DEF TypeOK, Counted, Gens
<1>2. gens <= 1 /\ gens \in Nat /\ g \in Nat /\ g >= 1 BY GensFacts DEF TypeOK, CalmCallers, Gens
<1> QED BY <1>1, <1>2

LEMMA ReaderFrame ==
  ASSUME CalmReader, overlapped' = overlapped \/ ~overlapped, UNCHANGED <<delivered, inbound_packet>>,
         \A g \in Gens : read_pc'[g] = "call" => read_pc[g] = "call"
  PROVE  CalmReader'
BY DEF CalmReader, InOrder

LEMMA ReaderStep ==
  ASSUME TypeOK, Counted, LineInv, CalmCallers, CalmReader, [Next]_vars
  PROVE  CalmReader'
<1>1. CASE overlapped' BY <1>1 DEF CalmReader
<1>2. CASE ~overlapped'
  <2>0. ~overlapped BY <1>2, OverlappedStays
  <2>1. ASSUME NEW g \in Gens, ReadTakes(g) PROVE CalmReader'
    <3>1. /\ rx # <<>> /\ UNCHANGED delivered
          /\ inbound_packet' = [inbound_packet EXCEPT ![g] = Head(rx)]
          /\ read_pc' = [read_pc EXCEPT ![g] = "call"]
      BY <2>1 DEF ReadTakes
    <3>2. 1 \in DOMAIN rx /\ Head(rx) = rx[1]
      <4>1. rx \in Seq(Bytes) BY DEF TypeOK
      <4>2. Len(rx) \in Nat /\ Len(rx) > 0 /\ Head(rx) = rx[1] /\ DOMAIN rx = 1..Len(rx)
        BY <3>1, <4>1, HeadTail
      <4> QED BY <4>2
    <3>3. \A i \in DOMAIN delivered : delivered[i] < Head(rx) BY <3>2 DEF LineInv
    <3> QED BY <2>0, <3>1, <3>3 DEF TypeOK, CalmReader, InOrder
  <2>2. ASSUME NEW g \in Gens, ReadCalls(g) PROVE CalmReader'
    <3>1. read_pc[g] = "call" /\ UNCHANGED inbound_packet BY <2>2 DEF ReadCalls
    <3>2. CASE UNCHANGED delivered
      <4>1. \A h \in Gens : read_pc'[h] = "call" => read_pc[h] = "call" BY <2>2 DEF TypeOK, ReadCalls
      <4> QED BY <2>0, <3>1, <3>2, <4>1, ReaderFrame
    <3>3. CASE delivered' = Append(delivered, inbound_packet[g]) /\ read_pc' = [read_pc EXCEPT ![g] = "test"]
      <4>1. \A h \in Gens : read_pc'[h] # "call"
        BY <2>0, <3>1, <3>3, OneGeneration DEF TypeOK
      <4>2. inbound_packet[g] \in Bytes BY <3>1 DEF LineInv
      <4>3. /\ DOMAIN delivered = 1..Len(delivered) /\ DOMAIN delivered' = 1..(Len(delivered) + 1)
            /\ Len(delivered) \in Nat
            /\ \A i \in 1..Len(delivered) : delivered'[i] = delivered[i]
            /\ delivered'[Len(delivered) + 1] = inbound_packet[g]
        BY <3>3, <4>2, AppendFacts DEF TypeOK
      <4>4. InOrder'
        <5> SUFFICES ASSUME NEW i \in DOMAIN delivered', NEW j \in DOMAIN delivered', i < j
                     PROVE  delivered'[i] < delivered'[j]
          BY DEF InOrder
        <5>1. i \in DOMAIN delivered /\ delivered'[i] = delivered[i] BY <4>3
        <5>2. CASE j \in DOMAIN delivered BY <2>0, <4>3, <5>1, <5>2 DEF CalmReader, InOrder
        <5>3. CASE j = Len(delivered) + 1 BY <2>0, <3>1, <4>3, <5>1, <5>3 DEF CalmReader
        <5> QED BY <4>3, <5>2, <5>3
      <4> QED BY <4>1, <4>4 DEF CalmReader
    <3> QED BY <2>2, <3>2, <3>3 DEF ReadCalls
  <2>3. ASSUME NEW c \in Callers, Caller(c) PROVE CalmReader'
    <3>1. UNCHANGED <<delivered, inbound_packet>>
          /\ (UNCHANGED read_pc \/ read_pc' = [read_pc EXCEPT ![gens + 1] = "test"])
      BY <2>3 DEF Caller, StartEnter, StartOpens, StartOpenFails, StartRuns, StartSpawns, StopEnter, StopJoins,
         StopClears, RegisterBegin, RegisterEnd, reader
    <3> QED BY <2>0, <3>1, ReaderFrame DEF TypeOK
  <2>4. ASSUME NEW g \in Gens, ReadTests(g) \/ ReadNothing(g) PROVE CalmReader'
    <3>1. UNCHANGED <<delivered, inbound_packet>>
          /\ \E pc \in {"read", "test"} : read_pc' = [read_pc EXCEPT ![g] = pc]
      BY <2>4 DEF ReadTests, ReadNothing
    <3> QED BY <2>0, <3>1, ReaderFrame DEF TypeOK
  <2>5. ASSUME (\E g \in Gens : WriteThread(g)) \/ SendMessage \/ Arrive \/ UNCHANGED vars PROVE CalmReader'
    <3>1. UNCHANGED reader
      BY <2>5 DEF WriteThread, WriteTests, WriteChecks, WritePops, WriteDone, SendMessage, Arrive, vars
    <3> QED BY <2>0, <3>1, ReaderFrame DEF reader
  <2> QED BY <2>1, <2>2, <2>3, <2>4, <2>5 DEF Next, ReadThread
<1> QED BY <1>1, <1>2

LEMMA WriterFrame ==
  ASSUME CalmWriter, ~overlapped, outbound_q' = outbound_q \/ outbound_q' # <<>>, crashed' # "empty_front",
         \A g \in Gens : write_pc'[g] = "lock" => write_pc[g] = "lock"
  PROVE  CalmWriter'
BY DEF CalmWriter

LEMMA WriterStep ==
  ASSUME TypeOK, Counted, CalmCallers, CalmWriter, [Next]_vars
  PROVE  CalmWriter'
<1>1. CASE overlapped' BY <1>1 DEF CalmWriter
<1>2. CASE ~overlapped'
  <2>0. ~overlapped /\ crashed # "empty_front" BY <1>2, OverlappedStays DEF CalmWriter
  <2>1. ASSUME NEW g \in Gens, WriteChecks(g) PROVE CalmWriter'
    BY <2>0, <2>1 DEF TypeOK, CalmWriter, WriteChecks, outq
  <2>2. ASSUME NEW g \in Gens, WritePops(g) PROVE CalmWriter'
    <3>1. write_pc[g] = "lock" /\ outbound_q # <<>> BY <2>0, <2>2 DEF CalmWriter, WritePops
    <3>2. write_pc' = [write_pc EXCEPT ![g] = "write"] /\ UNCHANGED crashed BY <2>2, <3>1 DEF WritePops
    <3>3. \A h \in Gens : write_pc'[h] # "lock" BY <2>0, <3>1, <3>2, OneGeneration DEF TypeOK
    <3> QED BY <2>0, <3>2, <3>3 DEF CalmWriter
  <2>3. ASSUME NEW g \in Gens, WriteTests(g) \/ WriteDone(g) PROVE CalmWriter'
    <3>1. /\ UNCHANGED <<outbound_q, crashed>>
          /\ \E pc \in {"queue", "flag"} : write_pc' = [write_pc EXCEPT ![g] = pc]
      BY <2>3 DEF WriteTests, WriteDone, outq
    <3> QED BY <2>0, <3>1, WriterFrame DEF TypeOK
  <2>4. ASSUME SendMessage PROVE CalmWriter'
    <3>1. accepted + 1 \in Messages BY <2>4, GensFacts DEF TypeOK, SendMessage, Messages
    <3>2. outbound_q' # <<>> BY <2>4, <3>1, AppendFacts DEF TypeOK, SendMessage
    <3> QED BY <2>0, <2>4, <3>2, WriterFrame DEF SendMessage, writer
  <2>5. ASSUME NEW c \in Callers, Caller(c) PROVE CalmWriter'
    <3>1. UNCHANGED <<outbound_q, crashed>>
          /\ (UNCHANGED write_pc \/ write_pc' = [write_pc EXCEPT ![gens + 1] = "flag"])
      BY <2>5 DEF Caller, StartEnter, StartOpens, StartOpenFails, StartRuns, StartSpawns, StopEnter, StopJoins,
         StopClears, RegisterBegin, RegisterEnd, outq, writer
    <3> QED BY <2>0, <3>1, WriterFrame DEF TypeOK
  <2>6. ASSUME (\E g \in Gens : ReadThread(g)) \/ Arrive \/ UNCHANGED vars PROVE CalmWriter'
    <3>1. UNCHANGED <<outq, writer>> /\ crashed' \in {crashed, "half_callback"}
      BY <2>6 DEF ReadThread, ReadTests, ReadTakes, ReadNothing, ReadCalls, Arrive, vars
    <3> QED BY <2>0, <3>1, WriterFrame DEF outq, writer
  <2> QED BY <2>1, <2>2, <2>3, <2>4, <2>5, <2>6 DEF Next, WriteThread
<1> QED BY <1>1, <1>2

-------------------------------------------------------------------------------
(* The inductive invariant and the theorems *)

IInv == TypeOK /\ Counted /\ OutInv /\ LineInv /\ CalmCallers /\ CalmReader /\ CalmWriter

LEMMA IInvHolds == Spec => []IInv
<1>1. Init => IInv BY TypeInit, CountedInit, OutInit, LineInit, CalmInit DEF IInv
<1>2. IInv /\ [Next]_vars => IInv'
  BY TypeStep, CountedStep, OutStep, LineStep, CallersStep, ReaderStep, WriterStep DEF IInv
<1> QED BY <1>1, <1>2, PTL DEF Spec

\* Every variable of the handler keeps its type; in particular no start() spawns a
\* generation of workers without an open of its own.
THEOREM SerialTypeCorrect == Spec => []TypeOK
<1>1. IInv => TypeOK BY DEF IInv
<1> QED BY <1>1, IInvHolds, PTL

\* As long as no start() met another start() or a stop(): a started port stays started
\* with its handle open whatever stop() is called, bytes reach the callback in the order
\* of the line, and the write thread never takes the front of an empty queue.
THEOREM SerialOrderly == Spec => []OrderlyUnlessOverlapped
<1>1. IInv => OrderlyUnlessOverlapped
  BY DEF IInv, CalmCallers, CalmReader, CalmWriter, OrderlyUnlessOverlapped
<1> QED BY <1>1, IInvHolds, PTL

-------------------------------------------------------------------------------
(* The outbound side implements MessagePipe *)

OutOffered == [n \in 1..accepted |-> n]
OutServing == IF write_mutex = 0 THEN 0 ELSE current[write_mutex]

LEMMA OutboundInit == Init => Outbound!Init
<1> SUFFICES ASSUME Init PROVE Outbound!Init OBVIOUS
<1>1. accepted = 0 /\ outbound_q = <<>> /\ write_mutex = 0 BY DEF Init
<1>2. Len(outbound_q) = 0 BY <1>1
<1>3. accepted - Len(outbound_q) = 0
  <2>1. 0 - 0 = 0 OBVIOUS
  <2> QED BY <1>1, <1>2, <2>1, Zenon
<1>4. [n \in 1..accepted |-> n] = <<>> BY <1>1
<1> QED BY <1>1, <1>3, <1>4, Zenon DEF Outbound!Init

LEMMA OutboundStutter ==
  ASSUME UNCHANGED <<accepted, outbound_q, write_mutex, current>>
  PROVE  UNCHANGED Outbound!vars
BY DEF Outbound!vars

\* A pop of the write thread is a Take.
LEMMA OutboundTakes ==
  ASSUME TypeOK, OutInv, NEW g \in Gens, WritePops(g), outbound_q # <<>>
  PROVE  Outbound!Take
<1>1. /\ accepted' = accepted /\ write_mutex = 0 /\ write_mutex' = g
      /\ current' = [current EXCEPT ![g] = Head(outbound_q)]
      /\ outbound_q' = Tail(outbound_q)
  BY DEF WritePops
<1>2. Len(outbound_q) \in Nat /\ Len(outbound_q') = Len(outbound_q) - 1 /\ Len(outbound_q) > 0
  BY <1>1, HeadTail DEF TypeOK
<1>3. Head(outbound_q) = Popped + 1 /\ Head(outbound_q) \in 1..accepted BY OutHead
<1>4. accepted \in Nat BY GensFacts DEF TypeOK
<1>5. OutServing = 0 BY <1>1 DEF OutServing
<1>6. OutServing' = Popped + 1 BY <1>1, <1>3, GensFacts DEF TypeOK, OutServing
<1>7. Popped < Len(OutOffered) /\ OutOffered[Popped + 1] = Popped + 1 /\ UNCHANGED OutOffered
  <2>1. Len(OutOffered) = accepted BY <1>4 DEF OutOffered
  <2> QED BY <1>1, <1>2, <1>3, <1>4, <2>1 DEF OutOffered, Popped
<1>8. Popped' = Popped + 1 BY <1>1, <1>2, <1>4 DEF Popped
<1> QED BY <1>5, <1>6, <1>7, <1>8 DEF Outbound!Take, OutServing, OutOffered, Popped

\* send_message() is an Offer.
LEMMA OutboundOffers ==
  ASSUME TypeOK, SendMessage
  PROVE  Outbound!Offer
<1> DEFINE longer == Append(OutOffered, accepted + 1)
<1>1. /\ UNCHANGED <<write_mutex, current>> /\ accepted' = accepted + 1 /\ accepted < MaxSend
      /\ outbound_q' = Append(outbound_q, accepted + 1)
  BY DEF SendMessage, writer
<1>2. accepted \in Nat /\ accepted + 1 \in Messages BY <1>1, GensFacts DEF TypeOK, Messages
<1>3. Len(outbound_q) \in Nat /\ Len(outbound_q') = Len(outbound_q) + 1
  BY <1>1, <1>2, AppendFacts DEF TypeOK
<1>4. UNCHANGED <<Popped, OutServing>> BY <1>1, <1>2, <1>3 DEF Popped, OutServing
<1>5. OutOffered' = longer
  <2>1. OutOffered \in Seq(Nat) /\ Len(OutOffered) = accepted
    <3>1. OutOffered \in [1..accepted -> Nat] BY <1>2 DEF OutOffered
    <3>2. DOMAIN OutOffered = 1..accepted BY DEF OutOffered
    <3> QED BY <1>2, <3>1, <3>2
  <2>2. OutOffered' = [n \in 1..(accepted + 1) |-> n] BY <1>1 DEF OutOffered
  <2>3. longer \in Seq(Nat) /\ Len(longer) = accepted + 1 BY <1>2, <2>1, AppendFacts
  <2>4. longer = [i \in 1..(accepted + 1) |-> longer[i]] BY <2>3
  <2>5. \A i \in 1..(accepted + 1) : longer[i] = i BY <1>2, <2>1, AppendFacts DEF OutOffered
  <2> QED BY <2>2, <2>4, <2>5
<1>6. \E x \in Messages : OutOffered' = Append(OutOffered, x) BY <1>2, <1>5
<1> QED BY <1>4, <1>6 DEF Outbound!Offer, OutOffered, OutServing, Popped

LEMMA OutboundStep == IInv /\ [Next]_vars => [Outbound!Next]_(Outbound!vars)
<1> SUFFICES ASSUME IInv, [Next]_vars PROVE [Outbound!Next]_(Outbound!vars) OBVIOUS
<1> USE DEF IInv
<1>1. ASSUME NEW g \in Gens, WriteDone(g) PROVE Outbound!Finish
  <2>1. UNCHANGED <<accepted, outbound_q>> /\ write_pc[g] = "write" /\ write_mutex' = 0
    BY <1>1 DEF WriteDone
  <2>2. write_mutex = g /\ current[g] \in Messages BY <2>1 DEF OutInv
  <2>3. OutServing # 0 /\ OutServing' = 0 BY <2>1, <2>2, GensFacts DEF OutServing, Messages
  <2> QED BY <2>1, <2>3 DEF Outbound!Finish, OutServing
<1>2. ASSUME NEW g \in Gens, WriteTests(g) \/ WriteChecks(g) \/ (WritePops(g) /\ outbound_q = <<>>)
      PROVE UNCHANGED Outbound!vars
  <2>1. UNCHANGED <<accepted, outbound_q, write_mutex, current>>
    BY <1>2 DEF WriteTests, WriteChecks, WritePops, outq
  <2> QED BY <2>1, OutboundStutter
<1>3. ASSUME (\E c \in Callers : Caller(c)) \/ (\E g \in Gens : ReadThread(g)) \/ Arrive \/ UNCHANGED vars
      PROVE  UNCHANGED Outbound!vars
  <2>1. UNCHANGED <<accepted, outbound_q, write_mutex, current>>
    BY <1>3 DEF Caller, StartEnter, StartOpens, StartOpenFails, StartRuns, StartSpawns, StopEnter, StopJoins,
       StopClears, RegisterBegin, RegisterEnd, ReadThread, ReadTests, ReadTakes, ReadNothing, ReadCalls,
       Arrive, vars, outq, writer
  <2> QED BY <2>1, OutboundStutter
<1> QED BY <1>1, <1>2, <1>3, OutboundTakes, OutboundOffers DEF Next, WriteThread, Outbound!Next

\* The outbound queue, its mutex and however many write threads run together write
\* the messages in the order of send_message(), one at a time and once each.
THEOREM SerialOutboundRefines == Spec => OutboundIsPipe
BY OutboundInit, OutboundStep, IInvHolds, PTL DEF Spec, OutboundIsPipe, Outbound!Spec
===============================================================================
