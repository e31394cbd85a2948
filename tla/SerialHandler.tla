----------------------------- MODULE SerialHandler -----------------------------
(***************************************************************************)
(* serial_handler (network/modules/serial_handler.cpp), Windows build: a   *)
(* read thread and a write thread whose loops do test _is_running, and a   *)
(* stop() that joins them before it clears it.  (In the Linux build every  *)
(* start() is refused: the constructor sets the handle to 0 and line 132   *)
(* goes on only from -1.  AsyncKJW models that.)                           *)
(*                                                                         *)
(* A handle is the number of the start() call that got it, 0 is NULL and   *)
(* -1 INVALID_HANDLE_VALUE.  Messages and bytes are numbered in the order  *)
(* the program accepts or the line delivers them.                          *)
(***************************************************************************)
EXTENDS Integers, Sequences

CONSTANTS
  Callers,   \* threads of the application that call the handler
  MaxOpen,   \* bound: CreateFile calls
  MaxSend,   \* bound: messages passed to send_message
  MaxRecv    \* bound: bytes that reach the port

ASSUME CountsAssumption == MaxOpen \in Nat \ {0} /\ MaxSend \in Nat /\ MaxRecv \in Nat

INVALID  == -1
Ports    == 1..MaxOpen
Gens     == 1..MaxOpen
Messages == 1..MaxSend
Bytes    == 1..MaxRecv

VARIABLES
  is_running, serial_handle,      \* members of the handler
  opens,                          \* CreateFile calls so far
  gens,                           \* generations of workers (workers.size() / 2)
  caller_pc,
  overlapped,                     \* history: a start() met another start() or stop()
  rx, arrivals,                   \* what the port has received
  read_pc, inbound_packet,        \* read threads
  receive_callback, delivered,
  outbound_q, accepted, write_mutex,
  write_pc, current,              \* write threads
  crashed

life   == <<is_running, serial_handle, opens, gens>>
caller == <<caller_pc, overlapped>>
line   == <<rx, arrivals>>
reader == <<read_pc, inbound_packet, delivered>>
outq   == <<outbound_q, accepted, write_mutex>>
writer == <<write_pc, current>>
vars   == <<life, caller, line, reader, receive_callback, outq, writer, crashed>>

TypeOK ==
  /\ is_running \in BOOLEAN /\ serial_handle \in Ports \cup {0, INVALID}
  /\ opens \in 0..MaxOpen /\ gens \in 0..MaxOpen
  /\ caller_pc \in [Callers -> {"idle", "open", "run", "spawn", "join", "clear", "reg"}]
  /\ overlapped \in BOOLEAN
  /\ rx \in Seq(Bytes) /\ arrivals \in 0..MaxRecv
  /\ read_pc \in [Gens -> {"none", "test", "read", "call"}]
  /\ inbound_packet \in [Gens -> 0..MaxRecv]
  /\ receive_callback \in {"none", "half", "set"} /\ delivered \in Seq(Bytes)
  /\ outbound_q \in Seq(Messages) /\ accepted \in 0..MaxSend /\ write_mutex \in 0..MaxOpen
  /\ write_pc \in [Gens -> {"none", "flag", "queue", "lock", "write"}]
  /\ current \in [Gens -> 0..MaxSend]
  /\ crashed \in {"no", "empty_front", "half_callback"}

Init ==
  /\ is_running = FALSE /\ serial_handle = 0 /\ opens = 0 /\ gens = 0
  /\ caller_pc = [c \in Callers |-> "idle"] /\ overlapped = FALSE
  /\ rx = <<>> /\ arrivals = 0
  /\ read_pc = [g \in Gens |-> "none"] /\ inbound_packet = [g \in Gens |-> 0]
  /\ receive_callback = "none" /\ delivered = <<>>
  /\ outbound_q = <<>> /\ accepted = 0 /\ write_mutex = 0
  /\ write_pc = [g \in Gens |-> "none"] /\ current = [g \in Gens |-> 0]
  /\ crashed = "no"

Alive == crashed = "no"
Goto(c, pc) == caller_pc' = [caller_pc EXCEPT ![c] = pc]
Starting(c) == caller_pc[c] \in {"open", "run", "spawn"}
Stopping(c) == caller_pc[c] \in {"join", "clear"}

-------------------------------------------------------------------------------
(* start() *)

StartEnter(c) ==
  /\ Alive /\ caller_pc[c] = "idle" /\ ~is_running
  /\ Goto(c, "open")
  /\ overlapped' = (overlapped \/ \E d \in Callers : Starting(d) \/ Stopping(d))
  /\ UNCHANGED <<life, line, reader, receive_callback, outq, writer, crashed>>

\* CreateFile: the handle an earlier call got is overwritten, not closed.
\* PurgeComm clears what the driver had received.
StartOpens(c) ==
  /\ Alive /\ caller_pc[c] = "open" /\ opens < MaxOpen
  /\ opens' = opens + 1
  /\ serial_handle' = opens + 1
  /\ rx' = <<>>
  /\ Goto(c, "run")
  /\ UNCHANGED <<is_running, gens, overlapped, arrivals, reader, receive_callback, outq, writer, crashed>>

\* The device is missing or refuses a second handle.
StartOpenFails(c) ==
  /\ Alive /\ caller_pc[c] = "open" /\ opens < MaxOpen
  /\ opens' = opens + 1
  /\ serial_handle' = INVALID
  /\ Goto(c, "idle")
  /\ UNCHANGED <<is_running, gens, overlapped, line, reader, receive_callback, outq, writer, crashed>>

StartRuns(c) ==
  /\ Alive /\ caller_pc[c] = "run"
  /\ is_running' = TRUE
  /\ Goto(c, "spawn")
  /\ UNCHANGED <<serial_handle, opens, gens, overlapped, line, reader, receive_callback, outq, writer,
                 crashed>>

StartSpawns(c) ==
  /\ Alive /\ caller_pc[c] = "spawn"
  /\ gens' = gens + 1
  /\ read_pc' = [read_pc EXCEPT ![gens + 1] = "test"]
  /\ write_pc' = [write_pc EXCEPT ![gens + 1] = "flag"]
  /\ Goto(c, "idle")
  /\ UNCHANGED <<is_running, serial_handle, opens, overlapped, line, inbound_packet, delivered,
                 receive_callback, outq, current, crashed>>

-------------------------------------------------------------------------------
(* stop() *)

StopEnter(c) ==
  /\ Alive /\ caller_pc[c] = "idle"
  /\ Goto(c, "join")
  /\ overlapped' = (overlapped \/ \E d \in Callers : Starting(d))
  /\ UNCHANGED <<life, line, reader, receive_callback, outq, writer, crashed>>
\* Mutant: stop() does not wait for the threads.
StopSkipsJoin(c) ==
  /\ Alive /\ caller_pc[c] = "join"
  /\ Goto(c, "clear")
  /\ UNCHANGED <<life, overlapped, line, reader, receive_callback, outq, writer, crashed>>

\* The join loop: the threads of a generation never end, whatever the flag says.
StopJoins(c) ==
  /\ Alive /\ caller_pc[c] = "join" /\ gens = 0
  /\ Goto(c, "clear")
  /\ UNCHANGED <<life, overlapped, line, reader, receive_callback, outq, writer, crashed>>

\* The handle stays open.
StopClears(c) ==
  /\ Alive /\ caller_pc[c] = "clear"
  /\ is_running' = FALSE
  /\ Goto(c, "idle")
  /\ UNCHANGED <<serial_handle, opens, gens, overlapped, line, reader, receive_callback, outq, writer,
                 crashed>>

-------------------------------------------------------------------------------
(* read_serial(): one byte at a time, straight to the callback, no lock *)

ReadTests(g) ==
  /\ Alive /\ read_pc[g] = "test" /\ is_running
  /\ read_pc' = [read_pc EXCEPT ![g] = "read"]
  /\ UNCHANGED <<life, caller, line, inbound_packet, delivered, receive_callback, outq, writer, crashed>>

ReadTakes(g) ==
  /\ Alive /\ read_pc[g] = "read" /\ serial_handle \in Ports /\ rx # <<>>
  /\ inbound_packet' = [inbound_packet EXCEPT ![g] = Head(rx)]
  /\ rx' = Tail(rx)
  /\ read_pc' = [read_pc EXCEPT ![g] = "call"]
  /\ UNCHANGED <<life, caller, arrivals, delivered, receive_callback, outq, writer, crashed>>
\* Mutant: the count ReadFile stores is not looked at.
ReadUntested(g) ==
  /\ Alive /\ read_pc[g] = "read"
  /\ read_pc' = [read_pc EXCEPT ![g] = "call"]
  /\ UNCHANGED <<life, caller, line, inbound_packet, delivered, receive_callback, outq, writer, crashed>>

\* ReadFile times out, or fails.
ReadNothing(g) ==
  /\ Alive /\ read_pc[g] = "read"
  /\ read_pc' = [read_pc EXCEPT ![g] = "test"]
  /\ UNCHANGED <<life, caller, line, inbound_packet, delivered, receive_callback, outq, writer, crashed>>

ReadCalls(g) ==
  /\ Alive /\ read_pc[g] = "call"
  /\ \/ /\ receive_callback # "half"
        /\ delivered' = IF receive_callback = "set" THEN Append(delivered, inbound_packet[g]) ELSE delivered
        /\ read_pc' = [read_pc EXCEPT ![g] = "test"]
        /\ UNCHANGED crashed
     \/ /\ receive_callback = "half"
        /\ crashed' = "half_callback"
        /\ UNCHANGED <<delivered, read_pc>>
  /\ UNCHANGED <<life, caller, line, inbound_packet, receive_callback, outq, writer>>

\* register_callback() assigns the member while a read thread may test and call it.
RegisterBegin(c) ==
  /\ Alive /\ caller_pc[c] = "idle" /\ receive_callback = "none"
  /\ receive_callback' = "half"
  /\ Goto(c, "reg")
  /\ UNCHANGED <<life, overlapped, line, reader, outq, writer, crashed>>

RegisterEnd(c) ==
  /\ Alive /\ caller_pc[c] = "reg"
  /\ receive_callback' = "set"
  /\ Goto(c, "idle")
  /\ UNCHANGED <<life, overlapped, line, reader, outq, writer, crashed>>

-------------------------------------------------------------------------------
(* send_message() and write_serial() *)

\* The destination id is not used.
SendMessage ==
  /\ Alive /\ write_mutex = 0 /\ accepted < MaxSend
  /\ accepted' = accepted + 1
  /\ outbound_q' = Append(outbound_q, accepted + 1)
  /\ UNCHANGED <<life, caller, line, reader, receive_callback, write_mutex, writer, crashed>>

WriteTests(g) ==
  /\ Alive /\ write_pc[g] = "flag" /\ is_running
  /\ write_pc' = [write_pc EXCEPT ![g] = "queue"]
  /\ UNCHANGED <<life, caller, line, reader, receive_callback, outq, current, crashed>>

\* _outbound_q.empty() is read without the mutex.
WriteChecks(g) ==
  /\ Alive /\ write_pc[g] = "queue"
  /\ write_pc' = [write_pc EXCEPT ![g] = IF outbound_q = <<>> THEN "flag" ELSE "lock"]
  /\ UNCHANGED <<life, caller, line, reader, receive_callback, outq, current, crashed>>
\* Mutant: the mutex is given up after the pop.
PopUnlocks(g) ==
  /\ Alive /\ write_pc[g] = "lock" /\ write_mutex = 0
  /\ outbound_q # <<>>
  /\ current' = [current EXCEPT ![g] = Head(outbound_q)]
  /\ outbound_q' = Tail(outbound_q)
  /\ write_pc' = [write_pc EXCEPT ![g] = "write"]
  /\ UNCHANGED <<life, caller, line, reader, receive_callback, accepted, write_mutex, crashed>>

\* front() and pop_front(); on an empty deque the process dies.
WritePops(g) ==
  /\ Alive /\ write_pc[g] = "lock" /\ write_mutex = 0
  /\ \/ /\ outbound_q # <<>>
        /\ write_mutex' = g
        /\ current' = [current EXCEPT ![g] = Head(outbound_q)]
        /\ outbound_q' = Tail(outbound_q)
        /\ write_pc' = [write_pc EXCEPT ![g] = "write"]
        /\ UNCHANGED crashed
     \/ /\ outbound_q = <<>>
        /\ crashed' = "empty_front"
        /\ UNCHANGED <<write_mutex, current, outbound_q, write_pc>>
  /\ UNCHANGED <<life, caller, line, reader, receive_callback, accepted>>
\* Mutant: the write thread ends with its first message.
DoneOnce(g) ==
  /\ Alive /\ write_pc[g] = "write"
  /\ write_mutex' = 0
  /\ current' = [current EXCEPT ![g] = 0]
  /\ write_pc' = [write_pc EXCEPT ![g] = "none"]
  /\ UNCHANGED <<life, caller, line, reader, receive_callback, outbound_q, accepted, crashed>>

\* WriteFile; a short count or an error is only printed, the message is gone.
WriteDone(g) ==
  /\ Alive /\ write_pc[g] = "write"
  /\ write_mutex' = 0
  /\ current' = [current EXCEPT ![g] = 0]
  /\ write_pc' = [write_pc EXCEPT ![g] = "flag"]
  /\ UNCHANGED <<life, caller, line, reader, receive_callback, outbound_q, accepted, crashed>>

-------------------------------------------------------------------------------
(* The line and the specification *)

Arrive ==
  /\ Alive /\ serial_handle \in Ports /\ arrivals < MaxRecv
  /\ arrivals' = arrivals + 1
  /\ rx' = Append(rx, arrivals + 1)
  /\ UNCHANGED <<life, caller, reader, receive_callback, outq, writer, crashed>>

Caller(c) ==
  \/ StartEnter(c) \/ StartOpens(c) \/ StartOpenFails(c) \/ StartRuns(c) \/ StartSpawns(c)
  \/ StopEnter(c) \/ StopJoins(c) \/ StopClears(c)
  \/ RegisterBegin(c) \/ RegisterEnd(c)
ReadThread(g) == ReadTests(g) \/ ReadTakes(g) \/ ReadNothing(g) \/ ReadCalls(g)
WriteThread(g) == WriteTests(g) \/ WriteChecks(g) \/ WritePops(g) \/ WriteDone(g)

Next ==
  \/ \E c \in Callers : Caller(c)
  \/ \E g \in Gens : ReadThread(g) \/ WriteThread(g)
  \/ SendMessage \/ Arrive

\* The scheduler runs the write threads; WriteFile has a timeout.
Fairness == \A g \in Gens : WF_vars(WriteThread(g))

Spec == Init /\ [][Next]_vars
FairSpec == Spec /\ Fairness

-------------------------------------------------------------------------------
(* Properties *)

\* The handler has no lock around start() and stop(), and stop() joins before it
\* clears the flag.  As long as no start() met another start() or a stop(), a port
\* that has been started stays started with its handle open, through every stop(),
\* with one reader and one writer: bytes reach the callback in the order of the line
\* and front() meets no empty queue.
InOrder == \A i, j \in DOMAIN delivered : i < j => delivered[i] < delivered[j]
OrderlyUnlessOverlapped ==
  ~overlapped =>
    /\ gens > 0 => is_running /\ serial_handle \in Ports
    /\ InOrder
    /\ crashed # "empty_front"

\* The outbound side is a FIFO pipe, whatever number of write threads run.
Outbound == INSTANCE MessagePipe WITH
  Items <- Messages,
  offered <- [n \in 1..accepted |-> n],
  taken <- accepted - Len(outbound_q),
  serving <- IF write_mutex = 0 THEN 0 ELSE current[write_mutex]
OutboundIsPipe == Outbound!Spec

\* A message accepted by a running handler with workers is eventually served, also
\* under a stop() that waits for them, unless an overlapping stop() clears the flag.
Queued(n) == \E i \in DOMAIN outbound_q : outbound_q[i] = n
Finished(n) == n <= accepted /\ ~Queued(n) /\ \A g \in Gens : current[g] # n
MessagesServed ==
  \A n \in Messages : (gens > 0 /\ n <= accepted) ~> (Finished(n) \/ ~is_running \/ ~Alive)
===============================================================================
