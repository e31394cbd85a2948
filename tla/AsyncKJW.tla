------------------------------- MODULE AsyncKJW -------------------------------
(***************************************************************************)
(* The facade (main/AsyncKJW.cpp), its sessions (main/session.ipp) and the *)
(* life of the handlers they own: four maps from ids to sessions that no   *)
(* lock protects, start() and stop() of a handler as far as its flag, its  *)
(* workers and its descriptor go, its destructor, and the descriptor table *)
(* of the process, where a number that is closed is given out again.       *)
(* Linux build.  What the workers do with messages is in UdpHandler,       *)
(* TcpServerHandler, TcpClientHandler and SerialHandler.                   *)
(*                                                                         *)
(* A session is numbered by its construction, a kind by the place of its   *)
(* map in every function of the facade.                                    *)
(***************************************************************************)
EXTENDS Integers, Sequences

CONSTANTS
  Callers,   \* threads of the application
  Ids,       \* ids passed to the API and found in configuration files
  Configs,   \* what load_ini may return: sequences of [id, type]
  Leftovers, \* what the memory of an uninitialised socket member may hold; -1 is any
             \* number that names no descriptor
  MaxFd,     \* bound: descriptors 0..MaxFd, 0 being the standard input
  MaxCalls,  \* bound: calls of the API
  MaxMixed   \* bound: the last call to begin when one has begun while another went on

UDP == 1  SERVER == 2  CLIENT == 3  SERIAL == 4
Kinds == UDP..SERIAL
Fds == 0..MaxFd

ASSUME BoundsAssumption == MaxFd \in Nat \ {0} /\ MaxCalls \in Nat /\ MaxMixed \in Nat
ASSUME IdsAssumption == Ids \subseteq Nat /\ Leftovers \subseteq Fds \cup {-1}
ASSUME ConfigsAssumption == Configs \subseteq Seq([id : Ids, type : Int])

Free == 0
Foreign == -1   \* a descriptor the application opened itself

VARIABLES
  maps,          \* m_map_udp, m_map_tcp_server, m_map_tcp_client, m_map_serial; 0 is "absent"
  session,       \* every session constructed, in order
  owner,         \* descriptor table: the session a descriptor was opened for
  pc, call,      \* the call each thread is in
  calls,
  config, loads, \* history: what the maps should hold, load() calls so far
  overlapped,    \* history: a call began while another one was going on
  holders,       \* sessions whose member names a socket they opened and have not closed
  strayed,       \* history: a handler closed a number that was no socket of its own
  crashed

facade  == <<maps, session, owner>>
history == <<calls, config, loads, overlapped>>
sockets == <<holders, strayed>>
vars    == <<facade, pc, call, history, sockets, crashed>>

SessionRecord ==
  [kind : Kinds, entry : Nat, load : Nat, phase : {"alive", "destroying", "dead"},
   running : BOOLEAN, gens : Nat, member : Fds \cup {-1}, link : {"none", "up", "lost"},
   starts : Nat]   \* history: start() calls that asked for a socket
CallRecord ==
  [op : {"none", "start", "stop", "restart", "use", "statuses", "close", "load", "destroy"},
   id : Ids \cup {-1}, k : 1..5, target : Nat, dying : SUBSET Nat,
   infos : Seq([id : Ids, type : Int]), next : Nat]
NoCall == [op |-> "none", id |-> -1, k |-> 1, target |-> 0, dying |-> {}, infos |-> <<>>, next |-> 0]

Sessions == DOMAIN session
Running(s) == session[s].gens > 0
PCs == {"idle", "find", "start", "spawn", "stop", "join", "send",
        "iterate", "clear", "destroy", "wait", "insert"}

TableType ==
  /\ session \in Seq(SessionRecord)
  /\ maps \in [Kinds -> [Ids -> 0..Len(session)]]
  /\ owner \in [Fds -> Foreign..Len(session)]
CallType ==
  /\ pc \in [Callers -> PCs] /\ call \in [Callers -> CallRecord]
  /\ \A c \in Callers :
       /\ call[c].target \in 0..Len(session) /\ call[c].dying \subseteq Sessions
       /\ pc[c] \in {"start", "spawn", "stop", "join", "send", "wait"} => call[c].target # 0
HistoryType ==
  /\ calls \in 0..MaxCalls /\ loads \in Nat /\ config \in Seq([id : Ids, type : Int])
  /\ overlapped \in BOOLEAN /\ strayed \in BOOLEAN
  /\ holders \subseteq Sessions
TypeOK ==
  /\ TableType /\ CallType /\ HistoryType
  /\ crashed \in {"no", "freed_session", "dangling", "map_race", "freed_instance"}

Init ==
  /\ maps = [k \in Kinds |-> [id \in Ids |-> 0]]
  /\ session = <<>>
  /\ owner = [f \in Fds |-> IF f = 0 THEN Foreign ELSE Free]
  /\ pc = [c \in Callers |-> "idle"] /\ call = [c \in Callers |-> NoCall]
  /\ calls = 0 /\ config = <<>> /\ loads = 0
  /\ overlapped = FALSE /\ holders = {} /\ strayed = FALSE /\ crashed = "no"

Alive == crashed = "no"
Goto(c, where) == pc' = [pc EXCEPT ![c] = where]
Target(c) == session[call[c].target]
\* The range-for over a map holds a copy of the shared_ptr it is at.
Held(c) ==
  \/ pc[c] \in {"stop", "join"} /\ call[c].op \in {"close", "load", "destroy"}
  \/ pc[c] = "send" /\ call[c].op = "statuses"

\* socket() gives out the lowest number that is free.
Openable == {f \in Fds : owner[f] = Free}
Lowest == CHOOSE f \in Openable : \A g \in Openable : f <= g

\* close(f) frees the number, whoever it has been given to; -1 is refused.
Closed(f) == IF f \in Fds THEN [owner EXCEPT ![f] = Free] ELSE owner
\* A handler closes what its member names, which it may never have opened.
Closes(s) ==
  /\ owner' = Closed(session[s].member)
  /\ holders' = holders \ {s}
  /\ strayed' = (strayed \/ (session[s].member \in Fds /\ s \notin holders))
Opens(s) ==
  /\ owner' = [owner EXCEPT ![Lowest] = s]
  /\ holders' = holders \cup {s}
  /\ UNCHANGED strayed

\* A stop() that joins workers: they never end, so it never returns.
Waiting(c) == pc[c] = "join" /\ Target(c).gens > 0

-------------------------------------------------------------------------------
(* Calls, and the search of the four maps *)

Begin(c, where) ==
  /\ Alive /\ pc[c] = "idle" /\ calls < MaxCalls
  /\ \A d \in Callers : call[d].op # "destroy"
  /\ calls' = calls + 1
  /\ overlapped' = (overlapped \/ \E d \in Callers : pc[d] # "idle" /\ ~Waiting(d))
  /\ overlapped' => calls < MaxMixed
  /\ Goto(c, where)
  /\ UNCHANGED <<facade, sockets, crashed>>

\* start, stop and restart of one id.  "use" is write, register_callback and the
\* queries of one kind: they too go by find() and call the handler they find.
CallById(c, op, id) ==
  /\ Begin(c, "find")
  /\ call' = [call EXCEPT ![c] = [NoCall EXCEPT !.op = op, !.id = id]]
  /\ UNCHANGED <<config, loads>>

\* get_running_statuses goes through the maps as close() does and asks is_running().
CallStatuses(c) ==
  /\ Begin(c, "iterate")
  /\ call' = [call EXCEPT ![c] = [NoCall EXCEPT !.op = "statuses"]]
  /\ UNCHANGED <<config, loads>>

\* API_close, and API_Destroy, which deletes the object after it.
CallClose(c, op) ==
  /\ Begin(c, "iterate")
  /\ call' = [call EXCEPT ![c] = [NoCall EXCEPT !.op = op]]
  /\ config' = <<>>
  /\ UNCHANGED loads
\* Mutant: load() inserts without closing first.
LoadsOnTop(c, infos) ==
  /\ Begin(c, "insert")
  /\ call' = [call EXCEPT ![c] = [NoCall EXCEPT !.op = "load", !.k = 5, !.infos = infos, !.next = 1]]
  /\ config' = infos
  /\ loads' = loads + 1

\* load() reads the file and calls close() before it looks at what it read.
CallLoad(c, infos) ==
  /\ Begin(c, "iterate")
  /\ call' = [call EXCEPT ![c] = [NoCall EXCEPT !.op = "load", !.infos = infos, !.next = 1]]
  /\ config' = infos
  /\ loads' = loads + 1

\* Mutant: what find() returned is used untested.
FindsEnd(c) ==
  /\ Alive /\ pc[c] = "find"
  /\ call' = [call EXCEPT ![c].target = IF call[c].k <= SERIAL THEN maps[call[c].k][call[c].id] ELSE 0]
  /\ Goto(c, IF call[c].op = "start" THEN "start" ELSE "stop")
  /\ UNCHANGED <<facade, history, sockets, crashed>>

\* find() in one map after the other; maps without the id are passed over at once.
\* restart() goes through them twice and returns false.
Finds(c) ==
  /\ Alive /\ pc[c] = "find"
  /\ LET hits == {k \in call[c].k..SERIAL : maps[k][call[c].id] # 0} IN
       \/ /\ hits # {}
          /\ LET k == CHOOSE k \in hits : \A j \in hits : k <= j IN
               call' = [call EXCEPT ![c].k = k, ![c].target = maps[k][call[c].id]]
          /\ Goto(c, CASE call[c].op = "start" -> "start" [] call[c].op = "use" -> "send"
                       [] OTHER -> "stop")
       \/ /\ hits = {} /\ call[c].op = "restart"
          /\ call' = [call EXCEPT ![c].op = "start", ![c].k = 1]
          /\ UNCHANGED pc
       \/ /\ hits = {} /\ call[c].op # "restart"
          /\ call' = [call EXCEPT ![c] = NoCall]
          /\ Goto(c, "idle")
  /\ UNCHANGED <<facade, history, sockets, crashed>>

\* The handler's function has returned: on to the next map, or the next session.
Leave(c) ==
  /\ call' = [call EXCEPT ![c].k = IF Held(c) THEN @ ELSE @ + 1]
  /\ Goto(c, IF Held(c) THEN "iterate" ELSE "find")

\* send_message(), register_callback() or a status of the handler: nothing changes here.
Sends(c) ==
  /\ Alive /\ pc[c] = "send" /\ Target(c).phase # "dead"
  /\ Leave(c)
  /\ UNCHANGED <<facade, history, sockets, crashed>>

-------------------------------------------------------------------------------
(* start() of a handler *)


\* On Linux a serial handler's start() is refused by its handle, which is 0.
StartRefused(c) ==
  /\ Alive /\ pc[c] = "start" /\ Target(c).phase # "dead"
  /\ Target(c).kind = SERIAL \/ (Target(c).kind # CLIENT /\ Target(c).running)
  /\ Leave(c)
  /\ UNCHANGED <<facade, history, sockets, crashed>>

Startable(c) == Target(c).phase # "dead" /\ Target(c).kind \in {UDP, SERVER} /\ ~Target(c).running

\* socket() fails, or something after it does; then the number stays in the
\* member, closed by most of the error paths and left open by some of UDP's.
\* When UDP's epoll calls fail _is_running is true already.
StartFails(c) ==
  /\ Alive /\ pc[c] = "start" /\ Startable(c)
  /\ LET s == call[c].target
         Fails(m, running) ==
           session' = [session EXCEPT ![s].member = m, ![s].running = running,
                         ![s].link = IF @ = "up" THEN "none" ELSE @, ![s].starts = @ + 1]
     IN  \/ Fails(-1, FALSE) /\ holders' = holders \ {s} /\ UNCHANGED <<owner, strayed>>
         \/ /\ Openable # {}
            /\ \E running \in {FALSE, Target(c).kind = UDP} : Fails(Lowest, running)
            /\ holders' = holders \ {s}
            /\ UNCHANGED <<owner, strayed>>
         \/ Openable # {} /\ Target(c).kind = UDP /\ Fails(Lowest, FALSE) /\ Opens(s)
  /\ Leave(c)
  /\ UNCHANGED <<maps, history, crashed>>

StartOpens(c) ==
  /\ Alive /\ pc[c] = "start" /\ Startable(c) /\ Openable # {}
  /\ session' = [session EXCEPT ![call[c].target].member = Lowest, ![call[c].target].running = TRUE,
                                ![call[c].target].link = "up", ![call[c].target].starts = @ + 1]
  /\ Opens(call[c].target)
  /\ Goto(c, "spawn")
  /\ UNCHANGED <<maps, call, history, crashed>>

StartSpawns(c) ==
  /\ Alive /\ pc[c] = "spawn" /\ Target(c).phase # "dead"
  /\ session' = [session EXCEPT ![call[c].target].gens = @ + 1]
  /\ Leave(c)
  /\ UNCHANGED <<maps, owner, history, sockets, crashed>>

\* tcp_client_handler: no test of the flag, no socket yet.
StartClient(c) ==
  /\ Alive /\ pc[c] = "start" /\ Target(c).phase # "dead" /\ Target(c).kind = CLIENT
  /\ session' = [session EXCEPT ![call[c].target].running = TRUE, ![call[c].target].gens = @ + 1]
  /\ Leave(c)
  /\ UNCHANGED <<maps, owner, history, sockets, crashed>>

-------------------------------------------------------------------------------
(* What workers do to the descriptor *)

\* attempt_to_connect() succeeds.
ClientConnects(s) ==
  /\ Alive /\ session[s].kind = CLIENT /\ Running(s) /\ session[s].link = "none" /\ Openable # {}
  /\ session' = [session EXCEPT ![s].member = Lowest, ![s].link = "up"]
  /\ Opens(s)
  /\ UNCHANGED <<maps, pc, call, history, crashed>>

\* It fails: most paths reset the member, those after connect() do not.
ClientConnectFails(s) ==
  /\ Alive /\ session[s].kind = CLIENT /\ Running(s) /\ session[s].link = "none"
  /\ \/ session' = [session EXCEPT ![s].member = -1]
     \/ Openable # {} /\ session' = [session EXCEPT ![s].member = Lowest]
  /\ holders' = holders \ {s}
  /\ UNCHANGED <<maps, owner, pc, call, history, strayed, crashed>>

\* epoll_wait() fails and the thread ends, or a send() of the client fails, and any
\* later one: closed is what the member names, which may be another session's by now.
WorkerCloses(s) ==
  /\ Alive /\ Running(s)
  /\ IF session[s].kind = CLIENT THEN session[s].link # "none" ELSE session[s].link # "lost"
  /\ Closes(s)
  /\ session' = [session EXCEPT ![s].link = "lost"]
  /\ UNCHANGED <<maps, pc, call, history, crashed>>

-------------------------------------------------------------------------------
(* stop() of a handler *)

\* Clear the flag; UDP and the client return when the member is NULL.  The
\* serial handler joins first.
StopEnters(c) ==
  /\ Alive /\ pc[c] = "stop" /\ Target(c).phase # "dead"
  /\ session' = [session EXCEPT ![call[c].target].running = @ /\ Target(c).kind = SERIAL]
  /\ IF Target(c).kind \in {UDP, CLIENT} /\ Target(c).member = 0
       THEN Leave(c)
       ELSE Goto(c, "join") /\ UNCHANGED call
  /\ UNCHANGED <<maps, owner, history, sockets, crashed>>

\* Mutant: stop() does not wait for the workers.
StopSkipsJoin(c) ==
  /\ Alive /\ pc[c] = "join" /\ Target(c).phase # "dead" /\ Target(c).kind = SERVER
  /\ Closes(call[c].target)
  /\ session' = [session EXCEPT ![call[c].target].running = FALSE, ![call[c].target].member = -1]
  /\ Leave(c)
  /\ UNCHANGED <<maps, history, crashed>>

\* The join loop ends only if there are no workers.  Then the socket is closed:
\* UDP leaves its number in the member, the server -1, the client NULL.
StopJoins(c) ==
  /\ Alive /\ pc[c] = "join" /\ Target(c).phase # "dead" /\ Target(c).gens = 0
  /\ LET s == call[c].target
         kind == Target(c).kind
         closes == kind # SERIAL /\ (kind = SERVER => Target(c).member # 0)
     IN  /\ IF closes THEN Closes(s) ELSE UNCHANGED <<owner, sockets>>
         /\ session' =
              [session EXCEPT ![s].running = FALSE,
                              ![s].member = CASE kind = SERVER /\ closes -> -1 [] kind = CLIENT -> 0
                                              [] OTHER -> @]
  /\ Leave(c)
  /\ UNCHANGED <<maps, history, crashed>>

-------------------------------------------------------------------------------
(* Through the maps one after the other; close() stops the sessions of each *)
(* and clears it                                                           *)

\* The range-for goes on from the node of the session just stopped.
Iterates(c) ==
  /\ Alive /\ pc[c] = "iterate" /\ call[c].k <= SERIAL
  /\ call[c].target # 0 => \E id \in Ids : maps[call[c].k][id] = call[c].target
  /\ LET here  == maps[call[c].k]
         after == {id \in Ids : here[id] # 0 /\ \A j \in Ids : here[j] # 0 /\ here[j] = call[c].target => j < id}
     IN  \/ /\ after # {}
            /\ LET id == CHOOSE id \in after : \A j \in after : id <= j
               IN  call' = [call EXCEPT ![c].target = here[id]]
            /\ Goto(c, IF call[c].op = "statuses" THEN "send" ELSE "stop")
         \/ /\ after = {} /\ call[c].op # "statuses"
            /\ Goto(c, "clear")
            /\ UNCHANGED call
         \/ /\ after = {} /\ call[c].op = "statuses" /\ call[c].k # SERIAL
            /\ call' = [call EXCEPT ![c].k = @ + 1, ![c].target = 0]
            /\ UNCHANGED pc
         \/ /\ after = {} /\ call[c].op = "statuses" /\ call[c].k = SERIAL
            /\ call' = [call EXCEPT ![c] = NoCall]
            /\ Goto(c, "idle")
  /\ UNCHANGED <<facade, history, sockets, crashed>>

\* map.clear(): a session another thread holds a copy of is not destroyed.
Clears(c) ==
  /\ Alive /\ pc[c] = "clear"
  /\ LET k == call[c].k
         held == {call[d].target : d \in {e \in Callers \ {c} : Held(e)}}
     IN  /\ maps' = [maps EXCEPT ![k] = [id \in Ids |-> 0]]
         /\ call' = [call EXCEPT ![c].dying = {maps[k][id] : id \in Ids} \ ({0} \cup held)]
  /\ Goto(c, "destroy")
  /\ UNCHANGED <<session, owner, history, sockets, crashed>>

\* The destructor closes the socket before it joins, the serial one joins first
\* and then closes its handle, which is 0.
DestroyBegins(c) ==
  /\ Alive /\ pc[c] = "destroy"
  /\ \E s \in call[c].dying :
       /\ call' = [call EXCEPT ![c].target = s]
       /\ session' = [session EXCEPT ![s].phase = "destroying", ![s].running = FALSE,
                                     ![s].member = IF @ \in Fds /\ session[s].kind # SERIAL THEN -1 ELSE @]
       /\ IF session[s].kind = SERIAL THEN UNCHANGED <<owner, sockets>> ELSE Closes(s)
  /\ Goto(c, "wait")
  /\ UNCHANGED <<maps, history, crashed>>
\* Mutant: the destructor detaches the workers.
DestroyDetaches(c) ==
  /\ Alive /\ pc[c] = "wait"
  /\ session' = [session EXCEPT ![call[c].target].phase = "dead"]
  /\ call' = [call EXCEPT ![c].dying = @ \ {call[c].target}]
  /\ Goto(c, "destroy")
  /\ UNCHANGED <<maps, owner, history, sockets, crashed>>

DestroyEnds(c) ==
  /\ Alive /\ pc[c] = "wait" /\ Target(c).gens = 0
  /\ session' = [session EXCEPT ![call[c].target].phase = "dead"]
  /\ IF Target(c).kind = SERIAL THEN Closes(call[c].target) ELSE UNCHANGED <<owner, sockets>>
  /\ call' = [call EXCEPT ![c].dying = @ \ {call[c].target}]
  /\ Goto(c, "destroy")
  /\ UNCHANGED <<maps, history, crashed>>

\* On to the next map, then to the rest of load(), close() or API_Destroy.
DestroyedAll(c) ==
  /\ Alive /\ pc[c] = "destroy" /\ call[c].dying = {}
  /\ \/ /\ call[c].k < SERIAL
        /\ call' = [call EXCEPT ![c].k = @ + 1, ![c].target = 0]
        /\ Goto(c, "iterate")
     \/ /\ call[c].k >= SERIAL /\ call[c].op = "load"
        /\ call' = [call EXCEPT ![c].k = 5]
        /\ Goto(c, "insert")
     \/ /\ call[c].k >= SERIAL /\ call[c].op # "load"
        /\ call' = [call EXCEPT ![c] = [NoCall EXCEPT !.op = IF call[c].op = "destroy" THEN "destroy" ELSE "none"]]
        /\ Goto(c, "idle")
  /\ UNCHANGED <<facade, history, sockets, crashed>>

-------------------------------------------------------------------------------
(* load(): a session for every entry, the first of an id wins *)

KindOf(type) == IF type \in 0..1 THEN UDP ELSE IF type \in SERVER..SERIAL THEN type ELSE 0

Inserts(c) ==
  /\ Alive /\ pc[c] = "insert" /\ call[c].next <= Len(call[c].infos)
  /\ LET info == call[c].infos[call[c].next]
         k    == KindOf(info.type)
         s    == Len(session) + 1
     IN  \/ /\ k # 0
            /\ \E left \in IF k = SERIAL THEN {0} ELSE Leftovers :
                 session' = Append(session, [kind |-> k, entry |-> call[c].next, load |-> loads,
                   phase |-> "alive", running |-> FALSE, gens |-> 0, member |-> left, link |-> "none",
                   starts |-> 0])
            /\ IF maps[k][info.id] = 0
                 THEN /\ maps' = [maps EXCEPT ![k][info.id] = s]
                      /\ call' = [call EXCEPT ![c].next = @ + 1]
                      /\ UNCHANGED pc
                 ELSE /\ call' = [call EXCEPT ![c].next = @ + 1, ![c].dying = {s}]
                      /\ Goto(c, "destroy")
                      /\ UNCHANGED maps
         \/ /\ k = 0
            /\ call' = [call EXCEPT ![c].next = @ + 1]
            /\ UNCHANGED <<maps, session, pc>>
  /\ UNCHANGED <<owner, history, sockets, crashed>>

LoadReturns(c) ==
  /\ Alive /\ pc[c] = "insert" /\ call[c].next > Len(call[c].infos)
  /\ call' = [call EXCEPT ![c] = NoCall]
  /\ Goto(c, "idle")
  /\ UNCHANGED <<facade, history, sockets, crashed>>

-------------------------------------------------------------------------------
(* What threads of the application that share the object run into *)

Dies(how) == crashed' = how /\ UNCHANGED <<facade, pc, call, history, sockets>>

\* start(), stop() and write() use the session through the map's iterator.
UsesFreed(c) ==
  /\ Alive /\ pc[c] \in {"start", "spawn", "stop", "join", "send"} /\ Target(c).phase = "dead"
  /\ Dies("freed_session")

\* close() goes on from a node that another close() has freed.
IteratesDangling(c) ==
  /\ Alive /\ pc[c] = "iterate" /\ call[c].target # 0
  /\ \A id \in Ids : maps[call[c].k][id] # call[c].target
  /\ Dies("dangling")

\* One thread changes a map while another one is in it.
Changes(c) ==
  CASE pc[c] \in {"clear", "destroy", "wait"} -> {call[c].k} \cap Kinds
    [] pc[c] = "insert" -> Kinds
    [] OTHER -> {}
Visits(c) ==
  CASE pc[c] = "find" -> call[c].k..SERIAL
    [] pc[c] = "iterate" -> {call[c].k} \cap Kinds
    [] OTHER -> Changes(c)
MapRace(c, d) ==
  /\ Alive /\ c # d /\ Changes(c) \cap Visits(d) # {}
  /\ Dies("map_race")

\* API_Destroy deletes the object under a call of another thread.
UsesDeleted(c, d) ==
  /\ Alive /\ call[d].op = "destroy" /\ pc[d] = "idle" /\ pc[c] # "idle" /\ ~Waiting(c)
  /\ Dies("freed_instance")

-------------------------------------------------------------------------------
Calls(c) ==
  \/ \E op \in {"start", "stop", "restart", "use"}, id \in Ids : CallById(c, op, id)
  \/ CallStatuses(c) \/ \E op \in {"close", "destroy"} : CallClose(c, op)
  \/ \E infos \in Configs : CallLoad(c, infos)
Proceeds(c) ==
  \/ Finds(c) \/ Sends(c)
  \/ StartRefused(c) \/ StartFails(c) \/ StartOpens(c) \/ StartSpawns(c) \/ StartClient(c)
  \/ StopEnters(c) \/ StopJoins(c)
  \/ Iterates(c) \/ Clears(c) \/ DestroyBegins(c) \/ DestroyEnds(c) \/ DestroyedAll(c)
  \/ Inserts(c) \/ LoadReturns(c)
  \/ UsesFreed(c) \/ IteratesDangling(c)
Worker(s) == ClientConnects(s) \/ ClientConnectFails(s) \/ WorkerCloses(s)

Next ==
  \/ \E c \in Callers : Calls(c) \/ Proceeds(c)
  \/ \E c, d \in Callers : MapRace(c, d) \/ UsesDeleted(c, d)
  \/ \E s \in Sessions : Worker(s)

\* A thread in a call goes on with it; nothing makes it begin one.
Fairness == \A c \in Callers : WF_vars(Proceeds(c))

Spec == Init /\ [][Next]_vars
FairSpec == Spec /\ Fairness

-------------------------------------------------------------------------------
(* Properties *)

\* A handler's memory is given up only when it has no threads: destructors join,
\* also when close() got past a stop() that returned early, when start() came in
\* between stop() and clear(), and for the second entry of an id.  And a handler
\* whose only start() failed and left its socket open takes it along.
NothingOutlivesItsHandler ==
  \A s \in Sessions : session[s].phase = "dead" =>
    /\ ~Running(s)
    /\ ~overlapped /\ session[s].starts <= 1 => \A f \in Fds : owner[f] # s

\* No step takes a socket away from a session whose workers use it: as long as every
\* close() was of a socket its handler had opened and not closed (strayed: of what the
\* constructor left in the member, of what a failed start(), a lost connection or UDP's
\* stop() goes on naming, or of descriptor 0), the number that a session with workers
\* got from its last socket() is open and its own, however stop() and the destructors
\* of all the sessions wait, close and join.
HasSocket(s) == session[s].phase = "alive" /\ Running(s) /\ session[s].link = "up"
SocketsAreOwn ==
  ~strayed /\ ~overlapped =>
    \A s \in Sessions : HasSocket(s) => session[s].member \in Fds /\ owner[session[s].member] = s

\* Called by one thread at a time, the facade does not bring the process down, and
\* outside load() and close() its maps hold the sessions of the last load() and no
\* others, the first of every id and kind.
Entries(k, id) == {i \in DOMAIN config : KindOf(config[i].type) = k /\ config[i].id = id}
MapsAsConfigured ==
  \A k \in Kinds, id \in Ids :
    IF Entries(k, id) = {} THEN maps[k][id] = 0
    ELSE /\ maps[k][id] # 0
         /\ session[maps[k][id]].load = loads
         /\ session[maps[k][id]].entry \in Entries(k, id)
         /\ \A i \in Entries(k, id) : session[maps[k][id]].entry <= i
ConfiguredUnlessOverlapped ==
  ~overlapped =>
    /\ Alive
    /\ (\A c \in Callers : pc[c] # "idle" => call[c].op \notin {"load", "close", "destroy"})
         => MapsAsConfigured

===============================================================================
