----------------------------- MODULE AsyncKJWProofs -----------------------------
(***************************************************************************)
(* Theorems about AsyncKJW for every value of its constants: any number of *)
(* calling threads, ids, configurations, sessions and descriptors.         *)
(*                                                                         *)
(* In every history what a call does fits where it is (Control), a map     *)
(* holds only sessions that are alive and that no call destroys            *)
(* (MapsHoldLiving), and a destructor that has ended has joined its        *)
(* workers (Workers).                                                      *)
(*                                                                         *)
(* As long as no call began while another went on (~overlapped), one call  *)
(* at most makes progress, as the others wait in a stop() (OneBusy), and   *)
(* its session is in the map it is in (AtHome); Configured follows close() *)
(* and load() through the maps they have emptied (Emptied) and the entries *)
(* they have inserted (Filled).                                            *)
(*                                                                         *)
(* As long as no handler closed a number that was no socket of its own     *)
(* (~strayed), each session that opened one and has not closed it has it   *)
(* (Own).                                                                  *)
(***************************************************************************)
EXTENDS AsyncKJW, QueueLemmas, WellFoundedInduction

\* Where a call can be, by what it was called for.
Entered(c) ==
  /\ pc[c] \in {"find", "start", "spawn"} =>
       call[c].op \in {"start", "stop", "restart", "use"} /\ call[c].id \in Ids
  /\ pc[c] \in {"stop", "join"} =>
       \/ call[c].op \in {"close", "load", "destroy"}
       \/ call[c].op \in {"stop", "restart"} /\ call[c].id \in Ids
  /\ pc[c] = "send" => call[c].op = "statuses" \/ (call[c].op = "use" /\ call[c].id \in Ids)
  /\ pc[c] = "iterate" => call[c].op \in {"statuses", "close", "load", "destroy"}
  /\ pc[c] \in {"clear", "destroy", "wait", "insert"} => call[c].op \in {"close", "load", "destroy"}
  /\ pc[c] \in {"start", "spawn", "stop", "join", "send", "iterate", "clear"} => call[c].k \in Kinds
  /\ pc[c] = "insert" => call[c].k = 5
  /\ pc[c] \in {"insert", "destroy", "wait"} /\ call[c].k = 5 => call[c].op = "load"
  /\ call[c].op = "load" => call[c].next >= 1
  /\ pc[c] = "wait" => call[c].target \in call[c].dying
  /\ pc[c] \notin {"destroy", "wait"} => call[c].dying = {}
Control == \A c \in Callers : Entered(c)

\* What a map holds is alive, and nobody is destroying it.
MapsHoldLiving ==
  \A k \in Kinds, id \in Ids : maps[k][id] # 0 =>
    /\ session[maps[k][id]].kind = k /\ session[maps[k][id]].phase = "alive"
    /\ \A c \in Callers : maps[k][id] \notin call[c].dying

\* A serial handler never gets workers; a destructor that has ended has joined them.
Workers ==
  /\ \A s \in Sessions : session[s].phase = "dead" \/ session[s].kind = SERIAL => session[s].gens = 0
  /\ \A c \in Callers : pc[c] = "spawn" => Target(c).kind \in {UDP, SERVER}

-------------------------------------------------------------------------------
\* The rest holds as long as no call has begun while another one was going on.

\* All calls but one are in a stop() that never returns.
Busy(c) == pc[c] # "idle" /\ ~Waiting(c)
OneBusy ==
  /\ \A c, d \in Callers : Busy(c) /\ Busy(d) => c = d
  /\ \A c, d \in Callers : call[c].op = "destroy" /\ Busy(d) => c = d

\* The session that a call is at is in the map that it is in, or being destroyed.
InMap(c) == call[c].target # 0 /\ \E id \in Ids : maps[call[c].k][id] = call[c].target
AtHome ==
  \A c \in Callers :
    /\ Busy(c) /\ pc[c] \in {"start", "spawn", "stop", "join", "send"} => InMap(c)
    /\ pc[c] = "iterate" /\ call[c].target # 0 => InMap(c)
    /\ pc[c] = "wait" => Target(c).phase = "destroying"

\* Descriptors of a session without workers.
Unused(s) ==
  session[s].gens = 0 /\ session[s].starts <= 1 =>
    \A f \in Fds : owner[f] = s =>
      /\ session[s].member = f /\ session[s].phase = "alive" /\ session[s].kind # SERIAL
      /\ session[s].starts = 1
Unstarted == \A s \in Sessions : Unused(s)

\* As long as no handler has closed a number that was no socket of its own, a session
\* that opened one and has not closed it has it, and one with workers and a socket is
\* such a session.
Holds(s) ==
  /\ s \in holders => session[s].member \in Fds /\ owner[session[s].member] = s
  /\ session[s].kind = CLIENT /\ session[s].link = "up" => session[s].gens > 0
  /\ HasSocket(s) => s \in holders
Handles(c) == pc[c] = "spawn" /\ Target(c).link = "up" => call[c].target \in holders
Own ==
  /\ \A s \in Sessions : Holds(s)
  /\ \A c \in Callers : Handles(c)

\* close() empties one map after the other, load() then takes one entry after the other.
Changing(c) == pc[c] # "idle" /\ call[c].op \in {"load", "close", "destroy"}
Emptied(n) == \A k \in Kinds, id \in Ids : k <= n => maps[k][id] = 0
Filled(n) ==
  \A k \in Kinds, id \in Ids :
    LET E == {i \in Entries(k, id) : i < n} IN
    IF E = {} THEN maps[k][id] = 0
    ELSE /\ maps[k][id] # 0 /\ session[maps[k][id]].load = loads
         /\ session[maps[k][id]].entry \in E /\ \A i \in E : session[maps[k][id]].entry <= i
Progress(c) ==
  /\ config = IF call[c].op = "load" THEN call[c].infos ELSE <<>>
  /\ pc[c] \in {"iterate", "stop", "join", "clear"} => Emptied(call[c].k - 1)
  /\ pc[c] \in {"destroy", "wait"} /\ call[c].k # 5 => Emptied(call[c].k)
  /\ IF pc[c] = "insert" \/ call[c].k = 5 THEN Filled(call[c].next)
     ELSE call[c].op = "load" => call[c].next = 1
Configured ==
  /\ (\A c \in Callers : ~Changing(c)) => MapsAsConfigured
  /\ \A c \in Callers : Changing(c) /\ Busy(c) /\ (\A d \in Callers : Changing(d) => d = c) => Progress(c)

IInv ==
  /\ TypeOK /\ Control /\ MapsHoldLiving /\ Workers
  /\ ~overlapped => Alive /\ OneBusy /\ AtHome /\ Unstarted /\ Configured
  /\ ~overlapped /\ ~strayed => Own

-------------------------------------------------------------------------------
(* Tables *)

LEMMA Bounds ==
  /\ MaxFd \in Nat /\ MaxFd > 0 /\ MaxCalls \in Nat /\ Ids \subseteq Nat
  /\ Kinds = 1..4 /\ UDP = 1 /\ SERVER = 2 /\ CLIENT = 3 /\ SERIAL = 4
  /\ Fds = 0..MaxFd /\ Free = 0 /\ Foreign = -1 /\ Leftovers \subseteq Fds \cup {-1}
BY BoundsAssumption, IdsAssumption
   DEF Kinds, UDP, SERVER, CLIENT, SERIAL, Fds, Free, Foreign

LEMMA SmallestOf ==
  ASSUME NEW S, S \subseteq Nat, S # {}
  PROVE  \E x \in S : \A y \in S : x <= y
<1>1. PICK x \in S : \A y \in S : <<y, x>> \notin OpToRel(<, Nat)
  BY WFMin, NatLessThanWellFounded, Zenon
<1>2. \A y \in S : ~(y < x) BY <1>1, Zenon DEF OpToRel
<1> QED BY <1>2

\* What an assignment to one session leaves of the others.
LEMMA Updated ==
  ASSUME NEW q \in Seq(SessionRecord), NEW s \in DOMAIN q, NEW r \in SessionRecord
  PROVE  /\ [q EXCEPT ![s] = r] \in Seq(SessionRecord)
         /\ Len([q EXCEPT ![s] = r]) = Len(q) /\ DOMAIN [q EXCEPT ![s] = r] = DOMAIN q
         /\ [q EXCEPT ![s] = r][s] = r
         /\ \A t \in DOMAIN q : t # s => [q EXCEPT ![s] = r][t] = q[t]
OBVIOUS

LEMMA RecordTypes ==
  ASSUME NEW q \in SessionRecord, NEW m \in Fds \cup {-1}, NEW b \in BOOLEAN, NEW n \in Nat,
         NEW l \in {"none", "up", "lost"}, NEW p \in {"alive", "destroying", "dead"}
  PROVE  /\ [q EXCEPT !.member = m, !.starts = n] \in SessionRecord
         /\ [q EXCEPT !.member = m, !.running = b, !.starts = n] \in SessionRecord
         /\ [q EXCEPT !.member = m, !.running = b, !.link = l, !.starts = n] \in SessionRecord
         /\ [q EXCEPT !.running = b, !.gens = n] \in SessionRecord
         /\ [q EXCEPT !.running = b, !.member = m] \in SessionRecord
         /\ [q EXCEPT !.member = m, !.link = l] \in SessionRecord
         /\ [q EXCEPT !.phase = p, !.running = b, !.member = m] \in SessionRecord
BY DEF SessionRecord

LEMMA RecordTypes1 ==
  ASSUME NEW q \in SessionRecord, NEW m \in Fds \cup {-1}, NEW b \in BOOLEAN, NEW n \in Nat,
         NEW l \in {"none", "up", "lost"}, NEW p \in {"alive", "destroying", "dead"}
  PROVE  /\ [q EXCEPT !.gens = n] \in SessionRecord
         /\ [q EXCEPT !.member = m] \in SessionRecord
         /\ [q EXCEPT !.link = l] \in SessionRecord
         /\ [q EXCEPT !.running = b] \in SessionRecord
         /\ [q EXCEPT !.phase = p] \in SessionRecord
         /\ q.starts + 1 \in Nat /\ q.gens + 1 \in Nat /\ q.gens \in Nat /\ q.starts \in Nat
         /\ q.member \in Fds \cup {-1} /\ q.kind \in Kinds
BY DEF SessionRecord

\* One session is changed, and of it what a handler's functions change.
Becomes(s, phase, gens, member, link, starts) ==
  /\ s \in Sessions /\ session' \in Seq(SessionRecord)
  /\ Len(session') = Len(session) /\ DOMAIN session' = DOMAIN session
  /\ session'[s].kind = session[s].kind /\ session'[s].entry = session[s].entry
  /\ session'[s].load = session[s].load
  /\ session'[s].phase = phase /\ session'[s].gens = gens /\ session'[s].member = member
  /\ session'[s].link = link /\ session'[s].starts = starts
  /\ \A t \in Sessions : t # s => session'[t] = session[t]

LEMMA BecomesBy ==
  ASSUME TypeOK, NEW s \in Sessions, NEW r \in SessionRecord, session' = [session EXCEPT ![s] = r],
         r.kind = session[s].kind, r.entry = session[s].entry, r.load = session[s].load
  PROVE  Becomes(s, r.phase, r.gens, r.member, r.link, r.starts)
<1>1. session \in Seq(SessionRecord) /\ s \in DOMAIN session BY DEF TypeOK, TableType, Sessions
<1> QED BY <1>1, Updated DEF Becomes, Sessions

LEMMA TargetFacts ==
  ASSUME TypeOK, NEW c \in Callers, pc[c] \in {"start", "spawn", "stop", "join", "send", "wait"}
  PROVE  call[c].target \in Sessions /\ Target(c) \in SessionRecord
<1>1. call[c].target \in 1..Len(session) /\ Len(session) \in Nat BY DEF TypeOK, CallType, TableType
<1>2. DOMAIN session = 1..Len(session) BY DEF TypeOK, TableType
<1> QED BY <1>1, <1>2, ElementType DEF Sessions, Target, TypeOK, TableType

LEMMA LowestFacts ==
  ASSUME Openable # {}
  PROVE  Lowest \in Fds /\ owner[Lowest] = Free
<1>1. Openable \subseteq Nat BY Bounds DEF Openable
<1>2. PICK f \in Openable : \A g \in Openable : f <= g BY <1>1, SmallestOf
<1>3. Lowest \in Openable BY <1>2 DEF Lowest
<1> QED BY <1>3 DEF Openable

\* What a failed start() leaves of the link of a handler.
Broken(link) == IF link = "up" THEN "none" ELSE link

LEMMA StartFailsFacts ==
  ASSUME TypeOK, NEW c \in Callers, StartFails(c)
  PROVE  LET s == call[c].target
             q == session[s]
             Fails(m) == Becomes(s, q.phase, q.gens, m, Broken(q.link), q.starts + 1)
         IN  /\ q.kind \in {UDP, SERVER} /\ q.phase # "dead"
             /\ \/ Fails(-1) /\ holders' = holders \ {s} /\ UNCHANGED <<owner, strayed>>
                \/ Fails(Lowest) /\ holders' = holders \ {s} /\ UNCHANGED <<owner, strayed>>
                \/ Fails(Lowest) /\ Openable # {} /\ Opens(s)
<1> DEFINE s == call[c].target
           q == session[s]
<1>1. s \in Sessions /\ q \in SessionRecord /\ q.kind \in {UDP, SERVER} /\ q.phase # "dead"
  BY TargetFacts DEF StartFails, Target, Startable
<1>2. PICK n \in Nat : n = q.starts + 1 BY <1>1, RecordTypes1
<1>3. PICK l \in {"none", "up", "lost"} : l = Broken(q.link) BY <1>1 DEF SessionRecord, Broken
<1> DEFINE Fails(m) == Becomes(s, q.phase, q.gens, m, Broken(q.link), q.starts + 1)
<1>4. ASSUME NEW m \in Fds \cup {-1}, NEW b \in BOOLEAN,
             session' = [session EXCEPT ![s].member = m, ![s].running = b,
                           ![s].link = IF @ = "up" THEN "none" ELSE @, ![s].starts = @ + 1]
      PROVE  Fails(m)
  <2> DEFINE r == [q EXCEPT !.member = m, !.running = b, !.link = l, !.starts = n]
  <2>1. session' = [session EXCEPT ![s] = r] BY <1>2, <1>3, <1>4 DEF Broken
  <2>2. r \in SessionRecord BY <1>1, RecordTypes
  <2>3. /\ r.kind = q.kind /\ r.entry = q.entry /\ r.load = q.load /\ r.phase = q.phase
        /\ r.gens = q.gens /\ r.member = m /\ r.link = l /\ r.starts = n
    BY <1>1 DEF SessionRecord
  <2> HIDE DEF r
  <2>4. Becomes(s, r.phase, r.gens, r.member, r.link, r.starts) BY <1>1, <2>1, <2>2, <2>3, BecomesBy
  <2> QED BY <1>2, <1>3, <2>3, <2>4
<1> HIDE DEF Fails
<1>5. Openable # {} => Lowest \in Fds \cup {-1} BY LowestFacts
<1>6. \/ Fails(-1) /\ holders' = holders \ {s} /\ UNCHANGED <<owner, strayed>>
      \/ Fails(Lowest) /\ holders' = holders \ {s} /\ UNCHANGED <<owner, strayed>>
      \/ Fails(Lowest) /\ Openable # {} /\ Opens(s)
  BY <1>4, <1>5 DEF StartFails
<1> QED BY <1>1, <1>6 DEF Fails

LEMMA StartOpensFacts ==
  ASSUME TypeOK, NEW c \in Callers, StartOpens(c)
  PROVE  LET s == call[c].target
             q == session[s]
         IN  /\ q.kind \in {UDP, SERVER} /\ q.phase # "dead" /\ Openable # {}
             /\ Becomes(s, q.phase, q.gens, Lowest, "up", q.starts + 1)
             /\ Opens(s)
<1> DEFINE s == call[c].target
           q == session[s]
<1>1. s \in Sessions /\ q \in SessionRecord /\ q.kind \in {UDP, SERVER} /\ q.phase # "dead"
  BY TargetFacts DEF StartOpens, Target, Startable
<1>2. PICK n \in Nat : n = q.starts + 1 BY <1>1, RecordTypes1
<1>3. PICK m \in Fds : m = Lowest BY LowestFacts DEF StartOpens
<1> DEFINE r == [q EXCEPT !.member = m, !.running = TRUE, !.link = "up", !.starts = n]
<1>4. session' = [session EXCEPT ![s] = r] BY <1>2, <1>3 DEF StartOpens
<1>5. r \in SessionRecord BY <1>1, RecordTypes
<1>6. /\ r.kind = q.kind /\ r.entry = q.entry /\ r.load = q.load /\ r.phase = q.phase
      /\ r.gens = q.gens /\ r.member = m /\ r.link = "up" /\ r.starts = n
  BY <1>1 DEF SessionRecord
<1> HIDE DEF r
<1>7. Becomes(s, r.phase, r.gens, r.member, r.link, r.starts) BY <1>1, <1>4, <1>5, <1>6, BecomesBy
<1>8. Becomes(s, q.phase, q.gens, Lowest, "up", q.starts + 1) BY <1>2, <1>3, <1>6, <1>7
<1> QED BY <1>1, <1>8 DEF StartOpens

\* A handler gets workers.
LEMMA SpawnFacts ==
  ASSUME TypeOK, NEW c \in Callers, StartSpawns(c) \/ StartClient(c)
  PROVE  LET s == call[c].target
             q == session[s]
         IN  /\ q.phase # "dead" /\ Becomes(s, q.phase, q.gens + 1, q.member, q.link, q.starts)
             /\ StartClient(c) => q.kind = CLIENT
             /\ UNCHANGED <<owner, sockets>>
<1> DEFINE s == call[c].target
           q == session[s]
<1>1. /\ s \in Sessions /\ q \in SessionRecord /\ q.phase # "dead"
      /\ StartClient(c) => q.kind = CLIENT
  BY TargetFacts DEF StartSpawns, StartClient, Target
<1>2. PICK n \in Nat : n = q.gens + 1 BY <1>1, RecordTypes1
<1>3. ASSUME NEW r \in SessionRecord, session' = [session EXCEPT ![s] = r],
             r.kind = q.kind, r.entry = q.entry, r.load = q.load, r.phase = q.phase,
             r.gens = n, r.member = q.member, r.link = q.link, r.starts = q.starts
      PROVE  Becomes(s, q.phase, q.gens + 1, q.member, q.link, q.starts)
  <2>1. Becomes(s, r.phase, r.gens, r.member, r.link, r.starts) BY <1>1, <1>3, BecomesBy
  <2> QED BY <1>2, <1>3, <2>1
<1>4. CASE StartSpawns(c)
  <2> DEFINE r == [q EXCEPT !.gens = n]
  <2>1. session' = [session EXCEPT ![s] = r] BY <1>2, <1>4 DEF StartSpawns
  <2>2. r \in SessionRecord BY <1>1, RecordTypes1
  <2>3. /\ r.kind = q.kind /\ r.entry = q.entry /\ r.load = q.load /\ r.phase = q.phase
        /\ r.gens = n /\ r.member = q.member /\ r.link = q.link /\ r.starts = q.starts
    BY <1>1 DEF SessionRecord
  <2> HIDE DEF r
  <2>4. Becomes(s, q.phase, q.gens + 1, q.member, q.link, q.starts) BY <1>3, <2>1, <2>2, <2>3
  <2> QED BY <1>1, <1>4, <2>4 DEF StartSpawns
<1>5. CASE StartClient(c)
  <2> DEFINE r == [q EXCEPT !.running = TRUE, !.gens = n]
  <2>1. session' = [session EXCEPT ![s] = r] BY <1>2, <1>5 DEF StartClient
  <2>2. r \in SessionRecord BY <1>1, RecordTypes
  <2>3. /\ r.kind = q.kind /\ r.entry = q.entry /\ r.load = q.load /\ r.phase = q.phase
        /\ r.gens = n /\ r.member = q.member /\ r.link = q.link /\ r.starts = q.starts
    BY <1>1 DEF SessionRecord
  <2> HIDE DEF r
  <2>4. Becomes(s, q.phase, q.gens + 1, q.member, q.link, q.starts) BY <1>3, <2>1, <2>2, <2>3
  <2> QED BY <1>1, <1>5, <2>4 DEF StartClient
<1> QED BY <1>4, <1>5

\* close() of what a member names: the number is free, whoever had it.
Frees(m) == owner' = IF m \in Fds THEN [owner EXCEPT ![m] = Free] ELSE owner
LEMMA ClosesFrees == \A s \in Sessions : Closes(s) => Frees(session[s].member)
BY DEF Closes, Closed, Frees

\* What the workers do.
LEMMA WorkerFacts ==
  ASSUME TypeOK, NEW s \in Sessions, Worker(s)
  PROVE  LET q == session[s]
             Gets(m, l) == Becomes(s, q.phase, q.gens, m, l, q.starts)
         IN  /\ q.gens > 0
             /\ \/ q.kind = CLIENT /\ Gets(Lowest, "up") /\ Openable # {} /\ Opens(s)
                \/ /\ q.kind = CLIENT /\ q.link = "none" /\ (\E m : Gets(m, q.link))
                   /\ holders' = holders \ {s} /\ UNCHANGED <<owner, strayed>>
                \/ Gets(q.member, "lost") /\ Closes(s)
             /\ UNCHANGED <<maps, pc, call, history, crashed>>
<1> DEFINE q == session[s]
           Gets(m, l) == Becomes(s, q.phase, q.gens, m, l, q.starts)
<1>1. q \in SessionRecord
  <2>1. session \in Seq(SessionRecord) /\ s \in 1..Len(session) BY DEF TypeOK, TableType, Sessions
  <2> QED BY <2>1, ElementType
<1>2. ASSUME NEW r \in SessionRecord, session' = [session EXCEPT ![s] = r], r.kind = q.kind,
             r.entry = q.entry, r.load = q.load, r.phase = q.phase, r.gens = q.gens, r.starts = q.starts
      PROVE  Gets(r.member, r.link)
  <2>1. Becomes(s, r.phase, r.gens, r.member, r.link, r.starts) BY <1>2, BecomesBy
  <2> QED BY <1>2, <2>1
<1> HIDE DEF Gets
<1>3. CASE ClientConnects(s)
  <2>1. PICK m \in Fds : m = Lowest BY <1>3, LowestFacts DEF ClientConnects
  <2> DEFINE r == [q EXCEPT !.member = m, !.link = "up"]
  <2>2. session' = [session EXCEPT ![s] = r] BY <1>3, <2>1 DEF ClientConnects
  <2>3. r \in SessionRecord BY <1>1, RecordTypes
  <2>4. /\ r.kind = q.kind /\ r.entry = q.entry /\ r.load = q.load /\ r.phase = q.phase
        /\ r.gens = q.gens /\ r.member = m /\ r.link = "up" /\ r.starts = q.starts
    BY <1>1 DEF SessionRecord
  <2> HIDE DEF r
  <2>5. Gets(Lowest, "up") BY <1>2, <2>1, <2>2, <2>3, <2>4
  <2> QED BY <1>3, <2>5 DEF ClientConnects, Running, Gets
<1>4. CASE ClientConnectFails(s)
  <2>1. ASSUME NEW m \in Fds \cup {-1}, session' = [session EXCEPT ![s].member = m] PROVE Gets(m, q.link)
    <3> DEFINE r == [q EXCEPT !.member = m]
    <3>1. session' = [session EXCEPT ![s] = r] BY <2>1
    <3>2. r \in SessionRecord BY <1>1, RecordTypes1
    <3>3. /\ r.kind = q.kind /\ r.entry = q.entry /\ r.load = q.load /\ r.phase = q.phase
          /\ r.gens = q.gens /\ r.member = m /\ r.link = q.link /\ r.starts = q.starts
      BY <1>1 DEF SessionRecord
    <3> HIDE DEF r
    <3> QED BY <1>2, <3>1, <3>2, <3>3
  <2>2. \E m : Gets(m, q.link) BY <1>4, <2>1, LowestFacts DEF ClientConnectFails
  <2> QED BY <1>4, <2>2 DEF ClientConnectFails, Running, Gets
<1>5. CASE WorkerCloses(s)
  <2> DEFINE r == [q EXCEPT !.link = "lost"]
  <2>1. session' = [session EXCEPT ![s] = r] BY <1>5 DEF WorkerCloses
  <2>2. r \in SessionRecord BY <1>1, RecordTypes1
  <2>3. /\ r.kind = q.kind /\ r.entry = q.entry /\ r.load = q.load /\ r.phase = q.phase
        /\ r.gens = q.gens /\ r.member = q.member /\ r.link = "lost" /\ r.starts = q.starts
    BY <1>1 DEF SessionRecord
  <2> HIDE DEF r
  <2>4. Gets(q.member, "lost") BY <1>2, <2>1, <2>2, <2>3
  <2> QED BY <1>5, <2>4 DEF WorkerCloses, Running, Gets
<1> QED BY <1>3, <1>4, <1>5 DEF Worker, Gets

LEMMA StopEntersFacts ==
  ASSUME TypeOK, NEW c \in Callers, StopEnters(c)
  PROVE  LET s == call[c].target
             q == session[s]
         IN  q.phase # "dead" /\ Becomes(s, q.phase, q.gens, q.member, q.link, q.starts)
<1> DEFINE s == call[c].target
           q == session[s]
<1>1. s \in Sessions /\ q \in SessionRecord /\ q.phase # "dead" BY TargetFacts DEF StopEnters, Target
<1>2. PICK b \in BOOLEAN : b = (q.running /\ q.kind = SERIAL) BY <1>1 DEF SessionRecord
<1> DEFINE r == [q EXCEPT !.running = b]
<1>3. session' = [session EXCEPT ![s] = r] BY <1>2 DEF StopEnters, Target
<1>4. r \in SessionRecord BY <1>1, RecordTypes1
<1>5. /\ r.kind = q.kind /\ r.entry = q.entry /\ r.load = q.load /\ r.phase = q.phase
      /\ r.gens = q.gens /\ r.member = q.member /\ r.link = q.link /\ r.starts = q.starts
  BY <1>1 DEF SessionRecord
<1> HIDE DEF r
<1>6. Becomes(s, r.phase, r.gens, r.member, r.link, r.starts) BY <1>1, <1>3, <1>4, <1>5, BecomesBy
<1> QED BY <1>1, <1>5, <1>6

\* stop() that gets past its joins: what each kind does with the socket.
LEMMA StopJoinsFacts ==
  ASSUME TypeOK, NEW c \in Callers, StopJoins(c)
  PROVE  LET s == call[c].target
             q == session[s]
             Leaves(m) == Becomes(s, q.phase, q.gens, m, q.link, q.starts)
         IN  /\ q.phase # "dead" /\ q.gens = 0
             /\ \/ \E m : Leaves(m) /\ Closes(s)
                \/ /\ q.kind = SERIAL \/ (q.kind = SERVER /\ q.member = 0)
                   /\ Leaves(q.member) /\ UNCHANGED <<owner, sockets>>
<1> DEFINE s == call[c].target
           q == session[s]
           Leaves(m) == Becomes(s, q.phase, q.gens, m, q.link, q.starts)
<1>1. s \in Sessions /\ q \in SessionRecord /\ q.phase # "dead" /\ q.gens = 0
  BY TargetFacts DEF StopJoins, Target
<1>2. q.kind \in Kinds /\ q.member \in Fds \cup {-1} BY <1>1, RecordTypes1
<1>3. ASSUME NEW m \in Fds \cup {-1}, session' = [session EXCEPT ![s].running = FALSE, ![s].member = m]
      PROVE  Leaves(m)
  <2> DEFINE r == [q EXCEPT !.running = FALSE, !.member = m]
  <2>1. session' = [session EXCEPT ![s] = r] BY <1>3
  <2>2. r \in SessionRecord BY <1>1, RecordTypes
  <2>3. /\ r.kind = q.kind /\ r.entry = q.entry /\ r.load = q.load /\ r.phase = q.phase
        /\ r.gens = q.gens /\ r.member = m /\ r.link = q.link /\ r.starts = q.starts
    BY <1>1 DEF SessionRecord
  <2> HIDE DEF r
  <2>4. Becomes(s, r.phase, r.gens, r.member, r.link, r.starts) BY <1>1, <2>1, <2>2, <2>3, BecomesBy
  <2> QED BY <2>3, <2>4
<1> HIDE DEF Leaves
<1>4. CASE q.kind = UDP
  <2>1. session' = [session EXCEPT ![s].running = FALSE, ![s].member = q.member]
    BY <1>4, Bounds DEF StopJoins, Target
  <2>2. Leaves(q.member) BY <1>2, <1>3, <2>1
  <2> QED BY <1>1, <1>4, <2>2, Bounds DEF StopJoins, Target, Leaves
<1>5. CASE q.kind = SERVER /\ q.member # 0
  <2>1. session' = [session EXCEPT ![s].running = FALSE, ![s].member = -1]
    <3>1. session' = [session EXCEPT ![s].running = FALSE,
                        ![s].member = CASE q.kind = SERVER /\ (q.kind # SERIAL /\ (q.kind = SERVER => q.member # 0)) -> -1
                                        [] q.kind = CLIENT -> 0 [] OTHER -> @]
      BY Zenon DEF StopJoins, Target
    <3>2. q.kind = SERVER /\ q.kind # SERIAL /\ q.kind # CLIENT /\ q.member # 0 BY <1>5, Bounds
    <3> QED BY <3>1, <3>2
  <2>2. Leaves(-1) BY <1>3, <2>1
  <2> QED BY <1>1, <1>2, <1>5, <2>2, Bounds DEF StopJoins, Target, Leaves
<1>6. CASE q.kind = CLIENT
  <2>1. session' = [session EXCEPT ![s].running = FALSE, ![s].member = 0]
    BY <1>6, Bounds DEF StopJoins, Target
  <2>2. 0 \in Fds BY Bounds
  <2>3. Leaves(0) BY <1>3, <2>1, <2>2
  <2> QED BY <1>1, <1>2, <1>6, <2>3, Bounds DEF StopJoins, Target, Leaves
<1>7. CASE q.kind = SERIAL \/ (q.kind = SERVER /\ q.member = 0)
  <2>1. session' = [session EXCEPT ![s].running = FALSE, ![s].member = q.member]
    <3>1. session' = [session EXCEPT ![s].running = FALSE,
                        ![s].member = CASE q.kind = SERVER /\ (q.kind # SERIAL /\ (q.kind = SERVER => q.member # 0)) -> -1
                                        [] q.kind = CLIENT -> 0 [] OTHER -> @]
      BY Zenon DEF StopJoins, Target
    <3>2. ~(q.kind = SERVER /\ (q.kind # SERIAL /\ (q.kind = SERVER => q.member # 0))) /\ q.kind # CLIENT
      BY <1>7, Bounds
    <3> QED BY <3>1, <3>2
  <2>2. Leaves(q.member) BY <1>2, <1>3, <2>1
  <2> QED BY <1>1, <1>2, <1>7, <2>2, Bounds DEF StopJoins, Target, Leaves
<1> QED BY <1>2, <1>4, <1>5, <1>6, <1>7, Bounds

\* The destructor, up to its joins and after them.
LEMMA DestroyBeginsFacts ==
  ASSUME TypeOK, NEW c \in Callers, DestroyBegins(c)
  PROVE  \E s \in call[c].dying :
           LET q == session[s]
               m == IF q.member \in Fds /\ q.kind # SERIAL THEN -1 ELSE q.member
           IN  /\ call' = [call EXCEPT ![c].target = s]
               /\ Becomes(s, "destroying", q.gens, m, q.link, q.starts)
               /\ IF q.kind = SERIAL THEN UNCHANGED <<owner, sockets>> ELSE Closes(s)
<1> USE DEF DestroyBegins
<1>1. PICK s \in call[c].dying :
        /\ call' = [call EXCEPT ![c].target = s]
        /\ session' = [session EXCEPT ![s].phase = "destroying", ![s].running = FALSE,
                         ![s].member = IF @ \in Fds /\ session[s].kind # SERIAL THEN -1 ELSE @]
        /\ IF session[s].kind = SERIAL THEN UNCHANGED <<owner, sockets>> ELSE Closes(s)
  OBVIOUS
<1> DEFINE q == session[s]
<1>2. s \in Sessions /\ q \in SessionRecord
  <2>1. s \in DOMAIN session /\ session \in Seq(SessionRecord) BY DEF TypeOK, CallType, TableType, Sessions
  <2> QED BY <2>1, ElementType DEF Sessions
<1>3. PICK m \in Fds \cup {-1} : m = IF q.member \in Fds /\ q.kind # SERIAL THEN -1 ELSE q.member
  BY <1>2, RecordTypes1
<1> DEFINE r == [q EXCEPT !.phase = "destroying", !.running = FALSE, !.member = m]
<1>4. session' = [session EXCEPT ![s] = r] BY <1>1, <1>3
<1>5. r \in SessionRecord BY <1>2, RecordTypes
<1>6. /\ r.kind = q.kind /\ r.entry = q.entry /\ r.load = q.load /\ r.phase = "destroying"
      /\ r.gens = q.gens /\ r.member = m /\ r.link = q.link /\ r.starts = q.starts
  BY <1>2 DEF SessionRecord
<1> HIDE DEF r
<1>7. Becomes(s, r.phase, r.gens, r.member, r.link, r.starts) BY <1>2, <1>4, <1>5, <1>6, BecomesBy
<1>8. Becomes(s, "destroying", q.gens, m, q.link, q.starts) BY <1>6, <1>7
<1> QED BY <1>1, <1>3, <1>8

LEMMA DestroyEndsFacts ==
  ASSUME TypeOK, NEW c \in Callers, DestroyEnds(c)
  PROVE  LET s == call[c].target
             q == session[s]
         IN  /\ q.gens = 0 /\ Becomes(s, "dead", q.gens, q.member, q.link, q.starts)
             /\ IF q.kind = SERIAL THEN Closes(s) ELSE UNCHANGED <<owner, sockets>>
<1> DEFINE s == call[c].target
           q == session[s]
<1>1. s \in Sessions /\ q \in SessionRecord /\ q.gens = 0 BY TargetFacts DEF DestroyEnds, Target
<1> DEFINE r == [q EXCEPT !.phase = "dead"]
<1>2. session' = [session EXCEPT ![s] = r] BY DEF DestroyEnds
<1>3. r \in SessionRecord BY <1>1, RecordTypes1
<1>4. /\ r.kind = q.kind /\ r.entry = q.entry /\ r.load = q.load /\ r.phase = "dead"
      /\ r.gens = q.gens /\ r.member = q.member /\ r.link = q.link /\ r.starts = q.starts
  BY <1>1 DEF SessionRecord
<1> HIDE DEF r
<1>5. Becomes(s, r.phase, r.gens, r.member, r.link, r.starts) BY <1>1, <1>2, <1>3, <1>4, BecomesBy
<1>6. Becomes(s, "dead", q.gens, q.member, q.link, q.starts) BY <1>4, <1>5
<1> QED BY <1>1, <1>6 DEF DestroyEnds, Target

-------------------------------------------------------------------------------
(* Threads: the steps of a call *)

\* One thread goes on to another place of its call.
Turns(c, where, op, id, k, target, dying, infos, next) ==
  /\ pc' \in [Callers -> PCs] /\ call' \in [Callers -> CallRecord]
  /\ pc'[c] = where /\ call'[c].op = op /\ call'[c].id = id /\ call'[c].k = k
  /\ call'[c].target = target /\ call'[c].dying = dying /\ call'[c].infos = infos
  /\ call'[c].next = next
  /\ \A d \in Callers : d # c => pc'[d] = pc[d] /\ call'[d] = call[d]
GoesOn(c, where, k, target, dying, next) ==
  Turns(c, where, call[c].op, call[c].id, k, target, dying, call[c].infos, next)
Returns(c, op) == Turns(c, "idle", op, -1, 1, 0, {}, <<>>, 0)

LEMMA TurnsBy ==
  ASSUME TypeOK, NEW c \in Callers, NEW r \in CallRecord, NEW where \in PCs,
         call' = [call EXCEPT ![c] = r], pc' = [pc EXCEPT ![c] = where]
  PROVE  Turns(c, where, r.op, r.id, r.k, r.target, r.dying, r.infos, r.next)
BY DEF TypeOK, CallType, Turns

LEMMA CallRecordTypes ==
  ASSUME NEW q \in CallRecord, NEW k \in 1..5, NEW t \in Nat, NEW s \in SUBSET Nat, NEW n \in Nat
  PROVE  /\ [q EXCEPT !.k = k] \in CallRecord /\ [q EXCEPT !.target = t] \in CallRecord
         /\ [q EXCEPT !.dying = s] \in CallRecord /\ [q EXCEPT !.next = n] \in CallRecord
         /\ [q EXCEPT !.k = k, !.target = t] \in CallRecord
         /\ [q EXCEPT !.next = n, !.dying = s] \in CallRecord
         /\ [q EXCEPT !.op = "start", !.k = 1] \in CallRecord
<1>1. [q EXCEPT !.k = k] \in CallRecord BY DEF CallRecord
<1>2. [q EXCEPT !.target = t] \in CallRecord BY DEF CallRecord
<1>3. [q EXCEPT !.dying = s] \in CallRecord BY DEF CallRecord
<1>4. [q EXCEPT !.next = n] \in CallRecord BY DEF CallRecord
<1>5. [q EXCEPT !.k = k, !.target = t] \in CallRecord BY DEF CallRecord
<1>6. [q EXCEPT !.next = n, !.dying = s] \in CallRecord BY DEF CallRecord
<1>7. [q EXCEPT !.op = "start", !.k = 1] \in CallRecord
  <2>1. [q EXCEPT !.op = "start"] \in CallRecord BY DEF CallRecord
  <2>2. 1 \in 1..5 OBVIOUS
  <2>3. [q EXCEPT !.op = "start", !.k = 1] = [[q EXCEPT !.op = "start"] EXCEPT !.k = 1] OBVIOUS
  <2>4. \A p \in CallRecord : \A j \in 1..5 : [p EXCEPT !.k = j] \in CallRecord BY DEF CallRecord
  <2> QED BY <2>1, <2>2, <2>3, <2>4
<1> QED BY <1>1, <1>2, <1>3, <1>4, <1>5, <1>6, <1>7

LEMMA CallParts ==
  ASSUME TypeOK, NEW c \in Callers
  PROVE  /\ call[c] \in CallRecord /\ pc[c] \in PCs
         /\ call[c].k \in 1..5 /\ call[c].id \in Ids \cup {-1} /\ call[c].next \in Nat
         /\ call[c].target \in 0..Len(session) /\ call[c].dying \subseteq Sessions
         /\ call[c].infos \in Seq([id : Ids, type : Int])
BY DEF TypeOK, CallType, CallRecord

LEMMA NoCallType ==
  ASSUME NEW op \in {"none", "start", "stop", "restart", "use", "statuses", "close", "load", "destroy"},
         NEW id \in Ids \cup {-1}, NEW infos \in Seq([id : Ids, type : Int])
  PROVE  /\ NoCall \in CallRecord /\ [NoCall EXCEPT !.op = op] \in CallRecord
         /\ [NoCall EXCEPT !.op = op, !.id = id] \in CallRecord
         /\ [NoCall EXCEPT !.op = op, !.infos = infos, !.next = 1] \in CallRecord
<1>1. <<>> \in Seq([id : Ids, type : Int]) OBVIOUS
<1>2. ASSUME NEW o \in {"none", "start", "stop", "restart", "use", "statuses", "close", "load", "destroy"},
             NEW i \in Ids \cup {-1}, NEW f \in Seq([id : Ids, type : Int]), NEW n \in Nat
      PROVE  [op |-> o, id |-> i, k |-> 1, target |-> 0, dying |-> {}, infos |-> f, next |-> n] \in CallRecord
  BY DEF CallRecord
<1>3. NoCall \in CallRecord BY <1>1, <1>2 DEF NoCall
<1>4. \A p \in CallRecord : [p EXCEPT !.op = op] \in CallRecord BY DEF CallRecord
<1>5. \A p \in CallRecord : [p EXCEPT !.op = op, !.id = id] \in CallRecord BY DEF CallRecord
<1>6. \A p \in CallRecord : [p EXCEPT !.op = op, !.infos = infos, !.next = 1] \in CallRecord BY DEF CallRecord
<1> QED BY <1>3, <1>4, <1>5, <1>6

\* A thread that goes from one place to another and leaves its call as it is.
LEMMA SameCall ==
  ASSUME TypeOK, NEW c \in Callers, NEW where \in PCs, call' = call, pc' = [pc EXCEPT ![c] = where]
  PROVE  GoesOn(c, where, call[c].k, call[c].target, call[c].dying, call[c].next)
<1>1. call[c] \in CallRecord BY CallParts
<1>2. call' = [call EXCEPT ![c] = call[c]] BY DEF TypeOK, CallType
<1> QED BY <1>1, <1>2, TurnsBy DEF GoesOn

LEMMA Nothing == <<>> \in Seq([id : Ids, type : Int]) /\ -1 \in Ids \cup {-1}
OBVIOUS

LEMMA NoCallParts ==
  /\ NoCall \in CallRecord /\ NoCall.op = "none" /\ NoCall.id = -1 /\ NoCall.k = 1
  /\ NoCall.target = 0 /\ NoCall.dying = {} /\ NoCall.infos = <<>> /\ NoCall.next = 0
<1>1. NoCall \in CallRecord BY NoCallType, Nothing
<1> QED BY <1>1 DEF NoCall

LEMMA BeginTurns ==
  ASSUME TypeOK, NEW c \in Callers
  PROVE  /\ \A op \in {"start", "stop", "restart", "use"}, id \in Ids :
              CallById(c, op, id) => Turns(c, "find", op, id, 1, 0, {}, <<>>, 0)
         /\ CallStatuses(c) => Turns(c, "iterate", "statuses", -1, 1, 0, {}, <<>>, 0)
         /\ \A op \in {"close", "destroy"} :
              CallClose(c, op) => Turns(c, "iterate", op, -1, 1, 0, {}, <<>>, 0)
         /\ \A infos \in Configs :
              CallLoad(c, infos) => Turns(c, "iterate", "load", -1, 1, 0, {}, infos, 1)
<1>1. ASSUME NEW op \in {"start", "stop", "restart", "use"}, NEW id \in Ids, CallById(c, op, id)
      PROVE  Turns(c, "find", op, id, 1, 0, {}, <<>>, 0)
  <2> DEFINE r == [NoCall EXCEPT !.op = op, !.id = id]
  <2>1. r \in CallRecord BY NoCallType, Nothing
  <2>2. /\ r.op = op /\ r.id = id /\ r.k = 1 /\ r.target = 0 /\ r.dying = {} /\ r.infos = <<>>
        /\ r.next = 0
    BY NoCallParts DEF CallRecord
  <2>3. call' = [call EXCEPT ![c] = r] /\ pc' = [pc EXCEPT ![c] = "find"]
    BY <1>1 DEF CallById, Begin, Goto
  <2> HIDE DEF r
  <2>4. Turns(c, "find", r.op, r.id, r.k, r.target, r.dying, r.infos, r.next)
    BY <2>1, <2>3, TurnsBy DEF PCs
  <2> QED BY <2>2, <2>4
<1>2. ASSUME NEW op \in {"statuses", "close", "destroy"},
             call' = [call EXCEPT ![c] = [NoCall EXCEPT !.op = op]],
             pc' = [pc EXCEPT ![c] = "iterate"]
      PROVE  Turns(c, "iterate", op, -1, 1, 0, {}, <<>>, 0)
  <2> DEFINE r == [NoCall EXCEPT !.op = op]
  <2>1. r \in CallRecord BY NoCallType, Nothing
  <2>2. /\ r.op = op /\ r.id = -1 /\ r.k = 1 /\ r.target = 0 /\ r.dying = {} /\ r.infos = <<>>
        /\ r.next = 0
    BY NoCallParts DEF CallRecord
  <2>3. call' = [call EXCEPT ![c] = r] /\ pc' = [pc EXCEPT ![c] = "iterate"] BY <1>2
  <2> HIDE DEF r
  <2>4. Turns(c, "iterate", r.op, r.id, r.k, r.target, r.dying, r.infos, r.next)
    BY <2>1, <2>3, TurnsBy DEF PCs
  <2> QED BY <2>2, <2>4
<1>3. ASSUME NEW infos \in Configs, CallLoad(c, infos)
      PROVE  Turns(c, "iterate", "load", -1, 1, 0, {}, infos, 1)
  <2> DEFINE r == [NoCall EXCEPT !.op = "load", !.infos = infos, !.next = 1]
  <2>1. r \in CallRecord
    <3>1. infos \in Seq([id : Ids, type : Int]) BY ConfigsAssumption
    <3> QED BY <3>1, NoCallType, Nothing
  <2>2. /\ r.op = "load" /\ r.id = -1 /\ r.k = 1 /\ r.target = 0 /\ r.dying = {} /\ r.infos = infos
        /\ r.next = 1
    BY NoCallParts DEF CallRecord
  <2>3. call' = [call EXCEPT ![c] = r] /\ pc' = [pc EXCEPT ![c] = "iterate"]
    BY <1>3 DEF CallLoad, Begin, Goto
  <2> HIDE DEF r
  <2>4. Turns(c, "iterate", r.op, r.id, r.k, r.target, r.dying, r.infos, r.next)
    BY <2>1, <2>3, TurnsBy DEF PCs
  <2> QED BY <2>2, <2>4
<1>4. CallStatuses(c) => Turns(c, "iterate", "statuses", -1, 1, 0, {}, <<>>, 0)
  BY <1>2 DEF CallStatuses, Begin, Goto
<1>5. ASSUME NEW op \in {"close", "destroy"}, CallClose(c, op)
      PROVE  Turns(c, "iterate", op, -1, 1, 0, {}, <<>>, 0)
  BY <1>2, <1>5 DEF CallClose, Begin, Goto
<1> QED BY <1>1, <1>3, <1>4, <1>5

\* A call that ends.
LEMMA ReturnsBy ==
  ASSUME TypeOK, NEW c \in Callers, NEW op \in {"none", "destroy"},
         call' = [call EXCEPT ![c] = [NoCall EXCEPT !.op = op]], pc' = [pc EXCEPT ![c] = "idle"]
  PROVE  Returns(c, op)
<1> DEFINE r == [NoCall EXCEPT !.op = op]
<1>1. r \in CallRecord BY NoCallType, Nothing
<1>2. /\ r.op = op /\ r.id = -1 /\ r.k = 1 /\ r.target = 0 /\ r.dying = {} /\ r.infos = <<>>
      /\ r.next = 0
  BY NoCallParts DEF CallRecord
<1> HIDE DEF r
<1>3. Turns(c, "idle", r.op, r.id, r.k, r.target, r.dying, r.infos, r.next)
  BY <1>1, TurnsBy DEF PCs, r
<1> QED BY <1>2, <1>3 DEF Returns

LEMMA FindsTurns ==
  ASSUME TypeOK, Control, NEW c \in Callers, Finds(c)
  PROVE  LET q == call[c] IN
         /\ pc[c] = "find" /\ q.dying = {} /\ q.id \in Ids
         /\ q.op \in {"start", "stop", "restart", "use"}
         /\ \/ \E k \in Kinds :
                 /\ k >= q.k /\ maps[k][q.id] # 0
                 /\ GoesOn(c, CASE q.op = "start" -> "start" [] q.op = "use" -> "send" [] OTHER -> "stop",
                           k, maps[k][q.id], {}, q.next)
            \/ q.op = "restart" /\ Turns(c, "find", "start", q.id, 1, q.target, {}, q.infos, q.next)
            \/ Returns(c, "none")
<1> DEFINE q == call[c]
           hits == {k \in q.k..SERIAL : maps[k][q.id] # 0}
           where == CASE q.op = "start" -> "start" [] q.op = "use" -> "send" [] OTHER -> "stop"
<1>1. /\ q \in CallRecord /\ q.k \in 1..5 /\ q.target \in Nat /\ q.next \in Nat
      /\ Len(session) \in Nat
  BY CallParts DEF TypeOK, TableType
<1>2. /\ pc[c] = "find" /\ q.dying = {} /\ q.id \in Ids
      /\ q.op \in {"start", "stop", "restart", "use"}
  BY DEF Finds, Control, Entered
<1>3. \/ hits # {} /\ (LET k == CHOOSE k \in hits : \A j \in hits : k <= j IN
                         call' = [call EXCEPT ![c].k = k, ![c].target = maps[k][q.id]])
         /\ pc' = [pc EXCEPT ![c] = where]
      \/ q.op = "restart" /\ call' = [call EXCEPT ![c].op = "start", ![c].k = 1] /\ UNCHANGED pc
      \/ call' = [call EXCEPT ![c] = NoCall] /\ pc' = [pc EXCEPT ![c] = "idle"]
  BY Zenon DEF Finds, Goto
<1>4. CASE /\ hits # {}
           /\ LET k == CHOOSE k \in hits : \A j \in hits : k <= j IN
                call' = [call EXCEPT ![c].k = k, ![c].target = maps[k][q.id]]
           /\ pc' = [pc EXCEPT ![c] = where]
  <2> DEFINE k == CHOOSE k \in hits : \A j \in hits : k <= j
  <2>1. hits \subseteq Nat BY <1>1, Bounds
  <2>2. PICK i \in hits : \A j \in hits : i <= j BY <1>4, <2>1, SmallestOf
  <2>3. k \in hits BY <2>2
  <2>4. call' = [call EXCEPT ![c].k = k, ![c].target = maps[k][q.id]] BY <1>4
  <2> HIDE DEF k
  <2>5. k \in Kinds /\ k >= q.k /\ maps[k][q.id] # 0 BY <1>1, <2>3, Bounds
  <2>6. maps[k][q.id] \in 0..Len(session) BY <1>2, <2>5 DEF TypeOK, TableType
  <2>7. PICK t \in Nat : t = maps[k][q.id] BY <1>1, <2>6
  <2>8. k \in 1..5 BY <2>5, Bounds
  <2> DEFINE r == [q EXCEPT !.k = k, !.target = t]
  <2>9. r \in CallRecord BY <1>1, <2>7, <2>8, CallRecordTypes
  <2>10. /\ r.op = q.op /\ r.id = q.id /\ r.k = k /\ r.target = t /\ r.dying = q.dying
         /\ r.infos = q.infos /\ r.next = q.next
    BY <1>1 DEF CallRecord
  <2>11. call' = [call EXCEPT ![c] = r] BY <2>4, <2>7
  <2> HIDE DEF r
  <2>12. where \in PCs BY DEF PCs
  <2> HIDE DEF where
  <2>13. Turns(c, where, r.op, r.id, r.k, r.target, r.dying, r.infos, r.next)
    BY <1>4, <2>9, <2>11, <2>12, TurnsBy
  <2>14. GoesOn(c, where, k, maps[k][q.id], {}, q.next) BY <1>2, <2>7, <2>10, <2>13 DEF GoesOn
  <2> QED BY <1>2, <2>5, <2>14 DEF where
<1>5. CASE q.op = "restart" /\ call' = [call EXCEPT ![c].op = "start", ![c].k = 1] /\ UNCHANGED pc
  <2> DEFINE r == [q EXCEPT !.op = "start", !.k = 1]
  <2>1. r \in CallRecord
    <3>1. 1 \in 1..5 /\ 0 \in Nat /\ {} \in SUBSET Nat OBVIOUS
    <3> QED BY <1>1, <3>1, CallRecordTypes
  <2>2. /\ r.op = "start" /\ r.id = q.id /\ r.k = 1 /\ r.target = q.target /\ r.dying = q.dying
        /\ r.infos = q.infos /\ r.next = q.next
    BY <1>1 DEF CallRecord
  <2>3. call' = [call EXCEPT ![c] = r] BY <1>5
  <2>4. pc' = [pc EXCEPT ![c] = "find"] /\ "find" \in PCs BY <1>2, <1>5 DEF TypeOK, CallType, PCs
  <2> HIDE DEF r
  <2>5. Turns(c, "find", r.op, r.id, r.k, r.target, r.dying, r.infos, r.next)
    BY <2>1, <2>3, <2>4, TurnsBy
  <2> QED BY <1>2, <1>5, <2>2, <2>5
<1>6. CASE call' = [call EXCEPT ![c] = NoCall] /\ pc' = [pc EXCEPT ![c] = "idle"]
  <2>1. [NoCall EXCEPT !.op = "none"] = NoCall BY NoCallParts DEF CallRecord
  <2>2. Returns(c, "none") BY <1>6, <2>1, ReturnsBy
  <2> QED BY <1>2, <2>2
<1> QED BY <1>3, <1>4, <1>5, <1>6

\* A step of a call at a handler: the session is named, the call knows its map.
AtHandler(c) == pc[c] \in {"start", "spawn", "stop", "join", "send"}

LEMMA LeaveTurns ==
  ASSUME TypeOK, Control, NEW c \in Callers, AtHandler(c), Leave(c)
  PROVE  LET q == call[c] IN
         /\ Held(c) => GoesOn(c, "iterate", q.k, q.target, {}, q.next)
         /\ ~Held(c) => GoesOn(c, "find", q.k + 1, q.target, {}, q.next)
<1> DEFINE q == call[c]
<1>1. q \in CallRecord /\ q.k \in Kinds /\ q.dying = {}
  BY CallParts DEF Control, Entered, AtHandler
<1>2. PICK k \in 1..5 : k = IF Held(c) THEN q.k ELSE q.k + 1 BY <1>1, Bounds
<1>3. PICK where \in {"iterate", "find"} : where = IF Held(c) THEN "iterate" ELSE "find" OBVIOUS
<1> DEFINE r == [q EXCEPT !.k = k]
<1>4. call' = [call EXCEPT ![c] = r] /\ pc' = [pc EXCEPT ![c] = where] BY <1>2, <1>3 DEF Leave, Goto
<1>5. r \in CallRecord
  <2>1. 0 \in Nat /\ {} \in SUBSET Nat OBVIOUS
  <2> QED BY <1>1, <2>1, CallRecordTypes
<1>6. /\ r.op = q.op /\ r.id = q.id /\ r.k = k /\ r.target = q.target /\ r.dying = q.dying
      /\ r.infos = q.infos /\ r.next = q.next
  BY <1>1 DEF CallRecord
<1> HIDE DEF r
<1>7. Turns(c, where, r.op, r.id, r.k, r.target, r.dying, r.infos, r.next)
  BY <1>3, <1>4, <1>5, TurnsBy DEF PCs
<1> QED BY <1>1, <1>2, <1>3, <1>6, <1>7 DEF GoesOn

LEMMA IteratesTurns ==
  ASSUME TypeOK, Control, NEW c \in Callers, Iterates(c)
  PROVE  LET q == call[c] IN
         /\ pc[c] = "iterate" /\ q.dying = {} /\ q.k \in Kinds
         /\ \/ \E id \in Ids :
                 /\ maps[q.k][id] # 0
                 /\ GoesOn(c, IF q.op = "statuses" THEN "send" ELSE "stop", q.k, maps[q.k][id], {}, q.next)
            \/ q.op # "statuses" /\ GoesOn(c, "clear", q.k, q.target, {}, q.next)
            \/ q.op = "statuses" /\ Returns(c, "none")
            \/ q.op = "statuses" /\ q.k # SERIAL /\ GoesOn(c, "iterate", q.k + 1, 0, {}, q.next)
<1> DEFINE q == call[c]
           here == maps[q.k]
           after == {id \in Ids : here[id] # 0 /\ \A j \in Ids : here[j] # 0 /\ here[j] = q.target => j < id}
           where == IF q.op = "statuses" THEN "send" ELSE "stop"
<1>1. /\ q \in CallRecord /\ q.k \in 1..5 /\ q.target \in Nat /\ q.next \in Nat
      /\ Len(session) \in Nat
  BY CallParts DEF TypeOK, TableType
<1>2. pc[c] = "iterate" /\ q.dying = {} /\ q.k \in Kinds BY DEF Iterates, Control, Entered
<1>3. \/ /\ after # {}
         /\ LET id == CHOOSE id \in after : \A j \in after : id <= j
            IN  call' = [call EXCEPT ![c].target = here[id]]
         /\ pc' = [pc EXCEPT ![c] = where]
      \/ q.op # "statuses" /\ pc' = [pc EXCEPT ![c] = "clear"] /\ UNCHANGED call
      \/ q.op = "statuses" /\ q.k # SERIAL /\ call' = [call EXCEPT ![c].k = @ + 1, ![c].target = 0] /\ UNCHANGED pc
      \/ q.op = "statuses" /\ call' = [call EXCEPT ![c] = NoCall] /\ pc' = [pc EXCEPT ![c] = "idle"]
  BY Zenon DEF Iterates, Goto
<1>4. CASE /\ after # {}
           /\ LET id == CHOOSE id \in after : \A j \in after : id <= j
              IN  call' = [call EXCEPT ![c].target = here[id]]
           /\ pc' = [pc EXCEPT ![c] = where]
  <2> DEFINE id == CHOOSE id \in after : \A j \in after : id <= j
  <2>1. after \subseteq Nat BY Bounds
  <2>2. PICK i \in after : \A j \in after : i <= j BY <1>4, <2>1, SmallestOf
  <2>3. id \in after BY <2>2
  <2>4. call' = [call EXCEPT ![c].target = here[id]] BY <1>4
  <2> HIDE DEF id
  <2>5. id \in Ids /\ here[id] # 0 BY <2>3
  <2>6. here[id] \in 0..Len(session) BY <1>2, <2>5 DEF TypeOK, TableType
  <2>7. PICK t \in Nat : t = here[id] BY <1>1, <2>6
  <2> DEFINE r == [q EXCEPT !.target = t]
  <2>8. r \in CallRecord BY <1>1, <2>7 DEF CallRecord
  <2>9. /\ r.op = q.op /\ r.id = q.id /\ r.k = q.k /\ r.target = t /\ r.dying = q.dying
        /\ r.infos = q.infos /\ r.next = q.next
    BY <1>1 DEF CallRecord
  <2>10. call' = [call EXCEPT ![c] = r] BY <2>4, <2>7
  <2> HIDE DEF r
  <2>11. Turns(c, where, r.op, r.id, r.k, r.target, r.dying, r.infos, r.next)
    BY <1>4, <2>8, <2>10, TurnsBy DEF PCs
  <2> HIDE DEF where
  <2>12. GoesOn(c, where, q.k, here[id], {}, q.next) BY <1>2, <2>7, <2>9, <2>11 DEF GoesOn
  <2> QED BY <1>2, <2>5, <2>12 DEF where
<1>5. CASE q.op # "statuses" /\ pc' = [pc EXCEPT ![c] = "clear"] /\ UNCHANGED call
  <2>1. "clear" \in PCs BY DEF PCs
  <2>2. GoesOn(c, "clear", q.k, q.target, q.dying, q.next) BY <1>5, <2>1, SameCall
  <2> QED BY <1>2, <1>5, <2>2
<1>6. CASE q.op = "statuses" /\ call' = [call EXCEPT ![c] = NoCall] /\ pc' = [pc EXCEPT ![c] = "idle"]
  <2>1. [NoCall EXCEPT !.op = "none"] = NoCall BY NoCallParts DEF CallRecord
  <2>2. Returns(c, "none") BY <1>6, <2>1, ReturnsBy
  <2> QED BY <1>2, <1>6, <2>2
<1>7. CASE /\ q.op = "statuses" /\ q.k # SERIAL
           /\ call' = [call EXCEPT ![c].k = @ + 1, ![c].target = 0] /\ UNCHANGED pc
  <2>1. PICK k \in 1..5 : k = q.k + 1 BY <1>2, <1>7, Bounds
  <2> DEFINE r == [q EXCEPT !.k = k, !.target = 0]
  <2>2. r \in CallRecord BY <1>1, <2>1 DEF CallRecord
  <2>3. /\ r.op = q.op /\ r.id = q.id /\ r.k = k /\ r.target = 0 /\ r.dying = q.dying
        /\ r.infos = q.infos /\ r.next = q.next
    BY <1>1 DEF CallRecord
  <2>4. call' = [call EXCEPT ![c] = r] BY <1>7, <2>1
  <2>5. pc' = [pc EXCEPT ![c] = "iterate"] /\ "iterate" \in PCs
    BY <1>2, <1>7 DEF TypeOK, CallType, PCs
  <2> HIDE DEF r
  <2>6. Turns(c, "iterate", r.op, r.id, r.k, r.target, r.dying, r.infos, r.next)
    BY <2>2, <2>4, <2>5, TurnsBy
  <2> QED BY <1>2, <1>7, <2>1, <2>3, <2>6 DEF GoesOn
<1> QED BY <1>3, <1>4, <1>5, <1>6, <1>7

LEMMA ClearsTurns ==
  ASSUME TypeOK, Control, NEW c \in Callers, Clears(c)
  PROVE  LET q == call[c]
             dying == {maps[q.k][id] : id \in Ids} \ ({0} \cup {call[d].target : d \in {e \in Callers \ {c} : Held(e)}})
         IN  /\ pc[c] = "clear" /\ q.k \in Kinds /\ dying \subseteq Sessions
             /\ maps' = [maps EXCEPT ![q.k] = [id \in Ids |-> 0]]
             /\ GoesOn(c, "destroy", q.k, q.target, dying, q.next)
<1> DEFINE q == call[c]
           held == {call[d].target : d \in {e \in Callers \ {c} : Held(e)}}
           dying == {maps[q.k][id] : id \in Ids} \ ({0} \cup held)
<1>1. q \in CallRecord /\ Sessions = 1..Len(session) /\ Len(session) \in Nat
  BY CallParts DEF TypeOK, TableType, Sessions
<1>2. pc[c] = "clear" /\ q.k \in Kinds BY DEF Clears, Control, Entered
<1>3. \A id \in Ids : maps[q.k][id] \in 0..Len(session) BY <1>2 DEF TypeOK, TableType
<1>4. dying \subseteq Sessions BY <1>1, <1>3
<1>5. PICK s \in SUBSET Nat : s = dying
  <2>1. dying \subseteq Nat BY <1>1, <1>4
  <2> HIDE DEF dying
  <2> QED BY <2>1, Zenon
<1> DEFINE r == [q EXCEPT !.dying = s]
<1>6. call' = [call EXCEPT ![c].dying = dying] /\ maps' = [maps EXCEPT ![q.k] = [id \in Ids |-> 0]]
  BY Zenon DEF Clears
<1>7. call' = [call EXCEPT ![c] = r] BY <1>5, <1>6
<1>8. r \in CallRecord BY <1>1 DEF CallRecord
<1>9. /\ r.op = q.op /\ r.id = q.id /\ r.k = q.k /\ r.target = q.target /\ r.dying = s
      /\ r.infos = q.infos /\ r.next = q.next
  BY <1>1 DEF CallRecord
<1>10. pc' = [pc EXCEPT ![c] = "destroy"] /\ "destroy" \in PCs BY DEF Clears, Goto, PCs
<1> HIDE DEF r, dying, held
<1>11. Turns(c, "destroy", r.op, r.id, r.k, r.target, r.dying, r.infos, r.next)
  BY <1>7, <1>8, <1>10, TurnsBy
<1>12. GoesOn(c, "destroy", q.k, q.target, dying, q.next) BY <1>5, <1>9, <1>11 DEF GoesOn
<1> QED BY <1>2, <1>4, <1>6, <1>12 DEF dying, held

LEMMA DestroyBeginsTurns ==
  ASSUME TypeOK, NEW c \in Callers, DestroyBegins(c), NEW s \in call[c].dying,
         call' = [call EXCEPT ![c].target = s]
  PROVE  LET q == call[c] IN GoesOn(c, "wait", q.k, s, q.dying, q.next)
<1> DEFINE q == call[c]
           r == [q EXCEPT !.target = s]
<1>1. q \in CallRecord /\ s \in Nat BY CallParts DEF TypeOK, TableType, Sessions
<1>2. call' = [call EXCEPT ![c] = r] OBVIOUS
<1>3. r \in CallRecord BY <1>1 DEF CallRecord
<1>4. /\ r.op = q.op /\ r.id = q.id /\ r.k = q.k /\ r.target = s /\ r.dying = q.dying
      /\ r.infos = q.infos /\ r.next = q.next
  BY <1>1 DEF CallRecord
<1>5. pc' = [pc EXCEPT ![c] = "wait"] /\ "wait" \in PCs BY DEF DestroyBegins, Goto, PCs
<1> HIDE DEF r
<1>6. Turns(c, "wait", r.op, r.id, r.k, r.target, r.dying, r.infos, r.next)
  BY <1>2, <1>3, <1>5, TurnsBy
<1> QED BY <1>4, <1>6 DEF GoesOn

LEMMA DestroyEndsTurns ==
  ASSUME TypeOK, NEW c \in Callers, DestroyEnds(c)
  PROVE  LET q == call[c] IN
         pc[c] = "wait" /\ GoesOn(c, "destroy", q.k, q.target, q.dying \ {q.target}, q.next)
<1> DEFINE q == call[c]
<1>1. q \in CallRecord /\ q.dying \subseteq Nat BY CallParts DEF TypeOK, TableType, Sessions
<1>2. PICK s \in SUBSET Nat : s = q.dying \ {q.target} BY <1>1
<1> DEFINE r == [q EXCEPT !.dying = s]
<1>3. call' = [call EXCEPT ![c] = r] BY <1>2 DEF DestroyEnds
<1>4. r \in CallRecord BY <1>1 DEF CallRecord
<1>5. /\ r.op = q.op /\ r.id = q.id /\ r.k = q.k /\ r.target = q.target /\ r.dying = s
      /\ r.infos = q.infos /\ r.next = q.next
  BY <1>1 DEF CallRecord
<1>6. pc' = [pc EXCEPT ![c] = "destroy"] /\ "destroy" \in PCs BY DEF DestroyEnds, Goto, PCs
<1> HIDE DEF r
<1>7. Turns(c, "destroy", r.op, r.id, r.k, r.target, r.dying, r.infos, r.next)
  BY <1>3, <1>4, <1>6, TurnsBy
<1> QED BY <1>2, <1>5, <1>7 DEF GoesOn, DestroyEnds

LEMMA DestroyedAllTurns ==
  ASSUME TypeOK, Control, NEW c \in Callers, DestroyedAll(c)
  PROVE  LET q == call[c] IN
         /\ pc[c] = "destroy" /\ q.dying = {}
         /\ \/ q.k \in Kinds \ {SERIAL} /\ GoesOn(c, "iterate", q.k + 1, 0, {}, q.next)
            \/ q.k \in {4, 5} /\ q.op = "load" /\ GoesOn(c, "insert", 5, q.target, {}, q.next)
            \/ q.k = 4 /\ q.op = "close" /\ Returns(c, "none")
            \/ q.k = 4 /\ q.op = "destroy" /\ Returns(c, "destroy")
<1> DEFINE q == call[c]
<1>1. q \in CallRecord /\ q.k \in 1..5 BY CallParts
<1>2. /\ pc[c] = "destroy" /\ q.dying = {} /\ q.op \in {"close", "load", "destroy"}
      /\ q.k = 5 => q.op = "load"
  BY DEF DestroyedAll, Control, Entered
<1>3. CASE /\ q.k < SERIAL /\ call' = [call EXCEPT ![c].k = @ + 1, ![c].target = 0]
           /\ pc' = [pc EXCEPT ![c] = "iterate"]
  <2>1. q.k \in Kinds \ {SERIAL} BY <1>1, <1>3, Bounds
  <2>2. PICK k \in 1..5 : k = q.k + 1 BY <1>1, <1>3, Bounds
  <2> DEFINE r == [q EXCEPT !.k = k, !.target = 0]
  <2>3. r \in CallRecord BY <1>1, <2>2 DEF CallRecord
  <2>4. /\ r.op = q.op /\ r.id = q.id /\ r.k = k /\ r.target = 0 /\ r.dying = q.dying
        /\ r.infos = q.infos /\ r.next = q.next
    BY <1>1 DEF CallRecord
  <2>5. call' = [call EXCEPT ![c] = r] BY <1>3, <2>2
  <2> HIDE DEF r
  <2>6. Turns(c, "iterate", r.op, r.id, r.k, r.target, r.dying, r.infos, r.next)
    BY <1>3, <2>3, <2>5, TurnsBy DEF PCs
  <2> QED BY <1>2, <2>1, <2>2, <2>4, <2>6 DEF GoesOn
<1>4. CASE /\ q.k >= SERIAL /\ q.op = "load" /\ call' = [call EXCEPT ![c].k = 5]
           /\ pc' = [pc EXCEPT ![c] = "insert"]
  <2> DEFINE r == [q EXCEPT !.k = 5]
  <2>1. r \in CallRecord BY <1>1 DEF CallRecord
  <2>2. /\ r.op = q.op /\ r.id = q.id /\ r.k = 5 /\ r.target = q.target /\ r.dying = q.dying
        /\ r.infos = q.infos /\ r.next = q.next
    BY <1>1 DEF CallRecord
  <2>3. call' = [call EXCEPT ![c] = r] /\ q.k \in {4, 5} BY <1>1, <1>4, Bounds
  <2> HIDE DEF r
  <2>4. Turns(c, "insert", r.op, r.id, r.k, r.target, r.dying, r.infos, r.next)
    BY <1>4, <2>1, <2>3, TurnsBy DEF PCs
  <2> QED BY <1>2, <1>4, <2>2, <2>3, <2>4 DEF GoesOn
<1>5. CASE /\ q.k >= SERIAL /\ q.op # "load" /\ pc' = [pc EXCEPT ![c] = "idle"]
           /\ call' = [call EXCEPT ![c] = [NoCall EXCEPT !.op = IF q.op = "destroy" THEN "destroy" ELSE "none"]]
  <2>1. q.k = 4 /\ q.op \in {"close", "destroy"} BY <1>1, <1>2, <1>5, Bounds
  <2>2. PICK op \in {"none", "destroy"} : op = IF q.op = "destroy" THEN "destroy" ELSE "none" OBVIOUS
  <2>3. Returns(c, op) BY <1>5, <2>2, ReturnsBy
  <2> QED BY <1>2, <2>1, <2>2, <2>3
<1> QED BY <1>3, <1>4, <1>5 DEF DestroyedAll, Goto

LEMMA LoadReturnsTurns ==
  ASSUME TypeOK, NEW c \in Callers, LoadReturns(c)
  PROVE  Returns(c, "none")
<1>1. [NoCall EXCEPT !.op = "none"] = NoCall BY NoCallParts DEF CallRecord
<1> QED BY <1>1, ReturnsBy DEF LoadReturns, Goto

\* A session is constructed.
Constructed(k, left, entry) ==
  /\ session' \in Seq(SessionRecord) /\ Len(session') = Len(session) + 1
  /\ DOMAIN session' = Sessions \cup {Len(session) + 1}
  /\ session'[Len(session) + 1].kind = k /\ session'[Len(session) + 1].entry = entry
  /\ session'[Len(session) + 1].load = loads /\ session'[Len(session) + 1].phase = "alive"
  /\ session'[Len(session) + 1].gens = 0 /\ session'[Len(session) + 1].member = left
  /\ session'[Len(session) + 1].link = "none" /\ session'[Len(session) + 1].starts = 0
  /\ \A t \in Sessions : session'[t] = session[t]

LEMMA InsertsFacts ==
  ASSUME TypeOK, Control, NEW c \in Callers, Inserts(c)
  PROVE  LET q    == call[c]
             info == q.infos[q.next]
             k    == KindOf(info.type)
             s    == Len(session) + 1
         IN  /\ pc[c] = "insert" /\ q.dying = {} /\ q.next \in DOMAIN q.infos /\ info.id \in Ids
             /\ q.op = "load" /\ q.k = 5
             /\ \/ /\ k \in Kinds /\ (\E left \in Fds \cup {-1} : Constructed(k, left, q.next))
                   /\ maps[k][info.id] = 0 /\ maps' = [maps EXCEPT ![k][info.id] = s]
                   /\ GoesOn(c, "insert", 5, q.target, {}, q.next + 1)
                \/ /\ k \in Kinds /\ (\E left \in Fds \cup {-1} : Constructed(k, left, q.next))
                   /\ maps[k][info.id] # 0 /\ UNCHANGED maps
                   /\ GoesOn(c, "destroy", 5, q.target, {s}, q.next + 1)
                \/ /\ k = 0 /\ UNCHANGED <<maps, session>>
                   /\ GoesOn(c, "insert", 5, q.target, {}, q.next + 1)
<1> DEFINE q    == call[c]
           info == q.infos[q.next]
           k    == KindOf(info.type)
           s    == Len(session) + 1
<1>1. /\ q \in CallRecord /\ q.next \in Nat /\ q.infos \in Seq([id : Ids, type : Int])
      /\ session \in Seq(SessionRecord) /\ loads \in Nat
  BY CallParts DEF TypeOK, TableType, HistoryType
<1>2. pc[c] = "insert" /\ q.dying = {} /\ q.op = "load" /\ q.k = 5 /\ q.next >= 1
  <2>1. pc[c] = "insert" BY DEF Inserts
  <2>2. q.op \in {"close", "load", "destroy"} /\ q.k = 5 /\ (q.k = 5 => q.op = "load")
    BY <2>1 DEF Control, Entered
  <2> QED BY <2>1, <2>2 DEF Control, Entered
<1>3. q.next \in DOMAIN q.infos /\ q.next \in 1..Len(q.infos)
  <2>1. q.next <= Len(q.infos) BY Zenon DEF Inserts
  <2>2. Len(q.infos) \in Nat /\ DOMAIN q.infos = 1..Len(q.infos) BY <1>1
  <2> QED BY <1>1, <1>2, <2>1, <2>2
<1>4. info \in [id : Ids, type : Int] BY <1>1, <1>3, ElementType
<1>5. info.id \in Ids /\ info.type \in Int BY <1>4
<1>6. k = 0 \/ k \in Kinds BY <1>5, Bounds DEF KindOf
<1>7. PICK n \in Nat : n = q.next + 1 BY <1>1
<1>8. pc' = pc => pc' = [pc EXCEPT ![c] = "insert"] BY <1>2 DEF TypeOK, CallType
<1>9. ASSUME call' = [call EXCEPT ![c].next = q.next + 1], pc' = pc
      PROVE  GoesOn(c, "insert", 5, q.target, {}, q.next + 1)
  <2> DEFINE r == [q EXCEPT !.next = n]
  <2>1. r \in CallRecord BY <1>1 DEF CallRecord
  <2>2. /\ r.op = q.op /\ r.id = q.id /\ r.k = q.k /\ r.target = q.target /\ r.dying = q.dying
        /\ r.infos = q.infos /\ r.next = n
    BY <1>1 DEF CallRecord
  <2>3. call' = [call EXCEPT ![c] = r] BY <1>7, <1>9
  <2> HIDE DEF r
  <2>4. Turns(c, "insert", r.op, r.id, r.k, r.target, r.dying, r.infos, r.next)
    BY <1>8, <1>9, <2>1, <2>3, TurnsBy DEF PCs
  <2> QED BY <1>2, <1>7, <2>2, <2>4 DEF GoesOn
<1>10. ASSUME call' = [call EXCEPT ![c].next = q.next + 1, ![c].dying = {s}],
              pc' = [pc EXCEPT ![c] = "destroy"]
       PROVE  GoesOn(c, "destroy", 5, q.target, {s}, q.next + 1)
  <2>1. PICK e \in SUBSET Nat : e = {s}
    <3>1. {s} \subseteq Nat BY <1>1
    <3> QED BY <3>1, Zenon
  <2> DEFINE r == [q EXCEPT !.next = n, !.dying = e]
  <2>2. r \in CallRecord BY <1>1 DEF CallRecord
  <2>3. /\ r.op = q.op /\ r.id = q.id /\ r.k = q.k /\ r.target = q.target /\ r.dying = e
        /\ r.infos = q.infos /\ r.next = n
    BY <1>1 DEF CallRecord
  <2>4. call' = [call EXCEPT ![c] = r] BY <1>7, <1>10, <2>1
  <2> HIDE DEF r
  <2>5. Turns(c, "destroy", r.op, r.id, r.k, r.target, r.dying, r.infos, r.next)
    BY <1>10, <2>2, <2>4, TurnsBy DEF PCs
  <2> QED BY <1>2, <1>7, <2>1, <2>3, <2>5 DEF GoesOn
<1>11. ASSUME NEW left \in Fds \cup {-1}, k \in Kinds,
              session' = Append(session, [kind |-> k, entry |-> q.next, load |-> loads,
                phase |-> "alive", running |-> FALSE, gens |-> 0, member |-> left, link |-> "none",
                starts |-> 0])
       PROVE  Constructed(k, left, q.next)
  <2> DEFINE r == [kind |-> k, entry |-> q.next, load |-> loads, phase |-> "alive",
                   running |-> FALSE, gens |-> 0, member |-> left, link |-> "none", starts |-> 0]
  <2>1. r \in SessionRecord
    <3> HIDE DEF k
    <3> QED BY <1>1, <1>11 DEF SessionRecord
  <2>2. /\ r.kind = k /\ r.entry = q.next /\ r.load = loads /\ r.phase = "alive" /\ r.gens = 0
        /\ r.member = left /\ r.link = "none" /\ r.starts = 0
    OBVIOUS
  <2>3. session' = Append(session, r) BY <1>11
  <2> HIDE DEF r
  <2>4. /\ session' \in Seq(SessionRecord) /\ Len(session') = Len(session) + 1
        /\ DOMAIN session' = DOMAIN session \cup {Len(session) + 1}
        /\ session'[Len(session) + 1] = r
        /\ \A t \in DOMAIN session : session'[t] = session[t]
    BY <1>1, <2>1, <2>3
  <2> QED BY <2>2, <2>4 DEF Constructed, Sessions
<1>12. Leftovers \subseteq Fds \cup {-1} /\ 0 \in Fds BY Bounds
<1> HIDE DEF k
<1>13. \/ /\ k # 0 /\ (\E left \in Fds \cup {-1} : Constructed(k, left, q.next))
          /\ maps[k][info.id] = 0 /\ maps' = [maps EXCEPT ![k][info.id] = s]
          /\ call' = [call EXCEPT ![c].next = q.next + 1] /\ pc' = pc
       \/ /\ k # 0 /\ (\E left \in Fds \cup {-1} : Constructed(k, left, q.next))
          /\ maps[k][info.id] # 0 /\ UNCHANGED maps
          /\ call' = [call EXCEPT ![c].next = q.next + 1, ![c].dying = {s}]
          /\ pc' = [pc EXCEPT ![c] = "destroy"]
       \/ /\ k = 0 /\ UNCHANGED <<maps, session>>
          /\ call' = [call EXCEPT ![c].next = q.next + 1] /\ pc' = pc
  BY <1>6, <1>11, <1>12 DEF Inserts, Goto, k
<1> QED BY <1>2, <1>3, <1>5, <1>6, <1>9, <1>10, <1>13 DEF k

-------------------------------------------------------------------------------
(* Types and places *)

\* What a step leaves of the sessions there are.
Grows ==
  /\ session' \in Seq(SessionRecord) /\ Len(session') >= Len(session)
  /\ \A t \in Sessions :
       /\ t \in DOMAIN session' /\ session'[t].kind = session[t].kind
       /\ session'[t].entry = session[t].entry /\ session'[t].load = session[t].load
       /\ session'[t].gens >= session[t].gens

LEMMA SessionsGrow ==
  ASSUME TypeOK, Control, Next
  PROVE  Grows
<1>1. /\ session \in Seq(SessionRecord) /\ Len(session) \in Nat /\ DOMAIN session = Sessions
      /\ \A t \in Sessions : session[t] \in SessionRecord
  <2>1. session \in Seq(SessionRecord) BY DEF TypeOK, TableType
  <2> QED BY <2>1, ElementType DEF Sessions
<1>2. \A t \in Sessions : session[t].gens \in Nat BY <1>1, RecordTypes1
<1>3. CASE UNCHANGED session
  BY <1>1, <1>2, <1>3 DEF Grows
<1>4. ASSUME NEW s \in Sessions, NEW p, NEW g \in Nat, NEW m, NEW l, NEW n,
             Becomes(s, p, g, m, l, n), g >= session[s].gens
      PROVE  Grows
  BY <1>1, <1>2, <1>4 DEF Becomes, Grows
<1>5. ASSUME NEW c \in Callers, StartFails(c) PROVE Grows
  <2> DEFINE s == call[c].target
             q == session[s]
  <2>1. \E m, l, n : Becomes(s, q.phase, q.gens, m, l, n) BY <1>5, StartFailsFacts
  <2>2. s \in Sessions BY <2>1 DEF Becomes
  <2> QED BY <1>2, <1>4, <2>1, <2>2
<1>6. ASSUME NEW c \in Callers, StartOpens(c) PROVE Grows
  BY <1>1, <1>2, <1>4, <1>6, StartOpensFacts DEF Becomes
<1>7. ASSUME NEW c \in Callers, StartSpawns(c) \/ StartClient(c) PROVE Grows
  <2> DEFINE s == call[c].target
             q == session[s]
  <2>1. Becomes(s, q.phase, q.gens + 1, q.member, q.link, q.starts) BY <1>7, SpawnFacts
  <2>2. s \in Sessions /\ q.gens \in Nat BY <1>2, <2>1 DEF Becomes
  <2>3. q.gens + 1 \in Nat /\ q.gens + 1 >= q.gens BY <2>2
  <2> QED BY <1>4, <2>1, <2>2, <2>3
<1>8. ASSUME NEW c \in Callers, StopEnters(c) PROVE Grows
  BY <1>1, <1>2, <1>4, <1>8, StopEntersFacts DEF Becomes
<1>9. ASSUME NEW c \in Callers, StopJoins(c) PROVE Grows
  BY <1>1, <1>2, <1>4, <1>9, StopJoinsFacts DEF Becomes
<1>10. ASSUME NEW c \in Callers, DestroyBegins(c) PROVE Grows
  <2>1. PICK s \in call[c].dying :
          LET q == session[s]
              m == IF q.member \in Fds /\ q.kind # SERIAL THEN -1 ELSE q.member
          IN  Becomes(s, "destroying", q.gens, m, q.link, q.starts)
    BY <1>10, DestroyBeginsFacts
  <2>2. s \in Sessions BY <2>1 DEF Becomes
  <2> QED BY <1>2, <1>4, <2>1, <2>2
<1>11. ASSUME NEW c \in Callers, DestroyEnds(c) PROVE Grows
  BY <1>1, <1>2, <1>4, <1>11, DestroyEndsFacts DEF Becomes
<1>12. ASSUME NEW c \in Callers, Inserts(c) PROVE Grows
  <2>1. \/ UNCHANGED session
        \/ \E k \in Kinds, left \in Fds \cup {-1} : Constructed(k, left, call[c].next)
    BY <1>12, InsertsFacts
  <2> QED BY <1>1, <1>2, <1>3, <2>1 DEF Constructed, Grows
<1>13. ASSUME NEW s \in Sessions, Worker(s) PROVE Grows
  <2>1. \E m, l : Becomes(s, session[s].phase, session[s].gens, m, l, session[s].starts)
    BY <1>13, WorkerFacts
  <2> QED BY <1>2, <1>4, <2>1
<1>14. ASSUME NEW c \in Callers, Calls(c) PROVE Grows
  BY <1>3, <1>14 DEF Calls, CallById, CallStatuses, CallClose, CallLoad, Begin, facade
<1>15. ASSUME NEW c \in Callers,
              \/ Finds(c) \/ Sends(c) \/ StartRefused(c) \/ Iterates(c) \/ Clears(c) \/ DestroyedAll(c)
              \/ LoadReturns(c) \/ UsesFreed(c) \/ IteratesDangling(c)
       PROVE  Grows
  BY <1>3, <1>15 DEF Finds, Sends, StartRefused, Iterates, Clears, DestroyedAll, LoadReturns,
     UsesFreed, IteratesDangling, Dies, facade
<1>16. ASSUME NEW c \in Callers, NEW d \in Callers, MapRace(c, d) \/ UsesDeleted(c, d) PROVE Grows
  BY <1>3, <1>16 DEF MapRace, UsesDeleted, Dies, facade
<1> QED BY <1>5, <1>6, <1>7, <1>8, <1>9, <1>10, <1>11, <1>12, <1>13, <1>14, <1>15, <1>16
        DEF Next, Proceeds

LEMMA SessionsAre ==
  ASSUME TypeOK
  PROVE  /\ Len(session) \in Nat /\ Sessions = 1..Len(session) /\ session \in Seq(SessionRecord)
         /\ \A t \in Sessions : session[t] \in SessionRecord /\ session[t].gens \in Nat
<1>1. session \in Seq(SessionRecord) BY DEF TypeOK, TableType
<1>2. Len(session) \in Nat /\ Sessions = 1..Len(session) BY <1>1 DEF Sessions
<1>3. \A t \in Sessions : session[t] \in SessionRecord BY <1>1, <1>2, ElementType
<1> QED BY <1>1, <1>2, <1>3, RecordTypes1

LEMMA GrowsParts ==
  ASSUME TypeOK, Grows
  PROVE  /\ Len(session') \in Nat /\ Len(session') >= Len(session) /\ Sessions' = 1..Len(session')
         /\ Sessions \subseteq Sessions'
         /\ \A t \in Sessions' : session'[t] \in SessionRecord
<1>1. session' \in Seq(SessionRecord) BY DEF Grows
<1>2. Len(session') \in Nat /\ Sessions' = 1..Len(session') BY <1>1 DEF Sessions
<1>3. \A t \in Sessions' : session'[t] \in SessionRecord BY <1>1, <1>2, ElementType
<1>4. Len(session') >= Len(session) BY DEF Grows
<1> QED BY <1>2, <1>3, <1>4, SessionsAre

\* A step of one thread that keeps its call well-formed keeps all of them.
LEMMA TurnKeeps ==
  ASSUME TypeOK, Control, Grows, NEW c \in Callers,
         pc' \in [Callers -> PCs], call' \in [Callers -> CallRecord],
         \A d \in Callers : d # c => pc'[d] = pc[d] /\ call'[d] = call[d],
         call'[c].target \in 0..Len(session'), call'[c].dying \subseteq Sessions', Entered(c)',
         pc'[c] \in {"start", "spawn", "stop", "join", "send", "wait"} => call'[c].target # 0
  PROVE  CallType' /\ Control'
<1>1. ASSUME NEW d \in Callers, d # c
      PROVE  /\ call'[d].target \in 0..Len(session') /\ call'[d].dying \subseteq Sessions'
             /\ pc'[d] \in {"start", "spawn", "stop", "join", "send", "wait"} => call'[d].target # 0
             /\ Entered(d)'
  <2>1. pc'[d] = pc[d] /\ call'[d] = call[d] BY <1>1
  <2>2. call[d].target \in 0..Len(session) /\ call[d].dying \subseteq Sessions
    BY DEF TypeOK, CallType
  <2>3. call[d].target \in 0..Len(session') BY <2>2, SessionsAre, GrowsParts
  <2>4. call[d].dying \subseteq Sessions' BY <2>2, GrowsParts
  <2>5. pc[d] \in {"start", "spawn", "stop", "join", "send", "wait"} => call[d].target # 0
    BY DEF TypeOK, CallType
  <2>6. Entered(d)' BY <2>1 DEF Control, Entered
  <2> QED BY <2>1, <2>3, <2>4, <2>5, <2>6
<1>2. CallType' BY <1>1 DEF CallType
<1>3. Control' BY <1>1 DEF Control
<1> QED BY <1>2, <1>3

LEMMA CallsKept ==
  ASSUME TypeOK, Control, Next
  PROVE  CallType' /\ Control'
<1>1. Grows BY SessionsGrow
<1>2. CASE UNCHANGED <<pc, call>>
  <2>1. \A d \in Callers : call[d].target \in 0..Len(session) /\ call[d].dying \subseteq Sessions
    BY DEF TypeOK, CallType
  <2>2. \A d \in Callers : call'[d].target \in 0..Len(session') /\ call'[d].dying \subseteq Sessions'
    BY <1>1, <1>2, <2>1, SessionsAre, GrowsParts
  <2>3. CallType' BY <1>2, <2>2 DEF TypeOK, CallType
  <2>4. Control' BY <1>2 DEF Control, Entered
  <2> QED BY <2>3, <2>4
<1>3. ASSUME NEW c \in Callers, NEW where, NEW op, NEW id, NEW k, NEW t \in 0..Len(session'),
             NEW dying \in SUBSET Sessions', NEW infos, NEW next,
             Turns(c, where, op, id, k, t, dying, infos, next),
             where \in {"start", "spawn", "stop", "join", "send", "wait"} => t # 0,
             Entered(c)'
      PROVE  CallType' /\ Control'
  BY <1>1, <1>3, TurnKeeps DEF Turns
<1>4. 0 \in 0..Len(session') /\ {} \in SUBSET Sessions' BY <1>1, GrowsParts
<1>5. \A c \in Callers : call[c].target \in 0..Len(session')
  BY <1>1, SessionsAre, GrowsParts DEF TypeOK, CallType
<1>6. \A c \in Callers, op \in {"none", "destroy"} : Returns(c, op) => Entered(c)'
  BY DEF Returns, Turns, Entered
<1>7. \A c \in Callers, op \in {"none", "destroy"} : Returns(c, op) => CallType' /\ Control'
  BY <1>3, <1>4, <1>6 DEF Returns
<1>8. ASSUME NEW c \in Callers, Calls(c) PROVE CallType' /\ Control'
  <2>1. ASSUME NEW op \in {"start", "stop", "restart", "use"}, NEW id \in Ids, CallById(c, op, id)
        PROVE  CallType' /\ Control'
    <3>1. Turns(c, "find", op, id, 1, 0, {}, <<>>, 0) BY <2>1, BeginTurns
    <3>2. Entered(c)' BY <3>1 DEF Turns, Entered
    <3> QED BY <1>3, <1>4, <3>1, <3>2
  <2>2. ASSUME NEW op \in {"statuses", "close", "destroy", "load"}, NEW infos, NEW next,
               Turns(c, "iterate", op, -1, 1, 0, {}, infos, next), op = "load" => next = 1
        PROVE  CallType' /\ Control'
    <3>1. Entered(c)' BY <2>2, Bounds DEF Turns, Entered
    <3> QED BY <1>3, <1>4, <2>2, <3>1
  <2>3. CallStatuses(c) => CallType' /\ Control' BY <2>2, BeginTurns
  <2>4. \A op \in {"close", "destroy"} : CallClose(c, op) => CallType' /\ Control' BY <2>2, BeginTurns
  <2>5. \A infos \in Configs : CallLoad(c, infos) => CallType' /\ Control' BY <2>2, BeginTurns
  <2> QED BY <1>8, <2>1, <2>3, <2>4, <2>5 DEF Calls
<1>9. ASSUME NEW c \in Callers, Finds(c) PROVE CallType' /\ Control'
  <2> DEFINE q == call[c]
  <2>1. /\ pc[c] = "find" /\ q.dying = {} /\ q.id \in Ids /\ q.op \in {"start", "stop", "restart", "use"}
    BY <1>9, FindsTurns
  <2>2. CASE \E k \in Kinds :
               /\ k >= q.k /\ maps[k][q.id] # 0
               /\ GoesOn(c, CASE q.op = "start" -> "start" [] q.op = "use" -> "send" [] OTHER -> "stop",
                         k, maps[k][q.id], {}, q.next)
    <3>1. PICK k \in Kinds :
               /\ maps[k][q.id] # 0
               /\ GoesOn(c, CASE q.op = "start" -> "start" [] q.op = "use" -> "send" [] OTHER -> "stop",
                         k, maps[k][q.id], {}, q.next)
      BY <2>2
    <3>2. maps[k][q.id] \in 0..Len(session') BY <1>1, <2>1, SessionsAre, GrowsParts DEF TypeOK, TableType
    <3>3. Entered(c)' BY <2>1, <3>1 DEF GoesOn, Turns, Entered
    <3> QED BY <1>3, <1>4, <3>1, <3>2, <3>3 DEF GoesOn
  <2>3. CASE q.op = "restart" /\ Turns(c, "find", "start", q.id, 1, q.target, {}, q.infos, q.next)
    <3>1. Entered(c)' BY <2>1, <2>3 DEF Turns, Entered
    <3> QED BY <1>3, <1>4, <1>5, <2>3, <3>1
  <2> QED BY <1>7, <1>9, <2>2, <2>3, FindsTurns
<1>10. ASSUME NEW c \in Callers, AtHandler(c), Leave(c) PROVE CallType' /\ Control'
  <2> DEFINE q == call[c]
  <2>1. Entered(c) /\ pc[c] \in {"start", "spawn", "stop", "join", "send"} /\ q.k \in Kinds
    BY <1>10 DEF Control, Entered, AtHandler
  <2>2. CASE Held(c)
    <3>1. GoesOn(c, "iterate", q.k, q.target, {}, q.next) BY <1>10, <2>2, LeaveTurns
    <3>2. q.op \in {"statuses", "close", "load", "destroy"} BY <2>2 DEF Held
    <3>3. Entered(c)' BY <2>1, <3>1, <3>2 DEF GoesOn, Turns, Entered
    <3> QED BY <1>3, <1>4, <1>5, <3>1, <3>3 DEF GoesOn
  <2>3. CASE ~Held(c)
    <3>1. GoesOn(c, "find", q.k + 1, q.target, {}, q.next) BY <1>10, <2>3, LeaveTurns
    <3>2. q.op \in {"start", "stop", "restart", "use"} /\ q.id \in Ids BY <2>1, <2>3 DEF Held, Entered
    <3>3. Entered(c)' BY <2>1, <3>1, <3>2 DEF GoesOn, Turns, Entered
    <3> QED BY <1>3, <1>4, <1>5, <3>1, <3>3 DEF GoesOn
  <2> QED BY <2>2, <2>3
<1>11. ASSUME NEW c \in Callers, NEW where \in {"spawn", "join"}, call' = call,
              pc' = [pc EXCEPT ![c] = where], pc[c] = IF where = "spawn" THEN "start" ELSE "stop"
       PROVE  CallType' /\ Control'
  <2> DEFINE q == call[c]
  <2>1. GoesOn(c, where, q.k, q.target, q.dying, q.next) BY <1>11, SameCall DEF PCs
  <2>2. Entered(c)' BY <1>11, <2>1 DEF GoesOn, Turns, Entered, Control
  <2>3. q.target # 0 /\ q.dying \in SUBSET Sessions' BY <1>1, <1>11, GrowsParts DEF TypeOK, CallType
  <2> QED BY <1>3, <1>5, <2>1, <2>2, <2>3 DEF GoesOn
<1>12. ASSUME NEW c \in Callers, Iterates(c) PROVE CallType' /\ Control'
  <2> DEFINE q == call[c]
  <2>1. pc[c] = "iterate" /\ q.dying = {} /\ q.k \in Kinds /\ Entered(c)
    BY <1>12, IteratesTurns DEF Control
  <2>2. ASSUME NEW id \in Ids, maps[q.k][id] # 0,
               GoesOn(c, IF q.op = "statuses" THEN "send" ELSE "stop", q.k, maps[q.k][id], {}, q.next)
        PROVE  CallType' /\ Control'
    <3>1. maps[q.k][id] \in 0..Len(session') BY <1>1, <2>1, SessionsAre, GrowsParts DEF TypeOK, TableType
    <3>2. Entered(c)' BY <2>1, <2>2 DEF GoesOn, Turns, Entered
    <3> QED BY <1>3, <1>4, <2>2, <3>1, <3>2 DEF GoesOn
  <2>3. CASE q.op # "statuses" /\ GoesOn(c, "clear", q.k, q.target, {}, q.next)
    <3>1. Entered(c)' BY <2>1, <2>3 DEF GoesOn, Turns, Entered
    <3> QED BY <1>3, <1>4, <1>5, <2>3, <3>1 DEF GoesOn
  <2>4. CASE q.op = "statuses" /\ q.k # SERIAL /\ GoesOn(c, "iterate", q.k + 1, 0, {}, q.next)
    <3>1. q.k + 1 \in Kinds BY <2>1, <2>4, Bounds
    <3>2. Entered(c)' BY <2>1, <2>4, <3>1 DEF GoesOn, Turns, Entered
    <3> QED BY <1>3, <1>4, <2>4, <3>2 DEF GoesOn
  <2> QED BY <1>7, <1>12, <2>2, <2>3, <2>4, IteratesTurns
<1>13. ASSUME NEW c \in Callers, Clears(c) PROVE CallType' /\ Control'
  <2> DEFINE q == call[c]
  <2>1. PICK dying \in SUBSET Sessions : GoesOn(c, "destroy", q.k, q.target, dying, q.next)
    BY <1>13, ClearsTurns
  <2>2. pc[c] = "clear" /\ q.k \in Kinds /\ Entered(c) BY <1>13, ClearsTurns DEF Control
  <2>3. q.k # 5 BY <2>2, Bounds
  <2>4. Entered(c)' BY <2>1, <2>2, <2>3 DEF GoesOn, Turns, Entered
  <2>5. dying \in SUBSET Sessions' BY <1>1, GrowsParts
  <2> QED BY <1>3, <1>5, <2>1, <2>4, <2>5 DEF GoesOn
<1>14. ASSUME NEW c \in Callers, DestroyBegins(c) PROVE CallType' /\ Control'
  <2> DEFINE q == call[c]
  <2>1. PICK s \in q.dying : call' = [call EXCEPT ![c].target = s] BY <1>14, DestroyBeginsFacts
  <2>2. GoesOn(c, "wait", q.k, s, q.dying, q.next) BY <1>14, <2>1, DestroyBeginsTurns
  <2>3. pc[c] = "destroy" /\ Entered(c) /\ q.dying \subseteq Sessions
    BY <1>14 DEF DestroyBegins, Control, TypeOK, CallType
  <2>4. Entered(c)' BY <2>1, <2>2, <2>3 DEF GoesOn, Turns, Entered
  <2>5. s \in 0..Len(session') /\ s # 0 /\ q.dying \in SUBSET Sessions'
    BY <1>1, <2>1, <2>3, SessionsAre, GrowsParts
  <2> QED BY <1>3, <2>2, <2>4, <2>5 DEF GoesOn
<1>15. ASSUME NEW c \in Callers, DestroyEnds(c) PROVE CallType' /\ Control'
  <2> DEFINE q == call[c]
  <2>1. pc[c] = "wait" /\ GoesOn(c, "destroy", q.k, q.target, q.dying \ {q.target}, q.next)
    BY <1>15, DestroyEndsTurns
  <2>2. Entered(c) /\ q.dying \subseteq Sessions BY DEF Control, TypeOK, CallType
  <2>3. Entered(c)' BY <2>1, <2>2 DEF GoesOn, Turns, Entered
  <2>4. q.dying \ {q.target} \in SUBSET Sessions' BY <1>1, <2>2, GrowsParts
  <2> QED BY <1>3, <1>5, <2>1, <2>3, <2>4 DEF GoesOn
<1>16. ASSUME NEW c \in Callers, DestroyedAll(c) PROVE CallType' /\ Control'
  <2> DEFINE q == call[c]
  <2>1. pc[c] = "destroy" /\ Entered(c) BY <1>16, DestroyedAllTurns DEF Control
  <2>2. CASE q.k \in Kinds \ {SERIAL} /\ GoesOn(c, "iterate", q.k + 1, 0, {}, q.next)
    <3>1. q.k + 1 \in Kinds BY <2>2, Bounds
    <3>2. Entered(c)' BY <2>1, <2>2, <3>1 DEF GoesOn, Turns, Entered
    <3> QED BY <1>3, <1>4, <2>2, <3>2 DEF GoesOn
  <2>3. CASE q.op = "load" /\ GoesOn(c, "insert", 5, q.target, {}, q.next)
    <3>1. Entered(c)' BY <2>1, <2>3 DEF GoesOn, Turns, Entered
    <3> QED BY <1>3, <1>4, <1>5, <2>3, <3>1 DEF GoesOn
  <2> QED BY <1>7, <1>16, <2>2, <2>3, DestroyedAllTurns
<1>17. ASSUME NEW c \in Callers, Inserts(c) PROVE CallType' /\ Control'
  <2> DEFINE q == call[c]
             s == Len(session) + 1
  <2>1. pc[c] = "insert" /\ q.op = "load" /\ q.next \in 1..Len(q.infos) /\ Entered(c)
    <3>1. pc[c] = "insert" /\ q.op = "load" /\ q.next \in DOMAIN q.infos BY <1>17, InsertsFacts
    <3>2. DOMAIN q.infos = 1..Len(q.infos) BY CallParts
    <3> QED BY <3>1, <3>2 DEF Control
  <2>2. CASE GoesOn(c, "insert", 5, q.target, {}, q.next + 1)
    <3>1. Entered(c)' BY <2>1, <2>2 DEF GoesOn, Turns, Entered
    <3> QED BY <1>3, <1>4, <1>5, <2>2, <3>1 DEF GoesOn
  <2>3. CASE /\ \E k \in Kinds, left \in Fds \cup {-1} : Constructed(k, left, q.next)
             /\ GoesOn(c, "destroy", 5, q.target, {s}, q.next + 1)
    <3>1. s \in Sessions' BY <2>3 DEF Constructed, Sessions
    <3>2. Entered(c)' BY <2>1, <2>3 DEF GoesOn, Turns, Entered
    <3> QED BY <1>3, <1>5, <2>3, <3>1, <3>2 DEF GoesOn
  <2> QED BY <1>17, <2>2, <2>3, InsertsFacts
<1>18. ASSUME NEW c \in Callers, LoadReturns(c) PROVE CallType' /\ Control'
  BY <1>7, <1>18, LoadReturnsTurns
<1>19. ASSUME NEW c \in Callers,
              \/ Sends(c) \/ StartRefused(c) \/ StartFails(c) \/ StartSpawns(c) \/ StartClient(c)
              \/ StopJoins(c) \/ StartOpens(c) \/ StopEnters(c)
       PROVE  CallType' /\ Control'
  <2>1. CASE Sends(c) \/ StartRefused(c) \/ StartFails(c) \/ StartSpawns(c) \/ StartClient(c) \/ StopJoins(c)
    <3>1. AtHandler(c) /\ Leave(c)
      BY <2>1 DEF AtHandler, Sends, StartRefused, StartFails, StartSpawns, StartClient, StopJoins
    <3> QED BY <1>10, <3>1
  <2>2. CASE StartOpens(c)
    BY <1>11, <2>2 DEF StartOpens, Goto
  <2>3. CASE StopEnters(c)
    <3>1. \/ AtHandler(c) /\ Leave(c)
          \/ pc[c] = "stop" /\ pc' = [pc EXCEPT ![c] = "join"] /\ call' = call
      BY <2>3 DEF StopEnters, AtHandler, Goto
    <3> QED BY <1>10, <1>11, <3>1
  <2> QED BY <1>19, <2>1, <2>2, <2>3
<1>20. ASSUME NEW c \in Callers, UsesFreed(c) \/ IteratesDangling(c) PROVE CallType' /\ Control'
  BY <1>2, <1>20 DEF UsesFreed, IteratesDangling, Dies
<1>21. ASSUME NEW c \in Callers, NEW d \in Callers, MapRace(c, d) \/ UsesDeleted(c, d)
       PROVE  CallType' /\ Control'
  BY <1>2, <1>21 DEF MapRace, UsesDeleted, Dies
<1>22. ASSUME NEW s \in Sessions, Worker(s) PROVE CallType' /\ Control'
  BY <1>2, <1>22, WorkerFacts
<1> QED BY <1>8, <1>9, <1>12, <1>13, <1>14, <1>15, <1>16, <1>17, <1>18, <1>19, <1>20, <1>21, <1>22
        DEF Next, Proceeds

LEMMA OwnerKept ==
  ASSUME TypeOK, Control, Next
  PROVE  owner' \in [Fds -> Foreign..Len(session')]
<1>1. Grows BY SessionsGrow
<1>2. /\ owner \in [Fds -> Foreign..Len(session)] /\ Len(session) \in Nat /\ Len(session') \in Nat
      /\ Len(session') >= Len(session) /\ Sessions = 1..Len(session) /\ Foreign = -1 /\ Free = 0
  BY <1>1, SessionsAre, GrowsParts, Bounds DEF TypeOK, TableType
<1>3. CASE UNCHANGED owner
  <2>1. \A f \in Fds : owner[f] \in Foreign..Len(session') BY <1>2
  <2> QED BY <1>2, <1>3, <2>1
<1>4. ASSUME NEW f \in Fds, NEW o \in 0..Len(session), owner' = [owner EXCEPT ![f] = o]
      PROVE  owner' \in [Fds -> Foreign..Len(session')]
  <2>1. \A g \in Fds : owner[g] \in Foreign..Len(session') BY <1>2
  <2>2. o \in Foreign..Len(session') BY <1>2
  <2>3. \A g \in Fds : owner'[g] \in Foreign..Len(session') /\ DOMAIN owner' = Fds
    BY <1>2, <1>4, <2>1, <2>2
  <2>4. owner' = [g \in Fds |-> owner'[g]] BY <1>2, <1>4
  <2> QED BY <2>3, <2>4
<1>5. ASSUME NEW m, Frees(m) PROVE owner' \in [Fds -> Foreign..Len(session')]
  <2>1. Free \in 0..Len(session) BY <1>2
  <2> QED BY <1>3, <1>4, <1>5, <2>1 DEF Frees
<1>6. ASSUME NEW s \in Sessions, (Openable # {} /\ Opens(s)) \/ Closes(s)
      PROVE  owner' \in [Fds -> Foreign..Len(session')]
  <2>1. s \in 0..Len(session) BY <1>2
  <2>2. CASE Openable # {} /\ Opens(s) BY <1>4, <2>1, <2>2, LowestFacts DEF Opens
  <2>3. CASE Closes(s) BY <1>5, <2>3, ClosesFrees
  <2> QED BY <1>6, <2>2, <2>3
<1>7. ASSUME NEW c \in Callers, Calls(c) PROVE UNCHANGED owner
  BY <1>7 DEF Calls, CallById, CallStatuses, CallClose, CallLoad, Begin, facade
<1>8. ASSUME NEW c \in Callers, Proceeds(c) PROVE owner' \in [Fds -> Foreign..Len(session')]
  <2>1. ASSUME \/ Finds(c) \/ Sends(c) \/ StartRefused(c) \/ Iterates(c) \/ Clears(c) \/ DestroyedAll(c)
               \/ LoadReturns(c) \/ UsesFreed(c) \/ IteratesDangling(c)
        PROVE  UNCHANGED owner
    BY <2>1 DEF Finds, Sends, StartRefused, Iterates, Clears, DestroyedAll, LoadReturns,
       UsesFreed, IteratesDangling, Dies, facade
  <2>2. ASSUME StartSpawns(c) \/ StartClient(c) \/ StopEnters(c) \/ Inserts(c)
        PROVE  UNCHANGED owner
    BY <2>2 DEF StartSpawns, StartClient, StopEnters, Inserts
  <2>3. StartFails(c) => owner' \in [Fds -> Foreign..Len(session')]
    BY <1>3, <1>6, StartFailsFacts DEF Becomes
  <2>4. StartOpens(c) => owner' \in [Fds -> Foreign..Len(session')]
    BY <1>6, StartOpensFacts DEF Becomes
  <2>5. StopJoins(c) => owner' \in [Fds -> Foreign..Len(session')]
    BY <1>3, <1>6, StopJoinsFacts DEF Becomes
  <2>6. DestroyBegins(c) => owner' \in [Fds -> Foreign..Len(session')]
    BY <1>3, <1>6, DestroyBeginsFacts DEF Becomes
  <2>7. DestroyEnds(c) => owner' \in [Fds -> Foreign..Len(session')]
    BY <1>3, <1>6, DestroyEndsFacts DEF Becomes
  <2> QED BY <1>3, <1>8, <2>1, <2>2, <2>3, <2>4, <2>5, <2>6, <2>7 DEF Proceeds
<1>9. ASSUME NEW c \in Callers, NEW d \in Callers, MapRace(c, d) \/ UsesDeleted(c, d) PROVE UNCHANGED owner
  BY <1>9 DEF MapRace, UsesDeleted, Dies, facade
<1>10. ASSUME NEW s \in Sessions, Worker(s) PROVE owner' \in [Fds -> Foreign..Len(session')]
  BY <1>3, <1>6, <1>10, WorkerFacts
<1> QED BY <1>3, <1>7, <1>8, <1>9, <1>10 DEF Next

\* Only clear() and insertion change the maps.
LEMMA MapsKept ==
  ASSUME TypeOK, Control, Next
  PROVE  /\ maps' \in [Kinds -> [Ids -> 0..Len(session')]]
         /\ \/ UNCHANGED maps
            \/ \E c \in Callers : Clears(c) \/ Inserts(c)
<1>1. Grows BY SessionsGrow
<1>2. /\ maps \in [Kinds -> [Ids -> 0..Len(session)]] /\ Len(session) \in Nat /\ Len(session') \in Nat
      /\ Len(session') >= Len(session)
  BY <1>1, SessionsAre, GrowsParts DEF TypeOK, TableType
<1>3. 0..Len(session) \subseteq 0..Len(session') BY <1>2
<1>4. maps \in [Kinds -> [Ids -> 0..Len(session')]]
  <2>1. \A k \in Kinds : maps[k] \in [Ids -> 0..Len(session')] BY <1>2, <1>3
  <2> QED BY <1>2, <2>1
<1>5. ASSUME NEW c \in Callers, Clears(c) PROVE maps' \in [Kinds -> [Ids -> 0..Len(session')]]
  <2>1. call[c].k \in Kinds /\ maps' = [maps EXCEPT ![call[c].k] = [id \in Ids |-> 0]]
    BY <1>5, ClearsTurns
  <2>2. [id \in Ids |-> 0] \in [Ids -> 0..Len(session')] BY <1>2
  <2> QED BY <1>4, <2>1, <2>2
<1>6. ASSUME NEW c \in Callers, Inserts(c) PROVE maps' \in [Kinds -> [Ids -> 0..Len(session')]]
  <2> DEFINE q == call[c]
             info == q.infos[q.next]
             k == KindOf(info.type)
  <2>1. CASE UNCHANGED maps BY <1>4, <2>1
  <2>2. CASE /\ k \in Kinds /\ maps' = [maps EXCEPT ![k][info.id] = Len(session) + 1]
             /\ \E left \in Fds \cup {-1} : Constructed(k, left, q.next)
    <3>1. info.id \in Ids BY <1>6, InsertsFacts
    <3>2. Len(session) + 1 \in 0..Len(session') BY <1>2, <2>2 DEF Constructed
    <3> HIDE DEF k, info
    <3>3. \A j \in Kinds : maps'[j] \in [Ids -> 0..Len(session')] BY <1>4, <2>2, <3>1, <3>2
    <3>4. maps' = [j \in Kinds |-> maps'[j]] BY <1>4, <2>2
    <3> QED BY <3>3, <3>4
  <2> QED BY <1>6, <2>1, <2>2, InsertsFacts
<1>7. \/ UNCHANGED maps
      \/ \E c \in Callers : Clears(c) \/ Inserts(c)
  <2>1. ASSUME NEW c \in Callers, Calls(c) PROVE UNCHANGED maps
    BY <2>1 DEF Calls, CallById, CallStatuses, CallClose, CallLoad, Begin, facade
  <2>2. ASSUME NEW c \in Callers, Proceeds(c), ~Clears(c), ~Inserts(c) PROVE UNCHANGED maps
    BY <2>2 DEF Proceeds, Finds, Sends, StartRefused, Iterates, DestroyedAll, LoadReturns, StartFails,
       StartOpens, StartSpawns, StartClient, StopEnters, StopJoins, DestroyBegins, DestroyEnds,
       UsesFreed, IteratesDangling, Dies, facade
  <2>3. ASSUME NEW c \in Callers, NEW d \in Callers, MapRace(c, d) \/ UsesDeleted(c, d) PROVE UNCHANGED maps
    BY <2>3 DEF MapRace, UsesDeleted, Dies, facade
  <2>4. ASSUME NEW s \in Sessions, Worker(s) PROVE UNCHANGED maps BY <2>4, WorkerFacts
  <2> QED BY <2>1, <2>2, <2>3, <2>4 DEF Next
<1> QED BY <1>4, <1>5, <1>6, <1>7

\* What was recorded only gets longer: a call that overlapped, a number gone astray.
LEMMA HistoryKept ==
  ASSUME TypeOK, Control, Next
  PROVE  /\ HistoryType' /\ crashed' \in {"no", "freed_session", "dangling", "map_race", "freed_instance"}
         /\ overlapped => overlapped' 
         /\ strayed => strayed'
         /\ \/ UNCHANGED <<config, loads>>
            \/ \E c \in Callers : Calls(c)
         /\ overlapped' = overlapped \/ \E c \in Callers : Calls(c)
<1>1. /\ calls \in 0..MaxCalls /\ loads \in Nat /\ config \in Seq([id : Ids, type : Int])
      /\ overlapped \in BOOLEAN /\ strayed \in BOOLEAN /\ holders \subseteq Sessions
      /\ crashed \in {"no", "freed_session", "dangling", "map_race", "freed_instance"}
      /\ Sessions \subseteq Sessions'
  BY SessionsGrow DEF TypeOK, HistoryType, Grows, Sessions
<1>2. ASSUME NEW c \in Callers, Calls(c)
      PROVE  HistoryType' /\ (overlapped => overlapped') /\ UNCHANGED <<strayed, crashed>>
  <2>1. /\ calls < MaxCalls /\ calls' = calls + 1 /\ UNCHANGED <<strayed, holders, crashed>>
        /\ overlapped' = (overlapped \/ \E d \in Callers : pc[d] # "idle" /\ ~Waiting(d))
    BY <1>2 DEF Calls, CallById, CallStatuses, CallClose, CallLoad, Begin, sockets
  <2>2. config' = config \/ config' = <<>> \/ config' \in Configs
    BY <1>2 DEF Calls, CallById, CallStatuses, CallClose, CallLoad
  <2>3. loads' = loads \/ loads' = loads + 1
    BY <1>2 DEF Calls, CallById, CallStatuses, CallClose, CallLoad
  <2>4. config' \in Seq([id : Ids, type : Int]) BY <1>1, <2>2, ConfigsAssumption, Nothing
  <2>5. calls' \in 0..MaxCalls /\ loads' \in Nat BY <1>1, <2>1, <2>3, Bounds
  <2>6. overlapped' \in BOOLEAN /\ (overlapped => overlapped') BY <2>1
  <2> QED BY <1>1, <2>1, <2>4, <2>5, <2>6 DEF HistoryType
<1>3. ASSUME UNCHANGED history, strayed' \in BOOLEAN, strayed => strayed', holders' \subseteq Sessions,
             crashed' \in {"no", "freed_session", "dangling", "map_race", "freed_instance"}
      PROVE  /\ HistoryType' /\ (overlapped => overlapped') /\ (strayed => strayed')
             /\ UNCHANGED <<config, loads>> /\ overlapped' = overlapped
             /\ crashed' \in {"no", "freed_session", "dangling", "map_race", "freed_instance"}
  BY <1>1, <1>3 DEF HistoryType, history
<1>4. ASSUME NEW s \in Sessions, Opens(s) \/ Closes(s) \/ (holders' = holders \ {s} /\ UNCHANGED strayed)
      PROVE  strayed' \in BOOLEAN /\ (strayed => strayed') /\ holders' \subseteq Sessions
  BY <1>1, <1>4 DEF Opens, Closes
<1>5. ASSUME NEW c \in Callers, Proceeds(c)
      PROVE  UNCHANGED history /\ strayed' \in BOOLEAN /\ (strayed => strayed') /\ holders' \subseteq Sessions
  <2>1. UNCHANGED history
    BY <1>5 DEF Proceeds, Finds, Sends, StartRefused, Iterates, DestroyedAll, LoadReturns, StartFails,
       StartOpens, StartSpawns, StartClient, StopEnters, StopJoins, DestroyBegins, DestroyEnds,
       Clears, Inserts, UsesFreed, IteratesDangling, Dies
  <2>2. CASE UNCHANGED sockets BY <1>1, <2>1, <2>2 DEF sockets
  <2>3. CASE StartFails(c) \/ StartOpens(c)
    BY <1>4, <2>1, <2>3, StartFailsFacts, StartOpensFacts DEF Becomes
  <2>4. CASE StopJoins(c) BY <1>4, <2>1, <2>2, <2>4, StopJoinsFacts DEF Becomes
  <2>5. CASE DestroyBegins(c) BY <1>4, <2>1, <2>2, <2>5, DestroyBeginsFacts DEF Becomes
  <2>6. CASE DestroyEnds(c) BY <1>4, <2>1, <2>2, <2>6, DestroyEndsFacts DEF Becomes
  <2>7. ASSUME ~StartFails(c), ~StartOpens(c), ~StopJoins(c), ~DestroyBegins(c), ~DestroyEnds(c)
        PROVE  UNCHANGED sockets
    BY <1>5, <2>7 DEF Proceeds, Finds, Sends, StartRefused, Iterates, DestroyedAll, LoadReturns,
       StartSpawns, StartClient, StopEnters, Clears, Inserts, UsesFreed, IteratesDangling, Dies
  <2> QED BY <2>2, <2>3, <2>4, <2>5, <2>6, <2>7
<1>6. ASSUME NEW c \in Callers, Proceeds(c)
      PROVE  crashed' = crashed \/ crashed' \in {"freed_session", "dangling"}
  BY <1>6 DEF Proceeds, Finds, Sends, StartRefused, Iterates, DestroyedAll, LoadReturns, StartFails,
     StartOpens, StartSpawns, StartClient, StopEnters, StopJoins, DestroyBegins, DestroyEnds,
     Clears, Inserts, UsesFreed, IteratesDangling, Dies
<1>7. ASSUME NEW c \in Callers, NEW d \in Callers, MapRace(c, d) \/ UsesDeleted(c, d)
      PROVE  UNCHANGED <<history, sockets>> /\ crashed' \in {"map_race", "freed_instance"}
  BY <1>7 DEF MapRace, UsesDeleted, Dies
<1>8. ASSUME NEW s \in Sessions, Worker(s)
      PROVE  /\ UNCHANGED <<history, crashed>> /\ strayed' \in BOOLEAN /\ (strayed => strayed')
             /\ holders' \subseteq Sessions
  BY <1>4, <1>8, WorkerFacts
<1> QED BY <1>1, <1>2, <1>3, <1>5, <1>6, <1>7, <1>8 DEF Next, sockets

LEMMA TypeOKKept ==
  ASSUME TypeOK, Control, Next
  PROVE  TypeOK' /\ Control'
<1>1. session' \in Seq(SessionRecord) BY SessionsGrow DEF Grows
<1>2. TableType' BY <1>1, OwnerKept, MapsKept DEF TableType
<1> QED BY <1>2, CallsKept, HistoryKept DEF TypeOK

\* A step touches one session, of which it changes the phase only when it destroys it, and
\* the workers only when it starts it.
LEMMA SessionSteps ==
  ASSUME TypeOK, Control, Next
  PROVE  \/ UNCHANGED session
         \/ \E c \in Callers : Inserts(c)
         \/ \E s \in Sessions : \E m, l, n :
              LET q == session[s] IN
              \/ Becomes(s, q.phase, q.gens, m, l, n)
              \/ \E c \in Callers : /\ (StartSpawns(c) /\ pc[c] = "spawn") \/ (StartClient(c) /\ q.kind = CLIENT)
                                    /\ s = call[c].target /\ q.phase # "dead"
                                    /\ Becomes(s, q.phase, q.gens + 1, m, l, n)
              \/ \E c \in Callers : s \in call[c].dying /\ Becomes(s, "destroying", q.gens, m, l, n)
              \/ \E c \in Callers : s \in call[c].dying /\ q.gens = 0 /\ Becomes(s, "dead", q.gens, m, l, n)
<1>1. ASSUME NEW s \in Sessions, \E m, l, n : Becomes(s, session[s].phase, session[s].gens, m, l, n)
      PROVE  \E t \in Sessions : \E m, l, n : Becomes(t, session[t].phase, session[t].gens, m, l, n)
  BY <1>1
<1>2. ASSUME NEW c \in Callers,
             StartFails(c) \/ StartOpens(c) \/ StopEnters(c) \/ StopJoins(c)
      PROVE  \E t \in Sessions : \E m, l, n : Becomes(t, session[t].phase, session[t].gens, m, l, n)
  <2> DEFINE s == call[c].target
             q == session[s]
  <2>1. \E m, l, n : Becomes(s, q.phase, q.gens, m, l, n)
    BY <1>2, StartFailsFacts, StartOpensFacts, StopEntersFacts, StopJoinsFacts
  <2>2. s \in Sessions BY <2>1 DEF Becomes
  <2> QED BY <2>1, <2>2
<1>3. ASSUME NEW c \in Callers, StartSpawns(c) \/ StartClient(c)
      PROVE  \E s \in Sessions : \E m, l, n :
               /\ (StartSpawns(c) /\ pc[c] = "spawn") \/ (StartClient(c) /\ session[s].kind = CLIENT)
               /\ s = call[c].target /\ session[s].phase # "dead"
               /\ Becomes(s, session[s].phase, session[s].gens + 1, m, l, n)
  <2> DEFINE s == call[c].target
             q == session[s]
  <2>1. /\ q.phase # "dead" /\ Becomes(s, q.phase, q.gens + 1, q.member, q.link, q.starts)
        /\ StartClient(c) => q.kind = CLIENT
    BY <1>3, SpawnFacts
  <2>2. s \in Sessions BY <2>1 DEF Becomes
  <2>3. StartSpawns(c) => pc[c] = "spawn" BY DEF StartSpawns
  <2> QED BY <1>3, <2>1, <2>2, <2>3
<1>4. ASSUME NEW c \in Callers, DestroyBegins(c)
      PROVE  \E s \in Sessions : \E m, l, n :
               s \in call[c].dying /\ Becomes(s, "destroying", session[s].gens, m, l, n)
  <2>1. PICK s \in call[c].dying :
          \E m : Becomes(s, "destroying", session[s].gens, m, session[s].link, session[s].starts)
    BY <1>4, DestroyBeginsFacts
  <2>2. s \in Sessions BY <2>1 DEF Becomes
  <2> QED BY <2>1, <2>2
<1>5. ASSUME NEW c \in Callers, DestroyEnds(c)
      PROVE  \E s \in Sessions : \E m, l, n :
               /\ s \in call[c].dying /\ session[s].gens = 0
               /\ Becomes(s, "dead", session[s].gens, m, l, n)
  <2> DEFINE s == call[c].target
             q == session[s]
  <2>1. q.gens = 0 /\ Becomes(s, "dead", q.gens, q.member, q.link, q.starts) BY <1>5, DestroyEndsFacts
  <2>2. s \in Sessions BY <2>1 DEF Becomes
  <2>3. s \in call[c].dying BY <1>5 DEF DestroyEnds, Control, Entered
  <2> QED BY <2>1, <2>2, <2>3
<1>6. ASSUME NEW s \in Sessions, Worker(s)
      PROVE  \E m, l, n : Becomes(s, session[s].phase, session[s].gens, m, l, n)
  BY <1>6, WorkerFacts
<1>7. ASSUME NEW c \in Callers, Calls(c) PROVE UNCHANGED session
  BY <1>7 DEF Calls, CallById, CallStatuses, CallClose, CallLoad, Begin, facade
<1>8. ASSUME NEW c \in Callers,
             \/ Finds(c) \/ Sends(c) \/ StartRefused(c) \/ Iterates(c) \/ Clears(c) \/ DestroyedAll(c)
             \/ LoadReturns(c) \/ UsesFreed(c) \/ IteratesDangling(c)
      PROVE  UNCHANGED session
  BY <1>8 DEF Finds, Sends, StartRefused, Iterates, Clears, DestroyedAll, LoadReturns,
     UsesFreed, IteratesDangling, Dies, facade
<1>9. ASSUME NEW c \in Callers, NEW d \in Callers, MapRace(c, d) \/ UsesDeleted(c, d) PROVE UNCHANGED session
  BY <1>9 DEF MapRace, UsesDeleted, Dies, facade
<1>10. CASE \E c \in Callers : Calls(c) BY <1>7, <1>10
<1>11. CASE \E c, d \in Callers : MapRace(c, d) \/ UsesDeleted(c, d) BY <1>9, <1>11
<1>12. CASE \E s \in Sessions : Worker(s) BY <1>6, <1>12
<1>13. ASSUME NEW c \in Callers, Proceeds(c)
       PROVE  \/ UNCHANGED session \/ Inserts(c)
              \/ \E s \in Sessions : \E m, l, n :
                   LET q == session[s] IN
                   \/ Becomes(s, q.phase, q.gens, m, l, n)
                   \/ /\ (StartSpawns(c) /\ pc[c] = "spawn") \/ (StartClient(c) /\ q.kind = CLIENT)
                      /\ s = call[c].target /\ q.phase # "dead"
                      /\ Becomes(s, q.phase, q.gens + 1, m, l, n)
                   \/ s \in call[c].dying /\ Becomes(s, "destroying", q.gens, m, l, n)
                   \/ s \in call[c].dying /\ q.gens = 0 /\ Becomes(s, "dead", q.gens, m, l, n)
  <2>1. CASE StartFails(c) \/ StartOpens(c) \/ StopEnters(c) \/ StopJoins(c) BY <1>2, <2>1
  <2>2. CASE StartSpawns(c) \/ StartClient(c) BY <1>3, <2>2
  <2>3. CASE DestroyBegins(c) BY <1>4, <2>3
  <2>4. CASE DestroyEnds(c) BY <1>5, <2>4
  <2> QED BY <1>8, <1>13, <2>1, <2>2, <2>3, <2>4 DEF Proceeds
<1> QED BY <1>10, <1>11, <1>12, <1>13 DEF Next

\* The thread that takes a step, and the others.
LEMMA OneMoves ==
  ASSUME TypeOK, Control, NEW c \in Callers, Calls(c) \/ Proceeds(c)
  PROVE  \A d \in Callers : d # c => pc'[d] = pc[d] /\ call'[d] = call[d]
<1>1. CASE Calls(c)
  BY <1>1, BeginTurns DEF Calls, Turns
<1>2. CASE UNCHANGED <<pc, call>> BY <1>2
<1>3. ASSUME AtHandler(c), Leave(c) PROVE \A d \in Callers : d # c => pc'[d] = pc[d] /\ call'[d] = call[d]
  BY <1>3, LeaveTurns DEF GoesOn, Turns
<1>4. ASSUME NEW where, call' = call, pc' = [pc EXCEPT ![c] = where]
      PROVE  \A d \in Callers : d # c => pc'[d] = pc[d] /\ call'[d] = call[d]
  BY <1>4 DEF TypeOK, CallType
<1>5. CASE Sends(c) \/ StartRefused(c) \/ StartFails(c) \/ StartSpawns(c) \/ StartClient(c) \/ StopJoins(c)
  BY <1>3, <1>5 DEF AtHandler, Sends, StartRefused, StartFails, StartSpawns, StartClient, StopJoins
<1>6. CASE StartOpens(c) BY <1>4, <1>6 DEF StartOpens, Goto
<1>7. CASE StopEnters(c)
  <2>1. (AtHandler(c) /\ Leave(c)) \/ (call' = call /\ pc' = [pc EXCEPT ![c] = "join"])
    BY <1>7 DEF StopEnters, AtHandler, Goto
  <2> QED BY <1>3, <1>4, <2>1
<1>8. CASE Finds(c) BY <1>8, FindsTurns DEF GoesOn, Returns, Turns
<1>9. CASE Iterates(c) BY <1>9, IteratesTurns DEF GoesOn, Returns, Turns
<1>10. CASE Clears(c) BY <1>10, ClearsTurns DEF GoesOn, Turns
<1>11. CASE DestroyBegins(c) BY <1>11, DestroyBeginsFacts, DestroyBeginsTurns DEF GoesOn, Turns
<1>12. CASE DestroyEnds(c) BY <1>12, DestroyEndsTurns DEF GoesOn, Turns
<1>13. CASE DestroyedAll(c) BY <1>13, DestroyedAllTurns DEF GoesOn, Returns, Turns
<1>14. CASE Inserts(c) BY <1>14, InsertsFacts DEF GoesOn, Turns
<1>15. CASE LoadReturns(c) BY <1>15, LoadReturnsTurns DEF Returns, Turns
<1>16. CASE UsesFreed(c) \/ IteratesDangling(c) BY <1>2, <1>16 DEF UsesFreed, IteratesDangling, Dies
<1> QED BY <1>1, <1>5, <1>6, <1>7, <1>8, <1>9, <1>10, <1>11, <1>12, <1>13, <1>14, <1>15, <1>16 DEF Proceeds

\* Where a thread is after a step of its call: at the workers only when it has a socket.
LEMMA SpawnsWhenOpen ==
  ASSUME TypeOK, Control, NEW c \in Callers, Calls(c) \/ Proceeds(c), pc'[c] = "spawn"
  PROVE  StartOpens(c) \/ UNCHANGED <<pc, call>>
<1>1. ~Calls(c) BY BeginTurns DEF Calls, Turns
<1>2. ~(AtHandler(c) /\ Leave(c)) BY LeaveTurns DEF GoesOn, Turns
<1>3. ~(Sends(c) \/ StartRefused(c) \/ StartFails(c) \/ StartSpawns(c) \/ StartClient(c) \/ StopJoins(c))
  BY <1>2 DEF AtHandler, Sends, StartRefused, StartFails, StartSpawns, StartClient, StopJoins
<1>4. ~StopEnters(c)
  <2>1. StopEnters(c) => (AtHandler(c) /\ Leave(c)) \/ (call' = call /\ pc' = [pc EXCEPT ![c] = "join"])
    BY DEF StopEnters, AtHandler, Goto
  <2>2. pc' # [pc EXCEPT ![c] = "join"] BY DEF TypeOK, CallType
  <2> QED BY <1>2, <2>1, <2>2
<1>5. ~Finds(c)
  <2>1. (CASE call[c].op = "start" -> "start" [] call[c].op = "use" -> "send" [] OTHER -> "stop") # "spawn"
    OBVIOUS
  <2> QED BY <2>1, FindsTurns DEF GoesOn, Returns, Turns
<1>6. ~Iterates(c) BY IteratesTurns DEF GoesOn, Returns, Turns
<1>7. ~Clears(c) BY ClearsTurns DEF GoesOn, Turns
<1>8. ~DestroyBegins(c) BY DestroyBeginsFacts, DestroyBeginsTurns DEF GoesOn, Turns
<1>9. ~DestroyEnds(c) BY DestroyEndsTurns DEF GoesOn, Turns
<1>10. ~DestroyedAll(c) BY DestroyedAllTurns DEF GoesOn, Returns, Turns
<1>11. ~Inserts(c) BY InsertsFacts DEF GoesOn, Turns
<1>12. ~LoadReturns(c) BY LoadReturnsTurns DEF Returns, Turns
<1>13. UsesFreed(c) \/ IteratesDangling(c) => UNCHANGED <<pc, call>> BY DEF UsesFreed, IteratesDangling, Dies
<1> QED BY <1>1, <1>3, <1>4, <1>5, <1>6, <1>7, <1>8, <1>9, <1>10, <1>11, <1>12, <1>13 DEF Proceeds

\* Only the calls of a thread move it.
LEMMA OthersStay ==
  ASSUME TypeOK, Control, Next, NEW c \in Callers, ~Calls(c), ~Proceeds(c)
  PROVE  pc'[c] = pc[c] /\ call'[c] = call[c]
<1>1. ASSUME NEW d \in Callers, Calls(d) \/ Proceeds(d) PROVE pc'[c] = pc[c] /\ call'[c] = call[c]
  BY <1>1, OneMoves
<1>2. ASSUME NEW d \in Callers, NEW e \in Callers, MapRace(d, e) \/ UsesDeleted(d, e)
      PROVE  pc'[c] = pc[c] /\ call'[c] = call[c]
  BY <1>2 DEF MapRace, UsesDeleted, Dies
<1>3. ASSUME NEW s \in Sessions, Worker(s) PROVE pc'[c] = pc[c] /\ call'[c] = call[c]
  BY <1>3, WorkerFacts
<1> QED BY <1>1, <1>2, <1>3 DEF Next

LEMMA WorkersKept ==
  ASSUME TypeOK, Control, Workers, Next
  PROVE  Workers'
<1>1. Grows BY SessionsGrow
<1>2. TypeOK' /\ Control' BY TypeOKKept
<1>3. \A t \in Sessions : session[t] \in SessionRecord BY SessionsAre
<1>4. \A s \in Sessions' : session'[s].phase = "dead" \/ session'[s].kind = SERIAL => session'[s].gens = 0
  <2>1. CASE UNCHANGED session BY <2>1 DEF Workers, Sessions
  <2>2. CASE \E c \in Callers : Inserts(c)
    <3>1. PICK c \in Callers : Inserts(c) BY <2>2
    <3>2. \/ UNCHANGED session
          \/ \E k \in Kinds, left \in Fds \cup {-1} : Constructed(k, left, call[c].next)
      BY <3>1, InsertsFacts
    <3>3. Sessions' = DOMAIN session' BY DEF Sessions
    <3> QED BY <2>1, <3>2, <3>3 DEF Constructed, Workers
  <2>3. ASSUME NEW s \in Sessions, NEW p, NEW g, NEW m, NEW l, NEW n, Becomes(s, p, g, m, l, n),
               p = "dead" \/ session[s].kind = SERIAL => g = 0
        PROVE  \A t \in Sessions' : session'[t].phase = "dead" \/ session'[t].kind = SERIAL => session'[t].gens = 0
    <3>1. Sessions' = Sessions BY <2>3 DEF Becomes, Sessions
    <3> QED BY <2>3, <3>1 DEF Becomes, Workers
  <2>4. \A c \in Callers : StartSpawns(c) => session[call[c].target].kind \in {UDP, SERVER}
    BY DEF StartSpawns, Workers, Target
  <2>5. \A s \in Sessions : \A m, l, n : \A c \in Callers :
          /\ (StartSpawns(c) /\ pc[c] = "spawn") \/ (StartClient(c) /\ session[s].kind = CLIENT)
          /\ s = call[c].target /\ session[s].phase # "dead"
          => session[s].phase # "dead" /\ session[s].kind # SERIAL
    BY <2>4, Bounds
  <2>6. \A s \in Sessions : session[s].phase = "dead" \/ session[s].kind = SERIAL => session[s].gens = 0
    BY DEF Workers
  <2> QED BY <2>1, <2>2, <2>3, <2>5, <2>6, SessionSteps
<1>5. ASSUME NEW c \in Callers, pc'[c] = "spawn" PROVE session'[call'[c].target].kind \in {UDP, SERVER}
  <2>1. CASE pc[c] = "spawn" /\ call'[c].target = call[c].target
    <3>1. call[c].target \in Sessions /\ Target(c).kind \in {UDP, SERVER}
      BY <2>1, TargetFacts DEF Workers
    <3> QED BY <1>1, <2>1, <3>1 DEF Grows, Target
  <2>2. CASE StartOpens(c)
    <3>1. call'[c].target = call[c].target BY <2>2 DEF StartOpens
    <3>2. Target(c).kind \in {UDP, SERVER} /\ call[c].target \in Sessions
      BY <2>2, TargetFacts DEF StartOpens, Startable
    <3> QED BY <1>1, <3>1, <3>2 DEF Grows, Target
  <2>3. CASE UNCHANGED <<pc, call>> BY <1>5, <2>1, <2>3
  <2>4. CASE ~Calls(c) /\ ~Proceeds(c) BY <1>5, <2>1, <2>4, OthersStay
  <2> QED BY <1>5, <2>2, <2>3, <2>4, SpawnsWhenOpen
<1> QED BY <1>4, <1>5 DEF Workers, Target

\* Only clear() and an insertion that comes too late give a thread sessions to destroy.
LEMMA DyingKept ==
  ASSUME TypeOK, Control, Next, NEW c \in Callers, ~Clears(c), ~Inserts(c)
  PROVE  call'[c].dying \subseteq call[c].dying
<1>1. CASE ~Calls(c) /\ ~Proceeds(c) BY <1>1, OthersStay
<1>2. CASE Calls(c) BY <1>2, BeginTurns DEF Calls, Turns
<1>3. ASSUME AtHandler(c), Leave(c) PROVE call'[c].dying = {} BY <1>3, LeaveTurns DEF GoesOn, Turns
<1>4. CASE Sends(c) \/ StartRefused(c) \/ StartFails(c) \/ StartSpawns(c) \/ StartClient(c) \/ StopJoins(c)
  <2>1. AtHandler(c) /\ Leave(c)
    BY <1>4 DEF AtHandler, Sends, StartRefused, StartFails, StartSpawns, StartClient, StopJoins
  <2> QED BY <1>3, <2>1
<1>5. CASE StartOpens(c) BY <1>5 DEF StartOpens
<1>6. CASE StopEnters(c)
  <2>1. (AtHandler(c) /\ Leave(c)) \/ call' = call BY <1>6 DEF StopEnters, AtHandler
  <2> QED BY <1>3, <2>1
<1>7. CASE Finds(c) BY <1>7, FindsTurns DEF GoesOn, Returns, Turns
<1>8. CASE Iterates(c) BY <1>8, IteratesTurns DEF GoesOn, Returns, Turns
<1>9. CASE DestroyBegins(c) BY <1>9, DestroyBeginsFacts, DestroyBeginsTurns DEF GoesOn, Turns
<1>10. CASE DestroyEnds(c) BY <1>10, DestroyEndsTurns DEF GoesOn, Turns
<1>11. CASE DestroyedAll(c) BY <1>11, DestroyedAllTurns DEF GoesOn, Returns, Turns
<1>12. CASE LoadReturns(c) BY <1>12, LoadReturnsTurns DEF Returns, Turns
<1>13. CASE UsesFreed(c) \/ IteratesDangling(c) BY <1>13 DEF UsesFreed, IteratesDangling, Dies
<1> QED BY <1>1, <1>2, <1>4, <1>5, <1>6, <1>7, <1>8, <1>9, <1>10, <1>11, <1>12, <1>13 DEF Proceeds

LEMMA PhaseKept ==
  ASSUME TypeOK, Control, Next, NEW t \in Sessions, \A c \in Callers : t \notin call[c].dying
  PROVE  session'[t].phase = session[t].phase
<1>1. CASE UNCHANGED session BY <1>1
<1>2. CASE \E c \in Callers : Inserts(c)
  <2>1. PICK c \in Callers : Inserts(c) BY <1>2
  <2>2. \/ UNCHANGED session
        \/ \E k \in Kinds, left \in Fds \cup {-1} : Constructed(k, left, call[c].next)
    BY <2>1, InsertsFacts
  <2> QED BY <2>2 DEF Constructed
<1>3. ASSUME NEW s \in Sessions, NEW p, NEW g, NEW m, NEW l, NEW n, Becomes(s, p, g, m, l, n),
             s = t => p = session[s].phase
      PROVE  session'[t].phase = session[t].phase
  BY <1>3 DEF Becomes
<1> QED BY <1>1, <1>2, <1>3, SessionSteps

LEMMA MapsHoldLivingKept ==
  ASSUME TypeOK, Control, MapsHoldLiving, Next
  PROVE  MapsHoldLiving'
<1>1. Grows BY SessionsGrow
<1>2. \A k \in Kinds, id \in Ids : maps[k][id] # 0 => maps[k][id] \in Sessions
  BY SessionsAre DEF TypeOK, TableType
\* A session that was in its map and that nobody is given to destroy.
<1>3. ASSUME NEW k \in Kinds, NEW id \in Ids, maps[k][id] # 0,
             \A c \in Callers : Clears(c) \/ Inserts(c) => maps[k][id] \notin call'[c].dying
      PROVE  /\ session'[maps[k][id]].kind = k /\ session'[maps[k][id]].phase = "alive"
             /\ \A c \in Callers : maps[k][id] \notin call'[c].dying
  <2>1. maps[k][id] \in Sessions /\ \A c \in Callers : maps[k][id] \notin call[c].dying
    BY <1>2, <1>3 DEF MapsHoldLiving
  <2>2. session[maps[k][id]].kind = k /\ session[maps[k][id]].phase = "alive"
    BY <1>3 DEF MapsHoldLiving
  <2>3. \A c \in Callers : maps[k][id] \notin call'[c].dying BY <1>3, <2>1, DyingKept
  <2> QED BY <1>1, <2>1, <2>2, <2>3, PhaseKept DEF Grows
<1>4. CASE (\A c \in Callers : ~Clears(c) /\ ~Inserts(c))
  <2>1. UNCHANGED maps BY <1>4, MapsKept
  <2> QED BY <1>3, <1>4, <2>1 DEF MapsHoldLiving
<1>5. ASSUME NEW c \in Callers, Clears(c) PROVE MapsHoldLiving'
  <2> DEFINE q == call[c]
  <2>1. /\ q.k \in Kinds /\ maps' = [maps EXCEPT ![q.k] = [id \in Ids |-> 0]]
        /\ call'[c].dying \subseteq {maps[q.k][id] : id \in Ids} \ {0}
        /\ \A d \in Callers : d # c => call'[d].dying = call[d].dying
        /\ pc'[c] = "destroy"
    BY <1>5, ClearsTurns DEF GoesOn, Turns
  <2>2. \A d \in Callers : d # c => pc'[d] = pc[d] BY <1>5, ClearsTurns DEF GoesOn, Turns
  <2>3. SUFFICES ASSUME NEW k \in Kinds, NEW id \in Ids, maps'[k][id] # 0
        PROVE  /\ session'[maps'[k][id]].kind = k /\ session'[maps'[k][id]].phase = "alive"
               /\ \A d \in Callers : maps'[k][id] \notin call'[d].dying
    BY DEF MapsHoldLiving
  <2>4. k # q.k /\ maps'[k][id] = maps[k][id] BY <2>1, <2>3 DEF TypeOK, TableType
  <2>5. session[maps[k][id]].kind = k /\ \A j \in Ids : maps[q.k][j] # 0 => session[maps[q.k][j]].kind = q.k
    BY <2>1, <2>3, <2>4 DEF MapsHoldLiving
  <2>6. maps[k][id] \notin call'[c].dying BY <2>1, <2>4, <2>5
  <2>7. \A d \in Callers : maps[k][id] \notin call'[d].dying
    BY <2>1, <2>3, <2>4, <2>6 DEF MapsHoldLiving
  <2> QED BY <1>3, <2>3, <2>4, <2>7
<1>6. ASSUME NEW c \in Callers, Inserts(c) PROVE MapsHoldLiving'
  <2> DEFINE q    == call[c]
             info == q.infos[q.next]
             k    == KindOf(info.type)
             s    == Len(session) + 1
  <2>1. info.id \in Ids /\ Len(session) \in Nat /\ Sessions = 1..Len(session)
    BY <1>6, InsertsFacts, SessionsAre
  <2>2. s \notin Sessions BY <2>1
  <2>3. \A d \in Callers : call'[d].dying \subseteq call[d].dying \cup {s}
    BY <1>6, InsertsFacts DEF GoesOn, Turns
  <2>4. \A j \in Kinds, id \in Ids : maps[j][id] # 0 => \A d \in Callers : maps[j][id] \notin call'[d].dying
    BY <1>2, <2>2, <2>3 DEF MapsHoldLiving
  <2>5. \A j \in Kinds, id \in Ids : maps[j][id] # 0 =>
          /\ session'[maps[j][id]].kind = j /\ session'[maps[j][id]].phase = "alive"
          /\ \A d \in Callers : maps[j][id] \notin call'[d].dying
    BY <1>3, <2>4
  <2>6. CASE UNCHANGED maps BY <2>5, <2>6 DEF MapsHoldLiving
  <2>7. CASE /\ k \in Kinds /\ (\E left \in Fds \cup {-1} : Constructed(k, left, q.next))
             /\ maps' = [maps EXCEPT ![k][info.id] = s]
             /\ GoesOn(c, "insert", 5, q.target, {}, q.next + 1)
    <3>1. session'[s].kind = k /\ session'[s].phase = "alive" BY <2>7 DEF Constructed
    <3>2. \A d \in Callers : call'[d].dying \subseteq Sessions
      BY <2>7 DEF GoesOn, Turns, TypeOK, CallType
    <3> HIDE DEF k, info, s
    <3>3. ASSUME NEW j \in Kinds, NEW id \in Ids, maps'[j][id] # 0
          PROVE  maps'[j][id] = IF j = k /\ id = info.id THEN s ELSE maps[j][id]
      BY <2>1, <2>7 DEF TypeOK, TableType
    <3> QED BY <2>2, <2>5, <3>1, <3>2, <3>3 DEF MapsHoldLiving
  <2> QED BY <1>6, <2>6, <2>7, InsertsFacts
<1> QED BY <1>4, <1>5, <1>6

-------------------------------------------------------------------------------
(* One call at a time *)

\* A thread that waits for workers waits for ever.
LEMMA WaitingStays ==
  ASSUME TypeOK, Grows, NEW c \in Callers, pc'[c] = pc[c], call'[c] = call[c], ~Busy(c)
  PROVE  ~Busy(c)'
<1>1. CASE pc[c] = "idle" BY <1>1 DEF Busy
<1>2. CASE pc[c] # "idle"
  <2>1. pc[c] = "join" /\ Target(c).gens > 0 BY <1>2 DEF Busy, Waiting
  <2>2. call[c].target \in Sessions BY <2>1, TargetFacts
  <2>3. Len(session) \in Nat /\ Len(session') \in Nat /\ session'[call[c].target] \in SessionRecord
    BY <2>2, GrowsParts, SessionsAre
  <2>4. /\ session[call[c].target].gens \in Nat /\ session'[call[c].target].gens \in Nat
        /\ session'[call[c].target].gens >= session[call[c].target].gens
    BY <2>2, <2>3, SessionsAre, RecordTypes1 DEF Grows
  <2> QED BY <2>1, <2>4 DEF Busy, Waiting, Target
<1> QED BY <1>1, <1>2

LEMMA ProceedsBusy ==
  ASSUME TypeOK, Workers, NEW c \in Callers, Proceeds(c)
  PROVE  Busy(c)
<1>1. ASSUME pc[c] # "idle", pc[c] # "join" PROVE Busy(c) BY <1>1 DEF Busy, Waiting
<1>2. CASE StopJoins(c) BY <1>2 DEF StopJoins, Busy, Waiting
<1>3. CASE UsesFreed(c)
  <2>1. pc[c] \in {"start", "spawn", "stop", "join", "send"} /\ Target(c).phase = "dead"
    BY <1>3 DEF UsesFreed
  <2>2. Target(c).gens = 0 BY <2>1, TargetFacts DEF Workers, Target
  <2> QED BY <2>1, <2>2 DEF Busy, Waiting
<1>4. ASSUME ~StopJoins(c), ~UsesFreed(c) PROVE pc[c] # "idle" /\ pc[c] # "join"
  BY <1>4 DEF Proceeds, Finds, Sends, StartRefused, Iterates, DestroyedAll, LoadReturns, StartFails,
     StartOpens, StartSpawns, StartClient, StopEnters, DestroyBegins, DestroyEnds, Clears, Inserts,
     IteratesDangling
<1> QED BY <1>1, <1>2, <1>3, <1>4

\* Who is busy after a step: the thread that took it, or nobody who was not before.
LEMMA BusySteps ==
  ASSUME TypeOK, Control, Workers, OneBusy, Next, ~overlapped'
  PROVE  \/ \E c \in Callers :
              /\ Calls(c) \/ (Proceeds(c) /\ Busy(c))
              /\ \A d \in Callers : d # c => ~Busy(d)' /\ call'[d] = call[d] /\ pc'[d] = pc[d]
              /\ \A d \in Callers : d # c => call[d].op # "destroy"
         \/ /\ UNCHANGED <<pc, call, maps>> /\ \A d \in Callers : Busy(d)' => Busy(d)
            /\ (\E c, d \in Callers : MapRace(c, d) \/ UsesDeleted(c, d)) \/ (\E s \in Sessions : Worker(s))
<1>1. Grows BY SessionsGrow
<1>2. ASSUME NEW c \in Callers, Calls(c)
      PROVE  \A d \in Callers : d # c => /\ ~Busy(d)' /\ call'[d] = call[d] /\ pc'[d] = pc[d]
                                        /\ call[d].op # "destroy"
  <2>1. /\ \A d \in Callers : call[d].op # "destroy"
        /\ overlapped' = (overlapped \/ \E d \in Callers : pc[d] # "idle" /\ ~Waiting(d))
    BY <1>2 DEF Calls, CallById, CallStatuses, CallClose, CallLoad, Begin
  <2>2. \A d \in Callers : ~Busy(d) BY <2>1 DEF Busy
  <2> QED BY <1>1, <1>2, <2>1, <2>2, OneMoves, WaitingStays
<1>3. ASSUME NEW c \in Callers, Proceeds(c)
      PROVE  /\ Busy(c)
             /\ \A d \in Callers : d # c => /\ ~Busy(d)' /\ call'[d] = call[d] /\ pc'[d] = pc[d]
                                           /\ call[d].op # "destroy"
  <2>1. Busy(c) BY <1>3, ProceedsBusy
  <2>2. \A d \in Callers : d # c => ~Busy(d) /\ call[d].op # "destroy" BY <2>1 DEF OneBusy
  <2> QED BY <1>1, <1>3, <2>1, <2>2, OneMoves, WaitingStays
<1>4. ASSUME UNCHANGED <<pc, call>> PROVE \A d \in Callers : Busy(d)' => Busy(d)
  BY <1>1, <1>4, WaitingStays
<1>5. ASSUME \E c, d \in Callers : MapRace(c, d) \/ UsesDeleted(c, d) PROVE UNCHANGED <<pc, call, maps>>
  BY <1>5 DEF MapRace, UsesDeleted, Dies, facade
<1>6. ASSUME NEW s \in Sessions, Worker(s) PROVE UNCHANGED <<pc, call, maps>> BY <1>6, WorkerFacts
<1> QED BY <1>2, <1>3, <1>4, <1>5, <1>6 DEF Next

LEMMA OneBusyKept ==
  ASSUME TypeOK, Control, Workers, OneBusy, Next, ~overlapped'
  PROVE  OneBusy'
<1>1. ASSUME NEW c \in Callers,
             \A d \in Callers : d # c => ~Busy(d)' /\ call'[d] = call[d],
             \A d \in Callers : d # c => call[d].op # "destroy"
      PROVE  OneBusy'
  BY <1>1 DEF OneBusy
<1>2. ASSUME UNCHANGED call, \A d \in Callers : Busy(d)' => Busy(d) PROVE OneBusy'
  BY <1>2 DEF OneBusy
<1> QED BY <1>1, <1>2, BusySteps

\* The session a busy call is at is alive.
LEMMA AtLiving ==
  ASSUME TypeOK, Control, MapsHoldLiving, AtHome, NEW c \in Callers, Busy(c), AtHandler(c)
  PROVE  /\ InMap(c) /\ Target(c).phase = "alive" /\ Target(c).kind = call[c].k
         /\ call[c].target \in Sessions /\ \A d \in Callers : call[c].target \notin call[d].dying
<1>1. InMap(c) /\ call[c].k \in Kinds BY DEF AtHome, AtHandler, Control, Entered
<1>2. PICK id \in Ids : maps[call[c].k][id] = call[c].target /\ call[c].target # 0 BY <1>1 DEF InMap
<1>3. call[c].target \in Sessions BY TargetFacts DEF AtHandler
<1> QED BY <1>1, <1>2, <1>3 DEF MapsHoldLiving, Target

LEMMA StaysAlive ==
  ASSUME TypeOK, Control, MapsHoldLiving, Workers, Alive, OneBusy, AtHome, Next
  PROVE  Alive'
<1>1. ASSUME NEW c \in Callers, UsesFreed(c) PROVE FALSE
  <2>1. Busy(c) BY <1>1, ProceedsBusy DEF Proceeds
  <2>2. AtHandler(c) /\ Target(c).phase = "dead" BY <1>1 DEF UsesFreed, AtHandler
  <2> QED BY <2>1, <2>2, AtLiving
<1>2. ASSUME NEW c \in Callers, IteratesDangling(c) PROVE FALSE
  BY <1>2 DEF IteratesDangling, AtHome, InMap
<1>3. ASSUME NEW c \in Callers, NEW d \in Callers, MapRace(c, d) PROVE FALSE
  <2>1. c # d /\ Changes(c) # {} /\ Visits(d) # {} BY <1>3 DEF MapRace
  <2>2. pc[c] \in {"clear", "destroy", "wait", "insert"} BY <2>1 DEF Changes
  <2>3. pc[d] \in {"find", "iterate", "clear", "destroy", "wait", "insert"}
    BY <2>1 DEF Changes, Visits
  <2>4. Busy(c) /\ Busy(d) BY <2>2, <2>3 DEF Busy, Waiting
  <2> QED BY <2>1, <2>4 DEF OneBusy
<1>4. ASSUME NEW c \in Callers, NEW d \in Callers, UsesDeleted(c, d) PROVE FALSE
  <2>1. call[d].op = "destroy" /\ pc[d] = "idle" /\ Busy(c) BY <1>4 DEF UsesDeleted, Busy
  <2> QED BY <2>1 DEF OneBusy, Busy
<1>5. ASSUME NEW c \in Callers, Calls(c) PROVE UNCHANGED crashed
  BY <1>5 DEF Calls, CallById, CallStatuses, CallClose, CallLoad, Begin
<1>6. ASSUME NEW c \in Callers, Proceeds(c) PROVE UNCHANGED crashed
  BY <1>1, <1>2, <1>6 DEF Proceeds, Finds, Sends, StartRefused, Iterates, DestroyedAll, LoadReturns,
     StartFails, StartOpens, StartSpawns, StartClient, StopEnters, StopJoins, DestroyBegins, DestroyEnds,
     Clears, Inserts
<1>7. ASSUME NEW s \in Sessions, Worker(s) PROVE UNCHANGED crashed BY <1>7, WorkerFacts
<1> QED BY <1>3, <1>4, <1>5, <1>6, <1>7 DEF Next, Alive

LEMMA AtHomeKept ==
  ASSUME TypeOK, Control, MapsHoldLiving, Workers, OneBusy, AtHome, Next, ~overlapped'
  PROVE  AtHome'
<1> DEFINE Home(c) ==
      /\ Busy(c) /\ pc[c] \in {"start", "spawn", "stop", "join", "send"} => InMap(c)
      /\ pc[c] = "iterate" /\ call[c].target # 0 => InMap(c)
      /\ pc[c] = "wait" => Target(c).phase = "destroying"
<1>1. ASSUME NEW c \in Callers, ~Busy(c)' PROVE Home(c)'
  BY <1>1 DEF Busy, Waiting
<1>2. ASSUME NEW c \in Callers, pc'[c] \in {"idle", "find", "clear", "destroy", "insert"} PROVE Home(c)'
  BY <1>2
<1>3. ASSUME NEW c \in Callers, InMap(c), UNCHANGED maps, pc'[c] # "wait",
             call'[c].k = call[c].k, call'[c].target = call[c].target
      PROVE  Home(c)'
  BY <1>3 DEF InMap
<1>4. ASSUME NEW c \in Callers, pc'[c] = "iterate", call'[c].target = 0 PROVE Home(c)'
  BY <1>4
<1>5. ASSUME NEW c \in Callers, Calls(c) PROVE Home(c)'
  BY <1>2, <1>4, <1>5, BeginTurns DEF Calls, Turns
<1>6. ASSUME NEW c \in Callers, Busy(c), AtHandler(c), Leave(c), UNCHANGED maps PROVE Home(c)'
  <2>1. InMap(c) BY <1>6, AtLiving
  <2>2. CASE Held(c)
    BY <1>3, <1>6, <2>1, <2>2, LeaveTurns DEF GoesOn, Turns
  <2>3. CASE ~Held(c)
    BY <1>2, <1>6, <2>3, LeaveTurns DEF GoesOn, Turns
  <2> QED BY <2>2, <2>3
<1>7. ASSUME NEW c \in Callers, NEW where \in {"spawn", "join"}, Busy(c), AtHandler(c), UNCHANGED <<maps, call>>,
             pc' = [pc EXCEPT ![c] = where]
      PROVE  Home(c)'
  <2>1. InMap(c) /\ pc'[c] # "wait" BY <1>7, AtLiving DEF TypeOK, CallType
  <2> QED BY <1>3, <1>7, <2>1
<1>8. ASSUME NEW c \in Callers, Proceeds(c), Busy(c) PROVE Home(c)'
  <2>1. CASE Sends(c) \/ StartRefused(c) \/ StartFails(c) \/ StartSpawns(c) \/ StartClient(c) \/ StopJoins(c)
    <3>1. AtHandler(c) /\ Leave(c) /\ UNCHANGED maps
      BY <2>1 DEF AtHandler, Sends, StartRefused, StartFails, StartSpawns, StartClient, StopJoins, facade
    <3> QED BY <1>6, <1>8, <3>1
  <2>2. CASE StartOpens(c)
    <3>1. AtHandler(c) /\ UNCHANGED <<maps, call>> /\ pc' = [pc EXCEPT ![c] = "spawn"]
      BY <2>2 DEF StartOpens, AtHandler, Goto
    <3> QED BY <1>7, <1>8, <3>1
  <2>3. CASE StopEnters(c)
    <3>1. /\ AtHandler(c) /\ UNCHANGED maps
          /\ Leave(c) \/ (UNCHANGED call /\ pc' = [pc EXCEPT ![c] = "join"])
      BY <2>3 DEF StopEnters, AtHandler, Goto
    <3> QED BY <1>6, <1>7, <1>8, <3>1
  <2>4. CASE Finds(c)
    <3> DEFINE q == call[c]
    <3>1. ASSUME NEW k \in Kinds, NEW where, maps[k][q.id] # 0, where # "wait",
                 GoesOn(c, where, k, maps[k][q.id], {}, q.next)
          PROVE  Home(c)'
      <4>1. q.id \in Ids /\ UNCHANGED maps BY <2>4, FindsTurns DEF Finds, facade
      <4>2. InMap(c)' BY <3>1, <4>1 DEF GoesOn, Turns, InMap
      <4> QED BY <3>1, <4>2 DEF GoesOn, Turns
    <3>2. (CASE q.op = "start" -> "start" [] q.op = "use" -> "send" [] OTHER -> "stop") # "wait"
      OBVIOUS
    <3> QED BY <1>2, <2>4, <3>1, <3>2, FindsTurns DEF Returns, Turns
  <2>5. CASE Iterates(c)
    <3> DEFINE q == call[c]
    <3>1. ASSUME NEW id \in Ids, maps[q.k][id] # 0,
                 GoesOn(c, IF q.op = "statuses" THEN "send" ELSE "stop", q.k, maps[q.k][id], {}, q.next)
          PROVE  Home(c)'
      <4>1. UNCHANGED maps BY <2>5 DEF Iterates, facade
      <4>2. InMap(c)' BY <3>1, <4>1 DEF GoesOn, Turns, InMap
      <4> QED BY <3>1, <4>2 DEF GoesOn, Turns
    <3> QED BY <1>2, <1>4, <2>5, <3>1, IteratesTurns DEF GoesOn, Returns, Turns
  <2>6. CASE Clears(c) BY <1>2, <2>6, ClearsTurns DEF GoesOn, Turns
  <2>7. CASE DestroyBegins(c)
    <3>1. PICK s \in call[c].dying :
            /\ call' = [call EXCEPT ![c].target = s]
            /\ \E m, l, n : Becomes(s, "destroying", session[s].gens, m, l, n)
      BY <2>7, DestroyBeginsFacts
    <3>2. GoesOn(c, "wait", call[c].k, s, call[c].dying, call[c].next) BY <2>7, <3>1, DestroyBeginsTurns
    <3>3. pc'[c] = "wait" /\ call'[c].target = s /\ session'[s].phase = "destroying"
      BY <3>1, <3>2 DEF GoesOn, Turns, Becomes
    <3> QED BY <3>3 DEF Target
  <2>8. CASE DestroyEnds(c) BY <1>2, <2>8, DestroyEndsTurns DEF GoesOn, Turns
  <2>9. CASE DestroyedAll(c) BY <1>2, <1>4, <2>9, DestroyedAllTurns DEF GoesOn, Returns, Turns
  <2>10. CASE Inserts(c) BY <1>2, <2>10, InsertsFacts DEF GoesOn, Turns
  <2>11. CASE LoadReturns(c) BY <1>2, <2>11, LoadReturnsTurns DEF Returns, Turns
  <2>12. CASE UsesFreed(c) \/ IteratesDangling(c)
    <3>1. UNCHANGED <<pc, call, maps, session>> BY <2>12 DEF UsesFreed, IteratesDangling, Dies, facade
    <3>2. Home(c) BY DEF AtHome
    <3> QED BY <3>1, <3>2 DEF Busy, Waiting, Target, InMap
  <2> QED BY <1>8, <2>1, <2>2, <2>3, <2>4, <2>5, <2>6, <2>7, <2>8, <2>9, <2>10, <2>11, <2>12 DEF Proceeds
<1>9. ASSUME UNCHANGED <<pc, call, maps>>, \A d \in Callers : Busy(d)' => Busy(d),
             \/ \E c, d \in Callers : MapRace(c, d) \/ UsesDeleted(c, d)
             \/ \E s \in Sessions : Worker(s),
             NEW c \in Callers
      PROVE  Home(c)'
  <2>1. Home(c) BY DEF AtHome
  <2>2. pc[c] = "wait" => session'[call[c].target].phase = session[call[c].target].phase
    <3>1. UNCHANGED session \/ \E s \in Sessions : Worker(s)
      BY <1>9 DEF MapRace, UsesDeleted, Dies, facade
    <3>2. ASSUME NEW s \in Sessions, Worker(s), NEW t \in Sessions PROVE session'[t].phase = session[t].phase
      BY <3>2, WorkerFacts DEF Becomes
    <3> QED BY <3>1, <3>2, TargetFacts
  <2> QED BY <1>9, <2>1, <2>2 DEF InMap, Target
<1> HIDE DEF Home
<1>10. ASSUME NEW d \in Callers PROVE Home(d)'
  BY <1>1, <1>5, <1>8, <1>9, <1>10, BusySteps
<1> QED BY <1>10 DEF AtHome, Home

\* The sessions that a step leaves alone, or does not give a descriptor to.
Apart(s) == \A t \in Sessions : t # s => \A f \in Fds : owner'[f] = t => owner[f] = t

LEMMA FreesApart ==
  ASSUME TypeOK
  PROVE  /\ UNCHANGED owner => \A s \in Sessions : Apart(s)
         /\ \A m : Frees(m) => /\ \A s \in Sessions : Apart(s)
                               /\ \A t \in Sessions, f \in Fds : owner'[f] = t => owner[f] = t /\ f # m
                               /\ \A f \in Fds : f # m => owner'[f] = owner[f]
         /\ \A s \in Sessions :
              Openable # {} /\ owner' = [owner EXCEPT ![Lowest] = s] =>
                /\ Apart(s) /\ \A f \in Fds : owner'[f] = s => owner[f] = s \/ f = Lowest
                /\ owner'[Lowest] = s /\ owner[Lowest] = Free /\ Lowest \in Fds
                /\ \A f \in Fds : f # Lowest => owner'[f] = owner[f]
<1>1. DOMAIN owner = Fds /\ \A t \in Sessions : t # 0
  BY SessionsAre DEF TypeOK, TableType
<1>2. UNCHANGED owner => \A s \in Sessions : Apart(s) BY DEF Apart
<1>3. ASSUME NEW m, Frees(m)
      PROVE  /\ \A t \in Sessions, f \in Fds : owner'[f] = t => owner[f] = t /\ f # m
             /\ \A f \in Fds : f # m => owner'[f] = owner[f]
  BY <1>1, <1>3, Bounds DEF Frees
<1>4. \A m : Frees(m) => \A s \in Sessions : Apart(s) BY <1>3 DEF Apart
<1>5. ASSUME NEW s \in Sessions, Openable # {}, owner' = [owner EXCEPT ![Lowest] = s]
      PROVE  /\ Apart(s) /\ \A f \in Fds : owner'[f] = s => owner[f] = s \/ f = Lowest
             /\ owner'[Lowest] = s /\ owner[Lowest] = Free /\ Lowest \in Fds
             /\ \A f \in Fds : f # Lowest => owner'[f] = owner[f]
  <2>1. Lowest \in Fds /\ owner[Lowest] = Free BY <1>5, LowestFacts
  <2> QED BY <1>1, <1>5, <2>1 DEF Apart
<1> QED BY <1>2, <1>3, <1>4, <1>5

LEMMA UnstartedKept ==
  ASSUME TypeOK, Control, MapsHoldLiving, Workers, OneBusy, AtHome, Unstarted, Next, ~overlapped'
  PROVE  Unstarted'
<1>1. \A t \in Sessions : session[t].gens \in Nat /\ session[t].starts \in Nat /\ session[t].kind \in Kinds
  BY SessionsAre, RecordTypes1
<1>2. ASSUME NEW s \in Sessions, NEW p, NEW g, NEW m, NEW l, NEW n, Becomes(s, p, g, m, l, n), Apart(s),
             g = 0 /\ n <= 1 =>
               \A f \in Fds : owner'[f] = s => m = f /\ p = "alive" /\ session[s].kind # SERIAL /\ n = 1
      PROVE  Unstarted'
  <2>1. Sessions' = Sessions BY <1>2 DEF Becomes, Sessions
  <2>2. Unused(s)' BY <1>2 DEF Becomes, Unused
  <2>3. ASSUME NEW t \in Sessions, t # s PROVE Unused(t)'
    <3>1. Unused(t) /\ session'[t] = session[t] /\ \A f \in Fds : owner'[f] = t => owner[f] = t
      BY <1>2, <2>3 DEF Unstarted, Becomes, Apart
    <3> QED BY <3>1 DEF Unused
  <2> QED BY <2>1, <2>2, <2>3 DEF Unstarted
<1>3. CASE UNCHANGED <<session, owner>>
  BY <1>3 DEF Unstarted, Unused, Sessions
<1>4. ASSUME NEW c \in Callers, Proceeds(c), StartFails(c) \/ StartOpens(c) \/ StopEnters(c) \/ StopJoins(c)
      PROVE  /\ call[c].target \in Sessions /\ session[call[c].target].phase = "alive"
             /\ Unused(call[c].target)
  <2>1. Busy(c) BY <1>4, ProceedsBusy
  <2>2. AtHandler(c) BY <1>4 DEF StartFails, StartOpens, StopEnters, StopJoins, AtHandler
  <2> QED BY <2>1, <2>2, AtLiving DEF Target, Unstarted
<1>5. ASSUME NEW c \in Callers, StartFails(c) PROVE Unstarted'
  <2> DEFINE s == call[c].target
             q == session[s]
             Fails(m) == Becomes(s, q.phase, q.gens, m, Broken(q.link), q.starts + 1)
  <2>1. s \in Sessions /\ q.phase = "alive" /\ Unused(s) BY <1>4, <1>5 DEF Proceeds
  <2>2. q.kind # SERIAL
    <3>1. q.kind \in {UDP, SERVER} BY <1>5, StartFailsFacts
    <3> QED BY <3>1, Bounds
  <2>3. ASSUME NEW m, Fails(m), UNCHANGED owner PROVE Unstarted'
    <3>1. q.gens = 0 /\ q.starts + 1 <= 1 => \A f \in Fds : owner'[f] # s
      BY <1>1, <2>1, <2>3 DEF Unused
    <3>2. Apart(s) BY <2>1, <2>3, FreesApart
    <3> QED BY <1>2, <2>1, <2>3, <3>1, <3>2
  <2>4. ASSUME Fails(Lowest), Openable # {}, owner' = [owner EXCEPT ![Lowest] = s] PROVE Unstarted'
    <3>1. Apart(s) /\ \A f \in Fds : owner'[f] = s => owner[f] = s \/ f = Lowest
      BY <2>1, <2>4, FreesApart
    <3>2. q.gens = 0 /\ q.starts + 1 <= 1 => \A f \in Fds : owner'[f] = s => Lowest = f /\ q.starts + 1 = 1
      BY <1>1, <2>1, <3>1 DEF Unused
    <3> QED BY <1>2, <2>1, <2>2, <2>4, <3>1, <3>2
  <2> QED BY <1>5, <2>3, <2>4, StartFailsFacts DEF Opens
<1>6. ASSUME NEW c \in Callers, StartOpens(c) PROVE Unstarted'
  <2> DEFINE s == call[c].target
             q == session[s]
  <2>1. s \in Sessions /\ q.phase = "alive" /\ Unused(s) BY <1>4, <1>6 DEF Proceeds
  <2>2. q.kind # SERIAL BY <1>6, StartOpensFacts, Bounds
  <2>3. /\ Becomes(s, q.phase, q.gens, Lowest, "up", q.starts + 1)
        /\ Openable # {} /\ owner' = [owner EXCEPT ![Lowest] = s]
    BY <1>6, StartOpensFacts DEF Opens
  <2>4. Apart(s) /\ \A f \in Fds : owner'[f] = s => owner[f] = s \/ f = Lowest
    BY <2>1, <2>3, FreesApart
  <2>5. q.gens = 0 /\ q.starts + 1 <= 1 => \A f \in Fds : owner'[f] = s => Lowest = f /\ q.starts + 1 = 1
    BY <1>1, <2>1, <2>4 DEF Unused
  <2> QED BY <1>2, <2>1, <2>2, <2>3, <2>4, <2>5
<1>7. ASSUME NEW c \in Callers, StartSpawns(c) \/ StartClient(c) PROVE Unstarted'
  <2> DEFINE s == call[c].target
             q == session[s]
  <2>1. Becomes(s, q.phase, q.gens + 1, q.member, q.link, q.starts) /\ UNCHANGED owner
    BY <1>7, SpawnFacts
  <2>2. s \in Sessions BY <2>1 DEF Becomes
  <2>3. q.gens + 1 # 0 /\ Apart(s) BY <1>1, <2>1, <2>2, FreesApart
  <2> QED BY <1>2, <2>1, <2>2, <2>3
<1>8. ASSUME NEW c \in Callers, StopEnters(c) PROVE Unstarted'
  <2> DEFINE s == call[c].target
             q == session[s]
  <2>1. s \in Sessions /\ Unused(s) BY <1>4, <1>8 DEF Proceeds
  <2>2. Becomes(s, q.phase, q.gens, q.member, q.link, q.starts) /\ UNCHANGED owner
    BY <1>8, StopEntersFacts DEF StopEnters
  <2>3. Apart(s) BY <2>1, <2>2, FreesApart
  <2> QED BY <1>2, <2>1, <2>2, <2>3 DEF Unused
<1>9. ASSUME NEW c \in Callers, StopJoins(c) PROVE Unstarted'
  <2> DEFINE s == call[c].target
             q == session[s]
             Leaves(m) == Becomes(s, q.phase, q.gens, m, q.link, q.starts)
  <2>1. s \in Sessions /\ Unused(s) /\ q.gens = 0 BY <1>4, <1>9, StopJoinsFacts DEF Proceeds
  <2>2. ASSUME NEW m, Leaves(m), Frees(q.member) PROVE Unstarted'
    <3>1. Apart(s) /\ \A f \in Fds : owner'[f] = s => owner[f] = s /\ f # q.member
      BY <2>1, <2>2, FreesApart
    <3>2. q.starts <= 1 => \A f \in Fds : owner'[f] # s BY <2>1, <3>1 DEF Unused
    <3> QED BY <1>2, <2>1, <2>2, <3>1, <3>2
  <2>3. ASSUME Leaves(q.member), UNCHANGED owner PROVE Unstarted'
    <3>1. Apart(s) BY <2>1, <2>3, FreesApart
    <3> QED BY <1>2, <2>1, <2>3, <3>1 DEF Unused
  <2> QED BY <1>9, <2>1, <2>2, <2>3, StopJoinsFacts, ClosesFrees
<1>10. ASSUME NEW c \in Callers, DestroyBegins(c) PROVE Unstarted'
  <2>1. PICK s \in call[c].dying :
          LET q == session[s]
              m == IF q.member \in Fds /\ q.kind # SERIAL THEN -1 ELSE q.member
          IN  /\ Becomes(s, "destroying", q.gens, m, q.link, q.starts)
              /\ IF q.kind = SERIAL THEN UNCHANGED owner ELSE Closes(s)
    BY <1>10, DestroyBeginsFacts
  <2> DEFINE q == session[s]
  <2>2. s \in Sessions /\ Unused(s) BY <2>1 DEF Becomes, Unstarted
  <2>3. CASE q.kind = SERIAL
    <3>1. q.gens = 0 /\ q.starts <= 1 => \A f \in Fds : owner'[f] # s BY <2>1, <2>2, <2>3 DEF Unused
    <3>2. Apart(s) BY <2>1, <2>2, <2>3, FreesApart
    <3> QED BY <1>2, <2>1, <2>2, <3>1, <3>2
  <2>4. CASE q.kind # SERIAL
    <3>1. Apart(s) /\ \A f \in Fds : owner'[f] = s => owner[f] = s /\ f # q.member
      BY <2>1, <2>2, <2>4, FreesApart, ClosesFrees
    <3>2. q.gens = 0 /\ q.starts <= 1 => \A f \in Fds : owner'[f] # s BY <2>2, <3>1 DEF Unused
    <3> QED BY <1>2, <2>1, <2>2, <3>1, <3>2
  <2> QED BY <2>3, <2>4
<1>11. ASSUME NEW c \in Callers, DestroyEnds(c) PROVE Unstarted'
  <2> DEFINE s == call[c].target
             q == session[s]
  <2>1. /\ Becomes(s, "dead", q.gens, q.member, q.link, q.starts)
        /\ Frees(q.member) \/ UNCHANGED owner
    BY <1>11, DestroyEndsFacts, ClosesFrees DEF Becomes
  <2>2. s \in Sessions /\ Unused(s) BY <2>1 DEF Becomes, Unstarted
  <2>3. q.phase = "destroying" BY <1>11 DEF DestroyEnds, AtHome, Target
  <2>4. Apart(s) /\ \A f \in Fds : owner'[f] = s => owner[f] = s BY <2>1, <2>2, FreesApart
  <2>5. q.gens = 0 /\ q.starts <= 1 => \A f \in Fds : owner'[f] # s BY <2>2, <2>3, <2>4 DEF Unused
  <2> QED BY <1>2, <2>1, <2>2, <2>4, <2>5
<1>12. ASSUME NEW c \in Callers, Inserts(c) PROVE Unstarted'
  <2>1. UNCHANGED owner BY <1>12 DEF Inserts
  <2>2. CASE UNCHANGED session BY <1>3, <2>1, <2>2
  <2>3. ASSUME NEW k \in Kinds, NEW left \in Fds \cup {-1}, Constructed(k, left, call[c].next) PROVE Unstarted'
    <3>1. \A t \in Sessions : Unused(t)' BY <2>1, <2>3 DEF Constructed, Unused, Unstarted
    <3>2. PICK s \in Nat : s = Len(session) + 1 BY SessionsAre
    <3>3. \A f \in Fds : owner[f] # s
      <4>1. \A f \in Fds : owner[f] \in Foreign..Len(session) BY DEF TypeOK, TableType
      <4> QED BY <3>2, <4>1, SessionsAre, Bounds
    <3>4. Sessions' = Sessions \cup {s} BY <2>3, <3>2 DEF Constructed, Sessions
    <3>5. Unused(s)' BY <2>1, <3>3 DEF Unused
    <3>6. \A t \in Sessions' : Unused(t)'
      <4>1. TAKE t \in Sessions'
      <4> QED BY <3>1, <3>4, <3>5
    <3> QED BY <3>6 DEF Unstarted
  <2>4. \/ UNCHANGED session
        \/ \E k \in Kinds, left \in Fds \cup {-1} : Constructed(k, left, call[c].next)
    BY <1>12, InsertsFacts
  <2> QED BY <2>2, <2>3, <2>4
<1>13. ASSUME NEW s \in Sessions, Worker(s) PROVE Unstarted'
  <2> DEFINE q == session[s]
  <2>1. /\ q.gens > 0 /\ \E m, l : Becomes(s, q.phase, q.gens, m, l, q.starts)
        /\ \/ Openable # {} /\ owner' = [owner EXCEPT ![Lowest] = s]
           \/ UNCHANGED owner \/ Frees(q.member)
    BY <1>13, WorkerFacts, ClosesFrees DEF Opens
  <2>2. Apart(s) BY <2>1, FreesApart
  <2> QED BY <1>1, <1>2, <2>1, <2>2
<1>14. ASSUME NEW c \in Callers, Calls(c) PROVE UNCHANGED <<session, owner>>
  BY <1>14 DEF Calls, CallById, CallStatuses, CallClose, CallLoad, Begin, facade
<1>15. ASSUME NEW c \in Callers,
              \/ Finds(c) \/ Sends(c) \/ StartRefused(c) \/ Iterates(c) \/ Clears(c) \/ DestroyedAll(c)
              \/ LoadReturns(c) \/ UsesFreed(c) \/ IteratesDangling(c)
       PROVE  UNCHANGED <<session, owner>>
  BY <1>15 DEF Finds, Sends, StartRefused, Iterates, Clears, DestroyedAll, LoadReturns,
     UsesFreed, IteratesDangling, Dies, facade
<1>16. ASSUME NEW c \in Callers, NEW d \in Callers, MapRace(c, d) \/ UsesDeleted(c, d)
       PROVE  UNCHANGED <<session, owner>>
  BY <1>16 DEF MapRace, UsesDeleted, Dies, facade
<1> QED BY <1>3, <1>5, <1>6, <1>7, <1>8, <1>9, <1>10, <1>11, <1>12, <1>13, <1>14, <1>15, <1>16
        DEF Next, Proceeds

-------------------------------------------------------------------------------
(* Descriptors *)

\* One session is changed: what is true of it holds, and the others keep theirs.
LEMMA HoldsBy ==
  ASSUME TypeOK, \A t \in Sessions : Holds(t), NEW s \in Sessions, NEW p, NEW g, NEW m, NEW l, NEW n,
         Becomes(s, p, g, m, l, n),
         \A t \in Sessions : t # s /\ t \in holders => owner'[session[t].member] = t,
         \A t \in Sessions : t # s => (t \in holders' <=> t \in holders),
         s \in holders' => m \in Fds /\ owner'[m] = s,
         session[s].kind = CLIENT /\ l = "up" => g > 0,
         p = "alive" /\ g > 0 /\ l = "up" => s \in holders'
  PROVE  \A t \in Sessions' : Holds(t)'
<1>1. Sessions' = Sessions BY DEF Becomes, Sessions
<1>2. Holds(s)' BY DEF Becomes, Holds, HasSocket, Running
<1>3. ASSUME NEW t \in Sessions, t # s PROVE Holds(t)'
  <2>1. Holds(t) /\ session'[t] = session[t] BY <1>3 DEF Becomes
  <2> QED BY <1>3, <2>1 DEF Holds, HasSocket, Running
<1> QED BY <1>1, <1>2, <1>3

\* What others opened is neither given out nor closed.
LEMMA OthersKeep ==
  ASSUME TypeOK, \A t \in Sessions : Holds(t), NEW s \in Sessions
  PROVE  /\ Openable # {} /\ Opens(s) =>
              /\ \A t \in Sessions : t # s /\ t \in holders => owner'[session[t].member] = t
              /\ \A t \in Sessions : t # s => (t \in holders' <=> t \in holders)
              /\ s \in holders' /\ Lowest \in Fds /\ owner'[Lowest] = s
         /\ Closes(s) /\ ~strayed' =>
              /\ \A t \in Sessions : t # s /\ t \in holders => owner'[session[t].member] = t
              /\ \A t \in Sessions : t # s => (t \in holders' <=> t \in holders)
              /\ s \notin holders'
         /\ UNCHANGED owner =>
              \A t \in Sessions : t # s /\ t \in holders => owner'[session[t].member] = t
<1>1. \A t \in Sessions : t \in holders => session[t].member \in Fds /\ owner[session[t].member] = t /\ t # Free
  BY SessionsAre, Bounds DEF Holds
<1>2. ASSUME Openable # {}, Opens(s)
      PROVE  /\ \A t \in Sessions : t # s /\ t \in holders => owner'[session[t].member] = t
             /\ \A t \in Sessions : t # s => (t \in holders' <=> t \in holders)
             /\ s \in holders' /\ Lowest \in Fds /\ owner'[Lowest] = s
  <2>1. /\ owner[Lowest] = Free /\ owner'[Lowest] = s /\ Lowest \in Fds
        /\ \A f \in Fds : f # Lowest => owner'[f] = owner[f]
    BY <1>2, FreesApart DEF Opens
  <2>2. holders' = holders \cup {s} BY <1>2 DEF Opens
  <2> QED BY <1>1, <2>1, <2>2
<1>3. ASSUME Closes(s), ~strayed'
      PROVE  /\ \A t \in Sessions : t # s /\ t \in holders => owner'[session[t].member] = t
             /\ \A t \in Sessions : t # s => (t \in holders' <=> t \in holders)
             /\ s \notin holders'
  <2>1. /\ session[s].member \in Fds => s \in holders
        /\ holders' = holders \ {s}
    BY <1>3 DEF Closes
  <2>2. \A f \in Fds : f # session[s].member => owner'[f] = owner[f] BY <1>3, FreesApart, ClosesFrees
  <2>3. \A t \in Sessions : t # s /\ t \in holders => session[t].member # session[s].member BY <1>1, <2>1
  <2> QED BY <1>1, <2>1, <2>2, <2>3
<1>4. UNCHANGED owner => \A t \in Sessions : t # s /\ t \in holders => owner'[session[t].member] = t BY <1>1
<1> QED BY <1>2, <1>3, <1>4

LEMMA SessionsHold ==
  ASSUME TypeOK, Control, MapsHoldLiving, Workers, Own, Next, ~strayed'
  PROVE  \A s \in Sessions' : Holds(s)'
<1>1. \A t \in Sessions : session[t] \in SessionRecord /\ session[t].gens \in Nat /\ Holds(t)
  <2>1. \A t \in Sessions : session[t] \in SessionRecord BY SessionsAre
  <2> QED BY <2>1, RecordTypes1 DEF Own
<1>2. ASSUME UNCHANGED <<session, owner, holders>> PROVE \A s \in Sessions' : Holds(s)'
  BY <1>1, <1>2 DEF Holds, HasSocket, Running, Sessions
<1>3. ASSUME NEW s \in Sessions, NEW p, NEW g, NEW m, NEW l, NEW n, Becomes(s, p, g, m, l, n),
             Closes(s) \/ (holders' = holders \ {s} /\ UNCHANGED owner),
             session[s].kind = CLIENT /\ l = "up" => g > 0, ~(p = "alive" /\ g > 0 /\ l = "up")
      PROVE  \A t \in Sessions' : Holds(t)'
  <2>1. /\ \A t \in Sessions : t # s /\ t \in holders => owner'[session[t].member] = t
        /\ \A t \in Sessions : t # s => (t \in holders' <=> t \in holders)
        /\ s \notin holders'
    BY <1>1, <1>3, OthersKeep
  <2> QED BY <1>1, <1>3, <2>1, HoldsBy
<1>4. ASSUME NEW s \in Sessions, NEW p, NEW g, NEW l, NEW n, Becomes(s, p, g, Lowest, l, n),
             Openable # {}, Opens(s), session[s].kind = CLIENT /\ l = "up" => g > 0
      PROVE  \A t \in Sessions' : Holds(t)'
  <2>1. /\ \A t \in Sessions : t # s /\ t \in holders => owner'[session[t].member] = t
        /\ \A t \in Sessions : t # s => (t \in holders' <=> t \in holders)
        /\ s \in holders' /\ Lowest \in Fds /\ owner'[Lowest] = s
    BY <1>1, <1>4, OthersKeep
  <2> QED BY <1>1, <1>4, <2>1, HoldsBy
<1>5. ASSUME NEW s \in Sessions, NEW p, NEW g, NEW n, UNCHANGED <<owner, holders>>,
             Becomes(s, p, g, session[s].member, session[s].link, n),
             session[s].kind = CLIENT /\ session[s].link = "up" => g > 0,
             p = "alive" /\ g > 0 /\ session[s].link = "up" => s \in holders
      PROVE  \A t \in Sessions' : Holds(t)'
  <2>1. \A t \in Sessions : t # s /\ t \in holders => owner'[session[t].member] = t
    BY <1>1, <1>5, OthersKeep
  <2>2. s \in holders' => session[s].member \in Fds /\ owner'[session[s].member] = s
    BY <1>1, <1>5 DEF Holds
  <2> QED BY <1>1, <1>5, <2>1, <2>2, HoldsBy
<1>6. ASSUME NEW c \in Callers, StartFails(c) PROVE \A s \in Sessions' : Holds(s)'
  <2> DEFINE s == call[c].target
             q == session[s]
             Fails(m) == Becomes(s, q.phase, q.gens, m, Broken(q.link), q.starts + 1)
  <2>1. Broken(q.link) # "up" BY DEF Broken
  <2>2. /\ \E m : Fails(m) /\ (m = Lowest \/ holders' = holders \ {s})
        /\ \/ holders' = holders \ {s} /\ UNCHANGED owner
           \/ Fails(Lowest) /\ Openable # {} /\ Opens(s)
    BY <1>6, StartFailsFacts
  <2>3. s \in Sessions BY <2>2 DEF Becomes
  <2> QED BY <1>3, <1>4, <2>1, <2>2, <2>3
<1>7. ASSUME NEW c \in Callers, StartOpens(c) PROVE \A s \in Sessions' : Holds(s)'
  <2> DEFINE s == call[c].target
             q == session[s]
  <2>1. /\ q.kind \in {UDP, SERVER} /\ Openable # {} /\ Opens(s)
        /\ Becomes(s, q.phase, q.gens, Lowest, "up", q.starts + 1)
    BY <1>7, StartOpensFacts
  <2>2. s \in Sessions /\ q.kind # CLIENT BY <2>1, Bounds DEF Becomes
  <2> QED BY <1>4, <2>1, <2>2
<1>8. ASSUME NEW c \in Callers, StartSpawns(c) \/ StartClient(c) PROVE \A s \in Sessions' : Holds(s)'
  <2> DEFINE s == call[c].target
             q == session[s]
  <2>1. /\ Becomes(s, q.phase, q.gens + 1, q.member, q.link, q.starts) /\ UNCHANGED <<owner, holders>>
        /\ StartClient(c) => q.kind = CLIENT
    BY <1>8, SpawnFacts DEF sockets
  <2>2. s \in Sessions BY <2>1 DEF Becomes
  <2>3. StartSpawns(c) /\ q.link = "up" => s \in holders BY DEF StartSpawns, Own, Handles, Target
  <2>4. StartClient(c) /\ q.link = "up" /\ q.phase = "alive" => s \in holders
    BY <1>1, <2>1, <2>2 DEF Holds, HasSocket, Running
  <2>5. q.gens + 1 > 0 BY <1>1, <2>2
  <2> QED BY <1>5, <1>8, <2>1, <2>2, <2>3, <2>4, <2>5
<1>9. ASSUME NEW c \in Callers, StopEnters(c) PROVE \A s \in Sessions' : Holds(s)'
  <2> DEFINE s == call[c].target
             q == session[s]
  <2>1. Becomes(s, q.phase, q.gens, q.member, q.link, q.starts) /\ UNCHANGED <<owner, holders>>
    BY <1>9, StopEntersFacts DEF StopEnters, sockets
  <2>2. s \in Sessions /\ Holds(s) BY <1>1, <2>1 DEF Becomes
  <2> QED BY <1>5, <2>1, <2>2 DEF Holds, HasSocket, Running
<1>10. ASSUME NEW c \in Callers, StopJoins(c) PROVE \A s \in Sessions' : Holds(s)'
  <2> DEFINE s == call[c].target
             q == session[s]
             Leaves(m) == Becomes(s, q.phase, q.gens, m, q.link, q.starts)
  <2>1. /\ q.gens = 0
        /\ \/ \E m : Leaves(m) /\ Closes(s)
           \/ Leaves(q.member) /\ UNCHANGED <<owner, holders>>
    BY <1>10, StopJoinsFacts DEF sockets
  <2>2. s \in Sessions /\ Holds(s) BY <1>1, <2>1 DEF Becomes
  <2>3. ~(q.gens > 0) /\ ~(q.kind = CLIENT /\ q.link = "up") BY <1>1, <2>1, <2>2 DEF Holds
  <2>4. CASE Leaves(q.member) /\ UNCHANGED <<owner, holders>> BY <1>5, <2>2, <2>3, <2>4
  <2>5. ASSUME NEW m, Leaves(m), Closes(s) PROVE \A t \in Sessions' : Holds(t)' BY <1>3, <2>2, <2>3, <2>5
  <2> QED BY <2>1, <2>4, <2>5
<1>11. ASSUME NEW c \in Callers, DestroyBegins(c) PROVE \A s \in Sessions' : Holds(s)'
  <2>1. PICK s \in call[c].dying :
          LET q == session[s]
              m == IF q.member \in Fds /\ q.kind # SERIAL THEN -1 ELSE q.member
          IN  /\ Becomes(s, "destroying", q.gens, m, q.link, q.starts)
              /\ IF q.kind = SERIAL THEN UNCHANGED <<owner, holders>> ELSE Closes(s)
    BY <1>11, DestroyBeginsFacts DEF sockets
  <2> DEFINE q == session[s]
  <2>2. s \in Sessions /\ Holds(s) BY <1>1, <2>1 DEF Becomes
  <2>3. q.kind = CLIENT /\ q.link = "up" => q.gens > 0 BY <2>2 DEF Holds
  <2> QED BY <1>3, <1>5, <2>1, <2>2, <2>3
<1>12. ASSUME NEW c \in Callers, DestroyEnds(c) PROVE \A s \in Sessions' : Holds(s)'
  <2> DEFINE s == call[c].target
             q == session[s]
  <2>1. /\ Becomes(s, "dead", q.gens, q.member, q.link, q.starts)
        /\ IF q.kind = SERIAL THEN Closes(s) ELSE UNCHANGED <<owner, holders>>
    BY <1>12, DestroyEndsFacts DEF sockets
  <2>2. s \in Sessions /\ Holds(s) BY <1>1, <2>1 DEF Becomes
  <2>3. q.kind = CLIENT /\ q.link = "up" => q.gens > 0 BY <2>2 DEF Holds
  <2>4. CASE q.kind = SERIAL BY <1>3, <2>1, <2>2, <2>3, <2>4
  <2>5. CASE q.kind # SERIAL
    <3>1. UNCHANGED <<owner, holders>> BY <2>1, <2>5
    <3>2. Becomes(s, "dead", q.gens, q.member, q.link, q.starts) BY <2>1
    <3>3. "dead" # "alive" OBVIOUS
    <3> HIDE DEF q, s
    <3> QED BY <1>5, <2>2, <2>3, <3>1, <3>2, <3>3 DEF q
  <2> QED BY <2>4, <2>5
<1>13. ASSUME NEW c \in Callers, Inserts(c) PROVE \A s \in Sessions' : Holds(s)'
  <2>1. UNCHANGED <<owner, holders>> BY <1>13 DEF Inserts, sockets
  <2>2. CASE UNCHANGED session BY <1>2, <2>1, <2>2
  <2>3. ASSUME NEW k \in Kinds, NEW left \in Fds \cup {-1}, Constructed(k, left, call[c].next)
        PROVE  \A s \in Sessions' : Holds(s)'
    <3>1. \A t \in Sessions : Holds(t)' BY <1>1, <2>1, <2>3 DEF Constructed, Holds, HasSocket, Running
    <3>2. PICK s \in Nat : s = Len(session) + 1 BY SessionsAre
    <3>3. Sessions' = Sessions \cup {s} /\ s \notin Sessions
      BY <2>3, <3>2, SessionsAre DEF Constructed, Sessions
    <3>4. session'[s].link = "none" BY <2>3, <3>2 DEF Constructed
    <3>5. s \notin holders' BY <2>1, <3>3 DEF TypeOK, HistoryType
    <3>6. Holds(s)' BY <3>4, <3>5 DEF Holds, HasSocket
    <3>7. ASSUME NEW t \in Sessions' PROVE Holds(t)' BY <3>1, <3>3, <3>6, <3>7
    <3> QED BY <3>7
  <2>4. \/ UNCHANGED session
        \/ \E k \in Kinds, left \in Fds \cup {-1} : Constructed(k, left, call[c].next)
    BY <1>13, InsertsFacts
  <2> QED BY <2>2, <2>3, <2>4
<1>14. ASSUME NEW s \in Sessions, Worker(s) PROVE \A t \in Sessions' : Holds(t)'
  <2> DEFINE q == session[s]
             Gets(m, l) == Becomes(s, q.phase, q.gens, m, l, q.starts)
  <2>1. /\ q.gens > 0
        /\ \/ Gets(Lowest, "up") /\ Openable # {} /\ Opens(s)
           \/ q.link = "none" /\ (\E m : Gets(m, q.link)) /\ holders' = holders \ {s} /\ UNCHANGED owner
           \/ Gets(q.member, "lost") /\ Closes(s)
    BY <1>14, WorkerFacts
  <2> QED BY <1>3, <1>4, <2>1
<1>15. ASSUME NEW c \in Callers, Calls(c) PROVE UNCHANGED <<session, owner, holders>>
  BY <1>15 DEF Calls, CallById, CallStatuses, CallClose, CallLoad, Begin, facade, sockets
<1>16. ASSUME NEW c \in Callers,
              \/ Finds(c) \/ Sends(c) \/ StartRefused(c) \/ Iterates(c) \/ Clears(c) \/ DestroyedAll(c)
              \/ LoadReturns(c) \/ UsesFreed(c) \/ IteratesDangling(c)
       PROVE  UNCHANGED <<session, owner, holders>>
  BY <1>16 DEF Finds, Sends, StartRefused, Iterates, Clears, DestroyedAll, LoadReturns,
     UsesFreed, IteratesDangling, Dies, facade, sockets
<1>17. ASSUME NEW c \in Callers, NEW d \in Callers, MapRace(c, d) \/ UsesDeleted(c, d)
       PROVE  UNCHANGED <<session, owner, holders>>
  BY <1>17 DEF MapRace, UsesDeleted, Dies, facade, sockets
<1> QED BY <1>2, <1>6, <1>7, <1>8, <1>9, <1>10, <1>11, <1>12, <1>13, <1>14, <1>15, <1>16, <1>17
        DEF Next, Proceeds

LEMMA OwnKept ==
  ASSUME TypeOK, Control, MapsHoldLiving, Workers, Alive, OneBusy, AtHome, Own, Next, ~overlapped', ~strayed'
  PROVE  Own'
<1>1. \A s \in Sessions' : Holds(s)' BY SessionsHold
<1>2. ASSUME NEW c \in Callers, pc'[c] # "spawn" PROVE Handles(c)'
  BY <1>2 DEF Handles
<1>3. ASSUME NEW c \in Callers, StartOpens(c) PROVE Handles(c)'
  <2>1. Opens(call[c].target) /\ call' = call BY <1>3 DEF StartOpens
  <2> QED BY <2>1 DEF Handles, Opens
<1>4. ASSUME NEW c \in Callers, UNCHANGED <<session, holders, pc, call>> PROVE Handles(c)'
  BY <1>4 DEF Own, Handles, Target
<1>5. ASSUME NEW s \in Sessions, Worker(s), NEW c \in Callers PROVE Handles(c)'
  <2> DEFINE q == session[s]
             Gets(m, l) == Becomes(s, q.phase, q.gens, m, l, q.starts)
  <2>1. /\ UNCHANGED <<pc, call>>
        /\ \/ Gets(Lowest, "up") /\ holders' = holders \cup {s}
           \/ q.link = "none" /\ (\E m : Gets(m, q.link)) /\ holders' = holders \ {s}
           \/ Gets(q.member, "lost") /\ holders' = holders \ {s}
    BY <1>5, WorkerFacts DEF Opens, Closes
  <2>2. CASE call[c].target = s BY <2>1, <2>2 DEF Handles, Target, Becomes
  <2>3. CASE call[c].target # s
    <3>1. Handles(c) BY DEF Own
    <3>2. ASSUME pc[c] = "spawn" PROVE session'[call[c].target] = session[call[c].target]
      <4>1. call[c].target \in Sessions BY <3>2, TargetFacts
      <4> QED BY <2>1, <2>3, <4>1 DEF Becomes
    <3> QED BY <2>1, <2>3, <3>1, <3>2 DEF Handles, Target
  <2> QED BY <2>2, <2>3
<1>6. ASSUME NEW c \in Callers, Calls(c) \/ Proceeds(c) PROVE Handles(c)'
  <2>1. CASE pc'[c] = "spawn"
    <3>1. CASE StartOpens(c) BY <1>3, <3>1
    <3>2. CASE UNCHANGED <<pc, call>> /\ ~StartOpens(c)
      <4>1. pc[c] = "spawn" BY <2>1, <3>2
      <4>2. ~Calls(c)
        BY <4>1 DEF Calls, CallById, CallStatuses, CallClose, CallLoad, Begin
      <4>3. StartSpawns(c) \/ UsesFreed(c)
        BY <1>6, <4>1, <4>2 DEF Proceeds, Finds, Sends, StartRefused, Iterates, DestroyedAll, LoadReturns,
           StartFails, StartOpens, StartClient, StopEnters, StopJoins, DestroyBegins, DestroyEnds, Clears,
           Inserts, IteratesDangling
      <4>4. ~StartSpawns(c)
        <5>1. StartSpawns(c) => AtHandler(c) /\ Leave(c) BY DEF StartSpawns, AtHandler
        <5> QED BY <2>1, <5>1, LeaveTurns DEF GoesOn, Turns
      <4> QED BY <1>4, <4>3, <4>4 DEF UsesFreed, Dies, facade, sockets
    <3> QED BY <1>6, <2>1, <3>1, <3>2, SpawnsWhenOpen
  <2> QED BY <1>2, <2>1
<1>7. ASSUME NEW c \in Callers, NEW d \in Callers, NEW e \in Callers, MapRace(d, e) \/ UsesDeleted(d, e)
      PROVE  Handles(c)'
  BY <1>4, <1>7 DEF MapRace, UsesDeleted, Dies, facade, sockets
<1>8. ASSUME NEW c \in Callers, ~Busy(c)' PROVE Handles(c)'
  BY <1>2, <1>8 DEF Busy, Waiting
<1>9. ASSUME NEW c \in Callers PROVE Handles(c)'
  BY <1>5, <1>6, <1>7, <1>8, <1>9, BusySteps
<1> QED BY <1>1, <1>9 DEF Own

-------------------------------------------------------------------------------
(* What the maps hold *)

\* What the maps hold for one id, when the entries before the nth have been inserted.
FilledAt(n, k, id) ==
  LET E == {i \in Entries(k, id) : i < n} IN
  IF E = {} THEN maps[k][id] = 0
  ELSE /\ maps[k][id] # 0 /\ session[maps[k][id]].load = loads
       /\ session[maps[k][id]].entry \in E /\ \A i \in E : session[maps[k][id]].entry <= i

LEMMA FilledIsAt ==
  ASSUME NEW n
  PROVE  Filled(n) <=> \A k \in Kinds, id \in Ids : FilledAt(n, k, id)
BY DEF Filled, FilledAt

LEMMA EntriesAre ==
  ASSUME TypeOK, NEW k, NEW id
  PROVE  Entries(k, id) \subseteq Nat /\ \A i \in Entries(k, id) : i <= Len(config) /\ i >= 1
<1>1. config \in Seq([id : Ids, type : Int]) BY DEF TypeOK, HistoryType
<1>2. DOMAIN config = 1..Len(config) /\ Len(config) \in Nat BY <1>1
<1> QED BY <1>2 DEF Entries

\* Before the first entry the maps are empty, after the last one they are as configured.
LEMMA FilledEnds ==
  ASSUME TypeOK
  PROVE  /\ Emptied(4) => Filled(1)
         /\ Emptied(4) /\ config = <<>> => MapsAsConfigured
         /\ \A n \in Nat : n > Len(config) /\ Filled(n) => MapsAsConfigured
<1>1. ASSUME Emptied(4), NEW k \in Kinds, NEW id \in Ids PROVE maps[k][id] = 0
  BY <1>1, Bounds DEF Emptied
<1>2. ASSUME Emptied(4), NEW k \in Kinds, NEW id \in Ids PROVE FilledAt(1, k, id)
  <2>1. {i \in Entries(k, id) : i < 1} = {} BY EntriesAre
  <2> QED BY <1>1, <1>2, <2>1 DEF FilledAt
<1>3. ASSUME Emptied(4), config = <<>> PROVE MapsAsConfigured
  <2>1. \A k, id : Entries(k, id) = {} BY <1>3 DEF Entries
  <2> QED BY <1>1, <1>3, <2>1 DEF MapsAsConfigured
<1>4. ASSUME NEW n \in Nat, n > Len(config), Filled(n) PROVE MapsAsConfigured
  <2>1. Len(config) \in Nat BY DEF TypeOK, HistoryType
  <2>2. ASSUME NEW k \in Kinds, NEW id \in Ids
        PROVE  {i \in Entries(k, id) : i < n} = Entries(k, id)
    BY <1>4, <2>1, EntriesAre
  <2>3. \A k \in Kinds, id \in Ids : FilledAt(n, k, id) BY <1>4, FilledIsAt
  <2>4. ASSUME NEW k \in Kinds, NEW id \in Ids
        PROVE  IF Entries(k, id) = {} THEN maps[k][id] = 0
               ELSE /\ maps[k][id] # 0 /\ session[maps[k][id]].load = loads
                    /\ session[maps[k][id]].entry \in Entries(k, id)
                    /\ \A i \in Entries(k, id) : session[maps[k][id]].entry <= i
    BY <2>2, <2>3 DEF FilledAt
  <2> QED BY <2>4 DEF MapsAsConfigured
<1> QED BY <1>2, <1>3, <1>4, FilledIsAt

\* The maps and what is recorded stay: so does what they hold.
LEMMA FilledStays ==
  ASSUME TypeOK, Grows, UNCHANGED <<maps, config, loads>>
  PROVE  /\ \A n : Filled(n) => Filled(n)'
         /\ \A n : Emptied(n) => Emptied(n)'
         /\ MapsAsConfigured => MapsAsConfigured'
<1>1. ASSUME NEW k \in Kinds, NEW id \in Ids, maps[k][id] # 0
      PROVE  /\ session'[maps[k][id]].load = session[maps[k][id]].load
             /\ session'[maps[k][id]].entry = session[maps[k][id]].entry
  <2>1. maps[k][id] \in Sessions BY <1>1, SessionsAre DEF TypeOK, TableType
  <2> QED BY <2>1 DEF Grows
<1>2. \A k, id : Entries(k, id)' = Entries(k, id) BY DEF Entries
<1>3. ASSUME NEW n, Filled(n) PROVE Filled(n)'
  <2>1. \A k \in Kinds, id \in Ids : FilledAt(n, k, id) BY <1>3, FilledIsAt
  <2>2. ASSUME NEW k \in Kinds, NEW id \in Ids PROVE FilledAt(n, k, id)'
    <3>1. CASE maps[k][id] = 0 BY <1>2, <2>1, <3>1 DEF FilledAt
    <3>2. CASE maps[k][id] # 0 BY <1>1, <1>2, <2>1, <3>2 DEF FilledAt
    <3> QED BY <3>1, <3>2
  <2> QED BY <2>2 DEF Filled, FilledAt
<1>4. ASSUME MapsAsConfigured PROVE MapsAsConfigured'
  <2>1. ASSUME NEW k \in Kinds, NEW id \in Ids
        PROVE  (IF Entries(k, id) = {} THEN maps[k][id] = 0
                ELSE /\ maps[k][id] # 0 /\ session[maps[k][id]].load = loads
                     /\ session[maps[k][id]].entry \in Entries(k, id)
                     /\ \A i \in Entries(k, id) : session[maps[k][id]].entry <= i)'
    <3>1. CASE maps[k][id] = 0 BY <1>2, <1>4, <3>1 DEF MapsAsConfigured
    <3>2. CASE maps[k][id] # 0 BY <1>1, <1>2, <1>4, <3>2 DEF MapsAsConfigured
    <3> QED BY <3>1, <3>2
  <2> QED BY <2>1 DEF MapsAsConfigured
<1> QED BY <1>3, <1>4 DEF Emptied

\* The next entry is inserted, or the map holds an earlier one of its id.
LEMMA InsertFills ==
  ASSUME TypeOK, Control, NEW c \in Callers, Inserts(c), Grows, UNCHANGED <<config, loads>>,
         config = call[c].infos, NEW n \in Nat, n = call[c].next, Filled(n)
  PROVE  Filled(n + 1)'
<1>1. n \in DOMAIN config /\ config[n].id \in Ids BY InsertsFacts
<1>2. PICK k : k = KindOf(config[n].type) OBVIOUS
<1>3. PICK name \in Ids : name = config[n].id BY <1>1
<1>4. PICK s : s = Len(session) + 1 OBVIOUS
<1>5. \A j \in Kinds, id \in Ids : FilledAt(n, j, id) BY FilledIsAt
<1>6. \A j, id : Entries(j, id)' = Entries(j, id) BY DEF Entries
<1>7. \A j \in Kinds, id \in Ids : maps[j][id] # 0 => maps[j][id] \in Sessions
  BY SessionsAre DEF TypeOK, TableType
<1>8. \A t \in Sessions : session'[t].load = session[t].load /\ session'[t].entry = session[t].entry
  BY DEF Grows
<1>9. ASSUME NEW j \in Kinds, NEW id \in Ids
      PROVE  {i \in Entries(j, id) : i < n + 1} =
               {i \in Entries(j, id) : i < n} \cup (IF j = k /\ id = name THEN {n} ELSE {})
  <2>1. n \in Entries(j, id) <=> j = k /\ id = name BY <1>1, <1>2, <1>3 DEF Entries
  <2>2. \A i \in Entries(j, id) : i < n + 1 <=> i < n \/ i = n BY EntriesAre
  <2> QED BY <2>1, <2>2
<1>10. /\ \/ /\ k \in Kinds /\ (\E left \in Fds \cup {-1} : Constructed(k, left, n))
             /\ maps[k][name] = 0 /\ maps' = [maps EXCEPT ![k][name] = s]
          \/ k \in Kinds /\ maps[k][name] # 0 /\ UNCHANGED maps
          \/ k = 0 /\ UNCHANGED maps
       /\ 0 \notin Kinds
  <2>1. PICK m : m = call[c].next OBVIOUS
  <2>2. PICK info : info = call[c].infos[m] OBVIOUS
  <2>3. m = n /\ k = KindOf(info.type) /\ name = info.id BY <1>2, <1>3, <2>1, <2>2
  <2>4. \/ /\ KindOf(info.type) \in Kinds /\ (\E left \in Fds \cup {-1} : Constructed(KindOf(info.type), left, m))
           /\ maps[KindOf(info.type)][info.id] = 0
           /\ maps' = [maps EXCEPT ![KindOf(info.type)][info.id] = Len(session) + 1]
        \/ KindOf(info.type) \in Kinds /\ maps[KindOf(info.type)][info.id] # 0 /\ UNCHANGED maps
        \/ KindOf(info.type) = 0 /\ UNCHANGED maps
    BY <2>1, <2>2, InsertsFacts, Zenon
  <2>5. 0 \notin Kinds BY Bounds
  <2> QED BY <1>4, <2>3, <2>4, <2>5, Zenon
<1>11. ASSUME NEW j \in Kinds, NEW id \in Ids, ~(j = k /\ id = name) PROVE FilledAt(n + 1, j, id)'
  <2>1. maps'[j][id] = maps[j][id] BY <1>10, <1>11 DEF TypeOK, TableType
  <2>2. {i \in Entries(j, id) : i < n + 1} = {i \in Entries(j, id) : i < n} BY <1>9, <1>11
  <2>3. CASE maps[j][id] = 0 BY <1>5, <1>6, <2>1, <2>2, <2>3 DEF FilledAt
  <2>4. CASE maps[j][id] # 0
    <3>1. maps[j][id] \in Sessions BY <1>7, <2>4
    <3> QED BY <1>5, <1>6, <1>8, <2>1, <2>2, <2>4, <3>1 DEF FilledAt
  <2> QED BY <2>3, <2>4
<1>12. ASSUME k \in Kinds PROVE FilledAt(n + 1, k, name)'
  <2> DEFINE old == {i \in Entries(k, name) : i < n}
  <2>1. {i \in Entries(k, name)' : i < n + 1} = old \cup {n} BY <1>6, <1>9, <1>12
  <2>2. FilledAt(n, k, name) BY <1>5, <1>12
  <2>3. CASE maps[k][name] = 0
    <3>1. old = {} BY <2>2, <2>3 DEF FilledAt
    <3>2. /\ \E left \in Fds \cup {-1} : Constructed(k, left, n)
          /\ maps' = [maps EXCEPT ![k][name] = s]
      BY <1>10, <1>12, <2>3
    <3>3. maps'[k][name] = s BY <1>12, <3>2 DEF TypeOK, TableType
    <3>4. session'[s].load = loads /\ session'[s].entry = n /\ s # 0
      BY <1>4, <3>2, SessionsAre DEF Constructed
    <3>5. {i \in Entries(k, name)' : i < n + 1} = {n} BY <2>1, <3>1
    <3>6. n <= n OBVIOUS
    <3> QED BY <3>3, <3>4, <3>5, <3>6 DEF FilledAt
  <2>4. CASE maps[k][name] # 0
    <3>1. PICK t : t = maps[k][name] OBVIOUS
    <3>2. /\ old # {} /\ session[t].load = loads /\ session[t].entry \in old
          /\ \A i \in old : session[t].entry <= i
      BY <2>2, <2>4, <3>1 DEF FilledAt
    <3>3. t \in Sessions /\ maps'[k][name] = t BY <1>7, <1>10, <1>12, <2>4, <3>1
    <3>4. session'[t].load = loads' /\ session'[t].entry = session[t].entry BY <1>8, <3>2, <3>3
    <3>5. session[t].entry <= n BY <3>2, EntriesAre
    <3>6. \A i \in old \cup {n} : session'[t].entry <= i BY <3>2, <3>4, <3>5
    <3>7. session'[t].entry \in old \cup {n} BY <3>2, <3>4
    <3> HIDE DEF old
    <3> QED BY <2>1, <2>4, <3>1, <3>3, <3>4, <3>6, <3>7 DEF FilledAt
  <2> QED BY <2>3, <2>4
<1>13. ASSUME NEW j \in Kinds, NEW id \in Ids PROVE FilledAt(n + 1, j, id)'
  <2>1. CASE j = k /\ id = name BY <1>12, <2>1
  <2>2. CASE ~(j = k /\ id = name) BY <1>11, <2>2
  <2> QED BY <2>1, <2>2
<1> QED BY <1>13 DEF Filled, FilledAt

\* A step of the only call that changes the maps.
LEMMA ProgressKept ==
  ASSUME TypeOK, Control, Grows, NEW c \in Callers, Proceeds(c), Changing(c), Progress(c),
         UNCHANGED <<config, loads>>
  PROVE  IF pc'[c] = "idle" THEN MapsAsConfigured' ELSE Progress(c)'
<1> DEFINE q == call[c]
<1>1. /\ pc[c] # "idle" /\ q.op \in {"load", "close", "destroy"} /\ Entered(c)
      /\ q.k \in 1..5 /\ q.next \in Nat
  BY CallParts DEF Changing, Control
<1>2. config = IF q.op = "load" THEN q.infos ELSE <<>> BY DEF Progress
<1>3. ASSUME NEW where \in {"iterate", "stop", "join", "clear"}, NEW t, NEW dying,
             pc[c] \in {"iterate", "stop", "join", "clear"}, UNCHANGED maps,
             GoesOn(c, where, q.k, t, dying, q.next)
      PROVE  Progress(c)'
  <2>1. Emptied(q.k - 1) /\ q.k # 5 /\ (q.op = "load" => q.next = 1)
    BY <1>1, <1>3, Bounds DEF Progress, Entered
  <2>2. PICK n : n = q.k - 1 OBVIOUS
  <2>3. Emptied(n)' BY <1>3, <2>1, <2>2, FilledStays
  <2>4. /\ pc'[c] = where /\ call'[c].op = q.op /\ call'[c].infos = q.infos /\ call'[c].k = q.k
        /\ call'[c].next = q.next
    BY <1>3 DEF GoesOn, Turns
  <2> QED BY <1>2, <1>3, <2>1, <2>2, <2>3, <2>4 DEF Progress, Emptied
<1>4. ASSUME AtHandler(c), Leave(c), UNCHANGED maps PROVE Progress(c)' /\ pc'[c] # "idle"
  <2>1. pc[c] \in {"stop", "join"} /\ Held(c) BY <1>1, <1>4 DEF Entered, AtHandler, Held
  <2>2. GoesOn(c, "iterate", q.k, q.target, {}, q.next) BY <1>4, <2>1, LeaveTurns
  <2> QED BY <1>3, <1>4, <2>1, <2>2 DEF GoesOn, Turns
<1>5. CASE Sends(c) \/ StartRefused(c) \/ StartFails(c) \/ StartSpawns(c) \/ StartClient(c) \/ StopJoins(c)
  <2>1. AtHandler(c) /\ Leave(c) /\ UNCHANGED maps
    BY <1>5 DEF AtHandler, Sends, StartRefused, StartFails, StartSpawns, StartClient, StopJoins, facade
  <2> QED BY <1>4, <2>1
<1>6. CASE StopEnters(c)
  <2>1. /\ AtHandler(c) /\ pc[c] = "stop" /\ UNCHANGED maps
        /\ Leave(c) \/ (UNCHANGED call /\ pc' = [pc EXCEPT ![c] = "join"])
    BY <1>6 DEF StopEnters, AtHandler, Goto
  <2>2. CASE UNCHANGED call /\ pc' = [pc EXCEPT ![c] = "join"]
    <3>1. GoesOn(c, "join", q.k, q.target, q.dying, q.next) BY <2>2, SameCall DEF PCs
    <3>2. Progress(c)' /\ pc'[c] = "join" BY <1>3, <2>1, <3>1 DEF GoesOn, Turns
    <3> QED BY <3>2
  <2> QED BY <1>4, <2>1, <2>2
<1>7. CASE StartOpens(c) \/ Finds(c)
  BY <1>1, <1>7 DEF StartOpens, Finds, Entered
<1>8. CASE Iterates(c)
  <2>1. /\ pc[c] = "iterate" /\ UNCHANGED maps /\ q.op # "statuses"
        /\ \/ \E t : GoesOn(c, "stop", q.k, t, {}, q.next)
           \/ GoesOn(c, "clear", q.k, q.target, {}, q.next)
    BY <1>1, <1>8, IteratesTurns DEF Iterates, facade
  <2>2. pc'[c] # "idle" BY <2>1 DEF GoesOn, Turns
  <2> QED BY <1>3, <2>1, <2>2
<1>9. CASE Clears(c)
  <2>1. /\ pc[c] = "clear" /\ q.k \in Kinds /\ maps' = [maps EXCEPT ![q.k] = [id \in Ids |-> 0]]
        /\ \E dying : GoesOn(c, "destroy", q.k, q.target, dying, q.next)
    BY <1>9, ClearsTurns
  <2>2. Emptied(q.k - 1) /\ q.k # 5 /\ (q.op = "load" => q.next = 1)
    BY <2>1, Bounds DEF Progress
  <2>3. PICK k \in Kinds : k = q.k BY <2>1
  <2>4. Emptied(k)'
    <3>1. ASSUME NEW j \in Kinds, NEW id \in Ids, j <= k PROVE maps'[j][id] = 0
      <4>1. CASE j = k BY <2>1, <2>3, <4>1 DEF TypeOK, TableType
      <4>2. CASE j # k
        <5>1. j <= q.k - 1 BY <2>3, <3>1, <4>2, Bounds
        <5> QED BY <2>1, <2>2, <2>3, <4>2, <5>1 DEF Emptied, TypeOK, TableType
      <4> QED BY <4>1, <4>2
    <3> QED BY <3>1 DEF Emptied
  <2>5. /\ pc'[c] = "destroy" /\ call'[c].op = q.op /\ call'[c].infos = q.infos /\ call'[c].k = q.k
        /\ call'[c].next = q.next
    BY <2>1 DEF GoesOn, Turns
  <2>6. Progress(c)' BY <1>2, <2>2, <2>3, <2>4, <2>5 DEF Progress, Emptied
  <2> QED BY <2>5, <2>6
<1>10. CASE DestroyBegins(c) \/ DestroyEnds(c)
  <2>1. /\ pc[c] \in {"destroy", "wait"} /\ UNCHANGED maps
        /\ \E t, dying : GoesOn(c, "wait", q.k, t, dying, q.next) \/ GoesOn(c, "destroy", q.k, t, dying, q.next)
    <3>1. CASE DestroyBegins(c)
      BY <3>1, DestroyBeginsFacts, DestroyBeginsTurns DEF DestroyBegins
    <3>2. CASE DestroyEnds(c)
      BY <3>2, DestroyEndsTurns DEF DestroyEnds
    <3> QED BY <1>10, <3>1, <3>2
  <2>2. /\ pc'[c] \in {"destroy", "wait"} /\ call'[c].op = q.op /\ call'[c].infos = q.infos
        /\ call'[c].k = q.k /\ call'[c].next = q.next
    BY <2>1 DEF GoesOn, Turns
  <2>3. /\ q.k # 5 => Emptied(q.k) /\ (q.op = "load" => q.next = 1)
        /\ q.k = 5 => Filled(q.next)
    BY <2>1 DEF Progress
  <2>4. /\ q.k # 5 => Emptied(q.k)'
        /\ q.k = 5 => Filled(q.next)'
    <3>1. PICK k, n : k = q.k /\ n = q.next OBVIOUS
    <3>2. (k # 5 => Emptied(k)') /\ (k = 5 => Filled(n)') BY <2>1, <2>3, <3>1, FilledStays
    <3>3. call'[c].k = k /\ call'[c].next = n BY <2>2, <3>1
    <3> QED BY <2>2, <3>1, <3>2, <3>3
  <2> QED BY <1>2, <2>2, <2>3, <2>4 DEF Progress
<1>11. CASE DestroyedAll(c)
  <2>1. pc[c] = "destroy" /\ UNCHANGED maps BY <1>11, DestroyedAllTurns DEF DestroyedAll, facade
  <2>2. /\ q.k # 5 => Emptied(q.k) /\ (q.op = "load" => q.next = 1)
        /\ q.k = 5 => Filled(q.next)
    BY <2>1 DEF Progress
  <2>3. CASE q.k \in Kinds \ {SERIAL} /\ GoesOn(c, "iterate", q.k + 1, 0, {}, q.next)
    <3>1. PICK k \in Kinds : k = q.k /\ k # 4 /\ k # 5 BY <2>3, Bounds
    <3>2. Emptied(k)' BY <2>1, <2>2, <3>1, FilledStays
    <3>3. /\ pc'[c] = "iterate" /\ call'[c].op = q.op /\ call'[c].infos = q.infos /\ call'[c].k = k + 1
          /\ call'[c].next = q.next
      BY <2>3, <3>1 DEF GoesOn, Turns
    <3>4. k + 1 # 5 /\ call'[c].k - 1 = k BY <3>1, <3>3, Bounds
    <3>5. q.k # 5 /\ (call'[c].op = "load" => call'[c].next = 1) BY <2>2, <3>1, <3>3
    <3>6. Emptied(call[c].k - 1)' BY <3>2, <3>4 DEF Emptied
    <3>7. Progress(c)' BY <1>2, <3>3, <3>4, <3>5, <3>6 DEF Progress
    <3> QED BY <3>3, <3>7
  <2>4. CASE q.k \in {4, 5} /\ q.op = "load" /\ GoesOn(c, "insert", 5, q.target, {}, q.next)
    <3>1. PICK n \in Nat : n = q.next BY <1>1
    <3>2. Filled(n) BY <2>2, <2>4, <3>1, FilledEnds
    <3>3. Filled(n)' BY <2>1, <3>2, FilledStays
    <3>4. /\ pc'[c] = "insert" /\ call'[c].op = q.op /\ call'[c].infos = q.infos /\ call'[c].k = 5
          /\ call'[c].next = n
      BY <2>4, <3>1 DEF GoesOn, Turns
    <3> QED BY <1>2, <3>3, <3>4 DEF Progress, Filled
  <2>5. CASE q.k = 4 /\ q.op \in {"close", "destroy"} /\ \E op : Returns(c, op)
    <3>1. config = <<>> /\ Emptied(4) BY <1>2, <2>2, <2>5
    <3>2. MapsAsConfigured' BY <2>1, <3>1, FilledEnds, FilledStays
    <3> QED BY <2>5, <3>2 DEF Returns, Turns
  <2> QED BY <1>11, <2>3, <2>4, <2>5, DestroyedAllTurns
<1>12. CASE Inserts(c)
  <2>1. PICK n \in Nat : n = q.next BY <1>1
  <2>2. pc[c] = "insert" /\ config = q.infos /\ Filled(n) BY <1>2, <1>12, <2>1, InsertsFacts DEF Progress
  <2>3. Filled(n + 1)' BY <1>12, <2>1, <2>2, InsertFills
  <2>4. /\ pc'[c] \in {"insert", "destroy"} /\ call'[c].op = q.op /\ call'[c].infos = q.infos
        /\ call'[c].k = 5 /\ call'[c].next = n + 1
    BY <1>12, <2>1, InsertsFacts DEF GoesOn, Turns
  <2> QED BY <1>2, <2>3, <2>4 DEF Progress, Filled
<1>13. CASE LoadReturns(c)
  <2>1. PICK n \in Nat : n = q.next BY <1>1
  <2>2. pc[c] = "insert" /\ n > Len(q.infos) /\ UNCHANGED maps BY <1>13, <2>1 DEF LoadReturns, facade
  <2>3. q.op = "load" BY <1>1, <2>2 DEF Entered
  <2>4. config = q.infos /\ Filled(n) BY <1>2, <2>1, <2>2, <2>3 DEF Progress
  <2>5. MapsAsConfigured' BY <2>2, <2>4, FilledEnds, FilledStays
  <2> QED BY <1>13, <2>5, LoadReturnsTurns DEF Returns, Turns
<1>14. CASE UsesFreed(c) \/ IteratesDangling(c)
  <2>1. UNCHANGED <<maps, session, pc, call>> BY <1>14 DEF UsesFreed, IteratesDangling, Dies, facade
  <2> QED BY <1>1, <2>1 DEF Progress, Emptied, Filled, Entries
<1> QED BY <1>5, <1>6, <1>7, <1>8, <1>9, <1>10, <1>11, <1>12, <1>13, <1>14 DEF Proceeds

\* A call stays the call it was, until it returns.
LEMMA SameOp ==
  ASSUME TypeOK, Control, NEW c \in Callers, Proceeds(c)
  PROVE  \/ pc'[c] = "idle"
         \/ call'[c].op = call[c].op
         \/ call[c].op = "restart" /\ call'[c].op = "start"
<1>1. ASSUME AtHandler(c), Leave(c) PROVE call'[c].op = call[c].op
  BY <1>1, LeaveTurns DEF GoesOn, Turns
<1>2. CASE Sends(c) \/ StartRefused(c) \/ StartFails(c) \/ StartSpawns(c) \/ StartClient(c) \/ StopJoins(c)
  BY <1>1, <1>2 DEF AtHandler, Sends, StartRefused, StartFails, StartSpawns, StartClient, StopJoins
<1>3. CASE StartOpens(c) \/ UsesFreed(c) \/ IteratesDangling(c)
  BY <1>3 DEF StartOpens, UsesFreed, IteratesDangling, Dies
<1>4. CASE StopEnters(c)
  <2>1. (AtHandler(c) /\ Leave(c)) \/ call' = call BY <1>4 DEF StopEnters, AtHandler
  <2> QED BY <1>1, <2>1
<1>5. CASE Finds(c) BY <1>5, FindsTurns DEF GoesOn, Returns, Turns
<1>6. CASE Iterates(c) BY <1>6, IteratesTurns DEF GoesOn, Returns, Turns
<1>7. CASE Clears(c) BY <1>7, ClearsTurns DEF GoesOn, Turns
<1>8. CASE DestroyBegins(c) BY <1>8, DestroyBeginsFacts, DestroyBeginsTurns DEF GoesOn, Turns
<1>9. CASE DestroyEnds(c) BY <1>9, DestroyEndsTurns DEF GoesOn, Turns
<1>10. CASE DestroyedAll(c) BY <1>10, DestroyedAllTurns DEF GoesOn, Returns, Turns
<1>11. CASE Inserts(c) BY <1>11, InsertsFacts DEF GoesOn, Turns
<1>12. CASE LoadReturns(c) BY <1>12, LoadReturnsTurns DEF Returns, Turns
<1> QED BY <1>2, <1>3, <1>4, <1>5, <1>6, <1>7, <1>8, <1>9, <1>10, <1>11, <1>12 DEF Proceeds

\* load() and close() begin with the first map.
LEMMA ProgressBegins ==
  ASSUME TypeOK, NEW c \in Callers,
         \/ \E op \in {"close", "destroy"} : CallClose(c, op)
         \/ \E infos \in Configs : CallLoad(c, infos)
  PROVE  Changing(c)' /\ Progress(c)'
<1>1. \A k \in Kinds : ~(k <= 0) BY Bounds
<1>2. Emptied(0)' BY <1>1 DEF Emptied
<1>3. ASSUME NEW op \in {"close", "destroy"}, CallClose(c, op) PROVE Changing(c)' /\ Progress(c)'
  <2>1. Turns(c, "iterate", op, -1, 1, 0, {}, <<>>, 0) BY <1>3, BeginTurns
  <2>2. /\ pc'[c] = "iterate" /\ call'[c].op = op /\ call'[c].k = 1 /\ config' = <<>>
        /\ call'[c].k - 1 = 0
    BY <1>3, <2>1 DEF CallClose, Turns
  <2>3. Emptied(call[c].k - 1)' BY <1>2, <2>2 DEF Emptied
  <2> QED BY <2>2, <2>3 DEF Changing, Progress
<1>4. ASSUME NEW infos \in Configs, CallLoad(c, infos) PROVE Changing(c)' /\ Progress(c)'
  <2>1. Turns(c, "iterate", "load", -1, 1, 0, {}, infos, 1) BY <1>4, BeginTurns
  <2>2. /\ pc'[c] = "iterate" /\ call'[c].op = "load" /\ call'[c].k = 1 /\ config' = infos
        /\ call'[c].infos = infos /\ call'[c].next = 1 /\ call'[c].k - 1 = 0
    <3>1. config' = infos BY <1>4, Zenon DEF CallLoad
    <3> QED BY <2>1, <3>1 DEF Turns
  <2>3. Emptied(call[c].k - 1)' BY <1>2, <2>2 DEF Emptied
  <2> QED BY <2>2, <2>3 DEF Changing, Progress
<1> QED BY <1>3, <1>4

LEMMA ConfiguredKept ==
  ASSUME TypeOK, Control, Workers, OneBusy, Configured, Next, ~overlapped'
  PROVE  Configured'
<1>1. Grows BY SessionsGrow
<1>2. ASSUME UNCHANGED <<maps, config, loads>>, \A c \in Callers : Changing(c)' <=> Changing(c),
             \A c \in Callers : Changing(c)' /\ Busy(c)' =>
               /\ Busy(c) /\ pc'[c] = pc[c] /\ call'[c] = call[c]
      PROVE  Configured'
  <2>1. /\ MapsAsConfigured => MapsAsConfigured'
        /\ \A n : Filled(n) => Filled(n)'
        /\ \A n : Emptied(n) => Emptied(n)'
    BY <1>1, <1>2, FilledStays
  <2>2. ASSUME NEW c \in Callers, Progress(c), pc'[c] = pc[c], call'[c] = call[c] PROVE Progress(c)'
    <3>1. PICK q : q = call[c] OBVIOUS
    <3>2. PICK k, n : k = q.k - 1 /\ n = q.next OBVIOUS
    <3>3. /\ Emptied(k) => Emptied(k)'
          /\ Emptied(q.k) => Emptied(q.k)'
          /\ Filled(n) => Filled(n)'
      BY <2>1
    <3> QED BY <1>2, <2>2, <3>1, <3>2, <3>3 DEF Progress
  <2> QED BY <1>2, <2>1, <2>2 DEF Configured
<1>3. ASSUME UNCHANGED <<pc, call, maps>>, \A d \in Callers : Busy(d)' => Busy(d),
             \/ \E c, d \in Callers : MapRace(c, d) \/ UsesDeleted(c, d)
             \/ \E s \in Sessions : Worker(s)
      PROVE  Configured'
  <2>1. UNCHANGED <<config, loads>>
    <3>1. ASSUME NEW c \in Callers, NEW d \in Callers, MapRace(c, d) \/ UsesDeleted(c, d)
          PROVE  UNCHANGED <<config, loads>>
      BY <3>1 DEF MapRace, UsesDeleted, Dies, history
    <3>2. ASSUME NEW s \in Sessions, Worker(s) PROVE UNCHANGED <<config, loads>>
      BY <3>2, WorkerFacts DEF history
    <3> QED BY <1>3, <3>1, <3>2
  <2>2. \A c \in Callers : Changing(c)' <=> Changing(c) BY <1>3 DEF Changing
  <2> QED BY <1>2, <1>3, <2>1, <2>2
<1>4. ASSUME NEW c \in Callers, Calls(c) \/ Proceeds(c),
             \A d \in Callers : d # c => ~Busy(d)' /\ call'[d] = call[d] /\ pc'[d] = pc[d]
      PROVE  Configured'
  <2>1. \A d \in Callers : d # c => (Changing(d)' <=> Changing(d)) BY <1>4 DEF Changing
  <2>2. ASSUME ~Changing(c), ~Changing(c)', UNCHANGED <<maps, config, loads>> PROVE Configured'
    BY <1>2, <1>4, <2>1, <2>2
  <2>3. ASSUME Changing(c)', Progress(c)' PROVE Configured'
    BY <1>4, <2>3 DEF Configured
  <2>4. CASE Calls(c)
    <3>1. CASE \/ \E op \in {"start", "stop", "restart", "use"}, id \in Ids : CallById(c, op, id)
               \/ CallStatuses(c)
      <4>1. UNCHANGED <<maps, config, loads>> BY <3>1 DEF CallById, CallStatuses, Begin, facade
      <4>2. pc[c] = "idle" BY <3>1 DEF CallById, CallStatuses, Begin
      <4>3. call'[c].op \in {"start", "stop", "restart", "use", "statuses"} BY <3>1, BeginTurns DEF Turns
      <4> QED BY <2>2, <4>1, <4>2, <4>3 DEF Changing
    <3>2. CASE \/ \E op \in {"close", "destroy"} : CallClose(c, op)
               \/ \E infos \in Configs : CallLoad(c, infos)
      BY <2>3, <3>2, ProgressBegins
    <3> QED BY <2>4, <3>1, <3>2 DEF Calls
  <2>5. CASE Proceeds(c)
    <3>1. UNCHANGED <<config, loads>>
      BY <2>5 DEF Proceeds, Finds, Sends, StartRefused, Iterates, DestroyedAll, LoadReturns, StartFails,
         StartOpens, StartSpawns, StartClient, StopEnters, StopJoins, DestroyBegins, DestroyEnds,
         Clears, Inserts, UsesFreed, IteratesDangling, Dies, history
    <3>2. Busy(c) /\ pc[c] # "idle" BY <2>5, ProceedsBusy DEF Busy
    <3>3. CASE ~Changing(c)
      <4>1. call[c].op \notin {"load", "close", "destroy"} BY <3>2, <3>3 DEF Changing
      <4>2. ~Changing(c)' BY <2>5, <4>1, SameOp DEF Changing
      <4>3. UNCHANGED maps
        <5>1. ~(pc[c] \in {"clear", "insert"}) BY <4>1 DEF Control, Entered
        <5> QED BY <2>5, <5>1 DEF Proceeds, Finds, Sends, StartRefused, Iterates, DestroyedAll, LoadReturns,
              StartFails, StartOpens, StartSpawns, StartClient, StopEnters, StopJoins, DestroyBegins,
              DestroyEnds, Clears, Inserts, UsesFreed, IteratesDangling, Dies, facade
      <4> QED BY <2>2, <3>1, <3>3, <4>2, <4>3
    <3>4. CASE Changing(c) /\ \E d \in Callers : d # c /\ Changing(d)
      BY <1>4, <2>1, <3>4 DEF Configured
    <3>5. CASE Changing(c) /\ \A d \in Callers : Changing(d) => d = c
      <4>1. Progress(c) BY <3>2, <3>5 DEF Configured
      <4>2. IF pc'[c] = "idle" THEN MapsAsConfigured' ELSE Progress(c)'
        BY <1>1, <2>5, <3>1, <3>5, <4>1, ProgressKept
      <4>3. CASE pc'[c] = "idle"
        <5>1. ~Changing(c)' BY <4>3 DEF Changing
        <5> QED BY <1>4, <4>2, <4>3, <5>1 DEF Configured
      <4>4. CASE pc'[c] # "idle"
        <5>1. call[c].op \in {"load", "close", "destroy"} BY <3>5 DEF Changing
        <5>2. Changing(c)' BY <2>5, <4>4, <5>1, SameOp DEF Changing
        <5> QED BY <2>3, <4>2, <4>4, <5>2
      <4> QED BY <4>3, <4>4
    <3> QED BY <3>3, <3>4, <3>5
  <2> QED BY <1>4, <2>4, <2>5
<1> QED BY <1>3, <1>4, BusySteps

-------------------------------------------------------------------------------
(* Theorems *)

LEMMA InitIInv == Init => IInv
<1> SUFFICES ASSUME Init PROVE IInv
  OBVIOUS
<1>1. Sessions = {} /\ Len(session) = 0 /\ session \in Seq(SessionRecord) BY DEF Init, Sessions
<1>2. /\ \A c \in Callers : pc[c] = "idle" /\ call[c] = NoCall
      /\ \A k \in Kinds, id \in Ids : maps[k][id] = 0
  BY DEF Init
<1>3. TypeOK
  <2>1. maps \in [Kinds -> [Ids -> 0..Len(session)]]
    <3>1. [id \in Ids |-> 0] \in [Ids -> 0..Len(session)] BY <1>1
    <3> QED BY <3>1 DEF Init
  <2>2. owner \in [Fds -> Foreign..Len(session)]
    <3>1. Foreign \in Foreign..Len(session) /\ Free \in Foreign..Len(session) BY <1>1, Bounds
    <3> QED BY <3>1 DEF Init
  <2>3. TableType BY <1>1, <2>1, <2>2 DEF TableType
  <2>4. CallType
    <3>1. pc \in [Callers -> PCs] BY DEF Init, PCs
    <3>2. call \in [Callers -> CallRecord] BY NoCallParts DEF Init
    <3>3. NoCall.target \in 0..Len(session) BY <1>1, NoCallParts
    <3>4. \A c \in Callers :
            /\ call[c].target \in 0..Len(session) /\ call[c].dying \subseteq Sessions
            /\ pc[c] \in {"start", "spawn", "stop", "join", "send", "wait"} => call[c].target # 0
      BY <1>2, <3>3, NoCallParts
    <3> QED BY <3>1, <3>2, <3>4 DEF CallType
  <2>5. HistoryType
    <3>1. 0 \in 0..MaxCalls BY Bounds
    <3>2. calls = 0 /\ loads = 0 /\ config = <<>> /\ overlapped = FALSE /\ strayed = FALSE /\ holders = {}
      BY DEF Init
    <3> QED BY <3>1, <3>2, Nothing DEF HistoryType
  <2> QED BY <2>3, <2>4, <2>5 DEF Init, TypeOK
<1>4. Control BY <1>2, NoCallParts DEF Control, Entered
<1>5. MapsHoldLiving BY <1>2 DEF MapsHoldLiving
<1>6. Workers BY <1>1, <1>2 DEF Workers
<1>7. OneBusy BY <1>2, NoCallParts DEF OneBusy, Busy
<1>8. AtHome BY <1>2 DEF AtHome, Busy
<1>9. Unstarted BY <1>1 DEF Unstarted
<1>10. Configured
  <2>1. config = <<>> /\ Emptied(4) BY <1>2 DEF Init, Emptied
  <2>2. MapsAsConfigured BY <1>3, <2>1, FilledEnds
  <2> QED BY <1>2, <2>2 DEF Configured, Changing
<1>11. Own
  <2>1. \A c \in Callers : Handles(c) BY <1>2 DEF Handles
  <2> QED BY <1>1, <2>1 DEF Own
<1>12. Alive BY DEF Init, Alive
<1> QED BY <1>3, <1>4, <1>5, <1>6, <1>7, <1>8, <1>9, <1>10, <1>11, <1>12 DEF IInv

LEMMA IInvKept == IInv /\ [Next]_vars => IInv'
<1> SUFFICES ASSUME IInv, [Next]_vars PROVE IInv'
  OBVIOUS
<1>1. TypeOK /\ Control /\ MapsHoldLiving /\ Workers BY DEF IInv
<1>2. CASE Next
  <2>1. TypeOK' /\ Control' BY <1>1, <1>2, TypeOKKept
  <2>2. MapsHoldLiving' BY <1>1, <1>2, MapsHoldLivingKept
  <2>3. Workers' BY <1>1, <1>2, WorkersKept
  <2>4. overlapped \in BOOLEAN /\ (overlapped => overlapped') /\ (strayed => strayed')
    BY <1>1, <1>2, HistoryKept DEF TypeOK, HistoryType
  <2>5. ASSUME ~overlapped' PROVE Alive' /\ OneBusy' /\ AtHome' /\ Unstarted' /\ Configured'
    <3>1. Alive /\ OneBusy /\ AtHome /\ Unstarted /\ Configured BY <2>4, <2>5 DEF IInv
    <3>2. Alive' BY <1>1, <1>2, <3>1, StaysAlive
    <3>3. OneBusy' BY <1>1, <1>2, <2>5, <3>1, OneBusyKept
    <3>4. AtHome' BY <1>1, <1>2, <2>5, <3>1, AtHomeKept
    <3>5. Unstarted' BY <1>1, <1>2, <2>5, <3>1, UnstartedKept
    <3>6. Configured' BY <1>1, <1>2, <2>5, <3>1, ConfiguredKept
    <3> QED BY <3>2, <3>3, <3>4, <3>5, <3>6
  <2>6. ASSUME ~overlapped', ~strayed' PROVE Own'
    <3>1. Alive /\ OneBusy /\ AtHome /\ Own BY <2>4, <2>6 DEF IInv
    <3> QED BY <1>1, <1>2, <2>6, <3>1, OwnKept
  <2> QED BY <2>1, <2>2, <2>3, <2>5, <2>6 DEF IInv
<1>3. CASE UNCHANGED vars
  <2>1. TypeOK' = TypeOK /\ Control' = Control /\ MapsHoldLiving' = MapsHoldLiving /\ Workers' = Workers
    BY <1>3 DEF vars, facade, history, sockets, TypeOK, TableType, CallType, HistoryType, Sessions, Control, Entered,
       MapsHoldLiving, Workers, Target
  <2>2. Alive' = Alive /\ OneBusy' = OneBusy /\ AtHome' = AtHome /\ Unstarted' = Unstarted
    BY <1>3 DEF vars, facade, history, Alive, OneBusy, Busy, Waiting, AtHome, InMap, Target, Unstarted, Unused,
       Sessions
  <2>3. Configured' = Configured
    BY <1>3 DEF vars, facade, history, Configured, Changing, Busy, Waiting, Target, MapsAsConfigured, Entries,
       Progress, Emptied, Filled
  <2>4. Own' = Own
    BY <1>3 DEF vars, facade, history, sockets, Own, Sessions, Holds, HasSocket, Running, Handles, Target
  <2>5. overlapped' = overlapped /\ strayed' = strayed BY <1>3 DEF vars, history, sockets
  <2> QED BY <2>1, <2>2, <2>3, <2>4, <2>5 DEF IInv
<1> QED BY <1>2, <1>3

\* In every reachable state, with any threads calling in any order, the maps name sessions
\* that were constructed, the descriptor table names sessions that exist, and a call at a
\* handler has a session it is at.
THEOREM FacadeTypeCorrect == Spec => []TypeOK
<1>1. IInv => TypeOK BY DEF IInv
<1> QED BY <1>1, InitIInv, IInvKept, PTL DEF Spec

\* However the calls of any number of threads interleave, a handler's memory is given up
\* only when its threads are gone, and without overlapping calls a handler that was
\* started at most once leaves no descriptor behind (the destructors of udp_handler,
\* tcp_server_handler, tcp_client_handler and serial_handler, AsyncKJW::close).
THEOREM FacadeNothingOutlivesItsHandler == Spec => []NothingOutlivesItsHandler
<1>1. IInv => NothingOutlivesItsHandler
  <2> SUFFICES ASSUME IInv, NEW s \in Sessions, session[s].phase = "dead"
               PROVE  /\ ~Running(s)
                      /\ ~overlapped /\ session[s].starts <= 1 => \A f \in Fds : owner[f] # s
    BY DEF NothingOutlivesItsHandler
  <2>1. session[s].gens = 0 BY DEF IInv, Workers
  <2>2. ASSUME ~overlapped, session[s].starts <= 1, NEW f \in Fds PROVE owner[f] # s
    BY <2>1, <2>2 DEF IInv, Unstarted, Unused
  <2> QED BY <2>1, <2>2 DEF Running
<1> QED BY <1>1, InitIInv, IInvKept, PTL DEF Spec

\* As long as no call overlapped another one and every close() was of a socket that its
\* handler had opened and not closed, the number a session with workers got from its last
\* socket() is open and its own: no stop(), destructor or start() of another session, and
\* none of its own that waits, took it away, whatever the constructors left in the members.
THEOREM FacadeSocketsAreOwn == Spec => []SocketsAreOwn
<1>1. IInv => SocketsAreOwn
  <2> SUFFICES ASSUME IInv, ~strayed, ~overlapped, NEW s \in Sessions, HasSocket(s)
               PROVE  session[s].member \in Fds /\ owner[session[s].member] = s
    BY DEF SocketsAreOwn
  <2> QED BY DEF IInv, Own, Holds
<1> QED BY <1>1, InitIInv, IInvKept, PTL DEF Spec

\* Called by one thread at a time, or while the others are in a stop() that never returns,
\* the facade does not bring the process down, and outside load() and close() its maps
\* hold the sessions of the last load() and no others, the first of every id and kind, for
\* every file, also one that names an id twice or has a type that does not exist.
THEOREM FacadeConfiguredUnlessOverlapped == Spec => []ConfiguredUnlessOverlapped
<1>1. IInv => ConfiguredUnlessOverlapped BY DEF IInv, Configured, Changing, ConfiguredUnlessOverlapped
<1> QED BY <1>1, InitIInv, IInvKept, PTL DEF Spec
===============================================================================
