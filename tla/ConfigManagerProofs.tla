-------------------------- MODULE ConfigManagerProofs --------------------------
(***************************************************************************)
(* load_ini() never undoes what it has read and stores only values that    *)
(* fit, for any file whatever; and what it reads of a well-formed file, of *)
(* any length, is what the sections of the file mean one by one.           *)
(*                                                                         *)
(* Kept: of the cases of ReadsLine only three touch the list.  A header    *)
(* and the end of the file append to it; a port rewrites elements, and     *)
(* only their destinations, where map::insert keeps what is there.  KInv   *)
(* says just as much of the types as that needs, TInv all of them.         *)
(*                                                                         *)
(* Read: SectionRead and SessionsRead say what the reader's variables are  *)
(* after n lines of a well-formed file: temp_session, or parent and dest,  *)
(* what the keys below the current header set; the list, the interfaces    *)
(* above that header, each at its place and with the ports read so far of  *)
(* the sections that name it.  One lemma for each kind of line carries     *)
(* this on (PortIsRead, HeaderIsRead, SkippedIsRead, KeyIsRead),           *)
(* EverythingIsRead ends it.                                               *)
(***************************************************************************)
EXTENDS ConfigManager, FiniteSetTheorems, WellFoundedInduction, TLAPS

IsList(l) == Len(l) \in Nat /\ l = [i \in 1..Len(l) |-> l[i]]

Fields == {"section", "temp", "parent", "dest", "ip", "sessions", "failed"}
Shape(r) ==
  /\ DOMAIN r = Fields
  /\ "dests" \in DOMAIN r.temp
  /\ IsList(r.sessions)
  /\ \A i \in 1..Len(r.sessions) : "dests" \in DOMAIN r.sessions[i]

Keeps(l, m) == Len(m) >= Len(l) /\ \A i \in DOMAIN l : Extends(l[i], m[i])

KInv ==
  /\ Shape(reader)
  /\ pc \in {"open", "read"} => session_infos = reader.sessions

-------------------------------------------------------------------------------
LEMMA ListFacts ==
  ASSUME NEW l, IsList(l)
  PROVE  l \in Seq({l[i] : i \in 1..Len(l)}) /\ DOMAIN l = 1..Len(l)
BY DEF IsList

LEMMA SequenceIsList ==
  ASSUME NEW S, NEW q \in Seq(S)
  PROVE  IsList(q)
BY DEF IsList

LEMMA AppendList ==
  ASSUME NEW l, IsList(l), NEW x
  PROVE  /\ IsList(Append(l, x)) /\ Len(Append(l, x)) = Len(l) + 1
         /\ \A i \in 1..Len(l) : Append(l, x)[i] = l[i]
         /\ Append(l, x)[Len(l) + 1] = x
<1> DEFINE S == {l[i] : i \in 1..Len(l)} \cup {x}
<1>1. l \in Seq(S) /\ x \in S BY DEF IsList
<1> HIDE DEF S
<1>2. Append(l, x) \in Seq(S) /\ Len(l) \in Nat BY <1>1
<1>3. /\ Len(Append(l, x)) = Len(l) + 1 /\ \A i \in 1..Len(l) : Append(l, x)[i] = l[i]
      /\ Append(l, x)[Len(l) + 1] = x
  BY <1>1
<1>4. IsList(Append(l, x)) BY <1>2, SequenceIsList
<1> QED BY <1>3, <1>4

\* A session is an extension of itself.
LEMMA KeepsItself ==
  ASSUME NEW l, IsList(l)
  PROVE  Keeps(l, l)
BY DEF IsList, Keeps, Extends

\* Storing the interface above keeps the list.
LEMMA KeepsAppended ==
  ASSUME NEW l, IsList(l), NEW x
  PROVE  Keeps(l, Append(l, x))
<1>1. \A i \in DOMAIN l : Append(l, x)[i] = l[i] BY AppendList, ListFacts
<1>2. Len(Append(l, x)) >= Len(l) BY AppendList DEF IsList
<1> QED BY <1>1, <1>2 DEF Keeps, Extends

\* map::insert keeps what is there.
LEMMA ExtendsWithDestination ==
  ASSUME NEW s, "dests" \in DOMAIN s, NEW r, NEW port
  PROVE  Extends(s, WithDestination(s, r, port)) /\ "dests" \in DOMAIN WithDestination(s, r, port)
<1> DEFINE t == [s EXCEPT !.dests = Attached(@, r.dest, <<r.ip, port>>)]
<1>1. t.dests = Attached(s.dests, r.dest, <<r.ip, port>>) /\ DOMAIN t = DOMAIN s OBVIOUS
<1>2. \A d \in DOMAIN s.dests : d \in DOMAIN t.dests /\ t.dests[d] = s.dests[d]
  BY <1>1 DEF Attached, Inserted
<1>3. [s EXCEPT !.dests = <<>>] = [t EXCEPT !.dests = <<>>] OBVIOUS
<1>4. Extends(s, t) BY <1>2, <1>3 DEF Extends
<1>5. Extends(s, s) BY DEF Extends
<1> QED BY <1>1, <1>4, <1>5 DEF WithDestination

-------------------------------------------------------------------------------
(* The lines *)

\* Lines that change other variables than the list.
LEMMA OtherLine ==
  ASSUME NEW r, Shape(r), NEW s, DOMAIN s = Fields, s.sessions = r.sessions, "dests" \in DOMAIN s.temp
  PROVE  Shape(s) /\ Keeps(r.sessions, s.sessions)
BY KeepsItself DEF Shape

LEMMA HeaderLine ==
  ASSUME NEW r, Shape(r), NEW line
  PROVE  Shape(ReadsHeader(r, line)) /\ Keeps(r.sessions, ReadsHeader(r, line).sessions)
<1> DEFINE s == ReadsHeader(r, line)
<1>1. /\ DOMAIN s = Fields
      /\ s.sessions = r.sessions \/ s.sessions = Append(r.sessions, r.temp)
      /\ s.temp = r.temp \/ s.temp = NoSession
  BY DEF ReadsHeader, Shape, Fields
<1> HIDE DEF s
<1>2. "dests" \in DOMAIN s.temp BY <1>1 DEF Shape, NoSession
<1>3. ASSUME s.sessions = r.sessions PROVE Shape(s) /\ Keeps(r.sessions, s.sessions)
  BY <1>1, <1>2, <1>3, OtherLine
<1>4. ASSUME s.sessions = Append(r.sessions, r.temp) PROVE Shape(s) /\ Keeps(r.sessions, s.sessions)
  <2>1. IsList(r.sessions) BY DEF Shape
  <2>2. /\ IsList(s.sessions) /\ Len(s.sessions) = Len(r.sessions) + 1 /\ Len(r.sessions) \in Nat
        /\ \A i \in 1..Len(r.sessions) : s.sessions[i] = r.sessions[i]
        /\ s.sessions[Len(r.sessions) + 1] = r.temp
    BY <1>4, <2>1, AppendList DEF IsList
  <2>3. \A i \in 1..Len(s.sessions) : "dests" \in DOMAIN s.sessions[i] BY <2>2 DEF Shape
  <2>4. Keeps(r.sessions, s.sessions) BY <1>4, <2>1, KeepsAppended
  <2> QED BY <1>1, <1>2, <2>2, <2>3, <2>4 DEF Shape
<1>5. Shape(s) /\ Keeps(r.sessions, s.sessions) BY <1>1, <1>3, <1>4
<1> QED BY <1>5 DEF s

LEMMA PortLine ==
  ASSUME NEW r, Shape(r), NEW line
  PROVE  Shape(ReadsPort(r, line)) /\ Keeps(r.sessions, ReadsPort(r, line).sessions)
<1> DEFINE s == ReadsPort(r, line)
<1>1. \/ DOMAIN s = Fields /\ s.sessions = r.sessions /\ s.temp = r.temp
      \/ /\ DOMAIN s = Fields /\ s.temp = r.temp
         /\ s.sessions = [i \in DOMAIN r.sessions |-> WithDestination(r.sessions[i], r, Unsigned(line.value))]
  BY DEF ReadsPort, Shape, Fields
<1> HIDE DEF s
<1>2. ASSUME DOMAIN s = Fields, s.sessions = r.sessions, s.temp = r.temp
      PROVE  Shape(s) /\ Keeps(r.sessions, s.sessions)
  BY <1>2, OtherLine DEF Shape
<1>3. ASSUME DOMAIN s = Fields, s.temp = r.temp,
             s.sessions = [i \in DOMAIN r.sessions |-> WithDestination(r.sessions[i], r, Unsigned(line.value))]
      PROVE  Shape(s) /\ Keeps(r.sessions, s.sessions)
  <2>1. IsList(r.sessions) /\ DOMAIN r.sessions = 1..Len(r.sessions) /\ Len(r.sessions) \in Nat
    BY ListFacts DEF Shape, IsList
  <2>2. DOMAIN s.sessions = 1..Len(r.sessions)
        /\ \A i \in 1..Len(r.sessions) : s.sessions[i] = WithDestination(r.sessions[i], r, Unsigned(line.value))
    BY <1>3, <2>1
  <2>3. s.sessions = [i \in 1..Len(r.sessions) |-> s.sessions[i]] BY <1>3, <2>1
  <2>4. s.sessions \in Seq({s.sessions[i] : i \in 1..Len(r.sessions)}) BY <2>1, <2>3
  <2>5. Len(s.sessions) = Len(r.sessions) /\ IsList(s.sessions) BY <2>1, <2>2, <2>4, SequenceIsList
  <2>6. ASSUME NEW i \in 1..Len(r.sessions)
        PROVE  Extends(r.sessions[i], s.sessions[i]) /\ "dests" \in DOMAIN s.sessions[i]
    <3>1. "dests" \in DOMAIN r.sessions[i] BY DEF Shape
    <3> QED BY <2>2, <3>1, ExtendsWithDestination
  <2>7. Keeps(r.sessions, s.sessions) BY <2>1, <2>5, <2>6 DEF Keeps
  <2> QED BY <1>3, <2>5, <2>6, <2>7 DEF Shape
<1>4. Shape(s) /\ Keeps(r.sessions, s.sessions) BY <1>1, <1>2, <1>3
<1> QED BY <1>4 DEF s

LEMMA KeyLine ==
  ASSUME NEW r, Shape(r), NEW line
  PROVE  Shape(ReadsKey(r, line)) /\ Keeps(r.sessions, ReadsKey(r, line).sessions)
<1> DEFINE s == ReadsKey(r, line)
<1>1. DOMAIN s = Fields /\ s.sessions = r.sessions /\ DOMAIN s.temp = DOMAIN r.temp
  BY DEF ReadsKey, Shape, Fields
<1> HIDE DEF s
<1>2. Shape(s) /\ Keeps(r.sessions, s.sessions) BY <1>1, OtherLine DEF Shape
<1> QED BY <1>2 DEF s

LEMMA DestinationLine ==
  ASSUME NEW r, Shape(r), NEW line
  PROVE  Shape(ReadsDestinationKey(r, line)) /\ Keeps(r.sessions, ReadsDestinationKey(r, line).sessions)
<1> DEFINE s == ReadsDestinationKey(r, line)
<1>1. DOMAIN s = Fields /\ s.sessions = r.sessions /\ s.temp = r.temp
  BY DEF ReadsDestinationKey, Shape, Fields
<1> HIDE DEF s
<1>2. Shape(s) /\ Keeps(r.sessions, s.sessions) BY <1>1, OtherLine DEF Shape
<1> QED BY <1>2 DEF s

LEMMA EveryLine ==
  ASSUME NEW r, Shape(r), NEW line
  PROVE  Shape(ReadsLine(r, line)) /\ Keeps(r.sessions, ReadsLine(r, line).sessions)
<1>1. \/ ReadsLine(r, line) = r
      \/ ReadsLine(r, line) = ReadsPort(r, line)
      \/ ReadsLine(r, line) = ReadsHeader(r, line)
      \/ ReadsLine(r, line) = ReadsDestinationKey(r, line)
      \/ ReadsLine(r, line) = ReadsKey(r, line)
  BY DEF ReadsLine
<1>2. Keeps(r.sessions, r.sessions) BY KeepsItself DEF Shape
<1> QED BY <1>1, <1>2, PortLine, HeaderLine, DestinationLine, KeyLine

-------------------------------------------------------------------------------
(* The theorem *)

LEMMA KInit == Init => KInv
<1> SUFFICES ASSUME Init PROVE KInv OBVIOUS
<1>1. /\ DOMAIN reader = Fields /\ reader.temp = NoSession /\ reader.sessions = <<>>
      /\ session_infos = <<>>
  BY DEF Init, Reader, Fields
<1>2. IsList(<<>>) /\ Len(<<>>) = 0
  <2>1. <<>> \in Seq({}) /\ Len(<<>>) = 0 OBVIOUS
  <2> QED BY <2>1, SequenceIsList
<1>3. \A i \in 1..Len(reader.sessions) : "dests" \in DOMAIN reader.sessions[i] BY <1>1, <1>2
<1>4. "dests" \in DOMAIN reader.temp BY <1>1 DEF NoSession
<1> QED BY <1>1, <1>2, <1>3, <1>4 DEF KInv, Shape

\* Every step keeps what the caller's list holds, and the invariant.
LEMMA KStep == KInv /\ [Next]_vars => KInv' /\ (Keeps(session_infos, session_infos') \/ UNCHANGED vars)
<1> SUFFICES ASSUME KInv, [Next]_vars
             PROVE  KInv' /\ (Keeps(session_infos, session_infos') \/ UNCHANGED vars)
  OBVIOUS
<1>1. CASE ReadLine
  <2>1. reader' = ReadsLine(reader, file[next]) /\ session_infos' = reader'.sessions /\ pc' = pc
        /\ session_infos = reader.sessions
    BY <1>1 DEF ReadLine, KInv
  <2>2. Shape(reader') /\ Keeps(reader.sessions, reader'.sessions) BY <2>1, EveryLine DEF KInv
  <2> QED BY <2>1, <2>2 DEF KInv
<1>2. CASE Returns
  <2>1. /\ UNCHANGED reader /\ pc' = "done" /\ session_infos = reader.sessions
        /\ session_infos' = reader.sessions \/ session_infos' = Append(reader.sessions, reader.temp)
    BY <1>2 DEF Returns, KInv, Ended
  <2>2. IsList(reader.sessions) BY DEF KInv, Shape
  <2>3. Keeps(session_infos, session_infos') BY <2>1, <2>2, KeepsItself, KeepsAppended
  <2> QED BY <2>1, <2>3 DEF KInv
<1>3. CASE Opens \/ CannotOpen
  <2>1. UNCHANGED <<reader, session_infos>> /\ pc = "open" BY <1>3 DEF Opens, CannotOpen
  <2>2. IsList(session_infos) BY <2>1 DEF KInv, Shape
  <2> QED BY <2>1, <2>2, KeepsItself DEF KInv
<1>4. CASE UNCHANGED vars BY <1>4 DEF KInv, vars
<1> QED BY <1>1, <1>2, <1>3, <1>4 DEF Next

\* Whatever the file, a line never undoes what was stored before it: interfaces keep
\* their place and fields, and destinations are only added (map::insert); neither the
\* end of the file nor an exception takes anything back.
THEOREM ConfigReadIsKept == Spec => ReadIsKept
<1>1. KInv /\ [Next]_vars =>
        KInv' /\ [/\ Len(session_infos') >= Len(session_infos)
                  /\ \A i \in DOMAIN session_infos : Extends(session_infos[i], session_infos'[i])]_vars
  BY KStep DEF Keeps
<1> QED BY KInit, <1>1, PTL DEF Spec, ReadIsKept

-------------------------------------------------------------------------------
(* Types *)

LEMMA FileFacts ==
  ASSUME NEW f \in Files
  PROVE  /\ Len(f) \in Nat /\ DOMAIN f = 1..Len(f)
         /\ \A i \in DOMAIN f :
              /\ f[i].is \in {"section", "key", "skipped"} /\ f[i].value \in Values
              /\ f[i].is = "section" => f[i].name \in {NoName, "conn", "dest"}
              /\ f[i].is = "skipped" => f[i].name \in {NoName, "DestinationPort"}
              /\ f[i].name = "DestinationAddress" => f[i].value # -1
<1>1. f \in Seq(Line) BY FilesAssumption
<1>2. \A i \in DOMAIN f : f[i] \in Line BY <1>1
<1>3. \A l \in Line : l.is \in {"section", "key", "skipped"} /\ l.value \in Values BY DEF Line
<1>4. Len(f) \in Nat /\ DOMAIN f = 1..Len(f) BY <1>1
<1>5. \A i \in DOMAIN f : f[i].is \in {"section", "key", "skipped"} /\ f[i].value \in Values
  BY <1>2, <1>3
<1>6. \A i \in DOMAIN f :
        /\ f[i].is = "section" => f[i].name \in {NoName, "conn", "dest"}
        /\ f[i].is = "skipped" => f[i].name \in {NoName, "DestinationPort"}
        /\ f[i].name = "DestinationAddress" => f[i].value # -1
  BY FilesAssumption
<1> QED BY <1>4, <1>5, <1>6

LEMMA ShortFacts ==
  /\ \A n \in Int : Short(n) \in Shorts
  /\ Short(-1) = -1 /\ Short(0) = 0
  /\ Shorts \subseteq Int /\ -1 \in Shorts /\ 0 \in Shorts
<1>1. ASSUME NEW n \in Int PROVE Short(n) \in Shorts
  <2>1. PICK m \in Int : m = n + 32768 OBVIOUS
  <2>2. m % 65536 \in 0..65535 BY <2>1
  <2>3. Short(n) = (m % 65536) - 32768 BY <2>1 DEF Short
  <2> QED BY <2>2, <2>3 DEF Shorts
<1>2. Short(-1) = -1 /\ Short(0) = 0 BY DEF Short
<1>3. Shorts \subseteq Int /\ -1 \in Shorts /\ 0 \in Shorts BY DEF Shorts
<1> QED BY <1>1, <1>2, <1>3

LEMMA UnsignedFacts ==
  /\ \A n \in Int : Unsigned(n) \in UInts
  /\ \A n \in UInts : Unsigned(n) = n
  /\ UInts \subseteq Int /\ 0 \in UInts
<1>1. UIntSize \in Int /\ UIntSize > 0 BY WidthsAssumption
<1>2. ASSUME NEW n \in Int PROVE Unsigned(n) \in UInts
  <2>1. n % UIntSize \in 0..(UIntSize - 1) BY <1>1
  <2> QED BY <2>1 DEF Unsigned, UInts
<1>3. ASSUME NEW n \in UInts PROVE Unsigned(n) = n
  <2>1. n \in Int /\ 0 <= n /\ n < UIntSize BY <1>1 DEF UInts
  <2>2. n % UIntSize = n BY <1>1, <2>1
  <2> QED BY <2>2 DEF Unsigned
<1>4. UInts \subseteq Int /\ 0 \in UInts BY <1>1 DEF UInts
<1> QED BY <1>2, <1>3, <1>4

\* What the conversions let through.
LEMMA RefusesFacts ==
  ASSUME NEW v \in Values
  PROVE  /\ ~StoiRefuses(v) => v \in Ints
         /\ ~StoulRefuses(v) => v \in Int
         /\ v \in Ints => v \in Int /\ ~StoiRefuses(v)
         /\ v \in Shorts => v \in Ints
         /\ v \in UInts => ~StoulRefuses(v)
         /\ -1 \in Ints
<1>1. IntMax \in Int /\ IntMax >= 32767 /\ ULongMax \in Int /\ ULongMax >= UIntSize - 1 /\ UIntSize \in Int
      /\ UIntSize > 0
  BY WidthsAssumption
<1>2. v \in Int \/ v = Refused BY DEF Values
<1>3. v \in Ints => v \in Int /\ v # Refused BY <1>1, RefusedAssumption DEF Ints
<1>4. v \in UInts => v \in Int /\ v # Refused /\ v \in (-ULongMax)..ULongMax
  BY <1>1, RefusedAssumption DEF UInts
<1>5. v \in Shorts => v \in Ints BY <1>1 DEF Shorts, Ints
<1>6. -1 \in Ints BY <1>1 DEF Ints
<1>7. ~StoiRefuses(v) => v \in Ints BY DEF StoiRefuses
<1>8. ~StoulRefuses(v) => v \in Int BY <1>2 DEF StoulRefuses
<1>9. v \in Ints => ~StoiRefuses(v) BY <1>3 DEF StoiRefuses
<1>10. v \in UInts => ~StoulRefuses(v) BY <1>4 DEF StoulRefuses
<1> QED BY <1>3, <1>5, <1>6, <1>7, <1>8, <1>9, <1>10

LEMMA FieldFacts ==
  /\ DOMAIN Field = {"ID", "ParentID", "DestinationID", "Type", "ListeningPort", "ServerPort",
                     "ClientPort", "SourcePort", "Port", "DestinationPort", "BaudRate"}
  /\ Field["ID"] = "id" /\ Field["ParentID"] = "id" /\ Field["DestinationID"] = "id"
  /\ Field["Type"] = "type" /\ Field["ListeningPort"] = "server" /\ Field["ServerPort"] = "server"
  /\ Field["ClientPort"] = "client" /\ Field["SourcePort"] = "udp"
  /\ Field["Port"] = "serial" /\ Field["DestinationPort"] = "serial"
  /\ Field["BaudRate"] = "baud"
BY DEF Field

LEMMA NoSessionType == IsSession(NoSession) /\ NoSession.dests = <<>> /\ NoSession.id = -1
<1>1. DOMAIN <<>> = {} OBVIOUS
<1>2. DOMAIN NoSession = {"id", "type", "server", "client", "udp", "serial", "baud", "dests"}
  BY DEF NoSession
<1>3. /\ NoSession.id = -1 /\ NoSession.type = 0 /\ NoSession.server = 0 /\ NoSession.client = 0
      /\ NoSession.udp = 0 /\ NoSession.serial = 0 /\ NoSession.baud = 0 /\ NoSession.dests = <<>>
  BY DEF NoSession
<1> HIDE DEF NoSession
<1> QED BY <1>1, <1>2, <1>3, ShortFacts, UnsignedFacts DEF IsSession, Values

IsStored(s) == IsSession(s) /\ s.id >= 0

\* The types of the reader's variables.
ReaderType(r) ==
  /\ r.section \in {NoName, "conn", "dest"} /\ IsSession(r.temp) /\ r.temp.dests = <<>>
  /\ r.parent \in Ints /\ r.dest \in Ints /\ r.ip \in Values /\ r.failed \in BOOLEAN
  /\ \A i \in DOMAIN r.sessions : IsStored(r.sessions[i])

LEMMA AttachedType ==
  ASSUME NEW s, IsSession(s), NEW r, r.dest \in Ints, r.ip \in Values, NEW port \in UInts
  PROVE  IsSession(WithDestination(s, r, port)) /\ WithDestination(s, r, port).id = s.id
<1> DEFINE t == [s EXCEPT !.dests = Attached(@, r.dest, <<r.ip, port>>)]
<1>1. /\ DOMAIN t = DOMAIN s /\ \A x \in DOMAIN s \ {"dests"} : t[x] = s[x]
      /\ t.dests = Attached(s.dests, r.dest, <<r.ip, port>>)
  BY DEF IsSession
<1>2. \A d \in DOMAIN t.dests : d \in Ints /\ t.dests[d] \in Values \X UInts
  BY <1>1 DEF Attached, Inserted, IsSession
<1> HIDE DEF t
<1>3. IsSession(t) /\ t.id = s.id BY <1>1, <1>2 DEF IsSession
<1> QED BY <1>3 DEF WithDestination, t

LEMMA StoredType ==
  ASSUME NEW s, IsSession(s), NEW name \in DOMAIN Field, NEW value \in Values, ~Refuses(Field[name], value)
  PROVE  /\ IsSession([s EXCEPT ![Field[name]] = Stored(Field[name], value)])
         /\ [s EXCEPT ![Field[name]] = Stored(Field[name], value)].dests = s.dests
<1>1. PICK x : x = Field[name] OBVIOUS
<1>2. x \in {"id", "type", "server", "client", "udp", "serial", "baud"} BY <1>1, FieldFacts
<1>3. PICK v : v = Stored(x, value) OBVIOUS
<1>4. /\ x \in {"id", "type"} => v \in Shorts
      /\ x \in {"server", "client", "udp", "baud"} => v \in UInts
      /\ x = "serial" => v \in Values
  <2>1. x \in {"id", "type"} => v = Short(value) /\ value \in Int
    BY <1>1, <1>3, RefusesFacts DEF Stored, Refuses
  <2>2. x \in {"server", "client", "udp", "baud"} => v = Unsigned(value) /\ value \in Int
    BY <1>1, <1>3, RefusesFacts DEF Stored, Refuses
  <2>3. x = "serial" => v = value BY <1>3 DEF Stored
  <2> QED BY <2>1, <2>2, <2>3, ShortFacts, UnsignedFacts
<1> DEFINE t == [s EXCEPT ![x] = v]
<1>5. DOMAIN t = DOMAIN s /\ t[x] = v /\ \A y \in DOMAIN s : y # x => t[y] = s[y]
  BY <1>2 DEF IsSession
<1>6. t.dests = s.dests BY <1>2, <1>5 DEF IsSession
<1> HIDE DEF t
<1>7. IsSession(t) BY <1>2, <1>4, <1>5, <1>6 DEF IsSession
<1> QED BY <1>1, <1>3, <1>6, <1>7 DEF t

LEMMA LineType ==
  ASSUME NEW r, Shape(r), ReaderType(r), NEW f \in Files, NEW n \in DOMAIN f
  PROVE  ReaderType(ReadsLine(r, f[n]))
<1>1. PICK line : line = f[n] OBVIOUS
<1>2. /\ line.is \in {"section", "key", "skipped"} /\ line.value \in Values
      /\ line.is = "section" => line.name \in {NoName, "conn", "dest"}
  BY <1>1, FileFacts
<1>3. DOMAIN r = Fields BY DEF Shape
<1>4. /\ ~StoiRefuses(line.value) => line.value \in Ints
      /\ ~StoulRefuses(line.value) => Unsigned(line.value) \in UInts
      /\ -1 \in Ints
  BY <1>2, RefusesFacts, UnsignedFacts
<1>5. DOMAIN r.sessions = 1..Len(r.sessions) /\ Len(r.sessions) \in Nat BY ListFacts DEF Shape, IsList
<1>6. ReaderType(ReadsPort(r, line))
  <2>1. CASE line.name = "DestinationPort" /\ ~StoulRefuses(line.value)
    <3> DEFINE s == [r EXCEPT !.ip = -1,
                      !.sessions = [i \in DOMAIN @ |-> WithDestination(@[i], r, Unsigned(line.value))]]
    <3>1. /\ s.section = r.section /\ s.temp = r.temp /\ s.parent = r.parent /\ s.dest = r.dest
          /\ s.ip = -1 /\ s.failed = r.failed
          /\ s.sessions = [i \in DOMAIN r.sessions |-> WithDestination(r.sessions[i], r, Unsigned(line.value))]
      BY <1>3 DEF Fields
    <3>2. ReadsPort(r, line) = s BY <2>1 DEF ReadsPort
    <3> HIDE DEF s
    <3>3. ASSUME NEW i \in DOMAIN s.sessions PROVE IsStored(s.sessions[i])
      <4>1. i \in DOMAIN r.sessions /\ s.sessions[i] = WithDestination(r.sessions[i], r, Unsigned(line.value)) BY <3>1
      <4>2. IsStored(r.sessions[i]) BY <4>1 DEF ReaderType
      <4>3. Unsigned(line.value) \in UInts /\ r.dest \in Ints /\ r.ip \in Values BY <1>4, <2>1 DEF ReaderType
      <4>4. /\ IsSession(WithDestination(r.sessions[i], r, Unsigned(line.value)))
            /\ WithDestination(r.sessions[i], r, Unsigned(line.value)).id = r.sessions[i].id
        BY <4>2, <4>3, AttachedType DEF IsStored
      <4> QED BY <4>1, <4>2, <4>4 DEF IsStored
    <3>4. -1 \in Values BY DEF Values
    <3> QED BY <3>1, <3>2, <3>3, <3>4 DEF ReaderType
  <2>2. CASE line.name # "DestinationPort"
    <3> DEFINE s == [r EXCEPT !.ip = -1]
    <3>1. /\ s.section = r.section /\ s.temp = r.temp /\ s.parent = r.parent /\ s.dest = r.dest
          /\ s.ip = -1 /\ s.failed = r.failed /\ s.sessions = r.sessions
      BY <1>3 DEF Fields
    <3>2. ReadsPort(r, line) = s BY <2>2 DEF ReadsPort
    <3> HIDE DEF s
    <3> QED BY <3>1, <3>2 DEF ReaderType, Values
  <2>3. CASE line.name = "DestinationPort" /\ StoulRefuses(line.value)
    BY <1>3, <2>3 DEF ReadsPort, ReaderType, Fields
  <2> QED BY <2>1, <2>2, <2>3
<1>7. ASSUME line.is = "section" PROVE ReaderType(ReadsHeader(r, line))
  <2> DEFINE s == ReadsHeader(r, line)
  <2>1. /\ s.section = line.name /\ s.ip = r.ip /\ s.failed = r.failed
        /\ s.parent = r.parent \/ s.parent = -1
        /\ s.dest = r.dest \/ s.dest = -1
        /\ \/ s.sessions = r.sessions /\ s.temp = r.temp
           \/ s.sessions = Append(r.sessions, r.temp) /\ s.temp = NoSession /\ r.temp.id >= 0
    BY <1>3 DEF ReadsHeader, Fields
  <2> HIDE DEF s
  <2>2. ASSUME s.sessions = r.sessions /\ s.temp = r.temp PROVE ReaderType(s)
    BY <1>2, <1>4, <1>7, <2>1, <2>2 DEF ReaderType
  <2>3. ASSUME s.sessions = Append(r.sessions, r.temp), s.temp = NoSession, r.temp.id >= 0
        PROVE  ReaderType(s)
    <3>1. /\ IsList(s.sessions) /\ Len(s.sessions) = Len(r.sessions) + 1
          /\ \A i \in 1..Len(r.sessions) : s.sessions[i] = r.sessions[i]
          /\ s.sessions[Len(r.sessions) + 1] = r.temp
      BY <2>3, AppendList DEF Shape
    <3>2. DOMAIN s.sessions = 1..Len(r.sessions) + 1 BY <3>1, ListFacts
    <3>3. \A i \in DOMAIN s.sessions : IsStored(s.sessions[i])
      BY <1>5, <2>3, <3>1, <3>2 DEF ReaderType, IsStored
    <3> QED BY <1>2, <1>4, <1>7, <2>1, <2>3, <3>3, NoSessionType DEF ReaderType
  <2>4. ReaderType(s) BY <2>1, <2>2, <2>3
  <2> QED BY <2>4 DEF s
<1>8. ReaderType(ReadsDestinationKey(r, line))
  <2> DEFINE s == ReadsDestinationKey(r, line)
  <2>1. /\ s.section = r.section /\ s.temp = r.temp /\ s.sessions = r.sessions
        /\ s.failed = r.failed \/ s.failed = TRUE
        /\ s.ip = r.ip \/ s.ip = line.value
        /\ s.parent = r.parent \/ (s.parent = line.value /\ ~StoiRefuses(line.value))
        /\ s.dest = r.dest \/ (s.dest = line.value /\ ~StoiRefuses(line.value))
    BY <1>3 DEF ReadsDestinationKey, Fields
  <2> HIDE DEF s
  <2>2. ReaderType(s) BY <1>2, <1>4, <2>1 DEF ReaderType
  <2> QED BY <2>2 DEF s
<1>9. ReaderType(ReadsKey(r, line))
  <2>1. CASE line.name \notin DOMAIN Field BY <2>1 DEF ReadsKey
  <2>2. CASE line.name \in DOMAIN Field /\ Refuses(Field[line.name], line.value)
    BY <1>3, <2>2 DEF ReadsKey, ReaderType, Fields
  <2>3. CASE line.name \in DOMAIN Field /\ ~Refuses(Field[line.name], line.value)
    <3> DEFINE t == [r.temp EXCEPT ![Field[line.name]] = Stored(Field[line.name], line.value)]
    <3>1. IsSession(t) /\ t.dests = <<>> BY <1>2, <1>4, <2>3, StoredType DEF ReaderType
    <3>2. ReadsKey(r, line) = [r EXCEPT !.temp = t] BY <2>3 DEF ReadsKey
    <3> HIDE DEF t
    <3> QED BY <1>3, <3>1, <3>2 DEF ReaderType, Fields
  <2> QED BY <2>1, <2>2, <2>3
<1> QED BY <1>1, <1>2, <1>6, <1>7, <1>8, <1>9 DEF ReadsLine

TInv ==
  /\ TypeOK /\ KInv /\ ReaderType(reader)
  /\ \A i \in DOMAIN session_infos : IsStored(session_infos[i])

LEMMA TypeIs ==
  ASSUME file \in Files, next \in 1..Len(file) + 1, pc \in {"open", "read", "done"}, ReaderType(reader),
         \A i \in DOMAIN session_infos : IsStored(session_infos[i])
  PROVE  TypeOK
BY DEF TypeOK, ReaderType, IsStored, ToSet

LEMMA TInit == Init => TInv
<1> SUFFICES ASSUME Init PROVE TInv OBVIOUS
<1>1. KInv BY KInit
<1>2. DOMAIN <<>> = {} OBVIOUS
<1>3. ReaderType(reader) /\ \A i \in DOMAIN session_infos : IsStored(session_infos[i])
  BY <1>2, NoSessionType, RefusesFacts DEF Init, Reader, ReaderType, Values
<1>4. file \in Files /\ next \in 1..Len(file) + 1 /\ pc \in {"open", "read", "done"}
  BY FileFacts DEF Init
<1> QED BY <1>1, <1>3, <1>4, TypeIs DEF TInv

LEMMA TStep == TInv /\ [Next]_vars => TInv'
<1> SUFFICES ASSUME TInv, [Next]_vars PROVE TInv' OBVIOUS
<1>1. KInv' BY KStep DEF TInv
<1>2. file' = file /\ file \in Files /\ Len(file) \in Nat
  BY FileFacts DEF TInv, TypeOK, Next, Opens, CannotOpen, ReadLine, Returns, vars
<1>3. /\ ReaderType(reader) /\ Shape(reader) /\ next \in 1..Len(file) + 1 /\ pc \in {"open", "read", "done"}
      /\ \A i \in DOMAIN session_infos : IsStored(session_infos[i])
  BY DEF TInv, TypeOK, KInv
<1>4. ASSUME ReaderType(reader)', next' \in 1..Len(file) + 1, pc' \in {"open", "read", "done"},
             \A i \in DOMAIN session_infos' : IsStored(session_infos'[i])
      PROVE  TInv'
  <2>1. TypeOK' BY <1>2, <1>4 DEF TypeOK, ReaderType, IsStored, ToSet
  <2> QED BY <1>1, <1>4, <2>1 DEF TInv
<1>5. CASE ReadLine
  <2>1. next \in DOMAIN file BY <1>2, <1>3, <1>5, FileFacts DEF ReadLine
  <2>2. ReaderType(reader)'
    <3>1. ReaderType(ReadsLine(reader, file[next])) BY <1>2, <1>3, <2>1, LineType
    <3> QED BY <1>5, <3>1 DEF ReadLine, ReaderType
  <2>3. session_infos' = reader'.sessions /\ pc' = "read" /\ next' \in 1..Len(file) + 1
    BY <1>2, <1>3, <1>5 DEF ReadLine
  <2> QED BY <1>4, <2>2, <2>3 DEF ReaderType
<1>6. CASE Returns
  <2>1. /\ UNCHANGED reader /\ pc' = "done" /\ UNCHANGED next
        /\ \/ session_infos' = reader.sessions
           \/ session_infos' = Append(reader.sessions, reader.temp) /\ reader.temp.id >= 0
    BY <1>6 DEF Returns, Ended
  <2>2. ReaderType(reader)' BY <1>3, <2>1 DEF ReaderType
  <2>3. \A i \in DOMAIN session_infos' : IsStored(session_infos'[i])
    <3>1. CASE session_infos' = reader.sessions BY <1>3, <3>1 DEF ReaderType
    <3>2. CASE session_infos' = Append(reader.sessions, reader.temp) /\ reader.temp.id >= 0
      <4> DEFINE l == reader.sessions
                 m == session_infos'
      <4>1. /\ IsList(m) /\ Len(m) = Len(l) + 1 /\ Len(l) \in Nat /\ DOMAIN l = 1..Len(l)
            /\ \A i \in 1..Len(l) : m[i] = l[i]
            /\ m[Len(l) + 1] = reader.temp
        BY <1>3, <3>2, AppendList, ListFacts DEF Shape, IsList
      <4>2. DOMAIN m = 1..Len(l) + 1 BY <4>1, ListFacts
      <4>3. \A i \in DOMAIN l : IsStored(l[i]) BY <1>3 DEF ReaderType
      <4>4. IsStored(reader.temp) BY <1>3, <3>2 DEF ReaderType, IsStored
      <4> HIDE DEF l, m
      <4>5. \A i \in DOMAIN m : IsStored(m[i]) BY <4>1, <4>2, <4>3, <4>4
      <4> QED BY <4>5 DEF m
    <3> QED BY <2>1, <3>1, <3>2
  <2> QED BY <1>3, <1>4, <2>1, <2>2, <2>3
<1>7. CASE Opens \/ CannotOpen
  <2>1. UNCHANGED <<next, reader, session_infos>> /\ pc' \in {"read", "done"} BY <1>7 DEF Opens, CannotOpen
  <2>2. ReaderType(reader)' BY <1>3, <2>1 DEF ReaderType
  <2> QED BY <1>3, <1>4, <2>1, <2>2
<1>8. CASE UNCHANGED vars
  BY <1>8, <1>1 DEF vars, TInv, TypeOK, ReaderType, ToSet
<1> QED BY <1>5, <1>6, <1>7, <1>8 DEF Next

\* Whatever the file, every interface that is loaded has an id and a type that fit a
\* short, an id that is not negative, ports and a baud rate that fit an unsigned int,
\* and destinations with an id that fits an int and such a port: a value its conversion
\* refuses ends the loop before anything of it is stored.
THEOREM ConfigTypeCorrect == Spec => []TypeOK
<1>1. TInv => TypeOK BY DEF TInv
<1> QED BY <1>1, TInit, TStep, PTL DEF Spec

-------------------------------------------------------------------------------
(* What the lines read so far mean: the header the reader stands under, the   *)
(* keys read below it, the interfaces with another header below them, and the *)
(* ports read so far of the destinations that name one.                       *)

At(f, n, h) == h <= n /\ \A j \in h+1..n : j \notin Sections(f)
Read(f, n, h) == {i \in Body(f, h) : i <= n}
Done(f, n) == {h \in Interfaces(f) : \E g \in Sections(f) : h < g /\ g <= n}
PortsRead(f, n, h) == {i \in PortsFor(f, h) : i <= n}

SectionRead(f, n, r) ==
  /\ ~r.failed
  /\ r.ip = IF n \in DOMAIN f /\ f[n].name = "DestinationAddress" THEN f[n].value ELSE -1
  /\ \/ r.section = NoName /\ r.temp = NoSession /\ \A h \in Sections(f) : h > n
     \/ \E h \in Sections(f) :
          /\ At(f, n, h) /\ r.section = f[h].name
          /\ f[h].name = "conn" => r.temp = SessionOf(f, Read(f, n, h), <<>>)
          /\ f[h].name = "dest" =>
               /\ r.temp = NoSession
               /\ r.parent = LastValue(f, Read(f, n, h), {"ParentID"}, -1)
               /\ r.dest = LastValue(f, Read(f, n, h), {"DestinationID"}, -1)

SessionsRead(f, n, r) ==
  /\ Len(r.sessions) = Cardinality(Done(f, n))
  /\ \A h \in Done(f, n) :
       r.sessions[Place(f, h)] = SessionOf(f, Body(f, h), DestinationsAt(f, PortsRead(f, n, h)))

LEMMA SectionFacts ==
  ASSUME NEW f \in Files
  PROVE  /\ Sections(f) \subseteq DOMAIN f /\ DOMAIN f \subseteq Nat /\ Interfaces(f) \subseteq Sections(f)
         /\ \A h \in Interfaces(f) : f[h].name = "conn"
         /\ \A h : Body(f, h) \subseteq DOMAIN f
         /\ NoName # "conn" /\ NoName # "dest" /\ NoName # "DestinationAddress" /\ NoName # "DestinationPort"
<1>1. Sections(f) \subseteq DOMAIN f /\ Interfaces(f) \subseteq Sections(f)
      /\ \A h \in Interfaces(f) : f[h].name = "conn"
  BY DEF Sections, Interfaces
<1>2. \A h : Body(f, h) \subseteq DOMAIN f BY DEF Body
<1>3. DOMAIN f \subseteq Nat BY FileFacts
<1>4. NoName # "conn" /\ NoName # "dest" /\ NoName # "DestinationAddress" /\ NoName # "DestinationPort"
  BY Zenon DEF NoName
<1> QED BY <1>1, <1>2, <1>3, <1>4

\* A key stands below one header, the last one above it.
LEMMA BodyIsBelow ==
  ASSUME NEW f \in Files, NEW h \in Sections(f), NEW i \in DOMAIN f, f[i].is = "key"
  PROVE  i \in Body(f, h) <=> h < i /\ At(f, i, h)
BY SectionFacts DEF Body, At

LEMMA OneHeader ==
  ASSUME NEW f \in Files, NEW n \in Nat, NEW g \in Sections(f), NEW h \in Sections(f), At(f, n, g), At(f, n, h)
  PROVE  g = h
<1>1. g \in Nat /\ h \in Nat BY SectionFacts
<1>2. ~(g < h) /\ ~(h < g) BY <1>1 DEF At
<1> QED BY <1>1, <1>2

\* A line that is no header.
LEMMA NextInSection ==
  ASSUME NEW f \in Files, NEW n \in Nat, n + 1 \in DOMAIN f, n + 1 \notin Sections(f)
  PROVE  /\ \A h \in Sections(f) : At(f, n, h) => At(f, n + 1, h)
         /\ (\A h \in Sections(f) : h > n) => \A h \in Sections(f) : h > n + 1
         /\ Done(f, n + 1) = Done(f, n)
         /\ \A h \in Sections(f) : At(f, n, h) =>
              Read(f, n + 1, h) = IF f[n + 1].is = "key" THEN Read(f, n, h) \cup {n + 1} ELSE Read(f, n, h)
<1>1. Sections(f) \subseteq Nat BY SectionFacts
<1>2. \A h \in Sections(f) : h <= n + 1 => h <= n BY <1>1
<1>3. \A h \in Sections(f) : At(f, n, h) => At(f, n + 1, h) BY <1>1 DEF At
<1>4. (\A h \in Sections(f) : h > n) => \A h \in Sections(f) : h > n + 1 BY <1>1, <1>2
<1>5. Done(f, n + 1) = Done(f, n)
  <2>1. \A g \in Sections(f) : g <= n + 1 <=> g <= n BY <1>1, <1>2
  <2> QED BY <2>1 DEF Done
<1>6. ASSUME NEW h \in Sections(f), At(f, n, h)
      PROVE  Read(f, n + 1, h) = IF f[n + 1].is = "key" THEN Read(f, n, h) \cup {n + 1} ELSE Read(f, n, h)
  <2>1. \A i \in Body(f, h) : i \in Nat /\ i <= n + 1 => i <= n \/ i = n + 1 BY SectionFacts
  <2>2. \A i \in Body(f, h) : i \in Nat BY SectionFacts
  <2>3. n + 1 \in Body(f, h) <=> f[n + 1].is = "key"
    <3>1. h < n + 1 /\ At(f, n + 1, h) BY <1>1, <1>3, <1>6 DEF At
    <3>2. f[n + 1].is = "key" => n + 1 \in Body(f, h) BY <3>1, BodyIsBelow
    <3>3. n + 1 \in Body(f, h) => f[n + 1].is = "key" BY DEF Body
    <3> QED BY <3>2, <3>3
  <2> QED BY <2>1, <2>2, <2>3 DEF Read
<1> QED BY <1>3, <1>4, <1>5, <1>6

\* The interfaces above the current header are done, and only they.
LEMMA DoneAbove ==
  ASSUME NEW f \in Files, NEW n \in Nat, NEW h \in Sections(f), At(f, n, h)
  PROVE  /\ h \notin Done(f, n)
         /\ \A g \in Sections(f) : g <= n => g <= h
         /\ \A g \in Interfaces(f) : g < h <=> g \in Done(f, n)
<1>1. Sections(f) \subseteq Nat /\ Interfaces(f) \subseteq Sections(f) BY SectionFacts
<1>2. h \in Nat /\ h <= n BY <1>1 DEF At
<1>3. \A g \in Sections(f) : g <= n => g <= h
  <2>1. ASSUME NEW g \in Sections(f), g <= n PROVE g <= h
    <3>1. g \in Nat BY <1>1
    <3>2. g \in h+1..n => FALSE BY DEF At
    <3> QED BY <1>2, <2>1, <3>1, <3>2
  <2> QED BY <2>1
<1>4. ASSUME NEW g \in Interfaces(f) PROVE g < h <=> g \in Done(f, n)
  <2>1. g \in Nat BY <1>1
  <2>2. g < h => g \in Done(f, n) BY <1>2 DEF Done
  <2>3. ASSUME g \in Done(f, n) PROVE g < h
    <3>1. PICK k \in Sections(f) : g < k /\ k <= n BY <2>3 DEF Done
    <3>2. k \in Nat /\ k <= h BY <1>1, <1>3, <3>1
    <3> QED BY <1>2, <2>1, <3>1, <3>2
  <2> QED BY <2>2, <2>3
<1>5. h \notin Done(f, n)
  <2>1. h \in Done(f, n) => h \in Interfaces(f) BY DEF Done
  <2> QED BY <1>2, <1>4, <2>1
<1> QED BY <1>3, <1>4, <1>5

\* A header.
LEMMA NextIsHeader ==
  ASSUME NEW f \in Files, NEW n \in Nat, n + 1 \in Sections(f)
  PROVE  /\ At(f, n + 1, n + 1) /\ Read(f, n + 1, n + 1) = {}
         /\ \A h \in Sections(f) : At(f, n, h) => Read(f, n, h) = Body(f, h)
         /\ (\A h \in Sections(f) : h > n) => Done(f, n + 1) = {} /\ Done(f, n) = {}
         /\ \A h \in Sections(f) : At(f, n, h) =>
              /\ h \notin Done(f, n)
              /\ Done(f, n + 1) = IF h \in Interfaces(f) THEN Done(f, n) \cup {h} ELSE Done(f, n)
<1>1. Sections(f) \subseteq Nat /\ Interfaces(f) \subseteq Sections(f) BY SectionFacts
<1>2. \A h \in Sections(f) : \A i \in Body(f, h) : i \in Nat /\ h < i BY SectionFacts DEF Body
<1>3. At(f, n + 1, n + 1) BY DEF At
<1>4. Read(f, n + 1, n + 1) = {} BY <1>2 DEF Read
<1>5. ASSUME NEW h \in Sections(f), At(f, n, h) PROVE Read(f, n, h) = Body(f, h)
  <2>1. ASSUME NEW i \in Body(f, h) PROVE i <= n
    <3>1. i \in Nat /\ \A j \in h+1..i : j \notin Sections(f) BY <1>2 DEF Body
    <3>2. h \in Nat /\ h <= n BY <1>1, <1>5 DEF At
    <3>3. n + 1 \in h+1..i => FALSE BY <3>1
    <3> QED BY <3>1, <3>2, <3>3
  <2> QED BY <2>1 DEF Read
<1>6. (\A h \in Sections(f) : h > n) => Done(f, n + 1) = {} /\ Done(f, n) = {} BY <1>1 DEF Done
<1>7. ASSUME NEW h \in Sections(f), At(f, n, h)
      PROVE  /\ h \notin Done(f, n)
             /\ Done(f, n + 1) = IF h \in Interfaces(f) THEN Done(f, n) \cup {h} ELSE Done(f, n)
  <2>1. h \in Nat /\ h <= n BY <1>1, <1>7 DEF At
  <2>2. \A g \in Sections(f) : g <= n => g <= h BY <1>7, DoneAbove
  <2>3. \A g \in Interfaces(f) : g \in Done(f, n) <=> g < h BY <1>7, DoneAbove
  <2>4. \A g \in Interfaces(f) : g \in Done(f, n + 1) <=> g <= h
    <3>1. ASSUME NEW g \in Interfaces(f) PROVE g \in Done(f, n + 1) <=> g <= h
      <4>1. g \in Nat BY <1>1
      <4>2. g <= h => g \in Done(f, n + 1)
        <5>1. g <= h => g < n + 1 /\ n + 1 <= n + 1 BY <2>1, <4>1
        <5> QED BY <5>1 DEF Done
      <4>3. ASSUME g \in Done(f, n + 1) PROVE g <= h
        <5>1. PICK k \in Sections(f) : g < k /\ k <= n + 1 BY <4>3 DEF Done
        <5>2. k \in Nat /\ g \in Sections(f) /\ g <= n BY <1>1, <4>1, <5>1
        <5> QED BY <2>2, <5>2
      <4> QED BY <4>2, <4>3
    <3> QED BY <3>1
  <2>5. Done(f, n) \subseteq Interfaces(f) /\ Done(f, n + 1) \subseteq Interfaces(f) BY DEF Done
  <2>6. \A g \in Interfaces(f) : g <= h <=> g < h \/ g = h BY <1>1, <2>1
  <2>7. h \notin Done(f, n) BY <2>1, <2>3, <2>5
  <2> QED BY <2>3, <2>4, <2>5, <2>6, <2>7
<1> QED BY <1>3, <1>4, <1>5, <1>6, <1>7

\* Interfaces are stored in the order of the file: the one that ends here has the
\* next place, those stored before it have theirs.
LEMMA PlaceFacts ==
  ASSUME NEW f \in Files, NEW n \in Nat
  PROVE  /\ Cardinality(Done(f, n)) \in Nat
         /\ \A g \in Done(f, n) : Place(f, g) \in 1..Cardinality(Done(f, n))
         /\ \A h \in Interfaces(f) :
              h \notin Done(f, n) /\ (\A g \in Interfaces(f) : g < h <=> g \in Done(f, n)) =>
                Place(f, h) = Cardinality(Done(f, n)) + 1 /\ Cardinality(Done(f, n) \cup {h}) = Cardinality(Done(f, n)) + 1
<1>1. IsFiniteSet(Interfaces(f)) /\ Interfaces(f) \subseteq Nat /\ Interfaces(f) \subseteq Sections(f)
      /\ Sections(f) \subseteq Nat
  <2>1. IsFiniteSet(DOMAIN f) /\ DOMAIN f \subseteq Nat
    <3>1. Len(f) \in Nat /\ DOMAIN f = 1..Len(f) BY FileFacts
    <3> QED BY <3>1, FS_Interval
  <2>2. Interfaces(f) \subseteq DOMAIN f /\ Interfaces(f) \subseteq Sections(f) /\ Sections(f) \subseteq Nat
    BY <2>1, SectionFacts
  <2> QED BY <2>1, <2>2, FS_Subset
<1>2. Done(f, n) \subseteq Interfaces(f) BY DEF Done
<1>3. IsFiniteSet(Done(f, n)) /\ Cardinality(Done(f, n)) \in Nat
  BY <1>1, <1>2, FS_Subset, FS_CardinalityType
<1>4. ASSUME NEW g \in Done(f, n) PROVE Place(f, g) \in 1..Cardinality(Done(f, n))
  <2> DEFINE T == {k \in Interfaces(f) : k <= g}
  <2>1. PICK c \in Sections(f) : g < c /\ c <= n BY DEF Done
  <2>2. g \in Nat /\ c \in Nat /\ g \in Interfaces(f) BY <1>1, <1>2, <2>1
  <2>3. ASSUME NEW k \in T PROVE k \in Done(f, n)
    <3>1. k \in Interfaces(f) /\ k <= g /\ k \in Nat BY <1>1
    <3>2. k < c BY <2>1, <2>2, <3>1
    <3> QED BY <2>1, <3>1, <3>2 DEF Done
  <2>4. T \subseteq Done(f, n) BY <2>3
  <2>5. g \in T BY <2>2
  <2> HIDE DEF T
  <2>6. IsFiniteSet(T) /\ Cardinality(T) <= Cardinality(Done(f, n)) BY <1>3, <2>4, FS_Subset
  <2>7. Cardinality(T) \in Nat /\ Cardinality(T) # 0 BY <2>5, <2>6, FS_CardinalityType, FS_EmptySet
  <2>8. Place(f, g) = Cardinality(T) BY DEF Place, T
  <2> QED BY <1>3, <2>6, <2>7, <2>8
<1>5. ASSUME NEW h \in Interfaces(f), h \notin Done(f, n), \A g \in Interfaces(f) : g < h <=> g \in Done(f, n)
      PROVE  Place(f, h) = Cardinality(Done(f, n)) + 1
             /\ Cardinality(Done(f, n) \cup {h}) = Cardinality(Done(f, n)) + 1
  <2>1. Cardinality(Done(f, n) \cup {h}) = Cardinality(Done(f, n)) + 1 BY <1>3, <1>5, FS_AddElement
  <2>2. \A g \in Interfaces(f) : g <= h <=> g \in Done(f, n) \/ g = h BY <1>1, <1>5
  <2>3. {g \in Interfaces(f) : g <= h} = Done(f, n) \cup {h} BY <1>2, <2>2
  <2> QED BY <2>1, <2>3 DEF Place
<1> QED BY <1>3, <1>4, <1>5

\* The last line of a body decides on the value of its key.
LEMMA MaxIs ==
  ASSUME NEW S \in SUBSET Nat, NEW x \in S, \A y \in S : y <= x
  PROVE  Max(S) = x
<1>1. x \in Nat /\ \A y \in S : y \in Nat OBVIOUS
<1>2. \A y \in S : x >= y BY <1>1
<1>3. \A z \in S : (\A y \in S : z >= y) => z = x BY <1>1, <1>2
<1> QED BY <1>2, <1>3 DEF Max

LEMMA MinIs ==
  ASSUME NEW S \in SUBSET Nat, NEW x \in S, \A y \in S : x <= y
  PROVE  Min(S) = x
<1>1. x \in Nat /\ \A y \in S : y \in Nat OBVIOUS
<1>2. \A y \in S : x <= y OBVIOUS
<1>3. \A z \in S : (\A y \in S : z <= y) => z = x BY <1>1, <1>2
<1> QED BY <1>2, <1>3 DEF Min

\* A line below all others is not the first.
LEMMA MinKept ==
  ASSUME NEW S \in SUBSET Nat, S # {}, NEW m \in Nat, \A y \in S : y < m
  PROVE  Min(S \cup {m}) = Min(S)
<1>1. PICK x \in S : \A y \in S : <<y, x>> \notin OpToRel(<, Nat)
  BY WFMin, NatLessThanWellFounded, Zenon
<1>2. \A y \in S : ~(y < x) BY <1>1, Zenon DEF OpToRel
<1>3. x \in Nat /\ x < m /\ \A y \in S : x <= y BY <1>2
<1>4. Min(S) = x BY <1>3, MinIs
<1>5. \A y \in S \cup {m} : x <= y BY <1>3
<1>6. S \cup {m} \in SUBSET Nat /\ x \in S \cup {m} OBVIOUS
<1>7. Min(S \cup {m}) = x BY <1>5, <1>6, MinIs
<1> QED BY <1>4, <1>7

LEMMA LastValueNew ==
  ASSUME NEW f \in Files, NEW S \in SUBSET Nat, NEW m \in Nat, \A y \in S : y < m, NEW names, NEW default
  PROVE  LastValue(f, S \cup {m}, names, default) =
           IF f[m].name \in names THEN f[m].value ELSE LastValue(f, S, names, default)
<1> DEFINE hits == {i \in S \cup {m} : f[i].name \in names}
<1>1. ASSUME f[m].name \in names PROVE LastValue(f, S \cup {m}, names, default) = f[m].value
  <2>1. hits \in SUBSET Nat /\ m \in hits /\ hits # {}
    <3>1. m \in hits BY <1>1
    <3>2. hits \in SUBSET Nat OBVIOUS
    <3> QED BY <3>1, <3>2
  <2>4. \A y \in hits : y <= m
    <3>1. \A y \in S : y \in Nat /\ y <= m OBVIOUS
    <3> QED BY <3>1
  <2>2. LastValue(f, S \cup {m}, names, default) = IF hits = {} THEN default ELSE f[Max(hits)].value
    BY DEF LastValue
  <2> HIDE DEF hits
  <2>3. Max(hits) = m BY <2>1, <2>4, MaxIs
  <2> QED BY <2>1, <2>2, <2>3
<1>2. ASSUME f[m].name \notin names
      PROVE  LastValue(f, S \cup {m}, names, default) = LastValue(f, S, names, default)
  <2>1. hits = {i \in S : f[i].name \in names} BY <1>2
  <2>2. LastValue(f, S \cup {m}, names, default) = IF hits = {} THEN default ELSE f[Max(hits)].value
    BY DEF LastValue
  <2>3. LastValue(f, S, names, default) =
          IF {i \in S : f[i].name \in names} = {} THEN default ELSE f[Max({i \in S : f[i].name \in names})].value
    BY DEF LastValue
  <2> HIDE DEF hits
  <2> QED BY <2>1, <2>2, <2>3
<1> QED BY <1>1, <1>2

LEMMA LastValueNone ==
  ASSUME NEW f, NEW S, NEW names, \A i \in S : f[i].name \notin names, NEW default
  PROVE  LastValue(f, S, names, default) = default
<1>1. {i \in S : f[i].name \in names} = {} OBVIOUS
<1> QED BY <1>1 DEF LastValue

-------------------------------------------------------------------------------
(* Destinations *)

LEMMA DestinationsNew ==
  ASSUME NEW f, NEW P \in SUBSET Nat, NEW m \in Nat, \A y \in P : y < m
  PROVE  DestinationsAt(f, P \cup {m}) =
           Inserted(DestinationsAt(f, P), DestinationId(f, m), <<f[m - 1].value, Unsigned(f[m].value)>>)
<1> DEFINE Hits(d) == {i \in P : DestinationId(f, i) = d}
           Ids == {DestinationId(f, i) : i \in P}
           To(i) == <<f[i - 1].value, Unsigned(f[i].value)>>
           old == DestinationsAt(f, P)
           new == DestinationsAt(f, P \cup {m})
           e == DestinationId(f, m)
<1>1. old = [d \in Ids |-> To(Min(Hits(d)))] BY DEF DestinationsAt
<1>2. new = [d \in Ids \cup {e} |-> To(Min({i \in P \cup {m} : DestinationId(f, i) = d}))]
  <2>1. {DestinationId(f, i) : i \in P \cup {m}} = Ids \cup {e} OBVIOUS
  <2> QED BY <2>1 DEF DestinationsAt
<1>3. ASSUME NEW d \in Ids PROVE Min({i \in P \cup {m} : DestinationId(f, i) = d}) = Min(Hits(d))
  <2>1. Hits(d) \in SUBSET Nat /\ Hits(d) # {} /\ \A y \in Hits(d) : y < m OBVIOUS
  <2>2. {i \in P \cup {m} : DestinationId(f, i) = d} = IF e = d THEN Hits(d) \cup {m} ELSE Hits(d) OBVIOUS
  <2> HIDE DEF Hits, Ids, e
  <2>3. Min(Hits(d) \cup {m}) = Min(Hits(d)) BY <2>1, MinKept
  <2> QED BY <2>2, <2>3
<1>4. ASSUME e \notin Ids PROVE Min({i \in P \cup {m} : DestinationId(f, i) = e}) = m
  <2>1. {i \in P \cup {m} : DestinationId(f, i) = e} = {m} BY <1>4
  <2>2. Min({m}) = m BY MinIs
  <2> QED BY <2>1, <2>2
<1> HIDE DEF Hits, Ids, To, old, new, e
<1>5. DOMAIN old = Ids /\ \A d \in Ids : old[d] = To(Min(Hits(d))) BY <1>1
<1>6. Inserted(old, e, To(m)) = [d \in Ids \cup {e} |-> IF d \in Ids THEN old[d] ELSE To(m)]
  BY <1>5 DEF Inserted
<1>7. \A d \in Ids \cup {e} :
        To(Min({i \in P \cup {m} : DestinationId(f, i) = d})) = IF d \in Ids THEN old[d] ELSE To(m)
  BY <1>3, <1>4, <1>5
<1>8. new = Inserted(old, e, To(m)) BY <1>2, <1>6, <1>7
<1> QED BY <1>8 DEF new, old, e, To

LEMMA NoDestinations == ASSUME NEW f PROVE DestinationsAt(f, {}) = <<>>
<1>1. {DestinationId(f, i) : i \in {}} = {} OBVIOUS
<1>2. DestinationsAt(f, {}) = [d \in {} |-> LET first == Min({i \in {} : DestinationId(f, i) = d})
                                            IN  <<f[first - 1].value, Unsigned(f[first].value)>>]
  BY <1>1 DEF DestinationsAt
<1> QED BY <1>2

\* The ports of the interfaces above a line.
LEMMA PortsNew ==
  ASSUME NEW f \in Files, NEW n \in Nat, n + 1 \in DOMAIN f
  PROVE  /\ ~(f[n + 1].is = "key" /\ f[n + 1].name = "DestinationPort") =>
              \A h : PortsRead(f, n + 1, h) = PortsRead(f, n, h)
         /\ \A c \in Sections(f) : At(f, n, c) =>
              /\ DestinationId(f, n + 1) = LastValue(f, Read(f, n, c), {"DestinationID"}, -1)
              /\ PortsRead(f, n, c) = {}
              /\ f[c].name = "dest" /\ f[n + 1].is = "key" /\ f[n + 1].name = "DestinationPort" =>
                   \A h \in Done(f, n) : PortsRead(f, n + 1, h) =
                     IF LastValue(f, Read(f, n, c), {"ParentID"}, -1) = Short(LastValue(f, Body(f, h), {"ID"}, -1))
                     THEN PortsRead(f, n, h) \cup {n + 1} ELSE PortsRead(f, n, h)
<1>1. Sections(f) \subseteq Nat /\ DOMAIN f \subseteq Nat BY SectionFacts
<1>2. \A h : PortsFor(f, h) \subseteq {i \in DOMAIN f : f[i].is = "key" /\ f[i].name = "DestinationPort"}
  BY DEF PortsFor, Body
<1>3. ASSUME ~(f[n + 1].is = "key" /\ f[n + 1].name = "DestinationPort"), NEW h
      PROVE  PortsRead(f, n + 1, h) = PortsRead(f, n, h)
  <2>1. \A i \in PortsFor(f, h) : i \in Nat /\ i # n + 1 BY <1>1, <1>2, <1>3
  <2>2. \A i \in PortsFor(f, h) : i <= n + 1 <=> i <= n BY <2>1
  <2> QED BY <2>2 DEF PortsRead
<1>4. ASSUME NEW c \in Sections(f), At(f, n, c)
      PROVE  /\ {j \in Body(f, c) : j < n + 1} = Read(f, n, c)
             /\ DestinationId(f, n + 1) = LastValue(f, Read(f, n, c), {"DestinationID"}, -1)
             /\ PortsRead(f, n, c) = {}
  <2>1. c \in Nat /\ c <= n /\ \A g \in Sections(f) : g <= n => g <= c
    <3>1. \A g \in Sections(f) : g <= n => ~(c < g) BY <1>1, <1>4 DEF At
    <3> QED BY <1>1, <1>4, <3>1 DEF At
  <2>2. {j \in Body(f, c) : j < n + 1} = Read(f, n, c)
    <3>1. \A j \in Body(f, c) : j < n + 1 <=> j <= n BY <1>1 DEF Body
    <3> QED BY <3>1 DEF Read
  <2>3. Max({h \in Sections(f) : h < n + 1}) = c
    <3> DEFINE S == {h \in Sections(f) : h < n + 1}
    <3>1. S \in SUBSET Nat /\ c \in S BY <1>1, <2>1
    <3>2. \A y \in S : y <= c BY <1>1, <2>1
    <3> HIDE DEF S
    <3>3. Max(S) = c BY <3>1, <3>2, MaxIs
    <3> QED BY <3>3 DEF S
  <2>4. DestinationId(f, n + 1) = LastValue(f, Read(f, n, c), {"DestinationID"}, -1)
    BY <2>2, <2>3 DEF DestinationId
  <2>5. ASSUME NEW i \in PortsRead(f, n, c) PROVE FALSE
    <3>1. i <= n /\ i \in DOMAIN f /\ \E g \in Sections(f) : g > c /\ i \in Body(f, g)
      BY DEF PortsRead, PortsFor
    <3>2. PICK g \in Sections(f) : g > c /\ i \in Body(f, g) BY <3>1
    <3>3. g < i /\ g \in Nat /\ i \in Nat BY <1>1, <3>1, <3>2 DEF Body
    <3>4. g <= n BY <3>1, <3>3
    <3> QED BY <2>1, <3>2, <3>3, <3>4
  <2> QED BY <2>2, <2>4, <2>5
<1>5. ASSUME NEW c \in Sections(f), At(f, n, c), f[c].name = "dest",
             f[n + 1].is = "key", f[n + 1].name = "DestinationPort", NEW h \in Done(f, n)
      PROVE  PortsRead(f, n + 1, h) =
               IF LastValue(f, Read(f, n, c), {"ParentID"}, -1) = Short(LastValue(f, Body(f, h), {"ID"}, -1))
               THEN PortsRead(f, n, h) \cup {n + 1} ELSE PortsRead(f, n, h)
  <2>1. n + 1 \notin Sections(f) BY <1>5 DEF Sections
  <2>2. c < n + 1 /\ At(f, n + 1, c) BY <1>1, <1>5, <2>1, NextInSection DEF At
  <2>3. n + 1 \in Body(f, c) /\ \A g \in Sections(f) : n + 1 \in Body(f, g) => g = c
    <3>1. n + 1 \in Body(f, c) BY <1>5, <2>2, BodyIsBelow
    <3>2. ASSUME NEW g \in Sections(f), n + 1 \in Body(f, g) PROVE g = c
      <4>1. At(f, n + 1, g) BY <1>5, <3>2, BodyIsBelow
      <4> QED BY <2>2, <4>1, OneHeader
    <3> QED BY <3>1, <3>2
  <2>4. c > h
    <3>1. PICK g \in Sections(f) : h < g /\ g <= n BY DEF Done
    <3>2. h \in Nat /\ g \in Nat /\ c \in Nat BY <1>1, <3>1, SectionFacts DEF Done
    <3>3. ~(c < g) BY <1>5, <3>1, <3>2 DEF At
    <3> QED BY <3>1, <3>2, <3>3
  <2>5. n + 1 \in PortsFor(f, h) <=>
          LastValue(f, Read(f, n, c), {"ParentID"}, -1) = Short(LastValue(f, Body(f, h), {"ID"}, -1))
    <3>1. {j \in Body(f, c) : j < n + 1} = Read(f, n, c) BY <1>4, <1>5
    <3>2. n + 1 \in PortsFor(f, h) <=>
            \E g \in Sections(f) :
              /\ g > h /\ f[g].name = "dest" /\ n + 1 \in Body(f, g) /\ f[n + 1].name = "DestinationPort"
              /\ LastValue(f, {j \in Body(f, g) : j < n + 1}, {"ParentID"}, -1)
                   = Short(LastValue(f, Body(f, h), {"ID"}, -1))
      BY DEF PortsFor
    <3>3. n + 1 \in PortsFor(f, h) <=>
            LastValue(f, {j \in Body(f, c) : j < n + 1}, {"ParentID"}, -1)
              = Short(LastValue(f, Body(f, h), {"ID"}, -1))
      BY <1>5, <2>3, <2>4, <3>2, Zenon
    <3> QED BY <3>1, <3>3
  <2>6. \A i \in PortsFor(f, h) : i \in Nat /\ (i <= n + 1 <=> i <= n \/ i = n + 1) BY <1>1, <1>2
  <2> QED BY <2>5, <2>6 DEF PortsRead
<1> QED BY <1>3, <1>4, <1>5

-------------------------------------------------------------------------------
(* The fields of an interface *)

LEMMA SessionFields ==
  ASSUME NEW f, NEW body, NEW dests
  PROVE  /\ SessionOf(f, body, dests).id = Short(LastValue(f, body, {"ID"}, -1))
         /\ SessionOf(f, body, dests).dests = dests
         /\ \A d : [SessionOf(f, body, dests) EXCEPT !.dests = d] = SessionOf(f, body, d)
BY DEF SessionOf

LEMMA ConnKeyNames ==
  /\ ConnKeys = {"ID", "Type", "ListeningPort", "ServerPort", "ClientPort", "SourcePort", "Port", "BaudRate"}
  /\ DOMAIN Field \subseteq ConnKeys \cup DestKeys
<1>1. ConnKeys = DOMAIN Field \ {"ParentID", "DestinationID", "DestinationPort"} BY DEF ConnKeys
<1> QED BY <1>1, FieldFacts DEF DestKeys

\* Without a key of its own an interface has the fields temp_session starts with.
LEMMA FieldsNone ==
  ASSUME NEW f, NEW S, \A i \in S : f[i].name \notin ConnKeys
  PROVE  SessionOf(f, S, <<>>) = NoSession
<1>1. \A names \in SUBSET ConnKeys : \A i \in S : f[i].name \notin names OBVIOUS
<1>2. \A names \in SUBSET ConnKeys : \A d : LastValue(f, S, names, d) = d BY <1>1, LastValueNone
<1>3. /\ {"ID"} \in SUBSET ConnKeys /\ {"Type"} \in SUBSET ConnKeys
      /\ {"ListeningPort", "ServerPort"} \in SUBSET ConnKeys /\ {"ClientPort"} \in SUBSET ConnKeys
      /\ {"SourcePort"} \in SUBSET ConnKeys /\ {"Port"} \in SUBSET ConnKeys
      /\ {"BaudRate"} \in SUBSET ConnKeys
  BY ConnKeyNames
<1>4. /\ LastValue(f, S, {"ID"}, -1) = -1 /\ LastValue(f, S, {"Type"}, 0) = 0
      /\ LastValue(f, S, {"ListeningPort", "ServerPort"}, 0) = 0 /\ LastValue(f, S, {"ClientPort"}, 0) = 0
      /\ LastValue(f, S, {"SourcePort"}, 0) = 0 /\ LastValue(f, S, {"Port"}, 0) = 0
      /\ LastValue(f, S, {"BaudRate"}, 0) = 0
  BY <1>2, <1>3
<1>5. Unsigned(0) = 0 BY UnsignedFacts
<1> QED BY <1>4, <1>5, ShortFacts DEF SessionOf, NoSession

\* A key sets its field, any other line none.
LEMMA FieldsNew ==
  ASSUME NEW f \in Files, NEW S \in SUBSET Nat, NEW m \in Nat, \A y \in S : y < m
  PROVE  SessionOf(f, S \cup {m}, <<>>) =
           IF f[m].name \in ConnKeys
           THEN [SessionOf(f, S, <<>>) EXCEPT ![Field[f[m].name]] = Stored(Field[f[m].name], f[m].value)]
           ELSE SessionOf(f, S, <<>>)
<1> DEFINE name == f[m].name
           value == f[m].value
           V(names, d) == LastValue(f, S, names, d)
           W(names, d) == LastValue(f, S \cup {m}, names, d)
           old == SessionOf(f, S, <<>>)
           new == SessionOf(f, S \cup {m}, <<>>)
<1>1. \A names, d : W(names, d) = IF name \in names THEN value ELSE V(names, d) BY LastValueNew
<1>2. old = [id |-> Short(V({"ID"}, -1)), type |-> Short(V({"Type"}, 0)),
             server |-> Unsigned(V({"ListeningPort", "ServerPort"}, 0)), client |-> Unsigned(V({"ClientPort"}, 0)),
             udp |-> Unsigned(V({"SourcePort"}, 0)), serial |-> V({"Port"}, 0),
             baud |-> Unsigned(V({"BaudRate"}, 0)), dests |-> <<>>]
  BY DEF SessionOf
<1>3. new = [id |-> Short(W({"ID"}, -1)), type |-> Short(W({"Type"}, 0)),
             server |-> Unsigned(W({"ListeningPort", "ServerPort"}, 0)), client |-> Unsigned(W({"ClientPort"}, 0)),
             udp |-> Unsigned(W({"SourcePort"}, 0)), serial |-> W({"Port"}, 0),
             baud |-> Unsigned(W({"BaudRate"}, 0)), dests |-> <<>>]
  BY DEF SessionOf
<1> HIDE DEF name, value, V, W, old, new
<1>4. /\ W({"ID"}, -1) = IF name = "ID" THEN value ELSE V({"ID"}, -1)
      /\ W({"Type"}, 0) = IF name = "Type" THEN value ELSE V({"Type"}, 0)
      /\ W({"ListeningPort", "ServerPort"}, 0) =
           IF name \in {"ListeningPort", "ServerPort"} THEN value ELSE V({"ListeningPort", "ServerPort"}, 0)
      /\ W({"ClientPort"}, 0) = IF name = "ClientPort" THEN value ELSE V({"ClientPort"}, 0)
      /\ W({"SourcePort"}, 0) = IF name = "SourcePort" THEN value ELSE V({"SourcePort"}, 0)
      /\ W({"Port"}, 0) = IF name = "Port" THEN value ELSE V({"Port"}, 0)
      /\ W({"BaudRate"}, 0) = IF name = "BaudRate" THEN value ELSE V({"BaudRate"}, 0)
  BY <1>1
<1>5. ASSUME name = "ID"
      PROVE  new = [old EXCEPT ![Field[name]] = Stored(Field[name], value)]
  <2>1. Field[name] = "id" /\ Stored(Field[name], value) = Short(value) BY <1>5, FieldFacts DEF Stored
  <2> QED BY <1>2, <1>3, <1>4, <1>5, <2>1
<1>6. ASSUME name = "Type"
      PROVE  new = [old EXCEPT ![Field[name]] = Stored(Field[name], value)]
  <2>1. Field[name] = "type" /\ Stored(Field[name], value) = Short(value) BY <1>6, FieldFacts DEF Stored
  <2> QED BY <1>2, <1>3, <1>4, <1>6, <2>1
<1>7. ASSUME name \in {"ListeningPort", "ServerPort"}
      PROVE  new = [old EXCEPT ![Field[name]] = Stored(Field[name], value)]
  <2>1. Field[name] = "server" /\ Stored(Field[name], value) = Unsigned(value) BY <1>7, FieldFacts DEF Stored
  <2> QED BY <1>2, <1>3, <1>4, <1>7, <2>1
<1>8. ASSUME name = "ClientPort"
      PROVE  new = [old EXCEPT ![Field[name]] = Stored(Field[name], value)]
  <2>1. Field[name] = "client" /\ Stored(Field[name], value) = Unsigned(value) BY <1>8, FieldFacts DEF Stored
  <2> QED BY <1>2, <1>3, <1>4, <1>8, <2>1
<1>9. ASSUME name = "SourcePort"
      PROVE  new = [old EXCEPT ![Field[name]] = Stored(Field[name], value)]
  <2>1. Field[name] = "udp" /\ Stored(Field[name], value) = Unsigned(value) BY <1>9, FieldFacts DEF Stored
  <2> QED BY <1>2, <1>3, <1>4, <1>9, <2>1
<1>10. ASSUME name = "Port"
      PROVE  new = [old EXCEPT ![Field[name]] = Stored(Field[name], value)]
  <2>1. Field[name] = "serial" /\ Stored(Field[name], value) = value BY <1>10, FieldFacts DEF Stored
  <2> QED BY <1>2, <1>3, <1>4, <1>10, <2>1
<1>13. ASSUME name = "BaudRate"
      PROVE  new = [old EXCEPT ![Field[name]] = Stored(Field[name], value)]
  <2>1. Field[name] = "baud" /\ Stored(Field[name], value) = Unsigned(value) BY <1>13, FieldFacts DEF Stored
  <2> QED BY <1>2, <1>3, <1>4, <1>13, <2>1
<1>11. ASSUME name \notin ConnKeys PROVE new = old BY <1>2, <1>3, <1>4, <1>11, ConnKeyNames
<1>12. new = IF name \in ConnKeys THEN [old EXCEPT ![Field[name]] = Stored(Field[name], value)] ELSE old
  BY <1>5, <1>6, <1>7, <1>8, <1>9, <1>10, <1>11, <1>13, ConnKeyNames
<1> QED BY <1>12 DEF new, old, name, value

-------------------------------------------------------------------------------
(* Line by line *)

LEMMA WellFormedLine ==
  ASSUME NEW f \in Files, WellFormed(f), NEW i \in DOMAIN f
  PROVE  /\ f[i].is = "section" => i \in Sections(f) /\ f[i].name \in {"conn", "dest"}
         /\ f[i].is # "section" => i \notin Sections(f)
         /\ f[i].is = "key" => Accepted(f[i]) /\ \E h \in Sections(f) : h < i /\ At(f, i, h) /\ i \in Body(f, h)
         /\ f[i].name = "DestinationAddress" =>
              f[i].is = "key" /\ i + 1 \in DOMAIN f /\ f[i + 1].is = "key" /\ f[i + 1].name = "DestinationPort"
         /\ f[i].is = "key" /\ f[i].name = "DestinationPort" =>
              i - 1 \in DOMAIN f /\ f[i - 1].name = "DestinationAddress"
         /\ \A h \in Sections(f) : i \in Body(f, h) =>
              /\ f[h].name = "dest" => f[i].name \notin ConnKeys
              /\ f[h].name = "conn" => f[i].name \notin DestKeys
<1>1. f[i].is = "section" <=> i \in Sections(f) BY DEF Sections
<1>2. i \in Sections(f) => f[i].name \in {"conn", "dest"} BY <1>1, FileFacts DEF WellFormed
<1>3. /\ f[i].is = "key" => Accepted(f[i]) /\ \E h \in Sections(f) : i \in Body(f, h)
      /\ IsKey(f, i, "DestinationAddress") => IsKey(f, i + 1, "DestinationPort")
      /\ IsKey(f, i, "DestinationPort") => IsKey(f, i - 1, "DestinationAddress")
  BY DEF WellFormed
<1>4. f[i].is = "key" => \E h \in Sections(f) : h < i /\ At(f, i, h) /\ i \in Body(f, h) BY <1>3, BodyIsBelow
<1>5. f[i].name = "DestinationAddress" => f[i].is = "key"
  <2>1. f[i].is = "skipped" => f[i].name \in {NoName, "DestinationPort"} BY FileFacts
  <2>2. f[i].is \in {"section", "key", "skipped"} BY FileFacts
  <2> QED BY <1>1, <1>2, <2>1, <2>2, SectionFacts
<1>6. \A h \in Sections(f) : i \in Body(f, h) =>
        /\ f[h].name = "dest" => f[i].name \notin ConnKeys
        /\ f[h].name = "conn" => f[i].name \notin DestKeys
  BY DEF WellFormed
<1>7. f[i].name = "DestinationAddress" =>
        i + 1 \in DOMAIN f /\ f[i + 1].is = "key" /\ f[i + 1].name = "DestinationPort"
  BY <1>3, <1>5 DEF IsKey
<1>8. f[i].is = "key" /\ f[i].name = "DestinationPort" =>
        i - 1 \in DOMAIN f /\ f[i - 1].name = "DestinationAddress"
  BY <1>3 DEF IsKey
<1> QED BY <1>1, <1>2, <1>3, <1>4, <1>5, <1>6, <1>7, <1>8

\* The reader stands under the last header above the line.
LEMMA UnderHeader ==
  ASSUME NEW f \in Files, WellFormed(f), NEW n \in Nat, n + 1 \in DOMAIN f, NEW r, SectionRead(f, n, r),
         f[n + 1].is = "key"
  PROVE  \E c \in Sections(f) :
           /\ At(f, n, c) /\ n + 1 \in Body(f, c) /\ r.section = f[c].name /\ f[c].name \in {"conn", "dest"}
           /\ f[c].name = "conn" => r.temp = SessionOf(f, Read(f, n, c), <<>>)
           /\ f[c].name = "dest" =>
                /\ r.temp = NoSession
                /\ r.parent = LastValue(f, Read(f, n, c), {"ParentID"}, -1)
                /\ r.dest = LastValue(f, Read(f, n, c), {"DestinationID"}, -1)
<1>1. PICK g \in Sections(f) : g < n + 1 /\ At(f, n + 1, g) /\ n + 1 \in Body(f, g) BY WellFormedLine
<1>2. g \in Nat /\ g <= n /\ At(f, n, g) BY <1>1, SectionFacts DEF At
<1>3. ~(\A h \in Sections(f) : h > n) BY <1>2
<1>4. PICK c \in Sections(f) :
          /\ At(f, n, c) /\ r.section = f[c].name
          /\ f[c].name = "conn" => r.temp = SessionOf(f, Read(f, n, c), <<>>)
          /\ f[c].name = "dest" =>
               /\ r.temp = NoSession
               /\ r.parent = LastValue(f, Read(f, n, c), {"ParentID"}, -1)
               /\ r.dest = LastValue(f, Read(f, n, c), {"DestinationID"}, -1)
  BY <1>3 DEF SectionRead
<1>5. c = g BY <1>2, <1>4, OneHeader
<1>6. f[c].name \in {"conn", "dest"}
  <2>1. c \in DOMAIN f /\ f[c].is = "section" BY DEF Sections
  <2> QED BY <2>1, WellFormedLine
<1> QED BY <1>1, <1>4, <1>5, <1>6

\* A line that is no port and no header leaves the interfaces as they are.
LEMMA SessionsAsTheyAre ==
  ASSUME NEW f \in Files, NEW n \in Nat, n + 1 \in DOMAIN f, n + 1 \notin Sections(f),
         ~(f[n + 1].is = "key" /\ f[n + 1].name = "DestinationPort"), NEW r, SessionsRead(f, n, r), NEW s, s.sessions = r.sessions
  PROVE  SessionsRead(f, n + 1, s)
<1>1. Done(f, n + 1) = Done(f, n) BY NextInSection
<1>2. \A h : PortsRead(f, n + 1, h) = PortsRead(f, n, h) BY PortsNew
<1> QED BY <1>1, <1>2 DEF SessionsRead

LEMMA PortIsRead ==
  ASSUME NEW f \in Files, WellFormed(f), NEW n \in Nat, n + 1 \in DOMAIN f, NEW r, Shape(r), r.ip # -1,
         SectionRead(f, n, r), SessionsRead(f, n, r)
  PROVE  SectionRead(f, n + 1, ReadsPort(r, f[n + 1])) /\ SessionsRead(f, n + 1, ReadsPort(r, f[n + 1]))
<1> DEFINE line == f[n + 1]
           s == ReadsPort(r, line)
<1>1. n \in DOMAIN f /\ f[n].name = "DestinationAddress" /\ r.ip = f[n].value BY DEF SectionRead
<1>2. line.name = "DestinationPort" /\ line.is = "key" /\ ~StoulRefuses(line.value) /\ n + 1 \notin Sections(f)
  <2>1. f[n + 1].name = "DestinationPort" /\ f[n + 1].is = "key" BY <1>1, WellFormedLine
  <2>2. Accepted(f[n + 1]) BY <2>1, WellFormedLine
  <2> QED BY <2>1, <2>2, WellFormedLine DEF Accepted
<1>3. /\ s.section = r.section /\ s.temp = r.temp /\ s.parent = r.parent /\ s.dest = r.dest
      /\ s.ip = -1 /\ s.failed = r.failed
      /\ s.sessions = [i \in DOMAIN r.sessions |-> WithDestination(r.sessions[i], r, Unsigned(line.value))]
  <2> DEFINE t == [r EXCEPT !.ip = -1,
                   !.sessions = [i \in DOMAIN @ |-> WithDestination(@[i], r, Unsigned(line.value))]]
  <2>1. /\ t.section = r.section /\ t.temp = r.temp /\ t.parent = r.parent /\ t.dest = r.dest
        /\ t.ip = -1 /\ t.failed = r.failed
        /\ t.sessions = [i \in DOMAIN r.sessions |-> WithDestination(r.sessions[i], r, Unsigned(line.value))]
    BY DEF Shape, Fields
  <2>2. s = t BY <1>2 DEF ReadsPort
  <2> HIDE DEF s, t, line
  <2> QED BY <2>1, <2>2
<1>4. Shape(s) BY EveryLine, PortLine
<1> HIDE DEF s
<1>5. PICK c \in Sections(f) :
        /\ At(f, n, c) /\ n + 1 \in Body(f, c) /\ r.section = f[c].name /\ f[c].name \in {"conn", "dest"}
        /\ f[c].name = "dest" =>
             /\ r.temp = NoSession
             /\ r.parent = LastValue(f, Read(f, n, c), {"ParentID"}, -1)
             /\ r.dest = LastValue(f, Read(f, n, c), {"DestinationID"}, -1)
  BY <1>2, UnderHeader
<1>6. f[c].name = "dest"
  <2>1. f[n + 1].name \in DestKeys BY <1>2 DEF DestKeys
  <2> QED BY <1>5, <2>1, WellFormedLine
<1>7. /\ Read(f, n, c) \in SUBSET Nat /\ \A y \in Read(f, n, c) : y < n + 1
      /\ Read(f, n + 1, c) = Read(f, n, c) \cup {n + 1} /\ At(f, n + 1, c)
  <2>1. Read(f, n, c) \subseteq Nat /\ \A y \in Read(f, n, c) : y <= n BY SectionFacts DEF Read
  <2>2. Read(f, n + 1, c) = Read(f, n, c) \cup {n + 1} /\ At(f, n + 1, c) BY <1>2, <1>5, NextInSection
  <2>3. Read(f, n, c) \in SUBSET Nat BY <2>1
  <2>4. \A y \in Read(f, n, c) : y < n + 1 BY <2>1
  <2> QED BY <2>2, <2>3, <2>4
<1>8. /\ LastValue(f, Read(f, n + 1, c), {"ParentID"}, -1) = r.parent
      /\ LastValue(f, Read(f, n + 1, c), {"DestinationID"}, -1) = r.dest
  <2>1. \A names, d : f[n + 1].name \notin names =>
          LastValue(f, Read(f, n + 1, c), names, d) = LastValue(f, Read(f, n, c), names, d)
    BY <1>7, LastValueNew
  <2> QED BY <1>2, <1>5, <1>6, <2>1
<1>9. SectionRead(f, n + 1, s)
  <2>1. ~s.failed /\ s.ip = -1 /\ f[n + 1].name # "DestinationAddress" BY <1>2, <1>3 DEF SectionRead
  <2> QED BY <1>3, <1>5, <1>6, <1>7, <1>8, <2>1 DEF SectionRead
<1>10. /\ Done(f, n + 1) = Done(f, n) /\ Len(r.sessions) = Cardinality(Done(f, n))
       /\ DOMAIN r.sessions = 1..Len(r.sessions) /\ Len(s.sessions) = Len(r.sessions)
  <2>1. IsList(r.sessions) /\ IsList(s.sessions) BY <1>4 DEF Shape
  <2>2. DOMAIN r.sessions = 1..Len(r.sessions) /\ DOMAIN s.sessions = 1..Len(s.sessions)
        /\ Len(r.sessions) \in Nat /\ Len(s.sessions) \in Nat
    BY <2>1, ListFacts DEF IsList
  <2>3. DOMAIN s.sessions = DOMAIN r.sessions BY <1>3
  <2>4. Len(s.sessions) = Len(r.sessions) BY <2>2, <2>3
  <2> QED BY <1>2, <2>2, <2>4, NextInSection DEF SessionsRead
<1>11. ASSUME NEW h \in Done(f, n)
       PROVE  s.sessions[Place(f, h)] = SessionOf(f, Body(f, h), DestinationsAt(f, PortsRead(f, n + 1, h)))
  <2> DEFINE P == PortsRead(f, n, h)
             old == SessionOf(f, Body(f, h), DestinationsAt(f, P))
  <2>1. r.sessions[Place(f, h)] = old BY DEF SessionsRead
  <2>2. Place(f, h) \in DOMAIN r.sessions BY <1>10, PlaceFacts
  <2>3. s.sessions[Place(f, h)] = WithDestination(old, r, Unsigned(line.value)) BY <1>3, <2>1, <2>2
  <2>4. old.id = Short(LastValue(f, Body(f, h), {"ID"}, -1)) /\ old.dests = DestinationsAt(f, P)
        /\ \A d : [old EXCEPT !.dests = d] = SessionOf(f, Body(f, h), d)
    BY SessionFields
  <2>5. P \in SUBSET Nat /\ \A y \in P : y < n + 1
    <3>1. P \subseteq DOMAIN f /\ \A y \in P : y <= n BY DEF PortsRead, PortsFor
    <3> QED BY <3>1, SectionFacts
  <2>6. /\ DestinationId(f, n + 1) = r.dest
        /\ PortsRead(f, n + 1, h) = IF r.parent = old.id THEN P \cup {n + 1} ELSE P
    BY <1>2, <1>5, <1>6, <2>4, PortsNew
  <2> HIDE DEF P, old
  <2>7. CASE r.parent = old.id
    <3>1. DestinationsAt(f, P \cup {n + 1}) =
            Inserted(DestinationsAt(f, P), DestinationId(f, n + 1), <<f[n + 1 - 1].value, Unsigned(f[n + 1].value)>>)
      BY <2>5, DestinationsNew
    <3>2. n + 1 - 1 = n OBVIOUS
    <3>3. DestinationsAt(f, P \cup {n + 1}) = Attached(old.dests, r.dest, <<r.ip, Unsigned(line.value)>>)
      BY <1>1, <2>4, <2>6, <3>1, <3>2 DEF Attached
    <3>4. WithDestination(old, r, Unsigned(line.value))
            = [old EXCEPT !.dests = Attached(old.dests, r.dest, <<r.ip, Unsigned(line.value)>>)]
      BY <2>7 DEF WithDestination
    <3> QED BY <2>3, <2>4, <2>6, <2>7, <3>3, <3>4
  <2>8. CASE r.parent # old.id
    <3>1. WithDestination(old, r, Unsigned(line.value)) = old BY <2>8 DEF WithDestination
    <3>2. PortsRead(f, n + 1, h) = P BY <2>6, <2>8
    <3> QED BY <2>3, <3>1, <3>2 DEF old
  <2> QED BY <2>7, <2>8
<1>12. SessionsRead(f, n + 1, s) BY <1>10, <1>11 DEF SessionsRead
<1> QED BY <1>9, <1>12 DEF s

\* Under a new header nothing is read yet.
LEMMA HeaderSection ==
  ASSUME NEW f \in Files, WellFormed(f), NEW n \in Nat, n + 1 \in Sections(f), NEW s,
         ~s.failed, s.ip = -1, s.section = f[n + 1].name, s.temp = NoSession,
         f[n + 1].name = "dest" => s.parent = -1 /\ s.dest = -1
  PROVE  SectionRead(f, n + 1, s)
<1>1. n + 1 \in DOMAIN f /\ f[n + 1].is = "section" BY DEF Sections
<1>2. f[n + 1].name \in {"conn", "dest"} BY <1>1, WellFormedLine
<1>3. At(f, n + 1, n + 1) /\ Read(f, n + 1, n + 1) = {} BY NextIsHeader
<1>4. SessionOf(f, {}, <<>>) = NoSession BY FieldsNone
<1>5. \A names, d : LastValue(f, {}, names, d) = d BY LastValueNone
<1>6. f[n + 1].name # "DestinationAddress" BY <1>2
<1> QED BY <1>3, <1>4, <1>5, <1>6 DEF SectionRead

LEMMA HeaderIsRead ==
  ASSUME NEW f \in Files, WellFormed(f), NEW n \in Nat, n + 1 \in Sections(f), NEW r, Shape(r), r.ip = -1,
         SectionRead(f, n, r), SessionsRead(f, n, r)
  PROVE  SectionRead(f, n + 1, ReadsHeader(r, f[n + 1])) /\ SessionsRead(f, n + 1, ReadsHeader(r, f[n + 1]))
<1> DEFINE line == f[n + 1]
           s == ReadsHeader(r, line)
           stored == r.section \notin {NoName, "dest"} /\ r.temp.id >= 0
<1>1. n + 1 \in DOMAIN f /\ line.is = "section" BY DEF Sections
<1>2. line.name \in {"conn", "dest"} BY <1>1, WellFormedLine
<1>3. /\ s.section = line.name /\ s.ip = r.ip /\ s.failed = r.failed
      /\ line.name = "dest" => s.parent = -1 /\ s.dest = -1
      /\ stored => s.temp = NoSession /\ s.sessions = Append(r.sessions, r.temp)
      /\ ~stored => s.temp = r.temp /\ s.sessions = r.sessions
  BY DEF ReadsHeader, Shape, Fields
<1>4. \A h : PortsRead(f, n + 1, h) = PortsRead(f, n, h) BY <1>1, PortsNew
<1>5. ~s.failed /\ s.ip = -1 BY <1>3 DEF SectionRead
<1> HIDE DEF s, line
<1>6. ASSUME s.temp = NoSession PROVE SectionRead(f, n + 1, s)
  BY <1>3, <1>5, <1>6, HeaderSection DEF line
<1>7. ASSUME r.section = NoName, r.temp = NoSession, \A h \in Sections(f) : h > n
      PROVE  SectionRead(f, n + 1, s) /\ SessionsRead(f, n + 1, s)
  <2>1. ~stored BY <1>7
  <2>2. Done(f, n + 1) = {} /\ Done(f, n) = {} BY <1>7, NextIsHeader
  <2>3. SessionsRead(f, n + 1, s) BY <1>3, <2>1, <2>2 DEF SessionsRead
  <2> QED BY <1>3, <1>6, <1>7, <2>1, <2>3
<1>8. ASSUME NEW c \in Sections(f), At(f, n, c), r.section = f[c].name,
             f[c].name = "conn" => r.temp = SessionOf(f, Read(f, n, c), <<>>),
             f[c].name = "dest" => r.temp = NoSession
      PROVE  SectionRead(f, n + 1, s) /\ SessionsRead(f, n + 1, s)
  <2>1. f[c].name \in {"conn", "dest"}
    <3>1. c \in DOMAIN f /\ f[c].is = "section" BY DEF Sections
    <3> QED BY <3>1, WellFormedLine
  <2>2. /\ Read(f, n, c) = Body(f, c) /\ c \notin Done(f, n)
        /\ Done(f, n + 1) = IF c \in Interfaces(f) THEN Done(f, n) \cup {c} ELSE Done(f, n)
    BY <1>8, NextIsHeader
  <2>3. c \in Interfaces(f) <=> f[c].name = "conn" /\ Short(LastValue(f, Body(f, c), {"ID"}, -1)) >= 0
    BY DEF Interfaces
  <2>4. f[c].name = "conn" => r.temp.id = Short(LastValue(f, Body(f, c), {"ID"}, -1))
    BY <1>8, <2>2, SessionFields
  <2>5. stored <=> c \in Interfaces(f)
    <3>1. f[c].name = "conn" => f[c].name \notin {NoName, "dest"} BY SectionFacts
    <3> QED BY <1>8, <2>1, <2>3, <2>4, <3>1
  <2> HIDE DEF stored
  <2>6. CASE c \in Interfaces(f)
    <3>1. s.temp = NoSession /\ s.sessions = Append(r.sessions, r.temp) BY <1>3, <2>5, <2>6
    <3>2. /\ Len(s.sessions) = Len(r.sessions) + 1
          /\ \A i \in 1..Len(r.sessions) : s.sessions[i] = r.sessions[i]
          /\ s.sessions[Len(r.sessions) + 1] = r.temp
      BY <3>1, AppendList DEF Shape
    <3>3. /\ Len(r.sessions) = Cardinality(Done(f, n)) /\ Cardinality(Done(f, n)) \in Nat
          /\ Place(f, c) = Len(r.sessions) + 1
          /\ Cardinality(Done(f, n + 1)) = Len(r.sessions) + 1
      <4>1. \A g \in Interfaces(f) : g < c <=> g \in Done(f, n) BY <1>8, DoneAbove
      <4> QED BY <2>2, <2>6, <4>1, PlaceFacts DEF SessionsRead
    <3>4. ASSUME NEW h \in Done(f, n)
          PROVE  s.sessions[Place(f, h)] = SessionOf(f, Body(f, h), DestinationsAt(f, PortsRead(f, n + 1, h)))
      <4>1. Place(f, h) \in 1..Len(r.sessions) BY <3>3, PlaceFacts
      <4> QED BY <1>4, <3>2, <4>1 DEF SessionsRead
    <3>5. s.sessions[Place(f, c)] = SessionOf(f, Body(f, c), DestinationsAt(f, PortsRead(f, n + 1, c)))
      <4>1. f[c].name = "conn" BY <2>6, SectionFacts
      <4>2. r.temp = SessionOf(f, Body(f, c), <<>>) BY <1>8, <2>2, <4>1
      <4>3. PortsRead(f, n + 1, c) = {} BY <1>1, <1>4, <1>8, PortsNew
      <4>4. DestinationsAt(f, {}) = <<>> BY NoDestinations
      <4> QED BY <3>2, <3>3, <4>2, <4>3, <4>4
    <3>6. SessionsRead(f, n + 1, s) BY <2>2, <2>6, <3>2, <3>3, <3>4, <3>5 DEF SessionsRead
    <3> QED BY <1>6, <3>1, <3>6
  <2>7. CASE c \notin Interfaces(f)
    <3>1. s.temp = r.temp /\ s.sessions = r.sessions BY <1>3, <2>5, <2>7
    <3>2. r.temp = NoSession
      <4>1. ASSUME f[c].name = "conn" PROVE r.temp = NoSession
        <5>1. \A i \in Body(f, c) : f[i].name \notin ConnKeys BY <2>7, <4>1 DEF WellFormed
        <5>2. SessionOf(f, Body(f, c), <<>>) = NoSession BY <5>1, FieldsNone
        <5> QED BY <1>8, <2>2, <4>1, <5>2
      <4> QED BY <1>8, <2>1, <4>1
    <3>3. SessionsRead(f, n + 1, s) BY <1>4, <2>2, <2>7, <3>1 DEF SessionsRead
    <3> QED BY <1>6, <3>1, <3>2, <3>3
  <2> QED BY <2>6, <2>7
<1>9. SectionRead(f, n + 1, s) /\ SessionsRead(f, n + 1, s) BY <1>7, <1>8 DEF SectionRead
<1> QED BY <1>9 DEF s, line

LEMMA SkippedIsRead ==
  ASSUME NEW f \in Files, WellFormed(f), NEW n \in Nat, n + 1 \in DOMAIN f, f[n + 1].is = "skipped",
         NEW r, r.ip = -1, SectionRead(f, n, r), SessionsRead(f, n, r)
  PROVE  SectionRead(f, n + 1, r) /\ SessionsRead(f, n + 1, r)
<1>1. /\ n + 1 \notin Sections(f) /\ f[n + 1].is # "key" /\ f[n + 1].name # "DestinationAddress"
  <2>1. f[n + 1].name \in {NoName, "DestinationPort"} BY FileFacts
  <2> QED BY <2>1, SectionFacts, WellFormedLine
<1>2. SessionsRead(f, n + 1, r) BY <1>1, SessionsAsTheyAre
<1>3. ~r.failed BY DEF SectionRead
<1>4. ASSUME r.section = NoName, r.temp = NoSession, \A h \in Sections(f) : h > n
      PROVE  SectionRead(f, n + 1, r)
  <2>1. \A h \in Sections(f) : h > n + 1 BY <1>1, <1>4, NextInSection
  <2> QED BY <1>1, <1>3, <1>4, <2>1 DEF SectionRead
<1>5. ASSUME NEW c \in Sections(f), At(f, n, c), r.section = f[c].name,
             f[c].name = "conn" => r.temp = SessionOf(f, Read(f, n, c), <<>>),
             f[c].name = "dest" => /\ r.temp = NoSession
                                   /\ r.parent = LastValue(f, Read(f, n, c), {"ParentID"}, -1)
                                   /\ r.dest = LastValue(f, Read(f, n, c), {"DestinationID"}, -1)
      PROVE  SectionRead(f, n + 1, r)
  <2>1. At(f, n + 1, c) /\ Read(f, n + 1, c) = Read(f, n, c) BY <1>1, <1>5, NextInSection
  <2> QED BY <1>1, <1>3, <1>5, <2>1 DEF SectionRead
<1> QED BY <1>2, <1>4, <1>5 DEF SectionRead

LEMMA KeyIsRead ==
  ASSUME NEW f \in Files, WellFormed(f), NEW n \in Nat, n + 1 \in DOMAIN f, f[n + 1].is = "key",
         NEW r, Shape(r), r.ip = -1, SectionRead(f, n, r), SessionsRead(f, n, r), NEW s,
         s = IF r.section = "dest" THEN ReadsDestinationKey(r, f[n + 1]) ELSE ReadsKey(r, f[n + 1])
  PROVE  SectionRead(f, n + 1, s) /\ SessionsRead(f, n + 1, s)
<1>1. PICK name : name = f[n + 1].name OBVIOUS
<1>2. PICK value : value = f[n + 1].value OBVIOUS
<1>3. PICK c \in Sections(f) :
           /\ At(f, n, c) /\ n + 1 \in Body(f, c) /\ r.section = f[c].name /\ f[c].name \in {"conn", "dest"}
           /\ f[c].name = "conn" => r.temp = SessionOf(f, Read(f, n, c), <<>>)
           /\ f[c].name = "dest" =>
                /\ r.temp = NoSession
                /\ r.parent = LastValue(f, Read(f, n, c), {"ParentID"}, -1)
                /\ r.dest = LastValue(f, Read(f, n, c), {"DestinationID"}, -1)
  BY UnderHeader
<1>4. /\ n + 1 \notin Sections(f)
      /\ name \in {"ParentID", "DestinationID"} => ~StoiRefuses(value)
      /\ name \in DOMAIN Field \ {"DestinationPort"} => ~Refuses(Field[name], value)
  <2>1. n + 1 \notin Sections(f) /\ Accepted(f[n + 1]) BY WellFormedLine
  <2>2. name \in DOMAIN Field \ {"DestinationPort"} => ~Refuses(Field[name], value)
    BY <1>1, <1>2, <2>1 DEF Accepted
  <2>3. name \in {"ParentID", "DestinationID"} => name \in DOMAIN Field \ {"DestinationPort"} /\ Field[name] = "id"
    BY FieldFacts
  <2> QED BY <2>1, <2>2, <2>3 DEF Refuses
<1>5. name # "DestinationPort"
  <2>1. ASSUME name = "DestinationPort" PROVE FALSE
    <3>1. PICK m \in DOMAIN f : m = n + 1 OBVIOUS
    <3>2. n \in DOMAIN f /\ f[n].name = "DestinationAddress"
      <4>1. f[m].is = "key" /\ f[m].name = "DestinationPort" BY <1>1, <2>1, <3>1
      <4>2. m - 1 \in DOMAIN f /\ f[m - 1].name = "DestinationAddress" BY <4>1, WellFormedLine
      <4>3. m - 1 = n BY <3>1
      <4> QED BY <4>2, <4>3
    <3>3. f[n].value # -1 BY <3>2, FileFacts
    <3> QED BY <3>2, <3>3 DEF SectionRead
  <2> QED BY <2>1
<1>6. /\ Read(f, n + 1, c) = Read(f, n, c) \cup {n + 1} /\ At(f, n + 1, c)
      /\ Read(f, n, c) \in SUBSET Nat /\ \A y \in Read(f, n, c) : y < n + 1
  <2>1. Read(f, n, c) \subseteq Nat /\ \A y \in Read(f, n, c) : y <= n BY SectionFacts DEF Read
  <2>2. Read(f, n + 1, c) = Read(f, n, c) \cup {n + 1} /\ At(f, n + 1, c) BY <1>3, <1>4, NextInSection
  <2>3. Read(f, n, c) \in SUBSET Nat BY <2>1
  <2>4. \A y \in Read(f, n, c) : y < n + 1 BY <2>1
  <2> QED BY <2>2, <2>3, <2>4
<1>7. ~r.failed BY DEF SectionRead
<1>8. ASSUME f[c].name = "dest" PROVE SectionRead(f, n + 1, s) /\ s.sessions = r.sessions
  <2>1. s = ReadsDestinationKey(r, f[n + 1]) BY <1>3, <1>8
  <2>2. /\ s.section = r.section /\ s.temp = r.temp /\ s.sessions = r.sessions /\ s.failed = r.failed
        /\ s.parent = IF name = "ParentID" THEN value ELSE r.parent
        /\ s.dest = IF name = "DestinationID" THEN value ELSE r.dest
        /\ s.ip = IF name = "DestinationAddress" THEN value ELSE r.ip
    BY <1>1, <1>2, <1>4, <2>1 DEF ReadsDestinationKey, Shape, Fields
  <2>3. \A names, d : LastValue(f, Read(f, n + 1, c), names, d) =
                        IF name \in names THEN value ELSE LastValue(f, Read(f, n, c), names, d)
    BY <1>1, <1>2, <1>6, LastValueNew
  <2>4. /\ s.parent = LastValue(f, Read(f, n + 1, c), {"ParentID"}, -1)
        /\ s.dest = LastValue(f, Read(f, n + 1, c), {"DestinationID"}, -1)
    BY <1>3, <1>8, <2>2, <2>3
  <2>5. s.ip = IF n + 1 \in DOMAIN f /\ f[n + 1].name = "DestinationAddress" THEN f[n + 1].value ELSE -1
    BY <1>1, <1>2, <2>2
  <2> QED BY <1>3, <1>6, <1>7, <1>8, <2>2, <2>4, <2>5 DEF SectionRead
<1>9. ASSUME f[c].name = "conn" PROVE SectionRead(f, n + 1, s) /\ s.sessions = r.sessions
  <2>1. s = ReadsKey(r, f[n + 1]) BY <1>3, <1>9
  <2>2. name \notin DestKeys BY <1>1, <1>3, <1>9, WellFormedLine
  <2>3. name \in DOMAIN Field <=> name \in ConnKeys BY <2>2, ConnKeyNames DEF ConnKeys
  <2>4. /\ s.section = r.section /\ s.ip = r.ip /\ s.sessions = r.sessions /\ s.failed = r.failed
        /\ s.temp = IF name \in ConnKeys THEN [r.temp EXCEPT ![Field[name]] = Stored(Field[name], value)] ELSE r.temp
    BY <1>1, <1>2, <1>4, <1>5, <2>1, <2>3 DEF ReadsKey, Shape, Fields
  <2>5. s.temp = SessionOf(f, Read(f, n + 1, c), <<>>)
    <3>1. SessionOf(f, Read(f, n, c) \cup {n + 1}, <<>>) =
            IF name \in ConnKeys
            THEN [SessionOf(f, Read(f, n, c), <<>>) EXCEPT ![Field[name]] = Stored(Field[name], value)]
            ELSE SessionOf(f, Read(f, n, c), <<>>)
      <4>1. n + 1 \in Nat OBVIOUS
      <4> QED BY <1>1, <1>2, <1>6, <4>1, FieldsNew, Zenon
    <3> QED BY <1>3, <1>6, <1>9, <2>4, <3>1
  <2>6. f[n + 1].name # "DestinationAddress" BY <1>1, <2>2 DEF DestKeys
  <2> QED BY <1>3, <1>6, <1>7, <1>9, <2>4, <2>5, <2>6 DEF SectionRead
<1>10. SectionRead(f, n + 1, s) /\ s.sessions = r.sessions BY <1>3, <1>8, <1>9
<1>11. SessionsRead(f, n + 1, s) BY <1>1, <1>4, <1>5, <1>10, SessionsAsTheyAre
<1> QED BY <1>10, <1>11

\* A line of a well-formed file is read as the sections mean it.
LEMMA LineIsRead ==
  ASSUME NEW f \in Files, WellFormed(f), NEW n \in Nat, n + 1 \in DOMAIN f,
         NEW r, Shape(r), SectionRead(f, n, r), SessionsRead(f, n, r)
  PROVE  SectionRead(f, n + 1, ReadsLine(r, f[n + 1])) /\ SessionsRead(f, n + 1, ReadsLine(r, f[n + 1]))
<1> DEFINE s == ReadsLine(r, f[n + 1])
<1>1. ~r.failed BY DEF SectionRead
<1>2. CASE r.ip # -1
  <2>1. s = ReadsPort(r, f[n + 1]) BY <1>1, <1>2 DEF ReadsLine
  <2> QED BY <1>2, <2>1, PortIsRead
<1>3. CASE r.ip = -1 /\ f[n + 1].is = "section"
  <2>1. s = ReadsHeader(r, f[n + 1]) BY <1>1, <1>3 DEF ReadsLine
  <2>2. n + 1 \in Sections(f) BY <1>3 DEF Sections
  <2> QED BY <1>3, <2>1, <2>2, HeaderIsRead
<1>4. CASE r.ip = -1 /\ f[n + 1].is = "skipped"
  <2>1. s = r BY <1>1, <1>4 DEF ReadsLine
  <2> QED BY <1>4, <2>1, SkippedIsRead
<1>5. CASE r.ip = -1 /\ f[n + 1].is = "key"
  <2>1. s = IF r.section = "dest" THEN ReadsDestinationKey(r, f[n + 1]) ELSE ReadsKey(r, f[n + 1])
    BY <1>1, <1>5 DEF ReadsLine
  <2> QED BY <1>5, <2>1, KeyIsRead
<1>6. f[n + 1].is \in {"section", "key", "skipped"} BY FileFacts
<1> QED BY <1>2, <1>3, <1>4, <1>5, <1>6

LEMMA NothingIsRead ==
  ASSUME NEW f \in Files
  PROVE  SectionRead(f, 0, Reader) /\ SessionsRead(f, 0, Reader)
<1>1. \A h \in Sections(f) : h > 0
  <2>1. Len(f) \in Nat /\ DOMAIN f = 1..Len(f) BY FileFacts
  <2> QED BY <2>1, SectionFacts
<1>2. 0 \notin DOMAIN f BY FileFacts
<1>3. /\ Reader.failed = FALSE /\ Reader.ip = -1 /\ Reader.section = NoName /\ Reader.temp = NoSession
      /\ Reader.sessions = <<>>
  BY DEF Reader
<1>4. SectionRead(f, 0, Reader) BY <1>1, <1>2, <1>3 DEF SectionRead
<1>5. Done(f, 0) = {}
  <2>1. \A h \in Sections(f) : ~(h <= 0) BY <1>1, SectionFacts
  <2> QED BY <2>1 DEF Done
<1>6. Len(<<>>) = 0 /\ Cardinality({}) = 0 BY FS_EmptySet
<1>7. SessionsRead(f, 0, Reader) BY <1>3, <1>5, <1>6 DEF SessionsRead
<1> QED BY <1>4, <1>7

\* At the end of the file the last interface joins the others.
LEMMA EverythingIsRead ==
  ASSUME NEW f \in Files, WellFormed(f), NEW r, Shape(r),
         SectionRead(f, Len(f), r), SessionsRead(f, Len(f), r)
  PROVE  /\ Len(Ended(r)) = Cardinality(Interfaces(f))
         /\ \A h \in Interfaces(f) : Ended(r)[Place(f, h)] = Meant(f, h)
<1>1. PICK n \in Nat : n = Len(f) BY FileFacts
<1>2. DOMAIN f = 1..n BY <1>1, FileFacts
<1>3. /\ Sections(f) \subseteq DOMAIN f /\ Interfaces(f) \subseteq Sections(f)
      /\ \A h \in Interfaces(f) : f[h].name = "conn"
  BY SectionFacts
<1>4. \A h : PortsRead(f, n, h) = PortsFor(f, h)
  <2>1. \A h : \A i \in PortsFor(f, h) : i <= n BY <1>2 DEF PortsFor
  <2> QED BY <2>1 DEF PortsRead
<1>5. \A h : Read(f, n, h) = Body(f, h)
  <2>1. \A h : \A i \in Body(f, h) : i <= n BY <1>2 DEF Body
  <2> QED BY <2>1 DEF Read
<1>6. /\ Len(r.sessions) = Cardinality(Done(f, n))
      /\ \A h \in Done(f, n) : r.sessions[Place(f, h)] = Meant(f, h)
  BY <1>1, <1>4 DEF SessionsRead, Meant
<1>7. ~r.failed BY DEF SectionRead
<1>8. ASSUME r.temp = NoSession, Done(f, n) = Interfaces(f)
      PROVE  /\ Len(Ended(r)) = Cardinality(Interfaces(f))
             /\ \A h \in Interfaces(f) : Ended(r)[Place(f, h)] = Meant(f, h)
  <2>1. ~(r.temp.id >= 0) BY <1>8, NoSessionType
  <2>2. Ended(r) = r.sessions BY <2>1 DEF Ended
  <2> QED BY <1>6, <1>8, <2>2
<1>9. ASSUME r.section = NoName, r.temp = NoSession, \A h \in Sections(f) : h > n
      PROVE  /\ Len(Ended(r)) = Cardinality(Interfaces(f))
             /\ \A h \in Interfaces(f) : Ended(r)[Place(f, h)] = Meant(f, h)
  <2>1. \A h \in Sections(f) : h <= n /\ h \in Nat BY <1>2, <1>3
  <2>2. Sections(f) = {} BY <1>9, <2>1
  <2>3. Interfaces(f) = {} /\ Done(f, n) = {} BY <1>3, <2>2 DEF Done
  <2> QED BY <1>8, <1>9, <2>3
<1>10. ASSUME NEW c \in Sections(f), At(f, n, c),
              f[c].name = "conn" => r.temp = SessionOf(f, Read(f, n, c), <<>>),
              f[c].name = "dest" => r.temp = NoSession
       PROVE  /\ Len(Ended(r)) = Cardinality(Interfaces(f))
              /\ \A h \in Interfaces(f) : Ended(r)[Place(f, h)] = Meant(f, h)
  <2>1. /\ c \notin Done(f, n)
        /\ \A g \in Sections(f) : g <= n => g <= c
        /\ \A g \in Interfaces(f) : g < c <=> g \in Done(f, n)
    BY <1>10, DoneAbove
  <2>2. \A g \in Interfaces(f) : g \in Done(f, n) \/ g = c
    <3>1. ASSUME NEW g \in Interfaces(f), g # c PROVE g < c
      <4>1. g \in 1..n /\ c \in 1..n /\ g <= c BY <1>2, <1>3, <2>1
      <4> QED BY <3>1, <4>1
    <3> QED BY <2>1, <3>1
  <2>3. Done(f, n) \subseteq Interfaces(f) BY DEF Done
  <2>4. f[c].name \in {"conn", "dest"}
    <3>1. c \in DOMAIN f /\ f[c].is = "section" BY DEF Sections
    <3> QED BY <3>1, WellFormedLine
  <2>5. CASE c \in Interfaces(f)
    <3>1. Interfaces(f) = Done(f, n) \cup {c} BY <2>2, <2>3, <2>5
    <3>2. r.temp = SessionOf(f, Body(f, c), <<>>) BY <1>3, <1>5, <1>10, <2>5
    <3>3. r.temp.id >= 0
      <4>1. Short(LastValue(f, Body(f, c), {"ID"}, -1)) >= 0 BY <2>5 DEF Interfaces
      <4> QED BY <3>2, <4>1, SessionFields
    <3>4. Ended(r) = Append(r.sessions, r.temp) BY <1>7, <3>3 DEF Ended
    <3>5. /\ Len(Ended(r)) = Len(r.sessions) + 1
          /\ \A i \in 1..Len(r.sessions) : Ended(r)[i] = r.sessions[i]
          /\ Ended(r)[Len(r.sessions) + 1] = r.temp
      BY <3>4, AppendList DEF Shape
    <3>6. /\ Place(f, c) = Len(r.sessions) + 1 /\ Cardinality(Interfaces(f)) = Len(r.sessions) + 1
      BY <1>6, <2>1, <2>5, <3>1, PlaceFacts
    <3>7. Ended(r)[Place(f, c)] = Meant(f, c)
      <4>1. PortsFor(f, c) = {}
        <5>1. ASSUME NEW i \in PortsFor(f, c) PROVE FALSE
          <6>1. PICK g \in Sections(f) : g > c BY <5>1 DEF PortsFor
          <6>2. g \in 1..n /\ c \in 1..n /\ g <= c BY <1>2, <1>3, <2>1
          <6> QED BY <6>1, <6>2
        <5> QED BY <5>1
      <4>2. Meant(f, c) = SessionOf(f, Body(f, c), <<>>) BY <4>1, NoDestinations DEF Meant
      <4> QED BY <3>2, <3>5, <3>6, <4>2
    <3>8. ASSUME NEW h \in Done(f, n) PROVE Ended(r)[Place(f, h)] = Meant(f, h)
      <4>1. Place(f, h) \in 1..Len(r.sessions) BY <1>6, PlaceFacts
      <4> QED BY <1>6, <3>5, <4>1
    <3> QED BY <3>1, <3>5, <3>6, <3>7, <3>8
  <2>6. CASE c \notin Interfaces(f)
    <3>1. Done(f, n) = Interfaces(f) BY <2>2, <2>3, <2>6
    <3>2. r.temp = NoSession
      <4>1. ASSUME f[c].name = "conn" PROVE r.temp = NoSession
        <5>1. \A i \in Body(f, c) : f[i].name \notin ConnKeys BY <2>6, <4>1 DEF WellFormed
        <5>2. SessionOf(f, Body(f, c), <<>>) = NoSession BY <5>1, FieldsNone
        <5> QED BY <1>5, <1>10, <4>1, <5>2
      <4> QED BY <1>10, <2>4, <4>1
    <3> QED BY <1>8, <3>1, <3>2
  <2> QED BY <2>5, <2>6
<1> QED BY <1>1, <1>9, <1>10 DEF SectionRead

-------------------------------------------------------------------------------
(* The theorem *)

\* Before every line of a well-formed file the reader holds what the lines above it mean.
RInv ==
  /\ TInv
  /\ pc = "open" => reader = Reader
  /\ WellFormed(file) /\ pc # "done" =>
       SectionRead(file, next - 1, reader) /\ SessionsRead(file, next - 1, reader)
  /\ LoadedAsWritten

LEMMA RInit == Init => RInv
<1> SUFFICES ASSUME Init PROVE RInv OBVIOUS
<1>1. TInv BY TInit
<1>2. next - 1 = 0 /\ reader = Reader /\ file \in Files /\ pc = "open" BY DEF Init
<1>3. SectionRead(file, next - 1, reader) /\ SessionsRead(file, next - 1, reader) BY <1>2, NothingIsRead
<1> QED BY <1>1, <1>2, <1>3 DEF RInv, LoadedAsWritten

LEMMA RStep == RInv /\ [Next]_vars => RInv'
<1> SUFFICES ASSUME RInv, [Next]_vars PROVE RInv' OBVIOUS
<1>1. TInv' BY TStep DEF RInv
<1>2. file \in Files /\ Len(file) \in Nat /\ DOMAIN file = 1..Len(file) /\ next \in 1..Len(file) + 1
      /\ Shape(reader)
  BY FileFacts DEF RInv, TInv, TypeOK, KInv
<1>3. PICK n \in Nat : n = next - 1 BY <1>2
<1>4. n + 1 = next BY <1>2, <1>3
<1>5. CASE ReadLine
  <2>1. /\ pc = "read" /\ pc' = "read" /\ file' = file /\ next' - 1 = n + 1 /\ n + 1 \in DOMAIN file
        /\ reader' = ReadsLine(reader, file[n + 1])
    BY <1>2, <1>4, <1>5 DEF ReadLine
  <2>2. ASSUME WellFormed(file)
        PROVE  SectionRead(file, n + 1, ReadsLine(reader, file[n + 1]))
               /\ SessionsRead(file, n + 1, ReadsLine(reader, file[n + 1]))
    <3>1. SectionRead(file, n, reader) /\ SessionsRead(file, n, reader) BY <1>3, <2>1, <2>2 DEF RInv
    <3> QED BY <1>2, <2>1, <2>2, <3>1, LineIsRead
  <2>3. LoadedAsWritten' BY <2>1 DEF LoadedAsWritten
  <2>4. WellFormed(file)' => SectionRead(file, next - 1, reader)' /\ SessionsRead(file, next - 1, reader)'
    BY <2>1, <2>2
  <2> QED BY <1>1, <2>1, <2>3, <2>4 DEF RInv
<1>6. ASSUME WellFormed(file), pc # "done", next > Len(file)
      PROVE  /\ Len(Ended(reader)) = Cardinality(Interfaces(file))
             /\ \A h \in Interfaces(file) : Ended(reader)[Place(file, h)] = Meant(file, h)
  <2>1. next - 1 = Len(file) BY <1>2, <1>6
  <2>2. SectionRead(file, Len(file), reader) /\ SessionsRead(file, Len(file), reader)
    BY <1>6, <2>1 DEF RInv
  <2> QED BY <1>2, <1>6, <2>2, EverythingIsRead
<1>7. CASE Returns
  <2>1. pc = "read" /\ pc' = "done" /\ UNCHANGED <<file, next, reader>> /\ session_infos' = Ended(reader)
    BY <1>7 DEF Returns
  <2>2. LoadedAsWritten' BY <1>6, <2>1 DEF LoadedAsWritten
  <2> QED BY <1>1, <2>1, <2>2 DEF RInv
<1>8. CASE CannotOpen
  <2>1. pc = "open" /\ pc' = "done" /\ UNCHANGED <<file, next, reader, session_infos>> BY <1>8 DEF CannotOpen
  <2>2. session_infos = Ended(reader)
    <3>1. session_infos = reader.sessions /\ reader = Reader BY <2>1 DEF RInv, TInv, KInv
    <3>2. Reader.temp = NoSession /\ ~(NoSession.id >= 0) BY NoSessionType DEF Reader
    <3> QED BY <3>1, <3>2 DEF Ended
  <2>3. LoadedAsWritten' BY <1>6, <2>1, <2>2 DEF LoadedAsWritten
  <2> QED BY <1>1, <2>1, <2>3 DEF RInv
<1>9. CASE Opens
  <2>1. pc = "open" /\ pc' = "read" /\ UNCHANGED <<file, next, reader>> BY <1>9 DEF Opens
  <2>2. LoadedAsWritten' BY <2>1 DEF LoadedAsWritten
  <2> QED BY <1>1, <2>1, <2>2 DEF RInv
<1>10. CASE UNCHANGED vars
  <2>1. LoadedAsWritten' BY <1>10 DEF vars, RInv, LoadedAsWritten
  <2> QED BY <1>1, <1>10, <2>1 DEF vars, RInv
<1> QED BY <1>5, <1>7, <1>8, <1>9, <1>10 DEF Next

\* Read line by line, with one temp_session and two loose ids carried from section to
\* section, a well-formed file of any length yields what its sections mean one by one:
\* interfaces in order with their own fields, destinations with every interface above
\* them that has the parent's id, the first of an id.  A number its conversion takes is
\* as written, but for what its field is too narrow for.
THEOREM ConfigLoadedAsWritten == Spec => []LoadedAsWritten
<1>1. RInv => LoadedAsWritten BY DEF RInv
<1> QED BY <1>1, RInit, RStep, PTL DEF Spec
===============================================================================
