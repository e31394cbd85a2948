----------------------------- MODULE ConfigManager -----------------------------
(***************************************************************************)
(* config_manager (config/config_manager.cpp): load_ini() reads a file     *)
(* line by line (IniFile says what a line does) and fills session_infos.   *)
(***************************************************************************)
EXTENDS IniFile

CONSTANT Files   \* the files load_ini may be given

\* Names of keys are any; the address of a destination is a token other than -1, which
\* the reader takes for none.  Of the lines that are skipped only a commented-out port
\* is told from the others.
Values == Int \cup {Refused}
Shorts == -32768..32767
Line == [is : {"section", "key", "skipped"}, name : STRING, value : Values]
ASSUME FilesAssumption ==
  \A f \in Files :
    /\ f \in Seq(Line)
    /\ \A i \in DOMAIN f :
         /\ f[i].is = "section" => f[i].name \in {NoName, "conn", "dest"}
         /\ f[i].is = "skipped" => f[i].name \in {NoName, "DestinationPort"}
         /\ f[i].name = "DestinationAddress" => f[i].value # -1

VARIABLES file, next,      \* the file, the number of the line to read
          reader,          \* the local variables of load_from_file
          pc, session_infos

vars == <<file, next, reader, pc, session_infos>>

\* A serial port and an address are text, which no conversion sees.
UInts == 0..(UIntSize - 1)
IsSession(s) ==
  /\ DOMAIN s = {"id", "type", "server", "client", "udp", "serial", "baud", "dests"}
  /\ s.id \in Shorts /\ s.type \in Shorts
  /\ s.server \in UInts /\ s.client \in UInts /\ s.udp \in UInts /\ s.baud \in UInts
  /\ s.serial \in Values
  /\ \A d \in DOMAIN s.dests : d \in Ints /\ s.dests[d] \in Values \X UInts
TypeOK ==
  /\ file \in Files /\ next \in 1..Len(file) + 1
  /\ reader.section \in {NoName, "conn", "dest"} /\ IsSession(reader.temp) /\ reader.temp.dests = <<>>
  /\ reader.parent \in Ints /\ reader.dest \in Ints /\ reader.ip \in Values /\ reader.failed \in BOOLEAN
  /\ pc \in {"open", "read", "done"}
  /\ \A s \in ToSet(reader.sessions) \cup ToSet(session_infos) : IsSession(s) /\ s.id >= 0

Init ==
  /\ file \in Files /\ next = 1
  /\ reader = Reader
  /\ pc = "open" /\ session_infos = <<>>

\* load() calls load_ini with an empty list.
Opens ==
  /\ pc = "open"
  /\ pc' = "read"
  /\ UNCHANGED <<file, next, reader, session_infos>>

CannotOpen ==
  /\ pc = "open"
  /\ pc' = "done"
  /\ UNCHANGED <<file, next, reader, session_infos>>

ReadLine ==
  /\ pc = "read" /\ ~reader.failed /\ next <= Len(file)
  /\ reader' = ReadsLine(reader, file[next])
  /\ next' = next + 1
  /\ session_infos' = reader'.sessions
  /\ UNCHANGED <<file, pc>>

Returns ==
  /\ pc = "read" /\ (reader.failed \/ next > Len(file))
  /\ session_infos' = Ended(reader)
  /\ pc' = "done"
  /\ UNCHANGED <<file, next, reader>>

Next == Opens \/ CannotOpen \/ ReadLine \/ Returns
Spec == Init /\ [][Next]_vars

-------------------------------------------------------------------------------
(* What a file means, by its sections *)

Sections(f) == {h \in DOMAIN f : f[h].is = "section"}
Body(f, h) == {i \in DOMAIN f : i > h /\ f[i].is = "key" /\ \A j \in h+1..i : j \notin Sections(f)}
LastValue(f, lines, names, default) ==
  LET hits == {i \in lines : f[i].name \in names}
  IN  IF hits = {} THEN default ELSE f[Max(hits)].value

Interfaces(f) == {h \in Sections(f) : f[h].name = "conn" /\ Short(LastValue(f, Body(f, h), {"ID"}, -1)) >= 0}
\* Ports of the destination sections below h that name the interface of h as parent.
PortsFor(f, h) ==
  {i \in DOMAIN f : \E g \in Sections(f) :
     /\ g > h /\ f[g].name = "dest" /\ i \in Body(f, g) /\ f[i].name = "DestinationPort"
     /\ LastValue(f, {j \in Body(f, g) : j < i}, {"ParentID"}, -1) = Short(LastValue(f, Body(f, h), {"ID"}, -1))}
DestinationId(f, i) ==
  LET g == Max({h \in Sections(f) : h < i})
  IN  LastValue(f, {j \in Body(f, g) : j < i}, {"DestinationID"}, -1)
\* map::insert: of the ports of one destination the first.
DestinationsAt(f, ports) ==
  [d \in {DestinationId(f, i) : i \in ports} |->
     LET first == Min({i \in ports : DestinationId(f, i) = d})
     IN  <<f[first - 1].value, Unsigned(f[first].value)>>]
SessionOf(f, body, dests) ==
  LET Number(names) == Unsigned(LastValue(f, body, names, 0))
  IN  [id |-> Short(LastValue(f, body, {"ID"}, -1)), type |-> Short(LastValue(f, body, {"Type"}, 0)),
       server |-> Number({"ListeningPort", "ServerPort"}), client |-> Number({"ClientPort"}),
       udp |-> Number({"SourcePort"}), serial |-> LastValue(f, body, {"Port"}, 0),
       baud |-> Number({"BaudRate"}), dests |-> dests]
Meant(f, h) == SessionOf(f, Body(f, h), DestinationsAt(f, PortsFor(f, h)))
\* The place of an interface among those of the file.
Place(f, h) == Cardinality({g \in Interfaces(f) : g <= h})

\* The files the format is for: every key in a section of its own kind, an interface
\* with fields has an id, every address is followed by its port, and every number is
\* one its conversion takes, however wide.
ConnKeys == DOMAIN Field \ {"ParentID", "DestinationID", "DestinationPort"}
DestKeys == {"ParentID", "DestinationID", "DestinationAddress", "DestinationPort"}
Accepted(line) ==
  /\ line.name \in DOMAIN Field \ {"DestinationPort"} => ~Refuses(Field[line.name], line.value)
  /\ line.name = "DestinationPort" => ~StoulRefuses(line.value)
IsKey(f, i, name) == i \in DOMAIN f /\ f[i].is = "key" /\ f[i].name = name
WellFormed(f) ==
  /\ \A i \in DOMAIN f :
       /\ f[i].is = "key" => Accepted(f[i]) /\ \E h \in Sections(f) : i \in Body(f, h)
       /\ IsKey(f, i, "DestinationAddress") => IsKey(f, i + 1, "DestinationPort")
       /\ IsKey(f, i, "DestinationPort") => IsKey(f, i - 1, "DestinationAddress")
  /\ \A h \in Sections(f) :
       /\ f[h].name # NoName
       /\ \A i \in Body(f, h) : f[i].name \notin IF f[h].name = "dest" THEN ConnKeys ELSE DestKeys
       /\ f[h].name = "conn" /\ (\E i \in Body(f, h) : f[i].name \in ConnKeys) => h \in Interfaces(f)

-------------------------------------------------------------------------------
(* Properties *)

\* Read line by line, with one temp_session and two loose ids carried from section to
\* section, a well-formed file yields what its sections mean one by one: interfaces
\* in order with their own fields, destinations with every interface above them that
\* has the parent's id, the first of an id; a number is as written, but for what its
\* field is too narrow for.
LoadedAsWritten ==
  pc = "done" /\ next > Len(file) /\ WellFormed(file) =>
    /\ Len(session_infos) = Cardinality(Interfaces(file))
    /\ \A h \in Interfaces(file) : session_infos[Place(file, h)] = Meant(file, h)

\* Whatever the file, a line never undoes what was stored before it: interfaces keep
\* their place and fields, destinations are only added; an exception keeps them too.
Extends(s, t) ==
  /\ [s EXCEPT !.dests = <<>>] = [t EXCEPT !.dests = <<>>]
  /\ \A d \in DOMAIN s.dests : d \in DOMAIN t.dests /\ t.dests[d] = s.dests[d]
ReadIsKept ==
  [][/\ Len(session_infos') >= Len(session_infos)
     /\ \A i \in DOMAIN session_infos : Extends(session_infos[i], session_infos'[i])]_vars

\* What save_ini would write of a loaded list is loaded again as that list, but for
\* the destinations, and the fields that do not belong to the type.
Kept(s) ==
  [s EXCEPT !.dests = <<>>,
            !.server = IF s.type \in {2, 3} THEN @ ELSE 0, !.client = IF s.type = 3 THEN @ ELSE 0,
            !.udp = IF s.type = 0 THEN @ ELSE 0, !.serial = IF s.type = 4 THEN @ ELSE 0,
            !.baud = IF s.type = 4 THEN @ ELSE 0]
SavedIsLoaded ==
  pc = "done" => Load(Saved(session_infos)) = [i \in DOMAIN session_infos |-> Kept(session_infos[i])]
===============================================================================
