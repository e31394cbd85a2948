-------------------------------- MODULE IniFile --------------------------------
(***************************************************************************)
(* The configuration file as config_manager.cpp reads and writes it: a     *)
(* sequence of lines, each a section header, a key with a value, or one    *)
(* that is skipped.  A header is "conn" (any name but the next two),       *)
(* "dest" (UDP_Destination_...) or "" ([]).  A value is a number, or a     *)
(* text that is none; keys of one group stand for all of it (BaudRate for  *)
(* DataWidth).                                                             *)
(***************************************************************************)
EXTENDS Integers, Sequences, SequencesExt

CONSTANTS Refused,             \* a text that is no number
          IntMax, UIntSize,    \* the largest int, the number of values of unsigned int
          ULongMax             \* the largest unsigned long
ASSUME RefusedAssumption == Refused \notin Int
ASSUME WidthsAssumption ==
  /\ IntMax \in Nat /\ IntMax >= 32767 /\ UIntSize = 2 * (IntMax + 1)
  /\ ULongMax \in Nat /\ ULongMax >= UIntSize - 1 /\ (ULongMax + 1) % UIntSize = 0

Header(name) == [is |-> "section", name |-> name, value |-> 0]
Key(name, value) == [is |-> "key", name |-> name, value |-> value]
NoName == ""   \* the header [], and the section of the lines before the first
Comment(name, value) == [is |-> "skipped", name |-> name, value |-> value]   \* ;name=value
Skipped == Comment(NoName, 0)

\* std::stoi and std::stoul throw for a text that is no number and for a number out of
\* range; strtoul takes a minus sign and negates what follows as an unsigned long.
Ints == (-IntMax - 1)..IntMax
StoiRefuses(v) == v = Refused \/ v \notin Ints
StoulRefuses(v) == v = Refused \/ v \notin (-ULongMax)..ULongMax
\* _id and _type are short, ports and baud rate unsigned int: the rest is cut off.
Short(n) == ((n + 32768) % 65536) - 32768
Unsigned(n) == n % UIntSize

NoSession == [id |-> -1, type |-> 0, server |-> 0, client |-> 0, udp |-> 0, serial |-> 0, baud |-> 0,
              dests |-> <<>>]

Reader ==   \* the local variables of load_from_file before the first line
  [section |-> NoName, temp |-> NoSession, parent |-> -1, dest |-> -1,
   ip |-> -1,   \* the DestinationAddress just read, -1 if the last line was none
   sessions |-> <<>>, failed |-> FALSE]

-------------------------------------------------------------------------------
(* load_from_file, line by line *)
\* Mutant: temp_session is not reset.
HeaderKeeps(r, line) ==
  [r EXCEPT !.sessions = IF r.section \notin {NoName, "dest"} /\ r.temp.id >= 0 THEN Append(@, r.temp) ELSE @,
            !.section = line.name,
            !.parent = IF line.name = "dest" THEN -1 ELSE @,
            !.dest = IF line.name = "dest" THEN -1 ELSE @]

\* A header stores the interface above it, when that has an id, and only then are
\* the fields read so far forgotten.
ReadsHeader(r, line) ==
  LET stored == r.section \notin {NoName, "dest"} /\ r.temp.id >= 0
  IN  [r EXCEPT !.sessions = IF stored THEN Append(@, r.temp) ELSE @,
                !.temp = IF stored THEN NoSession ELSE @,
                !.section = line.name,
                !.parent = IF line.name = "dest" THEN -1 ELSE @,
                !.dest = IF line.name = "dest" THEN -1 ELSE @]

\* Keys are looked for as substrings, the first that fits wins: any key with "ID" in
\* it is the id, one with "Port" and nothing before it the serial port.
Field ==
  [ID |-> "id", ParentID |-> "id", DestinationID |-> "id", Type |-> "type",
   ListeningPort |-> "server", ServerPort |-> "server", ClientPort |-> "client",
   SourcePort |-> "udp", Port |-> "serial", DestinationPort |-> "serial", BaudRate |-> "baud"]
\* The name of a serial port is text.
Refuses(field, value) ==
  \/ field \in {"id", "type"} /\ StoiRefuses(value)
  \/ field \in {"server", "client", "udp", "baud"} /\ StoulRefuses(value)
\* Mutant: numbers are not cut to the width of their field.
Widens(field, value) == value
Stored(field, value) ==
  CASE field \in {"id", "type"} -> Short(value)
    [] field = "serial" -> value
    [] OTHER -> Unsigned(value)

ReadsKey(r, line) ==
  IF line.name \notin DOMAIN Field THEN r
  ELSE IF Refuses(Field[line.name], line.value) THEN [r EXCEPT !.failed = TRUE]
  ELSE [r EXCEPT !.temp[Field[line.name]] = Stored(Field[line.name], line.value)]

\* In a destination section; its ids are int.
ReadsDestinationKey(r, line) ==
  IF line.name \in {"ParentID", "DestinationID"} /\ StoiRefuses(line.value) THEN [r EXCEPT !.failed = TRUE]
  ELSE CASE line.name = "ParentID" -> [r EXCEPT !.parent = line.value]
         [] line.name = "DestinationID" -> [r EXCEPT !.dest = line.value]
         [] line.name = "DestinationAddress" -> [r EXCEPT !.ip = line.value]
         [] OTHER -> r

\* std::map::insert keeps what is there.
Inserted(dests, id, to) ==
  [d \in DOMAIN dests \cup {id} |-> IF d \in DOMAIN dests THEN dests[d] ELSE to]
\* Mutant: the destination is assigned, as with override_existing.
Assigned(dests, id, to) ==
  [d \in DOMAIN dests \cup {id} |-> IF d = id THEN to ELSE dests[d]]

Attached(dests, id, to) == Inserted(dests, id, to)
WithDestination(s, r, port) ==
  IF s.id = r.parent THEN [s EXCEPT !.dests = Attached(@, r.dest, <<r.ip, port>>)] ELSE s

\* The line after an address is consumed unlooked at unless it holds the port - be it
\* in a comment -, which completes a destination of every interface stored so far that
\* has the parent's id.
ReadsPort(r, line) ==
  IF line.name # "DestinationPort" THEN [r EXCEPT !.ip = -1]
  ELSE IF StoulRefuses(line.value) THEN [r EXCEPT !.failed = TRUE]
  ELSE [r EXCEPT !.ip = -1,
                 !.sessions = [i \in DOMAIN @ |-> WithDestination(@[i], r, Unsigned(line.value))]]

ReadsLine(r, line) ==
  IF r.failed THEN r
  ELSE IF r.ip # -1 THEN ReadsPort(r, line)
  ELSE CASE line.is = "section" -> ReadsHeader(r, line)
         [] line.is = "skipped" -> r
         [] OTHER -> IF r.section = "dest" THEN ReadsDestinationKey(r, line) ELSE ReadsKey(r, line)

\* At the end the last interface is stored, unless an exception has ended the loop.
Ended(r) == IF ~r.failed /\ r.temp.id >= 0 THEN Append(r.sessions, r.temp) ELSE r.sessions

Reads(r, lines) ==
  LET after[n \in 0..Len(lines)] == IF n = 0 THEN r ELSE ReadsLine(after[n - 1], lines[n])
  IN  after[Len(lines)]
Load(file) == Ended(Reads(Reader, file))

-------------------------------------------------------------------------------
(* save_ini and create_ini *)

\* Mutant: a client's two ports are swapped.
SwapsPorts(s) ==
  CASE s.type = 2 -> <<Key("ListeningPort", s.server)>>
    [] s.type = 3 -> <<Key("ServerPort", s.client), Key("ClientPort", s.server)>>
    [] s.type = 0 -> <<Key("SourcePort", s.udp)>>
    [] s.type = 4 -> <<Key("Port", s.serial), Key("BaudRate", s.baud)>>
    [] OTHER -> <<>>
\* Keys written for a type; a destination is written without its address.
KeysOf(s) ==
  CASE s.type = 2 -> <<Key("ListeningPort", s.server)>>
    [] s.type = 3 -> <<Key("ServerPort", s.server), Key("ClientPort", s.client)>>
    [] s.type = 0 -> <<Key("SourcePort", s.udp)>>
    [] s.type = 4 -> <<Key("Port", s.serial), Key("BaudRate", s.baud)>>
    [] OTHER -> <<>>
SavedSession(s) ==
  <<Header("conn"), Key("ID", s.id), Key("Type", s.type)>> \o KeysOf(s) \o <<Skipped>>
    \o (IF s.type = 0 THEN FlattenSeq([i \in 1..Cardinality(DOMAIN s.dests) |->
                                         <<Header("dest"), Key("ParentID", s.id)>>])
        ELSE <<>>)
Saved(sessions) ==
  <<Skipped, Header("conn"), Key("TotalConnections", Len(sessions)), Skipped>>
    \o FlattenSeq([i \in DOMAIN sessions |-> SavedSession(sessions[i])])

\* The file create_ini writes.
Created ==
  <<Skipped, Header("conn"), Key("TotalConnections", 6), Skipped,
    Header("conn"), Key("ID", 0), Key("Type", 2), Key("Description", 0),
    Key("ListeningAddress", 0), Key("ListeningPort", 16000), Skipped,
    Header("conn"), Key("ID", 1), Key("Type", 3), Key("ServerPort", 16000), Key("ClientPort", 16001), Skipped,
    Header("conn"), Key("ID", 2), Key("Type", 0), Key("SourcePort", 15000), Skipped,
    Header("dest"), Key("ParentID", 2), Key("DestinationID", 1),
    Key("DestinationAddress", 127), Key("DestinationPort", 15001), Skipped,
    Header("dest"), Key("ParentID", 2), Key("DestinationID", 2),
    Key("DestinationAddress", 127), Key("DestinationPort", 15002), Skipped,
    Header("conn"), Key("ID", 3), Key("Type", 4), Key("Port", 3), Key("BaudRate", 38400), Skipped,
    Header("conn"), Key("ID", 4), Key("Type", 4), Key("Port", 4), Key("BaudRate", 38400)>>
===============================================================================
