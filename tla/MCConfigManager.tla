---------------------------- MODULE MCConfigManager ----------------------------
(* Files for TLC: the one create_ini writes, every file of up to two of the      *)
(* sections below, the malformed ones among them, of three of Main, four of Core. *)
EXTENDS ConfigManager

General   == <<Header("conn"), Key("TotalConnections", 6), Skipped>>
Server1   == <<Header("conn"), Key("ID", 1), Key("Type", 2), Key("ListeningPort", 7)>>
Udp1      == <<Header("conn"), Key("Type", 0), Key("ID", 1), Key("SourcePort", 8)>>
Client2   == <<Header("conn"), Key("ID", 2), Key("Type", 3), Key("ServerPort", 7), Key("ClientPort", 5)>>
Wrapped2  == <<Header("conn"), Key("ID", 65538), Key("Type", 65540), Key("Port", Refused), Key("BaudRate", 9)>>
Negative  == <<Header("conn"), Key("ID", 40000), Key("Type", 1)>>
NoId      == <<Header("conn"), Key("Type", 3), Key("ClientPort", 6)>>
BadNumber == <<Header("conn"), Key("ID", 3), Key("ServerPort", Refused), Key("Type", 2)>>
\* Numbers that the ports are too narrow for, and some that are refused.
WidePorts == <<Header("conn"), Key("ID", 2), Key("Type", 3), Key("ServerPort", UIntSize + 7), Key("ClientPort", -5)>>
TooWide   == <<Header("conn"), Key("ID", 2), Key("ClientPort", 7), Key("ServerPort", ULongMax + 1)>>
WideId    == <<Header("conn"), Key("Type", 2), Key("ID", IntMax + 1)>>
BadBaud   == <<Header("conn"), Key("ID", 2), Key("BaudRate", Refused), Key("Type", 4)>>
Nameless  == <<Header(NoName), Key("ID", 3)>>
To1       == <<Header("dest"), Key("ParentID", 1), Key("DestinationID", 1),
               Key("DestinationAddress", 5), Key("DestinationPort", 6)>>
To1Again  == <<Header("dest"), Key("DestinationID", 1), Key("ParentID", 1),
               Key("DestinationAddress", 7), Key("DestinationPort", -8)>>
To2       == <<Header("dest"), Key("ParentID", 2), Key("DestinationAddress", 5), Key("DestinationPort", 6)>>
Gap       == <<Header("dest"), Key("ParentID", 1), Key("DestinationAddress", 5), Skipped,
               Key("DestinationPort", 6)>>
Swallows  == <<Header("dest"), Key("ParentID", 1), Key("DestinationID", 2), Key("DestinationAddress", 5)>>
Comments  == <<Header("dest"), Key("ParentID", 1), Comment("DestinationPort", 3), Key("DestinationAddress", 5),
               Comment("DestinationPort", 4), Key("DestinationPort", 6)>>
BadPort   == <<Header("dest"), Key("ParentID", 1), Key("DestinationAddress", 5), Key("DestinationPort", ULongMax + 1)>>

Library == {General, Server1, Udp1, Client2, Wrapped2, Negative, NoId, BadNumber, WidePorts, TooWide, WideId,
            BadBaud, Nameless, To1, To1Again, To2, Gap, Swallows, Comments, BadPort}
Main == Library \ {General, Negative, TooWide, WideId, BadBaud, Nameless}
Core == {Server1, Client2, NoId, To1, To1Again}
SmallFiles ==
  {FlattenSeq(s) : s \in UNION {[1..n -> Library] : n \in 0..2} \cup [1..3 -> Main] \cup [1..4 -> Core]}
    \cup {Created}
===============================================================================
