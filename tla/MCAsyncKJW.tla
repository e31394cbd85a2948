------------------------------ MODULE MCAsyncKJW ------------------------------
(* A small instance of AsyncKJW for TLC.  The lists load() works on are what IniFile loads   *)
(* of three files: one with an unknown type and a section without id; one with an id and, as  *)
(* a number that a short makes of it, the same id again; and one with a serial port.          *)
EXTENDS AsyncKJW

CONSTANTS c1, c2, Refused, IntMax, UIntSize, ULongMax

Ini == INSTANCE IniFile

TwoCallers == {c1, c2}
TwoIds == {1, 2}
FirstGivenOut == {1}

Section(id, type) == <<Ini!Header("conn"), Ini!Key("ID", id), Ini!Key("Type", type)>>
Files == {
  Section(1, 0) \o Section(2, 2) \o Section(2, 9) \o <<Ini!Header("conn"), Ini!Key("Type", 1)>>,
  Section(1, 3) \o Section(65537, 3), Section(2, 4) }
Configured(file) ==
  LET infos == Ini!Load(file) IN [i \in DOMAIN infos |-> [id |-> infos[i].id, type |-> infos[i].type]]
SomeConfigs == {Configured(file) : file \in Files}
===============================================================================
