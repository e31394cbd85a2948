---------------------------- MODULE MCSerialHandler ----------------------------
(* A small instance of SerialHandler for TLC. *)
EXTENDS SerialHandler

CONSTANTS c1, c2

TwoCallers == {c1, c2}
===============================================================================
