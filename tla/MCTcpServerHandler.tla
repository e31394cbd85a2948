-------------------------- MODULE MCTcpServerHandler --------------------------
(* Small instances of TcpServerHandler for TLC. *)
EXTENDS TcpServerHandler

CONSTANT c1

Nobody == {}
OneCaller == {c1}
FirstConn == {1}
===============================================================================
