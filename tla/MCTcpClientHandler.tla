-------------------------- MODULE MCTcpClientHandler --------------------------
(* Small instances of TcpClientHandler for TLC; the threads of the application *)
(* are interchangeable.                                                        *)
EXTENDS TcpClientHandler, TLC

CONSTANTS c1, c2

OneCaller == {c1}
TwoCallers == {c1, c2}
CallerSymmetry == Permutations({c1, c2})
===============================================================================
