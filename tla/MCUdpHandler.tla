----------------------------- MODULE MCUdpHandler -----------------------------
(* Small instances of UdpHandler for TLC: two destinations, messages to all of *)
(* them or to one of them, an ICMP error; the threads of the application are   *)
(* interchangeable.                                                            *)
EXTENDS UdpHandler, TLC

CONSTANTS c1, c2

OneCaller == {c1}
TwoCallers == {c1, c2}
TwoDests == {1, 2}
OneDest == {1}
AllOrOne == {All, 1}
OnlyAll == {All}
Garbage == {9}
NoGarbage == {}
CallerSymmetry == Permutations({c1, c2})
===============================================================================
