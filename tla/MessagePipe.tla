------------------------------ MODULE MessagePipe ------------------------------
(***************************************************************************)
(* What each queue of the library promises: items are served in the order  *)
(* they were offered, each once, one at a time.                            *)
(***************************************************************************)
EXTENDS Naturals, Sequences

CONSTANT Items
VARIABLES offered,  \* every item offered so far
          taken,    \* how many of them have been taken out
          serving   \* the one being served, 0 when none is

vars == <<offered, taken, serving>>

Init == offered = <<>> /\ taken = 0 /\ serving = 0

Offer ==
  /\ \E x \in Items : offered' = Append(offered, x)
  /\ UNCHANGED <<taken, serving>>

Take ==
  /\ serving = 0 /\ taken < Len(offered)
  /\ taken' = taken + 1
  /\ serving' = offered[taken + 1]
  /\ UNCHANGED offered

Finish ==
  /\ serving # 0
  /\ serving' = 0
  /\ UNCHANGED <<offered, taken>>

Next == Offer \/ Take \/ Finish

Spec == Init /\ [][Next]_vars
===============================================================================
