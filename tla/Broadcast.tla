------------------------------- MODULE Broadcast -------------------------------
(***************************************************************************)
(* What the outbound side of the TCP server promises: messages are taken   *)
(* in the order they were accepted, by several servers at once, and each   *)
(* is handed once to every member of the group its server began with, but  *)
(* for those that are cut off meanwhile.  A message may be lost while it   *)
(* is handed out: nothing is promised of it any more, and all of the rest. *)
(***************************************************************************)
EXTENDS Naturals, Sequences

CONSTANTS Servers, Members, Messages
VARIABLES offered,   \* how many messages have been accepted; they are 1..offered
          taken,     \* how many of them have been taken
          serving,   \* the message of each server, 0 when it has none
          begun,     \* the servers that have begun to hand theirs out
          group,     \* whom each message was for when that began
          lost,      \* the messages that went astray
          received,  \* what each member was handed
          cut        \* the members that are cut off

vars == <<offered, taken, serving, begun, group, lost, received, cut>>

Has(c, m) == \E i \in DOMAIN received[c] : received[c][i] = m

Init ==
  /\ offered = 0 /\ taken = 0
  /\ serving = [s \in Servers |-> 0] /\ begun = {}
  /\ group = [m \in Messages |-> {}] /\ lost = {}
  /\ received = [c \in Members |-> <<>>] /\ cut = {}

Offer ==
  /\ offered + 1 \in Messages
  /\ offered' = offered + 1
  /\ UNCHANGED <<taken, serving, begun, group, lost, received, cut>>

Take(s) ==
  /\ serving[s] = 0 /\ taken < offered
  /\ taken' = taken + 1
  /\ serving' = [serving EXCEPT ![s] = taken + 1]
  /\ UNCHANGED <<offered, begun, group, lost, received, cut>>

Begin(s) ==
  /\ serving[s] # 0 /\ s \notin begun
  /\ begun' = begun \cup {s}
  /\ \E G \in SUBSET Members : group' = [group EXCEPT ![serving[s]] = G]
  /\ UNCHANGED <<offered, taken, serving, lost, received, cut>>

Deliver(s) ==
  /\ s \in begun
  /\ \E c \in Members :
       /\ ~Has(c, serving[s]) \/ serving[s] \in lost
       /\ received' = [received EXCEPT ![c] = Append(@, serving[s])]
  /\ UNCHANGED <<offered, taken, serving, begun, group, lost, cut>>

Finish(s) ==
  /\ s \in begun
  /\ serving[s] \notin lost => \A c \in group[serving[s]] \ cut : Has(c, serving[s])
  /\ serving' = [serving EXCEPT ![s] = 0]
  /\ begun' = begun \ {s}
  /\ UNCHANGED <<offered, taken, group, lost, received, cut>>

\* Its message goes astray, as it is handed to anybody or while somebody is cut off.
Lose(s) ==
  /\ s \in begun
  /\ lost' = lost \cup {serving[s]}
  /\ \/ UNCHANGED received
     \/ \E c \in Members : received' = [received EXCEPT ![c] = Append(@, serving[s])]
  /\ cut' \in SUBSET Members /\ cut \subseteq cut'
  /\ UNCHANGED <<offered, taken, serving, begun, group>>

\* At any time, any of them, for good.
CutOff ==
  /\ cut' \in SUBSET Members /\ cut \subseteq cut'
  /\ UNCHANGED <<offered, taken, serving, begun, group, lost, received>>

Next == Offer \/ CutOff \/ \E s \in Servers : Take(s) \/ Begin(s) \/ Deliver(s) \/ Lose(s) \/ Finish(s)

Spec == Init /\ [][Next]_vars
===============================================================================
