------------------------------ MODULE QueueLemmas ------------------------------
(***************************************************************************)
(* What the proofs about the handlers use of sequences: the two ends of a  *)
(* queue, and the one sequence that a queue and the record of what has     *)
(* left it make up together.                                               *)
(***************************************************************************)
EXTENDS Integers, Sequences, TLAPS

\* The front of a queue and what pop_front() leaves.
LEMMA HeadTail ==
  ASSUME NEW S, NEW q \in Seq(S), q # <<>>
  PROVE  /\ Head(q) \in S /\ Tail(q) \in Seq(S)
         /\ Len(q) \in Nat /\ Len(q) > 0 /\ Len(Tail(q)) = Len(q) - 1 /\ Head(q) = q[1]
         /\ DOMAIN q = 1..Len(q) /\ DOMAIN Tail(q) = 1..(Len(q) - 1)
         /\ \A i \in 1..(Len(q) - 1) : Tail(q)[i] = q[i + 1]
OBVIOUS

\* What emplace_back() leaves.
LEMMA AppendFacts ==
  ASSUME NEW S, NEW q \in Seq(S), NEW x \in S
  PROVE  /\ Append(q, x) \in Seq(S) /\ Append(q, x) # <<>>
         /\ Len(q) \in Nat /\ Len(Append(q, x)) = Len(q) + 1
         /\ DOMAIN q = 1..Len(q) /\ DOMAIN Append(q, x) = 1..(Len(q) + 1)
         /\ \A i \in 1..Len(q) : Append(q, x)[i] = q[i]
         /\ Append(q, x)[Len(q) + 1] = x
OBVIOUS

LEMMA ElementType ==
  ASSUME NEW S, NEW q \in Seq(S), NEW i \in 1..Len(q)
  PROVE  q[i] \in S
OBVIOUS

LEMMA WiderType ==
  ASSUME NEW S, NEW T, S \subseteq T, NEW q \in Seq(S)
  PROVE  q \in Seq(T)
<1>1. q = [i \in 1..Len(q) |-> q[i]] /\ Len(q) \in Nat OBVIOUS
<1>2. \A i \in 1..Len(q) : q[i] \in T BY ElementType
<1>3. [i \in 1..Len(q) |-> q[i]] \in Seq(T) BY <1>1, <1>2
<1> QED BY <1>1, <1>3

LEMMA SequenceIsFunction ==
  ASSUME NEW S, NEW q \in Seq(S)
  PROVE  q = [i \in 1..Len(q) |-> q[i]] /\ DOMAIN q = 1..Len(q) /\ Len(q) \in Nat
OBVIOUS

LEMMA SequencesEqual ==
  ASSUME NEW S, NEW p \in Seq(S), NEW q \in Seq(S), Len(p) = Len(q),
         \A i \in 1..Len(p) : p[i] = q[i]
  PROVE  p = q
BY SequenceIsFunction

LEMMA ConcatFacts ==
  ASSUME NEW S, NEW p \in Seq(S), NEW q \in Seq(S)
  PROVE  /\ p \o q \in Seq(S) /\ Len(p) \in Nat /\ Len(q) \in Nat /\ Len(p \o q) = Len(p) + Len(q)
         /\ \A i \in 1..Len(p) : (p \o q)[i] = p[i]
         /\ \A i \in 1..Len(q) : (p \o q)[Len(p) + i] = q[i]
OBVIOUS

\* An item moved from the front of one sequence to the end of the other.
LEMMA MovesOver ==
  ASSUME NEW S, NEW p \in Seq(S), NEW q \in Seq(S), q # <<>>
  PROVE  Append(p, Head(q)) \o Tail(q) = p \o q /\ (p \o q)[Len(p) + 1] = Head(q)
         /\ Len(p) < Len(p \o q)
<1> DEFINE l == Append(p, Head(q)) \o Tail(q)
           r == p \o q
           n == Len(p) + Len(q)
<1>1. /\ Len(p) \in Nat /\ Len(q) \in Nat /\ Len(q) > 0 /\ Head(q) \in S /\ Head(q) = q[1]
      /\ Tail(q) \in Seq(S) /\ Len(Tail(q)) = Len(q) - 1
      /\ \A i \in 1..(Len(q) - 1) : Tail(q)[i] = q[i + 1]
  OBVIOUS
<1>2. /\ Append(p, Head(q)) \in Seq(S) /\ Len(Append(p, Head(q))) = Len(p) + 1
      /\ \A i \in 1..Len(p) : Append(p, Head(q))[i] = p[i]
      /\ Append(p, Head(q))[Len(p) + 1] = Head(q)
  BY <1>1, AppendFacts
<1>3. r \in Seq(S) /\ Len(r) = n /\ \A i \in 1..n : r[i] = IF i <= Len(p) THEN p[i] ELSE q[i - Len(p)]
  BY <1>1
<1>4. l \in Seq(S) /\ Len(l) = n
      /\ \A i \in 1..n : l[i] = IF i <= Len(p) + 1 THEN Append(p, Head(q))[i] ELSE Tail(q)[i - (Len(p) + 1)]
  BY <1>1, <1>2
<1>5. ASSUME NEW i \in 1..n PROVE l[i] = r[i]
  <2>1. CASE i <= Len(p) BY <1>1, <1>2, <1>3, <1>4, <2>1
  <2>2. CASE i = Len(p) + 1 BY <1>1, <1>2, <1>3, <1>4, <2>2
  <2>3. CASE i > Len(p) + 1
    <3>1. i - (Len(p) + 1) \in 1..(Len(q) - 1) BY <1>1, <2>3
    <3>2. Tail(q)[i - (Len(p) + 1)] = q[(i - (Len(p) + 1)) + 1] BY <1>1, <3>1
    <3>3. (i - (Len(p) + 1)) + 1 = i - Len(p) BY <1>1
    <3> QED BY <1>1, <1>3, <1>4, <2>3, <3>2, <3>3
  <2> QED BY <1>1, <2>1, <2>2, <2>3
<1>6. l = [i \in 1..Len(l) |-> l[i]] /\ r = [i \in 1..Len(r) |-> r[i]]
  <2> HIDE DEF l, r, n
  <2> QED BY <1>3, <1>4, SequenceIsFunction
<1>7. l = r
  <2> HIDE DEF l, r, n
  <2> QED BY <1>3, <1>4, <1>5, <1>6
<1>8. r[Len(p) + 1] = Head(q) /\ Len(p) < Len(r) BY <1>1, <1>3
<1> QED BY <1>7, <1>8

\* An item that joins a queue joins the whole.
LEMMA AppendsBehind ==
  ASSUME NEW S, NEW p \in Seq(S), NEW q \in Seq(S), NEW x \in S
  PROVE  p \o Append(q, x) = Append(p \o q, x)
<1> DEFINE l == p \o Append(q, x)
           r == Append(p \o q, x)
           n == Len(p) + Len(q)
<1>1. /\ Len(p) \in Nat /\ Len(q) \in Nat /\ Append(q, x) \in Seq(S) /\ Len(Append(q, x)) = Len(q) + 1
      /\ \A i \in 1..Len(q) : Append(q, x)[i] = q[i]
      /\ Append(q, x)[Len(q) + 1] = x
  BY AppendFacts
<1>2. p \o q \in Seq(S) /\ Len(p \o q) = n
      /\ \A i \in 1..n : (p \o q)[i] = IF i <= Len(p) THEN p[i] ELSE q[i - Len(p)]
  BY <1>1
<1>3. r \in Seq(S) /\ Len(r) = n + 1 /\ r[n + 1] = x /\ \A i \in 1..n : r[i] = (p \o q)[i]
  BY <1>2, AppendFacts
<1>4. l \in Seq(S) /\ Len(l) = n + 1
      /\ \A i \in 1..(n + 1) : l[i] = IF i <= Len(p) THEN p[i] ELSE Append(q, x)[i - Len(p)]
  BY <1>1
<1>5. \A i \in 1..(n + 1) : l[i] = r[i] BY <1>1, <1>2, <1>3, <1>4
<1>6. l = [i \in 1..Len(l) |-> l[i]] /\ r = [i \in 1..Len(r) |-> r[i]]
  <2> HIDE DEF l, r, n
  <2> QED BY <1>3, <1>4, SequenceIsFunction
<1>7. l = r
  <2> HIDE DEF l, r, n
  <2> QED BY <1>3, <1>4, <1>5, <1>6
<1> QED BY <1>7

===============================================================================
