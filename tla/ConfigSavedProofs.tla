--------------------------- MODULE ConfigSavedProofs ---------------------------
(***************************************************************************)
(* What save_ini writes of a list that load_ini has read is read back as   *)
(* that list, for a list of any length.                                    *)
(*                                                                         *)
(* Both sides are recursive functions - Reads takes a file line by line,   *)
(* FlattenSeq puts the lines of the interfaces behind one another - so the *)
(* first part shows that these functions exist, by induction on the set of *)
(* the numbers up to which they do (SetInduction), and with it that lines  *)
(* can be read in portions (ReadsConcat).                                  *)
(*                                                                         *)
(* The second part follows the reader through the lines of one interface:  *)
(* Ready says that a header, or the end, would make its list l, Opened     *)
(* what it holds below a header.  SessionRead: the lines of one interface  *)
(* lead from Ready with l to Ready with that interface behind l; ListRead  *)
(* is the induction over the list.                                         *)
(***************************************************************************)
EXTENDS ConfigManagerProofs, QueueLemmas

-------------------------------------------------------------------------------
(* Recursive functions over a sequence *)

\* Induction on the members of a set.
LEMMA LeastOf ==
  ASSUME NEW S, S \subseteq Nat, S # {}
  PROVE  \E x \in S : \A y \in S : x <= y
<1>1. PICK x \in S : \A y \in S : ~ (<<y, x>> \in OpToRel(<, Nat))
  BY WFMin, NatLessThanWellFounded, Zenon
<1>2. \A y \in S : ~ (y < x) BY <1>1 DEF OpToRel
<1> QED BY <1>2

LEMMA SetInduction ==
  ASSUME NEW N \in Nat, NEW S, 0 \in S, \A n \in 0..(N - 1) : n \in S => n + 1 \in S
  PROVE  \A n \in 0..N : n \in S
<1> DEFINE T == {n \in 0..N : n \notin S}
<1>1. SUFFICES ASSUME T # {} PROVE FALSE OBVIOUS
<1>2. PICK x \in T : \A y \in T : x <= y
  <2>1. T \subseteq Nat OBVIOUS
  <2> HIDE DEF T
  <2> QED BY <1>1, <2>1, LeastOf
<1>3. x \in 0..N /\ x \notin S /\ x # 0 BY <1>2
<1>4. x - 1 \in 0..(N - 1) BY <1>3
<1>5. x - 1 \notin T BY <1>2, <1>4
<1>6. x - 1 \in S BY <1>4, <1>5
<1>7. (x - 1) + 1 \in S BY <1>4, <1>6
<1> QED BY <1>3, <1>7

\* The function that Reads defines exists.
LEMMA ReadsFunction ==
  ASSUME NEW r, NEW lines, Len(lines) \in Nat
  PROVE  \E f : /\ f = [n \in 0..Len(lines) |-> IF n = 0 THEN r ELSE ReadsLine(f[n - 1], lines[n])]
                /\ Reads(r, lines) = f[Len(lines)]
<1> DEFINE N == Len(lines)
           Is(f, k) == f = [n \in 0..k |-> IF n = 0 THEN r ELSE ReadsLine(f[n - 1], lines[n])]
           S == {k \in 0..N : \E f : Is(f, k)}
<1>1. 0 \in S
  <2>1. Is([n \in 0..0 |-> r], 0) OBVIOUS
  <2>2. 0 \in 0..N OBVIOUS
  <2> HIDE DEF Is, N
  <2> QED BY <2>1, <2>2
<1>2. ASSUME NEW k \in 0..(N - 1), k \in S PROVE k + 1 \in S
  <2>1. PICK f : Is(f, k) BY <1>2
  <2> DEFINE g == [n \in 0..(k + 1) |-> IF n = k + 1 THEN ReadsLine(f[k], lines[k + 1]) ELSE f[n]]
  <2>2. \A n \in 0..k : g[n] = f[n] OBVIOUS
  <2>3. ASSUME NEW n \in 0..(k + 1)
        PROVE  g[n] = IF n = 0 THEN r ELSE ReadsLine(g[n - 1], lines[n])
    <3>1. CASE n = 0 BY <2>1, <3>1
    <3>2. CASE n = k + 1
      <4>1. g[n] = ReadsLine(f[k], lines[n]) BY <3>2
      <4>2. g[n - 1] = f[k] BY <3>2, <2>2
      <4> HIDE DEF g
      <4> QED BY <4>1, <4>2, <3>2
    <3>3. CASE n \in 1..k
      <4>1. g[n] = f[n] /\ g[n - 1] = f[n - 1] BY <2>2, <3>3
      <4>2. f[n] = ReadsLine(f[n - 1], lines[n]) BY <2>1, <3>3
      <4> HIDE DEF g
      <4> QED BY <4>1, <4>2, <3>3
    <3> QED BY <3>1, <3>2, <3>3
  <2>4. g = [n \in 0..(k + 1) |-> g[n]] OBVIOUS
  <2>5. Is(g, k + 1)
    <3> HIDE DEF g
    <3> QED BY <2>3, <2>4
  <2>6. k + 1 \in 0..N OBVIOUS
  <2> HIDE DEF g, Is, N
  <2> QED BY <2>5, <2>6
<1>3. N \in S
  <2>1. N \in Nat OBVIOUS
  <2> HIDE DEF S, N
  <2>2. \A k \in 0..(N - 1) : k \in S => k + 1 \in S BY <1>2
  <2>3. \A k \in 0..N : k \in S BY <1>1, <2>1, <2>2, SetInduction, Zenon
  <2> QED BY <2>1, <2>3
<1>4. \E f : Is(f, N) BY <1>3 DEF S
<1>5. Is(CHOOSE f : Is(f, N), N)
  <2> HIDE DEF Is
  <2> QED BY <1>4, Zenon
<1>6. Reads(r, lines) = (CHOOSE f : Is(f, N))[N] BY Zenon DEF Reads
<1>7. \E f : Is(f, N) /\ Reads(r, lines) = f[N]
  <2> HIDE DEF Is, N
  <2> QED BY <1>5, <1>6, Zenon
<1> QED BY <1>7

\* Any function that starts at r and takes the lines one by one ends at Reads.
LEMMA ReadsEvery ==
  ASSUME NEW r, NEW lines, Len(lines) \in Nat
  PROVE  \A f : f[0] = r /\ (\A n \in 1..Len(lines) : f[n] = ReadsLine(f[n - 1], lines[n]))
                  => Reads(r, lines) = f[Len(lines)]
<1>1. PICK g : /\ g = [n \in 0..Len(lines) |-> IF n = 0 THEN r ELSE ReadsLine(g[n - 1], lines[n])]
               /\ Reads(r, lines) = g[Len(lines)]
  BY ReadsFunction, Zenon
<1> SUFFICES ASSUME NEW f, f[0] = r, \A n \in 1..Len(lines) : f[n] = ReadsLine(f[n - 1], lines[n])
             PROVE  Reads(r, lines) = f[Len(lines)]
  OBVIOUS
<1> DEFINE N == Len(lines)
<1>2. g[0] = r /\ \A n \in 1..N : g[n] = ReadsLine(g[n - 1], lines[n]) BY <1>1
<1> DEFINE S == {n \in 0..N : f[n] = g[n]}
<1>3. N \in Nat /\ 0 \in S BY <1>2
<1>4. ASSUME NEW n \in 0..(N - 1), n \in S PROVE n + 1 \in S
  <2>1. n + 1 \in 1..N /\ (n + 1) - 1 = n BY <1>3
  <2>2. f[n + 1] = ReadsLine(f[n], lines[n + 1]) /\ g[n + 1] = ReadsLine(g[n], lines[n + 1])
    BY <1>2, <2>1
  <2> QED BY <1>4, <2>1, <2>2
<1>5. N \in S
  <2> HIDE DEF S, N
  <2>1. \A n \in 0..(N - 1) : n \in S => n + 1 \in S BY <1>4
  <2>2. \A n \in 0..N : n \in S BY <1>3, <2>1, SetInduction, Zenon
  <2> QED BY <1>3, <2>2
<1> QED BY <1>1, <1>5

LEMMA ReadsIs ==
  ASSUME NEW r, NEW lines, Len(lines) \in Nat, NEW f, f[0] = r,
         \A n \in 1..Len(lines) : f[n] = ReadsLine(f[n - 1], lines[n])
  PROVE  Reads(r, lines) = f[Len(lines)]
BY ReadsEvery, Zenon

\* Reading one sequence of lines after another.
LEMMA ReadsConcat ==
  ASSUME NEW S, NEW p \in Seq(S), NEW q \in Seq(S), NEW r
  PROVE  Reads(r, p \o q) = Reads(Reads(r, p), q)
<1> DEFINE P == Len(p)
           Q == Len(q)
           l == p \o q
<1>1. /\ P \in Nat /\ Q \in Nat /\ Len(l) = P + Q
      /\ \A n \in 1..P : l[n] = p[n]
      /\ \A n \in 1..Q : l[P + n] = q[n]
  OBVIOUS
<1> HIDE DEF l
<1>2. PICK f : /\ f = [n \in 0..Len(l) |-> IF n = 0 THEN r ELSE ReadsLine(f[n - 1], l[n])]
               /\ Reads(r, l) = f[Len(l)]
  <2>1. Len(l) \in Nat BY <1>1
  <2> QED BY <2>1, ReadsFunction, Zenon
<1>3. f[0] = r /\ \A n \in 1..Len(l) : f[n] = ReadsLine(f[n - 1], l[n]) BY <1>1, <1>2
<1> HIDE DEF P, Q
<1>4. Reads(r, p) = f[P]
  <2>1. \A n \in 1..P : f[n] = ReadsLine(f[n - 1], p[n]) BY <1>1, <1>3
  <2> QED BY <1>1, <1>3, <2>1, ReadsIs DEF P
<1> DEFINE g == [n \in 0..Q |-> f[P + n]]
<1>5. g[0] = f[P] /\ g[Q] = f[P + Q] BY <1>1
<1>6. ASSUME NEW n \in 1..Q PROVE g[n] = ReadsLine(g[n - 1], q[n])
  <2>1. P + n \in 1..Len(l) /\ (P + n) - 1 = P + (n - 1) BY <1>1
  <2>2. f[P + n] = ReadsLine(f[P + (n - 1)], l[P + n]) BY <1>3, <2>1
  <2>3. g[n] = f[P + n] /\ g[n - 1] = f[P + (n - 1)] BY <1>1
  <2> HIDE DEF g
  <2> QED BY <1>1, <2>2, <2>3
<1> HIDE DEF g
<1>7. Reads(f[P], q) = g[Q] BY <1>1, <1>5, <1>6, ReadsIs DEF Q
<1>8. Reads(r, l) = Reads(Reads(r, p), q) BY <1>1, <1>2, <1>4, <1>5, <1>7
<1> QED BY <1>8 DEF l

LEMMA ReadsNone == ASSUME NEW r PROVE Reads(r, <<>>) = r
<1> DEFINE f == [n \in {0} |-> r]
<1>1. Len(<<>>) = 0 /\ f[0] = r OBVIOUS
<1> HIDE DEF f
<1> QED BY <1>1, ReadsIs

LEMMA ReadsOne == ASSUME NEW r, NEW a PROVE Reads(r, <<a>>) = ReadsLine(r, a)
<1> DEFINE f == [n \in 0..1 |-> IF n = 0 THEN r ELSE ReadsLine(r, a)]
<1>1. f[0] = r /\ f[1] = ReadsLine(r, a) /\ Len(<<a>>) = 1 /\ <<a>>[1] = a OBVIOUS
<1> HIDE DEF f
<1>2. \A n \in 1..1 : n = 1 /\ n - 1 = 0 OBVIOUS
<1>3. \A n \in 1..Len(<<a>>) : f[n] = ReadsLine(f[n - 1], <<a>>[n]) BY <1>1, <1>2
<1> QED BY <1>1, <1>3, ReadsIs

LEMMA ReadsTwo ==
  ASSUME NEW r, NEW a, NEW b PROVE Reads(r, <<a, b>>) = ReadsLine(ReadsLine(r, a), b)
<1> DEFINE l == <<a, b>>
           f == [n \in 0..2 |-> IF n = 0 THEN r ELSE IF n = 1 THEN ReadsLine(r, a)
                                ELSE ReadsLine(ReadsLine(r, a), b)]
<1>1. f[0] = r /\ f[1] = ReadsLine(r, a) /\ f[2] = ReadsLine(ReadsLine(r, a), b) OBVIOUS
<1>2. Len(l) = 2 /\ l[1] = a /\ l[2] = b OBVIOUS
<1> HIDE DEF f, l
<1>3. f[1] = ReadsLine(f[0], l[1]) /\ f[2] = ReadsLine(f[1], l[2]) BY <1>1, <1>2
<1>4. ASSUME NEW n \in 1..Len(l) PROVE f[n] = ReadsLine(f[n - 1], l[n])
  <2>1. (n = 1 /\ n - 1 = 0) \/ (n = 2 /\ n - 1 = 1) BY <1>2
  <2> QED BY <1>3, <2>1
<1>5. Reads(r, l) = f[Len(l)]
  <2>1. Len(l) \in Nat /\ \A n \in 1..Len(l) : f[n] = ReadsLine(f[n - 1], l[n]) BY <1>2, <1>4
  <2> QED BY <1>1, <2>1, ReadsIs, Zenon
<1> QED BY <1>1, <1>2, <1>5 DEF l

LEMMA ReadsThree ==
  ASSUME NEW r, NEW a, NEW b, NEW c
  PROVE  Reads(r, <<a, b, c>>) = ReadsLine(ReadsLine(ReadsLine(r, a), b), c)
<1> DEFINE l == <<a, b, c>>
           f == [n \in 0..3 |-> IF n = 0 THEN r ELSE IF n = 1 THEN ReadsLine(r, a)
                                ELSE IF n = 2 THEN ReadsLine(ReadsLine(r, a), b)
                                ELSE ReadsLine(ReadsLine(ReadsLine(r, a), b), c)]
<1>1. /\ f[0] = r /\ f[1] = ReadsLine(r, a) /\ f[2] = ReadsLine(ReadsLine(r, a), b)
      /\ f[3] = ReadsLine(ReadsLine(ReadsLine(r, a), b), c)
  OBVIOUS
<1>2. Len(l) = 3 /\ l[1] = a /\ l[2] = b /\ l[3] = c OBVIOUS
<1> HIDE DEF f, l
<1>3. f[1] = ReadsLine(f[0], l[1]) /\ f[2] = ReadsLine(f[1], l[2]) /\ f[3] = ReadsLine(f[2], l[3])
  BY <1>1, <1>2
<1>4. ASSUME NEW n \in 1..Len(l) PROVE f[n] = ReadsLine(f[n - 1], l[n])
  <2>1. (n = 1 /\ n - 1 = 0) \/ (n = 2 /\ n - 1 = 1) \/ (n = 3 /\ n - 1 = 2) BY <1>2
  <2> QED BY <1>3, <2>1
<1>5. Reads(r, l) = f[Len(l)]
  <2>1. Len(l) \in Nat /\ \A n \in 1..Len(l) : f[n] = ReadsLine(f[n - 1], l[n]) BY <1>2, <1>4
  <2> QED BY <1>1, <2>1, ReadsIs, Zenon
<1> QED BY <1>1, <1>2, <1>5 DEF l

\* FlattenSeq puts one sequence behind the other.
LEMMA FlattenFunction ==
  ASSUME NEW seqs, Len(seqs) \in Nat \ {0}
  PROVE  \E f : /\ f = [n \in 1..Len(seqs) |-> IF n = 1 THEN seqs[n] ELSE f[n - 1] \o seqs[n]]
                /\ FlattenSeq(seqs) = f[Len(seqs)]
<1> DEFINE N == Len(seqs)
           Is(f, k) == f = [n \in 1..k |-> IF n = 1 THEN seqs[n] ELSE f[n - 1] \o seqs[n]]
           S == {k \in 0..N : \E f : Is(f, k)}
<1>1. 0 \in S
  <2>1. Is([n \in {} |-> seqs[1]], 0) OBVIOUS
  <2>2. 0 \in 0..N OBVIOUS
  <2> HIDE DEF Is, N
  <2> QED BY <2>1, <2>2
<1>2. ASSUME NEW k \in 0..(N - 1), k \in S PROVE k + 1 \in S
  <2>1. PICK f : Is(f, k) BY <1>2
  <2> DEFINE last == IF k = 0 THEN seqs[1] ELSE f[k] \o seqs[k + 1]
             g == [n \in 1..(k + 1) |-> IF n = k + 1 THEN last ELSE f[n]]
  <2>2. \A n \in 1..k : g[n] = f[n] OBVIOUS
  <2>3. ASSUME NEW n \in 1..(k + 1)
        PROVE  g[n] = IF n = 1 THEN seqs[n] ELSE g[n - 1] \o seqs[n]
    <3>1. CASE n = k + 1
      <4>1. g[n] = last BY <3>1
      <4>2. n # 1 => k # 0 /\ g[n - 1] = f[k] BY <3>1, <2>2
      <4>3. n = 1 => k = 0 BY <3>1
      <4> HIDE DEF g
      <4> QED BY <4>1, <4>2, <4>3, <3>1
    <3>2. CASE n \in 1..k
      <4>1. g[n] = f[n] /\ (n # 1 => g[n - 1] = f[n - 1]) BY <2>2, <3>2
      <4>2. f[n] = IF n = 1 THEN seqs[n] ELSE f[n - 1] \o seqs[n] BY <2>1, <3>2
      <4> HIDE DEF g
      <4> QED BY <4>1, <4>2
    <3> QED BY <3>1, <3>2
  <2>4. g = [n \in 1..(k + 1) |-> g[n]] OBVIOUS
  <2>5. Is(g, k + 1)
    <3> HIDE DEF g
    <3> QED BY <2>3, <2>4
  <2>6. k + 1 \in 0..N OBVIOUS
  <2> HIDE DEF g, Is, N
  <2> QED BY <2>5, <2>6
<1>3. N \in S
  <2>1. N \in Nat OBVIOUS
  <2> HIDE DEF S, N
  <2>2. \A k \in 0..(N - 1) : k \in S => k + 1 \in S BY <1>2
  <2>3. \A k \in 0..N : k \in S BY <1>1, <2>1, <2>2, SetInduction, Zenon
  <2> QED BY <2>1, <2>3
<1>4. \E f : Is(f, N) BY <1>3 DEF S
<1>5. Is(CHOOSE f : Is(f, N), N)
  <2> HIDE DEF Is
  <2> QED BY <1>4, Zenon
<1>6. FlattenSeq(seqs) = (CHOOSE f : Is(f, N))[N]
  <2>1. Len(seqs) # 0 OBVIOUS
  <2> QED BY <2>1, Zenon DEF FlattenSeq
<1>7. \E f : Is(f, N) /\ FlattenSeq(seqs) = f[N]
  <2> HIDE DEF Is, N
  <2> QED BY <1>5, <1>6, Zenon
<1> QED BY <1>7

Flattens(w, seqs, N, S) ==
  /\ \A n \in 0..N : w[n] \in Seq(S)
  /\ w[0] = <<>> /\ \A n \in 1..N : w[n] = w[n - 1] \o seqs[n]
  /\ FlattenSeq(seqs) = w[N]

LEMMA FlattenStep ==
  ASSUME NEW S, NEW N \in Nat, NEW seqs, seqs \in [1..N -> Seq(S)]
  PROVE  \E w : Flattens(w, seqs, N, S)
<1>1. seqs \in Seq(Seq(S)) /\ Len(seqs) = N OBVIOUS
<1>2. <<>> \in Seq(S) /\ \A x \in Seq(S) : <<>> \o x = x OBVIOUS
<1>3. CASE N = 0
  <2>1. seqs = <<>> BY <1>3
  <2>2. FlattenSeq(seqs) = seqs BY <1>1, <1>3, Zenon DEF FlattenSeq
  <2> DEFINE w == [n \in {0} |-> <<>>]
  <2>3. w[0] = <<>> /\ \A n \in 0..N : n = 0 BY <1>3
  <2> HIDE DEF w
  <2>4. \A n \in 0..N : w[n] \in Seq(S) BY <1>2, <2>3
  <2>5. \A n \in 1..N : FALSE BY <1>3
  <2>6. FlattenSeq(seqs) = w[N] BY <1>3, <2>1, <2>2, <2>3
  <2>7. Flattens(w, seqs, N, S) BY <2>3, <2>4, <2>5, <2>6 DEF Flattens
  <2> QED BY <2>7
<1>4. CASE N > 0
  <2>1. PICK f : /\ f = [n \in 1..N |-> IF n = 1 THEN seqs[n] ELSE f[n - 1] \o seqs[n]]
                 /\ FlattenSeq(seqs) = f[N]
    <3>1. Len(seqs) \in Nat \ {0} BY <1>1, <1>4
    <3>2. \E f : /\ f = [n \in 1..Len(seqs) |-> IF n = 1 THEN seqs[n] ELSE f[n - 1] \o seqs[n]]
                 /\ FlattenSeq(seqs) = f[Len(seqs)]
      BY <3>1, FlattenFunction, Zenon
    <3> QED BY <1>1, <3>2, Zenon
  <2>2. \A n \in 1..N : f[n] = IF n = 1 THEN seqs[n] ELSE f[n - 1] \o seqs[n] BY <2>1
  <2> DEFINE w == [n \in 0..N |-> IF n = 0 THEN <<>> ELSE f[n]]
  <2>3. w[0] = <<>> /\ \A n \in 1..N : w[n] = f[n] OBVIOUS
  <2> HIDE DEF w
  <2>4. ASSUME NEW n \in 1..N PROVE w[n] = w[n - 1] \o seqs[n]
    <3>1. CASE n = 1 BY <1>2, <2>2, <2>3, <3>1
    <3>2. CASE n # 1
      <4>1. n - 1 \in 1..N BY <3>2
      <4> QED BY <2>2, <2>3, <3>2, <4>1
    <3> QED BY <3>1, <3>2
  <2> DEFINE T == {n \in 0..N : w[n] \in Seq(S)}
  <2>5. 0 \in T
    <3>1. 0 \in 0..N /\ w[0] \in Seq(S) BY <1>2, <2>3
    <3> QED BY <3>1
  <2>6. ASSUME NEW n \in 0..(N - 1), n \in T PROVE n + 1 \in T
    <3>1. n + 1 \in 1..N /\ (n + 1) - 1 = n OBVIOUS
    <3>2. w[n + 1] = w[n] \o seqs[n + 1] /\ seqs[n + 1] \in Seq(S) /\ w[n] \in Seq(S)
      BY <2>4, <2>6, <3>1
    <3>3. w[n + 1] \in Seq(S) BY <3>2
    <3>4. n + 1 \in 0..N OBVIOUS
    <3> QED BY <3>3, <3>4
  <2>7. \A n \in 0..N : n \in T
    <3> HIDE DEF T
    <3>1. \A n \in 0..(N - 1) : n \in T => n + 1 \in T BY <2>6
    <3> QED BY <2>5, <3>1, SetInduction, Zenon
  <2>8. FlattenSeq(seqs) = w[N] BY <1>4, <2>1, <2>3
  <2>9. Flattens(w, seqs, N, S) BY <2>3, <2>4, <2>7, <2>8 DEF Flattens
  <2> QED BY <2>9
<1>5. N = 0 \/ N > 0 OBVIOUS
<1> QED BY <1>3, <1>4, <1>5, Zenon

-------------------------------------------------------------------------------
(* The lines save_ini writes *)

\* The reader below a header: nothing is wrong, temp_session is t and the list l.
Opened(r, name, t, l) ==
  /\ DOMAIN r = Fields /\ r.failed = FALSE /\ r.ip = -1
  /\ r.section = name /\ r.temp = t /\ r.sessions = l
\* The reader before a header or the end: either makes the list l.
Ready(r, l) ==
  /\ DOMAIN r = Fields /\ r.failed = FALSE /\ r.ip = -1
  /\ \/ r.temp = NoSession /\ r.sessions = l
     \/ r.section = "conn" /\ r.temp.id >= 0 /\ l = Append(r.sessions, r.temp)

LEMMA ReadyEnds ==
  ASSUME NEW r, NEW l, Ready(r, l)
  PROVE  Ended(r) = l
<1>1. ~(NoSession.id >= 0) BY NoSessionType
<1>2. CASE r.temp = NoSession /\ r.sessions = l BY <1>1, <1>2 DEF Ended
<1>3. CASE r.section = "conn" /\ r.temp.id >= 0 /\ l = Append(r.sessions, r.temp)
  BY <1>3 DEF Ended, Ready
<1> QED BY <1>2, <1>3 DEF Ready

LEMMA OpenedIsReady ==
  ASSUME NEW r, NEW name, NEW t, NEW l, Opened(r, name, t, l)
  PROVE  /\ t = NoSession => Ready(r, l)
         /\ name = "conn" /\ t.id >= 0 => Ready(r, Append(l, t))
BY DEF Opened, Ready

LEMMA OpensSection ==
  ASSUME NEW r, NEW l, Ready(r, l), NEW name \in {"conn", "dest"}
  PROVE  Opened(ReadsLine(r, Header(name)), name, NoSession, l)
<1> DEFINE stored == r.section \notin {NoName, "dest"} /\ r.temp.id >= 0
           s == [r EXCEPT !.sessions = IF stored THEN Append(@, r.temp) ELSE @,
                          !.temp = IF stored THEN NoSession ELSE @,
                          !.section = name,
                          !.parent = IF name = "dest" THEN -1 ELSE @,
                          !.dest = IF name = "dest" THEN -1 ELSE @]
<1>1. ReadsLine(r, Header(name)) = s
  <2>1. Header(name).is = "section" /\ Header(name).name = name BY DEF Header
  <2>2. ReadsLine(r, Header(name)) = ReadsHeader(r, Header(name)) BY <2>1 DEF ReadsLine, Ready
  <2> QED BY <2>1, <2>2 DEF ReadsHeader
<1>2. /\ DOMAIN s = Fields /\ s.failed = r.failed /\ s.ip = r.ip /\ s.section = name
      /\ s.sessions = IF stored THEN Append(r.sessions, r.temp) ELSE r.sessions
      /\ s.temp = IF stored THEN NoSession ELSE r.temp
  BY DEF Ready, Fields
<1>3. s.sessions = l /\ s.temp = NoSession
  <2>1. CASE r.temp = NoSession /\ r.sessions = l
    <3>1. ~stored BY <2>1, NoSessionType
    <3> HIDE DEF stored, s
    <3> QED BY <1>2, <2>1, <3>1
  <2>2. CASE r.section = "conn" /\ r.temp.id >= 0 /\ l = Append(r.sessions, r.temp)
    <3>1. "conn" # NoName BY Zenon DEF NoName
    <3>2. stored BY <2>2, <3>1
    <3> HIDE DEF stored, s
    <3> QED BY <1>2, <2>2, <3>2
  <2> QED BY <2>1, <2>2 DEF Ready
<1> HIDE DEF s, stored
<1> QED BY <1>1, <1>2, <1>3 DEF Opened, Ready

LEMMA OpenedSkips ==
  ASSUME NEW r, NEW name, NEW t, NEW l, Opened(r, name, t, l)
  PROVE  Opened(ReadsLine(r, Skipped), name, t, l)
<1>1. Skipped.is = "skipped" BY DEF Skipped, Comment
<1>2. ReadsLine(r, Skipped) = r BY <1>1 DEF ReadsLine, Opened
<1> QED BY <1>2

LEMMA OpenedField ==
  ASSUME NEW r, NEW t, NEW l, Opened(r, "conn", t, l), NEW name \in DOMAIN Field, NEW v,
         ~Refuses(Field[name], v)
  PROVE  Opened(ReadsLine(r, Key(name, v)), "conn", [t EXCEPT ![Field[name]] = Stored(Field[name], v)], l)
<1> DEFINE u == [t EXCEPT ![Field[name]] = Stored(Field[name], v)]
           k == Key(name, v)
<1>1. k.is = "key" /\ k.name = name /\ k.value = v BY DEF Key
<1> HIDE DEF k
<1>2. ReadsLine(r, k) = ReadsKey(r, k) BY <1>1 DEF ReadsLine, Opened
<1>3. ReadsKey(r, k) = [r EXCEPT !.temp = u] BY <1>1 DEF ReadsKey, Opened
<1> HIDE DEF u
<1>4. Opened([r EXCEPT !.temp = u], "conn", u, l) BY DEF Opened, Fields
<1> QED BY <1>2, <1>3, <1>4 DEF u, k

LEMMA OpenedOtherKey ==
  ASSUME NEW r, NEW t, NEW l, Opened(r, "conn", t, l), NEW name, name \notin DOMAIN Field, NEW v
  PROVE  Opened(ReadsLine(r, Key(name, v)), "conn", t, l)
<1> DEFINE k == Key(name, v)
<1>1. k.is = "key" /\ k.name = name BY DEF Key
<1> HIDE DEF k
<1>2. ReadsLine(r, k) = ReadsKey(r, k) BY <1>1 DEF ReadsLine, Opened
<1>3. ReadsKey(r, k) = r BY <1>1 DEF ReadsKey
<1> QED BY <1>2, <1>3 DEF k

LEMMA OpenedParent ==
  ASSUME NEW r, NEW t, NEW l, Opened(r, "dest", t, l), NEW v, ~StoiRefuses(v)
  PROVE  Opened(ReadsLine(r, Key("ParentID", v)), "dest", t, l)
<1> DEFINE k == Key("ParentID", v)
<1>1. k.is = "key" /\ k.name = "ParentID" /\ k.value = v BY DEF Key
<1> HIDE DEF k
<1>2. ReadsLine(r, k) = ReadsDestinationKey(r, k) BY <1>1 DEF ReadsLine, Opened
<1>3. ReadsDestinationKey(r, k) = [r EXCEPT !.parent = v] BY <1>1 DEF ReadsDestinationKey
<1>4. Opened([r EXCEPT !.parent = v], "dest", t, l) BY DEF Opened, Fields
<1> QED BY <1>2, <1>3, <1>4 DEF k

-------------------------------------------------------------------------------
(* The lines of one interface *)

Members == {"id", "type", "server", "client", "udp", "serial", "baud", "dests"}
IsKept(t, id, type, server, client, udp, serial, baud) ==
  /\ t = [x \in Members |-> t[x]]
  /\ t.id = id /\ t.type = type /\ t.server = server /\ t.client = client
  /\ t.udp = udp /\ t.serial = serial /\ t.baud = baud /\ t.dests = <<>>

LEMMA NothingKept == IsKept(NoSession, -1, 0, 0, 0, 0, 0, 0)
<1>1. NoSession = [x \in Members |-> NoSession[x]] BY DEF NoSession, Members
<1> QED BY <1>1 DEF IsKept, NoSession

LEMMA KeepsField ==
  ASSUME NEW t, NEW i, NEW y, NEW s, NEW c, NEW u, NEW p, NEW b, IsKept(t, i, y, s, c, u, p, b), NEW v
  PROVE  /\ IsKept([t EXCEPT !["id"] = v], v, y, s, c, u, p, b)
         /\ IsKept([t EXCEPT !["type"] = v], i, v, s, c, u, p, b)
         /\ IsKept([t EXCEPT !["server"] = v], i, y, v, c, u, p, b)
         /\ IsKept([t EXCEPT !["client"] = v], i, y, s, v, u, p, b)
         /\ IsKept([t EXCEPT !["udp"] = v], i, y, s, c, v, p, b)
         /\ IsKept([t EXCEPT !["serial"] = v], i, y, s, c, u, v, b)
         /\ IsKept([t EXCEPT !["baud"] = v], i, y, s, c, u, p, v)
BY DEF IsKept, Members

LEMMA KeptIs ==
  ASSUME NEW t, NEW s, DOMAIN s = Members,
         IsKept(t, s.id, s.type, IF s.type \in {2, 3} THEN s.server ELSE 0,
                IF s.type = 3 THEN s.client ELSE 0, IF s.type = 0 THEN s.udp ELSE 0,
                IF s.type = 4 THEN s.serial ELSE 0, IF s.type = 4 THEN s.baud ELSE 0)
  PROVE  t = Kept(s)
<1> DEFINE k == Kept(s)
<1>1. k = [x \in Members |-> k[x]] BY DEF Kept
<1>2. /\ k.id = s.id /\ k.type = s.type /\ k.dests = <<>>
      /\ k.server = (IF s.type \in {2, 3} THEN s.server ELSE 0)
      /\ k.client = (IF s.type = 3 THEN s.client ELSE 0)
      /\ k.udp = (IF s.type = 0 THEN s.udp ELSE 0)
      /\ k.serial = (IF s.type = 4 THEN s.serial ELSE 0)
      /\ k.baud = (IF s.type = 4 THEN s.baud ELSE 0)
  BY DEF Kept, Members
<1> HIDE DEF k
<1>3. \A x \in Members : t[x] = k[x] BY <1>2 DEF IsKept, Members
<1>4. t = [x \in Members |-> t[x]] BY DEF IsKept
<1>5. t = k
  <2> HIDE DEF Members
  <2> QED BY <1>1, <1>3, <1>4
<1> QED BY <1>5 DEF k

WrittenNames ==
  {"TotalConnections", "ID", "Type", "ListeningPort", "ServerPort", "ClientPort", "SourcePort", "Port", "BaudRate",
   "ParentID"}
WrittenKeys == {Key(name, v) : name \in WrittenNames, v \in Values}
Written == {Skipped, Header("conn"), Header("dest")} \cup WrittenKeys

LEMMA WrittenLines ==
  /\ Skipped \in Written /\ Header("conn") \in Written /\ Header("dest") \in Written
  /\ \A name \in WrittenNames, v \in Values : Key(name, v) \in Written
<1>1. \A name \in WrittenNames, v \in Values : Key(name, v) \in WrittenKeys BY DEF WrittenKeys
<1> QED BY <1>1, Zenon DEF Written

Savable(s) == IsStored(s) /\ IsFiniteSet(DOMAIN s.dests)

LEMMA SavableFacts ==
  ASSUME NEW s, Savable(s)
  PROVE  /\ DOMAIN s = Members
         /\ s.id \in Shorts /\ s.type \in Shorts /\ s.id >= 0
         /\ ~Refuses("id", s.id) /\ ~Refuses("type", s.type)
         /\ ~Refuses("server", s.server) /\ ~Refuses("client", s.client) /\ ~Refuses("udp", s.udp)
         /\ ~Refuses("serial", s.serial) /\ ~Refuses("baud", s.baud)
         /\ s.id \in Values /\ s.type \in Values /\ s.server \in Values /\ s.client \in Values
         /\ s.udp \in Values /\ s.serial \in Values /\ s.baud \in Values
         /\ s.id \in Int /\ ~StoiRefuses(s.id)
         /\ Cardinality(DOMAIN s.dests) \in Nat
<1>1. /\ DOMAIN s = Members /\ s.id \in Shorts /\ s.type \in Shorts /\ s.id >= 0
      /\ s.server \in UInts /\ s.client \in UInts /\ s.udp \in UInts /\ s.baud \in UInts /\ s.serial \in Values
  BY DEF Savable, IsStored, IsSession, Members
<1>2. s.id \in Int /\ s.type \in Int BY <1>1, ShortFacts
<1>3. /\ s.id \in Values /\ s.type \in Values /\ s.server \in Values /\ s.client \in Values
      /\ s.udp \in Values /\ s.baud \in Values
  BY <1>1, <1>2, UnsignedFacts DEF Values
<1>4. ~StoiRefuses(s.id) /\ ~StoiRefuses(s.type) BY <1>1, <1>3, RefusesFacts
<1>5. ~StoulRefuses(s.server) /\ ~StoulRefuses(s.client) /\ ~StoulRefuses(s.udp) /\ ~StoulRefuses(s.baud)
  BY <1>1, <1>3, RefusesFacts
<1>6. Cardinality(DOMAIN s.dests) \in Nat BY FS_CardinalityType DEF Savable
<1>7. /\ ~Refuses("id", s.id) /\ ~Refuses("type", s.type)
      /\ ~Refuses("server", s.server) /\ ~Refuses("client", s.client) /\ ~Refuses("udp", s.udp)
      /\ ~Refuses("serial", s.serial) /\ ~Refuses("baud", s.baud)
  BY <1>4, <1>5 DEF Refuses
<1> QED BY <1>1, <1>2, <1>3, <1>4, <1>6, <1>7

LEMMA ShortIs == ASSUME NEW n \in Shorts PROVE Short(n) = n
<1>1. PICK m \in Int : m = n + 32768 BY DEF Shorts
<1>2. 0 <= m /\ m < 65536 BY <1>1 DEF Shorts
<1>3. m % 65536 = m BY <1>2
<1>4. Short(n) = (m % 65536) - 32768 BY <1>1 DEF Short
<1> QED BY <1>1, <1>3, <1>4 DEF Shorts

\* The keys of its type, read below the header, the id and the type.
LEMMA KeysRead ==
  ASSUME NEW s, Savable(s), NEW r, NEW t, NEW l, Opened(r, "conn", t, l),
         IsKept(t, s.id, s.type, 0, 0, 0, 0, 0)
  PROVE  Opened(Reads(r, KeysOf(s)), "conn", Kept(s), l) /\ KeysOf(s) \in Seq(Written)
<1>1. DOMAIN s = Members /\ s.type \in Int BY SavableFacts, ShortFacts
<1>2. /\ Stored("server", s.server) = s.server /\ Stored("client", s.client) = s.client
      /\ Stored("udp", s.udp) = s.udp /\ Stored("serial", s.serial) = s.serial /\ Stored("baud", s.baud) = s.baud
  <2>1. s.server \in UInts /\ s.client \in UInts /\ s.udp \in UInts /\ s.baud \in UInts
    BY DEF Savable, IsStored, IsSession
  <2>2. /\ Unsigned(s.server) = s.server /\ Unsigned(s.client) = s.client /\ Unsigned(s.udp) = s.udp
        /\ Unsigned(s.baud) = s.baud
    BY <2>1, UnsignedFacts
  <2> QED BY <2>2 DEF Stored
<1>3. CASE s.type = 2
  <2> DEFINE a == Key("ListeningPort", s.server)
             u == [t EXCEPT !["server"] = s.server]
  <2>1. KeysOf(s) = <<a>> BY <1>3 DEF KeysOf
  <2>2. Opened(ReadsLine(r, a), "conn", u, l) BY <1>2, OpenedField, FieldFacts, SavableFacts
  <2>3. IsKept(u, s.id, s.type, s.server, 0, 0, 0, 0) BY KeepsField
  <2>4. u = Kept(s)
    <3> HIDE DEF u
    <3> QED BY <1>1, <1>3, <2>3, KeptIs
  <2>5. a \in Written BY SavableFacts, WrittenLines DEF WrittenNames
  <2> HIDE DEF a, u
  <2>6. Reads(r, <<a>>) = ReadsLine(r, a) /\ <<a>> \in Seq(Written) BY <2>5, ReadsOne
  <2> QED BY <2>1, <2>2, <2>4, <2>6
<1>4. CASE s.type = 3
  <2> DEFINE a == Key("ServerPort", s.server)
             b == Key("ClientPort", s.client)
             u == [t EXCEPT !["server"] = s.server]
             w == [u EXCEPT !["client"] = s.client]
  <2>1. KeysOf(s) = <<a, b>> BY <1>4 DEF KeysOf
  <2>2. Opened(ReadsLine(r, a), "conn", u, l) BY <1>2, OpenedField, FieldFacts, SavableFacts
  <2>3. IsKept(u, s.id, s.type, s.server, 0, 0, 0, 0) BY KeepsField
  <2>4. IsKept(w, s.id, s.type, s.server, s.client, 0, 0, 0)
    <3> HIDE DEF u
    <3> QED BY <2>3, KeepsField
  <2>5. Opened(ReadsLine(ReadsLine(r, a), b), "conn", w, l)
    <3> HIDE DEF u, a
    <3> QED BY <1>2, <2>2, OpenedField, FieldFacts, SavableFacts
  <2>6. w = Kept(s)
    <3> HIDE DEF w
    <3> QED BY <1>1, <1>4, <2>4, KeptIs
  <2>7. a \in Written /\ b \in Written BY SavableFacts, WrittenLines DEF WrittenNames
  <2> HIDE DEF a, b, w
  <2>8. Reads(r, <<a, b>>) = ReadsLine(ReadsLine(r, a), b) /\ <<a, b>> \in Seq(Written) BY <2>7, ReadsTwo
  <2> QED BY <2>1, <2>5, <2>6, <2>8
<1>5. CASE s.type = 0
  <2> DEFINE a == Key("SourcePort", s.udp)
             u == [t EXCEPT !["udp"] = s.udp]
  <2>1. KeysOf(s) = <<a>> BY <1>5 DEF KeysOf
  <2>2. Opened(ReadsLine(r, a), "conn", u, l) BY <1>2, OpenedField, FieldFacts, SavableFacts
  <2>3. IsKept(u, s.id, s.type, 0, 0, s.udp, 0, 0) BY KeepsField
  <2>4. u = Kept(s)
    <3> HIDE DEF u
    <3> QED BY <1>1, <1>5, <2>3, KeptIs
  <2>5. a \in Written BY SavableFacts, WrittenLines DEF WrittenNames
  <2> HIDE DEF a, u
  <2>6. Reads(r, <<a>>) = ReadsLine(r, a) /\ <<a>> \in Seq(Written) BY <2>5, ReadsOne
  <2> QED BY <2>1, <2>2, <2>4, <2>6
<1>6. CASE s.type = 4
  <2> DEFINE a == Key("Port", s.serial)
             b == Key("BaudRate", s.baud)
             u == [t EXCEPT !["serial"] = s.serial]
             w == [u EXCEPT !["baud"] = s.baud]
  <2>1. KeysOf(s) = <<a, b>> BY <1>6 DEF KeysOf
  <2>2. Opened(ReadsLine(r, a), "conn", u, l) BY <1>2, OpenedField, FieldFacts, SavableFacts
  <2>3. IsKept(u, s.id, s.type, 0, 0, 0, s.serial, 0) BY KeepsField
  <2>4. IsKept(w, s.id, s.type, 0, 0, 0, s.serial, s.baud)
    <3> HIDE DEF u
    <3> QED BY <2>3, KeepsField
  <2>5. Opened(ReadsLine(ReadsLine(r, a), b), "conn", w, l)
    <3> HIDE DEF u, a
    <3> QED BY <1>2, <2>2, OpenedField, FieldFacts, SavableFacts
  <2>6. w = Kept(s)
    <3> HIDE DEF w
    <3> QED BY <1>1, <1>6, <2>4, KeptIs
  <2>7. a \in Written /\ b \in Written BY SavableFacts, WrittenLines DEF WrittenNames
  <2> HIDE DEF a, b, w
  <2>8. Reads(r, <<a, b>>) = ReadsLine(ReadsLine(r, a), b) /\ <<a, b>> \in Seq(Written) BY <2>7, ReadsTwo
  <2> QED BY <2>1, <2>5, <2>6, <2>8
<1>7. CASE s.type \notin {0, 2, 3, 4}
  <2>1. KeysOf(s) = <<>> BY <1>7 DEF KeysOf
  <2>2. t = Kept(s) BY <1>1, <1>7, KeptIs
  <2>3. Reads(r, <<>>) = r /\ <<>> \in Seq(Written) BY ReadsNone
  <2> QED BY <2>1, <2>2, <2>3
<1> QED BY <1>3, <1>4, <1>5, <1>6, <1>7

\* The headers of its destinations add nothing.
LEMMA ParentsRead ==
  ASSUME NEW r, NEW l, Ready(r, l), NEW v \in Int, ~StoiRefuses(v), NEW N \in Nat
  PROVE  LET parents == FlattenSeq([i \in 1..N |-> <<Header("dest"), Key("ParentID", v)>>])
         IN  Ready(Reads(r, parents), l) /\ parents \in Seq(Written)
<1> DEFINE one == <<Header("dest"), Key("ParentID", v)>>
           seqs == [i \in 1..N |-> one]
           T(w) == {n \in 0..N : Ready(Reads(r, w[n]), l)}
<1>1. Header("dest") \in Written /\ Key("ParentID", v) \in Written 
  BY WrittenLines, Zenon DEF WrittenNames, Values
<1>2. one \in Seq(Written) BY <1>1
<1>3. ASSUME NEW q, Ready(q, l) PROVE Ready(Reads(q, one), l)
  <2>1. Opened(ReadsLine(q, Header("dest")), "dest", NoSession, l) BY <1>3, OpensSection
  <2>3. Opened(ReadsLine(ReadsLine(q, Header("dest")), Key("ParentID", v)), "dest", NoSession, l)
    BY <2>1, OpenedParent
  <2> QED BY <2>3, ReadsTwo, OpenedIsReady
<1> HIDE DEF one
<1>4. seqs \in [1..N -> Seq(Written)] BY <1>2
<1>5. \A n \in 1..N : seqs[n] = one OBVIOUS
<1> HIDE DEF seqs
<1>6. PICK w : Flattens(w, seqs, N, Written) BY <1>4, FlattenStep
<1>7. 0 \in T(w)
  <2>1. 0 \in 0..N /\ Reads(r, w[0]) = r BY <1>6, ReadsNone DEF Flattens
  <2> QED BY <2>1
<1>8. ASSUME NEW n \in 0..(N - 1), n \in T(w) PROVE n + 1 \in T(w)
  <2>1. n + 1 \in 1..N /\ (n + 1) - 1 = n /\ n + 1 \in 0..N /\ n \in 0..N OBVIOUS
  <2>2. w[n + 1] = w[n] \o one /\ w[n] \in Seq(Written) BY <1>5, <1>6, <2>1 DEF Flattens
  <2>3. Reads(r, w[n + 1]) = Reads(Reads(r, w[n]), one) BY <1>2, <2>2, ReadsConcat
  <2>4. Ready(Reads(r, w[n + 1]), l) BY <1>3, <1>8, <2>3
  <2> QED BY <2>1, <2>4
<1>9. N \in T(w)
  <2> DEFINE S == T(w)
  <2>1. 0 \in S /\ \A n \in 0..(N - 1) : n \in S => n + 1 \in S BY <1>7, <1>8
  <2> HIDE DEF S
  <2>2. \A n \in 0..N : n \in S BY <2>1, SetInduction, Zenon
  <2>3. N \in 0..N OBVIOUS
  <2> QED BY <2>2, <2>3 DEF S
<1>10. Ready(Reads(r, w[N]), l) /\ w[N] \in Seq(Written) BY <1>6, <1>9 DEF Flattens
<1>11. FlattenSeq(seqs) = w[N] BY <1>6 DEF Flattens
<1> QED BY <1>10, <1>11 DEF seqs, one

LEMMA SessionRead ==
  ASSUME NEW s, Savable(s), NEW r, NEW l, Ready(r, l)
  PROVE  Ready(Reads(r, SavedSession(s)), Append(l, Kept(s))) /\ SavedSession(s) \in Seq(Written)
<1> DEFINE head == <<Header("conn"), Key("ID", s.id), Key("Type", s.type)>>
           keys == KeysOf(s)
           skip == <<Skipped>>
           N == Cardinality(DOMAIN s.dests)
           parents == FlattenSeq([i \in 1..N |-> <<Header("dest"), Key("ParentID", s.id)>>])
           rest == IF s.type = 0 THEN parents ELSE <<>>
           m == Append(l, Kept(s))
<1>1. SavedSession(s) = ((head \o keys) \o skip) \o rest BY DEF SavedSession
<1>2. Key("ID", s.id) \in Written /\ Key("Type", s.type) \in Written /\ Header("conn") \in Written
      /\ Skipped \in Written
  BY SavableFacts, WrittenLines DEF WrittenNames
<1>3. PICK t : Opened(Reads(r, head), "conn", t, l) /\ IsKept(t, s.id, s.type, 0, 0, 0, 0, 0)
  <2> DEFINE q == ReadsLine(r, Header("conn"))
             a == Key("ID", s.id)
             b == Key("Type", s.type)
             u == [NoSession EXCEPT !["id"] = s.id]
             w == [u EXCEPT !["type"] = s.type]
  <2>1. Opened(q, "conn", NoSession, l) BY OpensSection
  <2>2. Stored("id", s.id) = s.id /\ Stored("type", s.type) = s.type BY SavableFacts, ShortIs DEF Stored
  <2>3. Opened(ReadsLine(q, a), "conn", u, l)
    <3> HIDE DEF q
    <3> QED BY <2>1, <2>2, OpenedField, FieldFacts, SavableFacts
  <2>4. IsKept(u, s.id, 0, 0, 0, 0, 0, 0) BY NothingKept, KeepsField
  <2>5. Opened(ReadsLine(ReadsLine(q, a), b), "conn", w, l)
    <3> HIDE DEF q, a, u
    <3> QED BY <2>2, <2>3, OpenedField, FieldFacts, SavableFacts
  <2>6. IsKept(w, s.id, s.type, 0, 0, 0, 0, 0)
    <3> HIDE DEF u
    <3> QED BY <2>4, KeepsField
  <2>7. Reads(r, head) = ReadsLine(ReadsLine(q, a), b) BY ReadsThree
  <2> HIDE DEF w, q, a, b, head
  <2> QED BY <2>5, <2>6, <2>7
<1>4. head \in Seq(Written) /\ skip \in Seq(Written) BY <1>2
<1> HIDE DEF head
<1>5. Opened(Reads(Reads(r, head), keys), "conn", Kept(s), l) /\ keys \in Seq(Written)
  BY <1>3, KeysRead
<1> HIDE DEF keys
<1>6. Opened(Reads(Reads(Reads(r, head), keys), skip), "conn", Kept(s), l)
  BY <1>5, OpenedSkips, ReadsOne
<1>7. Kept(s).id = s.id /\ s.id >= 0 BY SavableFacts DEF Kept, Members
<1>8. Ready(Reads(Reads(Reads(r, head), keys), skip), m) BY <1>6, <1>7, OpenedIsReady
<1> HIDE DEF skip, m
<1>9. (head \o keys) \in Seq(Written) /\ ((head \o keys) \o skip) \in Seq(Written) BY <1>4, <1>5
<1>10. Reads(r, (head \o keys) \o skip) = Reads(Reads(Reads(r, head), keys), skip)
  <2> DEFINE both == head \o keys
  <2>1. both \in Seq(Written) BY <1>9
  <2>2. Reads(r, both) = Reads(Reads(r, head), keys) BY <1>4, <1>5, ReadsConcat
  <2> HIDE DEF both
  <2>3. Reads(r, both \o skip) = Reads(Reads(r, both), skip) BY <1>4, <2>1, ReadsConcat
  <2> QED BY <2>2, <2>3 DEF both
<1>11. ASSUME NEW q, Ready(q, m) PROVE Ready(Reads(q, rest), m) /\ rest \in Seq(Written)
  <2>1. CASE s.type = 0
    <3>1. s.id \in Int /\ ~StoiRefuses(s.id) /\ N \in Nat BY SavableFacts
    <3>2. Ready(Reads(q, parents), m) /\ parents \in Seq(Written) BY <1>11, <3>1, ParentsRead
    <3> HIDE DEF parents
    <3> QED BY <2>1, <3>2
  <2>2. CASE s.type # 0
    <3>1. rest = <<>> BY <2>2
    <3>2. Reads(q, <<>>) = q /\ <<>> \in Seq(Written) BY ReadsNone
    <3> QED BY <1>11, <3>1, <3>2
  <2> QED BY <2>1, <2>2
<1> HIDE DEF rest
<1>12. rest \in Seq(Written) /\ Ready(Reads(Reads(r, (head \o keys) \o skip), rest), m)
  BY <1>8, <1>10, <1>11
<1>13. Reads(r, ((head \o keys) \o skip) \o rest) = Reads(Reads(r, (head \o keys) \o skip), rest)
  BY <1>9, <1>12, ReadsConcat
<1>14. ((head \o keys) \o skip) \o rest \in Seq(Written) BY <1>9, <1>12
<1> QED BY <1>1, <1>12, <1>13, <1>14 DEF m

-------------------------------------------------------------------------------
(* A whole list *)

\* The list is read back, whatever it holds.
LEMMA ListRead ==
  ASSUME NEW l, IsList(l), \A i \in 1..Len(l) : Savable(l[i])
  PROVE  Load(Saved(l)) = [i \in 1..Len(l) |-> Kept(l[i])]
<1> DEFINE N == Len(l)
           general == <<Skipped, Header("conn"), Key("TotalConnections", Len(l)), Skipped>>
           seqs == [i \in 1..N |-> SavedSession(l[i])]
           read(n) == [i \in 1..n |-> Kept(l[i])]
<1>1. N \in Nat /\ DOMAIN l = 1..N BY ListFacts DEF IsList
<1>2. Saved(l) = general \o FlattenSeq(seqs) BY <1>1 DEF Saved
<1>3. general \in Seq(Written) /\ Ready(Reads(Reader, general), <<>>)
  <2> DEFINE p == <<Skipped>>
             q == <<Header("conn"), Key("TotalConnections", N), Skipped>>
  <2>1. p \in Seq(Written) /\ q \in Seq(Written) /\ general \in Seq(Written)
    <3>1. Key("TotalConnections", N) \in Written BY <1>1, WrittenLines DEF WrittenNames, Values
    <3> QED BY <3>1, WrittenLines
  <2>2. general = p \o q OBVIOUS
  <2>3. Opened(Reader, NoName, NoSession, <<>>)
    <3> HIDE DEF NoName
    <3> QED BY DEF Reader, Opened, Fields
  <2>4. Opened(Reads(Reader, p), NoName, NoSession, <<>>) BY <2>3, ReadsOne, OpenedSkips
  <2>5. Ready(Reads(Reader, p), <<>>) BY <2>4, OpenedIsReady
  <2> DEFINE a == ReadsLine(Reads(Reader, p), Header("conn"))
             b == ReadsLine(a, Key("TotalConnections", N))
  <2>6. Opened(a, "conn", NoSession, <<>>) BY <2>5, OpensSection
  <2>7. Opened(b, "conn", NoSession, <<>>)
    <3> HIDE DEF a
    <3> QED BY <2>6, OpenedOtherKey, FieldFacts
  <2>8. Ready(ReadsLine(b, Skipped), <<>>)
    <3> HIDE DEF b
    <3> QED BY <2>7, OpenedSkips, OpenedIsReady
  <2>9. Reads(Reads(Reader, p), q) = ReadsLine(b, Skipped) BY ReadsThree
  <2> HIDE DEF p, q, b
  <2>10. Reads(Reader, p \o q) = Reads(Reads(Reader, p), q) BY <2>1, ReadsConcat
  <2> QED BY <2>1, <2>2, <2>8, <2>9, <2>10
<1> HIDE DEF general
<1>4. \A i \in 1..N : SavedSession(l[i]) \in Seq(Written) BY <1>3, SessionRead
<1>5. seqs \in [1..N -> Seq(Written)] /\ \A n \in 1..N : seqs[n] = SavedSession(l[n]) BY <1>4
<1> HIDE DEF seqs
<1>6. PICK w : Flattens(w, seqs, N, Written) BY <1>1, <1>5, FlattenStep
<1> DEFINE begun == Reads(Reader, general)
           S == {n \in 0..N : Ready(Reads(begun, w[n]), read(n))}
<1>7. 0 \in S
  <2>1. Reads(begun, w[0]) = begun BY <1>6, ReadsNone DEF Flattens
  <2>2. read(0) = <<>> OBVIOUS
  <2>3. 0 \in 0..N BY <1>1
  <2> QED BY <1>3, <2>1, <2>2, <2>3
<1>8. ASSUME NEW n \in 0..(N - 1), n \in S PROVE n + 1 \in S
  <2>1. n + 1 \in 1..N /\ (n + 1) - 1 = n /\ n + 1 \in 0..N /\ n \in 0..N /\ n \in Nat BY <1>1
  <2>2. w[n + 1] = w[n] \o SavedSession(l[n + 1]) /\ w[n] \in Seq(Written) BY <1>5, <1>6, <2>1 DEF Flattens
  <2>3. Reads(begun, w[n + 1]) = Reads(Reads(begun, w[n]), SavedSession(l[n + 1]))
    BY <1>4, <2>1, <2>2, ReadsConcat
  <2>4. Ready(Reads(begun, w[n + 1]), Append(read(n), Kept(l[n + 1]))) BY <1>8, <2>1, <2>3, SessionRead
  <2>5. Append(read(n), Kept(l[n + 1])) = read(n + 1)
    <3> DEFINE T == {Kept(l[i]) : i \in 1..(n + 1)}
    <3>1. read(n) \in Seq(T) /\ Kept(l[n + 1]) \in T /\ read(n + 1) \in Seq(T) /\ Len(read(n)) = n
          /\ Len(read(n + 1)) = n + 1
      BY <2>1
    <3>2. \A i \in 1..n : read(n)[i] = Kept(l[i]) BY <2>1
    <3>3. \A i \in 1..(n + 1) : read(n + 1)[i] = Kept(l[i]) BY <2>1
    <3> HIDE DEF read, T
    <3>4. /\ Append(read(n), Kept(l[n + 1])) \in Seq(T) /\ Len(Append(read(n), Kept(l[n + 1]))) = n + 1
          /\ \A i \in 1..n : Append(read(n), Kept(l[n + 1]))[i] = read(n)[i]
          /\ Append(read(n), Kept(l[n + 1]))[n + 1] = Kept(l[n + 1])
      BY <3>1, AppendFacts
    <3>5. \A i \in 1..(n + 1) : Append(read(n), Kept(l[n + 1]))[i] = read(n + 1)[i]
      BY <2>1, <3>2, <3>3, <3>4
    <3> QED BY <3>1, <3>4, <3>5, SequencesEqual
  <2> HIDE DEF read, begun
  <2> QED BY <2>1, <2>4, <2>5
<1>9. N \in S
  <2> HIDE DEF S, N
  <2>1. \A n \in 0..(N - 1) : n \in S => n + 1 \in S BY <1>8
  <2>2. \A n \in 0..N : n \in S BY <1>1, <1>7, <2>1, SetInduction, Zenon
  <2>3. N \in 0..N BY <1>1
  <2> QED BY <2>2, <2>3
<1>10. Ready(Reads(begun, w[N]), read(N)) BY <1>9
<1>11. FlattenSeq(seqs) = w[N] /\ w[N] \in Seq(Written) BY <1>1, <1>6 DEF Flattens
<1>12. Reads(Reader, Saved(l)) = Reads(begun, w[N]) BY <1>2, <1>3, <1>11, ReadsConcat
<1> HIDE DEF read, begun
<1>13. Load(Saved(l)) = read(N) BY <1>10, <1>12, ReadyEnds DEF Load
<1> QED BY <1>13 DEF read

\* An interface has finitely many destinations: every line adds one at most.
Finite(l) == \A i \in DOMAIN l : IsFiniteSet(DOMAIN l[i].dests)
FInv == TInv /\ Finite(reader.sessions) /\ Finite(session_infos) /\ IsList(session_infos)

LEMMA FiniteAttached ==
  ASSUME NEW s, "dests" \in DOMAIN s, IsFiniteSet(DOMAIN s.dests), NEW r, NEW port
  PROVE  IsFiniteSet(DOMAIN WithDestination(s, r, port).dests)
<1> DEFINE t == [s EXCEPT !.dests = Attached(@, r.dest, <<r.ip, port>>)]
<1>1. DOMAIN t.dests = DOMAIN s.dests \cup {r.dest} BY DEF Attached, Inserted
<1>2. IsFiniteSet(DOMAIN s.dests \cup {r.dest}) BY FS_AddElement
<1> HIDE DEF t
<1>3. IsFiniteSet(DOMAIN t.dests) BY <1>1, <1>2
<1> QED BY <1>3 DEF WithDestination, t

LEMMA FiniteAppended ==
  ASSUME NEW l, IsList(l), Finite(l), NEW s, s.dests = <<>>
  PROVE  Finite(Append(l, s))
<1> DEFINE m == Append(l, s)
<1>1. /\ IsList(m) /\ Len(m) = Len(l) + 1 /\ Len(l) \in Nat /\ DOMAIN l = 1..Len(l)
      /\ \A i \in 1..Len(l) : m[i] = l[i]
      /\ m[Len(l) + 1] = s
  BY AppendList, ListFacts DEF IsList
<1> HIDE DEF m
<1>2. DOMAIN m = 1..Len(l) + 1 BY <1>1, ListFacts
<1>3. IsFiniteSet(DOMAIN s.dests)
  <2>1. DOMAIN <<>> = {} OBVIOUS
  <2> QED BY <2>1, FS_EmptySet
<1>4. Finite(m) BY <1>1, <1>2, <1>3 DEF Finite
<1> QED BY <1>4 DEF m

LEMMA FiniteLine ==
  ASSUME NEW r, Shape(r), Finite(r.sessions), r.temp.dests = <<>>, NEW line
  PROVE  Finite(ReadsLine(r, line).sessions)
<1>1. DOMAIN r = Fields /\ IsList(r.sessions) /\ DOMAIN r.sessions = 1..Len(r.sessions)
  BY ListFacts DEF Shape
<1>2. Finite(Append(r.sessions, r.temp)) BY <1>1, FiniteAppended
<1>3. ReadsHeader(r, line).sessions \in {r.sessions, Append(r.sessions, r.temp)}
  BY <1>1 DEF ReadsHeader, Fields
<1>4. Finite(ReadsPort(r, line).sessions)
  <2> DEFINE l == [i \in DOMAIN r.sessions |-> WithDestination(r.sessions[i], r, Unsigned(line.value))]
  <2>1. ReadsPort(r, line).sessions = r.sessions \/ ReadsPort(r, line).sessions = l
    BY <1>1 DEF ReadsPort, Fields
  <2>2. \A i \in DOMAIN r.sessions : IsFiniteSet(DOMAIN l[i].dests)
    BY <1>1, FiniteAttached DEF Finite, Shape
  <2>3. DOMAIN l = DOMAIN r.sessions OBVIOUS
  <2> HIDE DEF l
  <2>4. Finite(l) BY <2>2, <2>3 DEF Finite
  <2> QED BY <2>1, <2>4
<1>5. ReadsDestinationKey(r, line).sessions = r.sessions BY <1>1 DEF ReadsDestinationKey, Fields
<1>6. ReadsKey(r, line).sessions = r.sessions BY <1>1 DEF ReadsKey, Fields
<1>7. \/ ReadsLine(r, line) = r
      \/ ReadsLine(r, line) = ReadsPort(r, line)
      \/ ReadsLine(r, line) = ReadsHeader(r, line)
      \/ ReadsLine(r, line) = ReadsDestinationKey(r, line)
      \/ ReadsLine(r, line) = ReadsKey(r, line)
  BY DEF ReadsLine
<1>8. Finite(ReadsHeader(r, line).sessions) BY <1>2, <1>3
<1> QED BY <1>4, <1>5, <1>6, <1>7, <1>8

LEMMA FInit == Init => FInv
<1> SUFFICES ASSUME Init PROVE FInv OBVIOUS
<1>1. TInv BY TInit
<1>2. reader.sessions = <<>> /\ session_infos = <<>> BY DEF Init, Reader
<1>3. DOMAIN <<>> = {} /\ <<>> \in Seq({}) OBVIOUS
<1>4. IsList(session_infos) BY <1>2, <1>3, SequenceIsList
<1> QED BY <1>1, <1>2, <1>3, <1>4 DEF FInv, Finite

LEMMA FStep == FInv /\ [Next]_vars => FInv'
<1> SUFFICES ASSUME FInv, [Next]_vars PROVE FInv' OBVIOUS
<1>1. TInv' BY TStep DEF FInv
<1>2. Shape(reader) /\ reader.temp.dests = <<>> /\ IsList(reader.sessions)
  BY DEF FInv, TInv, KInv, ReaderType, Shape
<1>3. CASE ReadLine
  <2>1. Finite(ReadsLine(reader, file[next]).sessions) BY <1>2, FiniteLine DEF FInv
  <2>2. Finite(reader'.sessions) /\ session_infos' = reader'.sessions BY <1>3, <2>1 DEF ReadLine
  <2>3. IsList(session_infos') BY <1>1, <2>2 DEF TInv, KInv, Shape, IsList
  <2> QED BY <1>1, <2>2, <2>3 DEF FInv, Finite, IsList
<1>4. CASE Returns
  <2>1. Finite(Append(reader.sessions, reader.temp)) BY <1>2, FiniteAppended DEF FInv
  <2>2. reader' = reader /\ Finite(session_infos') BY <1>4, <2>1 DEF Returns, Ended, FInv
  <2>3. IsList(session_infos') BY <1>2, <1>4, AppendList DEF Returns, Ended
  <2> QED BY <1>1, <2>2, <2>3 DEF FInv, Finite, IsList
<1>5. CASE Opens \/ CannotOpen \/ UNCHANGED vars
  <2>1. reader' = reader /\ session_infos' = session_infos BY <1>5 DEF Opens, CannotOpen, vars
  <2> QED BY <1>1, <2>1 DEF FInv, Finite, IsList
<1> QED BY <1>3, <1>4, <1>5 DEF Next

LEMMA FSaved == FInv => SavedIsLoaded
<1> SUFFICES ASSUME FInv PROVE SavedIsLoaded OBVIOUS
<1>1. IsList(session_infos) BY DEF FInv
<1>2. DOMAIN session_infos = 1..Len(session_infos) BY <1>1, ListFacts
<1>3. \A i \in 1..Len(session_infos) : Savable(session_infos[i])
  BY <1>2 DEF FInv, TInv, Finite, Savable
<1> QED BY <1>1, <1>2, <1>3, ListRead DEF SavedIsLoaded

\* Whatever file was read, and however far: the list load_ini returns, written by
\* save_ini and read again, comes back with its interfaces in order, each with the
\* fields of its type and without destinations.
THEOREM ConfigSavedIsLoaded == Spec => []SavedIsLoaded
<1> QED BY FInit, FStep, FSaved, PTL DEF Spec
===============================================================================
