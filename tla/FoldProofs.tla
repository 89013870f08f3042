------------------------------ MODULE FoldProofs ------------------------------
(***************************************************************************)
(* What the recursive operators of the community modules compute that the  *)
(* models are built from, for every input.                                 *)
(***************************************************************************)
EXTENDS Integers, SequencesExt, TLAPS, FiniteSetTheorems, SequenceTheorems

(* Induction over an interval                                              *)

\* A set that holds 0, and with each number below k the next one, holds the numbers up to k.
LEMMA UpTo ==
  ASSUME NEW k \in Nat, NEW S, 0 \in S, \A i \in 0..(k - 1) : i \in S => i + 1 \in S
  PROVE  0..k \subseteq S
<1>. DEFINE Missed == (0..k) \ S
            Below(n) == 0..n
            Starts == {Below(n) : n \in Missed}
<1>. SUFFICES ASSUME Missed # {} PROVE FALSE
  OBVIOUS
<1>1. IsFiniteSet(0..k)
  BY FS_Interval
<1>2. IsWellFoundedOn(StrictSubsetOrdering(0..k), SUBSET (0..k))
  BY <1>1, FS_StrictSubsetOrderingWellFounded, FS_FiniteSubsetsOfFinite
<1>3. PICK X \in Starts : \A Y \in Starts : ~(<<Y, X>> \in StrictSubsetOrdering(0..k))
  <2>1. \A n \in Missed : Below(n) \in SUBSET (0..k)
    OBVIOUS
  <2>2. Starts \subseteq SUBSET (0..k) /\ Starts # {}
    BY <2>1
  <2>. HIDE DEF Starts
  <2>. QED BY <1>2, <2>2, WFMin
<1>4. PICK n \in Missed : X = Below(n)
  BY <1>3
<1>5. n \in 1..k /\ n - 1 \in 0..(k - 1) /\ (n - 1) + 1 = n
  OBVIOUS
<1>6. n - 1 \in Missed
  BY <1>5
<1>7. Below(n - 1) \in SUBSET (0..k) /\ Below(n) \in SUBSET (0..k)
      /\ Below(n - 1) \subseteq Below(n) /\ Below(n - 1) # Below(n)
  <2>1. n \in Below(n) /\ n \notin Below(n - 1)
    BY <1>5
  <2>. QED BY <1>5, <2>1
<1>8. <<Below(n - 1), Below(n)>> \in StrictSubsetOrdering(0..k)
  <2>. HIDE DEF Below
  <2>. QED BY <1>7 DEF StrictSubsetOrdering
<1>9. Below(n - 1) \in Starts
  BY <1>6
<1>. QED BY <1>3, <1>4, <1>8, <1>9

\* The same from 1 on.
LEMMA From1 ==
  ASSUME NEW k \in Nat, NEW S, 1 \in S, \A i \in 1..(k - 1) : i \in S => i + 1 \in S
  PROVE  1..k \subseteq S
<1>. DEFINE S0 == S \cup {0}
<1>1. 0..k \subseteq S0
  <2>1. 0 \in S0
    OBVIOUS
  <2>2. ASSUME NEW i \in 0..(k - 1), i \in S0 PROVE i + 1 \in S0
    <3>1. CASE i = 0
      BY <3>1
    <3>2. CASE i # 0
      <4>1. i \in 1..(k - 1) /\ i \in S
        BY <2>2, <3>2
      <4>. QED BY <4>1
    <3>. QED BY <3>1, <3>2
  <2>. HIDE DEF S0
  <2>. QED BY <2>1, <2>2, UpTo
<1>. QED BY <1>1

\* f[n] is the concatenation of the first n sequences, for n up to m.
Joins(f, seqs, m) ==
  /\ f[1] = seqs[1]
  /\ \A i \in 2..m : f[i] = f[i - 1] \o seqs[i]

\* There are such concatenations.
LEMMA JoinExists ==
  ASSUME NEW T, NEW seqs \in Seq(Seq(T)), seqs # <<>>
  PROVE  \E f \in [1..Len(seqs) -> Seq(T)] : Joins(f, seqs, Len(seqs))
<1>. DEFINE N == Len(seqs)
            Upto(n) == \E f \in [1..n -> Seq(T)] : 
                          f[1] = seqs[1] /\ \A i \in 2..n : f[i] = f[i - 1] \o seqs[i]
            S == {n \in 1..N : Upto(n)}
<1>1. N \in Nat \ {0} /\ \A i \in 1..N : seqs[i] \in Seq(T)
  BY EmptySeq
<1>2. 1 \in S
  <2>. DEFINE g == [i \in 1..1 |-> seqs[1]]
  <2>1. g \in [1..1 -> Seq(T)] /\ g[1] = seqs[1]
    BY <1>1
  <2>2. \A i \in 2..1 : g[i] = g[i - 1] \o seqs[i]
    OBVIOUS
  <2>3. Upto(1)
    <3>. HIDE DEF g
    <3>. QED BY <2>1, <2>2
  <2>4. 1 \in 1..N
    BY <1>1
  <2>. HIDE DEF Upto
  <2>. QED BY <2>3, <2>4
<1>3. ASSUME NEW n \in 1..(N - 1), n \in S PROVE n + 1 \in S
  <2>1. PICK f \in [1..n -> Seq(T)] : f[1] = seqs[1] /\ \A i \in 2..n : f[i] = f[i - 1] \o seqs[i]
    BY <1>3
  <2>. DEFINE g == [i \in 1..(n + 1) |-> IF i = n + 1 THEN f[n] \o seqs[n + 1] ELSE f[i]]
  <2>2. n + 1 \in 1..N /\ n \in 1..n /\ n + 1 # 1
    BY <1>1
  <2>3. f[n] \o seqs[n + 1] \in Seq(T)
    BY <1>1, <2>2, ConcatProperties
  <2>4. ASSUME NEW i \in 1..(n + 1) PROVE i = n + 1 \/ i \in 1..n
    OBVIOUS
  <2>5. g \in [1..(n + 1) -> Seq(T)]
    <3>1. ASSUME NEW i \in 1..(n + 1) PROVE (IF i = n + 1 THEN f[n] \o seqs[n + 1] ELSE f[i]) \in Seq(T)
      BY <2>3, <2>4
    <3>. QED BY <3>1
  <2>6. g[1] = seqs[1]
    BY <2>1, <2>2
  <2>7. ASSUME NEW i \in 2..(n + 1) PROVE g[i] = g[i - 1] \o seqs[i]
    <3>1. i \in 1..(n + 1) /\ i - 1 \in 1..(n + 1) /\ i - 1 # n + 1
      OBVIOUS
    <3>2. g[i - 1] = f[i - 1]
      BY <3>1
    <3>3. CASE i = n + 1
      <4>1. g[i] = f[n] \o seqs[n + 1] /\ i - 1 = n
        BY <3>1, <3>3
      <4>. QED BY <4>1, <3>2, <3>3
    <3>4. CASE i # n + 1
      <4>1. g[i] = f[i] /\ i \in 2..n
        BY <3>1, <3>4
      <4>. QED BY <4>1, <3>2, <2>1
    <3>. QED BY <3>3, <3>4
  <2>8. Upto(n + 1)
    <3>. HIDE DEF g
    <3>. QED BY <2>5, <2>6, <2>7
  <2>. QED BY <2>2, <2>8
<1>4. 1..N \subseteq S
  <2>. HIDE DEF S
  <2>. QED BY <1>1, <1>2, <1>3, From1
<1>5. Upto(N)
  <2>1. N \in 1..N
    BY <1>1
  <2>. HIDE DEF Upto
  <2>. QED BY <2>1, <1>4
<1>. QED BY <1>5 DEF Joins

\* Two of them agree.
LEMMA JoinUnique ==
  ASSUME NEW m \in Nat, NEW seqs, NEW f, NEW g, Joins(f, seqs, m), Joins(g, seqs, m)
  PROVE  \A i \in 1..m : f[i] = g[i]
<1>. DEFINE S == {i \in 1..m : f[i] = g[i]}
<1>0. CASE m = 0
  BY <1>0
<1>1. CASE m # 0
  <2>1. 1 \in S
    BY <1>1 DEF Joins
  <2>2. ASSUME NEW i \in 1..(m - 1), i \in S PROVE i + 1 \in S
    <3>1. i + 1 \in 2..m /\ i + 1 \in 1..m /\ (i + 1) - 1 = i
      OBVIOUS
    <3>2. f[i + 1] = f[i] \o seqs[i + 1] /\ g[i + 1] = g[i] \o seqs[i + 1]
      BY <3>1 DEF Joins
    <3>3. f[i] = g[i]
      BY <2>2, <3>1
    <3>. QED BY <3>1, <3>2, <3>3
  <2>3. 1..m \subseteq S
    <3>. HIDE DEF S
    <3>. QED BY <2>1, <2>2, From1
  <2>. QED BY <2>3
<1>. QED BY <1>0, <1>1

\* The recursive function inside FlattenSeq is one of them.
LEMMA FlattenJoins ==
  ASSUME NEW T, NEW seqs \in Seq(Seq(T)), seqs # <<>>
  PROVE  \E f \in [1..Len(seqs) -> Seq(T)] : Joins(f, seqs, Len(seqs)) /\ FlattenSeq(seqs) = f[Len(seqs)]
<1>. DEFINE N == Len(seqs)
            Step(f) == [i \in 1..N |-> IF i = 1 THEN seqs[i] ELSE f[i - 1] \o seqs[i]]
            flatten == CHOOSE f : f = Step(f)
<1>1. N \in Nat \ {0} /\ \A i \in 1..N : seqs[i] \in Seq(T)
  BY EmptySeq
<1>2. PICK f : f \in [1..N -> Seq(T)] /\ Joins(f, seqs, N)
  BY JoinExists
<1>3. f = Step(f)
  <2>1. ASSUME NEW i \in 1..N PROVE f[i] = IF i = 1 THEN seqs[i] ELSE f[i - 1] \o seqs[i]
    <3>1. i = 1 \/ i \in 2..N
      OBVIOUS
    <3>. QED BY <1>2, <3>1 DEF Joins
  <2>. QED BY <1>2, <2>1
<1>4. flatten = Step(flatten)
  <2>. HIDE DEF Step
  <2>. QED BY <1>3
<1>5. Joins(flatten, seqs, N)
  <2>. HIDE DEF flatten
  <2>1. ASSUME NEW i \in 1..N PROVE flatten[i] = IF i = 1 THEN seqs[i] ELSE flatten[i - 1] \o seqs[i]
    BY <1>4
  <2>2. flatten[1] = seqs[1]
    BY <1>1, <2>1
  <2>3. ASSUME NEW i \in 2..N PROVE flatten[i] = flatten[i - 1] \o seqs[i]
    <3>1. i \in 1..N /\ i # 1
      BY <1>1
    <3>. QED BY <2>1, <3>1
  <2>. QED BY <2>2, <2>3 DEF Joins
<1>6. \A i \in 1..N : flatten[i] = f[i]
  <2>. HIDE DEF flatten
  <2>1. N \in Nat
    BY <1>1
  <2>. HIDE DEF N
  <2>. QED BY <2>1, <1>2, <1>5, JoinUnique
<1>7. FlattenSeq(seqs) = flatten[N]
  BY <1>1 DEF FlattenSeq
<1>8. FlattenSeq(seqs) = f[N]
  <2>. HIDE DEF flatten
  <2>. QED BY <1>1, <1>6, <1>7
<1>. QED BY <1>2, <1>8

\* What FlattenSeq makes is a sequence.
LEMMA FlattenType ==
  ASSUME NEW T, NEW seqs \in Seq(Seq(T))
  PROVE  FlattenSeq(seqs) \in Seq(T)
<1>1. CASE seqs = <<>>
  <2>1. FlattenSeq(seqs) = <<>>
    BY <1>1 DEF FlattenSeq
  <2>. QED BY <2>1
<1>2. CASE seqs # <<>>
  <2>1. Len(seqs) \in 1..Len(seqs)
    BY <1>2, EmptySeq
  <2>. QED BY <1>2, <2>1, FlattenJoins
<1>. QED BY <1>1, <1>2

\* One more sequence at the end.
LEMMA FlattenAppend ==
  ASSUME NEW T, NEW seqs \in Seq(Seq(T)), NEW s \in Seq(T)
  PROVE  FlattenSeq(Append(seqs, s)) = FlattenSeq(seqs) \o s
<1>. DEFINE N == Len(seqs)
            more == Append(seqs, s)
<1>1. /\ N \in Nat /\ more \in Seq(Seq(T)) /\ Len(more) = N + 1 /\ more # <<>>
      /\ \A i \in 1..N : more[i] = seqs[i]
      /\ more[N + 1] = s
  <2>1. Len(more) = N + 1 /\ N \in Nat
    OBVIOUS
  <2>2. more # <<>>
    BY <2>1
  <2>. QED BY <2>1, <2>2
<1>. HIDE DEF more
<1>2. PICK g : g \in [1..(N + 1) -> Seq(T)] /\ Joins(g, more, N + 1) /\ FlattenSeq(more) = g[N + 1]
  BY <1>1, FlattenJoins
<1>3. CASE seqs = <<>>
  <2>1. FlattenSeq(seqs) = <<>> /\ N = 0
    BY <1>3 DEF FlattenSeq
  <2>2. g[1] = s
    BY <1>1, <1>2, <2>1 DEF Joins
  <2>3. <<>> \o s = s
    BY ConcatEmptySeq
  <2>. QED BY <1>2, <2>1, <2>2, <2>3 DEF more
<1>4. CASE seqs # <<>>
  <2>1. PICK f : f \in [1..N -> Seq(T)] /\ Joins(f, seqs, N) /\ FlattenSeq(seqs) = f[N]
    BY <1>4, FlattenJoins
  <2>2. N \in Nat \ {0}
    BY <1>4, EmptySeq
  <2>4. Joins(g, seqs, N)
    <3>1. more[1] = seqs[1] /\ \A i \in 2..N : more[i] = seqs[i] /\ i \in 2..(N + 1)
      BY <1>1, <2>2
    <3>. QED BY <1>1, <1>2, <3>1 DEF Joins
  <2>5. \A i \in 1..N : f[i] = g[i]
    <3>1. N \in Nat
      BY <2>2
    <3>2. Joins(f, seqs, N)
      BY <2>1
    <3>. HIDE DEF N
    <3>. QED BY <2>4, <3>1, <3>2, JoinUnique
  <2>6. g[N + 1] = g[N] \o s
    <3>1. N + 1 \in 2..(N + 1) /\ (N + 1) - 1 = N
      BY <2>2
    <3>. QED BY <1>1, <1>2, <3>1 DEF Joins
  <2>7. g[N] = f[N]
    BY <2>2, <2>5
  <2>. QED BY <1>2, <2>1, <2>6, <2>7 DEF more
<1>. QED BY <1>3, <1>4

\* The first n members of s are sequences over T.
Sequences(s, n, T) == \A i \in 1..n : s[i] \in Seq(T)

\* f goes on with the first n sequences of rest.
GoesOn(f, rest, n) == \A i \in 1..n : f[i + 1] = f[i] \o rest[i]

\* Joined after a first sequence, the others are joined, with that one at the front.
LEMMA JoinRest ==
  ASSUME NEW T, NEW n \in Nat \ {0}, NEW first \in Seq(T), NEW rest, NEW f, NEW g,
         Sequences(rest, n, T), Sequences(g, n, T),
         f[1] = first, GoesOn(f, rest, n), Joins(g, rest, n)
  PROVE  f[n + 1] = first \o g[n]
<1>. DEFINE S == {i \in 1..n : f[i + 1] = first \o g[i]}
<1>1. 1 \in S
  <2>1. 1 \in 1..n
    OBVIOUS
  <2>2. f[1 + 1] = f[1] \o rest[1] /\ g[1] = rest[1]
    BY <2>1 DEF GoesOn, Joins
  <2>. QED BY <2>1, <2>2
<1>2. ASSUME NEW i \in 1..(n - 1), i \in S PROVE i + 1 \in S
  <2>1. i \in 1..n /\ i + 1 \in 1..n /\ i + 1 \in 2..n /\ (i + 1) - 1 = i
    OBVIOUS
  <2>2. f[(i + 1) + 1] = f[i + 1] \o rest[i + 1]
    BY <2>1 DEF GoesOn
  <2>3. g[i + 1] = g[i] \o rest[i + 1]
    BY <2>1 DEF Joins
  <2>4. f[i + 1] = first \o g[i]
    BY <1>2
  <2>5. (first \o g[i]) \o rest[i + 1] = first \o (g[i] \o rest[i + 1])
    <3>. DEFINE b == g[i]
                c == rest[i + 1]
    <3>1. first \in Seq(T) /\ b \in Seq(T) /\ c \in Seq(T)
      BY <2>1 DEF Sequences
    <3>. HIDE DEF b, c
    <3>2. (first \o b) \o c = first \o (b \o c)
      BY ONLY <3>1, ConcatAssociative
    <3>. QED BY <3>2 DEF b, c
  <2>6. f[(i + 1) + 1] = first \o g[i + 1]
    BY <2>2, <2>3, <2>4, <2>5
  <2>. QED BY <2>1, <2>6
<1>3. 1..n \subseteq S
  <2>. HIDE DEF S
  <2>. QED BY <1>1, <1>2, From1
<1>4. n \in 1..n
  OBVIOUS
<1>. QED BY <1>3, <1>4

\* The first sequence taken from the rest.
LEMMA FlattenTail ==
  ASSUME NEW T, NEW seqs \in Seq(Seq(T)), seqs # <<>>
  PROVE  FlattenSeq(seqs) = Head(seqs) \o FlattenSeq(Tail(seqs))
<1>. DEFINE N == Len(seqs)
            rest == Tail(seqs)
<1>1. /\ N \in Nat \ {0} /\ rest \in Seq(Seq(T)) /\ Len(rest) = N - 1
      /\ \A i \in 1..(N - 1) : rest[i] = seqs[i + 1]
      /\ Head(seqs) = seqs[1]
      /\ \A i \in 1..N : seqs[i] \in Seq(T)
  BY EmptySeq, HeadTailProperties
<1>. HIDE DEF rest
<1>2. PICK f : f \in [1..N -> Seq(T)] /\ Joins(f, seqs, N) /\ FlattenSeq(seqs) = f[N]
  BY FlattenJoins
<1>3. CASE rest = <<>>
  <2>1. N = 1
    BY <1>1, <1>3, EmptySeq
  <2>2. FlattenSeq(rest) = <<>>
    BY <1>3 DEF FlattenSeq
  <2>3. f[N] = seqs[1]
    BY <1>2, <2>1 DEF Joins
  <2>4. seqs[1] \o <<>> = seqs[1]
    <3>1. seqs[1] \in Seq(T)
      BY <1>1
    <3>. QED BY <3>1, ConcatEmptySeq
  <2>. QED BY <1>1, <1>2, <2>2, <2>3, <2>4 DEF rest
<1>4. CASE rest # <<>>
  <2>1. PICK g : g \in [1..(N - 1) -> Seq(T)] /\ Joins(g, rest, N - 1) /\ FlattenSeq(rest) = g[N - 1]
    <3>1. \E g \in [1..Len(rest) -> Seq(T)] : Joins(g, rest, Len(rest)) /\ FlattenSeq(rest) = g[Len(rest)]
      BY <1>1, <1>4, FlattenJoins
    <3>. QED BY <1>1, <3>1
  <2>2. N - 1 \in Nat \ {0} /\ N - 1 \in 1..(N - 1) /\ (N - 1) + 1 = N
    <3>1. Len(rest) # 0
      BY <1>1, <1>4, EmptySeq
    <3>. QED BY <1>1, <3>1
  <2>3. f[N] = seqs[1] \o g[N - 1]
    <3>. DEFINE n == N - 1
                first == seqs[1]
    <3>1. n \in Nat \ {0} /\ N = n + 1 /\ first \in Seq(T)
      BY <1>1, <2>2
    <3>2. Sequences(rest, n, T) /\ Sequences(g, n, T)
      <4>1. ASSUME NEW i \in 1..n PROVE rest[i] \in Seq(T)
        <5>1. i + 1 \in 1..N /\ i \in 1..(N - 1)
          BY <2>2
        <5>2. seqs[i + 1] \in Seq(T) /\ rest[i] = seqs[i + 1]
          BY <1>1, <5>1
        <5>. QED BY <5>2
      <4>2. \A i \in 1..n : g[i] \in Seq(T)
        BY <2>1
      <4>. QED BY <4>1, <4>2 DEF Sequences
    <3>3. f[1] = first /\ Joins(g, rest, n)
      BY <1>2, <2>1 DEF Joins
    <3>4. GoesOn(f, rest, n)
      <4>. SUFFICES ASSUME NEW i \in 1..n PROVE f[i + 1] = f[i] \o rest[i]
        BY DEF GoesOn
      <4>1. i + 1 \in 2..N /\ (i + 1) - 1 = i /\ i \in 1..(N - 1)
        BY <2>2
      <4>. QED BY <1>1, <1>2, <4>1 DEF Joins
    <3>. HIDE DEF N, n, first
    <3>5. f[n + 1] = first \o g[n]
      BY <3>1, <3>2, <3>3, <3>4, JoinRest
    <3>. QED BY <3>1, <3>5 DEF n, first
  <2>. QED BY <1>1, <1>2, <2>1, <2>3 DEF rest
<1>. QED BY <1>3, <1>4

\* What is in one of the sequences is in what FlattenSeq makes of them.
LEMMA FlattenMember ==
  ASSUME NEW T, NEW seqs \in Seq(Seq(T)), NEW i \in 1..Len(seqs), NEW j \in 1..Len(seqs[i])
  PROVE  \E m \in 1..Len(FlattenSeq(seqs)) : FlattenSeq(seqs)[m] = seqs[i][j]
<1>. DEFINE N == Len(seqs)
            x == seqs[i][j]
            Has(s) == \E m \in 1..Len(s) : s[m] = x
<1>1. N \in Nat /\ N \in 1..N /\ 1 \in 1..N /\ seqs # <<>> /\ \A k \in 1..N : seqs[k] \in Seq(T)
  BY EmptySeq
<1>2. PICK f : f \in [1..N -> Seq(T)] /\ Joins(f, seqs, N) /\ FlattenSeq(seqs) = f[N]
  BY <1>1, FlattenJoins
<1>. DEFINE S == {k \in 1..N : k < i \/ Has(f[k])}
<1>3. Has(seqs[i])
  OBVIOUS
<1>4. ASSUME NEW s \in Seq(T), NEW t \in Seq(T), Has(s) \/ Has(t) PROVE Has(s \o t)
  <2>1. /\ Len(s \o t) = Len(s) + Len(t) /\ Len(s) \in Nat /\ Len(t) \in Nat
        /\ \A m \in 1..(Len(s) + Len(t)) :
             (s \o t)[m] = IF m <= Len(s) THEN s[m] ELSE t[m - Len(s)]
    BY ConcatProperties, LenProperties
  <2>2. CASE Has(s)
    <3>1. PICK m \in 1..Len(s) : s[m] = x
      BY <2>2
    <3>2. m \in 1..(Len(s) + Len(t)) /\ m <= Len(s)
      BY <2>1
    <3>. QED BY <2>1, <3>1, <3>2
  <2>3. CASE Has(t)
    <3>1. PICK m \in 1..Len(t) : t[m] = x
      BY <2>3
    <3>2. Len(s) + m \in 1..(Len(s) + Len(t)) /\ ~(Len(s) + m <= Len(s)) /\ (Len(s) + m) - Len(s) = m
      BY <2>1
    <3>3. (s \o t)[Len(s) + m] = x
      BY <2>1, <3>1, <3>2
    <3>. QED BY <2>1, <3>2, <3>3
  <2>. QED BY <1>4, <2>2, <2>3
<1>. HIDE DEF Has
<1>5. 1 \in S
  <2>1. f[1] = seqs[1]
    BY <1>2 DEF Joins
  <2>2. i = 1 \/ 1 < i
    OBVIOUS
  <2>. QED BY <1>1, <1>3, <2>1, <2>2
<1>6. ASSUME NEW k \in 1..(N - 1), k \in S PROVE k + 1 \in S
  <2>1. k + 1 \in 2..N /\ k + 1 \in 1..N /\ k \in 1..N /\ (k + 1) - 1 = k
    BY <1>1
  <2>2. f[k + 1] = f[k] \o seqs[k + 1]
    BY <1>2, <2>1 DEF Joins
  <2>3. f[k] \in Seq(T) /\ seqs[k + 1] \in Seq(T)
    BY <1>1, <1>2, <2>1
  <2>4. k + 1 < i \/ Has(f[k]) \/ Has(seqs[k + 1])
    <3>1. CASE k < i
      <4>1. k + 1 < i \/ k + 1 = i
        BY <3>1
      <4>. QED BY <1>3, <4>1
    <3>. QED BY <1>6, <3>1
  <2>5. k + 1 < i \/ Has(f[k] \o seqs[k + 1])
    BY <1>4, <2>3, <2>4
  <2>. QED BY <2>1, <2>2, <2>5
<1>7. 1..N \subseteq S
  <2>. HIDE DEF S
  <2>. QED BY <1>1, <1>5, <1>6, From1
<1>8. Has(f[N])
  BY <1>1, <1>7
<1>. QED BY <1>2, <1>8 DEF Has
-----------------------------------------------------------------------------
(* The recursive function inside a fold over a finite set                  *)

\* What it returns for the subsets of S: base for the empty set, else one more step with
\* the element that c takes first.
Iter(it, S, base, c, step) ==
  it = [s \in SUBSET S |-> IF s = {} THEN base ELSE step[<<c[s], it[s \ {c[s]}]>>]]

\* c takes an element of every set that has one.
Takes(c, S) == \A s \in SUBSET S : s # {} => c[s] \in s

\* There is such a function, and its values are of the type of a step.
LEMMA IterExists ==
  ASSUME NEW S, IsFiniteSet(S), NEW c, Takes(c, S),
         NEW V, NEW base \in V, NEW step \in [S \X V -> V]
  PROVE  \E it \in [SUBSET S -> V] : Iter(it, S, base, c, step)
<1>. DEFINE Value(it, s) == IF s = {} THEN base ELSE step[<<c[s], it[s \ {c[s]}]>>]
            For(it, n) == \A s \in SUBSET S : Cardinality(s) <= n => it[s] = Value(it, s)
            Found == {n \in 0..Cardinality(S) : \E it \in [SUBSET S -> V] : For(it, n)}
<1>1. Cardinality(S) \in Nat
  BY FS_CardinalityType
<1>2. ASSUME NEW s \in SUBSET S
      PROVE  IsFiniteSet(s) /\ Cardinality(s) \in 0..Cardinality(S)
  BY <1>1, FS_Subset, FS_CardinalityType
<1>3. ASSUME NEW s \in SUBSET S, s # {}
      PROVE  c[s] \in s /\ c[s] \in S /\ s \ {c[s]} \in SUBSET S
             /\ Cardinality(s \ {c[s]}) = Cardinality(s) - 1
  <2>1. c[s] \in s
    BY <1>3 DEF Takes
  <2>2. Cardinality(s \ {c[s]}) = Cardinality(s) - 1
    BY <1>2, <2>1, FS_RemoveElement
  <2>. QED BY <2>1, <2>2
<1>4. ASSUME NEW it \in [SUBSET S -> V], NEW s \in SUBSET S
      PROVE  Value(it, s) \in V
  <2>1. CASE s = {}
    BY <2>1
  <2>2. CASE s # {}
    <3>1. c[s] \in S /\ it[s \ {c[s]}] \in V
      BY <2>2, <1>3
    <3>2. <<c[s], it[s \ {c[s]}]>> \in S \X V
      BY <3>1
    <3>. QED BY <2>2, <3>2
  <2>. QED BY <2>1, <2>2
<1>5. 0 \in Found
  <2>. DEFINE it == [s \in SUBSET S |-> base]
  <2>1. ASSUME NEW s \in SUBSET S, Cardinality(s) <= 0 PROVE it[s] = Value(it, s)
    <3>1. s = {}
      BY <1>2, <2>1, FS_EmptySet
    <3>. QED BY <3>1
  <2>2. it \in [SUBSET S -> V]
    OBVIOUS
  <2>3. For(it, 0)
    BY <2>1
  <2>. HIDE DEF it, For
  <2>. QED BY <1>1, <2>2, <2>3
<1>6. ASSUME NEW n \in 0..(Cardinality(S) - 1), n \in Found PROVE n + 1 \in Found
  <2>1. PICK g \in [SUBSET S -> V] : For(g, n)
    BY <1>6
  <2>. DEFINE it == [s \in SUBSET S |-> Value(g, s)]
  <2>2. it \in [SUBSET S -> V]
    <3>. HIDE DEF Value
    <3>. QED BY <1>4
  <2>3. ASSUME NEW s \in SUBSET S, Cardinality(s) <= n PROVE it[s] = g[s]
    <3>1. g[s] = Value(g, s)
      BY <2>1, <2>3
    <3>. HIDE DEF Value
    <3>. QED BY <3>1
  <2>4. ASSUME NEW s \in SUBSET S, Cardinality(s) <= n + 1 PROVE it[s] = Value(it, s)
    <3>1. CASE s = {}
      BY <3>1
    <3>2. CASE s # {}
      <4>1. s \ {c[s]} \in SUBSET S /\ Cardinality(s \ {c[s]}) <= n
        BY <1>2, <1>3, <2>4, <3>2
      <4>2. it[s \ {c[s]}] = g[s \ {c[s]}]
        BY <2>3, <4>1
      <4>3. it[s] = step[<<c[s], g[s \ {c[s]}]>>]
        BY <3>2
      <4>. HIDE DEF it
      <4>. QED BY <3>2, <4>2, <4>3
    <3>. QED BY <3>1, <3>2
  <2>5. For(it, n + 1)
    BY <2>4
  <2>6. n + 1 \in 0..Cardinality(S)
    BY <1>1
  <2>. HIDE DEF it, For
  <2>. QED BY <2>2, <2>5, <2>6
<1>7. 0..Cardinality(S) \subseteq Found
  <2>. DEFINE k == Cardinality(S)
  <2>. HIDE DEF Found
  <2>1. k \in Nat /\ 0 \in Found /\ \A i \in 0..(k - 1) : i \in Found => i + 1 \in Found
    BY <1>1, <1>5, <1>6
  <2>. HIDE DEF k
  <2>2. 0..k \subseteq Found
    BY <2>1, UpTo
  <2>. QED BY <2>2 DEF k
<1>8. PICK it \in [SUBSET S -> V] : For(it, Cardinality(S))
  <2>1. Cardinality(S) \in Found
    <3>. HIDE DEF Found
    <3>. QED BY <1>1, <1>7
  <2>. HIDE DEF For
  <2>. QED BY <2>1
<1>9. ASSUME NEW s \in SUBSET S PROVE it[s] = Value(it, s)
  BY <1>2, <1>8
<1>10. Iter(it, S, base, c, step)
  BY <1>8, <1>9 DEF Iter
<1>. QED BY <1>10
-----------------------------------------------------------------------------
(* Sums                                                                    *)

Chosen(s) == CHOOSE x \in s : TRUE

\* it[s] is the sum of f over s, added up in the order in which CHOOSE takes the elements.
Sums(it, f, S) ==
  /\ IsFiniteSet(S) /\ f \in [S -> Int]
  /\ it = [s \in SUBSET S |-> IF s = {} THEN 0 ELSE f[Chosen(s)] + it[s \ {Chosen(s)}]]

\* There are such sums.
LEMMA SumsExist ==
  ASSUME NEW S, IsFiniteSet(S), NEW f \in [S -> Int]
  PROVE  \E it \in [SUBSET S -> Int] : Sums(it, f, S)
<1>. DEFINE c    == [s \in SUBSET S |-> Chosen(s)]
            step == [x \in S \X Int |-> f[x[1]] + x[2]]
<1>1. Takes(c, S)
  BY DEF Takes, Chosen
<1>2. step \in [S \X Int -> Int]
  OBVIOUS
<1>3. PICK it \in [SUBSET S -> Int] : Iter(it, S, 0, c, step)
  <2>1. 0 \in Int
    OBVIOUS
  <2>. HIDE DEF c, step
  <2>. QED BY <1>1, <1>2, <2>1, IterExists
<1>4. ASSUME NEW s \in SUBSET S
      PROVE  (IF s = {} THEN 0 ELSE step[<<c[s], it[s \ {c[s]}]>>])
               = (IF s = {} THEN 0 ELSE f[Chosen(s)] + it[s \ {Chosen(s)}])
  <2>1. CASE s = {}
    BY <2>1
  <2>2. CASE s # {}
    <3>1. c[s] = Chosen(s) /\ Chosen(s) \in S
      BY <2>2 DEF Chosen
    <3>2. it[s \ {Chosen(s)}] \in Int
      BY <1>3
    <3>3. step[<<Chosen(s), it[s \ {Chosen(s)}]>>] = f[Chosen(s)] + it[s \ {Chosen(s)}]
      BY <3>1, <3>2
    <3>. HIDE DEF c, step
    <3>. QED BY <2>2, <3>1, <3>3
  <2>. QED BY <2>1, <2>2
<1>5. it = [s \in SUBSET S |-> IF s = {} THEN 0 ELSE step[<<c[s], it[s \ {c[s]}]>>]]
  BY <1>3 DEF Iter
<1>6. Sums(it, f, S)
  <2>. HIDE DEF c, step
  <2>. QED BY <1>4, <1>5 DEF Sums
<1>. QED BY <1>6

\* What is true of the subsets of each size is true of all: sizes go from 0 up to that of S.
LEMMA AllSizes ==
  ASSUME NEW S, IsFiniteSet(S), NEW Good, {} \in Good,
         \A s \in SUBSET S : (s # {} /\ \A x \in s : s \ {x} \in Good) => s \in Good
  PROVE  SUBSET S \subseteq Good
<1>. DEFINE k == Cardinality(S)
            Sizes == {n \in 0..k : \A s \in SUBSET S : Cardinality(s) <= n => s \in Good}
<1>1. k \in Nat
  BY FS_CardinalityType
<1>2. ASSUME NEW s \in SUBSET S
      PROVE  IsFiniteSet(s) /\ Cardinality(s) \in 0..k
  BY <1>1, FS_Subset, FS_CardinalityType
<1>3. 0 \in Sizes
  <2>1. ASSUME NEW s \in SUBSET S, Cardinality(s) <= 0 PROVE s \in Good
    <3>1. Cardinality(s) = 0
      BY <1>2, <2>1
    <3>2. s = {}
      BY <1>2, <3>1, FS_EmptySet
    <3>. QED BY <3>2
  <2>2. 0 \in 0..k
    BY <1>1
  <2>. QED BY <2>1, <2>2
<1>4. ASSUME NEW n \in 0..(k - 1), n \in Sizes PROVE n + 1 \in Sizes
  <2>1. ASSUME NEW s \in SUBSET S, Cardinality(s) <= n + 1 PROVE s \in Good
    <3>1. ASSUME NEW x \in s PROVE s \ {x} \in Good
      <4>1. Cardinality(s \ {x}) <= n
        BY <1>2, <2>1, FS_RemoveElement
      <4>. QED BY <4>1, <1>4
    <3>. QED BY <3>1
  <2>2. n + 1 \in 0..k
    BY <1>1
  <2>. QED BY <2>1, <2>2
<1>5. 0..k \subseteq Sizes
  <2>. HIDE DEF Sizes, k
  <2>. QED BY <1>1, <1>3, <1>4, UpTo
<1>6. k \in Sizes
  <2>. HIDE DEF Sizes
  <2>. QED BY <1>1, <1>5
<1>. QED BY <1>2, <1>6

\* A sum is an integer.
LEMMA SumsType ==
  ASSUME NEW S, NEW f, NEW it, Sums(it, f, S)
  PROVE  it \in [SUBSET S -> Int]
<1>. DEFINE Good == {s \in SUBSET S : it[s] \in Int}
<1>0. IsFiniteSet(S) /\ f \in [S -> Int]
  BY DEF Sums
<1>1. ASSUME NEW s \in SUBSET S
      PROVE  it[s] = IF s = {} THEN 0 ELSE f[Chosen(s)] + it[s \ {Chosen(s)}]
  BY DEF Sums
<1>2. {} \in Good
  BY <1>1
<1>3. ASSUME NEW s \in SUBSET S, s # {}, \A x \in s : s \ {x} \in Good PROVE s \in Good
  <2>. DEFINE y == Chosen(s)
  <2>1. y \in s
    BY <1>3 DEF Chosen
  <2>2. it[s] = f[y] + it[s \ {y}]
    BY <1>1, <1>3
  <2>. HIDE DEF y
  <2>3. f[y] \in Int /\ it[s \ {y}] \in Int
    BY <1>0, <2>1, <1>3
  <2>. QED BY <2>2, <2>3
<1>4. SUBSET S \subseteq Good
  <2>. HIDE DEF Good
  <2>. QED BY <1>0, <1>2, <1>3, AllSizes
<1>. QED BY <1>4 DEF Sums

\* It does not depend on the order: any element may be taken last.
LEMMA SumsAny ==
  ASSUME NEW S, NEW f, NEW it, Sums(it, f, S)
  PROVE  \A s \in SUBSET S : \A x \in s : it[s] = f[x] + it[s \ {x}]
<1>. DEFINE Good == {s \in SUBSET S : \A x \in s : it[s] = f[x] + it[s \ {x}]}
<1>1. ASSUME NEW s \in SUBSET S
      PROVE  it[s] = IF s = {} THEN 0 ELSE f[Chosen(s)] + it[s \ {Chosen(s)}]
  BY DEF Sums
<1>0. it \in [SUBSET S -> Int] /\ IsFiniteSet(S) /\ f \in [S -> Int]
  BY SumsType DEF Sums
<1>2. {} \in Good
  OBVIOUS
<1>3. ASSUME NEW s \in SUBSET S, s # {}, \A x \in s : s \ {x} \in Good PROVE s \in Good
  <2>. DEFINE y == Chosen(s)
  <2>1. y \in s
    BY <1>3 DEF Chosen
  <2>2. it[s] = f[y] + it[s \ {y}]
    BY <1>1, <1>3
  <2>. HIDE DEF y
  <2>3. ASSUME NEW x \in s PROVE it[s] = f[x] + it[s \ {x}]
    <3>1. CASE x = y
      BY <2>2, <3>1
    <3>2. CASE x # y
      <4>1. x \in s \ {y} /\ y \in s \ {x} /\ (s \ {y}) \ {x} = (s \ {x}) \ {y}
        BY <2>1, <3>2
      <4>. DEFINE r == (s \ {x}) \ {y}
      <4>2. it[s \ {y}] = f[x] + it[r]
        BY <1>3, <2>1, <4>1
      <4>3. it[s \ {x}] = f[y] + it[r]
        BY <1>3, <2>3, <4>1
      <4>4. f[x] \in Int /\ f[y] \in Int /\ it[r] \in Int
        BY <1>0, <2>1
      <4>. HIDE DEF r
      <4>. QED BY <2>2, <4>2, <4>3, <4>4
    <3>. QED BY <3>1, <3>2
  <2>. QED BY <2>3
<1>4. SUBSET S \subseteq Good
  <2>. HIDE DEF Good
  <2>. QED BY <1>0, <1>2, <1>3, AllSizes
<1>. QED BY <1>4

\* f holds the differences of the successive values of g, which begins at 0.
Steps(g, f, n) ==
  /\ n \in Nat /\ g \in [0..n -> Int] /\ g[0] = 0
  /\ \A i \in 1..n : f[i] = g[i] - g[i - 1]

\* The differences of successive values add up to the last one.
LEMMA SumsTelescope ==
  ASSUME NEW n, NEW f, NEW it, NEW g, Sums(it, f, 1..n), Steps(g, f, n)
  PROVE  it[1..n] = g[n]
<1>0. n \in Nat /\ g \in [0..n -> Int] /\ g[0] = 0 /\ \A i \in 1..n : f[i] = g[i] - g[i - 1]
  BY DEF Steps
<1>. DEFINE Good == {k \in 0..n : it[1..k] = g[k]}
<1>2. 0 \in Good
  <2>1. 1..0 = {} /\ it[{}] = 0
    BY DEF Sums
  <2>. QED BY <2>1, <1>0
<1>3. ASSUME NEW k \in 0..(n - 1), k \in Good PROVE k + 1 \in Good
  <2>1. k + 1 \in 1..(k + 1) /\ 1..(k + 1) \in SUBSET (1..n) /\ (1..(k + 1)) \ {k + 1} = 1..k
    <3>1. \A i \in 1..(k + 1) : i \in 1..n
      BY <1>0
    <3>2. \A i : i \in (1..(k + 1)) \ {k + 1} <=> i \in 1..k
      <4>1. ASSUME NEW i PROVE i \in (1..(k + 1)) \ {k + 1} => i \in 1..k
        BY <1>0
      <4>2. ASSUME NEW i PROVE i \in 1..k => i \in (1..(k + 1)) \ {k + 1}
        BY <1>0
      <4>. QED BY <4>1, <4>2
    <3>3. (1..(k + 1)) \ {k + 1} = 1..k
      BY <3>2
    <3>. QED BY <3>1, <3>3
  <2>2. it[1..(k + 1)] = f[k + 1] + it[1..k]
    <3>. DEFINE D == 1..n
                s == 1..(k + 1)
                x == k + 1
    <3>1. Sums(it, f, D) /\ s \in SUBSET D /\ x \in s
      BY <2>1
    <3>. HIDE DEF D, s, x
    <3>2. it[s] = f[x] + it[s \ {x}]
      BY ONLY <3>1, SumsAny
    <3>. QED BY <2>1, <3>2 DEF s, x
  <2>3. f[k + 1] = g[k + 1] - g[k] /\ g[k + 1] \in Int /\ g[k] \in Int
    BY <2>1, <1>0
  <2>4. it[1..k] = g[k] /\ k + 1 \in 0..n
    BY <1>3, <1>0
  <2>. QED BY <2>2, <2>3, <2>4
<1>4. 0..n \subseteq Good
  <2>. HIDE DEF Good
  <2>. QED BY <1>0, <1>2, <1>3, UpTo
<1>. QED BY <1>0, <1>4
\* The sum over two sets that are apart.
LEMMA SumsUnion ==
  ASSUME NEW S, NEW f, NEW it, Sums(it, f, S), NEW a \in SUBSET S
  PROVE  \A b \in SUBSET S : a \cap b = {} => it[a \cup b] = it[a] + it[b]
<1>. DEFINE Good == {b \in SUBSET S : a \cap b = {} => it[a \cup b] = it[a] + it[b]}
<1>1. it \in [SUBSET S -> Int] /\ IsFiniteSet(S) /\ f \in [S -> Int]
  BY SumsType DEF Sums
<1>2. it[{}] = 0
  BY DEF Sums
<1>3. {} \in Good
  <2>1. a \cup {} = a /\ it[a] \in Int
    BY <1>1
  <2>. QED BY <1>2, <2>1
<1>4. ASSUME NEW b \in SUBSET S, b # {}, \A x \in b : b \ {x} \in Good PROVE b \in Good
  <2>1. SUFFICES ASSUME a \cap b = {} PROVE it[a \cup b] = it[a] + it[b]
    OBVIOUS
  <2>2. PICK x : x \in b
    BY <1>4
  <2>3. /\ x \in a \cup b /\ (a \cup b) \ {x} = a \cup (b \ {x}) /\ a \cap (b \ {x}) = {}
        /\ a \cup b \in SUBSET S /\ b \ {x} \in SUBSET S
    BY <2>1, <2>2
  <2>4. it[a \cup b] = f[x] + it[a \cup (b \ {x})]
    BY <2>3, SumsAny
  <2>5. it[b] = f[x] + it[b \ {x}]
    BY <2>2, SumsAny
  <2>6. it[a \cup (b \ {x})] = it[a] + it[b \ {x}]
    BY <1>4, <2>2, <2>3
  <2>7. f[x] \in Int /\ it[a] \in Int /\ it[b \ {x}] \in Int
    BY <1>1, <2>2, <2>3
  <2>. DEFINE p == it[a \cup b]
              q == it[a \cup (b \ {x})]
              r == it[b \ {x}]
  <2>8. p = f[x] + q /\ q = it[a] + r /\ it[b] = f[x] + r /\ r \in Int
    BY <2>4, <2>5, <2>6, <2>7
  <2>9. p = it[a] + it[b]
    <3>. HIDE DEF p, q, r
    <3>. QED BY <2>7, <2>8
  <2>. QED BY <2>9
<1>5. SUBSET S \subseteq Good
  <2>. HIDE DEF Good
  <2>. QED BY <1>1, <1>3, <1>4, AllSizes
<1>. QED BY <1>5

\* Each x of S stands for b[x], with the same value.
Renames(b, S, T, f, g) ==
  /\ b \in [S -> T] /\ \A x \in S : g[b[x]] = f[x]
  /\ \A x, y \in S : b[x] = b[y] => x = y

\* What the elements of S stand for.
StoodFor(b, S) == {b[x] : x \in S}

\* The elements with the key k.
WithKey(S, key, k) == {x \in S : key[x] = k}

\* The sum over a set is that over the set it stands for.
LEMMA SumsRenamed ==
  ASSUME NEW S, NEW T, NEW f, NEW g, NEW it, NEW jt, NEW b,
         Sums(it, f, S), Sums(jt, g, T), Renames(b, S, T, f, g)
  PROVE  it[S] = jt[StoodFor(b, S)]
<1>. DEFINE Of(s) == {b[x] : x \in s}
            Good == {s \in SUBSET S : it[s] = jt[Of(s)]}
<1>1. /\ b \in [S -> T] /\ \A x \in S : g[b[x]] = f[x]
      /\ \A x, y \in S : b[x] = b[y] => x = y
  BY DEF Renames
<1>2. IsFiniteSet(S)
  BY DEF Sums
<1>3. {} \in Good
  <2>1. Of({}) = {} /\ it[{}] = 0 /\ jt[{}] = 0
    BY DEF Sums
  <2>. QED BY <2>1
<1>4. ASSUME NEW s \in SUBSET S, s # {}, \A x \in s : s \ {x} \in Good PROVE s \in Good
  <2>1. PICK x : x \in s
    BY <1>4
  <2>2. it[s] = f[x] + it[s \ {x}]
    BY <2>1, SumsAny
  <2>3. Of(s) \in SUBSET T /\ b[x] \in Of(s)
    BY <1>1, <2>1
  <2>4. Of(s) \ {b[x]} = Of(s \ {x})
    <3>1. ASSUME NEW y \in s, b[y] # b[x] PROVE b[y] \in Of(s \ {x})
      BY <3>1
    <3>2. ASSUME NEW y \in s \ {x} PROVE b[y] \in Of(s) /\ b[y] # b[x]
      BY <1>1, <2>1
    <3>3. \A z : z \in Of(s) \ {b[x]} => z \in Of(s \ {x})
      BY <3>1
    <3>4. \A z : z \in Of(s \ {x}) => z \in Of(s) \ {b[x]}
      BY <3>2
    <3>. HIDE DEF Of
    <3>. QED BY <3>3, <3>4
  <2>5. jt[Of(s)] = g[b[x]] + jt[Of(s) \ {b[x]}]
    <3>. HIDE DEF Of
    <3>. QED BY <2>3, SumsAny
  <2>6. it[s \ {x}] = jt[Of(s \ {x})] /\ g[b[x]] = f[x]
    BY <1>1, <1>4, <2>1
  <2>. HIDE DEF Of
  <2>. QED BY <2>2, <2>4, <2>5, <2>6
<1>5. SUBSET S \subseteq Good
  <2>. HIDE DEF Good
  <2>. QED BY <1>2, <1>3, <1>4, AllSizes
<1>. QED BY <1>5 DEF StoodFor

\* The sums of the groups that have the same key add up to the sum of all.
LEMMA SumsByKey ==
  ASSUME NEW S, NEW f, NEW it, Sums(it, f, S),
         NEW K, NEW g, NEW kt, Sums(kt, g, K),
         NEW key, \A x \in S : key[x] \in K,
         \A k \in K : g[k] = it[WithKey(S, key, k)]
  PROVE  it[S] = kt[K]
<1>. DEFINE Of(c) == {x \in S : key[x] \in c}
            Good == {c \in SUBSET K : kt[c] = it[Of(c)]}
<1>1. IsFiniteSet(K)
  BY DEF Sums
<1>2. {} \in Good
  <2>1. Of({}) = {} /\ it[{}] = 0 /\ kt[{}] = 0
    BY DEF Sums
  <2>. QED BY <2>1
<1>3. ASSUME NEW c \in SUBSET K, c # {}, \A x \in c : c \ {x} \in Good PROVE c \in Good
  <2>1. PICK k : k \in c
    BY <1>3
  <2>2. kt[c] = g[k] + kt[c \ {k}]
    BY <2>1, SumsAny
  <2>. DEFINE a == {x \in S : key[x] = k}
              b == Of(c \ {k})
  <2>3. a \in SUBSET S /\ b \in SUBSET S /\ a \cap b = {} /\ a \cup b = Of(c)
    BY <2>1
  <2>4. it[a \cup b] = it[a] + it[b]
    <3>. HIDE DEF a, b
    <3>. QED BY <2>3, SumsUnion
  <2>5. g[k] = it[a] /\ kt[c \ {k}] = it[b]
    BY <1>3, <2>1 DEF WithKey
  <2>. HIDE DEF a, b, Of
  <2>. QED BY <2>2, <2>3, <2>4, <2>5
<1>4. SUBSET K \subseteq Good
  <2>. HIDE DEF Good
  <2>. QED BY <1>1, <1>2, <1>3, AllSizes
<1>5. Of(K) = S
  OBVIOUS
<1>. QED BY <1>4, <1>5

\* What has a sum: integers of the elements of a finite set.
Summable(f, S) == IsFiniteSet(S) /\ f \in [S -> Int]

\* SumFunction computes such sums.
LEMMA SumOf ==
  ASSUME NEW S, NEW f, Summable(f, S)
  PROVE  \E it : Sums(it, f, S) /\ SumFunction(f) = it[S]
<1>. DEFINE Body(it) == [s \in SUBSET S |-> IF s = {} THEN 0 ELSE f[Chosen(s)] + it[s \ {Chosen(s)}]]
            sum == CHOOSE it : it = Body(it)
<1>1. IsFiniteSet(S) /\ f \in [S -> Int] /\ DOMAIN f = S
  BY DEF Summable
<1>2. PICK it : Sums(it, f, S)
  BY <1>1, SumsExist
<1>3. it = Body(it)
  BY <1>2 DEF Sums
<1>4. sum = Body(sum)
  <2>. HIDE DEF Body
  <2>. QED BY <1>3
<1>5. Sums(sum, f, S)
  <2>. HIDE DEF sum
  <2>. QED BY <1>1, <1>4 DEF Sums
<1>6. SumFunction(f) = sum[S]
  BY <1>1, Zenon DEF SumFunction, SumFunctionOnSet, FoldFunctionOnSet, MapThenFoldSet, Chosen
<1>. HIDE DEF sum
<1>. QED BY <1>5, <1>6

\* It is the same for all ways to go through the set.
LEMMA SumUnique ==
  ASSUME NEW S, NEW f, NEW it, Sums(it, f, S)
  PROVE  SumFunction(f) = it[S]
<1>1. Summable(f, S)
  BY DEF Sums, Summable
<1>2. PICK jt : Sums(jt, f, S) /\ SumFunction(f) = jt[S]
  BY <1>1, SumOf
<1>. DEFINE b == [x \in S |-> x]
<1>3. Renames(b, S, S, f, f) /\ StoodFor(b, S) = S
  BY DEF Renames, StoodFor
<1>4. it[S] = jt[StoodFor(b, S)]
  <2>. HIDE DEF b
  <2>. QED BY <1>2, <1>3, SumsRenamed
<1>. QED BY <1>2, <1>3, <1>4

\* The sum of a part of the set.
LEMMA SumOfPart ==
  ASSUME NEW S, NEW f, NEW it, Sums(it, f, S), NEW s \in SUBSET S
  PROVE  SumFunction([x \in s |-> f[x]]) = it[s]
<1>. DEFINE part == [x \in s |-> f[x]]
            b == [x \in s |-> x]
<1>1. Summable(part, s)
  BY FS_Subset DEF Summable, Sums
<1>2. PICK jt : Sums(jt, part, s) /\ SumFunction(part) = jt[s]
  <2>. HIDE DEF part
  <2>. QED BY <1>1, SumOf
<1>3. Renames(b, s, S, part, f) /\ StoodFor(b, s) = s
  BY DEF Renames, StoodFor
<1>4. jt[s] = it[StoodFor(b, s)]
  <2>. HIDE DEF b, part
  <2>. QED BY <1>2, <1>3, SumsRenamed
<1>. QED BY <1>2, <1>3, <1>4

\* The differences of successive values add up to the last one.
LEMMA SumTelescopes ==
  ASSUME NEW n, NEW f, NEW g, Summable(f, 1..n), Steps(g, f, n)
  PROVE  SumFunction(f) = g[n]
<1>1. PICK it : Sums(it, f, 1..n) /\ SumFunction(f) = it[1..n]
  BY SumOf
<1>. QED BY <1>1, SumsTelescope

\* The sum over what the elements of a set stand for, one for each.
LEMMA SumRenamed ==
  ASSUME NEW S, NEW T, NEW f, NEW g, NEW b, Summable(f, S), Summable(g, T),
         Renames(b, S, T, f, g), StoodFor(b, S) = T
  PROVE  SumFunction(f) = SumFunction(g)
<1>1. PICK it : Sums(it, f, S) /\ SumFunction(f) = it[S]
  BY SumOf
<1>2. PICK jt : Sums(jt, g, T) /\ SumFunction(g) = jt[T]
  BY SumOf
<1>3. it[S] = jt[StoodFor(b, S)]
  BY <1>1, <1>2, SumsRenamed
<1>. QED BY <1>1, <1>2, <1>3

\* g holds, for every key, the sum over the elements of S that have it.
Groups(f, S, g, K, key) ==
  /\ \A x \in S : key[x] \in K
  /\ \A k \in K : g[k] = SumFunction([x \in WithKey(S, key, k) |-> f[x]])

\* A sum of sums, one for every key, is the sum of all.
LEMMA SumByKey ==
  ASSUME NEW S, NEW f, NEW K, NEW g, NEW key, Summable(f, S), Summable(g, K), Groups(f, S, g, K, key)
  PROVE  SumFunction(f) = SumFunction(g)
<1>1. PICK it : Sums(it, f, S) /\ SumFunction(f) = it[S]
  BY SumOf
<1>2. PICK kt : Sums(kt, g, K) /\ SumFunction(g) = kt[K]
  BY SumOf
<1>3. ASSUME NEW k \in K PROVE g[k] = it[WithKey(S, key, k)]
  <2>. DEFINE s == WithKey(S, key, k)
  <2>1. s \in SUBSET S /\ g[k] = SumFunction([x \in s |-> f[x]])
    BY DEF Groups, WithKey
  <2>. HIDE DEF s
  <2>2. SumFunction([x \in s |-> f[x]]) = it[s]
    BY <1>1, <2>1, SumOfPart
  <2>. QED BY <2>1, <2>2 DEF s
<1>4. \A x \in S : key[x] \in K
  BY DEF Groups
<1>5. it[S] = kt[K]
  BY <1>1, <1>2, <1>3, <1>4, SumsByKey
<1>. QED BY <1>1, <1>2, <1>5

-----------------------------------------------------------------------------
(* What FoldLeft goes by: the greatest index                               *)

\* Every set of positions of a sequence has a greatest one.
LEMMA Greatest ==
  ASSUME NEW n \in Nat, NEW s \in SUBSET (1..n), s # {}
  PROVE  Max(s) \in s /\ \A y \in s : y <= Max(s)
<1>. DEFINE Has(x) == \E m \in x : \A y \in x : m >= y
            Good == {k \in 0..n : \A x \in SUBSET (1..k) : x # {} => Has(x)}
<1>1. 0 \in Good
  <2>1. \A x \in SUBSET (1..0) : x = {}
    OBVIOUS
  <2>2. 0 \in 0..n
    OBVIOUS
  <2>. HIDE DEF Has
  <2>. QED BY <2>1, <2>2
<1>2. ASSUME NEW k \in 0..(n - 1), k \in Good PROVE k + 1 \in Good
  <2>1. ASSUME NEW x \in SUBSET (1..(k + 1)), x # {} PROVE Has(x)
    <3>1. CASE k + 1 \in x
      BY <3>1
    <3>2. CASE k + 1 \notin x
      <4>1. \A y \in x : y \in 1..k
        BY <3>2
      <4>2. x \in SUBSET (1..k)
        BY <4>1
      <4>. HIDE DEF Has
      <4>. QED BY <1>2, <2>1, <4>2
    <3>. QED BY <3>1, <3>2
  <2>2. k + 1 \in 0..n
    OBVIOUS
  <2>. HIDE DEF Has
  <2>. QED BY <2>1, <2>2
<1>3. 0..n \subseteq Good
  <2>. HIDE DEF Good
  <2>. QED BY <1>1, <1>2, UpTo
<1>4. Has(s)
  <2>. HIDE DEF Has
  <2>. QED BY <1>3
<1>5. \A x, y \in s : x >= y <=> y <= x
  OBVIOUS
<1>. QED BY <1>4, <1>5 DEF Max

\* The greatest of the first positions is the last of them.
LEMMA GreatestOfFirst ==
  ASSUME NEW k \in Nat \ {0}
  PROVE  Max(1..k) = k /\ (1..k) \ {k} = 1..(k - 1)
<1>1. Max(1..k) \in 1..k /\ \A y \in 1..k : y <= Max(1..k)
  <2>. DEFINE s == 1..k
  <2>1. s # {} /\ s \in SUBSET (1..k)
    OBVIOUS
  <2>. HIDE DEF s
  <2>2. Max(s) \in s /\ \A y \in s : y <= Max(s)
    BY <2>1, Greatest
  <2>. QED BY <2>2 DEF s
<1>2. Max(1..k) = k
  <2>. DEFINE m == Max(1..k)
  <2>1. m \in 1..k /\ k <= m
    BY <1>1
  <2>. HIDE DEF m
  <2>2. m = k
    BY <2>1
  <2>. QED BY <2>2 DEF m
<1>3. \A y : y \in (1..k) \ {k} <=> y \in 1..(k - 1)
  OBVIOUS
<1>. QED BY <1>2, <1>3

\* iter is computed as FoldLeft does it, whose steps take the greatest index.
Folds(iter, n, base, step, V) ==
  /\ n \in Nat /\ base \in V /\ step \in [(1..n) \X V -> V]
  /\ iter[{}] = base
  /\ \A s \in SUBSET (1..n) :
       s # {} /\ iter[s \ {Max(s)}] \in V => iter[s] = step[<<Max(s), iter[s \ {Max(s)}]>>]

\* The values that a fold comes to, element by element.
Come(acc, n, base, step, V) ==
  /\ acc \in [0..n -> V] /\ acc[0] = base
  /\ \A k \in 1..n : acc[k] = step[<<k, acc[k - 1]>>]

\* A fold goes through the elements one by one.
LEMMA FoldSteps ==
  ASSUME NEW n, NEW V, NEW base, NEW step, NEW iter, Folds(iter, n, base, step, V)
  PROVE  \E acc : Come(acc, n, base, step, V) /\ acc[n] = iter[1..n]
<1>0. n \in Nat /\ base \in V /\ step \in [(1..n) \X V -> V]
  BY DEF Folds
<1>. DEFINE acc == [k \in 0..n |-> iter[1..k]]
            Good == {k \in 0..n : acc[k] \in V /\ (k # 0 => acc[k] = step[<<k, acc[k - 1]>>])}
<1>1. acc[0] = base
  <2>1. 1..0 = {} /\ 0 \in 0..n
    BY <1>0
  <2>. QED BY <2>1 DEF Folds
<1>2. ASSUME NEW k \in 1..n, acc[k - 1] \in V PROVE acc[k] = step[<<k, acc[k - 1]>>]
  <2>. DEFINE s == 1..k
  <2>1. s \in SUBSET (1..n) /\ s # {} /\ Max(s) = k /\ s \ {k} = 1..(k - 1)
    BY <1>0, GreatestOfFirst
  <2>2. acc[k - 1] = iter[1..(k - 1)] /\ acc[k] = iter[s]
    BY <1>0
  <2>. HIDE DEF s, acc
  <2>. QED BY <1>2, <2>1, <2>2 DEF Folds
<1>. HIDE DEF acc
<1>3. 0 \in Good
  BY <1>0, <1>1
<1>4. ASSUME NEW k \in 0..(n - 1), k \in Good PROVE k + 1 \in Good
  <2>1. k + 1 \in 1..n /\ k + 1 \in 0..n /\ (k + 1) - 1 = k /\ acc[k] \in V
    BY <1>0, <1>4
  <2>2. acc[k + 1] = step[<<k + 1, acc[k]>>]
    BY <1>2, <2>1
  <2>. QED BY <1>0, <2>1, <2>2
<1>5. 0..n \subseteq Good
  <2>. HIDE DEF Good
  <2>. QED BY <1>0, <1>3, <1>4, UpTo
<1>6. acc \in [0..n -> V]
  BY <1>5 DEF acc
<1>7. acc[n] = iter[1..n]
  BY <1>0 DEF acc
<1>8. \A k \in 1..n : acc[k] = step[<<k, acc[k - 1]>>]
  BY <1>0, <1>5
<1>. QED BY <1>1, <1>6, <1>7, <1>8 DEF Come
=============================================================================
