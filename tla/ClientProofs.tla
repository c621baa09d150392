---------------------------- MODULE ClientProofs ----------------------------
(***************************************************************************)
(* Proofs about module Client: what Query promises, for any number of      *)
(* goroutines, ECUs and PIDs, any batch size, and answers lost, refused,   *)
(* damaged or meant for another tester any number of times.                *)
(*                                                                         *)
(* The induction theorems of the library take an operator, which no prover *)
(* at hand can instantiate.  Induction and recursion over the natural      *)
(* numbers are stated here for sets and functions; they rest on the        *)
(* library's theorem that the finite sets are well-founded by inclusion.   *)
(***************************************************************************)
EXTENDS Client, Integers, FiniteSets, FiniteSetTheorems, Sequences,
        SequencesExt, SequenceTheorems, WellFoundedInduction, TLAPS

-----------------------------------------------------------------------------
(* Induction over the natural numbers                                      *)

\* A set of natural numbers that is not empty has a least member.
LEMMA Least ==
  ASSUME NEW S \in SUBSET Nat, S # {}
  PROVE  \E n \in S : \A m \in S : n <= m
<1>1. PICK k \in S : TRUE
  OBVIOUS
<1> DEFINE T == {1 .. n : n \in {m \in S : m <= k}}
           D == 1 .. k
<1>2. IsFiniteSet(D) /\ FiniteSubsetsOf(D) = SUBSET D
  BY <1>1, FS_Interval, FS_FiniteSubsetsOfFinite
<1>3. IsWellFoundedOn(StrictSubsetOrdering(D), SUBSET D)
  BY <1>2, FS_StrictSubsetOrderingWellFounded
<1>4. T \subseteq SUBSET D /\ T # {}
  BY <1>1
<1>5. \E x \in T : \A y \in T : <<y, x>> \notin StrictSubsetOrdering(D)
  <2> HIDE DEF T, D
  <2> QED BY <1>3, <1>4, WFMin
<1>6. PICK x \in T : \A y \in T : <<y, x>> \notin StrictSubsetOrdering(D)
  BY <1>5
<1>7. PICK n \in S : n <= k /\ x = 1 .. n
  BY <1>6
<1>8. ASSUME NEW m \in S, m < n PROVE FALSE
  <2>1. 1 .. m \in T
    BY <1>1, <1>7, <1>8
  <2>2. <<1 .. m, x>> \notin StrictSubsetOrdering(D)
    BY <2>1, <1>6
  <2>3. /\ 1 .. m \subseteq D /\ x \subseteq D
        /\ 1 .. m \subseteq x /\ n \in x /\ n \notin 1 .. m
    BY <1>1, <1>7, <1>8
  <2> QED BY <2>2, <2>3 DEF StrictSubsetOrdering
<1> QED BY <1>7, <1>8

\* And one that has no number above N has a greatest.
LEMMA Greatest ==
  ASSUME NEW N \in Nat, NEW S \in SUBSET (0 .. N), S # {}
  PROVE  \E n \in S : \A m \in S : m <= n
<1> DEFINE T == {k \in 0 .. N : N - k \in S}
<1>1. T \in SUBSET Nat /\ T # {}
  <2>1. PICK m \in S : TRUE
    OBVIOUS
  <2>2. m \in 0 .. N
    OBVIOUS
  <2>3. N - m \in 0 .. N /\ N - (N - m) = m
    BY ONLY <2>2, N \in Nat
  <2>4. N - m \in T
    BY <2>3
  <2>5. T \subseteq Nat
    OBVIOUS
  <2> HIDE DEF T
  <2> QED BY <2>4, <2>5
<1>2. PICK k \in T : \A j \in T : k <= j
  <2> HIDE DEF T
  <2> QED BY <1>1, Least
<1>3. ASSUME NEW m \in S PROVE m <= N - k
  <2>1. m \in 0 .. N /\ N - m \in 0 .. N /\ N - (N - m) = m
    OBVIOUS
  <2>2. N - m \in T
    BY <2>1
  <2> QED BY <1>2, <2>1, <2>2
<1> QED BY <1>2, <1>3

\* Induction: a set that has 0 and with n has n + 1 has every number.
LEMMA Induction ==
  ASSUME NEW S, 0 \in S, \A n \in Nat : n \in S => n + 1 \in S
  PROVE  Nat \subseteq S
<1> SUFFICES ASSUME Nat \ S # {} PROVE FALSE
  OBVIOUS
<1>1. PICK n \in Nat \ S : \A m \in Nat \ S : n <= m
  BY Least
<1>2. n # 0 /\ n - 1 \in Nat /\ n - 1 \in S /\ (n - 1) + 1 = n
  BY <1>1
<1> QED BY <1>1, <1>2

\* A function on 0 .. N that is given at 0 and from each number to the next
\* exists.
Recursive(f, b, g, n) ==
  f[0] = b /\ \A i \in 1 .. n : f[i] = g[i][f[i - 1]]

LEMMA Recursion ==
  ASSUME NEW N \in Nat, NEW V, NEW b \in V, NEW g \in [1 .. N -> [V -> V]]
  PROVE  \E f \in [0 .. N -> V] : Recursive(f, b, g, N)
<1> DEFINE S == {n \in Nat : n <= N =>
                   \E f \in [0 .. n -> V] : Recursive(f, b, g, n)}
<1>1. 0 \in S
  <2>1. [i \in 0 .. 0 |-> b] \in [0 .. 0 -> V]
    OBVIOUS
  <2>2. Recursive([i \in 0 .. 0 |-> b], b, g, 0)
    BY DEF Recursive
  <2> QED BY <2>1, <2>2
<1>2. ASSUME NEW n \in Nat, n \in S PROVE n + 1 \in S
  <2> SUFFICES ASSUME n + 1 <= N
               PROVE  \E f \in [0 .. n + 1 -> V] : Recursive(f, b, g, n + 1)
    OBVIOUS
  <2>1. PICK f \in [0 .. n -> V] : Recursive(f, b, g, n)
    BY <1>2
  <2> DEFINE h == [i \in 0 .. n + 1 |->
                     IF i = n + 1 THEN g[n + 1][f[n]] ELSE f[i]]
  <2>2. h \in [0 .. n + 1 -> V]
    <3>1. n \in 0 .. n /\ n + 1 \in 1 .. N
      OBVIOUS
    <3>2. g[n + 1][f[n]] \in V
      BY <3>1
    <3>3. \A i \in 0 .. n + 1 : i # n + 1 => i \in 0 .. n
      OBVIOUS
    <3> QED BY <3>2, <3>3
  <2>3. h[0] = b
    BY <2>1 DEF Recursive
  <2>4. ASSUME NEW i \in 1 .. n + 1 PROVE h[i] = g[i][h[i - 1]]
    <3>1. i - 1 \in 0 .. n + 1 /\ i \in 0 .. n + 1 /\ i - 1 # n + 1
      OBVIOUS
    <3>2. h[i - 1] = f[i - 1]
      BY <3>1
    <3>3. CASE i = n + 1
      <4>1. i - 1 = n
        BY <3>3
      <4> QED BY <3>1, <3>2, <3>3, <4>1
    <3>4. CASE i # n + 1
      <4>1. i \in 1 .. n
        BY <3>4
      <4>2. h[i] = f[i]
        BY <3>1, <3>4
      <4> HIDE DEF h
      <4> QED BY <2>1, <3>2, <4>1, <4>2 DEF Recursive
    <3> QED BY <3>3, <3>4
  <2> HIDE DEF h
  <2> QED BY <2>2, <2>3, <2>4 DEF Recursive
<1>3. N \in S
  <2> HIDE DEF S
  <2> QED BY <1>1, <1>2, Induction
<1> QED BY <1>3

-----------------------------------------------------------------------------
(* FlattenSeq                                                              *)

Flattening(q, F) ==
  F = [i \in 1 .. Len(q) |-> IF i = 1 THEN q[i] ELSE F[i - 1] \o q[i]]

\* The function by which FlattenSeq is defined exists.
LEMMA FlatteningExists ==
  ASSUME NEW X, NEW q \in Seq(Seq(X))
  PROVE  \E F : Flattening(q, F)
<1> DEFINE N == Len(q)
           g == [i \in 1 .. N |-> [t \in Seq(X) |-> t \o q[i]]]
<1>1. N \in Nat /\ <<>> \in Seq(X) /\ \A i \in 1 .. N : q[i] \in Seq(X)
  OBVIOUS
<1>2. g \in [1 .. N -> [Seq(X) -> Seq(X)]]
  BY <1>1, ConcatProperties
<1>3. PICK f \in [0 .. N -> Seq(X)] : Recursive(f, <<>>, g, N)
  <2> HIDE DEF g, N
  <2> QED BY <1>1, <1>2, Recursion
<1> DEFINE F == [i \in 1 .. N |-> f[i]]
<1>4. ASSUME NEW i \in 1 .. N
      PROVE  f[i] = IF i = 1 THEN q[i] ELSE F[i - 1] \o q[i]
  <2>1. i - 1 \in 0 .. N
    BY <1>1
  <2>2. f[i] = f[i - 1] \o q[i]
    BY <1>3, <2>1 DEF Recursive
  <2>3. CASE i = 1
    <3>1. f[i] = <<>> \o q[i]
      <4>1. i - 1 = 0 /\ f[0] = <<>>
        BY <1>3, <2>3 DEF Recursive
      <4> QED BY <2>2, <4>1
    <3>2. \A t \in Seq(X) : <<>> \o t = t
      BY ConcatEmptySeq
    <3>3. q[i] \in Seq(X)
      BY <1>1
    <3> QED BY ONLY <2>3, <3>1, <3>2, <3>3
  <2>4. CASE i # 1
    <3>1. i - 1 \in 1 .. N
      BY <1>1, <2>4
    <3> QED BY <2>2, <2>4, <3>1
  <2> QED BY <2>3, <2>4
<1>5. Flattening(q, F)
  BY <1>4 DEF Flattening
<1> QED BY <1>5

\* FlattenSeq has the elements of all its sequences, and no others.
LEMMA FlattenElements ==
  ASSUME NEW X, NEW q \in Seq(Seq(X))
  PROVE  /\ FlattenSeq(q) \in Seq(X)
         /\ ToSet(FlattenSeq(q)) = UNION {ToSet(q[i]) : i \in 1 .. Len(q)}
<1>1. Len(q) \in Nat /\ \A i \in 1 .. Len(q) : q[i] \in Seq(X)
  OBVIOUS
<1>2. CASE Len(q) = 0
  <2>1. FlattenSeq(q) = q
    BY <1>2 DEF FlattenSeq
  <2>2. q = <<>>
    BY <1>2, EmptySeq
  <2> QED BY <2>1, <2>2 DEF ToSet
<1>3. CASE Len(q) # 0
  <2> DEFINE F == CHOOSE F : Flattening(q, F)
             R(i) == UNION {ToSet(q[j]) : j \in 1 .. i}
             S == {n \in Nat : n + 1 <= Len(q) =>
                     F[n + 1] \in Seq(X) /\ ToSet(F[n + 1]) = R(n + 1)}
  <2>1. Flattening(q, F)
    <3> HIDE DEF F
    <3>1. \E G : Flattening(q, G)
      BY FlatteningExists
    <3> QED BY ZenonT(30), <3>1 DEF F
  <2>2. FlattenSeq(q) = F[Len(q)]
    BY Zenon, <1>3 DEF FlattenSeq, Flattening
  <2> HIDE DEF F
  <2>3. 0 \in S
    <3>1. 1 \in 1 .. Len(q) /\ 1 .. 0 + 1 = {1}
      BY <1>1, <1>3
    <3>2. F[1] = q[1]
      BY <2>1, <3>1 DEF Flattening
    <3> QED BY <1>1, <3>1, <3>2
  <2>4. ASSUME NEW n \in Nat, n \in S PROVE n + 1 \in S
    <3> SUFFICES ASSUME n + 2 <= Len(q)
                 PROVE  F[n + 2] \in Seq(X) /\ ToSet(F[n + 2]) = R(n + 2)
      <4>1. (n + 1) + 1 = n + 2
        OBVIOUS
      <4> QED BY <4>1
    <3>1. /\ n + 2 \in 1 .. Len(q) /\ n + 2 # 1 /\ (n + 2) - 1 = n + 1
          /\ 1 .. n + 2 = (1 .. n + 1) \cup {n + 2} /\ n + 1 <= Len(q)
      BY <1>1
    <3>2. F[n + 2] = F[n + 1] \o q[n + 2]
      BY <2>1, <3>1 DEF Flattening
    <3>3. F[n + 1] \in Seq(X) /\ ToSet(F[n + 1]) = R(n + 1)
      BY <2>4, <3>1
    <3>4. \A s, t \in Seq(X) : s \o t \in Seq(X)
                               /\ ToSet(s \o t) = ToSet(s) \cup ToSet(t)
      <4> SUFFICES ASSUME NEW s \in Seq(X), NEW t \in Seq(X)
                   PROVE  s \o t \in Seq(X)
                          /\ ToSet(s \o t) = ToSet(s) \cup ToSet(t)
        OBVIOUS
      <4>1. \A u \in Seq(X) : ToSet(u) = {u[i] : i \in 1 .. Len(u)}
        BY DEF ToSet
      <4>2. /\ s \o t \in Seq(X) /\ Len(s \o t) = Len(s) + Len(t)
            /\ Len(s) \in Nat /\ Len(t) \in Nat
            /\ \A i \in 1 .. Len(s) + Len(t) :
                 (s \o t)[i] = IF i <= Len(s) THEN s[i] ELSE t[i - Len(s)]
        BY ConcatProperties
      <4>3. \A i \in 1 .. Len(s) : i \in 1 .. Len(s) + Len(t)
                                  /\ (s \o t)[i] = s[i]
        BY <4>2
      <4>4. \A i \in 1 .. Len(t) :
              /\ Len(s) + i \in 1 .. Len(s) + Len(t)
              /\ (s \o t)[Len(s) + i] = t[i]
        BY <4>2
      <4>5. \A i \in 1 .. Len(s) + Len(t) :
              \/ i \in 1 .. Len(s) /\ (s \o t)[i] = s[i]
              \/ /\ i - Len(s) \in 1 .. Len(t)
                 /\ (s \o t)[i] = t[i - Len(s)]
        BY <4>2
      <4>6. ToSet(s \o t) \subseteq ToSet(s) \cup ToSet(t)
        <5>1. /\ ToSet(s) = {s[i] : i \in 1 .. Len(s)}
              /\ ToSet(t) = {t[i] : i \in 1 .. Len(t)}
              /\ ToSet(s \o t) =
                   {(s \o t)[i] : i \in 1 .. Len(s) + Len(t)}
          BY <4>1, <4>2
        <5>2. \A i \in 1 .. Len(s) + Len(t) :
                (s \o t)[i] \in ToSet(s) \cup ToSet(t)
          BY ONLY <4>5, <5>1
        <5> QED BY ONLY <5>1, <5>2
      <4>7. ToSet(s) \cup ToSet(t) \subseteq ToSet(s \o t)
        <5>1. /\ ToSet(s) = {s[i] : i \in 1 .. Len(s)}
              /\ ToSet(t) = {t[i] : i \in 1 .. Len(t)}
              /\ ToSet(s \o t) =
                   {(s \o t)[i] : i \in 1 .. Len(s) + Len(t)}
          BY <4>1, <4>2
        <5>2. /\ \A i \in 1 .. Len(s) : s[i] \in ToSet(s \o t)
              /\ \A i \in 1 .. Len(t) : t[i] \in ToSet(s \o t)
          BY ONLY <4>3, <4>4, <5>1
        <5> QED BY ONLY <5>1, <5>2
      <4> QED BY <4>2, <4>6, <4>7
    <3>5. q[n + 2] \in Seq(X)
      BY <1>1, <3>1
    <3>6. R(n + 2) = R(n + 1) \cup ToSet(q[n + 2])
      BY <3>1
    <3> HIDE DEF R
    <3> QED BY <3>2, <3>3, <3>4, <3>5, <3>6
  <2>5. Nat \subseteq S
    <3> HIDE DEF S
    <3> QED BY <2>3, <2>4, Induction
  <2>6. Len(q) - 1 \in Nat /\ (Len(q) - 1) + 1 = Len(q)
    BY <1>1, <1>3
  <2>7. Len(q) - 1 \in S
    <3> HIDE DEF S
    <3> QED BY <2>5, <2>6
  <2>8. F[Len(q)] \in Seq(X) /\ ToSet(F[Len(q)]) = R(Len(q))
    BY <2>6, <2>7
  <2> QED BY <2>2, <2>8
<1> QED BY <1>2, <1>3

-----------------------------------------------------------------------------
(* Those                                                                   *)

Selecting(s, S, F) ==
  F = [n \in 0 .. Len(s) |->
         IF n = 0 THEN <<>>
         ELSE IF s[n] \in S THEN Append(F[n - 1], s[n]) ELSE F[n - 1]]

LEMMA SelectingExists ==
  ASSUME NEW X, NEW s \in Seq(X), NEW S
  PROVE  \E F : Selecting(s, S, F)
<1> DEFINE N == Len(s)
           g == [i \in 1 .. N |-> [t \in Seq(X) |->
                   IF s[i] \in S THEN Append(t, s[i]) ELSE t]]
<1>1. N \in Nat /\ <<>> \in Seq(X) /\ \A i \in 1 .. N : s[i] \in X
  OBVIOUS
<1>2. g \in [1 .. N -> [Seq(X) -> Seq(X)]]
  BY <1>1, AppendProperties
<1>3. PICK f \in [0 .. N -> Seq(X)] : Recursive(f, <<>>, g, N)
  <2> HIDE DEF g, N
  <2> QED BY <1>1, <1>2, Recursion
<1>4. ASSUME NEW n \in 0 .. N
      PROVE  f[n] = IF n = 0 THEN <<>>
                    ELSE IF s[n] \in S THEN Append(f[n - 1], s[n])
                         ELSE f[n - 1]
  <2>1. CASE n = 0
    BY <1>3, <2>1 DEF Recursive
  <2>2. CASE n # 0
    <3>1. n \in 1 .. N /\ n - 1 \in 0 .. N
      BY <1>1, <2>2
    <3>2. f[n] = g[n][f[n - 1]] /\ f[n - 1] \in Seq(X)
      BY <1>3, <3>1 DEF Recursive
    <3> QED BY <2>2, <3>1, <3>2
  <2> QED BY <2>1, <2>2
<1>5. f = [n \in 0 .. N |-> f[n]]
  OBVIOUS
<1>6. Selecting(s, S, f)
  BY <1>4, <1>5 DEF Selecting
<1> QED BY <1>6

\* What is true of Those when n members of s were looked at.
Selected(X, s, S, n, t) ==
  /\ t \in Seq(X) /\ Len(t) <= n
  /\ {t[i] : i \in 1 .. Len(t)} = {s[j] : j \in 1 .. n} \cap S

LEMMA SelectedNext ==
  ASSUME NEW X, NEW s \in Seq(X), NEW S, NEW n \in Nat, n + 1 <= Len(s),
         NEW t, Selected(X, s, S, n, t)
  PROVE  Selected(X, s, S, n + 1,
                  IF s[n + 1] \in S THEN Append(t, s[n + 1]) ELSE t)
<1> DEFINE R(k) == {s[j] : j \in 1 .. k} \cap S
<1>1. /\ 1 .. n + 1 = (1 .. n) \cup {n + 1} /\ s[n + 1] \in X
      /\ t \in Seq(X) /\ Len(t) \in Nat /\ Len(t) <= n
      /\ {t[i] : i \in 1 .. Len(t)} = R(n)
  <2>1. 1 .. n + 1 = (1 .. n) \cup {n + 1} /\ n + 1 \in 1 .. Len(s)
    OBVIOUS
  <2>2. t \in Seq(X) /\ Len(t) <= n /\ {t[i] : i \in 1 .. Len(t)} = R(n)
    BY DEF Selected
  <2>3. s[n + 1] \in X /\ Len(t) \in Nat
    BY <2>1, <2>2
  <2> QED BY <2>1, <2>2, <2>3
<1>2. R(n + 1) = IF s[n + 1] \in S THEN R(n) \cup {s[n + 1]} ELSE R(n)
  BY <1>1
<1>3. \A x \in X :
        /\ Append(t, x) \in Seq(X) /\ Len(Append(t, x)) = Len(t) + 1
        /\ {Append(t, x)[i] : i \in 1 .. Len(Append(t, x))}
             = {t[i] : i \in 1 .. Len(t)} \cup {x}
  <2> SUFFICES ASSUME NEW x \in X
               PROVE  /\ Append(t, x) \in Seq(X)
                      /\ Len(Append(t, x)) = Len(t) + 1
                      /\ {Append(t, x)[i] : i \in 1 .. Len(Append(t, x))}
                           = {t[i] : i \in 1 .. Len(t)} \cup {x}
    OBVIOUS
  <2>1. t \in Seq(X) /\ Len(t) \in Nat
    BY <1>1
  <2>2. /\ Append(t, x) \in Seq(X) /\ Len(Append(t, x)) = Len(t) + 1
        /\ \A i \in 1 .. Len(t) : Append(t, x)[i] = t[i]
        /\ Append(t, x)[Len(t) + 1] = x
    BY <2>1, AppendProperties
  <2>3. 1 .. Len(t) + 1 = (1 .. Len(t)) \cup {Len(t) + 1}
    BY <2>1
  <2> QED BY <2>2, <2>3
<1>4. CASE s[n + 1] \in S
  <2>1. Append(t, s[n + 1]) \in Seq(X)
        /\ Len(Append(t, s[n + 1])) <= n + 1
    BY <1>1, <1>3
  <2>2. {Append(t, s[n + 1])[i] : i \in 1 .. Len(Append(t, s[n + 1]))}
          = R(n + 1)
    <3> HIDE DEF R
    <3> QED BY <1>1, <1>2, <1>3, <1>4
  <2> QED BY <1>4, <2>1, <2>2 DEF Selected
<1>5. CASE s[n + 1] \notin S
  <2>1. {t[i] : i \in 1 .. Len(t)} = R(n + 1)
    <3> HIDE DEF R
    <3> QED BY <1>1, <1>2, <1>5
  <2> QED BY <1>1, <1>5, <2>1 DEF Selected
<1> QED BY <1>4, <1>5

\* Those(s, S) is made of the members of s that are in S.
LEMMA ThoseElements ==
  ASSUME NEW X, NEW s \in Seq(X), NEW S
  PROVE  /\ Those(s, S) \in Seq(X)
         /\ ToSet(Those(s, S)) = ToSet(s) \cap S
         /\ Len(Those(s, S)) <= Len(s)
<1> DEFINE F == CHOOSE F : Selecting(s, S, F)
           T == {n \in Nat : n <= Len(s) => Selected(X, s, S, n, F[n])}
<1>1. Selecting(s, S, F)
  <2> HIDE DEF F
  <2>1. \E G : Selecting(s, S, G)
    BY SelectingExists
  <2> QED BY ZenonT(30), <2>1 DEF F
<1>2. Those(s, S) = F[Len(s)]
  BY Zenon DEF Those, Selecting
<1> HIDE DEF F
<1>3. Len(s) \in Nat
  OBVIOUS
<1>4. 0 \in T
  <2>1. F[0] = <<>>
    <3>1. 0 \in 0 .. Len(s)
      BY <1>3
    <3> QED BY <1>1, <3>1 DEF Selecting
  <2>2. Selected(X, s, S, 0, <<>>)
    BY DEF Selected
  <2> QED BY <2>1, <2>2
<1>5. ASSUME NEW n \in Nat, n \in T PROVE n + 1 \in T
  <2>1. ASSUME n + 1 <= Len(s) PROVE Selected(X, s, S, n + 1, F[n + 1])
    <3>1. n + 1 \in 0 .. Len(s) /\ n + 1 # 0 /\ (n + 1) - 1 = n
      BY <1>3, <2>1
    <3>2. F[n + 1] = IF s[n + 1] \in S THEN Append(F[n], s[n + 1]) ELSE F[n]
      BY <1>1, <3>1 DEF Selecting
    <3>3. Selected(X, s, S, n, F[n])
      BY <1>3, <1>5, <2>1
    <3> QED BY <2>1, <3>2, <3>3, SelectedNext
  <2> QED BY <2>1
<1>6. Len(s) \in T
  <2> HIDE DEF T
  <2> QED BY <1>3, <1>4, <1>5, Induction
<1>7. Selected(X, s, S, Len(s), F[Len(s)])
  BY <1>3, <1>6
<1>8. \A t \in Seq(X) : ToSet(t) = {t[i] : i \in 1 .. Len(t)}
  BY DEF ToSet
<1> QED BY <1>2, <1>7, <1>8 DEF Selected


-----------------------------------------------------------------------------
(* KeepFirst                                                               *)

Reading == [pid : Nat, ecu : Nat]

Keeping(asked, s, F) ==
  F = [n \in 0 .. Len(s) |->
         IF n = 0 THEN <<>> ELSE Keep(asked, F[n - 1], s[n])]

LEMMA KeepingExists ==
  ASSUME NEW asked, NEW s \in Seq(Reading)
  PROVE  \E F : Keeping(asked, s, F)
<1> DEFINE N == Len(s)
           V == Seq(Reading)
           g == [i \in 1 .. N |-> [t \in V |-> Keep(asked, t, s[i])]]
<1>1. N \in Nat /\ <<>> \in V /\ \A i \in 1 .. N : s[i] \in Reading
  OBVIOUS
<1>2. g \in [1 .. N -> [V -> V]]
  <2>1. \A t \in V : \A x \in Reading : Keep(asked, t, x) \in V
    BY AppendProperties DEF Keep
  <2> QED BY <1>1, <2>1
<1>3. PICK f \in [0 .. N -> V] : Recursive(f, <<>>, g, N)
  <2> HIDE DEF g, N, V
  <2> QED BY <1>1, <1>2, Recursion
<1>4. ASSUME NEW n \in 0 .. N
      PROVE  f[n] = IF n = 0 THEN <<>> ELSE Keep(asked, f[n - 1], s[n])
  <2>1. CASE n = 0
    BY <1>3, <2>1 DEF Recursive
  <2>2. CASE n # 0
    <3>1. n \in 1 .. N /\ n - 1 \in 0 .. N
      BY <1>1, <2>2
    <3>2. f[n] = g[n][f[n - 1]] /\ f[n - 1] \in V
      BY <1>3, <3>1 DEF Recursive
    <3> QED BY <2>2, <3>1, <3>2
  <2> QED BY <2>1, <2>2
<1>5. f = [n \in 0 .. N |-> f[n]]
  OBVIOUS
<1>6. Keeping(asked, s, f)
  BY <1>4, <1>5 DEF Keeping
<1> QED BY <1>6

\* No two readings of the same PID and ECU.
Distinct(t) ==
  \A i, j \in 1 .. Len(t) : i # j => ~SameKey(t[i], t[j])

\* What is true of KeepFirst when n readings were looked at.
Kept(asked, s, n, t) ==
  /\ t \in Seq(Reading)
  /\ \A i \in 1 .. Len(t) : Contains(asked, t[i].pid)
  /\ Distinct(t)
  /\ \A i \in 1 .. n : Contains(asked, s[i].pid) => Holds(t, s[i])

LEMMA KeptNext ==
  ASSUME NEW asked, NEW s \in Seq(Reading), NEW n \in Nat,
         n + 1 <= Len(s), NEW t, Kept(asked, s, n, t)
  PROVE  Kept(asked, s, n + 1, Keep(asked, t, s[n + 1]))
<1> DEFINE x == s[n + 1]
<1>1. /\ 1 .. n + 1 = (1 .. n) \cup {n + 1} /\ x \in Reading
      /\ t \in Seq(Reading) /\ Len(t) \in Nat
  BY DEF Kept
<1>2. CASE Contains(asked, x.pid) /\ ~Holds(t, x)
  <2> DEFINE u == Append(t, x)
  <2>1. /\ u \in Seq(Reading) /\ Len(u) = Len(t) + 1
        /\ \A i \in 1 .. Len(t) : u[i] = t[i] /\ i \in 1 .. Len(u)
        /\ u[Len(t) + 1] = x /\ Len(t) + 1 \in 1 .. Len(u)
        /\ \A i \in 1 .. Len(u) : i \in 1 .. Len(t) \/ i = Len(t) + 1
    BY <1>1, AppendProperties
  <2> HIDE DEF u
  <2>2. \A i \in 1 .. Len(u) : Contains(asked, u[i].pid)
    BY <1>2, <2>1 DEF Kept
  <2>3. Distinct(u)
    <3>1. \A i \in 1 .. Len(t) : ~SameKey(t[i], x) /\ ~SameKey(x, t[i])
      BY <1>2 DEF Holds, SameKey
    <3>2. Distinct(t)
      BY DEF Kept
    <3> QED BY <2>1, <3>1, <3>2 DEF Distinct
  <2>4. \A y : Holds(t, y) => Holds(u, y)
    BY <2>1 DEF Holds
  <2>5. Holds(u, x)
    BY <2>1 DEF Holds, SameKey
  <2>6. \A i \in 1 .. n + 1 : Contains(asked, s[i].pid) => Holds(u, s[i])
    BY <1>1, <2>4, <2>5 DEF Kept
  <2>7. Keep(asked, t, x) = u
    BY <1>2 DEF Keep, u
  <2> HIDE DEF x
  <2> QED BY <2>1, <2>2, <2>3, <2>6, <2>7 DEF Kept, x
<1>3. CASE ~(Contains(asked, x.pid) /\ ~Holds(t, x))
  <2>1. Keep(asked, t, x) = t
    BY <1>3 DEF Keep
  <2>2. \A i \in 1 .. n + 1 : Contains(asked, s[i].pid) => Holds(t, s[i])
    BY <1>1, <1>3 DEF Kept
  <2> QED BY <2>1, <2>2 DEF Kept
<1> QED BY <1>2, <1>3

\* KeepFirst has a reading of every PID asked for and every ECU that gave
\* one, and never two.
LEMMA KeepFirstElements ==
  ASSUME NEW asked, NEW s \in Seq(Reading)
  PROVE  Kept(asked, s, Len(s), KeepFirst(asked, s))
<1> DEFINE F == CHOOSE F : Keeping(asked, s, F)
           T == {n \in Nat : n <= Len(s) => Kept(asked, s, n, F[n])}
<1>1. Keeping(asked, s, F)
  <2> HIDE DEF F
  <2>1. \E G : Keeping(asked, s, G)
    BY KeepingExists
  <2> QED BY ZenonT(30), <2>1 DEF F
<1>2. KeepFirst(asked, s) = F[Len(s)]
  BY Zenon DEF KeepFirst, Keeping
<1> HIDE DEF F
<1>3. Len(s) \in Nat
  OBVIOUS
<1>4. 0 \in T
  <2>1. F[0] = <<>>
    <3>1. 0 \in 0 .. Len(s)
      BY <1>3
    <3> QED BY <1>1, <3>1 DEF Keeping
  <2>2. Kept(asked, s, 0, <<>>)
    BY DEF Kept, Distinct
  <2> QED BY <2>1, <2>2
<1>5. ASSUME NEW n \in Nat, n \in T PROVE n + 1 \in T
  <2>1. ASSUME n + 1 <= Len(s) PROVE Kept(asked, s, n + 1, F[n + 1])
    <3>1. n + 1 \in 0 .. Len(s) /\ n + 1 # 0 /\ (n + 1) - 1 = n
      BY <1>3, <2>1
    <3>2. F[n + 1] = Keep(asked, F[n], s[n + 1])
      BY <1>1, <3>1 DEF Keeping
    <3>3. Kept(asked, s, n, F[n])
      BY <1>3, <1>5, <2>1
    <3> QED BY <2>1, <3>2, <3>3, KeptNext
  <2> QED BY <2>1
<1>6. Len(s) \in T
  <2> HIDE DEF T
  <2> QED BY <1>3, <1>4, <1>5, Induction
<1> QED BY <1>2, <1>3, <1>6


-----------------------------------------------------------------------------
(* service01                                                               *)

Resp == [kind : {"positive", "refusal"}, groups : Seq(Nat),
         cut : BOOLEAN, own : BOOLEAN]
Item == [ecu : Nat, r : Resp]

\* What may come back when asked is asked for: a positive response has data,
\* and one that is meant for us and whole has what was asked for only.
Fair(asked, r) ==
  /\ r.kind = "positive" => r.groups # <<>>
  /\ r.kind = "refusal" => r.groups = <<>>
  /\ r.own /\ ~r.cut => /\ ToSet(r.groups) \subseteq ToSet(asked)
                        /\ Len(r.groups) <= Len(asked)

Askable(asked) ==
  /\ asked \in Seq(Nat) /\ asked # <<>>
  /\ Len(asked) > 1 => ToSet(asked) \subseteq Known

\* parseReadings gives a reading for each group up to the one that takes the
\* rest of the data, which is the last when there is none such.
LEMMA ParseElements ==
  ASSUME NEW e \in Nat, NEW r \in Resp, r.groups # <<>>,
         NEW single \in BOOLEAN
  PROVE  \E last \in 1 .. Len(r.groups) :
           /\ ParseReadings(e, r, single)
                = [i \in 1 .. last |-> [pid |-> r.groups[i], ecu |-> e]]
           /\ TakesAll(r.groups, single) = {} => last = Len(r.groups)
<1> DEFINE g == r.groups
           all == TakesAll(g, single)
           least == CHOOSE i \in all : \A j \in all : i <= j
<1>1. g \in Seq(Nat) /\ Len(g) \in Nat \ {0} /\ all \subseteq 1 .. Len(g)
  <2>1. g \in Seq(Nat)
    BY DEF Resp
  <2>2. Len(g) \in Nat \ {0}
    BY <2>1, EmptySeq
  <2> QED BY <2>1, <2>2 DEF TakesAll
<1>2. CASE all = {}
  <2>1. ParseReadings(e, r, single)
          = [i \in 1 .. Len(g) |-> [pid |-> g[i], ecu |-> e]]
    BY <1>2 DEF ParseReadings
  <2> QED BY <1>1, <2>1
<1>3. CASE all # {}
  <2> HIDE DEF all
  <2>1. \E i \in all : \A j \in all : i <= j
    BY <1>1, <1>3, Least
  <2>2. least \in all
    BY <2>1
  <2> HIDE DEF least
  <2>3. ParseReadings(e, r, single)
          = [i \in 1 .. least |-> [pid |-> g[i], ecu |-> e]]
    BY <1>3 DEF ParseReadings, all, least
  <2> QED BY <1>1, <1>3, <2>2, <2>3 DEF all
<1> QED BY <1>2, <1>3

\* What is derived of it: the readings are of this ECU, the first is that of
\* the first group, and a whole answer of ours gives one for each group.
LEMMA ParseGives ==
  ASSUME NEW asked, Askable(asked), NEW x \in Item, Fair(asked, x.r),
         x.r.groups # <<>>
  PROVE  LET p == ParseReadings(x.ecu, x.r, Len(asked) = 1)
         IN /\ p \in Seq(Reading)
            /\ \E y \in ToSet(p) : y.pid = x.r.groups[1]
            /\ x.r.own /\ ~x.r.cut =>
                 \A q \in ToSet(x.r.groups) :
                   [pid |-> q, ecu |-> x.ecu] \in ToSet(p)
<1> DEFINE g == x.r.groups
           p == ParseReadings(x.ecu, x.r, Len(asked) = 1)
<1>1. x.ecu \in Nat /\ x.r \in Resp /\ g \in Seq(Nat) /\ asked \in Seq(Nat)
      /\ (Len(asked) = 1) \in BOOLEAN
  BY DEF Item, Resp, Askable
<1>2. PICK last \in 1 .. Len(g) :
        /\ p = [i \in 1 .. last |-> [pid |-> g[i], ecu |-> x.ecu]]
        /\ TakesAll(g, Len(asked) = 1) = {} => last = Len(g)
  BY <1>1, ParseElements
<1> HIDE DEF p
<1>3. Len(g) \in Nat /\ last \in Nat /\ \A i \in 1 .. Len(g) : g[i] \in Nat
  <2>1. \A q \in Seq(Nat) :
          Len(q) \in Nat /\ \A i \in 1 .. Len(q) : q[i] \in Nat
    OBVIOUS
  <2>2. Len(g) \in Nat /\ \A i \in 1 .. Len(g) : g[i] \in Nat
    BY <1>1, <2>1
  <2>3. last \in 1 .. Len(g)
    OBVIOUS
  <2> QED BY <2>2, <2>3
<1>4. \A i \in 1 .. last : [pid |-> g[i], ecu |-> x.ecu] \in ToSet(p)
  <2>1. DOMAIN p = 1 .. last
        /\ \A i \in 1 .. last : p[i] = [pid |-> g[i], ecu |-> x.ecu]
    BY <1>2
  <2>2. \A i \in 1 .. last : p[i] \in ToSet(p)
    BY <2>1 DEF ToSet
  <2> QED BY <2>1, <2>2
<1>5. p \in Seq(Reading)
  <2>1. \A i \in 1 .. last : [pid |-> g[i], ecu |-> x.ecu] \in Reading
    BY <1>1, <1>2, <1>3 DEF Reading
  <2> QED BY <1>2, <1>3, <2>1
<1>6. \E y \in ToSet(p) : y.pid = g[1]
  <2>1. 1 \in 1 .. last
    BY <1>3
  <2>2. [pid |-> g[1], ecu |-> x.ecu] \in ToSet(p)
    BY <1>4, <2>1
  <2> QED BY <2>2
<1>7. ASSUME x.r.own, ~x.r.cut, NEW q \in ToSet(g)
      PROVE  [pid |-> q, ecu |-> x.ecu] \in ToSet(p)
  <2>1. PICK i \in 1 .. Len(g) : q = g[i]
    BY <1>1 DEF ToSet
  <2>2. last = Len(g)
    <3>1. ToSet(g) \subseteq ToSet(asked) /\ Len(g) <= Len(asked)
      BY <1>7 DEF Fair
    <3>2. CASE Len(asked) = 1
      BY <1>2, <1>3, <3>1, <3>2
    <3>3. CASE Len(asked) # 1
      <4>1. Len(asked) > 1
        <5>1. Len(asked) \in Nat \ {0}
          <6>1. asked \in Seq(Nat) /\ asked # <<>>
            BY DEF Askable
          <6> QED BY <6>1, EmptySeq
        <5>2. \A n \in Nat \ {0} : n # 1 => n > 1
          OBVIOUS
        <5> QED BY ONLY <3>3, <5>1, <5>2
      <4>2. \A j \in 1 .. Len(g) : g[j] \in Known
        <5>1. ToSet(g) \subseteq Known
          BY <3>1, <4>1 DEF Askable
        <5>2. \A j \in 1 .. Len(g) : g[j] \in ToSet(g)
          <6>1. \A u \in Seq(Nat) : \A j \in 1 .. Len(u) : u[j] \in ToSet(u)
            BY DEF ToSet
          <6> QED BY <1>1, <6>1
        <5> QED BY <5>1, <5>2
      <4>3. TakesAll(g, Len(asked) = 1) = {}
        BY <3>3, <4>2 DEF TakesAll
      <4> QED BY <1>2, <4>3
    <3> QED BY <3>2, <3>3
  <2>3. i \in 1 .. last
    BY <2>2
  <2> QED BY <1>4, <2>1, <2>3
<1> QED BY <1>5, <1>6, <1>7 DEF p


\* The parts of Service01.
Positives(all) == {i \in 1 .. Len(all) : all[i].r.kind = "positive"}
Bads(asked, all) ==
  {i \in Positives(all) : Malformed(all[i].r, Len(asked) = 1)}
Pieces(asked, all) ==
  [i \in 1 .. Len(all) |->
     IF i \in Positives(all) \ Bads(asked, all)
     THEN ParseReadings(all[i].ecu, all[i].r, Len(asked) = 1) ELSE <<>>]
ReadingsOf(asked, all) == FlattenSeq(Pieces(asked, all))

\* What comes back to Request and is let pass.
Heard(asked, all) ==
  /\ all \in Seq(Item)
  /\ \A i \in 1 .. Len(all) : /\ Fair(asked, all[i].r)
                              /\ Answers(asked, all[i].r)

LEMMA PieceGives ==
  ASSUME NEW asked, Askable(asked), NEW all, Heard(asked, all),
         NEW i \in Positives(all) \ Bads(asked, all)
  PROVE  LET p == Pieces(asked, all)[i]
             x == all[i]
         IN /\ p \in Seq(Reading)
            /\ \E y \in ToSet(p) : Contains(asked, y.pid)
            /\ x.r.own /\ ~x.r.cut =>
                 \A q \in ToSet(x.r.groups) :
                   [pid |-> q, ecu |-> x.ecu] \in ToSet(p)
<1> DEFINE x == all[i]
           p == ParseReadings(x.ecu, x.r, Len(asked) = 1)
<1>1. i \in 1 .. Len(all) /\ x.r.kind = "positive"
  BY DEF Positives
<1>2. x \in Item /\ Fair(asked, x.r) /\ Answers(asked, x.r)
  BY <1>1 DEF Heard
<1>3. x.r.groups # <<>>
  BY <1>1, <1>2 DEF Fair
<1>4. Pieces(asked, all)[i] = p
  BY <1>1 DEF Pieces
<1>5. \E j \in 1 .. Len(asked) : asked[j] = x.r.groups[1]
  BY <1>1, <1>2 DEF Answers
<1>6. /\ p \in Seq(Reading)
      /\ \E y \in ToSet(p) : y.pid = x.r.groups[1]
      /\ x.r.own /\ ~x.r.cut =>
           \A q \in ToSet(x.r.groups) :
             [pid |-> q, ecu |-> x.ecu] \in ToSet(p)
  <2> HIDE DEF x
  <2> QED BY <1>2, <1>3, ParseGives
<1> HIDE DEF p, x
<1>7. \E y \in ToSet(p) : Contains(asked, y.pid)
  BY <1>5, <1>6 DEF Contains
<1> QED BY <1>4, <1>6, <1>7 DEF x

\* The readings of a request are those of its good answers.
LEMMA ReadingsGive ==
  ASSUME NEW asked, Askable(asked), NEW all, Heard(asked, all)
  PROVE  LET rs == ReadingsOf(asked, all)
         IN /\ rs \in Seq(Reading)
            /\ \A i \in Positives(all) \ Bads(asked, all) :
                 ToSet(Pieces(asked, all)[i]) \subseteq ToSet(rs)
<1> DEFINE ps == Pieces(asked, all)
           rs == ReadingsOf(asked, all)
<1>1. all \in Seq(Item) /\ Len(all) \in Nat
  BY DEF Heard
<1>2. \A i \in 1 .. Len(all) : ps[i] \in Seq(Reading)
  <2> SUFFICES ASSUME NEW i \in 1 .. Len(all) PROVE ps[i] \in Seq(Reading)
    OBVIOUS
  <2>1. CASE i \in Positives(all) \ Bads(asked, all)
    BY <2>1, PieceGives
  <2>2. CASE i \notin Positives(all) \ Bads(asked, all)
    BY <2>2 DEF Pieces
  <2> QED BY <2>1, <2>2
<1>3. ps \in Seq(Seq(Reading)) /\ Len(ps) = Len(all)
  <2>1. ps = [i \in 1 .. Len(all) |-> ps[i]]
    BY DEF Pieces
  <2>2. ps \in [1 .. Len(all) -> Seq(Reading)]
    <3> HIDE DEF ps
    <3> QED BY <1>2, <2>1
  <2> HIDE DEF ps
  <2> QED BY <1>1, <2>2
<1>4. /\ rs \in Seq(Reading)
      /\ ToSet(rs) = UNION {ToSet(ps[i]) : i \in 1 .. Len(ps)}
  <2> HIDE DEF ps
  <2>1. rs = FlattenSeq(ps)
    BY DEF ReadingsOf, ps
  <2> QED BY <1>3, <2>1, FlattenElements
<1>5. Positives(all) \subseteq 1 .. Len(ps)
  BY <1>3 DEF Positives
<1> HIDE DEF ps, rs
<1>6. \A i \in Positives(all) \ Bads(asked, all) :
        ToSet(ps[i]) \subseteq ToSet(rs)
  BY <1>4, <1>5
<1> QED BY <1>4, <1>6 DEF ps, rs

\* All but the refusals without a code.
Says(all) == {i \in 1 .. Len(all) : ~(all[i].r.kind = "refusal"
                                        /\ all[i].r.cut)}

\* What service01 makes of the answers let pass.
ServiceGives(asked, all, res) ==
  /\ res.out \in Seq(Reading) /\ Distinct(res.out)
  /\ \A i \in 1 .. Len(res.out) : Contains(asked, res.out[i].pid)
  /\ res.err \in {"nil", "error", "noResponse"}
  /\ res.err = "noResponse" => Says(all) = {}
  /\ res.err = "nil" =>
       \A i \in 1 .. Len(all) : all[i].r.own /\ ~all[i].r.cut =>
         \A q \in ToSet(all[i].r.groups) :
           Holds(res.out, [pid |-> q, ecu |-> all[i].ecu])

LEMMA ServiceIs ==
  ASSUME NEW asked, Askable(asked), NEW all, Heard(asked, all)
  PROVE  ServiceGives(asked, all, Service01(asked, all))
<1> DEFINE rs == ReadingsOf(asked, all)
           pos == Positives(all)
           bad == Bads(asked, all)
           refusals == {i \in 1 .. Len(all) : Refuses(all[i].r)}
           kept == KeepFirst(asked, rs)
           res == Service01(asked, all)
<1>1. /\ res.out = kept
      /\ res.err = IF kept # <<>> THEN "nil"
                   ELSE IF bad # {} \/ (pos = {} /\ refusals # {})
                   THEN "error"
                   ELSE "noResponse"
  BY DEF Service01, ReadingsOf, Pieces, Positives, Bads
<1> HIDE DEF res
<1>2. /\ rs \in Seq(Reading)
      /\ \A i \in pos \ bad :
           ToSet(Pieces(asked, all)[i]) \subseteq ToSet(rs)
  BY ReadingsGive
<1> HIDE DEF rs
<1>3. Kept(asked, rs, Len(rs), kept)
  BY <1>2, KeepFirstElements
<1> HIDE DEF kept, pos, bad
<1>4. \A y \in ToSet(rs) : Contains(asked, y.pid) => Holds(kept, y)
  <2>1. \A y \in ToSet(rs) : \E i \in 1 .. Len(rs) : rs[i] = y
    BY <1>2 DEF ToSet
  <2> QED BY <1>3, <2>1 DEF Kept
<1>5. ASSUME NEW i \in pos \ bad PROVE kept # <<>>
  <2>1. \E y \in ToSet(Pieces(asked, all)[i]) : Contains(asked, y.pid)
    BY PieceGives DEF pos, bad
  <2>2. \E y : Holds(kept, y)
    BY <1>2, <1>4, <2>1
  <2> QED BY <2>2 DEF Holds
<1>6. ASSUME NEW i \in 1 .. Len(all), all[i].r.own, ~all[i].r.cut,
             NEW q \in ToSet(all[i].r.groups)
      PROVE  Holds(kept, [pid |-> q, ecu |-> all[i].ecu])
  <2>1. all[i] \in Item /\ Fair(asked, all[i].r)
    BY DEF Heard
  <2>2. all[i].r \in Resp
    BY <2>1 DEF Item
  <2>3. all[i].r.kind = "positive"
    <3>1. all[i].r.groups # <<>>
      BY <1>6 DEF ToSet
    <3> QED BY <2>1, <2>2, <3>1 DEF Fair, Resp
  <2>4. i \in pos /\ i \notin bad
    BY <1>6, <2>3 DEF pos, bad, Positives, Bads, Malformed
  <2>5. [pid |-> q, ecu |-> all[i].ecu] \in ToSet(Pieces(asked, all)[i])
    BY <1>6, <2>4, PieceGives DEF pos, bad
  <2>6. [pid |-> q, ecu |-> all[i].ecu] \in ToSet(rs)
    BY <1>2, <2>4, <2>5
  <2>7. Contains(asked, q)
    <3>1. q \in ToSet(asked)
      BY <1>6, <2>1 DEF Fair
    <3> QED BY <3>1 DEF Askable, ToSet, Contains
  <2> QED BY <1>4, <2>6, <2>7
<1>7. ASSUME res.err = "noResponse" PROVE Says(all) = {}
  <2>1. bad = {} /\ pos = {} /\ refusals = {}
    BY <1>1, <1>5, <1>7
  <2>2. ASSUME NEW i \in Says(all) PROVE FALSE
    <3>1. i \in 1 .. Len(all) /\ all[i].r.kind \in {"positive", "refusal"}
      <4>1. i \in 1 .. Len(all)
        BY <2>2 DEF Says
      <4>2. all[i] \in Item
        BY <4>1 DEF Heard
      <4>3. all[i].r \in Resp
        BY <4>2 DEF Item
      <4> QED BY <4>1, <4>3 DEF Resp
    <3>2. all[i].r.kind # "positive"
      BY <2>1, <3>1 DEF pos, Positives
    <3>3. all[i].r.kind = "refusal" /\ ~all[i].r.cut
      BY <2>2, <3>1, <3>2 DEF Says
    <3> QED BY <2>1, <3>1, <3>3 DEF Refuses
  <2> QED BY <2>2
<1>8. /\ kept \in Seq(Reading) /\ Distinct(kept)
      /\ \A i \in 1 .. Len(kept) : Contains(asked, kept[i].pid)
  BY <1>3 DEF Kept
<1>9. res.err \in {"nil", "error", "noResponse"}
  BY <1>1
<1>10. ServiceGives(asked, all, res)
  BY <1>1, <1>6, <1>7, <1>8, <1>9 DEF ServiceGives
<1> QED BY <1>10 DEF res


-----------------------------------------------------------------------------
(* What the ECUs send                                                      *)

LEMMA HasIs ==
  ASSUME NEW e, NEW asked \in Seq(Nat)
  PROVE  /\ Has(e, asked) \in Seq(Nat)
         /\ ToSet(Has(e, asked)) \subseteq ToSet(asked)
         /\ Len(Has(e, asked)) <= Len(asked)
  BY ThoseElements DEF Has

\* A sequence of responses that may come back when asked is asked for.
FairSeq(asked, s) ==
  s \in Seq(Resp) /\ \A i \in 1 .. Len(s) : Fair(asked, s[i])

LEMMA FairConcat ==
  ASSUME NEW asked, NEW s, NEW t, FairSeq(asked, s), FairSeq(asked, t)
  PROVE  FairSeq(asked, s \o t)
<1>1. s \in Seq(Resp) /\ t \in Seq(Resp)
  BY DEF FairSeq
<1>2. /\ s \o t \in Seq(Resp) /\ Len(s \o t) = Len(s) + Len(t)
      /\ Len(s) \in Nat /\ Len(t) \in Nat
      /\ \A i \in 1 .. Len(s) + Len(t) :
           (s \o t)[i] = IF i <= Len(s) THEN s[i] ELSE t[i - Len(s)]
  BY <1>1, ConcatProperties
<1>3. ASSUME NEW i \in 1 .. Len(s) + Len(t) PROVE Fair(asked, (s \o t)[i])
  <2>1. CASE i <= Len(s)
    <3>1. i \in 1 .. Len(s) /\ (s \o t)[i] = s[i]
      BY <1>2, <2>1
    <3> QED BY <3>1 DEF FairSeq
  <2>2. CASE ~(i <= Len(s))
    <3>1. i - Len(s) \in 1 .. Len(t) /\ (s \o t)[i] = t[i - Len(s)]
      BY <1>2, <2>2
    <3> QED BY <3>1 DEF FairSeq
  <2> QED BY <2>1, <2>2
<1> QED BY <1>2, <1>3 DEF FairSeq

LEMMA FairOne ==
  ASSUME NEW asked, NEW r \in Resp, Fair(asked, r)
  PROVE  FairSeq(asked, <<r>>)
  BY DEF FairSeq

LEMMA PlainIsFair ==
  ASSUME NEW e, NEW asked \in Seq(Nat)
  PROVE  FairSeq(asked, Plain(e, asked))
<1> DEFINE h == Has(e, asked)
           r == Positive(h, FALSE, TRUE)
<1>1. h \in Seq(Nat) /\ ToSet(h) \subseteq ToSet(asked) /\ Len(h) <= Len(asked)
  BY HasIs
<1> HIDE DEF h
<1>2. CASE h = <<>>
  BY <1>2 DEF Plain, FairSeq, h
<1>3. CASE h # <<>>
  <2>1. r \in Resp /\ Fair(asked, r)
    BY <1>1, <1>3 DEF Positive, Resp, Fair
  <2>2. Plain(e, asked) = <<r>>
    BY <1>3 DEF Plain, h
  <2> HIDE DEF r
  <2> QED BY <2>1, <2>2, FairOne
<1> QED BY <1>2, <1>3

LEMMA QuirkyIsFair ==
  ASSUME NEW e, NEW asked \in Seq(Nat), NEW s \in Quirky(e, asked)
  PROVE  FairSeq(asked, s)
<1> DEFINE foreign == {Positive(Has(e, g), FALSE, FALSE) :
                         g \in {h \in Foreign : Has(e, h) # <<>>}}
<1>1. ASSUME NEW f \in foreign PROVE FairSeq(asked, <<f>>)
  <2>1. PICK g \in Foreign : /\ Has(e, g) # <<>>
                             /\ f = Positive(Has(e, g), FALSE, FALSE)
    BY <1>1
  <2>2. Has(e, g) \in Seq(Nat)
    BY QueriesAssumption, HasIs
  <2>3. f \in Resp /\ Fair(asked, f)
    BY <2>1, <2>2 DEF Positive, Resp, Fair
  <2> QED BY <2>3, FairOne
<1>2. /\ FairSeq(asked, <<>>) /\ FairSeq(asked, <<Refusal(FALSE)>>)
      /\ FairSeq(asked, <<Refusal(TRUE)>>)
  <2>1. ASSUME NEW cut \in BOOLEAN
        PROVE  Refusal(cut) \in Resp /\ Fair(asked, Refusal(cut))
    BY DEF Refusal, Resp, Fair, ToSet
  <2>2. FairSeq(asked, <<>>)
    BY DEF FairSeq
  <2> QED BY <2>1, <2>2, FairOne
<1>3. ASSUME NEW g \in {Has(e, asked)} \ {<<>>}
      PROVE  FairSeq(asked, <<Positive(g, TRUE, TRUE)>>)
  <2>1. g \in Seq(Nat) /\ g # <<>>
    BY HasIs
  <2>2. Positive(g, TRUE, TRUE) \in Resp
        /\ Fair(asked, Positive(g, TRUE, TRUE))
    BY <2>1 DEF Positive, Resp, Fair
  <2> QED BY <2>2, FairOne
<1>4. \/ s = <<>> \/ s = <<Refusal(FALSE)>> \/ s = <<Refusal(TRUE)>>
      \/ \E g \in {Has(e, asked)} \ {<<>>} : s = <<Positive(g, TRUE, TRUE)>>
      \/ \E f \in foreign : s = <<f>> \o Plain(e, asked)
      \/ \E f \in foreign : s = Plain(e, asked) \o <<f>>
  BY DEF Quirky
<1> HIDE DEF foreign
<1>5. CASE \E f \in foreign : s = <<f>> \o Plain(e, asked)
  BY <1>1, <1>5, PlainIsFair, FairConcat
<1>6. CASE \E f \in foreign : s = Plain(e, asked) \o <<f>>
  BY <1>1, <1>6, PlainIsFair, FairConcat
<1> QED BY <1>2, <1>3, <1>4, <1>5, <1>6

\* The responses of all ECUs, and those let pass.
LEMMA ByEcuIs ==
  ASSUME NEW asked, NEW rs, \A e \in Ecu : FairSeq(asked, rs[e])
  PROVE  /\ ByEcu(rs) \in Seq(Item)
         /\ \A x \in ToSet(ByEcu(rs)) : Fair(asked, x.r)
<1> DEFINE q == [i \in 1 .. Len(EcuOrder) |->
                   [j \in 1 .. Len(rs[EcuOrder[i]]) |->
                      [ecu |-> EcuOrder[i], r |-> rs[EcuOrder[i]][j]]]]
           FairItem == {x \in Item : Fair(asked, x.r)}
<1>1. /\ Len(EcuOrder) \in Nat
      /\ \A i \in 1 .. Len(EcuOrder) : EcuOrder[i] \in Nat
                                       /\ EcuOrder[i] \in Ecu
  BY EcuAssumption DEF Ecu, ToSet
<1>2. ASSUME NEW i \in 1 .. Len(EcuOrder)
      PROVE  [j \in 1 .. Len(rs[EcuOrder[i]]) |->
                [ecu |-> EcuOrder[i], r |-> rs[EcuOrder[i]][j]]]
               \in Seq(FairItem)
  <2> DEFINE e == EcuOrder[i]
  <2>1. e \in Nat /\ FairSeq(asked, rs[e])
    BY <1>1
  <2> HIDE DEF e
  <2>2. /\ rs[e] \in Seq(Resp) /\ Len(rs[e]) \in Nat
        /\ \A j \in 1 .. Len(rs[e]) : rs[e][j] \in Resp
                                      /\ Fair(asked, rs[e][j])
    BY <2>1 DEF FairSeq
  <2>3. \A j \in 1 .. Len(rs[e]) : [ecu |-> e, r |-> rs[e][j]] \in FairItem
    BY <2>1, <2>2 DEF Item
  <2> HIDE DEF FairItem
  <2>4. [j \in 1 .. Len(rs[e]) |-> [ecu |-> e, r |-> rs[e][j]]]
          \in Seq(FairItem)
    BY <2>2, <2>3
  <2> QED BY <2>4 DEF e
<1>3. q \in Seq(Seq(FairItem))
  <2> HIDE DEF FairItem
  <2> QED BY <1>1, <1>2
<1>4. ByEcu(rs) = FlattenSeq(q)
  BY DEF ByEcu
<1> HIDE DEF q, FairItem
<1>5. ByEcu(rs) \in Seq(FairItem)
  BY <1>3, <1>4, FlattenElements
<1>6. \A x \in ToSet(ByEcu(rs)) : x \in FairItem
  BY <1>5 DEF ToSet
<1> QED BY <1>5, <1>6, SeqMonotonic DEF FairItem

LEMMA AnsweringIs ==
  ASSUME NEW asked, NEW rs, \A e \in Ecu : FairSeq(asked, rs[e])
  PROVE  Heard(asked, Answering(asked, ByEcu(rs)))
<1> DEFINE s == ByEcu(rs)
           S == {x \in ToSet(s) : Answers(asked, x.r)}
           all == Answering(asked, s)
<1>1. s \in Seq(Item) /\ \A x \in ToSet(s) : Fair(asked, x.r)
  BY ByEcuIs
<1>2. all = Those(s, S)
  BY DEF Answering
<1> HIDE DEF s, all
<1>3. all \in Seq(Item) /\ ToSet(all) = ToSet(s) \cap S
  <2> HIDE DEF S
  <2> QED BY <1>1, <1>2, ThoseElements
<1>4. \A i \in 1 .. Len(all) : all[i] \in ToSet(all)
  BY <1>3 DEF ToSet
<1>5. \A i \in 1 .. Len(all) :
        Fair(asked, all[i].r) /\ Answers(asked, all[i].r)
  BY <1>1, <1>3, <1>4
<1> QED BY <1>3, <1>5 DEF Heard, all, s


-----------------------------------------------------------------------------
(* The invariant                                                           *)

TypeOK ==
  /\ vehicle \in Vehicles /\ proto \in {"unknown", vehicle}
  /\ pc \in [Caller -> {"idle", "batch", "ask"}]
  /\ pids \in [Caller -> Seq(Nat)] /\ rest \in [Caller -> Seq(Nat)]
  /\ batch \in [Caller -> Seq(Nat)] /\ out \in [Caller -> Seq(Reading)]
  /\ answered \in [Caller -> BOOLEAN]
  /\ ret \in [Caller -> {"none", "ok", "noResponse", "error"}]
  /\ owed \in [Caller -> SUBSET (Nat \X Nat)]
  /\ heard \in [Caller -> SUBSET Nat]
  /\ calls \in Nat /\ quirks \in Nat

\* The PIDs of a request of several have a size, so that the answer can be
\* taken apart; and it is legal.
BatchInv(b) ==
  Len(b) > 1 => /\ vehicle = "can" /\ Combines /\ Len(b) <= MaxBatch
                /\ ToSet(b) \subseteq Known

\* The PIDs that were answered or not, those asked for, and those left are
\* the argument of Query, in its order.
Taken(q, r) == Len(q) - Len(r)
Asked(q, r, b, p) == Taken(q, r) - (IF p = "ask" THEN Len(b) ELSE 0)

PlaceInv(q, r, b, p) ==
  /\ IsInjective(q)
  /\ p # "idle" =>
       /\ Len(r) <= Len(q)
       /\ \A i \in 1 .. Len(r) : r[i] = q[Taken(q, r) + i]
  /\ p = "ask" =>
       /\ b # <<>> /\ Len(b) <= Taken(q, r)
       /\ \A i \in 1 .. Len(b) : b[i] = q[Asked(q, r, b, p) + i]

\* The readings so far are of PIDs that were asked for, and those of
\* different requests of different ones.
OutInv(s, q, r, b, p) ==
  p # "idle" =>
    /\ Distinct(s)
    /\ \A i \in 1 .. Len(s) :
         \E k \in 1 .. Asked(q, r, b, p) : q[k] = s[i].pid

\* While a Query is under way what it owes is there.
Complete(s, o) == \A x \in o : Holds(s, [pid |-> x[1], ecu |-> x[2]])
OwedInv(c) ==
  pc[c] # "idle" => /\ Complete(out[c], owed[c])
                    /\ heard[c] # {} => answered[c]
                    /\ ret[c] = "none"

Sorted(q, s) ==
  \A i, j \in 1 .. Len(s) : i < j =>
    LET x == Place(q, s[i].pid)
        y == Place(q, s[j].pid)
    IN x < y \/ (x = y /\ s[i].ecu < s[j].ecu)

Returned(c) ==
  /\ ret[c] = "ok" => Complete(out[c], owed[c]) /\ Sorted(pids[c], out[c])
  /\ ret[c] = "noResponse" => heard[c] = {}

CallerInv(c) ==
  /\ BatchInv(batch[c])
  /\ PlaceInv(pids[c], rest[c], batch[c], pc[c])
  /\ OutInv(out[c], pids[c], rest[c], batch[c], pc[c])
  /\ OwedInv(c)
  /\ Returned(c)

IInv == TypeOK /\ \A c \in Caller : CallerInv(c)

LEMMA InitInv == Init => IInv
<1> SUFFICES ASSUME Init PROVE IInv
  OBVIOUS
<1>1. TypeOK
  BY DEF Init, TypeOK
<1>2. ASSUME NEW c \in Caller PROVE CallerInv(c)
  <2>1. /\ pc[c] = "idle" /\ pids[c] = <<>> /\ batch[c] = <<>>
        /\ ret[c] = "none"
    BY DEF Init
  <2>2. IsInjective(<<>>)
    BY DEF IsInjective
  <2> QED BY <2>1, <2>2 DEF CallerInv, BatchInv, PlaceInv, OutInv, OwedInv,
                            Returned
<1> QED BY <1>1, <1>2 DEF IInv

\* A step leaves alone all that a caller has.
Same(c) ==
  /\ vehicle' = vehicle /\ pc'[c] = pc[c] /\ pids'[c] = pids[c]
  /\ rest'[c] = rest[c] /\ batch'[c] = batch[c] /\ out'[c] = out[c]
  /\ answered'[c] = answered[c] /\ ret'[c] = ret[c] /\ owed'[c] = owed[c]
  /\ heard'[c] = heard[c]

LEMMA SameInv ==
  ASSUME NEW c \in Caller, CallerInv(c), Same(c)
  PROVE  CallerInv(c)'
<1>1. BatchInv(batch[c])'
  BY DEF CallerInv, BatchInv, Same
<1>2. PlaceInv(pids[c], rest[c], batch[c], pc[c])'
  BY DEF CallerInv, PlaceInv, Same, Taken, Asked
<1>3. OutInv(out[c], pids[c], rest[c], batch[c], pc[c])'
  BY DEF CallerInv, OutInv, Same, Taken, Asked
<1>4. OwedInv(c)'
  BY DEF CallerInv, OwedInv, Same
<1>5. Returned(c)'
  BY DEF CallerInv, Returned, Same
<1> QED BY <1>1, <1>2, <1>3, <1>4, <1>5 DEF CallerInv

-----------------------------------------------------------------------------
(* Batch                                                                   *)

\* A request is never empty, and one of several PIDs is legal.
LEMMA BatchSizeIs ==
  ASSUME NEW r \in Seq(Nat), r # <<>>
  PROVE  /\ BatchSize(r) \in 1 .. Len(r)
         /\ BatchSize(r) # 1 =>
              /\ proto = "can" /\ Combines /\ BatchSize(r) <= MaxBatch
              /\ \A i \in 1 .. BatchSize(r) : r[i] \in Known
<1>1. Len(r) \in Nat \ {0}
  BY EmptySeq
<1>2. CASE proto # "can" \/ ~Combines \/ Fits(r) = {}
  BY <1>1, <1>2 DEF BatchSize
<1>3. CASE ~(proto # "can" \/ ~Combines \/ Fits(r) = {})
  <2> DEFINE S == Fits(r)
  <2>1. S \in SUBSET (0 .. Len(r)) /\ S # {}
    BY <1>1, <1>3 DEF Fits, UpTo
  <2>2. BatchSize(r) = Largest(S)
    BY <1>3 DEF BatchSize
  <2> HIDE DEF S
  <2>3. \E n \in S : \A m \in S : m <= n
    BY <1>1, <2>1, Greatest
  <2>4. Largest(S) \in S
    BY <2>3 DEF Largest
  <2>5. Largest(S) \in UpTo(r)
        /\ \A i \in 1 .. Largest(S) : r[i] \in Known
    BY <2>4 DEF S, Fits
  <2> QED BY <1>3, <2>2, <2>5 DEF UpTo
<1> QED BY <1>2, <1>3

\* What is taken and what is left.
LEMMA TakeIs ==
  ASSUME NEW r \in Seq(Nat), NEW n \in 1 .. Len(r)
  PROVE  /\ SubSeq(r, 1, n) \in Seq(Nat) /\ Len(SubSeq(r, 1, n)) = n
         /\ \A i \in 1 .. n : SubSeq(r, 1, n)[i] = r[i]
         /\ Left(r, n) \in Seq(Nat) /\ Len(Left(r, n)) = Len(r) - n
         /\ \A i \in 1 .. Len(r) - n : Left(r, n)[i] = r[n + i]
<1>1. Len(r) \in Nat /\ \A i \in 1 .. Len(r) : r[i] \in Nat
  OBVIOUS
<1>2. /\ SubSeq(r, 1, n) = [i \in 1 .. n |-> r[i]]
      /\ Left(r, n) = [i \in 1 .. Len(r) - n |-> r[n + i]]
  BY <1>1 DEF Left
<1>3. \A i \in 1 .. Len(r) - n : n + i \in 1 .. Len(r)
  BY <1>1
<1>4. Len(r) - n \in Nat /\ n \in Nat
  BY <1>1
<1> QED BY <1>1, <1>2, <1>3, <1>4

LEMMA PlaceBatch ==
  ASSUME NEW q \in Seq(Nat), NEW r \in Seq(Nat), NEW b,
         NEW n \in 1 .. Len(r), PlaceInv(q, r, b, "batch")
  PROVE  /\ PlaceInv(q, Left(r, n), SubSeq(r, 1, n), "ask")
         /\ Asked(q, Left(r, n), SubSeq(r, 1, n), "ask")
              = Asked(q, r, b, "batch")
<1> DEFINE u == SubSeq(r, 1, n)
           w == Left(r, n)
<1>1. /\ u \in Seq(Nat) /\ Len(u) = n /\ \A i \in 1 .. n : u[i] = r[i]
      /\ w \in Seq(Nat) /\ Len(w) = Len(r) - n
      /\ \A i \in 1 .. Len(r) - n : w[i] = r[n + i]
  BY TakeIs
<1> HIDE DEF u, w
<1>2. /\ Len(q) \in Nat /\ Len(r) \in Nat /\ n \in Nat /\ n >= 1
      /\ n <= Len(r)
  OBVIOUS
<1>3. /\ IsInjective(q) /\ Len(r) <= Len(q)
      /\ \A i \in 1 .. Len(r) : r[i] = q[(Len(q) - Len(r)) + i]
  BY DEF PlaceInv, Taken
<1>4. /\ Len(w) <= Len(q) /\ Len(u) <= Len(q) - Len(w) /\ u # <<>>
      /\ (Len(q) - Len(w)) - Len(u) = Len(q) - Len(r)
  <2>1. Len(w) = Len(r) - n /\ Len(u) = n /\ Len(r) <= Len(q)
    BY <1>1, <1>3
  <2>2. u # <<>>
    BY <1>1, <1>2, EmptySeq
  <2> QED BY <1>2, <2>1, <2>2
<1>5. \A i \in 1 .. Len(w) : w[i] = q[(Len(q) - Len(w)) + i]
  <2> SUFFICES ASSUME NEW i \in 1 .. Len(w)
               PROVE  w[i] = q[(Len(q) - Len(w)) + i]
    OBVIOUS
  <2>1. n + i \in 1 .. Len(r) /\ w[i] = r[n + i]
    BY <1>1, <1>2
  <2>2. (Len(q) - Len(r)) + (n + i) = (Len(q) - Len(w)) + i
    BY <1>1, <1>2
  <2>3. r[n + i] = q[(Len(q) - Len(r)) + (n + i)]
    BY <1>3, <2>1
  <2> QED BY <2>1, <2>2, <2>3
<1>6. \A i \in 1 .. Len(u) : u[i] = q[((Len(q) - Len(w)) - Len(u)) + i]
  <2> SUFFICES ASSUME NEW i \in 1 .. Len(u)
               PROVE  u[i] = q[((Len(q) - Len(w)) - Len(u)) + i]
    OBVIOUS
  <2>1. i \in 1 .. Len(r) /\ u[i] = r[i]
    BY <1>1, <1>2
  <2>2. r[i] = q[(Len(q) - Len(r)) + i]
    BY <1>3, <2>1
  <2> QED BY <1>4, <2>1, <2>2
<1>7. PlaceInv(q, w, u, "ask")
  BY <1>3, <1>4, <1>5, <1>6 DEF PlaceInv, Taken, Asked
<1>8. Asked(q, w, u, "ask") = Asked(q, r, b, "batch")
  BY <1>1, <1>2, <1>3 DEF Asked, Taken
<1> QED BY <1>7, <1>8 DEF u, w

LEMMA BatchStep ==
  ASSUME IInv, NEW c \in Caller, Batch(c)
  PROVE  IInv'
<1> DEFINE r == rest[c]
           n == BatchSize(r)
           b == SubSeq(r, 1, n)
           w == Left(r, n)
<1>1. TypeOK /\ \A d \in Caller : CallerInv(d)
  BY DEF IInv
<1>2. /\ pc[c] = "batch" /\ r # <<>>
      /\ batch' = [batch EXCEPT ![c] = b] /\ rest' = [rest EXCEPT ![c] = w]
      /\ pc' = [pc EXCEPT ![c] = "ask"]
      /\ UNCHANGED <<vehicle, proto, pids, out, answered, ret, owed, heard,
                     calls, quirks>>
  BY DEF Batch
<1>3. r \in Seq(Nat) /\ pids[c] \in Seq(Nat)
  BY <1>1 DEF TypeOK
<1>4. /\ n \in 1 .. Len(r)
      /\ n # 1 => /\ proto = "can" /\ Combines /\ n <= MaxBatch
                  /\ \A i \in 1 .. n : r[i] \in Known
  BY <1>2, <1>3, BatchSizeIs
<1> HIDE DEF n
<1>5. /\ b \in Seq(Nat) /\ Len(b) = n /\ \A i \in 1 .. n : b[i] = r[i]
      /\ w \in Seq(Nat)
  BY <1>3, <1>4, TakeIs
<1>6. /\ PlaceInv(pids[c], w, b, "ask")
      /\ Asked(pids[c], w, b, "ask")
           = Asked(pids[c], r, batch[c], "batch")
  <2>1. PlaceInv(pids[c], r, batch[c], "batch")
    BY <1>1, <1>2 DEF CallerInv
  <2> HIDE DEF r
  <2> QED BY <1>3, <1>4, <2>1, PlaceBatch DEF r
<1>7. OutInv(out[c], pids[c], w, b, "ask")
  <2>1. OutInv(out[c], pids[c], r, batch[c], "batch")
    BY <1>1, <1>2 DEF CallerInv
  <2> HIDE DEF r, w, b
  <2> QED BY <1>6, <2>1 DEF OutInv
<1>8. BatchInv(b)
  <2>1. ASSUME Len(b) > 1
        PROVE  /\ vehicle = "can" /\ Combines /\ Len(b) <= MaxBatch
               /\ ToSet(b) \subseteq Known
    <3>1. n # 1
      BY <1>5, <2>1
    <3>2. vehicle = "can"
      BY <1>1, <1>4, <3>1 DEF TypeOK
    <3>3. \A x \in ToSet(b) : \E i \in 1 .. n : x = b[i]
      BY <1>5 DEF ToSet
    <3> QED BY <1>4, <1>5, <3>1, <3>2, <3>3
  <2> HIDE DEF b
  <2> QED BY <2>1 DEF BatchInv
<1> HIDE DEF b, w, r
<1>9. TypeOK'
  BY <1>1, <1>2, <1>5 DEF TypeOK
<1>10. CallerInv(c)'
  <2>1. /\ pids'[c] = pids[c] /\ rest'[c] = w /\ batch'[c] = b
        /\ pc'[c] = "ask" /\ out'[c] = out[c] /\ answered'[c] = answered[c]
        /\ ret'[c] = ret[c] /\ owed'[c] = owed[c] /\ heard'[c] = heard[c]
        /\ vehicle' = vehicle
    BY <1>1, <1>2 DEF TypeOK
  <2>2. BatchInv(batch[c])'
    BY <1>8, <2>1 DEF BatchInv
  <2>3. PlaceInv(pids[c], rest[c], batch[c], pc[c])'
    BY <1>6, <2>1
  <2>4. OutInv(out[c], pids[c], rest[c], batch[c], pc[c])'
    BY <1>7, <2>1
  <2>5. OwedInv(c)'
    BY <1>1, <1>2, <2>1 DEF CallerInv, OwedInv
  <2>6. Returned(c)'
    BY <1>1, <2>1 DEF CallerInv, Returned
  <2> QED BY <2>2, <2>3, <2>4, <2>5, <2>6 DEF CallerInv
<1>11. ASSUME NEW d \in Caller, d # c PROVE CallerInv(d)'
  BY <1>1, <1>2, <1>11, SameInv DEF Same, TypeOK
<1> QED BY <1>9, <1>10, <1>11 DEF IInv

-----------------------------------------------------------------------------
(* Ask                                                                     *)

\* After the answers all that was taken has been asked for.
LEMMA PlaceAsked ==
  ASSUME NEW q, NEW r, NEW b, PlaceInv(q, r, b, "ask")
  PROVE  PlaceInv(q, r, b, "batch") /\ PlaceInv(q, r, b, "idle")
  BY DEF PlaceInv

\* The readings of a request are of PIDs that none before it was about.
LEMMA OutAsked ==
  ASSUME NEW q \in Seq(Nat), NEW r \in Seq(Nat), NEW b \in Seq(Nat),
         NEW s \in Seq(Reading), NEW t \in Seq(Reading),
         PlaceInv(q, r, b, "ask"), OutInv(s, q, r, b, "ask"),
         Distinct(t), \A i \in 1 .. Len(t) : Contains(b, t[i].pid)
  PROVE  /\ OutInv(s, q, r, b, "batch")
         /\ OutInv(s \o t, q, r, b, "batch")
         /\ s \o t \in Seq(Reading)
<1> DEFINE T == Len(q) - Len(r)
           A == T - Len(b)
           u == s \o t
<1>1. /\ Len(q) \in Nat /\ Len(r) \in Nat /\ Len(b) \in Nat
      /\ Len(r) <= Len(q) /\ Len(b) <= T /\ IsInjective(q)
      /\ \A i \in 1 .. Len(b) : b[i] = q[A + i]
  BY DEF PlaceInv, Taken, Asked
<1>2. /\ Asked(q, r, b, "ask") = A
      /\ Asked(q, r, b, "batch") = T
  BY <1>1 DEF Asked, Taken
<1>3. /\ u \in Seq(Reading) /\ Len(u) = Len(s) + Len(t)
      /\ Len(s) \in Nat /\ Len(t) \in Nat
      /\ \A i \in 1 .. Len(s) + Len(t) :
           u[i] = IF i <= Len(s) THEN s[i] ELSE t[i - Len(s)]
  BY ConcatProperties
<1> HIDE DEF u
<1>4. \A i \in 1 .. Len(s) + Len(t) :
        \/ i \in 1 .. Len(s) /\ u[i] = s[i]
        \/ i - Len(s) \in 1 .. Len(t) /\ u[i] = t[i - Len(s)]
  BY <1>3
<1>5. Distinct(s) /\ \A i \in 1 .. Len(s) : \E k \in 1 .. A : q[k] = s[i].pid
  BY <1>2 DEF OutInv
<1>6. \A i \in 1 .. Len(t) : \E k \in A + 1 .. T : q[k] = t[i].pid
  <2> SUFFICES ASSUME NEW i \in 1 .. Len(t)
               PROVE  \E k \in A + 1 .. T : q[k] = t[i].pid
    OBVIOUS
  <2>1. PICK j \in 1 .. Len(b) : b[j] = t[i].pid
    BY DEF Contains
  <2>2. A + j \in A + 1 .. T /\ q[A + j] = b[j]
    BY <1>1
  <2> QED BY <2>1, <2>2
<1>7. A \in Nat /\ T \in Nat /\ A <= T /\ T <= Len(q)
  BY <1>1
<1> HIDE DEF A, T
<1>8. \A i \in 1 .. Len(s) : \A j \in 1 .. Len(t) :
        s[i].pid # t[j].pid
  <2> SUFFICES ASSUME NEW i \in 1 .. Len(s), NEW j \in 1 .. Len(t),
                      s[i].pid = t[j].pid
               PROVE  FALSE
    OBVIOUS
  <2>1. PICK k \in 1 .. A : q[k] = s[i].pid
    BY <1>5
  <2>2. PICK l \in A + 1 .. T : q[l] = t[j].pid
    BY ONLY <1>6
  <2>3. k \in DOMAIN q /\ l \in DOMAIN q /\ k # l /\ q[k] = q[l]
    <3>1. k \in 1 .. Len(q) /\ l \in 1 .. Len(q) /\ k # l
      BY ONLY <1>1, <1>7, k \in 1 .. A, l \in A + 1 .. T
    <3>2. DOMAIN q = 1 .. Len(q)
      OBVIOUS
    <3>3. q[k] = q[l]
      BY ONLY <2>1, <2>2, s[i].pid = t[j].pid
    <3> QED BY ONLY <3>1, <3>2, <3>3
  <2> QED BY <1>1, <2>3 DEF IsInjective
<1>9. Distinct(u)
  <2> SUFFICES ASSUME NEW i \in 1 .. Len(s) + Len(t),
                      NEW j \in 1 .. Len(s) + Len(t), i # j,
                      SameKey(u[i], u[j])
               PROVE  FALSE
    BY <1>3 DEF Distinct
  <2>1. u[i].pid = u[j].pid
    BY DEF SameKey
  <2>2. CASE i \in 1 .. Len(s) /\ j \in 1 .. Len(s)
    <3>1. u[i] = s[i] /\ u[j] = s[j]
      BY <1>3, <2>2
    <3> QED BY <1>5, <2>2, <3>1 DEF Distinct
  <2>3. CASE i \notin 1 .. Len(s) /\ j \notin 1 .. Len(s)
    <3>1. /\ u[i] = t[i - Len(s)] /\ i - Len(s) \in 1 .. Len(t)
          /\ u[j] = t[j - Len(s)] /\ j - Len(s) \in 1 .. Len(t)
          /\ i - Len(s) # j - Len(s)
      BY <1>3, <1>4, <2>3
    <3> QED BY <3>1 DEF Distinct
  <2>4. CASE i \in 1 .. Len(s) /\ j \notin 1 .. Len(s)
    <3>1. u[i] = s[i]
      BY <1>3, <2>4
    <3>2. j - Len(s) \in 1 .. Len(t) /\ u[j] = t[j - Len(s)]
      BY <1>4, <2>4
    <3> QED BY Zenon, <1>8, <2>1, <2>4, <3>1, <3>2
  <2>5. CASE i \notin 1 .. Len(s) /\ j \in 1 .. Len(s)
    <3>1. u[j] = s[j]
      BY <1>3, <2>5
    <3>2. i - Len(s) \in 1 .. Len(t) /\ u[i] = t[i - Len(s)]
      BY <1>4, <2>5
    <3> QED BY Zenon, <1>8, <2>1, <2>5, <3>1, <3>2
  <2> QED BY <2>2, <2>3, <2>4, <2>5
<1>10. \A i \in 1 .. Len(s) : \E k \in 1 .. T : q[k] = s[i].pid
  BY <1>5, <1>7
<1>11. \A i \in 1 .. Len(t) : \E k \in 1 .. T : q[k] = t[i].pid
  BY <1>6, <1>7
<1>12. \A i \in 1 .. Len(u) : \E k \in 1 .. T : q[k] = u[i].pid
  <2> SUFFICES ASSUME NEW i \in 1 .. Len(s) + Len(t)
               PROVE  \E k \in 1 .. T : q[k] = u[i].pid
    BY <1>3
  <2>1. CASE i \in 1 .. Len(s) /\ u[i] = s[i]
    BY <1>10, <2>1
  <2>2. CASE i - Len(s) \in 1 .. Len(t) /\ u[i] = t[i - Len(s)]
    BY Zenon, <1>11, <2>2
  <2> QED BY <1>4, <2>1, <2>2
<1> QED BY <1>2, <1>3, <1>5, <1>9, <1>10, <1>12 DEF OutInv, u

\* What was there stays, and what the answers owe is added.
LEMMA CompleteAsked ==
  ASSUME NEW s \in Seq(Reading), NEW t \in Seq(Reading), NEW o, NEW p,
         Complete(s, o), Complete(t, p)
  PROVE  Complete(s \o t, o \cup p)
<1> DEFINE u == s \o t
<1>1. /\ Len(s) \in Nat /\ Len(t) \in Nat /\ Len(u) = Len(s) + Len(t)
      /\ \A i \in 1 .. Len(s) + Len(t) :
           u[i] = IF i <= Len(s) THEN s[i] ELSE t[i - Len(s)]
  BY ConcatProperties
<1> HIDE DEF u
<1>2. ASSUME NEW i \in 1 .. Len(s) PROVE i \in 1 .. Len(u) /\ u[i] = s[i]
  BY <1>1
<1>3. ASSUME NEW i \in 1 .. Len(t)
      PROVE  /\ Len(s) + i \in 1 .. Len(u) /\ u[Len(s) + i] = t[i]
  <2>1. /\ Len(s) + i \in 1 .. Len(s) + Len(t) /\ ~(Len(s) + i <= Len(s))
        /\ (Len(s) + i) - Len(s) = i
    BY <1>1
  <2> QED BY <1>1, <2>1
<1>4. \A x : Holds(s, x) \/ Holds(t, x) => Holds(u, x)
  BY <1>2, <1>3 DEF Holds
<1> QED BY <1>4 DEF Complete, u

\* What the answers let pass owe.
OwedBy(all) ==
  UNION {{<<p, x.ecu>> : p \in ToSet(x.r.groups)} :
           x \in {y \in ToSet(all) : y.r.own /\ ~y.r.cut}}
HeardOf(all) == {x.ecu : x \in HeardIn(all)}

LEMMA OwedByIs ==
  ASSUME NEW asked, NEW all, Heard(asked, all)
  PROVE  /\ OwedBy(all) \in SUBSET (Nat \X Nat)
         /\ HeardOf(all) \in SUBSET Nat
         /\ \A res : ServiceGives(asked, all, res) /\ res.err = "nil"
              => Complete(res.out, OwedBy(all))
<1>1. /\ all \in Seq(Item)
      /\ \A x \in ToSet(all) : \E i \in 1 .. Len(all) : x = all[i]
  BY DEF Heard, ToSet
<1>2. ASSUME NEW x \in ToSet(all)
      PROVE  x.ecu \in Nat /\ \A p \in ToSet(x.r.groups) : p \in Nat
  <2>1. x \in Item
    BY <1>1
  <2>2. x.ecu \in Nat /\ x.r.groups \in Seq(Nat)
    BY <2>1 DEF Item, Resp
  <2>3. \A g \in Seq(Nat) : \A p \in ToSet(g) : p \in Nat
    BY DEF ToSet
  <2> QED BY <2>2, <2>3
<1>3. \A y \in OwedBy(all) :
        \E x \in ToSet(all) : \E p \in ToSet(x.r.groups) :
          x.r.own /\ ~x.r.cut /\ y = <<p, x.ecu>>
  BY DEF OwedBy
<1>4. OwedBy(all) \in SUBSET (Nat \X Nat)
  BY <1>2, <1>3
<1>5. HeardOf(all) \in SUBSET Nat
  BY <1>2 DEF HeardOf, HeardIn
<1>6. ASSUME NEW res, ServiceGives(asked, all, res), res.err = "nil",
             NEW y \in OwedBy(all)
      PROVE  Holds(res.out, [pid |-> y[1], ecu |-> y[2]])
  <2>0. PICK x \in ToSet(all) : \E p \in ToSet(x.r.groups) :
          x.r.own /\ ~x.r.cut /\ y = <<p, x.ecu>>
    BY <1>3
  <2>1. PICK p \in ToSet(x.r.groups) :
          x.r.own /\ ~x.r.cut /\ y = <<p, x.ecu>>
    BY <2>0
  <2>2. PICK i \in 1 .. Len(all) : x = all[i]
    BY <1>1
  <2>3. Holds(res.out, [pid |-> p, ecu |-> x.ecu])
    BY <1>6, <2>1, <2>2 DEF ServiceGives
  <2>4. y[1] = p /\ y[2] = x.ecu
    BY <2>1
  <2> QED BY <2>3, <2>4
<1>7. \A res : ServiceGives(asked, all, res) /\ res.err = "nil"
        => Complete(res.out, OwedBy(all))
  BY <1>6 DEF Complete
<1> QED BY <1>4, <1>5, <1>7

\* The three ends of a request.
Ends(c, all, res) ==
  \/ /\ res.err = "nil"
     /\ out' = [out EXCEPT ![c] = @ \o res.out]
     /\ answered' = [answered EXCEPT ![c] = TRUE]
     /\ pc' = [pc EXCEPT ![c] = "batch"]
     /\ UNCHANGED ret
  \/ /\ res.err = "noResponse"
     /\ pc' = [pc EXCEPT ![c] = "batch"]
     /\ UNCHANGED <<out, answered, ret>>
  \/ /\ res.err = "error"
     /\ pc' = [pc EXCEPT ![c] = "idle"]
     /\ ret' = [ret EXCEPT ![c] = "error"]
     /\ UNCHANGED <<out, answered>>

Asking(c, all, res) ==
  /\ proto' = IF all = <<>> THEN proto ELSE vehicle
  /\ owed' = [owed EXCEPT ![c] = @ \cup OwedBy(all)]
  /\ heard' = [heard EXCEPT ![c] = @ \cup HeardOf(all)]
  /\ Ends(c, all, res)
  /\ UNCHANGED <<vehicle, pids, rest, batch, calls>>

LEMMA AskIs ==
  ASSUME IInv, NEW c \in Caller, NEW rs, Ask(c, rs),
         \A e \in Ecu : FairSeq(batch[c], rs[e])
  PROVE  /\ pc[c] = "ask" /\ Askable(batch[c])
         /\ \E all, res : /\ Heard(batch[c], all) /\ Asking(c, all, res)
                          /\ ServiceGives(batch[c], all, res)
<1> DEFINE all == Answering(batch[c], ByEcu(rs))
           res == Service01(batch[c], all)
<1>1. pc[c] = "ask" /\ Asking(c, all, res)
  BY DEF Ask, Asking, Ends, OwedBy, HeardOf
<1>2. Heard(batch[c], all)
  BY AnsweringIs
<1> HIDE DEF all
<1>3. Askable(batch[c])
  BY <1>1 DEF IInv, TypeOK, CallerInv, PlaceInv, BatchInv, Askable
<1>4. ServiceGives(batch[c], all, res)
  BY <1>2, <1>3, ServiceIs
<1> HIDE DEF res
<1> QED BY <1>1, <1>2, <1>3, <1>4

LEMMA AskInv ==
  ASSUME IInv, NEW c \in Caller, pc[c] = "ask", quirks' \in Nat,
         NEW all, Heard(batch[c], all),
         NEW res, Asking(c, all, res), ServiceGives(batch[c], all, res)
  PROVE  IInv'
<1>1. TypeOK /\ \A d \in Caller : CallerInv(d)
  BY DEF IInv
<1>2. /\ proto' = IF all = <<>> THEN proto ELSE vehicle
      /\ owed' = [owed EXCEPT ![c] = @ \cup OwedBy(all)]
      /\ heard' = [heard EXCEPT ![c] = @ \cup HeardOf(all)]
      /\ UNCHANGED <<vehicle, pids, rest, batch, calls>>
  BY DEF Asking
<1>3. /\ res.out \in Seq(Reading) /\ Distinct(res.out)
      /\ \A i \in 1 .. Len(res.out) : Contains(batch[c], res.out[i].pid)
      /\ res.err = "noResponse" => Says(all) = {}
  BY DEF ServiceGives
<1>4. /\ OwedBy(all) \in SUBSET (Nat \X Nat) /\ HeardOf(all) \in SUBSET Nat
      /\ res.err = "nil" => Complete(res.out, OwedBy(all))
  BY OwedByIs
<1>5. Says(all) = {} => OwedBy(all) = {} /\ HeardOf(all) = {}
  <2>1. SUFFICES ASSUME Says(all) = {}
                 PROVE  OwedBy(all) = {} /\ HeardOf(all) = {}
    OBVIOUS
  <2>2. \A x \in ToSet(all) : x.r.kind = "refusal" /\ x.r.cut
    BY <2>1 DEF Says, ToSet
  <2>3. \A x \in ToSet(all) : ~(x.r.own /\ ~x.r.cut)
    BY <2>2
  <2>4. HeardIn(all) = {}
    BY <2>2 DEF HeardIn, Refuses
  <2> QED BY <2>3, <2>4 DEF OwedBy, HeardOf
<1>6. /\ pids[c] \in Seq(Nat) /\ rest[c] \in Seq(Nat)
      /\ batch[c] \in Seq(Nat) /\ out[c] \in Seq(Reading)
  BY <1>1 DEF TypeOK
<1>7. /\ BatchInv(batch[c])
      /\ PlaceInv(pids[c], rest[c], batch[c], "ask")
      /\ OutInv(out[c], pids[c], rest[c], batch[c], "ask")
      /\ Complete(out[c], owed[c]) /\ (heard[c] # {} => answered[c])
      /\ ret[c] = "none"
  BY <1>1 DEF CallerInv, OwedInv
<1>8. /\ OutInv(out[c], pids[c], rest[c], batch[c], "batch")
      /\ OutInv(out[c] \o res.out, pids[c], rest[c], batch[c], "batch")
      /\ out[c] \o res.out \in Seq(Reading)
  BY <1>3, <1>6, <1>7, OutAsked
<1>9. /\ PlaceInv(pids[c], rest[c], batch[c], "batch")
      /\ PlaceInv(pids[c], rest[c], batch[c], "idle")
  BY <1>7, PlaceAsked
<1>10. /\ pids'[c] = pids[c] /\ rest'[c] = rest[c] /\ batch'[c] = batch[c]
       /\ vehicle' = vehicle /\ owed'[c] = owed[c] \cup OwedBy(all)
       /\ heard'[c] = heard[c] \cup HeardOf(all)
       /\ owed' \in [Caller -> SUBSET (Nat \X Nat)]
       /\ heard' \in [Caller -> SUBSET Nat]
  BY <1>1, <1>2, <1>4 DEF TypeOK
<1>11. proto' \in {"unknown", vehicle'}
  BY <1>1, <1>2 DEF TypeOK
<1>12. BatchInv(batch[c])'
  BY <1>7, <1>10 DEF BatchInv
<1>13. CASE res.err = "nil"
  <2>1. /\ out' = [out EXCEPT ![c] = @ \o res.out]
        /\ answered' = [answered EXCEPT ![c] = TRUE]
        /\ pc' = [pc EXCEPT ![c] = "batch"]
        /\ ret' = ret
    BY <1>13 DEF Asking, Ends
  <2>2. /\ out'[c] = out[c] \o res.out /\ answered'[c] = TRUE
        /\ pc'[c] = "batch" /\ ret'[c] = ret[c]
    BY <1>1, <2>1 DEF TypeOK
  <2>3. TypeOK'
    <3>1. out' \in [Caller -> Seq(Reading)]
      BY <1>1, <1>8, <2>1 DEF TypeOK
    <3> QED BY <1>1, <1>2, <1>10, <1>11, <2>1, <3>1 DEF TypeOK
  <2>4. Complete(out[c] \o res.out, owed[c] \cup OwedBy(all))
    BY <1>3, <1>4, <1>6, <1>7, <1>13, CompleteAsked
  <2>5. CallerInv(c)'
    BY <1>7, <1>8, <1>9, <1>10, <1>12, <2>2, <2>4
       DEF CallerInv, OwedInv, Returned
  <2>6. ASSUME NEW d \in Caller, d # c PROVE CallerInv(d)'
    BY <1>1, <1>2, <2>1, <2>6, SameInv DEF Same, TypeOK
  <2> QED BY <2>3, <2>5, <2>6 DEF IInv
<1>14. CASE res.err = "noResponse"
  <2>1. /\ out' = out /\ answered' = answered /\ ret' = ret
        /\ pc' = [pc EXCEPT ![c] = "batch"]
    BY <1>14 DEF Asking, Ends
  <2>2. pc'[c] = "batch"
    BY <1>1, <2>1 DEF TypeOK
  <2>3. TypeOK'
    BY <1>1, <1>2, <1>10, <1>11, <2>1 DEF TypeOK
  <2>4. owed'[c] = owed[c] /\ heard'[c] = heard[c]
    BY <1>3, <1>5, <1>10, <1>14
  <2>5. CallerInv(c)'
    BY <1>7, <1>8, <1>9, <1>10, <1>12, <2>1, <2>2, <2>4
       DEF CallerInv, OwedInv, Returned
  <2>6. ASSUME NEW d \in Caller, d # c PROVE CallerInv(d)'
    BY <1>1, <1>2, <2>1, <2>6, SameInv DEF Same, TypeOK
  <2> QED BY <2>3, <2>5, <2>6 DEF IInv
<1>15. CASE res.err = "error"
  <2>1. /\ out' = out /\ answered' = answered
        /\ ret' = [ret EXCEPT ![c] = "error"]
        /\ pc' = [pc EXCEPT ![c] = "idle"]
    BY <1>15 DEF Asking, Ends
  <2>2. pc'[c] = "idle" /\ ret'[c] = "error"
    BY <1>1, <2>1 DEF TypeOK
  <2>3. TypeOK'
    BY <1>1, <1>2, <1>10, <1>11, <2>1 DEF TypeOK
  <2>4. OutInv(out[c], pids[c], rest[c], batch[c], "idle")
    BY DEF OutInv
  <2>5. CallerInv(c)'
    BY <1>9, <1>10, <1>12, <2>1, <2>2, <2>4 DEF CallerInv, OwedInv, Returned
  <2>6. ASSUME NEW d \in Caller, d # c PROVE CallerInv(d)'
    BY <1>1, <1>2, <2>1, <2>6, SameInv DEF Same, TypeOK
  <2> QED BY <2>3, <2>5, <2>6 DEF IInv
<1>16. res.err \in {"nil", "noResponse", "error"}
  BY DEF ServiceGives
<1> QED BY <1>13, <1>14, <1>15, <1>16

LEMMA AskPlainlyStep ==
  ASSUME IInv, NEW c \in Caller, AskPlainly(c)
  PROVE  IInv'
<1> DEFINE rs == [e \in Ecu |-> Plain(e, batch[c])]
<1>1. batch[c] \in Seq(Nat) /\ quirks \in Nat
  BY DEF IInv, TypeOK
<1>2. Ask(c, rs) /\ quirks' = quirks
  BY DEF AskPlainly
<1>3. \A e \in Ecu : FairSeq(batch[c], rs[e])
  BY <1>1, PlainIsFair
<1> HIDE DEF rs
<1> QED BY <1>1, <1>2, <1>3, AskIs, AskInv

LEMMA AskWithQuirkStep ==
  ASSUME IInv, NEW c \in Caller, AskWithQuirk(c)
  PROVE  IInv'
<1>1. batch[c] \in Seq(Nat) /\ quirks \in Nat
  BY DEF IInv, TypeOK
<1>2. PICK e \in Ecu : \E s \in Quirky(e, batch[c]) :
        Ask(c, [f \in Ecu |-> IF f = e THEN s ELSE Plain(f, batch[c])])
  BY DEF AskWithQuirk
<1>3. PICK s \in Quirky(e, batch[c]) :
        Ask(c, [f \in Ecu |-> IF f = e THEN s ELSE Plain(f, batch[c])])
  BY <1>2
<1> DEFINE rs == [f \in Ecu |-> IF f = e THEN s ELSE Plain(f, batch[c])]
<1>4. quirks' \in Nat
  BY <1>1 DEF AskWithQuirk
<1>5. FairSeq(batch[c], s)
  BY <1>1, QuirkyIsFair
<1>6. \A f \in Ecu : FairSeq(batch[c], rs[f])
  BY <1>1, <1>5, PlainIsFair
<1>7. Ask(c, rs)
  BY <1>3
<1> HIDE DEF rs
<1> QED BY <1>1, <1>4, <1>6, <1>7, AskIs, AskInv

-----------------------------------------------------------------------------
(* FinishQuery                                                             *)

\* A PID that is asked for once has one place.
LEMMA PlaceIs ==
  ASSUME NEW q \in Seq(Nat), IsInjective(q), NEW k \in 1 .. Len(q)
  PROVE  Place(q, q[k]) = k
<1> DEFINE P(i) == q[i] = q[k] /\ \A j \in 1 .. i - 1 : q[j] # q[k]
<1>1. Len(q) \in Nat /\ DOMAIN q = 1 .. Len(q)
  OBVIOUS
<1>2. \A i, j \in 1 .. Len(q) : q[i] = q[j] => i = j
  BY <1>1 DEF IsInjective
<1>3. P(k)
  <2>1. \A j \in 1 .. k - 1 : j \in 1 .. Len(q) /\ j # k
    BY <1>1
  <2> QED BY <1>2, <2>1
<1>4. \A i \in 1 .. Len(q) : P(i) => i = k
  BY <1>2
<1>5. Place(q, q[k]) = CHOOSE i \in 1 .. Len(q) : P(i)
  BY DEF Place
<1> HIDE DEF P
<1> QED BY <1>3, <1>4, <1>5

\* Sorting loses no reading, and puts them into the order documented.
LEMMA SortIs ==
  ASSUME NEW q \in Seq(Nat), IsInjective(q), NEW s \in Seq(Reading),
         Distinct(s),
         \A i \in 1 .. Len(s) : \E k \in 1 .. Len(q) : q[k] = s[i].pid,
         NEW p \in Orders(q, s)
  PROVE  LET t == [i \in 1 .. Len(s) |-> s[p[i]]]
         IN t \in Seq(Reading) /\ Sorted(q, t)
            /\ \A x : Holds(s, x) => Holds(t, x)
<1> DEFINE t == [i \in 1 .. Len(s) |-> s[p[i]]]
<1>1. Len(s) \in Nat
  OBVIOUS
<1>2. /\ p \in [1 .. Len(s) -> 1 .. Len(s)]
      /\ \A j \in 1 .. Len(s) : \E i \in 1 .. Len(s) : p[i] = j
      /\ \A i, j \in 1 .. Len(s) : i < j =>
           \/ Before(q, s[p[i]], s[p[j]])
           \/ ~Before(q, s[p[j]], s[p[i]]) /\ p[i] < p[j]
  BY DEF Orders, Bijection, Injection, Surjection
<1>3. \A i \in 1 .. Len(s) : p[i] \in 1 .. Len(s) /\ s[p[i]] \in Reading
  <2>1. \A i \in 1 .. Len(s) : p[i] \in 1 .. Len(s)
    BY <1>2
  <2>2. \A i \in 1 .. Len(s) : s[i] \in Reading
    OBVIOUS
  <2> QED BY <2>1, <2>2
<1>4. t \in Seq(Reading) /\ Len(t) = Len(s)
      /\ \A i \in 1 .. Len(s) : t[i] = s[p[i]]
  BY <1>1, <1>3
<1> HIDE DEF t
<1>5. ASSUME NEW x, Holds(s, x) PROVE Holds(t, x)
  <2>1. PICK j \in 1 .. Len(s) : SameKey(s[j], x)
    BY <1>5 DEF Holds
  <2>2. PICK i \in 1 .. Len(s) : p[i] = j
    BY <1>2
  <2> QED BY <1>4, <2>1, <2>2 DEF Holds
<1>6. ASSUME NEW i \in 1 .. Len(s), NEW j \in 1 .. Len(s), i < j
      PROVE  LET x == Place(q, t[i].pid)
                 y == Place(q, t[j].pid)
             IN x < y \/ (x = y /\ t[i].ecu < t[j].ecu)
  <2> DEFINE u == s[p[i]]
             v == s[p[j]]
  <2>1. u \in Reading /\ v \in Reading /\ t[i] = u /\ t[j] = v
    BY <1>3, <1>4
  <2>2. PICK k \in 1 .. Len(q) : q[k] = u.pid
    BY <1>3
  <2>3. PICK l \in 1 .. Len(q) : q[l] = v.pid
    BY <1>3
  <2>4. Place(q, u.pid) = k /\ Place(q, v.pid) = l
    BY <2>2, <2>3, PlaceIs
  <2>5. \/ Before(q, u, v)
        \/ ~Before(q, v, u) /\ p[i] # p[j]
    <3>1. \/ Before(q, s[p[i]], s[p[j]])
          \/ ~Before(q, s[p[j]], s[p[i]]) /\ p[i] < p[j]
      BY Zenon, <1>2, <1>6
    <3>2. p[i] < p[j] => p[i] # p[j]
      BY <1>1, <1>3
    <3> QED BY Zenon, <3>1, <3>2
  <2>6. p[i] # p[j] => ~SameKey(u, v)
    BY <1>3 DEF Distinct
  <2> HIDE DEF u, v
  <2>7. u.ecu \in Nat /\ v.ecu \in Nat
    BY <2>1 DEF Reading
  <2>8. k < l \/ (k = l /\ u.ecu < v.ecu)
    <3>1. CASE Before(q, u, v)
      BY <2>4, <3>1 DEF Before
    <3>2. CASE ~Before(q, v, u) /\ p[i] # p[j]
      <4>1. ~(l < k) /\ ~(l = k /\ v.ecu < u.ecu)
        BY <2>4, <3>2 DEF Before
      <4>2. k = l => u.pid = v.pid
        BY <2>2, <2>3
      <4>3. ~(u.pid = v.pid /\ u.ecu = v.ecu)
        BY <2>6, <3>2 DEF SameKey
      <4>4. k \in Nat /\ l \in Nat
        OBVIOUS
      <4> QED BY <2>7, <4>1, <4>2, <4>3, <4>4
    <3> QED BY <2>5, <3>1, <3>2
  <2> QED BY <2>1, <2>4, <2>8
<1>7. Sorted(q, t)
  BY <1>4, <1>6 DEF Sorted
<1> QED BY <1>4, <1>5, <1>7 DEF t

LEMMA FinishStep ==
  ASSUME IInv, NEW c \in Caller, FinishQuery(c)
  PROVE  IInv'
<1>1. TypeOK /\ \A d \in Caller : CallerInv(d)
  BY DEF IInv
<1>2. /\ pc[c] = "batch" /\ rest[c] = <<>>
      /\ pc' = [pc EXCEPT ![c] = "idle"]
      /\ UNCHANGED <<vehicle, proto, pids, rest, batch, answered, owed, heard,
                     calls, quirks>>
  BY DEF FinishQuery
<1>3. /\ pids[c] \in Seq(Nat) /\ out[c] \in Seq(Reading)
  BY <1>1 DEF TypeOK
<1>4. /\ BatchInv(batch[c])
      /\ PlaceInv(pids[c], rest[c], batch[c], "batch")
      /\ OutInv(out[c], pids[c], rest[c], batch[c], "batch")
      /\ Complete(out[c], owed[c]) /\ (heard[c] # {} => answered[c])
  BY <1>1, <1>2 DEF CallerInv, OwedInv
<1>5. Asked(pids[c], rest[c], batch[c], "batch") = Len(pids[c])
  <2>1. Len(pids[c]) \in Nat /\ Len(rest[c]) = 0
    BY <1>2, <1>3
  <2> QED BY <2>1 DEF Asked, Taken
<1>6. PlaceInv(pids[c], rest[c], batch[c], "idle")
  BY <1>4 DEF PlaceInv
<1>7. /\ pids'[c] = pids[c] /\ rest'[c] = rest[c] /\ batch'[c] = batch[c]
      /\ vehicle' = vehicle /\ owed'[c] = owed[c] /\ heard'[c] = heard[c]
      /\ pc'[c] = "idle"
  BY <1>1, <1>2 DEF TypeOK
<1>8. BatchInv(batch[c])'
  BY <1>4, <1>7 DEF BatchInv
<1>9. CASE AnyAnswer(c) /\ ret' = [ret EXCEPT ![c] = "ok"]
           /\ \E p \in Orders(pids[c], out[c]) :
                out' = [out EXCEPT ![c] = [i \in 1 .. Len(@) |-> @[p[i]]]]
  <2>1. PICK p \in Orders(pids[c], out[c]) :
          out' = [out EXCEPT ![c] = [i \in 1 .. Len(@) |-> @[p[i]]]]
    BY <1>9
  <2> DEFINE s == out[c]
             t == [i \in 1 .. Len(s) |-> s[p[i]]]
  <2>2. /\ t \in Seq(Reading) /\ Sorted(pids[c], t)
        /\ \A x : Holds(s, x) => Holds(t, x)
    <3>1. /\ IsInjective(pids[c]) /\ Distinct(s)
          /\ \A i \in 1 .. Len(s) :
               \E k \in 1 .. Len(pids[c]) : pids[c][k] = s[i].pid
      BY <1>4, <1>5 DEF PlaceInv, OutInv
    <3> HIDE DEF s
    <3> QED BY <1>3, <2>1, <3>1, SortIs DEF s
  <2>3. out' = [out EXCEPT ![c] = t]
    BY <2>1
  <2> HIDE DEF t
  <2>4. Complete(t, owed[c])
    BY <1>4, <2>2 DEF Complete
  <2>5. out'[c] = t /\ ret'[c] = "ok"
    BY <1>1, <1>9, <2>3 DEF TypeOK
  <2>6. TypeOK'
    <3>1. out' \in [Caller -> Seq(Reading)]
      BY <1>1, <2>2, <2>3 DEF TypeOK
    <3> QED BY <1>1, <1>2, <1>9, <3>1 DEF TypeOK
  <2>7. CallerInv(c)'
    BY <1>6, <1>7, <1>8, <2>2, <2>4, <2>5
       DEF CallerInv, OutInv, OwedInv, Returned
  <2>8. ASSUME NEW d \in Caller, d # c PROVE CallerInv(d)'
    BY <1>1, <1>2, <1>9, <2>3, <2>8, SameInv DEF Same, TypeOK
  <2> QED BY <2>6, <2>7, <2>8 DEF IInv
<1>10. CASE ~AnyAnswer(c) /\ ret' = [ret EXCEPT ![c] = "noResponse"]
            /\ out' = [out EXCEPT ![c] = <<>>]
  <2>1. heard[c] = {}
    BY <1>4, <1>10 DEF AnyAnswer
  <2>2. out'[c] = <<>> /\ ret'[c] = "noResponse"
    BY <1>1, <1>10 DEF TypeOK
  <2>3. TypeOK'
    BY <1>1, <1>2, <1>10 DEF TypeOK
  <2>4. CallerInv(c)'
    BY <1>6, <1>7, <1>8, <2>1, <2>2
       DEF CallerInv, OutInv, OwedInv, Returned
  <2>5. ASSUME NEW d \in Caller, d # c PROVE CallerInv(d)'
    BY <1>1, <1>2, <1>10, <2>5, SameInv DEF Same, TypeOK
  <2> QED BY <2>3, <2>4, <2>5 DEF IInv
<1> QED BY <1>9, <1>10 DEF FinishQuery

-----------------------------------------------------------------------------
(* The other steps                                                         *)

LEMMA QueryActionStep ==
  ASSUME IInv, NEW c \in Caller, NEW q \in Queries, Query(c, q)
  PROVE  IInv'
<1>1. TypeOK /\ \A d \in Caller : CallerInv(d)
  BY DEF IInv
<1>2. q \in Seq(Nat) /\ IsInjective(q) /\ Len(q) \in Nat
  BY QueriesAssumption
<1>3. /\ calls' = calls + 1
      /\ pc' = [pc EXCEPT ![c] = "batch"]
      /\ pids' = [pids EXCEPT ![c] = q] /\ rest' = [rest EXCEPT ![c] = q]
      /\ batch' = [batch EXCEPT ![c] = <<>>]
      /\ out' = [out EXCEPT ![c] = <<>>]
      /\ answered' = [answered EXCEPT ![c] = FALSE]
      /\ ret' = [ret EXCEPT ![c] = "none"]
      /\ owed' = [owed EXCEPT ![c] = {}]
      /\ heard' = [heard EXCEPT ![c] = {}]
      /\ UNCHANGED <<vehicle, proto, quirks>>
  BY DEF Query
<1>4. TypeOK'
  BY <1>1, <1>2, <1>3 DEF TypeOK
<1>5. CallerInv(c)'
  <2>1. /\ pc'[c] = "batch" /\ pids'[c] = q /\ rest'[c] = q
        /\ batch'[c] = <<>> /\ out'[c] = <<>> /\ ret'[c] = "none"
        /\ owed'[c] = {} /\ heard'[c] = {}
    BY <1>1, <1>3 DEF TypeOK
  <2>2. PlaceInv(q, q, <<>>, "batch")
    <3>1. Len(q) - Len(q) = 0 /\ \A i \in 1 .. Len(q) : 0 + i = i
      BY <1>2
    <3> QED BY <1>2, <3>1 DEF PlaceInv, Taken
  <2>3. OutInv(<<>>, q, q, <<>>, "batch")
    BY DEF OutInv, Distinct
  <2>4. BatchInv(batch[c])'
    BY <2>1 DEF BatchInv
  <2>5. Complete(<<>>, {})
    BY DEF Complete
  <2> QED BY <2>1, <2>2, <2>3, <2>4, <2>5 DEF CallerInv, OwedInv, Returned
<1>6. ASSUME NEW d \in Caller, d # c PROVE CallerInv(d)'
  BY <1>1, <1>3, <1>6, SameInv DEF Same, TypeOK
<1> QED BY <1>4, <1>5, <1>6 DEF IInv

LEMMA AskFailsStep ==
  ASSUME IInv, NEW c \in Caller, AskFails(c)
  PROVE  IInv'
<1>1. TypeOK /\ \A d \in Caller : CallerInv(d)
  BY DEF IInv
<1>2. /\ quirks' = quirks + 1 /\ pc[c] = "ask"
      /\ pc' = [pc EXCEPT ![c] = "idle"]
      /\ ret' = [ret EXCEPT ![c] = "error"]
      /\ UNCHANGED <<vehicle, proto, pids, rest, batch, out, answered, owed,
                     heard, calls>>
  BY DEF AskFails
<1>3. TypeOK'
  BY <1>1, <1>2 DEF TypeOK
<1>4. CallerInv(c)'
  <2>1. pc'[c] = "idle" /\ ret'[c] = "error"
    BY <1>1, <1>2 DEF TypeOK
  <2>2. BatchInv(batch[c])'
    BY <1>1, <1>2 DEF CallerInv, BatchInv
  <2>3. PlaceInv(pids[c], rest[c], batch[c], "idle")
    BY <1>1 DEF CallerInv, PlaceInv
  <2> QED BY <1>2, <2>1, <2>2, <2>3 DEF CallerInv, OutInv, OwedInv, Returned
<1>5. ASSUME NEW d \in Caller, d # c PROVE CallerInv(d)'
  BY <1>1, <1>2, <1>5, SameInv DEF Same, TypeOK
<1> QED BY <1>3, <1>4, <1>5 DEF IInv

LEMMA ClearStep ==
  ASSUME IInv, NEW c \in Caller, ClearDTCs(c)
  PROVE  IInv'
<1>1. TypeOK /\ \A d \in Caller : CallerInv(d)
  BY DEF IInv
<1>2. /\ pc[c] = "idle" /\ calls' = calls + 1
      /\ pids' = [pids EXCEPT ![c] = <<>>]
      /\ rest' = [rest EXCEPT ![c] = <<>>]
      /\ batch' = [batch EXCEPT ![c] = <<>>]
      /\ out' = [out EXCEPT ![c] = <<>>]
      /\ owed' = [owed EXCEPT ![c] = {}]
      /\ UNCHANGED <<vehicle, pc, answered, quirks>>
  BY DEF ClearDTCs
<1>3. PICK r, h : /\ ret' = [ret EXCEPT ![c] = r]
                  /\ heard' = [heard EXCEPT ![c] = h]
                  /\ r \in {"ok", "noResponse", "error"}
                  /\ h \in SUBSET Nat
                  /\ r = "noResponse" => h = {}
                  /\ proto' \in {proto, vehicle}
  <2>1. Ecu \subseteq Nat
    BY EcuAssumption DEF Ecu, ToSet
  <2>2. CASE \E does \in [Ecu -> Clearing] : ClearedBy(c, does)
    <3>1. PICK does \in [Ecu -> Clearing] : ClearedBy(c, does)
      BY <2>2
    <3> DEFINE Some(what) == \E e \in Ecu : does[e] = what
               r == IF Some("clears") THEN "ok"
                    ELSE IF Some("refuses") THEN "error" ELSE "noResponse"
               h == {e \in Ecu : does[e] \in {"clears", "refuses"}}
    <3>2. /\ ret' = [ret EXCEPT ![c] = r] /\ heard' = [heard EXCEPT ![c] = h]
          /\ proto' \in {proto, vehicle}
      BY <3>1 DEF ClearedBy
    <3>3. r = "noResponse" => h = {}
      OBVIOUS
    <3>4. r \in {"ok", "noResponse", "error"} /\ h \in SUBSET Nat
      BY <2>1
    <3> HIDE DEF r, h
    <3> QED BY <3>2, <3>3, <3>4
  <2>3. CASE /\ ret' = [ret EXCEPT ![c] = "error"]
             /\ heard' = [heard EXCEPT ![c] = {}]
             /\ UNCHANGED proto
    <3>1. /\ "error" \in {"ok", "noResponse", "error"} /\ {} \in SUBSET Nat
          /\ ("error" = "noResponse" => {} = {}) /\ proto' \in {proto, vehicle}
      BY <2>3
    <3> QED BY Zenon, <2>3, <3>1
  <2> QED BY <2>2, <2>3 DEF ClearDTCs
<1>4. TypeOK'
  BY <1>1, <1>2, <1>3 DEF TypeOK
<1>5. CallerInv(c)'
  <2>1. /\ pc'[c] = "idle" /\ pids'[c] = <<>> /\ batch'[c] = <<>>
        /\ out'[c] = <<>> /\ owed'[c] = {} /\ ret'[c] = r /\ heard'[c] = h
    BY <1>1, <1>2, <1>3 DEF TypeOK
  <2>2. PlaceInv(<<>>, rest'[c], <<>>, "idle")
    BY DEF PlaceInv, IsInjective
  <2>3. Complete(<<>>, {}) /\ Sorted(<<>>, <<>>)
    BY DEF Complete, Sorted
  <2>4. BatchInv(batch[c])'
    BY <2>1 DEF BatchInv
  <2>5. OwedInv(c)' /\ OutInv(out[c], pids[c], rest[c], batch[c], pc[c])'
    BY <2>1 DEF OwedInv, OutInv
  <2>6. Returned(c)'
    BY <1>3, <2>1, <2>3 DEF Returned
  <2> QED BY <2>1, <2>2, <2>4, <2>5, <2>6 DEF CallerInv
<1>6. ASSUME NEW d \in Caller, d # c PROVE CallerInv(d)'
  BY <1>1, <1>2, <1>3, <1>6, SameInv DEF Same, TypeOK
<1> QED BY <1>4, <1>5, <1>6 DEF IInv

-----------------------------------------------------------------------------
(* Theorems                                                                *)

LEMMA StepInv == IInv /\ [Next]_vars => IInv'
<1> SUFFICES ASSUME IInv, [Next]_vars PROVE IInv'
  OBVIOUS
<1>1. CASE Next
  <2>1. PICK c \in Caller : \/ \E q \in Queries : Query(c, q)
                            \/ QueryStep(c)
                            \/ ClearDTCs(c)
    BY <1>1 DEF Next
  <2>2. CASE \E q \in Queries : Query(c, q)
    BY <2>2, QueryActionStep
  <2>3. CASE QueryStep(c)
    BY <2>3, BatchStep, AskPlainlyStep, AskWithQuirkStep, AskFailsStep,
       FinishStep DEF QueryStep
  <2>4. CASE ClearDTCs(c)
    BY <2>4, ClearStep
  <2> QED BY <2>1, <2>2, <2>3, <2>4
<1>2. CASE UNCHANGED vars
  <2>1. /\ UNCHANGED <<vehicle, proto, pc, calls, quirks>>
        /\ UNCHANGED <<pids, rest, batch, out, answered, ret, owed, heard>>
    BY <1>2 DEF vars, queryVars
  <2>2. TypeOK' /\ \A c \in Caller : Same(c)
    BY <2>1 DEF IInv, TypeOK, Same
  <2> QED BY <2>2, SameInv DEF IInv
<1> QED BY <1>1, <1>2

\* The invariant holds: the requests of a Query cut its argument into
\* consecutive pieces, each legal on this vehicle, and until it returns it
\* holds a reading of everything the answers so far owe (client.go, Query,
\* batchSize and service01; answer.go, answers; pid.go, parseReadings).
THEOREM Inductive == Spec => []IInv
<1> QED BY InitInv, StepInv, PTL DEF Spec

\* The variables have their types; the protocol is never learnt wrong.
THEOREM TypeCorrect == Spec => []TypeOK
<1>1. IInv => TypeOK
  BY DEF IInv
<1> QED BY <1>1, Inductive, PTL

\* A Query that succeeds has a reading of every PID of every answer that was
\* whole and meant for it, whatever else came and however its argument was
\* split into requests (client.go, Query and service01).
THEOREM NothingIsForgotten == Spec => []NothingForgotten
<1>1. IInv => NothingForgotten
  <2> SUFFICES ASSUME IInv, NEW c \in Caller, ret[c] = "ok",
                      NEW x \in owed[c]
               PROVE  \E i \in 1 .. Len(out[c]) :
                        out[c][i].pid = x[1] /\ out[c][i].ecu = x[2]
    BY DEF NothingForgotten
  <2>1. Holds(out[c], [pid |-> x[1], ecu |-> x[2]])
    BY DEF IInv, CallerInv, Returned, Complete
  <2> QED BY <2>1 DEF Holds, SameKey
<1> QED BY <1>1, Inductive, PTL

\* The result is in strict order: by the place of the PID in the argument,
\* then by ECU, and no PID and ECU twice (client.go, slices.SortStableFunc).
THEOREM ResultsAreInOrder == Spec => []InOrder
<1>1. IInv => InOrder
  BY DEF IInv, CallerInv, Returned, Sorted, InOrder
<1> QED BY <1>1, Inductive, PTL

\* ErrNoResponse means that no ECU answered any request of the call, nor
\* refused one with a code (client.go, Query and ClearDTCs): whatever was lost,
\* damaged, meant for another tester, or refused in two bytes that say no code.
THEOREM OnlySilenceIsNoResponse == Spec => []SilenceOnly
<1>1. IInv => SilenceOnly
  BY DEF IInv, CallerInv, Returned, SilenceOnly
<1> QED BY <1>1, Inductive, PTL

\* A request of several PIDs is made on a vehicle with CAN only, through a
\* transport that combines them, and never of more than fit, whichever
\* goroutine learnt the protocol (client.go, batchSize).
THEOREM RequestsAreLegal == Spec => []LegalRequests
<1>1. IInv => LegalRequests
  BY DEF IInv, CallerInv, BatchInv, LegalRequests
<1> QED BY <1>1, Inductive, PTL

=============================================================================
