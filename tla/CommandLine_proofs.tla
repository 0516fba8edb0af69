------------------------- MODULE CommandLine_proofs -------------------------
(***************************************************************************)
(* Proofs about CommandLine, for every alphabet, every length of a line    *)
(* and every limit of the parsers.                                         *)
(***************************************************************************)
EXTENDS CommandLine, FiniteSetTheorems, FunctionTheorems, SequenceTheorems, TLAPS

-----------------------------------------------------------------------------
(***************************************************************************)
(* Places: the n-th of a set, and the members of a sequence at a set.      *)
(***************************************************************************)
AtMost(S, k) == {m \in S : m <= k}
Rank(S, k)   == Cardinality(AtMost(S, k))

\* A set of numbers that is not empty has a least element.
LEMMA LeastNumber ==
  ASSUME NEW S, S \subseteq Nat, S # {}
  PROVE  \E n \in S : \A k \in S : n <= k
<1> DEFINE R == OpToRel(<, Nat)
<1>1. PICK n \in S : \A k \in S : <<k, n>> \notin R
  BY NatLessThanWellFounded, WFMin, Zenon
<1>2. \A k \in S : ~(k < n)
  <2> TAKE k \in S
  <2>1. k \in Nat /\ n \in Nat /\ <<k, n>> \notin R
    BY <1>1
  <2>2. k < n => <<k, n>> \in R
    BY <2>1 DEF OpToRel
  <2> QED BY <2>1, <2>2
<1> QED BY <1>2

\* A place of a sequence has as many before it as there are smaller ones.
LEMMA RankGrows ==
  ASSUME NEW S, IsFiniteSet(S), S \subseteq Int, NEW k \in Int
  PROVE  /\ Rank(S, k) \in Nat /\ Rank(S, k) <= Cardinality(S)
         /\ \A m \in S : k < m => Rank(S, k) < Rank(S, m)
         /\ k \in S => Rank(S, k) >= 1
<1>1. /\ \A m \in Int : AtMost(S, m) \in SUBSET S
      /\ \A m \in Int : IsFiniteSet(AtMost(S, m)) /\ Cardinality(AtMost(S, m)) \in Nat
  <2>1. \A m \in Int : AtMost(S, m) \in SUBSET S
    BY DEF AtMost
  <2> QED
    BY <2>1, FS_Subset, FS_CardinalityType
<1>2. Cardinality(AtMost(S, k)) <= Cardinality(S)
  BY <1>1, FS_Subset
<1>3. ASSUME NEW m \in S, k < m PROVE Cardinality(AtMost(S, k)) < Cardinality(AtMost(S, m))
  <2>0. m \in Int /\ \A j \in S : j <= k => j <= m
    BY <1>3
  <2>1. m \in Int /\ AtMost(S, k) \in SUBSET AtMost(S, m)
    BY <2>0 DEF AtMost
  <2>2. m \in AtMost(S, m) /\ m \notin AtMost(S, k)
    BY <1>3, <2>1 DEF AtMost
  <2> QED
    BY <1>1, <2>1, <2>2, FS_Subset
<1>4. ASSUME k \in S PROVE Cardinality(AtMost(S, k)) >= 1
  <2>1. AtMost(S, k) # {}
    BY <1>4 DEF AtMost
  <2>2. Cardinality(AtMost(S, k)) # 0
    BY <1>1, <2>1, FS_EmptySet
  <2> QED
    BY <1>1, <2>2
<1> QED
  BY <1>1, <1>2, <1>3, <1>4 DEF Rank

\* The n-th place is a place, and the one of rank n; places are in order.
LEMMA NthIs ==
  ASSUME NEW S, IsFiniteSet(S), S \subseteq Int
  PROVE  /\ Cardinality(S) \in Nat
         /\ \A k \in S : Rank(S, k) \in 1..Cardinality(S) /\ Nth(S, Rank(S, k)) = k
         /\ \A n \in 1..Cardinality(S) : Nth(S, n) \in S /\ Rank(S, Nth(S, n)) = n
         /\ \A n, m \in 1..Cardinality(S) : n < m => Nth(S, n) < Nth(S, m)
<1> DEFINE c == Cardinality(S)
           f == [k \in S |-> Rank(S, k)]
<1>1. c \in Nat
  BY FS_CardinalityType
<1>2. /\ \A k \in S : Rank(S, k) \in 1..c
      /\ \A k, m \in S : k < m => Rank(S, k) < Rank(S, m)
      /\ \A k \in S : k \in Int /\ Rank(S, k) \in Nat
  <2>1. \A k \in S : k \in Int
    OBVIOUS
  <2>2. \A k \in S : /\ Rank(S, k) \in Nat /\ Rank(S, k) <= c /\ Rank(S, k) >= 1
                    /\ \A m \in S : k < m => Rank(S, k) < Rank(S, m)
    BY <2>1, RankGrows
  <2> HIDE DEF c
  <2> QED
    BY <1>1, <2>1, <2>2
<1>3. \A k, m \in S : Rank(S, k) = Rank(S, m) => k = m
  BY <1>2
<1>4. f \in Injection(S, 1..c)
  <2>1. f \in [S -> 1..c] /\ \A a, b \in S : f[a] = f[b] => a = b
    BY <1>2, <1>3
  <2> HIDE DEF f
  <2> QED
    BY <2>1 DEF Injection, IsInjective
<1>5. f \in Surjection(S, 1..c)
  <2>1. IsFiniteSet(1..c) /\ Cardinality(1..c) = c
    BY <1>1, FS_Interval
  <2> QED
    BY <1>4, <2>1, FS_Injection
<1>6. \A n \in 1..c : \E k \in S : Rank(S, k) = n
  BY <1>5 DEF Surjection
<1>7. ASSUME NEW n \in 1..c PROVE Nth(S, n) \in S /\ Rank(S, Nth(S, n)) = n
  BY <1>6 DEF Nth, Rank, AtMost
<1>8. \A k \in S : Nth(S, Rank(S, k)) = k
  BY <1>2, <1>3, <1>7
<1>9. ASSUME NEW n \in 1..c, NEW m \in 1..c, n < m PROVE Nth(S, n) < Nth(S, m)
  <2>1. /\ Nth(S, n) \in S /\ Nth(S, m) \in S
        /\ Rank(S, Nth(S, n)) = n /\ Rank(S, Nth(S, m)) = m
    BY <1>7
  <2>2. Nth(S, n) \in Int /\ Nth(S, m) \in Int /\ n \in Int /\ m \in Int
    <3>1. n \in Int /\ m \in Int
      BY <1>1
    <3>2. Nth(S, n) \in Int /\ Nth(S, m) \in Int
      BY <1>2, <2>1
    <3> QED
      BY <3>1, <3>2
  <2>3. Nth(S, m) < Nth(S, n) => m < n
    BY <1>2, <2>1
  <2>4. Nth(S, m) # Nth(S, n)
    BY <1>9, <2>1, <2>2
  <2> QED
    BY <1>9, <2>2, <2>3, <2>4
<1> QED
  BY <1>1, <1>2, <1>7, <1>8, <1>9

\* Members of s at a set of places are a sequence of them.
LEMMA AtIs ==
  ASSUME NEW S, IsFiniteSet(S), S \subseteq Int,
         NEW T, NEW s, \A k \in S : s[k] \in T
  PROVE  /\ At(s, S) \in Seq(T) /\ Len(At(s, S)) = Cardinality(S)
         /\ \A n \in 1..Cardinality(S) : At(s, S)[n] = s[Nth(S, n)]
<1>1. Cardinality(S) \in Nat /\ \A n \in 1..Cardinality(S) : s[Nth(S, n)] \in T
  BY NthIs
<1> QED
  BY <1>1 DEF At

-----------------------------------------------------------------------------
(***************************************************************************)
(* The library: First, Trimmed and Tokens.                                 *)
(***************************************************************************)
LEMMA FirstIs ==
  ASSUME NEW T, NEW s \in Seq(T), NEW n \in Nat
  PROVE  /\ First(s, n) \in Seq(T) /\ Len(First(s, n)) <= n
         /\ Len(First(s, n)) <= Len(s)
         /\ Len(s) <= n => First(s, n) = s
         /\ \A k \in DOMAIN First(s, n) : k \in DOMAIN s /\ First(s, n)[k] = s[k]
<1> DEFINE m == IF Len(s) < n THEN Len(s) ELSE n
<1>1. m \in 0..Len(s) /\ m <= n /\ Len(s) \in Nat
  OBVIOUS
<1>2. /\ SubSeq(s, 1, m) \in Seq(T) /\ Len(SubSeq(s, 1, m)) = m
      /\ \A k \in 1..m : SubSeq(s, 1, m)[k] = s[k]
  BY <1>1, SubSeqProperties
<1>3. Len(s) <= n => SubSeq(s, 1, m) = s
  BY <1>1, <1>2
<1> QED
  BY <1>1, <1>2, <1>3 DEF First

LEMMA GreatestNumber ==
  ASSUME NEW S, NEW b \in Nat, S \subseteq 1..b, S # {}
  PROVE  \E n \in S : \A k \in S : k <= n
<1> DEFINE D == {b - k : k \in S}
<1>1. D \subseteq Nat /\ D # {}
  <2>1. \A k \in S : b - k \in Nat
    OBVIOUS
  <2> QED
    BY <2>1
<1>2. PICK d \in D : \A e \in D : d <= e
  <2> HIDE DEF D
  <2> QED
    BY <1>1, LeastNumber
<1>3. PICK n \in S : d = b - n
  BY <1>2
<1>4. ASSUME NEW k \in S PROVE k <= n
  <2>1. b - k \in D
    OBVIOUS
  <2>2. b - n <= b - k
    BY <1>2, <1>3, <2>1
  <2>3. k \in Int /\ n \in Int /\ b \in Int
    OBVIOUS
  <2> QED
    BY <2>2, <2>3
<1> QED
  BY <1>4

\* The blanks are off at both ends.
LEMMA TrimmedIs ==
  ASSUME NEW T, NEW s \in Seq(T), NEW blanks
  PROVE  Trimmed(s, blanks) \in Seq(T)
<1> DEFINE Solid == {k \in DOMAIN s : s[k] \notin blanks}
<1>1. Solid \subseteq 1..Len(s) /\ Len(s) \in Nat
  OBVIOUS
<1>2. ASSUME Solid # {} PROVE SubSeq(s, Min(Solid), Max(Solid)) \in Seq(T)
  <2> HIDE DEF Solid
  <2>1. \E n \in Solid : \A k \in Solid : n <= k
    <3>1. Solid \subseteq Nat
      BY <1>1
    <3> QED
      BY <1>2, <3>1, LeastNumber
  <2>2. \E n \in Solid : \A k \in Solid : n >= k
    <3>1. PICK n \in Solid : \A k \in Solid : k <= n
      BY <1>1, <1>2, GreatestNumber
    <3> QED
      BY <1>1, <3>1
  <2>3. Min(Solid) \in Solid /\ Max(Solid) \in Solid
    BY <2>1, <2>2 DEF Min, Max
  <2>4. \A k \in Solid : k \in Int /\ 1 <= k /\ k <= Len(s)
    BY <1>1
  <2>5. \A i \in Min(Solid)..Max(Solid) : s[i] \in T
    <3>1. \A a, b \in Solid : \A i \in a..b : i \in 1..Len(s)
      BY <1>1, <2>4
    <3>2. \A i \in 1..Len(s) : s[i] \in T
      OBVIOUS
    <3> QED
      BY <2>3, <3>1, <3>2
  <2> QED
    BY <2>3, <2>4, <2>5, SubSeqProperties
<1> QED
  BY <1>2 DEF Trimmed

\* Each token ends before the first separator behind its start, or at the end of s.
LEMMA TokenEnds ==
  ASSUME NEW T, NEW s \in Seq(T), NEW seps, NEW k \in Starts(s, seps)
  PROVE  /\ k \in 1..Len(s) /\ EndOf(s, seps, k) \in k..Len(s)
         /\ \A m \in k..EndOf(s, seps, k) : Inside(s, seps, m)
         /\ ~Inside(s, seps, EndOf(s, seps, k) + 1)
<1> DEFINE Stops == {e \in k..Len(s) : ~Inside(s, seps, e + 1)}
<1>1. k \in 1..Len(s) /\ Len(s) \in Nat /\ Inside(s, seps, k) /\ k \in Int
  BY DEF Starts
<1>2. Stops \subseteq Nat /\ Len(s) \in Stops
  BY <1>1 DEF Inside
<1>3. PICK e \in Stops : \A d \in Stops : e <= d
  <2> HIDE DEF Stops
  <2> QED
    BY <1>2, LeastNumber
<1>4. e \in k..Len(s) /\ ~Inside(s, seps, e + 1) /\ e \in Int
  BY <1>1, <1>3
<1>5. ASSUME NEW m \in k..e PROVE Inside(s, seps, m)
  <2>1. SUFFICES ASSUME m # k PROVE Inside(s, seps, m)
    BY <1>1
  <2>2. m \in Int /\ m - 1 \in k..Len(s) /\ m - 1 < e /\ (m - 1) + 1 = m
    BY <1>1, <1>4, <2>1
  <2>3. m - 1 \notin Stops
    BY <1>3, <1>4, <2>2
  <2> QED
    BY <2>2, <2>3
<1> QED
  BY <1>1, <1>4, <1>5 DEF EndOf

\* The n-th token is the one with the n-th start.
InPlaces(s, seps) ==
  \A n \in 1..Cardinality(Starts(s, seps)) :
    Tokens(s, seps)[n]
      = SubSeq(s, Nth(Starts(s, seps), n), EndOf(s, seps, Nth(Starts(s, seps), n)))

LEMMA TokensAre ==
  ASSUME NEW T, NEW s \in Seq(T), NEW seps
  PROVE  /\ Starts(s, seps) \subseteq 1..Len(s) /\ IsFiniteSet(Starts(s, seps))
         /\ Tokens(s, seps) \in Seq(Seq(T \ seps) \ {<<>>})
         /\ Len(Tokens(s, seps)) = Cardinality(Starts(s, seps))
         /\ InPlaces(s, seps)
<1> DEFINE S == Starts(s, seps)
           W == Seq(T \ seps) \ {<<>>}
           t == [k \in S |-> SubSeq(s, k, EndOf(s, seps, k))]
<1>1. S \subseteq 1..Len(s) /\ IsFiniteSet(S) /\ S \subseteq Int
  <2>1. S \subseteq 1..Len(s) /\ Len(s) \in Nat
    BY DEF Starts
  <2>2. IsFiniteSet(1..Len(s))
    BY <2>1, FS_Interval
  <2> HIDE DEF S
  <2>3. IsFiniteSet(S)
    BY <2>1, <2>2, FS_Subset
  <2> QED
    BY <2>1, <2>3
<1>2. ASSUME NEW k \in S PROVE t[k] \in W
  <2> DEFINE e == EndOf(s, seps, k)
  <2>1. k \in 1..Len(s) /\ e \in k..Len(s) /\ \A m \in k..e : Inside(s, seps, m)
    BY TokenEnds
  <2>2. \A m \in k..e : s[m] \in T \ seps
    BY <2>1 DEF Inside
  <2>3. k \in Int /\ e \in Int /\ k <= e
    BY <2>1
  <2> HIDE DEF e
  <2>4. SubSeq(s, k, e) \in Seq(T \ seps) /\ Len(SubSeq(s, k, e)) = e - k + 1
    BY <2>2, <2>3, SubSeqProperties
  <2>5. SubSeq(s, k, e) # <<>>
    <3>1. Len(SubSeq(s, k, e)) # 0 /\ Len(<<>>) = 0
      BY <2>3, <2>4
    <3> QED
      BY <3>1
  <2> QED
    BY <2>4, <2>5 DEF e
<1> HIDE DEF S, t, W
<1>3. /\ At(t, S) \in Seq(W) /\ Len(At(t, S)) = Cardinality(S)
      /\ \A n \in 1..Cardinality(S) : At(t, S)[n] = t[Nth(S, n)]
  BY <1>1, <1>2, AtIs
<1>4. \A n \in 1..Cardinality(S) : Nth(S, n) \in S
  BY <1>1, NthIs
<1>5. Tokens(s, seps) = At(t, S)
  BY DEF Tokens, S, t
<1>6. \A k \in S : t[k] = SubSeq(s, k, EndOf(s, seps, k))
  BY DEF t
<1>7. InPlaces(s, seps)
  BY <1>3, <1>4, <1>5, <1>6 DEF InPlaces, S
<1> QED
  BY <1>1, <1>3, <1>5, <1>7 DEF S, W

-----------------------------------------------------------------------------
(***************************************************************************)
(* FlattenSeq: the recursive function that it is made of.                  *)
(***************************************************************************)
\* f joins the first n sequences of q.
Joins(f, q, n) ==
  /\ DOMAIN f = 1..n
  /\ \A i \in 1..n : f[i] = IF i = 1 THEN q[i] ELSE f[i - 1] \o q[i]

LEMMA JoinExists ==
  ASSUME NEW T, NEW q \in Seq(Seq(T))
  PROVE  \E f \in [1..Len(q) -> Seq(T)] : Joins(f, q, Len(q))
<1> DEFINE P(n) == \E f \in [1..n -> Seq(T)] : Joins(f, q, n)
           D == {n \in 0..Len(q) : ~P(n)}
<1>1. SUFFICES ASSUME D # {} PROVE FALSE
  OBVIOUS
<1>2. PICK n \in D : \A m \in D : n <= m
  <2>1. D \subseteq Nat
    OBVIOUS
  <2> HIDE DEF D
  <2> QED
    BY <1>1, <2>1, LeastNumber
<1>3. n \in 0..Len(q) /\ ~P(n) /\ n \in Int
  BY <1>2
<1>4. n # 0
  <2>1. [i \in 1..0 |-> q[i]] \in [1..0 -> Seq(T)] /\ Joins([i \in 1..0 |-> q[i]], q, 0)
    BY DEF Joins
  <2> QED
    BY <1>3, <2>1
<1>5. n - 1 \in 0..Len(q) /\ n - 1 < n /\ n \in 1..Len(q)
  BY <1>3, <1>4
<1>6. P(n - 1)
  <2>1. n - 1 \notin D
    <3>1. ~(n <= n - 1)
      BY <1>3
    <3> HIDE DEF D
    <3> QED
      BY <1>2, <3>1
  <2> QED
    BY <1>5, <2>1
<1> HIDE DEF D
<1>7. PICK g \in [1..n - 1 -> Seq(T)] : Joins(g, q, n - 1)
  BY <1>6
<1>8. q[n] \in Seq(T) /\ (n # 1 => n - 1 \in 1..n - 1 /\ g[n - 1] \in Seq(T))
  BY <1>3, <1>5, <1>7
<1> DEFINE last == IF n = 1 THEN q[n] ELSE g[n - 1] \o q[n]
           f == [i \in 1..n |-> IF i = n THEN last ELSE g[i]]
<1>9. last \in Seq(T)
  BY <1>8, ConcatProperties
<1>10. \A i \in 1..n : i # n => i \in 1..n - 1 /\ i \in Int
  BY <1>3
<1>11. f \in [1..n -> Seq(T)]
  <2> HIDE DEF last
  <2> QED
    BY <1>7, <1>9, <1>10
<1>12. Joins(f, q, n)
  <2>1. ASSUME NEW i \in 1..n
        PROVE  f[i] = IF i = 1 THEN q[i] ELSE f[i - 1] \o q[i]
    <3>1. i \in Int /\ (i # 1 => i - 1 \in 1..n /\ i - 1 # n)
      BY <1>3
    <3>2. CASE i = n
      BY <3>1, <3>2
    <3>3. CASE i # n
      <4>1. f[i] = g[i] /\ (i # 1 => f[i - 1] = g[i - 1])
        BY <3>1, <3>3
      <4>2. g[i] = IF i = 1 THEN q[i] ELSE g[i - 1] \o q[i]
        BY <1>7, <1>10, <3>3 DEF Joins
      <4> QED
        BY <4>1, <4>2
    <3> QED
      BY <3>2, <3>3
  <2> QED
    BY <2>1 DEF Joins
<1> QED
  BY <1>3, <1>11, <1>12

LEMMA JoinUnique ==
  ASSUME NEW q, NEW n \in Nat, NEW m \in Nat, m <= n,
         NEW f, Joins(f, q, n), NEW g, Joins(g, q, m)
  PROVE  \A i \in 1..m : f[i] = g[i]
<1> DEFINE D == {i \in 1..m : f[i] # g[i]}
<1>1. SUFFICES ASSUME D # {} PROVE FALSE
  OBVIOUS
<1>2. PICK i \in D : \A j \in D : i <= j
  <2>1. D \subseteq Nat
    OBVIOUS
  <2> HIDE DEF D
  <2> QED
    BY <1>1, <2>1, LeastNumber
<1>3. i \in 1..m /\ i \in 1..n /\ i \in Int /\ f[i] # g[i]
  BY <1>2
<1>4. i # 1 => f[i - 1] = g[i - 1]
  <2>1. i # 1 => i - 1 \in 1..m /\ ~(i <= i - 1)
    BY <1>3
  <2> QED
    BY <1>2, <2>1
<1> QED
  BY <1>3, <1>4 DEF Joins

LEMMA FlattenIs ==
  ASSUME NEW T, NEW q \in Seq(Seq(T)), q # <<>>
  PROVE  \E f : /\ Joins(f, q, Len(q)) /\ FlattenSeq(q) = f[Len(q)]
               /\ \A i \in 1..Len(q) : f[i] \in Seq(T)
<1> DEFINE P(g) == g = [i \in 1..Len(q) |-> IF i = 1 THEN q[i] ELSE g[i - 1] \o q[i]]
<1>1. PICK f \in [1..Len(q) -> Seq(T)] : Joins(f, q, Len(q))
  BY JoinExists
<1>2. P(f)
  BY <1>1 DEF Joins
<1>3. Len(q) # 0 /\ Len(q) \in Nat
  OBVIOUS
<1>4. FlattenSeq(q) = (CHOOSE g : P(g))[Len(q)]
  BY <1>3 DEF FlattenSeq
<1>5. P(CHOOSE g : P(g))
  <2> HIDE DEF P
  <2> QED
    BY <1>2
<1>6. \A g : P(g) => Joins(g, q, Len(q))
  BY DEF Joins
<1> HIDE DEF P
<1>7. \A i \in 1..Len(q) : (CHOOSE g : P(g))[i] = f[i]
  BY <1>1, <1>3, <1>5, <1>6, JoinUnique
<1>8. Len(q) \in 1..Len(q)
  BY <1>3
<1> QED
  BY <1>1, <1>4, <1>7, <1>8

\* A sequence flattened is the last one behind the others flattened.
LEMMA FlattenFront ==
  ASSUME NEW T, NEW q \in Seq(Seq(T)), q # <<>>
  PROVE  /\ FlattenSeq(q) \in Seq(T)
         /\ Len(q) = 1 => FlattenSeq(q) = q[1]
         /\ Len(q) > 1 => FlattenSeq(q) = FlattenSeq(SubSeq(q, 1, Len(q) - 1)) \o q[Len(q)]
<1>1. PICK n : n = Len(q) /\ n \in Nat /\ n >= 1 /\ n \in 1..n
  OBVIOUS
<1>2. PICK f : Joins(f, q, n) /\ FlattenSeq(q) = f[n] /\ \A i \in 1..n : f[i] \in Seq(T)
  BY <1>1, FlattenIs
<1>3. ASSUME n > 1 PROVE FlattenSeq(q) = FlattenSeq(SubSeq(q, 1, n - 1)) \o q[n]
  <2>1. n \in Int /\ n - 1 \in Nat /\ n - 1 <= n /\ n - 1 \in 1..n - 1 /\ n # 1 /\ n - 1 # 0
    <3>1. n \in Int
      BY <1>1
    <3>2. n > 1
      BY <1>3
    <3> QED
      BY <3>1, <3>2
  <2>2. PICK p : p = SubSeq(q, 1, n - 1)
    OBVIOUS
  <2>3. \A i \in 1..n - 1 : q[i] \in Seq(T) /\ 1 + i - 1 = i
    BY <1>1, <2>1
  <2>4. /\ p \in Seq(Seq(T)) /\ Len(p) = n - 1
        /\ \A i \in 1..n - 1 : p[i] = q[i]
    BY <2>1, <2>2, <2>3, SubSeqProperties
  <2>5. p # <<>>
    BY <2>1, <2>4
  <2>6. PICK g : Joins(g, p, n - 1) /\ FlattenSeq(p) = g[n - 1]
    BY <2>4, <2>5, FlattenIs
  <2>7. Joins(g, q, n - 1)
    BY <2>4, <2>6 DEF Joins
  <2>8. \A i \in 1..n - 1 : f[i] = g[i]
    BY <1>1, <1>2, <2>1, <2>7, JoinUnique
  <2>9. f[n] = f[n - 1] \o q[n]
    BY <1>1, <1>2, <2>1 DEF Joins
  <2> QED
    BY <1>2, <2>1, <2>2, <2>6, <2>8, <2>9
<1>4. n = 1 => FlattenSeq(q) = q[1]
  BY <1>2 DEF Joins
<1>5. f[n] \in Seq(T)
  BY <1>1, <1>2
<1> QED
  BY <1>1, <1>2, <1>3, <1>4, <1>5

-----------------------------------------------------------------------------
(***************************************************************************)
(* The limits of the parsers.                                              *)
(***************************************************************************)
LEMMA StrLenIs ==
  ASSUME NEW T, NEW q \in Seq(Seq(T))
  PROVE  /\ q = <<>> => StrLen(q) = 0
         /\ q # <<>> => /\ StrLen(q) = Len(FlattenSeq(q)) + Len(q) - 1
                        /\ FlattenSeq(q) \in Seq(T)
         /\ StrLen(q) \in Nat
<1>1. CASE q = <<>>
  BY <1>1 DEF StrLen
<1>2. CASE q # <<>>
  <2>1. FlattenSeq(q) \in Seq(T)
    BY <1>2, FlattenFront
  <2>2. Len(FlattenSeq(q)) \in Nat /\ Len(q) \in Nat /\ Len(q) # 0
    BY <1>2, <2>1
  <2>3. StrLen(q) = Len(FlattenSeq(q)) + Len(q) - 1
    BY <1>2 DEF StrLen
  <2> QED
    BY <1>2, <2>1, <2>2, <2>3
<1> QED
  BY <1>1, <1>2

\* build_cmd_list() of ShellP1 tests the room before it appends a word, so what it
\* has appended fits, with its NUL.
LEMMA ArgsFit ==
  ASSUME NEW T, NEW ws \in Seq(Seq(T)), ws # <<>>, ~TooBig(ws)
  PROVE  StrLen(Tail(ws)) < ArgMax
<1>1. PICK n : n = Len(ws) /\ n \in Nat /\ n >= 1
  OBVIOUS
<1>2. PICK q : q = Tail(ws)
  OBVIOUS
<1>3. /\ q \in Seq(Seq(T)) /\ Len(q) = n - 1
      /\ \A i \in 1..n - 1 : q[i] = ws[i + 1]
  BY <1>1, <1>2, HeadTailProperties
<1>4. CASE n = 1
  <2>1. q = <<>>
    BY <1>3, <1>4
  <2> QED
    BY <1>2, <2>1, BoundsAssumption DEF StrLen
<1>5. CASE n > 1
  <2>1. n \in Int /\ n - 1 \in Nat /\ n \in 2..n /\ n - 1 # 0 /\ n - 1 \in 1..n - 1
        /\ n - 1 + 1 = n
    <3>1. n \in Int
      BY <1>1
    <3>2. n > 1
      BY <1>5
    <3> QED
      BY <3>1, <3>2
  <2>2. q # <<>> /\ q[n - 1] = ws[n]
    BY <1>3, <2>1
  <2>3. PICK w : w = SubSeq(ws, 2, n - 1)
    OBVIOUS
  <2>4. /\ w \in Seq(Seq(T)) /\ Len(w) = n - 2
        /\ \A i \in 1..n - 2 : w[i] = q[i]
    <3>1. /\ 2 \in Int /\ n - 1 \in Int /\ \A i \in 2..n - 1 : i \in 1..n
          /\ (IF 2 <= n - 1 THEN (n - 1) - 2 + 1 ELSE 0) = n - 2
      BY <1>5, <2>1
    <3>2. \A i \in 2..n - 1 : ws[i] \in Seq(T)
      BY <1>1, <3>1
    <3>3. /\ w \in Seq(Seq(T)) /\ Len(w) = n - 2
          /\ \A i \in 1..(n - 1) - 2 + 1 : w[i] = ws[2 + i - 1]
      BY <2>3, <3>1, <3>2, SubSeqProperties
    <3>4. \A i \in 1..n - 2 : i \in 1..(n - 1) - 2 + 1 /\ 2 + i - 1 = i + 1 /\ i \in 1..n - 1
      BY <2>1
    <3> QED
      BY <1>3, <3>3, <3>4
  <2>5. ws[n] \in Seq(T) /\ Len(ws[n]) \in Nat /\ StrLen(w) \in Nat /\ ArgMax \in Nat
    BY <1>1, <2>4, StrLenIs, BoundsAssumption
  <2>6. StrLen(w) + Len(ws[n]) + 1 < ArgMax
    <3>1. ~(StrLen(w) + Len(ws[n]) + 1 >= ArgMax)
      BY <1>1, <2>1, <2>3 DEF TooBig
    <3> QED
      BY <2>5, <3>1
  <2>7. /\ FlattenSeq(q) \in Seq(T) /\ StrLen(q) = Len(FlattenSeq(q)) + (n - 1) - 1
        /\ Len(q) = 1 => FlattenSeq(q) = ws[n]
        /\ Len(q) > 1 => FlattenSeq(q) = FlattenSeq(SubSeq(q, 1, Len(q) - 1)) \o ws[n]
    BY <1>3, <2>2, StrLenIs, FlattenFront
  <2>8. CASE n = 2
    BY <1>2, <1>3, <2>5, <2>6, <2>7, <2>8
  <2>9. CASE n # 2
    <3>1. n - 2 \in Nat /\ n - 2 # 0 /\ 1 <= n - 2 /\ n - 1 - 1 = n - 2 /\ n - 2 - 1 + 1 = n - 2
      BY <1>5, <2>1, <2>9
    <3>2. w = SubSeq(q, 1, n - 2)
      <4>1. \A i \in 1..n - 2 : i \in 1..n - 1 /\ 1 + i - 1 = i /\ i \in 1..n - 2 - 1 + 1
        BY <2>1
      <4>2. \A i \in 1..n - 2 : q[i] \in Seq(T)
        BY <1>3, <4>1
      <4>3. PICK x : x = SubSeq(q, 1, n - 2)
        OBVIOUS
      <4>4. /\ x \in Seq(Seq(T)) /\ Len(x) = n - 2
            /\ \A i \in 1..n - 2 : x[i] = q[i]
        BY <3>1, <4>1, <4>2, <4>3, SubSeqProperties
      <4> QED
        BY <2>4, <3>1, <4>3, <4>4
    <3>3. w # <<>> /\ Len(q) > 1
      BY <1>3, <2>1, <2>4, <3>1
    <3>4. PICK u, v : u = FlattenSeq(w) /\ v = FlattenSeq(q)
      OBVIOUS
    <3>5. v = u \o ws[n]
      BY <1>3, <2>7, <3>1, <3>2, <3>3, <3>4
    <3>6. u \in Seq(T) /\ StrLen(w) = Len(u) + (n - 2) - 1
      BY <2>4, <3>3, <3>4, StrLenIs
    <3>7. Len(v) = Len(u) + Len(ws[n]) /\ Len(u) \in Nat
      BY <2>5, <3>5, <3>6, ConcatProperties
    <3>8. StrLen(q) = Len(v) + (n - 1) - 1
      BY <2>7, <3>4
    <3>9. StrLen(q) = StrLen(w) + Len(ws[n]) + 1
      <4>1. \A a, b, k \in Int : (a + b) + (k - 1) - 1 = (a + (k - 2) - 1) + b + 1
        OBVIOUS
      <4>2. Len(u) \in Int /\ Len(ws[n]) \in Int /\ n \in Int
        BY <2>1, <2>5, <3>7
      <4>3. /\ StrLen(q) = (Len(u) + Len(ws[n])) + (n - 1) - 1
            /\ StrLen(w) + Len(ws[n]) + 1 = (Len(u) + (n - 2) - 1) + Len(ws[n]) + 1
        BY <3>6, <3>7, <3>8, Zenon
      <4> QED
        BY <4>1, <4>2, <4>3
    <3> QED
      BY <1>2, <2>6, <3>9
  <2> QED
    BY <2>8, <2>9
<1> QED
  BY <1>1, <1>4, <1>5

LEMMA Limits ==
  /\ CmdMax \in Nat /\ ArgvMax - 1 \in Nat /\ ExeMax - 1 \in Nat
  /\ ArgMax \in Nat /\ ArgMax > 0 /\ ExeMax > 0 /\ CmdMax > 0
  /\ \A k \in Nat : (k <= ExeMax - 1 => k < ExeMax) /\ (k <= ArgvMax - 1 => k < ArgvMax)
<1>1. \A k \in {CmdMax, ArgvMax, ExeMax, ArgMax} : k \in Nat /\ k # 0
  BY BoundsAssumption
<1>2. \A k \in Nat : k # 0 => k - 1 \in Nat /\ k > 0 /\ \A j \in Nat : j <= k - 1 => j < k
  OBVIOUS
<1>3. /\ CmdMax \in Nat /\ CmdMax # 0 /\ ArgvMax \in Nat /\ ArgvMax # 0
      /\ ExeMax \in Nat /\ ExeMax # 0 /\ ArgMax \in Nat /\ ArgMax # 0
  BY <1>1
<1> QED
  BY <1>2, <1>3

LEMMA TokensOf ==
  ASSUME NEW T, NEW s \in Seq(T), NEW seps
  PROVE  /\ Tokens(s, seps) \in Seq(Seq(T))
         /\ \A n \in DOMAIN Tokens(s, seps) : Tokens(s, seps)[n] # <<>>
<1> DEFINE W == Seq(T \ seps) \ {<<>>}
<1>1. W \subseteq Seq(T) /\ <<>> \notin W
  <2>1. T \ seps \subseteq T
    OBVIOUS
  <2>2. \A w \in Seq(T \ seps) : w \in Seq(T)
    BY <2>1
  <2> QED
    BY <2>2
<1> HIDE DEF W
<1>2. Tokens(s, seps) \in Seq(W)
  BY TokensAre DEF W
<1> QED
  BY <1>1, <1>2

LEMMA WordsFit ==
  ASSUME NEW T, NEW ws \in Seq(Seq(T)), ~TooBig(ws)
  PROVE  /\ ws # <<>> => /\ Len(First(ws[1], ExeMax - 1)) < ExeMax
                         /\ StrLen(Tail(ws)) < ArgMax
         /\ Len(<<>>) < ExeMax /\ StrLen(<<>>) < ArgMax
<1>1. CASE ws = <<>>
  <2>1. StrLen(<<>>) = 0 /\ Len(<<>>) = 0
    BY DEF StrLen
  <2> QED
    BY <1>1, <2>1, Limits
<1>2. CASE ws # <<>>
  <2>1. ws[1] \in Seq(T)
    BY <1>2
  <2>2. First(ws[1], ExeMax - 1) \in Seq(T) /\ Len(First(ws[1], ExeMax - 1)) <= ExeMax - 1
    BY <2>1, Limits, FirstIs
  <2>3. Len(First(ws[1], ExeMax - 1)) \in Nat
    BY <2>2
  <2>4. Len(First(ws[1], ExeMax - 1)) < ExeMax
    BY <2>2, <2>3, Limits
  <2>5. StrLen(Tail(ws)) < ArgMax
    BY <1>2, ArgsFit
  <2>6. StrLen(<<>>) = 0 /\ Len(<<>>) = 0
    BY DEF StrLen
  <2> QED
    BY <2>4, <2>5, <2>6, Limits
<1> QED
  BY <1>1, <1>2

\* The name and the arguments of one command of ShellP1 fit with their NUL.
LEMMA Command1Fits ==
  ASSUME NEW T, NEW s \in Seq(T)
  PROVE  ~TooBig(Tokens(s, {" "}))
           => Len(Command1(s).exe) < ExeMax /\ StrLen(Command1(s).args) < ArgMax
<1>1. PICK ws : ws = Tokens(s, {" "})
  OBVIOUS
<1>2. ws \in Seq(Seq(T))
  BY <1>1, TokensOf
<1>3. ~TooBig(ws) => /\ ws # <<>> => /\ Len(First(ws[1], ExeMax - 1)) < ExeMax
                                      /\ StrLen(Tail(ws)) < ArgMax
                     /\ Len(<<>>) < ExeMax /\ StrLen(<<>>) < ArgMax
  BY <1>2, WordsFit
<1>4. /\ Command1(s).exe = IF ws = <<>> THEN <<>> ELSE First(ws[1], ExeMax - 1)
      /\ Command1(s).args = IF ws = <<>> THEN <<>> ELSE Tail(ws)
  BY <1>1 DEF Command1
<1> QED
  BY <1>1, <1>3, <1>4

LEMMA ShellP1Fits ==
  ASSUME NEW T, NEW s \in Seq(T)
  PROVE  /\ Len(ShellP1(s).cmds) <= CmdMax
         /\ \A n \in DOMAIN ShellP1(s).cmds :
              /\ Len(ShellP1(s).cmds[n].exe) < ExeMax
              /\ StrLen(ShellP1(s).cmds[n].args) < ArgMax
<1> DEFINE t     == Trimmed(s, {" "})
           parts == Tokens(t, {Pipe})
           cmds  == First(parts, CmdMax)
           bad   == \E n \in DOMAIN cmds : TooBig(Tokens(cmds[n], {" "}))
<1>1. CmdMax \in Nat
  BY Limits
<1>2. cmds \in Seq(Seq(T)) /\ Len(cmds) <= CmdMax
  <2>1. t \in Seq(T)
    BY TrimmedIs
  <2> HIDE DEF t
  <2>2. parts \in Seq(Seq(T))
    BY <2>1, TokensOf
  <2> HIDE DEF parts
  <2> QED
    BY <1>1, <2>2, FirstIs
<1>3. \/ ShellP1(s).cmds = <<>>
      \/ ~bad /\ ShellP1(s).cmds = [n \in DOMAIN cmds |-> Command1(cmds[n])]
  BY DEF ShellP1
<1>4. CASE ShellP1(s).cmds = <<>>
  BY <1>1, <1>4
<1>5. CASE ~bad /\ ShellP1(s).cmds = [n \in DOMAIN cmds |-> Command1(cmds[n])]
  <2>1. \A n \in DOMAIN cmds : cmds[n] \in Seq(T) /\ ~TooBig(Tokens(cmds[n], {" "}))
    <3>1. ~bad
      BY <1>5
    <3> HIDE DEF cmds
    <3>2. \A n \in DOMAIN cmds : ~TooBig(Tokens(cmds[n], {" "}))
      BY <3>1
    <3>3. \A n \in DOMAIN cmds : cmds[n] \in Seq(T)
      BY <1>2
    <3> QED
      BY <3>2, <3>3
  <2> HIDE DEF cmds
  <2>2. \A n \in DOMAIN cmds : /\ Len(Command1(cmds[n]).exe) < ExeMax
                               /\ StrLen(Command1(cmds[n]).args) < ArgMax
    BY <2>1, Command1Fits
  <2>3. DOMAIN cmds = 1..Len(cmds) /\ Len(cmds) \in Nat
    BY <1>2
  <2>4. Len(ShellP1(s).cmds) = Len(cmds)
    <3>1. PICK k : k = Len(cmds) /\ k \in Nat /\ DOMAIN cmds = 1..k
      BY <2>3
    <3>2. ShellP1(s).cmds = [n \in 1..k |-> Command1(cmds[n])]
      BY <1>5, <3>1, Zenon
    <3>3. Len([n \in 1..k |-> Command1(cmds[n])]) = k
      BY <3>1
    <3> QED
      BY <3>1, <3>2, <3>3
  <2> QED
    BY <1>2, <1>5, <2>2, <2>4
<1> QED
  BY <1>3, <1>4, <1>5

\* build_cmd_buff() of ShellP3 leaves the place of the NULL at the end of argv.
LEMMA ArgvFits ==
  ASSUME NEW T, NEW s \in Seq(T)
  PROVE  Argv(s) \in Seq(Seq(T)) /\ Len(Argv(s)) < ArgvMax
<1>1. PICK ws : ws = Tokens(s, {" "})
  OBVIOUS
<1>2. ws \in Seq(Seq(T))
  BY <1>1, TokensOf
<1>3. First(ws, ArgvMax - 1) \in Seq(Seq(T)) /\ Len(First(ws, ArgvMax - 1)) <= ArgvMax - 1
  BY <1>2, Limits, FirstIs
<1>4. Argv(s) = First(ws, ArgvMax - 1)
  BY <1>1 DEF Argv
<1>5. Len(Argv(s)) \in Nat
  BY <1>3, <1>4
<1> QED
  BY <1>3, <1>4, <1>5, Limits

LEMMA StagesAre ==
  ASSUME NEW T, NEW s \in Seq(T)
  PROVE  AllStages(s) \in Seq(Seq(T)) /\ Stages(s) \in Seq(Seq(T)) /\ Len(Stages(s)) <= CmdMax
<1> DEFINE parts   == Tokens(s, {Pipe})
           trimmed == [n \in DOMAIN parts |-> Trimmed(parts[n], Blanks)]
           S       == {n \in DOMAIN parts : trimmed[n] # <<>>}
<1>1. parts \in Seq(Seq(T))
  BY TokensOf
<1> HIDE DEF parts
<1>2. DOMAIN parts = 1..Len(parts) /\ Len(parts) \in Nat
  BY <1>1
<1>3. \A n \in DOMAIN parts : trimmed[n] \in Seq(T)
  <2>1. \A n \in DOMAIN parts : parts[n] \in Seq(T)
    BY <1>1
  <2> QED
    BY <2>1, TrimmedIs
<1> HIDE DEF trimmed
<1>4. S \subseteq DOMAIN parts /\ S \subseteq Int
  BY <1>2
<1> HIDE DEF S
<1>5. IsFiniteSet(S)
  <2>1. IsFiniteSet(1..Len(parts))
    BY <1>2, FS_Interval
  <2> QED
    BY <1>2, <1>4, <2>1, FS_Subset
<1>6. At(trimmed, S) \in Seq(Seq(T))
  BY <1>3, <1>4, <1>5, AtIs
<1>7. AllStages(s) = At(trimmed, S)
  BY DEF AllStages, S, trimmed, parts
<1>8. CmdMax \in Nat
  BY Limits
<1>9. First(AllStages(s), CmdMax) \in Seq(Seq(T)) /\ Len(First(AllStages(s), CmdMax)) <= CmdMax
  BY <1>6, <1>7, <1>8, FirstIs
<1> QED
  BY <1>6, <1>7, <1>9 DEF Stages

LEMMA ShellP3Fits ==
  ASSUME NEW T, NEW s \in Seq(T)
  PROVE  /\ Len(ShellP3(s).cmds) <= CmdMax
         /\ \A n \in DOMAIN ShellP3(s).cmds : Len(ShellP3(s).cmds[n]) < ArgvMax
<1> DEFINE stages == Stages(s)
<1>1. CmdMax \in Nat /\ CmdMax >= 1
  <2>1. \A k \in Nat : k > 0 => k >= 1
    OBVIOUS
  <2> QED
    BY <2>1, Limits
<1>2. /\ stages \in Seq(Seq(T)) /\ Len(stages) <= CmdMax
      /\ DOMAIN stages = 1..Len(stages) /\ Len(stages) \in Nat
  BY StagesAre
<1>3. \A n \in DOMAIN stages : stages[n] \in Seq(T)
  BY <1>2
<1>4. \/ ShellP3(s).cmds = <<>>
      \/ ShellP3(s).cmds = [n \in DOMAIN stages |-> Argv(stages[n])]
      \/ ShellP3(s).cmds = <<Argv(s)>>
  BY DEF ShellP3
<1>5. CASE ShellP3(s).cmds = <<>>
  BY <1>1, <1>5
<1> HIDE DEF stages
<1>6. CASE ShellP3(s).cmds = [n \in DOMAIN stages |-> Argv(stages[n])]
  <2>1. \A n \in DOMAIN stages : Len(Argv(stages[n])) < ArgvMax
    BY <1>3, ArgvFits
  <2>2. PICK k : k = Len(stages) /\ k \in Nat /\ DOMAIN stages = 1..k
    BY <1>2
  <2>3. ShellP3(s).cmds = [n \in 1..k |-> Argv(stages[n])]
    BY <1>6, <2>2, Zenon
  <2>4. Len([n \in 1..k |-> Argv(stages[n])]) = k
    BY <2>2
  <2> QED
    BY <1>2, <2>1, <2>2, <2>3, <2>4
<1>7. CASE ShellP3(s).cmds = <<Argv(s)>>
  <2>1. Len(Argv(s)) < ArgvMax
    BY ArgvFits
  <2> QED
    BY <1>1, <1>7, <2>1
<1> QED
  BY <1>4, <1>5, <1>6, <1>7

-----------------------------------------------------------------------------

\* The arrays of the parsers are not overrun by a line of any length: command_list_t
\* has room for the commands of ShellP1 and ShellP3, exe and args for their text
\* with its NUL, argv for the words with the NULL behind them.
THEOREM TypeCorrect == Spec => []TypeOK
<1> DEFINE LineOK == line \in Seq(Chars) /\ Len(line) <= MaxLine
<1>1. Init => LineOK
  <2>1. MaxLine \in Nat
    BY BoundsAssumption
  <2> QED
    BY <2>1 DEF Init
<1>2. LineOK /\ [Next]_line => LineOK'
  <2> SUFFICES ASSUME LineOK, [Next]_line PROVE LineOK'
    OBVIOUS
  <2>1. CASE UNCHANGED line
    BY <2>1
  <2>2. ASSUME NEW c \in Chars, Type(c) PROVE LineOK'
    <3>1. Len(line) < MaxLine /\ line' = Append(line, c) /\ MaxLine \in Nat
      BY <2>2, BoundsAssumption DEF Type
    <3>2. line' \in Seq(Chars) /\ Len(line') = Len(line) + 1 /\ Len(line) \in Nat
      BY <3>1
    <3> QED
      BY <3>1, <3>2
  <2> QED
    BY <2>1, <2>2 DEF Next
<1>3. LineOK => TypeOK
  BY ShellP1Fits, ShellP3Fits DEF TypeOK
<1> QED
  BY <1>1, <1>2, <1>3, PTL DEF Spec

-----------------------------------------------------------------------------
(***************************************************************************)
(* Places of a stretch of a line, and what is between two places.          *)
(***************************************************************************)
LEMMA EndOfIs ==
  ASSUME NEW T, NEW s \in Seq(T), NEW seps, NEW k \in Nat, NEW e \in k..Len(s),
         \A m \in k..e : Inside(s, seps, m), ~Inside(s, seps, e + 1)
  PROVE  EndOf(s, seps, k) = e
<1> DEFINE P(x) == x \in k..Len(s) /\ (\A m \in k..x : Inside(s, seps, m))
                     /\ ~Inside(s, seps, x + 1)
<1>1. P(e) /\ e \in Int /\ k \in Int
  OBVIOUS
<1>2. ASSUME NEW x, P(x) PROVE x = e
  <2>1. x \in Int /\ k <= x /\ k <= e
    BY <1>1, <1>2
  <2>2. ~(x < e)
    <3>1. x < e => x + 1 \in k..e
      BY <1>1, <2>1
    <3> QED
      BY <1>2, <3>1
  <2>3. ~(e < x)
    <3>1. e < x => e + 1 \in k..x
      BY <1>1, <2>1
    <3> QED
      BY <1>2, <3>1
  <2> QED
    BY <1>1, <2>1, <2>2, <2>3
<1>3. EndOf(s, seps, k) = CHOOSE x : P(x)
  BY DEF EndOf
<1> HIDE DEF P
<1> QED
  BY <1>1, <1>2, <1>3

\* R has the members of S behind d, up to n of them on.
Shifted(R, S, d, n) == R \subseteq 1..n /\ \A i \in 1..n : i \in R <=> d + i \in S

\* Places shifted by d have their ranks shifted by the rank of d.
LEMMA RankShift ==
  ASSUME NEW S, IsFiniteSet(S), S \subseteq Int, NEW d \in Int, NEW n \in Nat,
         NEW R, Shifted(R, S, d, n)
  PROVE  \A i \in 0..n : Rank(S, d + i) = Rank(S, d) + Rank(R, i)
<1> TAKE i \in 0..n
<1> DEFINE A == AtMost(S, d)
           B == AtMost(R, i)
           C == {d + k : k \in B}
           f == [k \in B |-> d + k]
<1>1. /\ i \in Int /\ 0 <= i /\ i <= n
      /\ R \subseteq 1..n /\ \A k \in 1..n : k \in R <=> d + k \in S
  BY DEF Shifted
<1>2. AtMost(S, d + i) = A \cup C
  <2>1. ASSUME NEW m \in S, m <= d + i, ~(m <= d) PROVE m \in C
    <3>1. m \in Int /\ m - d \in 1..n /\ d + (m - d) = m /\ m - d <= i
      BY <1>1, <2>1
    <3>2. d + (m - d) \in S
      BY <2>1, <3>1
    <3>3. m - d \in R
      BY <1>1, <3>1, <3>2
    <3>4. m - d \in B
      BY <3>1, <3>3 DEF AtMost
    <3> QED
      BY <3>1, <3>4
  <2>2. ASSUME NEW k \in B PROVE d + k \in S /\ d + k <= d + i
    <3>1. k \in R /\ k <= i /\ k \in 1..n /\ k \in Int
      BY <1>1 DEF AtMost
    <3> QED
      BY <1>1, <3>1
  <2>3. \A m \in S : m <= d => m <= d + i
    BY <1>1
  <2> HIDE DEF B
  <2>4. \A m \in C : m \in S /\ m <= d + i
    BY <2>2
  <2> HIDE DEF C
  <2> QED
    BY <2>1, <2>3, <2>4 DEF AtMost
<1>3. A \cap C = {}
  <2>1. \A k \in B : ~(d + k <= d)
    BY <1>1 DEF AtMost
  <2> QED
    BY <2>1 DEF AtMost
<1>4. IsFiniteSet(A) /\ IsFiniteSet(B)
  <2>1. IsFiniteSet(1..n)
    BY FS_Interval
  <2>2. A \in SUBSET S /\ B \in SUBSET (1..n)
    BY <1>1 DEF AtMost
  <2> QED
    BY <2>1, <2>2, FS_Subset
<1>5. IsFiniteSet(C) /\ Cardinality(C) = Cardinality(B)
  <2>1. \A k \in B : k \in Int
    BY <1>1 DEF AtMost
  <2> HIDE DEF B
  <2>2. f \in Bijection(B, C)
    <3>1. \A a, b \in B : d + a = d + b => a = b
      <4>1. \A a, b \in Int : d + a = d + b => a = b
        OBVIOUS
      <4> QED
        BY <2>1, <4>1
    <3>2. f \in [B -> C] /\ (\A a, b \in B : f[a] = f[b] => a = b) /\ \A c \in C : \E b \in B : f[b] = c
      BY <3>1
    <3> HIDE DEF f, C
    <3> QED
      BY <3>2 DEF Bijection, Injection, Surjection, IsInjective
  <2> HIDE DEF f, C
  <2> QED
    BY <1>4, <2>2, FS_Bijection DEF ExistsBijection
<1> HIDE DEF A, B, C
<1>6. Cardinality(A \cup C) = Cardinality(A) + Cardinality(C)
  <2>1. Cardinality(A \cup C) = Cardinality(A) + Cardinality(C) - Cardinality(A \cap C)
    BY <1>4, <1>5, FS_Union
  <2>2. Cardinality(A \cap C) = 0
    BY <1>3, FS_EmptySet
  <2>3. Cardinality(A) \in Nat /\ Cardinality(C) \in Nat
    BY <1>4, <1>5, FS_CardinalityType
  <2> QED
    BY <2>1, <2>2, <2>3
<1> QED
  BY <1>2, <1>5, <1>6 DEF Rank, A, B

\* t is s from place d + 1 on, and t has its separators where s has its.
Stretch(t, tseps, s, sseps, d) ==
  /\ d + Len(t) <= Len(s)
  /\ \A i \in 1..Len(t) : t[i] = s[d + i]
  /\ \A i \in 0..Len(t) + 1 : Inside(t, tseps, i) <=> Inside(s, sseps, d + i)

\* The words of the stretch begin and end where words of the line do.
LEMMA StretchStarts ==
  ASSUME NEW T, NEW s \in Seq(T), NEW t \in Seq(T), NEW sseps, NEW tseps, NEW d \in Nat,
         Stretch(t, tseps, s, sseps, d)
  PROVE  /\ \A i \in 1..Len(t) : i \in Starts(t, tseps) <=> d + i \in Starts(s, sseps)
         /\ \A k \in Starts(t, tseps) :
              EndOf(s, sseps, d + k) = d + EndOf(t, tseps, k)
<1>1. PICK n : n = Len(t) /\ n \in Nat /\ d + n <= Len(s) /\ Len(s) \in Nat
  BY DEF Stretch
<1>2. \A i \in 0..n + 1 : Inside(t, tseps, i) <=> Inside(s, sseps, d + i)
  BY <1>1 DEF Stretch
<1>3. ASSUME NEW i \in 1..n PROVE i \in Starts(t, tseps) <=> d + i \in Starts(s, sseps)
  <2>1. i \in 0..n + 1 /\ i - 1 \in 0..n + 1 /\ d + (i - 1) = (d + i) - 1
        /\ i \in 1..Len(t) /\ d + i \in 1..Len(s)
    BY <1>1
  <2>2. Inside(t, tseps, i) <=> Inside(s, sseps, d + i)
    BY <1>2, <2>1
  <2>3. Inside(t, tseps, i - 1) <=> Inside(s, sseps, (d + i) - 1)
    BY <1>2, <2>1
  <2>4. i \in DOMAIN t /\ d + i \in DOMAIN s
    BY <2>1
  <2> QED
    BY <2>2, <2>3, <2>4 DEF Starts
<1>4. ASSUME NEW k \in Starts(t, tseps)
      PROVE  EndOf(s, sseps, d + k) = d + EndOf(t, tseps, k)
  <2>1. PICK e : /\ e = EndOf(t, tseps, k) /\ e \in k..n /\ k \in 1..n
                 /\ \A m \in k..e : Inside(t, tseps, m)
                 /\ ~Inside(t, tseps, e + 1)
    BY <1>1, TokenEnds
  <2>2. e \in Int /\ k \in Int /\ 1 <= k /\ k <= e /\ e <= n
    BY <1>1, <2>1
  <2>3. \A m \in d + k..d + e : Inside(s, sseps, m)
    <3> TAKE m \in d + k..d + e
    <3>1. m - d \in k..e /\ m - d \in 0..n + 1 /\ d + (m - d) = m
      BY <1>1, <2>2
    <3> QED
      BY <1>2, <2>1, <3>1
  <2>4. ~Inside(s, sseps, d + e + 1)
    <3>1. e + 1 \in 0..n + 1 /\ d + (e + 1) = d + e + 1
      BY <1>1, <2>2
    <3> QED
      BY <1>2, <2>1, <3>1
  <2>5. d + k \in Nat /\ d + e \in d + k..Len(s)
    BY <1>1, <2>2
  <2> QED
    BY <2>1, <2>3, <2>4, <2>5, EndOfIs
<1> QED
  BY <1>1, <1>3, <1>4

\* Ranks in a set of places of a sequence.
LEMMA RankOf ==
  ASSUME NEW n \in Nat, NEW S, S \subseteq 1..n
  PROVE  /\ IsFiniteSet(S) /\ S \subseteq Int /\ Cardinality(S) \in Nat
         /\ \A i \in Int : Rank(S, i) \in Nat
         /\ Rank(S, 0) = 0
         /\ \A i \in Int : i >= n => Rank(S, i) = Cardinality(S)
         /\ \A i, j \in Int : i <= j =>
              Rank(S, i) \in Nat /\ Rank(S, i) <= Rank(S, j) /\ Rank(S, j) <= Cardinality(S)
<1>1. IsFiniteSet(S) /\ S \subseteq Int /\ Cardinality(S) \in Nat
  <2>1. IsFiniteSet(1..n)
    BY FS_Interval
  <2>2. S \in SUBSET (1..n) /\ S \subseteq Int
    OBVIOUS
  <2>3. IsFiniteSet(S)
    BY <2>1, <2>2, FS_Subset
  <2> QED
    BY <2>2, <2>3, FS_CardinalityType
<1>2. \A k \in S : k \in Int /\ 1 <= k /\ k <= n
  OBVIOUS
<1>3. AtMost(S, 0) = {}
  <2>1. \A k \in S : ~(k <= 0)
    BY <1>2
  <2> QED
    BY <2>1 DEF AtMost
<1>4. ASSUME NEW i \in Int, i >= n PROVE AtMost(S, i) = S
  <2>1. \A k \in S : k <= i
    BY <1>2, <1>4
  <2> QED
    BY <2>1 DEF AtMost
<1>5. ASSUME NEW i \in Int, NEW j \in Int, i <= j
      PROVE  Rank(S, i) \in Nat /\ Rank(S, i) <= Rank(S, j) /\ Rank(S, j) <= Cardinality(S)
  <2>1. AtMost(S, j) \in SUBSET S /\ AtMost(S, i) \in SUBSET S
    BY DEF AtMost
  <2>2. IsFiniteSet(AtMost(S, j)) /\ IsFiniteSet(AtMost(S, i))
        /\ Cardinality(AtMost(S, j)) <= Cardinality(S)
    BY <1>1, <2>1, FS_Subset
  <2>3. AtMost(S, i) \in SUBSET AtMost(S, j)
    <3>1. \A k \in S : k <= i => k <= j
      BY <1>2, <1>5
    <3> QED
      BY <3>1 DEF AtMost
  <2>4. Cardinality(AtMost(S, i)) <= Cardinality(AtMost(S, j))
    BY <2>2, <2>3, FS_Subset
  <2> QED
    BY <2>2, <2>4, FS_CardinalityType DEF Rank
<1>6. Rank(S, 0) = 0
  BY <1>3, FS_EmptySet DEF Rank
<1>7. \A i \in Int : i >= n => Rank(S, i) = Cardinality(S)
  BY <1>4 DEF Rank
<1>8. \A i \in Int : i <= i
  OBVIOUS
<1> QED
  BY <1>1, <1>5, <1>6, <1>7, <1>8

\* S has no member behind i up to j.
NoneIn(S, i, j) == \A k \in S : ~(i < k /\ k <= j)

\* The rank does not grow where there is no member.
LEMMA RankStays ==
  ASSUME NEW S, S \subseteq Int, NEW i \in Int, NEW j \in Int, i <= j, NoneIn(S, i, j)
  PROVE  Rank(S, i) = Rank(S, j)
<1>1. \A k \in S : k <= i <=> k <= j
  BY DEF NoneIn
<1>2. AtMost(S, i) = AtMost(S, j)
  BY <1>1 DEF AtMost
<1> QED
  BY <1>2 DEF Rank

\* Sequences are equal member by member.
LEMMA SameSeq ==
  ASSUME NEW T, NEW u \in Seq(T), NEW v \in Seq(T), Len(u) = Len(v),
         \A i \in 1..Len(u) : u[i] = v[i]
  PROVE  u = v
OBVIOUS

\* A slice of a sequence.
LEMMA SliceIs ==
  ASSUME NEW T, NEW w \in Seq(T), NEW lo \in Nat, NEW hi \in Nat, lo <= hi, hi <= Len(w)
  PROVE  /\ SubSeq(w, lo + 1, hi) \in Seq(T) /\ Len(SubSeq(w, lo + 1, hi)) = hi - lo
         /\ \A i \in 1..hi - lo : SubSeq(w, lo + 1, hi)[i] = w[lo + i]
<1>1. \A i \in lo + 1..hi : w[i] \in T
  OBVIOUS
<1>2. /\ lo + 1 \in Int /\ hi \in Int /\ hi - (lo + 1) + 1 = hi - lo
      /\ (IF lo + 1 <= hi THEN hi - (lo + 1) + 1 ELSE 0) = hi - lo
      /\ \A i \in 1..hi - lo : lo + 1 + i - 1 = lo + i
  OBVIOUS
<1>3. PICK u : u = SubSeq(w, lo + 1, hi)
  OBVIOUS
<1>4. /\ u \in Seq(T) /\ Len(u) = IF lo + 1 <= hi THEN hi - (lo + 1) + 1 ELSE 0
      /\ \A i \in 1..hi - (lo + 1) + 1 : u[i] = w[lo + 1 + i - 1]
  BY <1>1, <1>2, <1>3, SubSeqProperties
<1> QED
  BY <1>2, <1>3, <1>4, Zenon

IsSlice(v, w, lo, hi) == Len(v) = hi - lo /\ \A i \in 1..Len(v) : v[i] = w[lo + i]

\* What has the members of the slice is the slice.
LEMMA SliceSame ==
  ASSUME NEW T, NEW w \in Seq(T), NEW lo \in Nat, NEW hi \in Nat, lo <= hi, hi <= Len(w),
         NEW v \in Seq(T), IsSlice(v, w, lo, hi)
  PROVE  v = SubSeq(w, lo + 1, hi)
<1>1. PICK u : u = SubSeq(w, lo + 1, hi)
  OBVIOUS
<1>2. u \in Seq(T) /\ Len(u) = hi - lo /\ \A i \in 1..hi - lo : u[i] = w[lo + i]
  BY <1>1, SliceIs
<1>3. v = u
  BY <1>2, SameSeq DEF IsSlice
<1> QED
  BY <1>1, <1>3

\* A slice of the stretch is a slice of the line.
LEMMA SliceOfSlice ==
  ASSUME NEW T, NEW s \in Seq(T), NEW t \in Seq(T), NEW d \in Nat, d + Len(t) <= Len(s),
         \A i \in 1..Len(t) : t[i] = s[d + i],
         NEW k \in 1..Len(t), NEW e \in k..Len(t)
  PROVE  SubSeq(t, k, e) = SubSeq(s, d + k, d + e)
<1>1. PICK n : n = Len(t) /\ n \in Nat /\ k \in Int /\ e \in Int /\ 1 <= k /\ k <= e /\ e <= n
              /\ d + n <= Len(s) /\ Len(s) \in Nat
  OBVIOUS
<1>2. \A i \in k..e : t[i] \in T
  BY <1>1
<1>3. \A i \in d + k..d + e : s[i] \in T
  BY <1>1
<1>4. PICK u, v : u = SubSeq(t, k, e) /\ v = SubSeq(s, d + k, d + e)
  OBVIOUS
<1>5. d + k \in Int /\ d + e \in Int /\ d + k <= d + e /\ (d + e) - (d + k) + 1 = e - k + 1
  BY <1>1
<1>6. /\ u \in Seq(T) /\ Len(u) = e - k + 1
      /\ \A i \in 1..e - k + 1 : u[i] = t[k + i - 1]
  BY <1>1, <1>2, <1>4, SubSeqProperties
<1>7. /\ v \in Seq(T) /\ Len(v) = e - k + 1
      /\ \A i \in 1..e - k + 1 : v[i] = s[d + k + i - 1]
  <2>1. PICK a, b : /\ a = d + k /\ b = d + e /\ a \in Int /\ b \in Int /\ a <= b
                    /\ b - a + 1 = e - k + 1
    BY ONLY <1>5
  <2>2. v = SubSeq(s, a, b) /\ \A i \in a..b : s[i] \in T
    BY ONLY <1>3, <1>4, <2>1
  <2>3. /\ v \in Seq(T) /\ Len(v) = b - a + 1
        /\ \A i \in 1..b - a + 1 : v[i] = s[a + i - 1]
    BY ONLY <2>1, <2>2, SubSeqProperties
  <2> QED
    BY ONLY <2>1, <2>3
<1>8. ASSUME NEW i \in 1..e - k + 1 PROVE u[i] = v[i]
  <2>1. k + i - 1 \in 1..Len(t) /\ d + (k + i - 1) = d + k + i - 1
    BY <1>1
  <2>2. t[k + i - 1] = s[d + (k + i - 1)]
    BY <2>1
  <2> QED
    BY <1>6, <1>7, <2>1, <2>2
<1>9. u = v
  BY <1>6, <1>7, <1>8, SameSeq
<1> QED
  BY <1>4, <1>9

\* ws are the tokens that start at the places S.
Placed(s, seps, S, ws) ==
  /\ \A k \in S : /\ Rank(S, k) \in 1..Len(ws) /\ Nth(S, Rank(S, k)) = k
                  /\ ws[Rank(S, k)] = SubSeq(s, k, EndOf(s, seps, k))
  /\ \A m \in 1..Len(ws) :
       \E k \in S : k = Nth(S, m) /\ Rank(S, k) = m /\ ws[m] = SubSeq(s, k, EndOf(s, seps, k))

\* TokensAre, token by token.
LEMMA TokensAt ==
  ASSUME NEW T, NEW s \in Seq(T), NEW seps, NEW S, S = Starts(s, seps),
         NEW ws, ws = Tokens(s, seps)
  PROVE  /\ S \subseteq 1..Len(s) /\ S \subseteq Int /\ IsFiniteSet(S)
         /\ Cardinality(S) \in Nat
         /\ ws \in Seq(Seq(T)) /\ Len(ws) = Cardinality(S)
         /\ Placed(s, seps, S, ws)
<1>1. /\ S \subseteq 1..Len(s) /\ IsFiniteSet(S) /\ Len(ws) = Cardinality(S) /\ ws \in Seq(Seq(T))
      /\ \A m \in 1..Len(ws) : ws[m] = SubSeq(s, Nth(S, m), EndOf(s, seps, Nth(S, m)))
  <2>1. /\ Starts(s, seps) \subseteq 1..Len(s) /\ IsFiniteSet(Starts(s, seps))
        /\ Len(Tokens(s, seps)) = Cardinality(Starts(s, seps)) /\ InPlaces(s, seps)
    BY TokensAre
  <2>2. Tokens(s, seps) \in Seq(Seq(T))
    BY TokensOf
  <2>3. \A m \in 1..Len(ws) : ws[m] = SubSeq(s, Nth(S, m), EndOf(s, seps, Nth(S, m)))
    BY <2>1, Zenon DEF InPlaces
  <2> QED
    BY <2>1, <2>2, <2>3, Zenon
<1>2. S \subseteq Int
  BY <1>1
<1>3. /\ Cardinality(S) \in Nat
      /\ \A k \in S : Rank(S, k) \in 1..Cardinality(S) /\ Nth(S, Rank(S, k)) = k
      /\ \A n \in 1..Cardinality(S) : Nth(S, n) \in S /\ Rank(S, Nth(S, n)) = n
  BY <1>1, <1>2, NthIs
<1>4. ASSUME NEW k \in S
      PROVE  /\ Rank(S, k) \in 1..Len(ws) /\ Nth(S, Rank(S, k)) = k
             /\ ws[Rank(S, k)] = SubSeq(s, k, EndOf(s, seps, k))
  <2>1. Rank(S, k) \in 1..Len(ws) /\ Nth(S, Rank(S, k)) = k
    BY <1>1, <1>3
  <2> QED
    BY <1>1, <2>1
<1>5. ASSUME NEW m \in 1..Len(ws)
      PROVE  \E k \in S : k = Nth(S, m) /\ Rank(S, k) = m /\ ws[m] = SubSeq(s, k, EndOf(s, seps, k))
  <2>1. Nth(S, m) \in S /\ Rank(S, Nth(S, m)) = m
    BY <1>1, <1>3
  <2> QED
    BY <1>1, <2>1
<1>6. Placed(s, seps, S, ws)
  BY ONLY <1>4, <1>5 DEF Placed
<1> QED
  BY <1>1, <1>2, <1>3, <1>6

\* The words of the stretch are a slice of the words of the line.
LEMMA StretchTokens ==
  ASSUME NEW T, NEW s \in Seq(T), NEW t \in Seq(T), NEW sseps, NEW tseps, NEW d \in Nat,
         Stretch(t, tseps, s, sseps, d), NEW S, S = Starts(s, sseps),
         NEW lo, lo = Rank(S, d), NEW hi, hi = Rank(S, d + Len(t))
  PROVE  /\ lo \in Nat /\ hi \in Nat /\ lo <= hi /\ hi <= Len(Tokens(s, sseps))
         /\ Tokens(t, tseps) = SubSeq(Tokens(s, sseps), lo + 1, hi)
         /\ Len(Tokens(t, tseps)) = hi - lo
<1>1. PICK n : n = Len(t) /\ n \in Nat /\ d + n <= Len(s) /\ Len(s) \in Nat
  BY DEF Stretch
<1>2. PICK R : S = Starts(s, sseps) /\ R = Starts(t, tseps)
  OBVIOUS
<1>3. /\ S \subseteq 1..Len(s) /\ R \subseteq 1..n
      /\ IsFiniteSet(S) /\ IsFiniteSet(R) /\ S \subseteq Int /\ R \subseteq Int
      /\ Cardinality(S) \in Nat /\ Cardinality(R) \in Nat
  <2>1. S \subseteq 1..Len(s) /\ R \subseteq 1..n
    BY <1>1, <1>2, TokensAre
  <2> QED
    BY <1>1, <2>1, RankOf
<1>4. \A i \in 0..n : Rank(S, d + i) = Rank(S, d) + Rank(R, i)
  <2>1. \A i \in 1..n : i \in R <=> d + i \in S
    BY <1>1, <1>2, StretchStarts
  <2> QED
    <3>1. Shifted(R, S, d, n) /\ d \in Int
      BY <1>3, <2>1 DEF Shifted
    <3> QED
      BY <1>1, <1>3, <3>1, RankShift
<1>5. /\ lo \in Nat /\ hi \in Nat /\ lo <= hi /\ hi <= Cardinality(S)
      /\ hi = lo + Cardinality(R)
  <2>1. lo = Rank(S, d) /\ hi = Rank(S, d + n)
    BY <1>1, <1>2
  <2>2. d \in Int /\ d + n \in Int /\ d <= d + n /\ n \in 0..n /\ n \in Int /\ n >= n
    BY <1>1
  <2>3. Rank(S, d) \in Nat /\ Rank(S, d) <= Rank(S, d + n) /\ Rank(S, d + n) <= Cardinality(S)
        /\ Rank(S, d + n) \in Nat
    <3>1. \A i, j \in Int : i <= j =>
            Rank(S, i) \in Nat /\ Rank(S, i) <= Rank(S, j) /\ Rank(S, j) <= Cardinality(S)
      BY <1>1, <1>3, RankOf, Zenon
    <3>2. /\ Rank(S, d) \in Nat /\ Rank(S, d) <= Rank(S, d + n)
          /\ Rank(S, d + n) <= Cardinality(S)
      BY <2>2, <3>1
    <3>3. Rank(S, d + n) \in Nat
      <4>1. \A i \in Int : Rank(S, i) \in Nat
        BY <1>1, <1>3, RankOf
      <4> QED
        BY <2>2, <4>1
    <3> QED
      BY <3>2, <3>3
  <2>4. Rank(R, n) = Cardinality(R)
    <3>1. \A i \in Int : i >= n => Rank(R, i) = Cardinality(R)
      BY <1>1, <1>3, RankOf, Zenon
    <3> QED
      BY <2>2, <3>1
  <2>5. Rank(S, d + n) = Rank(S, d) + Rank(R, n)
    BY <1>4, <2>2
  <2> QED
    BY <2>1, <2>3, <2>4, <2>5
<1>6. PICK ws, vs : ws = Tokens(s, sseps) /\ vs = Tokens(t, tseps)
  OBVIOUS
<1>7. /\ ws \in Seq(Seq(T)) /\ Len(ws) = Cardinality(S)
      /\ \A k \in S : /\ Rank(S, k) \in 1..Len(ws)
                      /\ ws[Rank(S, k)] = SubSeq(s, k, EndOf(s, sseps, k))
  <2>1. ws \in Seq(Seq(T)) /\ Len(ws) = Cardinality(S) /\ Placed(s, sseps, S, ws)
    BY <1>2, <1>6, TokensAt
  <2> QED
    BY ONLY <2>1 DEF Placed
<1>8. /\ vs \in Seq(Seq(T)) /\ Len(vs) = Cardinality(R)
      /\ \A m \in 1..Len(vs) :
           \E k \in R : Rank(R, k) = m /\ vs[m] = SubSeq(t, k, EndOf(t, tseps, k))
  <2>1. vs \in Seq(Seq(T)) /\ Len(vs) = Cardinality(R) /\ Placed(t, tseps, R, vs)
    BY <1>2, <1>6, TokensAt
  <2>2. \A m \in 1..Len(vs) :
          \E k \in R : k = Nth(R, m) /\ Rank(R, k) = m /\ vs[m] = SubSeq(t, k, EndOf(t, tseps, k))
    BY ONLY <2>1 DEF Placed
  <2> QED
    BY ONLY <2>1, <2>2, Zenon
<1>9. ASSUME NEW m \in 1..Cardinality(R) PROVE vs[m] = ws[lo + m]
  <2>1. PICK k \in R : Rank(R, k) = m /\ vs[m] = SubSeq(t, k, EndOf(t, tseps, k)) /\ k \in 1..n
    BY <1>3, <1>8
  <2>2. d + k \in S /\ EndOf(s, sseps, d + k) = d + EndOf(t, tseps, k)
    BY <1>1, <1>2, <2>1, StretchStarts
  <2>3. Rank(S, d + k) = lo + m
    <3>1. k \in 0..n
      BY <1>1, <2>1
    <3> QED
      BY <1>1, <1>2, <1>4, <2>1, <3>1
  <2>4. ws[lo + m] = SubSeq(s, d + k, EndOf(s, sseps, d + k))
    BY <1>7, <2>2, <2>3
  <2>5. PICK e : e = EndOf(t, tseps, k) /\ e \in k..n
    BY <1>1, <1>2, <2>1, TokenEnds
  <2>6. SubSeq(t, k, e) = SubSeq(s, d + k, d + e)
    <3>1. d + Len(t) <= Len(s) /\ \A i \in 1..Len(t) : t[i] = s[d + i]
      BY DEF Stretch
    <3>2. k \in 1..Len(t) /\ e \in k..Len(t)
      BY <1>1, <2>1, <2>5
    <3> QED
      BY <3>1, <3>2, SliceOfSlice
  <2> QED
    BY <2>1, <2>2, <2>4, <2>5, <2>6
<1>10. vs = SubSeq(ws, lo + 1, hi)
  <2>1. lo \in Nat /\ hi \in Nat /\ lo <= hi /\ hi <= Len(ws)
    BY <1>3, <1>5, <1>7
  <2>2. Len(vs) = hi - lo
    BY <1>3, <1>5, <1>8
  <2>3. \A i \in 1..Len(vs) : vs[i] = ws[lo + i]
    BY <1>8, <1>9
  <2>4. PICK X : ws \in Seq(X) /\ vs \in Seq(X)
    BY <1>7, <1>8
  <2>5. IsSlice(vs, ws, lo, hi)
    BY <2>2, <2>3 DEF IsSlice
  <2> QED
    BY ONLY <2>1, <2>4, <2>5, SliceSame
<1> QED
  <2>1. hi - lo = Cardinality(R)
    BY <1>3, <1>5
  <2> QED
    BY <1>3, <1>5, <1>6, <1>7, <1>8, <1>10, <2>1, Zenon

-----------------------------------------------------------------------------
(***************************************************************************)
(* Cuts: a sequence cut into parts, and parts that cover a set of places.  *)
(***************************************************************************)
LEMMA SliceJoin ==
  ASSUME NEW T, NEW w \in Seq(T), NEW a \in Nat, NEW b \in Nat, a <= b, b <= Len(w)
  PROVE  SubSeq(w, 0 + 1, a) \o SubSeq(w, a + 1, b) = SubSeq(w, 0 + 1, b)
<1>1. PICK u, v : u = SubSeq(w, 0 + 1, a) /\ v = SubSeq(w, a + 1, b)
  OBVIOUS
<1>2. a <= Len(w) /\ 0 \in Nat /\ 0 <= a /\ 0 <= b
  OBVIOUS
<1>3. u \in Seq(T) /\ Len(u) = a - 0 /\ \A i \in 1..a - 0 : u[i] = w[0 + i]
  BY <1>1, <1>2, SliceIs
<1>4. v \in Seq(T) /\ Len(v) = b - a /\ \A i \in 1..b - a : v[i] = w[a + i]
  BY <1>1, SliceIs
<1>5. PICK x : x = u \o v
  OBVIOUS
<1>6. x \in Seq(T) /\ Len(x) = b
  <2>1. u \in Seq(T) /\ v \in Seq(T) /\ Len(u) + Len(v) = b
    BY ONLY <1>3, <1>4, a \in Nat, b \in Nat
  <2>2. u \o v \in Seq(T) /\ Len(u \o v) = Len(u) + Len(v)
    BY ONLY <2>1, ConcatProperties
  <2> QED
    BY ONLY <1>5, <2>1, <2>2
<1>7. ASSUME NEW i \in 1..b PROVE x[i] = w[i]
  <2>1. x[i] = IF i <= Len(u) THEN u[i] ELSE v[i - Len(u)]
    <3>1. Len(u) + Len(v) = b
      BY <1>3, <1>4
    <3> QED
      BY <1>3, <1>4, <1>5, <3>1, ConcatProperties
  <2>2. CASE i <= a
    <3>1. i \in 1..a - 0 /\ 0 + i = i
      BY <2>2
    <3> QED
      BY <1>3, <2>1, <2>2, <3>1
  <2>3. CASE ~(i <= a)
    <3>1. i - a \in 1..b - a /\ a + (i - a) = i
      BY <2>3
    <3> QED
      BY <1>3, <1>4, <2>1, <2>3, <3>1
  <2> QED
    BY <2>2, <2>3
<1>8. IsSlice(x, w, 0, b)
  BY <1>6, <1>7 DEF IsSlice
<1>9. x = SubSeq(w, 0 + 1, b)
  BY <1>2, <1>6, <1>8, SliceSame
<1> QED
  BY <1>1, <1>5, <1>9

\* w is cut at the places c into the m parts q.
Cut(q, w, c, m) ==
  /\ c[0] = 0 /\ c[m] = Len(w)
  /\ \A i \in 0..m : c[i] \in Nat
  /\ \A i \in 1..m : /\ c[i - 1] <= c[i] /\ c[i] <= Len(w)
                     /\ q[i] = SubSeq(w, c[i - 1] + 1, c[i])

\* What is cut and joined again is what it was.
LEMMA FlattenCut ==
  ASSUME NEW T, NEW w \in Seq(T), NEW q \in Seq(Seq(T)), NEW m, m = Len(q), m # 0,
         NEW c, Cut(q, w, c, m)
  PROVE  FlattenSeq(q) = w
<1>1. m \in Nat /\ m \in 1..m /\ q # <<>>
  OBVIOUS
<1>2. PICK f : /\ Joins(f, q, m) /\ FlattenSeq(q) = f[m]
               /\ \A i \in 1..m : f[i] \in Seq(T)
  BY <1>1, FlattenIs
<1> DEFINE D == {i \in 1..m : f[i] # SubSeq(w, 0 + 1, c[i])}
<1>3. D = {}
  <2>1. SUFFICES ASSUME D # {} PROVE FALSE
    OBVIOUS
  <2>2. PICK i \in D : \A j \in D : i <= j
    <3>1. D \subseteq Nat
      OBVIOUS
    <3> HIDE DEF D
    <3> QED
      BY <2>1, <3>1, LeastNumber
  <2>3. i \in 1..m /\ f[i] # SubSeq(w, 0 + 1, c[i]) /\ i \in Int
    BY <2>2
  <2>4. /\ c[i - 1] \in Nat /\ c[i] \in Nat /\ c[i - 1] <= c[i] /\ c[i] <= Len(w)
        /\ q[i] = SubSeq(w, c[i - 1] + 1, c[i])
    <3>1. i \in 0..m /\ i - 1 \in 0..m
      BY <1>1, <2>3
    <3> QED
      BY <2>3, <3>1 DEF Cut
  <2>5. f[i] = IF i = 1 THEN q[i] ELSE f[i - 1] \o q[i]
    BY <1>2, <2>3 DEF Joins
  <2>6. CASE i = 1
    <3>1. c[i - 1] = 0
      BY <2>6 DEF Cut
    <3> QED
      BY <2>3, <2>4, <2>5, <2>6, <3>1
  <2>7. CASE i # 1
    <3>1. i - 1 \in 1..m /\ ~(i <= i - 1)
      BY <1>1, <2>3, <2>7
    <3>2. i - 1 \notin D
      BY <2>2, <3>1
    <3>3. f[i - 1] = SubSeq(w, 0 + 1, c[i - 1])
      BY <3>1, <3>2
    <3> QED
      BY <2>3, <2>4, <2>5, <2>7, <3>3, SliceJoin
  <2> QED
    BY <2>6, <2>7
<1>4. f[m] = SubSeq(w, 0 + 1, Len(w))
  BY <1>1, <1>3 DEF Cut
<1>5. w = SubSeq(w, 0 + 1, Len(w))
  <2>1. IsSlice(w, w, 0, Len(w)) /\ Len(w) \in Nat
    BY DEF IsSlice
  <2> QED
    BY <2>1, SliceSame
<1> QED
  BY <1>2, <1>4, <1>5

-----------------------------------------------------------------------------

\* The m intervals lo[i]..hi[i], one behind the other, hold all of F.
Cover(lo, hi, m, F) ==
  /\ \A i \in 1..m : lo[i] \in Nat \ {0} /\ hi[i] \in Nat /\ lo[i] <= hi[i]
  /\ \A i, j \in 1..m : i < j => hi[i] < lo[j]
  /\ \A k \in F : \E i \in 1..m : lo[i] <= k /\ k <= hi[i]

\* Where the intervals end among F.
CutPoints(hi, m, F) == [i \in 0..m |-> IF i = 0 THEN 0 ELSE Rank(F, hi[i])]

\* c are the numbers of members of F up to the ends of the intervals.
CutsAt(lo, hi, m, F, c) ==
  /\ c[0] = 0 /\ c[m] = Cardinality(F) /\ \A i \in 0..m : c[i] \in Nat
  /\ \A i \in 1..m : /\ c[i] = Rank(F, hi[i]) /\ c[i - 1] = Rank(F, lo[i] - 1)
                     /\ c[i - 1] <= c[i] /\ c[i] <= Cardinality(F)

\* The ranks of the ends of the intervals cut F into the parts in them.
LEMMA CoverRanks ==
  ASSUME NEW n \in Nat, NEW F, F \subseteq 1..n, NEW m \in Nat, NEW lo, NEW hi,
         Cover(lo, hi, m, F), m # 0
  PROVE  CutsAt(lo, hi, m, F, CutPoints(hi, m, F))
<1> DEFINE c == CutPoints(hi, m, F)
<1>1. /\ \A i \in 1..m : /\ lo[i] \in Int /\ hi[i] \in Int /\ 1 <= lo[i] /\ lo[i] <= hi[i]
                         /\ lo[i] - 1 \in Int /\ lo[i] - 1 <= hi[i]
      /\ \A i, j \in 1..m : i < j => hi[i] < lo[j]
      /\ \A k \in F : k \in Int /\ 1 <= k /\ \E i \in 1..m : lo[i] <= k /\ k <= hi[i]
      /\ \A i \in 1..m : i \in Int
  BY DEF Cover
<1>2. /\ \A i \in Int : Rank(F, i) \in Nat
      /\ \A i, j \in Int : i <= j => Rank(F, i) <= Rank(F, j) /\ Rank(F, j) <= Cardinality(F)
  BY RankOf
<1>3. F \subseteq Int
  OBVIOUS
<1>4. c[0] = 0 /\ (\A i \in 1..m : c[i] = Rank(F, hi[i])) /\ \A i \in 0..m : c[i] \in Nat
  <2>1. 0 \in 0..m /\ \A i \in 1..m : i \in 0..m /\ i # 0
    OBVIOUS
  <2>2. \A i \in 0..m : i # 0 => i \in 1..m
    OBVIOUS
  <2>3. \A i \in 0..m : c[i] = IF i = 0 THEN 0 ELSE Rank(F, hi[i])
    BY DEF CutPoints
  <2>4. \A i \in 1..m : c[i] = Rank(F, hi[i]) /\ c[i] \in Nat
    BY <1>1, <1>2, <2>1, <2>3
  <2> QED
    BY <2>1, <2>2, <2>3, <2>4
<1>5. ASSUME NEW i \in 1..m PROVE c[i - 1] = Rank(F, lo[i] - 1)
  <2>1. CASE i = 1
    <3>1. ASSUME NEW k \in F, k <= lo[i] - 1 PROVE FALSE
      <4>1. PICK j \in 1..m : lo[j] <= k /\ k <= hi[j]
        BY <1>1
      <4>2. /\ lo[i] \in Int /\ hi[i] \in Int /\ lo[j] \in Int /\ k \in Int /\ lo[i] <= hi[i]
            /\ lo[j] <= k
        BY <1>1, <4>1
      <4>3. lo[j] < lo[i]
        BY <3>1, <4>2
      <4>4. ~(i < j)
        <5>1. i < j => hi[i] < lo[j]
          BY <1>1
        <5> QED
          BY <4>2, <4>3, <5>1
      <4>5. j = i
        BY <2>1, <4>4
      <4> QED
        BY <4>2, <4>3, <4>5
    <3>2. 0 \in Int /\ lo[i] - 1 \in Int /\ 0 <= lo[i] - 1
      BY <1>1
    <3>3. Rank(F, 0) = Rank(F, lo[i] - 1)
      <4>1. NoneIn(F, 0, lo[i] - 1)
        BY <3>1 DEF NoneIn
      <4> QED
        BY <1>3, <3>2, <4>1, RankStays
    <3>4. Rank(F, 0) = 0
      BY RankOf
    <3> QED
      BY <1>4, <2>1, <3>3, <3>4
  <2>2. CASE i # 1
    <3>1. i - 1 \in 1..m /\ i - 1 < i /\ i \in Int
      BY <1>1, <2>2
    <3>2. /\ hi[i - 1] \in Int /\ lo[i] \in Int /\ lo[i] - 1 \in Int /\ lo[i] <= hi[i] /\ hi[i] \in Int
          /\ lo[i - 1] \in Int /\ lo[i - 1] <= hi[i - 1]
          /\ hi[i - 1] < lo[i]
      BY <1>1, <3>1
    <3>3. hi[i - 1] <= lo[i] - 1
      BY <3>2
    <3>4. ASSUME NEW k \in F, hi[i - 1] < k, k <= lo[i] - 1 PROVE FALSE
      <4>1. PICK j : j \in 1..m /\ lo[j] <= k /\ k <= hi[j]
        BY <1>1
      <4>2. lo[j] \in Int /\ hi[j] \in Int /\ k \in Int /\ lo[j] <= k /\ k <= hi[j] /\ j \in Int
        BY <1>1, <4>1
      <4>3. /\ hi[i - 1] < hi[j]
            /\ lo[j] < lo[i]
        BY <3>2, <3>4, <4>2
      <4>4. ~(j < i - 1) /\ j # i - 1
        <5>1. j < i - 1 => hi[j] < lo[i - 1]
          BY <1>1, <3>1, <4>1
        <5>2. hi[j] < lo[i - 1] => hi[j] < hi[i - 1]
          BY <3>2, <4>2
        <5>3. ~(hi[i - 1] < hi[i - 1]) /\ ~(hi[j] < hi[i - 1])
          BY <3>2, <4>2, <4>3
        <5> QED
          BY <4>3, <5>1, <5>2, <5>3
      <4>5. ~(i < j) /\ j # i
        <5>1. i < j => hi[i] < lo[j]
          BY <1>1, <4>1
        <5>2. ~(hi[i] < lo[j]) /\ ~(lo[i] < lo[i])
          BY <3>2, <4>2, <4>3
        <5> QED
          BY <4>3, <5>1, <5>2
      <4> QED
        BY <3>1, <4>2, <4>4, <4>5
    <3>5. Rank(F, hi[i - 1]) = Rank(F, lo[i] - 1)
      <4>1. NoneIn(F, hi[i - 1], lo[i] - 1)
        BY <3>4 DEF NoneIn
      <4> QED
        BY <1>3, <3>2, <3>3, <4>1, RankStays
    <3> QED
      BY <1>4, <3>1, <3>5
  <2> QED
    BY <2>1, <2>2
<1>6. \A i \in 1..m : c[i - 1] <= c[i] /\ c[i] <= Cardinality(F)
  <2>1. \A i \in 1..m : /\ Rank(F, lo[i] - 1) <= Rank(F, hi[i])
                        /\ Rank(F, hi[i]) <= Cardinality(F)
    BY <1>1, <1>2
  <2> QED
    BY <1>4, <1>5, <2>1
<1>7. c[m] = Cardinality(F)
  <2>1. m \in 1..m /\ hi[m] \in Int
    BY <1>1
  <2>2. ASSUME NEW k \in F PROVE k <= hi[m]
    <3>1. PICK j : j \in 1..m /\ lo[j] <= k /\ k <= hi[j]
      BY <1>1
    <3>2. /\ hi[j] \in Int /\ k \in Int /\ k <= hi[j] /\ lo[m] \in Int /\ hi[m] \in Int
          /\ lo[m] <= hi[m] /\ j \in Int
      BY <1>1, <2>1, <3>1
    <3>3. j < m => hi[j] < lo[m]
      BY <1>1, <2>1, <3>1
    <3>4. j = m \/ j < m
      BY <3>1
    <3> QED
      BY <3>2, <3>3, <3>4
  <2>3. AtMost(F, hi[m]) = F
    BY <2>2 DEF AtMost
  <2> QED
    BY <1>4, <2>1, <2>3 DEF Rank
<1> HIDE DEF c
<1>8. CutsAt(lo, hi, m, F, c)
  BY <1>4, <1>5, <1>6, <1>7 DEF CutsAt
<1> QED
  BY <1>8 DEF c

-----------------------------------------------------------------------------
(***************************************************************************)
(* Division: parts of a line that hold all its words.                      *)
(***************************************************************************)
\* The parts q of s, from the places d on, hold every word of s, each at least one;
\* there is a pipe between two of them, and none inside.
Divides(s, q, d, m, seps, pipe) ==
  LET F == Starts(s, seps \cup {pipe})
  IN  /\ \A i \in 1..m : /\ d[i] \in Nat /\ Len(q[i]) \in Nat
                         /\ Stretch(q[i], seps, s, seps \cup {pipe}, d[i])
                         /\ \E k \in F : d[i] < k /\ k <= d[i] + Len(q[i])
      /\ \A i, j \in 1..m : i < j => \E k \in Int : /\ d[i] + Len(q[i]) < k /\ k <= d[j]
                                                    /\ s[k] = pipe
      /\ \A k \in F : \E i \in 1..m : d[i] < k /\ k <= d[i] + Len(q[i])

\* The last places of the parts.
Ends(q, d, m) == [i \in 1..m |-> d[i] + Len(q[i])]

\* How many words the parts up to the i-th have.
WordsTo(s, q, d, m, full) == CutPoints(Ends(q, d, m), m, Starts(s, full))

\* c are the numbers of words up to the ends of the parts.
WordCuts(q, d, m, F, c) ==
  /\ c[0] = 0 /\ c[m] = Cardinality(F) /\ \A i \in 0..m : c[i] \in Nat
  /\ \A i \in 1..m : /\ c[i] = Rank(F, d[i] + Len(q[i])) /\ c[i - 1] = Rank(F, d[i])
                     /\ c[i - 1] < c[i] /\ c[i] <= Cardinality(F)

Parting(T, s, q, d, m, seps, pipe, F, c) ==
  /\ s \in Seq(T) /\ q \in Seq(Seq(T)) /\ m \in Nat /\ m # 0 /\ Len(q) = m
  /\ F = Starts(s, seps \cup {pipe}) /\ Divides(s, q, d, m, seps, pipe)
  /\ c = WordsTo(s, q, d, m, seps \cup {pipe})

\* The parts of a division cut the words of the line.
LEMMA DividesCuts ==
  ASSUME NEW T, NEW s, NEW m, NEW q, NEW d, NEW seps, NEW pipe, NEW F, NEW c,
         Parting(T, s, q, d, m, seps, pipe, F, c)
  PROVE  WordCuts(q, d, m, F, c)
<1> DEFINE lo == [i \in 1..m |-> d[i] + 1]
           hi == Ends(q, d, m)
<1>1. /\ \A i \in 1..m : /\ d[i] \in Nat /\ Len(q[i]) \in Nat
                         /\ \E k \in F : d[i] < k /\ k <= d[i] + Len(q[i])
      /\ \A i, j \in 1..m : i < j => \E k \in Int : d[i] + Len(q[i]) < k /\ k <= d[j]
      /\ \A k \in F : \E i \in 1..m : d[i] < k /\ k <= d[i] + Len(q[i])
  BY DEF Parting, Divides
<1>2. /\ s \in Seq(T) /\ q \in Seq(Seq(T)) /\ m \in Nat /\ m # 0 /\ Len(q) = m
      /\ F = Starts(s, seps \cup {pipe})
  BY DEF Parting
<1>3. F \subseteq 1..Len(s) /\ Len(s) \in Nat /\ F \subseteq Int /\ IsFiniteSet(F)
  BY <1>2, TokensAt
<1>4. \A i \in 1..m : lo[i] = d[i] + 1 /\ hi[i] = d[i] + Len(q[i])
  BY DEF Ends
<1>5. Cover(lo, hi, m, F)
  <2>1. \A i \in 1..m : lo[i] \in Nat \ {0} /\ hi[i] \in Nat /\ lo[i] <= hi[i]
    <3> TAKE i \in 1..m
    <3>1. PICK k \in F : d[i] < k /\ k <= d[i] + Len(q[i])
      BY <1>1
    <3>2. k \in Int /\ d[i] \in Nat /\ Len(q[i]) \in Nat
      BY <1>1, <1>3
    <3> QED
      BY <1>4, <3>1, <3>2
  <2>2. \A i, j \in 1..m : i < j => hi[i] < lo[j]
    <3> TAKE i, j \in 1..m
    <3> HAVE i < j
    <3>1. PICK k \in Int : d[i] + Len(q[i]) < k /\ k <= d[j]
      BY <1>1
    <3>2. d[i] \in Nat /\ d[j] \in Nat /\ Len(q[i]) \in Nat
      BY <1>1
    <3> QED
      BY <1>4, <3>1, <3>2
  <2>3. \A k \in F : \E i \in 1..m : lo[i] <= k /\ k <= hi[i]
    <3> TAKE k \in F
    <3>1. PICK i \in 1..m : d[i] < k /\ k <= d[i] + Len(q[i])
      BY <1>1
    <3>2. k \in Int /\ d[i] \in Nat
      BY <1>1, <1>3
    <3>3. lo[i] <= k /\ k <= hi[i]
      BY <1>4, <3>1, <3>2
    <3> QED
      BY <3>3
  <2> QED
    BY <2>1, <2>2, <2>3 DEF Cover
<1> HIDE DEF lo, hi
<1>6. c = CutPoints(hi, m, F)
  BY DEF Parting, WordsTo, hi
<1>7. CutsAt(lo, hi, m, F, c)
  BY <1>2, <1>3, <1>5, <1>6, CoverRanks
<1>8. /\ c[0] = 0 /\ c[m] = Cardinality(F) /\ \A i \in 0..m : c[i] \in Nat
      /\ \A i \in 1..m : /\ c[i] = Rank(F, hi[i]) /\ c[i - 1] = Rank(F, lo[i] - 1)
                         /\ c[i - 1] <= c[i] /\ c[i] <= Cardinality(F)
  BY <1>7 DEF CutsAt
<1>9. ASSUME NEW i \in 1..m
      PROVE  /\ c[i] = Rank(F, d[i] + Len(q[i])) /\ c[i - 1] = Rank(F, d[i])
             /\ c[i - 1] < c[i] /\ c[i] <= Cardinality(F)
  <2>1. d[i] \in Int /\ d[i] + Len(q[i]) \in Int /\ lo[i] - 1 = d[i] /\ hi[i] = d[i] + Len(q[i])
    <3>1. d[i] \in Nat /\ Len(q[i]) \in Nat /\ lo[i] = d[i] + 1 /\ hi[i] = d[i] + Len(q[i])
      BY <1>1, <1>4
    <3> QED
      BY ONLY <3>1
  <2>2. c[i] = Rank(F, d[i] + Len(q[i])) /\ c[i - 1] = Rank(F, d[i]) /\ c[i] <= Cardinality(F)
    BY <1>8, <2>1
  <2>3. PICK k \in F : d[i] < k /\ k <= d[i] + Len(q[i])
    BY <1>1
  <2>4. Rank(F, d[i]) < Rank(F, k)
    BY <1>3, <2>1, <2>3, RankGrows
  <2>5. Rank(F, k) <= Rank(F, d[i] + Len(q[i])) /\ Rank(F, k) \in Nat
    <3>1. k \in Int
      BY <1>3
    <3>2. \A a, b \in Int : a <= b => Rank(F, a) <= Rank(F, b)
      BY <1>3, RankOf
    <3>3. \A a \in Int : Rank(F, a) \in Nat
      BY <1>3, RankOf
    <3> QED
      BY <2>1, <2>3, <3>1, <3>2, <3>3
  <2>6. Rank(F, d[i]) \in Nat /\ Rank(F, d[i] + Len(q[i])) \in Nat
    BY <1>3, <2>1, RankOf
  <2> QED
    BY <2>2, <2>4, <2>5, <2>6
<1> QED
  BY <1>8, <1>9 DEF WordCuts

\* y is before x, and F has a member behind x up to z.
Between(F, x, y, z) == y < x /\ \E l \in F : x < l /\ l <= z

\* Where the rank grows, there is a member between.
LEMMA RankBetween ==
  ASSUME NEW n \in Nat, NEW F, F \subseteq 1..n, NEW x \in Int, NEW y \in Int, NEW z \in Int,
         Rank(F, y) < Rank(F, x), Rank(F, x) < Rank(F, z)
  PROVE  Between(F, x, y, z)
<1>1. F \subseteq Int /\ IsFiniteSet(F)
  BY RankOf
<1>2. /\ \A a \in Int : Rank(F, a) \in Nat
      /\ \A a, b \in Int : a <= b => Rank(F, a) <= Rank(F, b)
  BY RankOf
<1>3. \A a, b \in Int : Rank(F, a) < Rank(F, b) => a < b
  <2> TAKE a, b \in Int
  <2>1. Rank(F, a) \in Nat /\ Rank(F, b) \in Nat /\ (b <= a => Rank(F, b) <= Rank(F, a))
    BY <1>2
  <2> QED
    BY <2>1
<1>4. x < z
  BY <1>3
<1>5. ~NoneIn(F, x, z)
  <2>1. NoneIn(F, x, z) => Rank(F, x) = Rank(F, z)
    <3>1. x \in Int /\ z \in Int /\ x <= z
      BY <1>4
    <3> QED
      BY ONLY <1>1, <3>1, RankStays
  <2>2. Rank(F, x) \in Nat /\ Rank(F, z) \in Nat
    BY <1>2
  <2> QED
    BY <2>1, <2>2
<1> QED
  BY <1>3, <1>5 DEF NoneIn, Between

\* Two divisions that agree up to a part agree in it: the first does not end earlier.
LEMMA DividesNotLess ==
  ASSUME NEW T, NEW s, NEW seps, NEW pipe, pipe \notin seps, NEW F,
         NEW m, NEW q, NEW d, NEW c, Parting(T, s, q, d, m, seps, pipe, F, c),
         NEW n, NEW r, NEW e, NEW b, Parting(T, s, r, e, n, seps, pipe, F, b),
         NEW i \in 1..m, i \in 1..n, c[i - 1] = b[i - 1]
  PROVE  ~(c[i] < b[i])
<1> DEFINE full == seps \cup {pipe}
<1>1. SUFFICES ASSUME c[i] < b[i] PROVE FALSE
  OBVIOUS
<1>2. /\ i \in 1..n /\ i \in 1..m /\ m \in Nat /\ n \in Nat /\ s \in Seq(T)
      /\ r \in Seq(Seq(T)) /\ Len(r) = n /\ F = Starts(s, full)
  BY DEF Parting
<1>3. c[i] = Rank(F, d[i] + Len(q[i])) /\ c[i - 1] = Rank(F, d[i]) /\ c[i - 1] < c[i]
  <2>1. WordCuts(q, d, m, F, c)
    BY DividesCuts
  <2> QED
    BY <2>1 DEF WordCuts
<1>4. b[i] = Rank(F, e[i] + Len(r[i])) /\ b[i - 1] = Rank(F, e[i])
  <2>1. WordCuts(r, e, n, F, b)
    BY DividesCuts
  <2> QED
    BY <1>2, <2>1 DEF WordCuts
<1>5. F \subseteq 1..Len(s) /\ Len(s) \in Nat /\ F \subseteq Int
  BY <1>2, TokensAt
<1>6. /\ \A j \in 1..m : /\ d[j] \in Nat /\ Len(q[j]) \in Nat
      /\ \A j, k \in 1..m : j < k => \E p \in Int : d[j] + Len(q[j]) < p /\ p <= d[k] /\ s[p] = pipe
      /\ \A k \in F : \E j \in 1..m : d[j] < k /\ k <= d[j] + Len(q[j])
  BY DEF Parting, Divides
<1>7. \A j \in 1..n : e[j] \in Nat /\ Len(r[j]) \in Nat /\ Stretch(r[j], seps, s, full, e[j])
  BY DEF Parting, Divides
<1>8. PICK x, x0 : x = d[i] + Len(q[i]) /\ x \in Int /\ x0 = d[i] /\ x0 \in Int /\ x0 <= x
  <2>1. d[i] \in Nat /\ Len(q[i]) \in Nat
    BY ONLY <1>6, <1>2
  <2> QED
    BY ONLY <2>1
<1>9. PICK y, g, w : /\ w = r[i] /\ y = e[i] /\ g = Len(w) /\ y \in Int /\ g \in Int
                     /\ y + g \in Int
                     /\ Stretch(w, seps, s, full, y) /\ w \in Seq(T)
  <2>1. e[i] \in Nat /\ Len(r[i]) \in Nat /\ Stretch(r[i], seps, s, full, e[i])
    BY ONLY <1>7, <1>2
  <2>2. r[i] \in Seq(T)
    BY ONLY <1>2
  <2>3. e[i] \in Int /\ Len(r[i]) \in Int /\ e[i] + Len(r[i]) \in Int
    BY ONLY <2>1
  <2> QED
    BY ONLY <2>1, <2>2, <2>3
<1>10. y < x /\ \E l \in F : x < l /\ l <= y + g
  <2>1. Rank(F, y) < Rank(F, x) /\ Rank(F, x) < Rank(F, y + g)
    BY <1>1, <1>3, <1>4, <1>8, <1>9
  <2> QED
    <3>1. PICK a : a = Len(s) /\ a \in Nat /\ F \subseteq 1..a
      BY ONLY <1>5
    <3>2. PICK z : z = y + g /\ z \in Int /\ Rank(F, x) < Rank(F, z)
      BY ONLY <1>9, <2>1
    <3>3. Between(F, x, y, z)
      <4>1. x \in Int /\ y \in Int /\ Rank(F, y) < Rank(F, x)
        BY ONLY <1>8, <1>9, <2>1
      <4> QED
        BY ONLY <3>1, <3>2, <4>1, RankBetween
    <3> QED
      BY ONLY <3>2, <3>3 DEF Between
<1>11. PICK l : l \in F /\ x < l /\ l <= y + g /\ l \in Int
  BY ONLY <1>5, <1>10
<1>12. PICK j : j \in 1..m /\ d[j] < l /\ l <= d[j] + Len(q[j])
  BY ONLY <1>6, <1>11
<1>13. PICK u, v : u = d[j] /\ v = d[j] + Len(q[j]) /\ u \in Int /\ v \in Int /\ u < l /\ l <= v
  <2>1. d[j] \in Nat /\ Len(q[j]) \in Nat
    BY ONLY <1>6, <1>12
  <2> QED
    BY ONLY <1>12, <2>1
<1>14. i < j
  <2>1. j # i
    BY ONLY <1>8, <1>11, <1>13
  <2>2. ASSUME j < i PROVE FALSE
    <3>1. PICK p : p \in Int /\ v < p /\ p <= x0
      <4>1. \E p \in Int : d[j] + Len(q[j]) < p /\ p <= d[i]
        BY ONLY <1>6, <1>2, <1>12, <2>2
      <4> QED
        BY ONLY <1>8, <1>13, <4>1
    <3> QED
      BY ONLY <1>8, <1>11, <1>13, <3>1
  <2> QED
    BY ONLY <1>2, <1>12, <2>1, <2>2
<1>15. PICK p : p \in Int /\ x < p /\ p <= u /\ s[p] = pipe
  <2>1. \E p \in Int : d[i] + Len(q[i]) < p /\ p <= d[j] /\ s[p] = pipe
    BY ONLY <1>6, <1>2, <1>12, <1>14
  <2> QED
    BY ONLY <1>8, <1>13, <2>1
<1>16. PICK o : o \in Int /\ o \in 1..g /\ o \in 0..g + 1 /\ y + o = p
  <2>1. p \in Int /\ y \in Int /\ g \in Int /\ y < p /\ p <= y + g
    <3>1. u < l /\ l <= y + g /\ p <= u /\ x < p /\ y < x
      BY ONLY <1>10, <1>11, <1>13, <1>15
    <3> QED
      <4>1. p \in Int /\ y \in Int /\ g \in Int /\ y + g \in Int
        BY ONLY <1>9, <1>15
      <4>2. l \in Int /\ u \in Int /\ x \in Int
        BY ONLY <1>8, <1>11, <1>13
      <4>3. y < p
        BY ONLY <3>1, <4>1, <4>2
      <4>4. PICK z : z = y + g /\ z \in Int /\ l <= z
        BY ONLY <3>1, <4>1
      <4>5. p <= z
        BY ONLY <3>1, <4>1, <4>2, <4>4
      <4> QED
        BY ONLY <4>1, <4>3, <4>4, <4>5
  <2>2. p - y \in Int /\ p - y \in 1..g /\ p - y \in 0..g + 1 /\ y + (p - y) = p
    BY ONLY <2>1
  <2> QED
    BY ONLY <2>2
<1>17. w[o] = s[y + o] /\ (Inside(w, seps, o) <=> Inside(s, full, y + o))
  BY ONLY <1>9, <1>16 DEF Stretch
<1>18. Inside(w, seps, o)
  <2>1. o \in DOMAIN w /\ w[o] \notin seps
    <3>1. pipe \notin seps
      OBVIOUS
    <3> QED
      BY ONLY <1>9, <1>15, <1>16, <1>17, <3>1
  <2> QED
    BY ONLY <2>1 DEF Inside
<1>19. ~Inside(s, full, y + o)
  BY <1>15, <1>16 DEF Inside
<1> QED
  BY ONLY <1>17, <1>18, <1>19

\* There are as many parts, that end at the same words.
SameCuts(m, n, c, b) == m = n /\ \A i \in 0..m : c[i] = b[i]

\* A line is divided in one way only.
LEMMA PartingUnique ==
  ASSUME NEW T, NEW s, NEW seps, NEW pipe, pipe \notin seps, NEW F,
         NEW m, NEW q, NEW d, NEW c, Parting(T, s, q, d, m, seps, pipe, F, c),
         NEW n, NEW r, NEW e, NEW b, Parting(T, s, r, e, n, seps, pipe, F, b)
  PROVE  SameCuts(m, n, c, b)
<1>1. m \in Nat /\ n \in Nat /\ m # 0 /\ n # 0 /\ s \in Seq(T) /\ F = Starts(s, seps \cup {pipe})
  BY DEF Parting
<1>2. Cardinality(F) \in Nat
  BY <1>1, TokensAt
<1>3. /\ c[0] = 0 /\ c[m] = Cardinality(F) /\ \A i \in 0..m : c[i] \in Nat
      /\ \A i \in 1..m : c[i - 1] < c[i] /\ c[i] <= Cardinality(F)
  <2>1. WordCuts(q, d, m, F, c)
    BY DividesCuts
  <2> QED
    BY <2>1 DEF WordCuts
<1>4. /\ b[0] = 0 /\ b[n] = Cardinality(F) /\ \A i \in 0..n : b[i] \in Nat
      /\ \A i \in 1..n : b[i - 1] < b[i] /\ b[i] <= Cardinality(F)
  <2>1. WordCuts(r, e, n, F, b)
    BY DividesCuts
  <2> QED
    BY <2>1 DEF WordCuts
<1>5. \A i \in 0..m : i \in 0..n => c[i] = b[i]
  <2> DEFINE D == {i \in 0..m : i \in 0..n /\ c[i] # b[i]}
  <2>1. SUFFICES ASSUME D # {} PROVE FALSE
    OBVIOUS
  <2>2. PICK i \in D : \A j \in D : i <= j
    <3>1. D \subseteq Nat
      OBVIOUS
    <3> HIDE DEF D
    <3> QED
      BY <2>1, <3>1, LeastNumber
  <2>3. i \in 0..m /\ i \in 0..n /\ c[i] # b[i] /\ i \in Int
    BY <2>2
  <2>4. i # 0
    BY <1>3, <1>4, <2>3
  <2>5. /\ i \in 1..m /\ i \in 1..n /\ i - 1 \in 0..m /\ i - 1 \in 0..n /\ ~(i <= i - 1)
    BY <1>1, <2>3, <2>4
  <2>6. c[i - 1] = b[i - 1]
    BY <2>2, <2>5
  <2>7. ~(c[i] < b[i])
    BY <2>5, <2>6, DividesNotLess
  <2>8. ~(b[i] < c[i])
    BY <2>5, <2>6, DividesNotLess
  <2>9. c[i] \in Nat /\ b[i] \in Nat
    BY <1>3, <1>4, <2>3
  <2> QED
    BY ONLY <2>3, <2>7, <2>8, <2>9
<1>6. ~(m < n)
  <2>1. SUFFICES ASSUME m < n PROVE FALSE
    OBVIOUS
  <2>2. m \in 0..n /\ m \in 0..m /\ m + 1 \in 1..n /\ m + 1 - 1 = m
    BY ONLY <1>1, <2>1
  <2>3. b[m] = Cardinality(F)
    BY <1>3, <1>5, <2>2
  <2>4. b[m] < b[m + 1] /\ b[m + 1] <= Cardinality(F) /\ b[m + 1] \in Nat
    <3>1. m + 1 \in 0..n
      BY ONLY <1>1, <2>1
    <3> QED
      BY ONLY <1>4, <2>2, <3>1
  <2> QED
    BY ONLY <1>2, <2>3, <2>4
<1>7. ~(n < m)
  <2>1. SUFFICES ASSUME n < m PROVE FALSE
    OBVIOUS
  <2>2. n \in 0..m /\ n \in 0..n /\ n + 1 \in 1..m /\ n + 1 - 1 = n
    BY ONLY <1>1, <2>1
  <2>3. c[n] = Cardinality(F)
    BY <1>4, <1>5, <2>2
  <2>4. c[n] < c[n + 1] /\ c[n + 1] <= Cardinality(F) /\ c[n + 1] \in Nat
    <3>1. n + 1 \in 0..m
      BY ONLY <1>1, <2>1
    <3> QED
      BY ONLY <1>3, <2>2, <3>1
  <2> QED
    BY ONLY <1>2, <2>3, <2>4
<1>8. m = n
  BY ONLY <1>1, <1>6, <1>7
<1> QED
  BY ONLY <1>1, <1>5, <1>8 DEF SameCuts

\* The words of the i-th part are those of ws between two of the places c.
Sliced(q, seps, ws, c, m) ==
  \A i \in 1..m : Tokens(q[i], seps) = SubSeq(ws, c[i - 1] + 1, c[i])

\* The words of each part.
LEMMA PartingWords ==
  ASSUME NEW T, NEW s, NEW seps, NEW pipe, NEW F,
         NEW m, NEW q, NEW d, NEW c, Parting(T, s, q, d, m, seps, pipe, F, c)
  PROVE  Sliced(q, seps, Tokens(s, seps \cup {pipe}), c, m)
<1> SUFFICES ASSUME NEW i \in 1..m
             PROVE  Tokens(q[i], seps) = SubSeq(Tokens(s, seps \cup {pipe}), c[i - 1] + 1, c[i])
  BY DEF Sliced
<1>1. PICK full, t, k : full = seps \cup {pipe} /\ t = q[i] /\ k = d[i]
  OBVIOUS
<1>2. /\ s \in Seq(T) /\ q \in Seq(Seq(T)) /\ Len(q) = m /\ m \in Nat
      /\ F = Starts(s, full)
  BY <1>1 DEF Parting
<1>3. k \in Nat /\ Stretch(t, seps, s, full, k)
  BY <1>1 DEF Parting, Divides
<1>4. t \in Seq(T)
  BY <1>1, <1>2
<1>5. c[i] = Rank(F, k + Len(t)) /\ c[i - 1] = Rank(F, k)
  <2>1. WordCuts(q, d, m, F, c)
    BY DividesCuts
  <2> QED
    BY <1>1, <2>1 DEF WordCuts
<1>6. Tokens(t, seps) = SubSeq(Tokens(s, full), c[i - 1] + 1, c[i])
  <2>1. PICK lo, hi : lo = c[i - 1] /\ hi = c[i]
    OBVIOUS
  <2>2. s \in Seq(T) /\ F = Starts(s, full) /\ lo = Rank(F, k) /\ hi = Rank(F, k + Len(t))
    BY ONLY <1>2, <1>5, <2>1
  <2>3. Tokens(t, seps) = SubSeq(Tokens(s, full), lo + 1, hi)
    BY ONLY <1>3, <1>4, <2>2, StretchTokens, SMTT(30)
  <2> QED
    BY ONLY <2>1, <2>3
<1> QED
  BY <1>1, <1>6

\* The words of the parts, one part behind the other, are the words.
LEMMA PartingFlattens ==
  ASSUME NEW T, NEW s, NEW seps, NEW pipe, NEW F,
         NEW m, NEW q, NEW d, NEW c, Parting(T, s, q, d, m, seps, pipe, F, c),
         NEW w, w \in Seq(Seq(Seq(T))), Len(w) = m, \A i \in 1..m : w[i] = Tokens(q[i], seps)
  PROVE  FlattenSeq(w) = Tokens(s, seps \cup {pipe})
<1>1. PICK ws : /\ ws = Tokens(s, seps \cup {pipe}) /\ ws \in Seq(Seq(T))
                /\ Len(ws) = Cardinality(F)
  <2>1. s \in Seq(T) /\ F = Starts(s, seps \cup {pipe})
    BY DEF Parting
  <2> QED
    BY ONLY <2>1, TokensAt
<1>2. Cut(w, ws, c, m)
  <2>1. \A i \in 1..m : w[i] = SubSeq(ws, c[i - 1] + 1, c[i])
    <3>1. Sliced(q, seps, ws, c, m)
      BY <1>1, PartingWords
    <3> QED
      BY <3>1, Zenon DEF Sliced
  <2>2. WordCuts(q, d, m, F, c)
    BY DividesCuts
  <2>3. \A i \in 1..m : c[i - 1] <= c[i]
    <3> TAKE i \in 1..m
    <3>1. m \in Nat
      BY DEF Parting
    <3>2. i \in 0..m /\ i - 1 \in 0..m
      BY ONLY <3>1
    <3>3. c[i - 1] \in Nat /\ c[i] \in Nat /\ c[i - 1] < c[i]
      BY ONLY <2>2, <3>2 DEF WordCuts
    <3> QED
      BY ONLY <3>3
  <2>4. c[0] = 0 /\ c[m] = Cardinality(F) /\ (\A i \in 0..m : c[i] \in Nat)
        /\ \A i \in 1..m : c[i] <= Cardinality(F)
    BY ONLY <2>2 DEF WordCuts
  <2> QED
    BY ONLY <1>1, <2>1, <2>3, <2>4 DEF Cut
<1>3. m # 0
  BY DEF Parting
<1> QED
  BY <1>1, <1>2, <1>3, FlattenCut

-----------------------------------------------------------------------------
(***************************************************************************)
(* Tokens and their cores: the parts between the pipes, blanks taken off.  *)
(***************************************************************************)
\* Every place without a separator is in a token.
LEMMA TokenWith ==
  ASSUME NEW T, NEW s \in Seq(T), NEW seps, NEW k, Inside(s, seps, k)
  PROVE  \E p \in Starts(s, seps) : p <= k /\ k <= EndOf(s, seps, p)
<1> DEFINE D == {j \in 1..k : \A i \in j..k : Inside(s, seps, i)}
<1>1. k \in 1..Len(s) /\ k \in Int /\ Len(s) \in Nat
  BY DEF Inside
<1>2. k \in D
  <2>1. k \in 1..k /\ \A i \in k..k : i = k
    BY <1>1
  <2> QED
    BY <2>1
<1>3. PICK p \in D : \A j \in D : p <= j
  <2>1. D \subseteq Nat
    BY <1>1
  <2> HIDE DEF D
  <2> QED
    BY <1>2, <2>1, LeastNumber
<1>4. p \in 1..k /\ p \in Int /\ \A i \in p..k : Inside(s, seps, i)
  BY <1>1, <1>3
<1>5. ~Inside(s, seps, p - 1)
  <2>1. SUFFICES ASSUME Inside(s, seps, p - 1) PROVE FALSE
    OBVIOUS
  <2>2. p - 1 \in 1..Len(s) /\ p - 1 \in 1..k /\ ~(p <= p - 1)
    BY <1>1, <1>4, <2>1 DEF Inside
  <2>3. \A i \in p - 1..k : i = p - 1 \/ i \in p..k
    BY ONLY <1>1, <1>4
  <2>4. p - 1 \in D
    BY <1>4, <2>1, <2>2, <2>3
  <2> QED
    BY <1>3, <2>2, <2>4
<1>6. p \in Starts(s, seps)
  <2>1. Inside(s, seps, p) /\ p \in DOMAIN s
    BY <1>1, <1>4
  <2> QED
    BY <1>5, <2>1 DEF Starts
<1>7. k <= EndOf(s, seps, p)
  <2>1. PICK e : e = EndOf(s, seps, p) /\ e \in p..Len(s) /\ ~Inside(s, seps, e + 1)
    BY <1>6, TokenEnds
  <2>2. e < k => e + 1 \in p..k
    BY ONLY <1>1, <1>4, <2>1
  <2>3. e \in Int /\ k \in Int
    BY ONLY <1>1, <1>4, <2>1
  <2> QED
    BY <1>4, <2>1, <2>2, <2>3
<1> QED
  BY <1>4, <1>6, <1>7

\* w is the token of t from p to e.
IsToken(T, w, t, seps, p, e) ==
  /\ w \in Seq(T) /\ Len(w) = e - p + 1 /\ p \in 1..Len(t) /\ e \in p..Len(t)
  /\ \A i \in 1..Len(w) : w[i] = t[p - 1 + i] /\ w[i] \notin seps
  /\ ~Inside(t, seps, p - 1) /\ ~Inside(t, seps, e + 1)

\* A token, with the separators at its ends.
LEMMA TokenIs ==
  ASSUME NEW T, NEW t \in Seq(T), NEW seps, NEW p \in Starts(t, seps)
  PROVE  IsToken(T, SubSeq(t, p, EndOf(t, seps, p)), t, seps, p, EndOf(t, seps, p))
<1>1. PICK e : /\ e = EndOf(t, seps, p) /\ p \in 1..Len(t) /\ e \in p..Len(t)
               /\ \A m \in p..e : Inside(t, seps, m)
               /\ ~Inside(t, seps, e + 1) /\ p \in Int /\ e \in Int
  BY TokenEnds
<1>2. PICK w : w = SubSeq(t, p, e)
  OBVIOUS
<1>3. \A i \in p..e : i \in 1..Len(t) /\ t[i] \in T
  BY <1>1
<1>4. /\ w \in Seq(T) /\ Len(w) = e - p + 1
      /\ \A i \in 1..e - p + 1 : w[i] = t[p + i - 1]
  BY <1>1, <1>2, <1>3, SubSeqProperties
<1>5. \A i \in 1..Len(w) : w[i] = t[p - 1 + i] /\ w[i] \notin seps
  <2> TAKE i \in 1..Len(w)
  <2>1. i \in 1..e - p + 1 /\ p + i - 1 = p - 1 + i /\ p - 1 + i \in p..e
    BY <1>1, <1>4
  <2> QED
    BY <1>1, <1>4, <2>1 DEF Inside
<1>6. ~Inside(t, seps, p - 1)
  BY DEF Starts
<1> QED
  BY <1>1, <1>2, <1>4, <1>5, <1>6 DEF IsToken

\* Between two tokens there is a separator, right before the second.
LEMMA TokensApart ==
  ASSUME NEW T, NEW t \in Seq(T), NEW seps, NEW p \in Starts(t, seps),
         NEW o \in Starts(t, seps), p < o
  PROVE  EndOf(t, seps, p) < o - 1 /\ o - 1 \in 1..Len(t) /\ t[o - 1] \in seps
<1>1. PICK e : e = EndOf(t, seps, p) /\ p \in 1..Len(t) /\ e \in p..Len(t) /\ p \in Int /\ e \in Int
               /\ \A m \in p..e : Inside(t, seps, m)
  BY TokenEnds
<1>2. o \in 1..Len(t) /\ o \in Int /\ ~Inside(t, seps, o - 1) /\ Len(t) \in Nat
  BY DEF Starts
<1>3. o - 1 \in 1..Len(t)
  BY <1>1, <1>2
<1>4. ~(o - 1 <= e)
  <2>1. o - 1 <= e => o - 1 \in p..e
    BY <1>1, <1>2
  <2> QED
    BY <1>1, <1>2, <2>1
<1> QED
  BY <1>1, <1>2, <1>3, <1>4 DEF Inside
-----------------------------------------------------------------------------
\* v is w without some of its first and its last members, all of them separators.
Core(v, w, x, seps) ==
  /\ x \in Nat /\ Len(v) \in Nat /\ Len(w) \in Nat /\ x + Len(v) <= Len(w)
  /\ \A i \in 1..Len(v) : v[i] = w[x + i]
  /\ \A k \in 1..Len(w) : w[k] \notin seps => x < k /\ k <= x + Len(v)

\* Where t ends or has a pipe, s has no word.
LEMMA OutsideCore ==
  ASSUME NEW T, NEW s \in Seq(T), NEW t \in Seq(T), NEW a, NEW seps, NEW pipe,
         Core(t, s, a, seps), NEW j \in 0..Len(t) + 1, ~Inside(t, {pipe}, j)
  PROVE  ~Inside(s, seps \cup {pipe}, a + j)
<1>1. SUFFICES ASSUME Inside(s, seps \cup {pipe}, a + j) PROVE FALSE
  OBVIOUS
<1>2. a + j \in 1..Len(s) /\ s[a + j] \notin seps /\ s[a + j] # pipe
  BY <1>1 DEF Inside
<1>3. a < a + j /\ a + j <= a + Len(t)
  BY <1>2 DEF Core
<1>4. j \in 1..Len(t)
  BY <1>3 DEF Core
<1>5. t[j] = s[a + j]
  BY <1>4 DEF Core
<1> QED
  BY <1>2, <1>4, <1>5 DEF Inside

\* The core of a part between pipes is a stretch of the line.
LEMMA CoreStretches ==
  ASSUME NEW T, NEW s \in Seq(T), NEW t \in Seq(T), NEW a, NEW seps, NEW pipe,
         Core(t, s, a, seps), NEW w, NEW p, NEW e, IsToken(T, w, t, {pipe}, p, e),
         NEW v \in Seq(T), NEW x, Core(v, w, x, seps)
  PROVE  a + p - 1 + x \in Nat /\ Stretch(v, seps, s, seps \cup {pipe}, a + p - 1 + x)
<1>1. PICK n, l, g, z, full : /\ n = Len(v) /\ l = Len(w) /\ g = Len(t) /\ z = Len(s)
                              /\ full = seps \cup {pipe}
  OBVIOUS
<1>2. /\ n \in Nat /\ l \in Nat /\ g \in Nat /\ z \in Nat /\ a \in Nat /\ x \in Nat
      /\ p \in 1..g /\ e \in p..g /\ l = e - p + 1 /\ x + n <= l /\ a + g <= z
  BY <1>1 DEF Core, IsToken
<1>3. /\ \A i \in 1..n : v[i] = w[x + i]
      /\ \A k \in 1..l : w[k] \notin seps => x < k /\ k <= x + n
      /\ \A i \in 1..g : t[i] = s[a + i]
      /\ \A i \in 1..l : w[i] = t[p - 1 + i] /\ w[i] # pipe
      /\ ~Inside(t, {pipe}, p - 1) /\ ~Inside(t, {pipe}, e + 1)
  BY <1>1 DEF Core, IsToken
<1>4. PICK d : d = a + p - 1 + x /\ d \in Nat /\ d + n <= z
  BY ONLY <1>2
\* The part is the line from a + p on.
<1>5. \A i \in 1..l : w[i] = s[a + p - 1 + i] /\ a + p - 1 + i \in 1..z
  <2> TAKE i \in 1..l
  <2>1. p - 1 + i \in 1..g /\ a + (p - 1 + i) = a + p - 1 + i /\ a + p - 1 + i \in 1..z
    BY ONLY <1>2
  <2> QED
    BY ONLY <1>3, <2>1
<1>6. \A i \in 1..n : v[i] = s[d + i] /\ v[i] # pipe /\ d + i \in 1..z
  <2> TAKE i \in 1..n
  <2>1. x + i \in 1..l /\ a + p - 1 + (x + i) = d + i
    BY ONLY <1>2, <1>4
  <2> QED
    BY <1>3, <1>5, <2>1
<1>7. ASSUME NEW j \in 0..l + 1, ~(x < j /\ j <= x + n) PROVE ~Inside(s, full, a + p - 1 + j)
  <2>1. CASE j \in 1..l
    <3>1. w[j] \in seps
      BY <1>3, <1>7, <2>1
    <3>2. s[a + p - 1 + j] \in seps
      BY <1>5, <2>1, <3>1
    <3> QED
      BY <1>1, <3>2 DEF Inside
  <2>2. CASE j = 0
    <3>1. p - 1 \in 0..g + 1 /\ a + (p - 1) = a + p - 1 + j
      BY <1>2, <2>2
    <3>2. ~Inside(s, full, a + (p - 1))
      BY <1>1, <1>3, <3>1, OutsideCore
    <3> QED
      BY <3>1, <3>2
  <2>3. CASE j = l + 1
    <3>1. e + 1 \in 0..g + 1 /\ a + (e + 1) = a + p - 1 + j
      BY <1>2, <2>3
    <3>2. ~Inside(s, full, a + (e + 1))
      BY <1>1, <1>3, <3>1, OutsideCore
    <3> QED
      BY <3>1, <3>2
  <2> QED
    BY <1>2, <2>1, <2>2, <2>3
<1>8. ASSUME NEW i \in 0..n + 1 PROVE Inside(v, seps, i) <=> Inside(s, full, d + i)
  <2>1. CASE i \in 1..n
    <3>1. i \in DOMAIN v /\ d + i \in DOMAIN s
      BY <1>1, <1>6, <2>1
    <3> QED
      BY <1>1, <1>6, <2>1, <3>1 DEF Inside
  <2>2. CASE i \notin 1..n
    <3>1. ~Inside(v, seps, i)
      BY <1>1, <2>2 DEF Inside
    <3>2. x + i \in 0..l + 1 /\ ~(x < x + i /\ x + i <= x + n) /\ a + p - 1 + (x + i) = d + i
      BY <1>2, <1>4, <2>2
    <3>3. ~Inside(s, full, d + i)
      <4>1. ~Inside(s, full, a + p - 1 + (x + i))
        BY <1>7, <3>2
      <4> QED
        BY <3>2, <4>1
    <3> QED
      BY <3>1, <3>3
  <2> QED
    BY <2>1, <2>2
<1>9. Stretch(v, seps, s, full, d)
  BY <1>1, <1>4, <1>6, <1>8 DEF Stretch
<1> QED
  BY <1>1, <1>4, <1>9

\* The parts of a line that are not made of separators only.
Solid(parts, seps) == {n \in 1..Len(parts) : \E i \in 1..Len(parts[n]) : parts[n][i] \notin seps}

\* A part that is not blank has a word in its core.
LEMMA CoreHasWord ==
  ASSUME NEW T, NEW s \in Seq(T), NEW full, NEW seps, NEW w \in Seq(T), NEW v \in Seq(T), NEW x,
         Core(v, w, x, seps), NEW i \in 1..Len(w), w[i] \notin seps,
         NEW d \in Nat, Stretch(v, seps, s, full, d)
  PROVE  \E k \in Starts(s, full) : d < k /\ k <= d + Len(v)
<1>1. /\ x \in Nat /\ Len(v) \in Nat /\ x < i /\ i <= x + Len(v) /\ i \in Int
      /\ \A j \in 1..Len(v) : v[j] = w[x + j]
  BY DEF Core
<1>2. i - x \in 1..Len(v) /\ x + (i - x) = i
  BY ONLY <1>1
<1>3. Inside(v, seps, i - x)
  <2>1. v[i - x] = w[i] /\ i - x \in DOMAIN v
    BY <1>1, <1>2
  <2> QED
    BY <2>1 DEF Inside
<1>4. PICK o \in Starts(v, seps) : TRUE
  BY <1>3, TokenWith
<1>5. o \in 1..Len(v)
  BY TokenEnds
<1>6. d + o \in Starts(s, full)
  BY <1>5, StretchStarts
<1>7. d < d + o /\ d + o <= d + Len(v)
  BY <1>1, <1>5
<1> QED
  BY <1>6, <1>7

\* The g[n] are the cores of the parts at the places R.
Cored(T, parts, R, g, x, seps) ==
  \A n \in R : g[n] \in Seq(T) /\ Core(g[n], parts[n], x[n], seps)

\* q are the g[n] with n in R, in their order, and hold the words of s.
Parted(T, s, q, parts, R, g, seps, pipe) ==
  /\ q \in Seq(Seq(T)) /\ Len(q) = Cardinality(R)
  /\ Cardinality(R) \in Nat /\ Cardinality(R) <= Len(parts) /\ R \subseteq 1..Len(parts)
  /\ \A i \in 1..Cardinality(R) : Nth(R, i) \in R /\ q[i] = g[Nth(R, i)]
  /\ \E d : Divides(s, q, d, Cardinality(R), seps, pipe)

\* The cores of the parts that are not blank hold the words of the line.
LEMMA PartsDivide ==
  ASSUME NEW T, NEW s \in Seq(T), NEW t \in Seq(T), NEW a, NEW seps, NEW pipe,
         Core(t, s, a, seps),
         NEW parts, parts = Tokens(t, {pipe}), NEW R, R = Solid(parts, seps),
         NEW g, NEW x, Cored(T, parts, R, g, x, seps)
  PROVE  Parted(T, s, At(g, R), parts, R, g, seps, pipe)
<1>1. \A n \in R : g[n] \in Seq(T) /\ Core(g[n], parts[n], x[n], seps)
  BY DEF Cored
<1>2. PICK S : S = Starts(t, {pipe})
  OBVIOUS
<1>3. PICK l : /\ l = Len(parts) /\ l = Cardinality(S) /\ l \in Nat
               /\ S \subseteq Int /\ IsFiniteSet(S)
               /\ \A k \in S : /\ Rank(S, k) \in 1..l /\ Nth(S, Rank(S, k)) = k
                               /\ parts[Rank(S, k)] = SubSeq(t, k, EndOf(t, {pipe}, k))
               /\ \A m \in 1..l :
                    \E k \in S : k = Nth(S, m) /\ parts[m] = SubSeq(t, k, EndOf(t, {pipe}, k))
  <2>1. PICK sp : sp = {pipe} /\ t \in Seq(T) /\ S = Starts(t, sp) /\ parts = Tokens(t, sp)
    BY <1>2
  <2>2. /\ S \subseteq Int /\ IsFiniteSet(S) /\ Cardinality(S) \in Nat
        /\ Len(parts) = Cardinality(S) /\ Placed(t, sp, S, parts)
    BY ONLY <2>1, TokensAt
  <2>3. \A k \in S : /\ Rank(S, k) \in 1..Len(parts) /\ Nth(S, Rank(S, k)) = k
                     /\ parts[Rank(S, k)] = SubSeq(t, k, EndOf(t, {pipe}, k))
    BY ONLY <2>1, <2>2 DEF Placed
  <2>4. \A m \in 1..Len(parts) :
          \E k \in S : k = Nth(S, m) /\ Rank(S, k) = m /\ parts[m] = SubSeq(t, k, EndOf(t, {pipe}, k))
    BY ONLY <2>1, <2>2 DEF Placed
  <2>5. \A m \in 1..Len(parts) :
          \E k \in S : k = Nth(S, m) /\ parts[m] = SubSeq(t, k, EndOf(t, {pipe}, k))
    BY ONLY <2>4, Zenon
  <2> QED
    BY ONLY <2>2, <2>3, <2>5
<1> DEFINE End(k) == EndOf(t, {pipe}, k)
           From(n) == a + Nth(S, n) - 1 + x[n]
<1>4. \A n \in 1..l : Nth(S, n) \in S /\ IsToken(T, parts[n], t, {pipe}, Nth(S, n), End(Nth(S, n)))
  <2> TAKE n \in 1..l
  <2>1. PICK k \in S : k = Nth(S, n) /\ parts[n] = SubSeq(t, k, EndOf(t, {pipe}, k))
    BY ONLY <1>3
  <2>2. IsToken(T, SubSeq(t, k, EndOf(t, {pipe}, k)), t, {pipe}, k, EndOf(t, {pipe}, k))
    BY <1>2, TokenIs
  <2> QED
    BY <2>1, <2>2
<1>5. \A n, o \in 1..l : n < o => Nth(S, n) < Nth(S, o)
  BY ONLY <1>3, NthIs
<1>6. PICK m : /\ m = Cardinality(R) /\ m \in Nat /\ m <= l /\ R \subseteq 1..l
               /\ IsFiniteSet(R) /\ R \subseteq Int
  <2>1. R \subseteq 1..l /\ IsFiniteSet(1..l)
    <3>1. R \subseteq 1..l
      BY <1>3 DEF Solid
    <3>2. IsFiniteSet(1..l)
      BY ONLY <1>3, FS_Interval
    <3> QED
      BY ONLY <3>1, <3>2
  <2>2. IsFiniteSet(R) /\ R \subseteq Int
    <3>1. R \in SUBSET (1..l) /\ R \subseteq Int
      BY ONLY <2>1
    <3> QED
      BY ONLY <2>1, <3>1, FS_Subset
  <2>3. Cardinality(R) \in Nat
    BY ONLY <2>2, FS_CardinalityType
  <2>4. Cardinality(R) <= l
    <3>1. Cardinality(R) <= Cardinality(1..l)
      <4>1. R \in SUBSET (1..l)
        BY ONLY <2>1
      <4> QED
        BY ONLY <2>1, <4>1, FS_Subset
    <3>2. Cardinality(1..l) = l
      BY ONLY <1>3, FS_Interval
    <3> QED
      BY ONLY <3>1, <3>2
  <2> QED
    BY ONLY <2>1, <2>2, <2>3, <2>4
<1>7. /\ \A n \in R : Rank(R, n) \in 1..m /\ Nth(R, Rank(R, n)) = n
      /\ \A i \in 1..m : Nth(R, i) \in R /\ Nth(R, i) \in 1..l
      /\ \A i, j \in 1..m : i < j => Nth(R, i) < Nth(R, j)
  BY ONLY <1>6, NthIs
<1>8. PICK q : /\ q = At(g, R) /\ q \in Seq(Seq(T)) /\ Len(q) = m
               /\ \A i \in 1..m : q[i] = g[Nth(R, i)]
  <2>1. \A n \in R : g[n] \in Seq(T)
    BY <1>1
  <2>2. PICK q : q = At(g, R)
    OBVIOUS
  <2>3. q \in Seq(Seq(T)) /\ Len(q) = Cardinality(R) /\ \A i \in 1..Cardinality(R) : q[i] = g[Nth(R, i)]
    <3>1. PICK X : X = Seq(T) /\ \A n \in R : g[n] \in X
      BY ONLY <2>1
    <3>2. IsFiniteSet(R) /\ R \subseteq Int
      BY ONLY <1>6
    <3>3. /\ At(g, R) \in Seq(X) /\ Len(At(g, R)) = Cardinality(R)
          /\ \A i \in 1..Cardinality(R) : At(g, R)[i] = g[Nth(R, i)]
      BY ONLY <3>1, <3>2, AtIs
    <3> QED
      BY ONLY <2>2, <3>1, <3>3
  <2> QED
    BY ONLY <1>6, <2>2, <2>3
<1>9. \A n \in R : /\ g[n] \in Seq(T) /\ Core(g[n], parts[n], x[n], seps)
                   /\ From(n) \in Nat /\ Stretch(g[n], seps, s, seps \cup {pipe}, From(n))
                   /\ Len(g[n]) \in Nat /\ x[n] \in Nat
  <2> TAKE n \in R
  <2>1. g[n] \in Seq(T) /\ Core(g[n], parts[n], x[n], seps)
    BY <1>1
  <2>2. IsToken(T, parts[n], t, {pipe}, Nth(S, n), End(Nth(S, n)))
    BY <1>4, <1>6
  <2> HIDE DEF End
  <2>3. From(n) \in Nat /\ Stretch(g[n], seps, s, seps \cup {pipe}, From(n))
    BY <2>1, <2>2, CoreStretches
  <2>4. Len(g[n]) \in Nat /\ x[n] \in Nat
    BY <2>1 DEF Core
  <2> QED
    BY <2>1, <2>3, <2>4
<1>10. a \in Nat /\ \A i \in 1..Len(t) : t[i] = s[a + i]
  BY DEF Core
<1> DEFINE d == [i \in 1..m |-> From(Nth(R, i))]
           F == Starts(s, seps \cup {pipe})
<1>11. \A i \in 1..m : d[i] = From(Nth(R, i)) /\ q[i] = g[Nth(R, i)]
  BY <1>8
<1>12. ASSUME NEW i \in 1..m
       PROVE  /\ d[i] \in Nat /\ Len(q[i]) \in Nat
              /\ Stretch(q[i], seps, s, seps \cup {pipe}, d[i])
              /\ \E k \in F : d[i] < k /\ k <= d[i] + Len(q[i])
  <2>1. PICK n : n = Nth(R, i) /\ n \in R /\ n \in 1..l
    BY <1>7
  <2> HIDE DEF d, From, End
  <2>2. /\ d[i] \in Nat /\ Len(q[i]) \in Nat /\ q[i] \in Seq(T)
        /\ Stretch(q[i], seps, s, seps \cup {pipe}, d[i])
        /\ Core(q[i], parts[n], x[n], seps)
    BY <1>9, <1>11, <2>1
  <2>3. PICK k : k \in 1..Len(parts[n]) /\ parts[n][k] \notin seps
    BY <2>1 DEF Solid
  <2>4. parts[n] \in Seq(T)
    BY <1>4, <2>1 DEF IsToken
  <2>5. \E o \in F : d[i] < o /\ o <= d[i] + Len(q[i])
    BY <2>2, <2>3, <2>4, CoreHasWord
  <2> QED
    BY <2>2, <2>5
<1>13. ASSUME NEW i \in 1..m, NEW j \in 1..m, i < j
       PROVE  \E k \in Int : d[i] + Len(q[i]) < k /\ k <= d[j] /\ s[k] = pipe
  <2>1. PICK n, o : /\ n = Nth(R, i) /\ n \in R /\ n \in 1..l
                    /\ o = Nth(R, j) /\ o \in R /\ o \in 1..l /\ n < o
    BY <1>7, <1>13
  <2>2. PICK p, u : /\ p = Nth(S, n) /\ p \in S /\ u = Nth(S, o) /\ u \in S /\ p < u
                    /\ p \in Int /\ u \in Int
    BY <1>3, <1>4, <1>5, <2>1
  <2>3. PICK e : e = End(p) /\ e \in Int /\ e < u - 1 /\ u - 1 \in 1..Len(t) /\ t[u - 1] = pipe
    <3>1. End(p) < u - 1 /\ u - 1 \in 1..Len(t) /\ t[u - 1] \in {pipe}
      BY <1>2, <2>2, TokensApart
    <3>2. End(p) \in p..Len(t)
      BY <1>2, <2>2, TokenEnds
    <3> QED
      BY <2>2, <3>1, <3>2
  <2>4. PICK k : k = a + (u - 1) /\ k \in Int /\ s[k] = pipe
    BY <1>10, <2>2, <2>3
  <2> HIDE DEF d
  <2>5. d[i] + Len(q[i]) <= a + e
    <3>1. /\ d[i] = a + p - 1 + x[n] /\ q[i] = g[n] /\ Len(g[n]) \in Nat /\ x[n] \in Nat
          /\ x[n] + Len(g[n]) <= Len(parts[n])
      BY <1>9, <1>11, <2>1, <2>2 DEF Core
    <3>2. Len(parts[n]) = e - p + 1
      <4>1. IsToken(T, parts[n], t, {pipe}, p, e)
        BY <1>4, <2>1, <2>2, <2>3
      <4> QED
        BY <4>1 DEF IsToken
    <3>3. a \in Int /\ p \in Int /\ e \in Int
      BY <1>10, <2>2, <2>3
    <3> QED
      BY ONLY <3>1, <3>2, <3>3
  <2>6. k <= d[j] /\ d[j] \in Int
    <3>1. d[j] = a + u - 1 + x[o] /\ x[o] \in Nat
      BY <1>9, <1>11, <2>1, <2>2
    <3> QED
      <4>1. a \in Int /\ u \in Int /\ k \in Int /\ k = a + (u - 1)
        BY ONLY <1>10, <2>2, <2>4
      <4>2. PICK y, z : y = d[j] /\ z = x[o] /\ y = a + u - 1 + z /\ z \in Nat
        BY ONLY <3>1
      <4>3. k <= y /\ y \in Int
        BY ONLY <4>1, <4>2
      <4> QED
        BY ONLY <4>2, <4>3
  <2>7. d[i] + Len(q[i]) < k
    <3>1. d[i] \in Nat /\ Len(q[i]) \in Nat
      BY <1>12
    <3>2. PICK y : y = d[i] + Len(q[i]) /\ y \in Int /\ y <= a + e
      BY ONLY <2>5, <3>1
    <3>3. a \in Int /\ e \in Int /\ u \in Int /\ k \in Int /\ e < u - 1 /\ k = a + (u - 1)
      BY <1>10, <2>2, <2>3, <2>4
    <3>4. y < k
      BY ONLY <3>2, <3>3
    <3> QED
      BY ONLY <3>2, <3>4
  <2> QED
    BY ONLY <2>4, <2>6, <2>7
<1>14. ASSUME NEW k \in F PROVE \E i \in 1..m : d[i] < k /\ k <= d[i] + Len(q[i])
  <2>1. k \in 1..Len(s) /\ s[k] \notin seps /\ s[k] # pipe /\ k \in Int
    BY DEF Starts, Inside
  <2>2. a < k /\ k <= a + Len(t) /\ Len(t) \in Nat
    BY <2>1 DEF Core
  <2>3. PICK j : j = k - a /\ j \in 1..Len(t) /\ a + j = k
    BY ONLY <1>10, <2>1, <2>2
  <2>4. t[j] = s[k] /\ Inside(t, {pipe}, j)
    BY <1>10, <2>1, <2>3 DEF Inside
  <2>5. PICK p : p \in S /\ p <= j /\ j <= End(p) /\ p \in Int
    BY <1>2, <1>3, <2>4, TokenWith
  <2>6. PICK n, e : /\ n = Rank(S, p) /\ n \in 1..l /\ Nth(S, n) = p
                    /\ e = End(p) /\ IsToken(T, parts[n], t, {pipe}, p, e)
    BY <1>3, <1>4, <2>5
  <2>7. /\ Len(parts[n]) = e - p + 1 /\ e \in p..Len(t) /\ e \in Int
        /\ \A i \in 1..Len(parts[n]) : parts[n][i] = t[p - 1 + i]
    <3>1. /\ Len(parts[n]) = e - p + 1 /\ e \in p..Len(t)
          /\ \A i \in 1..Len(parts[n]) : parts[n][i] = t[p - 1 + i]
      BY ONLY <2>6 DEF IsToken
    <3>2. e \in Int
      BY ONLY <2>2, <2>5, <3>1
    <3> QED
      BY ONLY <3>1, <3>2
  <2>8. PICK o : o = j - p + 1 /\ o \in 1..Len(parts[n]) /\ p - 1 + o = j
    <3>1. j \in Int /\ p \in Int /\ e \in Int /\ p <= j /\ j <= e /\ Len(parts[n]) = e - p + 1
      BY <2>3, <2>5, <2>6, <2>7
    <3> QED
      BY ONLY <3>1
  <2>9. parts[n][o] \notin seps
    BY <2>1, <2>4, <2>7, <2>8
  <2>10. n \in R
    BY <1>3, <2>6, <2>8, <2>9 DEF Solid
  <2>11. x[n] < o /\ o <= x[n] + Len(g[n]) /\ x[n] \in Nat /\ Len(g[n]) \in Nat
    BY <1>9, <2>8, <2>9, <2>10 DEF Core
  <2>12. PICK i \in 1..m : i = Rank(R, n) /\ Nth(R, i) = n
    BY <1>7, <2>10
  <2>13. d[i] = a + p - 1 + x[n] /\ q[i] = g[n]
    BY <1>11, <2>6, <2>12
  <2>14. k = a + p - 1 + o
    BY ONLY <1>10, <2>1, <2>3, <2>5, <2>8
  <2>15. d[i] < k /\ k <= d[i] + Len(q[i])
    <3>1. o \in Int /\ a \in Int /\ p \in Int
      BY <1>10, <2>3, <2>5, <2>8
    <3> QED
      BY ONLY <2>11, <2>13, <2>14, <3>1
  <2> QED
    BY <2>15
<1> HIDE DEF d, From, End
<1>15. Divides(s, q, d, m, seps, pipe)
  BY ONLY <1>12, <1>13, <1>14 DEF Divides
<1> QED
  BY <1>3, <1>6, <1>7, <1>8, <1>15 DEF Parted

\* A line has a part where it has a word.
HasParting(T, s, q, d, m, seps, pipe, F) ==
  /\ m = 0 <=> F = {}
  /\ F # {} => \E c : Parting(T, s, q, d, m, seps, pipe, F, c)

\* Every division is of that kind.
LEMMA PartingExists ==
  ASSUME NEW T, NEW s \in Seq(T), NEW q \in Seq(Seq(T)), NEW m, m = Len(q), NEW d,
         NEW seps, NEW pipe, Divides(s, q, d, m, seps, pipe),
         NEW F, F = Starts(s, seps \cup {pipe})
  PROVE  HasParting(T, s, q, d, m, seps, pipe, F)
<1>1. m \in Nat
  OBVIOUS
<1>2. m = 0 => F = {}
  <2>1. \A k \in F : \E i \in 1..m : d[i] < k
    BY DEF Divides
  <2>2. m = 0 => 1..m = {}
    OBVIOUS
  <2> QED
    BY ONLY <2>1, <2>2
<1>3. m # 0 => F # {}
  <2>1. m # 0 => 1 \in 1..m
    BY <1>1
  <2> QED
    BY <2>1 DEF Divides
<1>4. F # {} => Parting(T, s, q, d, m, seps, pipe, F, WordsTo(s, q, d, m, seps \cup {pipe}))
  BY <1>1, <1>2 DEF Parting
<1> QED
  BY <1>2, <1>3, <1>4 DEF HasParting

-----------------------------------------------------------------------------
(***************************************************************************)
(* The commands of ShellP3, that lose no word.                             *)
(***************************************************************************)
\* What is left without the blanks at both ends is the core.
LEMMA TrimmedCore ==
  ASSUME NEW T, NEW w \in Seq(T), NEW blanks
  PROVE  /\ \E x : Core(Trimmed(w, blanks), w, x, blanks)
         /\ Trimmed(w, blanks) # <<>> <=> \E k \in 1..Len(w) : w[k] \notin blanks
<1> DEFINE S == {k \in DOMAIN w : w[k] \notin blanks}
<1>1. S \subseteq 1..Len(w) /\ Len(w) \in Nat /\ \A k \in 1..Len(w) : k \in S <=> w[k] \notin blanks
  OBVIOUS
<1>2. Trimmed(w, blanks) = IF S = {} THEN <<>> ELSE SubSeq(w, Min(S), Max(S))
  BY DEF Trimmed
<1> HIDE DEF S
<1>3. CASE S = {}
  <2>1. Trimmed(w, blanks) = <<>>
    BY <1>2, <1>3
  <2>2. Core(<<>>, w, 0, blanks)
    BY <1>1, <1>3 DEF Core
  <2> QED
    BY <1>1, <1>3, <2>1, <2>2
<1>4. CASE S # {}
  <2>1. S \subseteq Nat
    BY <1>1
  <2>2. \E n \in S : \A k \in S : n <= k
    BY <1>4, <2>1, LeastNumber
  <2>3. \E n \in S : \A k \in S : n >= k
    <3>1. PICK n \in S : \A k \in S : k <= n
      BY <1>1, <1>4, GreatestNumber
    <3> QED
      BY <2>1, <3>1
  <2>4. PICK lo, hi : /\ lo = Min(S) /\ hi = Max(S) /\ lo \in 1..Len(w) /\ hi \in 1..Len(w)
                      /\ \A k \in S : lo <= k /\ k <= hi
                      /\ lo <= hi
    <3>1. Min(S) \in S /\ Max(S) \in S /\ \A k \in S : Min(S) <= k /\ Max(S) >= k
      BY <2>2, <2>3 DEF Min, Max
    <3> QED
      BY <1>1, <3>1
  <2>5. PICK v : /\ v = SubSeq(w, lo, hi) /\ v = Trimmed(w, blanks)
    BY <1>2, <1>4, <2>4
  <2>6. PICK x : x = lo - 1 /\ x \in Nat /\ x + 1 = lo /\ x <= hi /\ hi \in Nat /\ hi <= Len(w)
    BY ONLY <1>1, <2>4
  <2>7. Len(v) = hi - x /\ \A i \in 1..hi - x : v[i] = w[x + i]
    <3>1. v = SubSeq(w, x + 1, hi)
      BY ONLY <2>5, <2>6
    <3>2. /\ Len(SubSeq(w, x + 1, hi)) = hi - x
          /\ \A i \in 1..hi - x : SubSeq(w, x + 1, hi)[i] = w[x + i]
      BY <2>6, SliceIs
    <3> QED
      BY ONLY <3>1, <3>2
  <2>8. \A k \in 1..Len(w) : w[k] \notin blanks => x < k /\ k <= x + Len(v)
    <3>1. \A k \in 1..Len(w) : w[k] \notin blanks => lo <= k /\ k <= hi /\ k \in Int
      BY ONLY <1>1, <2>4
    <3>2. x + Len(v) = hi /\ x + 1 = lo /\ x \in Int /\ lo \in Int /\ hi \in Int
      BY ONLY <1>1, <2>4, <2>6, <2>7
    <3>3. \A k \in Int : lo <= k => x < k
      BY ONLY <3>2
    <3> QED
      BY ONLY <3>1, <3>2, <3>3
  <2>9. Len(v) \in Nat /\ Len(v) # 0 /\ x + Len(v) <= Len(w)
    BY ONLY <2>4, <2>6, <2>7
  <2>10. Core(v, w, x, blanks)
    <3>1. x \in Nat /\ Len(w) \in Nat
      BY ONLY <1>1, <2>6
    <3>2. \A i \in 1..Len(v) : v[i] = w[x + i]
      BY ONLY <2>7, Zenon
    <3> QED
      BY ONLY <2>8, <2>9, <3>1, <3>2 DEF Core
  <2>11. v # <<>>
    BY <2>9
  <2> QED
    BY <1>1, <1>4, <2>5, <2>10, <2>11
<1> QED
  BY <1>3, <1>4

\* The core has no more words.
LEMMA CoreWords ==
  ASSUME NEW T, NEW w \in Seq(T), NEW v \in Seq(T), NEW x, NEW seps, Core(v, w, x, seps)
  PROVE  Len(Tokens(v, seps)) <= Len(Tokens(w, seps))
<1>1. /\ x \in Nat /\ Len(v) \in Nat /\ Len(w) \in Nat /\ x + Len(v) <= Len(w)
      /\ \A i \in 1..Len(v) : v[i] = w[x + i]
      /\ \A k \in 1..Len(w) : w[k] \notin seps => x < k /\ k <= x + Len(v)
  BY DEF Core
<1>2. \A i \in 0..Len(v) + 1 : Inside(v, seps, i) <=> Inside(w, seps, x + i)
  <2> TAKE i \in 0..Len(v) + 1
  <2>1. CASE i \in 1..Len(v)
    BY <1>1, <2>1 DEF Inside
  <2>2. CASE i \notin 1..Len(v)
    <3>1. ~Inside(v, seps, i)
      BY <2>2 DEF Inside
    <3>2. ~(x < x + i /\ x + i <= x + Len(v))
      BY ONLY <1>1, <2>2
    <3>3. ~Inside(w, seps, x + i)
      BY <1>1, <3>2 DEF Inside
    <3> QED
      BY <3>1, <3>3
  <2> QED
    BY <2>1, <2>2
<1>3. Stretch(v, seps, w, seps, x)
  BY ONLY <1>1, <1>2 DEF Stretch
<1>4. PICK lo, hi : /\ lo \in Nat /\ hi \in Nat /\ hi <= Len(Tokens(w, seps))
                    /\ Len(Tokens(v, seps)) = hi - lo
  BY <1>1, <1>3, StretchTokens
<1>5. Len(Tokens(w, seps)) \in Nat
  <2>1. Tokens(w, seps) \in Seq(Seq(T))
    BY TokensOf
  <2> QED
    BY <2>1
<1> QED
  BY ONLY <1>4, <1>5

\* A line has a word where it is not all separators.
LEMMA HasWords ==
  ASSUME NEW T, NEW s \in Seq(T), NEW seps
  PROVE  /\ Starts(s, seps) # {} <=> \E k \in 1..Len(s) : s[k] \notin seps
         /\ Tokens(s, seps) # <<>> <=> \E k \in 1..Len(s) : s[k] \notin seps
<1>1. ASSUME NEW k \in 1..Len(s), s[k] \notin seps PROVE Starts(s, seps) # {}
  <2>1. Inside(s, seps, k)
    BY <1>1 DEF Inside
  <2> QED
    BY <2>1, TokenWith
<1>2. ASSUME NEW k \in Starts(s, seps) PROVE \E o \in 1..Len(s) : s[o] \notin seps
  BY <1>2 DEF Starts, Inside
<1>3. Tokens(s, seps) # <<>> <=> Starts(s, seps) # {}
  <2>1. /\ Tokens(s, seps) \in Seq(Seq(T))
        /\ Len(Tokens(s, seps)) = Cardinality(Starts(s, seps))
        /\ IsFiniteSet(Starts(s, seps))
    BY TokensAt
  <2>2. Cardinality(Starts(s, seps)) = 0 <=> Starts(s, seps) = {}
    BY <2>1, FS_EmptySet
  <2>3. Tokens(s, seps) = <<>> <=> Len(Tokens(s, seps)) = 0
    BY <2>1
  <2> QED
    BY ONLY <2>1, <2>2, <2>3
<1> QED
  BY <1>1, <1>2, <1>3

\* The characters of T are blanks where they are separators.
AgreeOn(T, blanks, seps) == \A c \in T : c \in blanks <=> c \in seps

\* A line with blanks off has the core of the line.
LEMMA AgreeCore ==
  ASSUME NEW T, NEW w \in Seq(T), NEW blanks, NEW seps, AgreeOn(T, blanks, seps)
  PROVE  /\ \E x : Core(Trimmed(w, blanks), w, x, seps)
         /\ Trimmed(w, blanks) # <<>> <=> \E k \in 1..Len(w) : w[k] \notin seps
<1>1. \A k \in 1..Len(w) : w[k] \notin blanks <=> w[k] \notin seps
  <2>1. \A k \in 1..Len(w) : w[k] \in T
    OBVIOUS
  <2> QED
    BY <2>1 DEF AgreeOn
<1>2. PICK v : v = Trimmed(w, blanks)
  OBVIOUS
<1>3. PICK x : Core(v, w, x, blanks)
  BY <1>2, TrimmedCore
<1>4. Core(v, w, x, seps)
  BY <1>1, <1>3 DEF Core
<1>5. v # <<>> <=> \E k \in 1..Len(w) : w[k] \notin blanks
  BY <1>2, TrimmedCore
<1>6. v # <<>> <=> \E k \in 1..Len(w) : w[k] \notin seps
  BY ONLY <1>1, <1>5
<1> QED
  BY <1>2, <1>4, <1>6

\* Every part has no more words than some part of the line.
Within(q, parts, seps) ==
  \A i \in 1..Len(q) : \E n \in 1..Len(parts) :
    Len(Tokens(q[i], seps)) <= Len(Tokens(parts[n], seps))

\* The commands between the pipes hold the words of the line.
LEMMA StagesDivide ==
  ASSUME NEW T, NEW seps, AgreeOn(T, Blanks, seps), NEW s \in Seq(T),
         NEW parts, parts = Tokens(s, {Pipe}), NEW q, q = AllStages(s)
  PROVE  /\ q \in Seq(Seq(T)) /\ Len(q) \in Nat /\ Len(q) <= Len(parts)
         /\ \E d : Divides(s, q, d, Len(q), seps, Pipe)
         /\ Within(q, parts, seps)
<1>1. parts \in Seq(Seq(T)) /\ Len(parts) \in Nat /\ DOMAIN parts = 1..Len(parts)
  BY TokensOf
<1> DEFINE g == [n \in DOMAIN parts |-> Trimmed(parts[n], Blanks)]
           R == {n \in DOMAIN parts : g[n] # <<>>}
<1>2. q = At(g, R)
  BY DEF AllStages
<1>3. \A n \in 1..Len(parts) :
        /\ parts[n] \in Seq(T) /\ g[n] = Trimmed(parts[n], Blanks) /\ g[n] \in Seq(T)
        /\ \E x : Core(g[n], parts[n], x, seps)
        /\ g[n] # <<>> <=> \E k \in 1..Len(parts[n]) : parts[n][k] \notin seps
  <2> TAKE n \in 1..Len(parts)
  <2>1. parts[n] \in Seq(T)
    BY <1>1
  <2>2. g[n] = Trimmed(parts[n], Blanks)
    BY <1>1
  <2>3. /\ \E x : Core(Trimmed(parts[n], Blanks), parts[n], x, seps)
        /\ Trimmed(parts[n], Blanks) # <<>> <=> \E k \in 1..Len(parts[n]) : parts[n][k] \notin seps
    BY <2>1, AgreeCore
  <2>4. Trimmed(parts[n], Blanks) \in Seq(T)
    BY <2>1, TrimmedIs
  <2> HIDE DEF g
  <2> QED
    BY ONLY <2>1, <2>2, <2>3, <2>4
<1>4. R = Solid(parts, seps)
  <2>1. \A n : n \in R <=> n \in 1..Len(parts) /\ g[n] # <<>>
    BY <1>1
  <2> HIDE DEF g, R
  <2>2. \A n : n \in R <=> n \in Solid(parts, seps)
    BY ONLY <2>1, <1>3 DEF Solid
  <2> QED
    BY ONLY <2>2
<1> HIDE DEF g, R
<1> DEFINE x == [n \in R |-> CHOOSE k : Core(g[n], parts[n], k, seps)]
<1>5. \A n \in R : n \in 1..Len(parts) /\ g[n] \in Seq(T) /\ Core(g[n], parts[n], x[n], seps)
  <2>1. R \subseteq 1..Len(parts)
    BY <1>4 DEF Solid
  <2>2. \A n \in R : x[n] = CHOOSE k : Core(g[n], parts[n], k, seps)
    OBVIOUS
  <2> HIDE DEF x
  <2> QED
    BY <1>3, <2>1, <2>2
<1> HIDE DEF x
<1>6. PICK r : r = Cardinality(R)
  OBVIOUS
<1>7. Core(s, s, 0, seps)
  BY DEF Core
<1>8. /\ q \in Seq(Seq(T)) /\ Len(q) = r /\ r \in Nat /\ r <= Len(parts)
      /\ \A i \in 1..r : Nth(R, i) \in R /\ q[i] = g[Nth(R, i)]
      /\ \E d : Divides(s, q, d, r, seps, Pipe)
  <2>1. Cored(T, parts, R, g, x, seps)
    BY <1>5 DEF Cored
  <2>2. Parted(T, s, At(g, R), parts, R, g, seps, Pipe)
    BY <1>4, <1>7, <2>1, PartsDivide
  <2> QED
    BY ONLY <1>2, <1>6, <2>2 DEF Parted
<1>9. Within(q, parts, seps)
  <2> SUFFICES ASSUME NEW i \in 1..Len(q)
               PROVE  \E n \in 1..Len(parts) :
                        Len(Tokens(q[i], seps)) <= Len(Tokens(parts[n], seps))
    BY DEF Within
  <2>1. PICK n : n = Nth(R, i) /\ n \in R /\ q[i] = g[n]
    BY <1>8
  <2>2. n \in 1..Len(parts) /\ q[i] \in Seq(T) /\ Core(q[i], parts[n], x[n], seps)
        /\ parts[n] \in Seq(T)
    BY <1>3, <1>5, <2>1
  <2>3. Len(Tokens(q[i], seps)) <= Len(Tokens(parts[n], seps))
    BY <2>2, CoreWords
  <2> QED
    BY <2>2, <2>3
<1> QED
  BY ONLY <1>8, <1>9

\* In a line without a pipe the pipe separates no words.
WordsUnpiped(s, seps, pipe) == Tokens(s, seps) = Tokens(s, seps \cup {pipe})

\* A line without a pipe is all one part.
LEMMA OnePart ==
  ASSUME NEW T, NEW s \in Seq(T), NEW seps, NEW pipe,
         \A k \in 1..Len(s) : s[k] # pipe
  PROVE  /\ Stretch(s, seps, s, seps \cup {pipe}, 0)
         /\ WordsUnpiped(s, seps, pipe)
<1>1. \A k \in 1..Len(s) : s[k] # pipe
  OBVIOUS
<1>2. Len(s) \in Nat /\ \A k \in Int : Inside(s, seps, k) <=> Inside(s, seps \cup {pipe}, k)
  BY <1>1 DEF Inside
<1>3. Stretch(s, seps, s, seps \cup {pipe}, 0)
  <2>1. PICK full : full = seps \cup {pipe}
    OBVIOUS
  <2>2. \A k \in 0..Len(s) + 1 : 0 + k = k /\ k \in Int
    BY ONLY <1>2
  <2>3. \A k \in 0..Len(s) + 1 : Inside(s, seps, k) <=> Inside(s, full, 0 + k)
    <3> TAKE k \in 0..Len(s) + 1
    <3>1. 0 + k = k /\ (Inside(s, seps, k) <=> Inside(s, full, k))
      BY ONLY <1>2, <2>1, <2>2
    <3> QED
      BY ONLY <3>1, Zenon
  <2>4. \A k \in 1..Len(s) : s[k] = s[0 + k]
    BY ONLY <1>2
  <2>5. 0 + Len(s) <= Len(s)
    BY ONLY <1>2
  <2> QED
    BY ONLY <2>1, <2>3, <2>4, <2>5 DEF Stretch
<1>4. PICK F, n : /\ F = Starts(s, seps \cup {pipe}) /\ n = Len(s) /\ n \in Nat
                  /\ F \subseteq 1..n
  <2>1. Starts(s, seps \cup {pipe}) \subseteq 1..Len(s)
    BY TokensAt
  <2> QED
    BY <1>2, <2>1
<1>5. Rank(F, 0) = 0 /\ Rank(F, 0 + n) = Cardinality(F)
  <2>1. Rank(F, 0) = 0 /\ Rank(F, n) = Cardinality(F)
    <3>1. n \in Nat /\ F \subseteq 1..n
      BY ONLY <1>4
    <3>2. Rank(F, 0) = 0 /\ \A i \in Int : i >= n => Rank(F, i) = Cardinality(F)
      BY ONLY <3>1, RankOf
    <3>3. n \in Int /\ n >= n
      BY ONLY <3>1
    <3> QED
      BY ONLY <3>2, <3>3
  <2> QED
    BY ONLY <1>4, <2>1
<1>6. PICK ws : /\ ws = Tokens(s, seps \cup {pipe}) /\ ws \in Seq(Seq(T))
                /\ Len(ws) = Cardinality(F)
  BY <1>4, TokensAt
<1>7. Tokens(s, seps) = SubSeq(ws, Rank(F, 0) + 1, Rank(F, 0 + n))
  <2>1. PICK full, d, lo, hi : /\ full = seps \cup {pipe} /\ d = 0
                               /\ lo = Rank(F, d) /\ hi = Rank(F, d + n)
    OBVIOUS
  <2>2. F = Starts(s, full) /\ Stretch(s, seps, s, full, d)
    BY ONLY <1>3, <1>4, <2>1, Zenon
  <2>3. d \in Nat
    BY ONLY <2>1
  <2>4. lo = Rank(F, d) /\ hi = Rank(F, d + Len(s))
    BY ONLY <1>4, <2>1, Zenon
  <2>5. s \in Seq(T)
    OBVIOUS
  <2>6. Tokens(s, seps) = SubSeq(Tokens(s, full), lo + 1, hi)
    BY ONLY <2>2, <2>3, <2>4, <2>5, StretchTokens, SMTT(30)
  <2> QED
    BY ONLY <1>6, <2>1, <2>6, Zenon
<1>8. Tokens(s, seps) = SubSeq(ws, 1, Len(ws))
  <2>1. Rank(F, 0) + 1 = 1 /\ Rank(F, 0 + n) = Len(ws)
    BY ONLY <1>5, <1>6
  <2> QED
    BY ONLY <1>7, <2>1, Zenon
<1>9. SubSeq(ws, 1, Len(ws)) = ws
  BY ONLY <1>6
<1> QED
  BY <1>3, <1>6, <1>8, <1>9 DEF WordsUnpiped

\* argv has all the words where they have a place.
LEMMA ArgvAll ==
  ASSUME NEW T, NEW s \in Seq(T), ~BadArgs(s)
  PROVE  Argv(s) = Tokens(s, {" "})
<1>1. PICK ws : ws = Tokens(s, {" "}) /\ ws \in Seq(Seq(T))
  BY TokensOf
<1>2. ~(Len(ws) >= ArgvMax) /\ Len(ws) \in Nat /\ ArgvMax \in Nat
  <2>1. ~(Len(Tokens(s, {" "})) >= ArgvMax)
    BY DEF BadArgs
  <2>2. ArgvMax \in Nat
    BY BoundsAssumption
  <2>3. Len(ws) \in Nat
    <3>1. ws \in Seq(Seq(T))
      BY <1>1
    <3> QED
      BY ONLY <3>1
  <2> QED
    BY ONLY <1>1, <2>1, <2>2, <2>3
<1>3. Len(ws) <= ArgvMax - 1 /\ ArgvMax - 1 \in Nat
  <2>1. ArgvMax - 1 \in Nat
    BY Limits
  <2> QED
    BY ONLY <1>2, <2>1
<1>4. First(ws, ArgvMax - 1) = ws
  BY <1>1, <1>3, FirstIs
<1> QED
  BY <1>1, <1>4 DEF Argv

\* What ShellP3 makes of a line that it accepts.
LEMMA P3Accepts ==
  ASSUME NEW T, NEW s \in Seq(T), ShellP3(s).rc = "OK"
  PROVE  \/ /\ Piped(s) /\ Stages(s) # <<>>
            /\ ShellP3(s).cmds = [n \in DOMAIN Stages(s) |-> Argv(Stages(s)[n])]
         \/ ~Piped(s) /\ ~BadArgs(s) /\ ShellP3(s).cmds = <<Argv(s)>>
<1>1. CASE s = <<>> \/ (Piped(s) /\ Stages(s) = <<>>)
  <2>1. s = <<>> => ~Piped(s)
    BY DEF Piped, Contains
  <2>2. ShellP3(s).rc = "WARN_NO_CMDS"
    BY <1>1, <2>1 DEF ShellP3
  <2> QED
    BY <2>2
<1>2. CASE Piped(s) /\ Stages(s) # <<>>
  <2>1. s # <<>>
    BY <1>2 DEF Piped, Contains
  <2> QED
    BY <1>2, <2>1 DEF ShellP3
<1>3. CASE s # <<>> /\ ~Piped(s)
  <2>1. ShellP3(s) = IF BadArgs(s) THEN [rc |-> "ERR_CMD_OR_ARGS_TOO_BIG", cmds |-> <<>>]
                                   ELSE [rc |-> "OK", cmds |-> <<Argv(s)>>]
    BY <1>3 DEF ShellP3
  <2>2. ~BadArgs(s)
    BY <2>1
  <2> QED
    BY <1>3, <2>1, <2>2
<1> QED
  BY <1>1, <1>2, <1>3

\* A sequence of one.
LEMMA Single ==
  ASSUME NEW e
  PROVE  /\ Len(<<e>>) = 1 /\ <<e>>[1] = e
         /\ \A T : e \in T => <<e>> \in Seq(T)
OBVIOUS

\* A line that is one part is divided.
LEMMA WholeLine ==
  ASSUME NEW T, NEW s \in Seq(T), NEW seps, NEW pipe, NEW F, F = Starts(s, seps \cup {pipe}),
         Stretch(s, seps, s, seps \cup {pipe}, 0), F # {}
  PROVE  \E d : Divides(s, <<s>>, d, 1, seps, pipe)
<1>1. PICK d : d = [i \in 1..1 |-> 0]
  OBVIOUS
<1>2. d[1] = 0 /\ Len(s) \in Nat /\ \A i \in 1..1 : i = 1
  BY <1>1
<1>3. F \subseteq 1..Len(s)
  BY TokensAt
<1>4. \A i \in F : 0 < i /\ i <= 0 + Len(s)
  BY ONLY <1>2, <1>3
<1>5. PICK q : q = <<s>>
  OBVIOUS
<1>6. q[1] = s
  BY <1>5, Single
<1>7. PICK o \in F : TRUE
  OBVIOUS
<1>8. \A i, j \in 1..1 : ~(i < j)
  OBVIOUS
<1>9. \A i \in 1..1 : /\ d[i] \in Nat /\ Len(q[i]) \in Nat
                      /\ Stretch(q[i], seps, s, seps \cup {pipe}, d[i])
                      /\ \E k \in F : d[i] < k /\ k <= d[i] + Len(q[i])
  <2> TAKE i \in 1..1
  <2>1. d[i] = 0 /\ q[i] = s
    BY <1>2, <1>6
  <2>2. 0 < o /\ o <= 0 + Len(s) /\ 0 \in Nat
    BY <1>4, <1>7
  <2>3. \E k \in F : 0 < k /\ k <= 0 + Len(s)
    BY <2>2
  <2> QED
    BY <1>2, <2>1, <2>2, <2>3
<1>10. \A k \in F : \E i \in 1..1 : d[i] < k /\ k <= d[i] + Len(q[i])
  <2>1. 1 \in 1..1
    OBVIOUS
  <2> QED
    BY ONLY <1>2, <1>4, <1>6, <2>1
<1>11. Divides(s, q, d, 1, seps, pipe)
  BY <1>8, <1>9, <1>10 DEF Divides
<1> QED
  BY <1>5, <1>11

\* The commands of ShellP3 are the words of the parts q, as many as have a place.
Commands3(T, cmds, q) ==
  Len(q) <= CmdMax => /\ cmds \in Seq(Seq(Seq(T))) /\ Len(cmds) = Len(q)
                      /\ \A i \in 1..Len(q) : cmds[i] = Argv(q[i])

\* ShellP3 takes the line.
Accepted3(s) == ShellP3(s).rc = "OK"

\* The commands of a line with a pipe are the parts of a division.
LEMMA P3Piped ==
  ASSUME NEW T, NEW seps, AgreeOn(T, Blanks, seps), NEW s \in Seq(T), Piped(s), Accepted3(s)
  PROVE  \E q, d : /\ q \in Seq(Seq(T)) /\ Len(q) \in Nat /\ Len(q) # 0 /\ q = AllStages(s)
                   /\ Divides(s, q, d, Len(q), seps, Pipe)
                   /\ Within(q, Tokens(s, {Pipe}), seps)
                   /\ Len(q) <= Len(Tokens(s, {Pipe}))
                   /\ Commands3(T, ShellP3(s).cmds, q)
<1>1. Stages(s) # <<>> /\ ShellP3(s).cmds = [n \in DOMAIN Stages(s) |-> Argv(Stages(s)[n])]
  BY P3Accepts DEF Accepted3
<1>2. PICK q : q = AllStages(s)
  OBVIOUS
<1>3. /\ q \in Seq(Seq(T)) /\ Len(q) \in Nat /\ Len(q) <= Len(Tokens(s, {Pipe}))
      /\ \E d : Divides(s, q, d, Len(q), seps, Pipe)
      /\ Within(q, Tokens(s, {Pipe}), seps)
  BY <1>2, StagesDivide
<1>4. CmdMax \in Nat /\ Stages(s) = First(q, CmdMax)
  BY <1>2, Limits DEF Stages
<1>5. /\ Len(First(q, CmdMax)) <= Len(q) /\ First(q, CmdMax) \in Seq(Seq(T))
      /\ Len(q) <= CmdMax => First(q, CmdMax) = q
  BY <1>3, <1>4, FirstIs
<1>6. Len(q) # 0
  BY ONLY <1>1, <1>3, <1>4, <1>5
<1>7. PICK cmds : cmds = ShellP3(s).cmds /\ cmds = [n \in DOMAIN Stages(s) |-> Argv(Stages(s)[n])]
  BY ONLY <1>1
<1>8. ASSUME Len(q) <= CmdMax
      PROVE  /\ cmds \in Seq(Seq(Seq(T))) /\ Len(cmds) = Len(q)
             /\ \A i \in 1..Len(q) : cmds[i] = Argv(q[i])
  <2>1. DOMAIN q = 1..Len(q) /\ Stages(s) = q
    BY ONLY <1>3, <1>4, <1>5, <1>8
  <2>2. cmds = [n \in 1..Len(q) |-> Argv(q[n])]
    BY ONLY <1>7, <2>1
  <2>3. \A i \in 1..Len(q) : Argv(q[i]) \in Seq(Seq(T))
    <3>1. \A i \in 1..Len(q) : q[i] \in Seq(T)
      BY ONLY <1>3
    <3> QED
      BY <3>1, ArgvFits
  <2> QED
    BY ONLY <1>3, <2>2, <2>3
<1>9. Commands3(T, ShellP3(s).cmds, q)
  BY ONLY <1>7, <1>8 DEF Commands3
<1> QED
  BY ONLY <1>2, <1>3, <1>6, <1>9

\* The command of a line without one is the line.
LEMMA P3Unpiped ==
  ASSUME NEW T, NEW s \in Seq(T), ~Piped(s), Accepted3(s)
  PROVE  ~BadArgs(s) /\ ShellP3(s).cmds = <<Argv(s)>> /\ Commands3(T, ShellP3(s).cmds, <<s>>)
<1>1. ~BadArgs(s) /\ ShellP3(s).cmds = <<Argv(s)>>
  BY P3Accepts DEF Accepted3
<1>2. PICK q : q = <<s>>
  OBVIOUS
<1>3. PICK cmds : cmds = <<Argv(s)>>
  OBVIOUS
<1>4. Len(q) = 1 /\ q[1] = s /\ Len(cmds) = 1 /\ cmds[1] = Argv(s)
  BY ONLY <1>2, <1>3, Single
<1>5. cmds \in Seq(Seq(Seq(T)))
  <2>1. Argv(s) \in Seq(Seq(T))
    BY ArgvFits
  <2> QED
    BY ONLY <1>3, <2>1, Single
<1>6. Commands3(T, cmds, q)
  <2>1. \A i \in 1..1 : i = 1
    OBVIOUS
  <2> QED
    BY ONLY <1>4, <1>5, <2>1 DEF Commands3
<1> QED
  BY ONLY <1>1, <1>2, <1>3, <1>6

\* A line that ShellP3 accepts falls into the parts that its commands are made of.
LEMMA P3Divides ==
  ASSUME NEW T, NEW seps, AgreeOn(T, Blanks, seps), NEW s \in Seq(T), Accepted3(s),
         NEW k \in 1..Len(s), s[k] \notin seps,
         NEW F, F = Starts(s, seps \cup {Pipe})
  PROVE  \E q, d, c : /\ Parting(T, s, q, d, Len(q), seps, Pipe, F, c)
                      /\ Commands3(T, ShellP3(s).cmds, q)
<1>1. CASE Piped(s)
  <2>1. PICK q, d : /\ q \in Seq(Seq(T)) /\ Len(q) \in Nat /\ Len(q) # 0
                    /\ Divides(s, q, d, Len(q), seps, Pipe)
                    /\ Commands3(T, ShellP3(s).cmds, q)
    BY <1>1, P3Piped
  <2>2. HasParting(T, s, q, d, Len(q), seps, Pipe, F)
    BY <2>1, PartingExists
  <2> QED
    BY ONLY <2>1, <2>2 DEF HasParting
<1>2. CASE ~Piped(s)
  <2>1. Commands3(T, ShellP3(s).cmds, <<s>>)
    BY <1>2, P3Unpiped
  <2>2. Stretch(s, seps, s, seps \cup {Pipe}, 0)
    <3>1. \A o \in 1..Len(s) : s[o] # Pipe
      BY <1>2 DEF Piped, Contains
    <3> QED
      BY <3>1, OnePart
  <2>3. s[k] \notin seps \cup {Pipe}
    BY <1>2 DEF Piped, Contains
  <2>4. F # {}
    BY <2>3, HasWords
  <2>5. PICK d : Divides(s, <<s>>, d, 1, seps, Pipe)
    BY <2>2, <2>4, WholeLine
  <2>6. PICK q : q = <<s>>
    OBVIOUS
  <2>7. q = <<s>> /\ q \in Seq(Seq(T)) /\ Len(q) = 1
    BY <2>6, Single
  <2>8. Divides(s, q, d, Len(q), seps, Pipe) /\ Commands3(T, ShellP3(s).cmds, q)
    BY ONLY <2>1, <2>5, <2>7
  <2>9. HasParting(T, s, q, d, Len(q), seps, Pipe, F)
    BY <2>7, <2>8, PartingExists
  <2> QED
    BY ONLY <2>4, <2>8, <2>9 DEF HasParting
<1> QED
  BY <1>1, <1>2

\* ShellP3 loses no word of a line for whose words there is place.
LEMMA P3Words ==
  ASSUME NEW T, NEW seps, seps = {" "}, AgreeOn(T, Blanks, seps),
         NEW s \in Seq(T), Accepted3(s),
         NEW parts, parts = Tokens(s, {Pipe}), Len(parts) <= CmdMax,
         \A n \in 1..Len(parts) : ~BadArgs(parts[n])
  PROVE  FlattenSeq(ShellP3(s).cmds) = Tokens(s, seps \cup {Pipe})
<1>1. parts \in Seq(Seq(T)) /\ Len(parts) \in Nat
  <2>1. parts \in Seq(Seq(T))
    BY TokensOf
  <2> QED
    BY ONLY <2>1
<1>2. PICK cmds : cmds = ShellP3(s).cmds
  OBVIOUS
<1>3. CASE Piped(s)
  <2>1. PICK q, d : /\ q \in Seq(Seq(T)) /\ Len(q) \in Nat /\ Len(q) # 0
                    /\ Divides(s, q, d, Len(q), seps, Pipe)
                    /\ Within(q, parts, seps) /\ Len(q) <= Len(parts)
                    /\ Commands3(T, cmds, q)
    BY <1>2, <1>3, P3Piped
  <2>2. HasParting(T, s, q, d, Len(q), seps, Pipe, Starts(s, seps \cup {Pipe}))
    BY <2>1, PartingExists
  <2>3. PICK F, c : Parting(T, s, q, d, Len(q), seps, Pipe, F, c)
    BY ONLY <2>1, <2>2 DEF HasParting
  <2>4. Len(q) <= CmdMax
    <3>1. Len(parts) <= CmdMax /\ CmdMax \in Nat
      BY Limits
    <3> QED
      BY ONLY <1>1, <2>1, <3>1
  <2>5. /\ cmds \in Seq(Seq(Seq(T))) /\ Len(cmds) = Len(q)
        /\ \A i \in 1..Len(q) : cmds[i] = Argv(q[i])
    BY ONLY <2>1, <2>4 DEF Commands3
  <2>6. \A i \in 1..Len(q) : cmds[i] = Tokens(q[i], seps)
    <3> TAKE i \in 1..Len(q)
    <3>1. PICK n : /\ n \in 1..Len(parts)
                   /\ Len(Tokens(q[i], seps)) <= Len(Tokens(parts[n], seps))
      BY <2>1 DEF Within
    <3>2. ~(Len(Tokens(parts[n], seps)) >= ArgvMax)
      BY <3>1 DEF BadArgs
    <3>3. Len(Tokens(parts[n], seps)) \in Nat /\ Len(Tokens(q[i], seps)) \in Nat
      <4>1. parts[n] \in Seq(T) /\ q[i] \in Seq(T)
        <5>1. \A j \in 1..Len(parts) : parts[j] \in Seq(T)
          BY ONLY <1>1
        <5>2. \A j \in 1..Len(q) : q[j] \in Seq(T)
          BY ONLY <2>1
        <5>3. n \in 1..Len(parts) /\ i \in 1..Len(q)
          BY <3>1
        <5> QED
          BY ONLY <5>1, <5>2, <5>3
      <4>2. Tokens(parts[n], seps) \in Seq(Seq(T)) /\ Tokens(q[i], seps) \in Seq(Seq(T))
        BY <4>1, TokensOf
      <4> QED
        BY ONLY <4>2
    <3>4. ArgvMax \in Nat
      BY BoundsAssumption
    <3>5. ~(Len(Tokens(q[i], seps)) >= ArgvMax)
      BY ONLY <3>1, <3>2, <3>3, <3>4
    <3>6. ~BadArgs(q[i])
      BY <3>5 DEF BadArgs
    <3>7. q[i] \in Seq(T)
      BY ONLY <2>1
    <3>8. Argv(q[i]) = Tokens(q[i], seps)
      BY <3>6, <3>7, ArgvAll
    <3> QED
      BY ONLY <2>5, <3>8
  <2>7. FlattenSeq(cmds) = Tokens(s, seps \cup {Pipe})
    BY ONLY <2>3, <2>5, <2>6, PartingFlattens
  <2> QED
    BY <1>2, <2>7
<1>4. CASE ~Piped(s)
  <2>1. ~BadArgs(s) /\ cmds = <<Argv(s)>>
    BY <1>2, <1>4, P3Unpiped
  <2>2. Argv(s) = Tokens(s, seps)
    BY <2>1, ArgvAll
  <2>3. Tokens(s, seps) = Tokens(s, seps \cup {Pipe})
    <3>1. \A o \in 1..Len(s) : s[o] # Pipe
      BY <1>4 DEF Piped, Contains
    <3>2. s \in Seq(T)
      OBVIOUS
    <3>3. WordsUnpiped(s, seps, Pipe)
      BY ONLY <3>1, <3>2, OnePart
    <3> QED
      BY ONLY <3>3 DEF WordsUnpiped
  <2>4. PICK w : w = Tokens(s, seps) /\ w \in Seq(Seq(T))
    BY TokensOf
  <2>5. PICK y : y = <<w>>
    OBVIOUS
  <2>6. Len(y) = 1 /\ y[1] = w /\ y \in Seq(Seq(Seq(T)))
    BY ONLY <2>4, <2>5, Single
  <2>7. FlattenSeq(y) = y[1]
    <3>1. y # <<>>
      BY ONLY <2>6
    <3> QED
      BY ONLY <2>6, <3>1, FlattenFront
  <2>8. cmds = y
    BY ONLY <2>1, <2>2, <2>4, <2>5
  <2> QED
    BY ONLY <1>2, <2>3, <2>4, <2>6, <2>7, <2>8
<1> QED
  BY <1>3, <1>4

\* The commands of ShellP1 that have a name.
Named1(s) ==
  At(ShellP1(s).cmds, {n \in DOMAIN ShellP1(s).cmds : ShellP1(s).cmds[n].exe # <<>>})

\* Those commands are the words of the parts q.
Commands1(s, q) ==
  /\ Len(q) <= CmdMax /\ DOMAIN Named1(s) = 1..Len(q) /\ Len(Named1(s)) = Len(q)
  /\ \A i \in 1..Len(q) : Named1(s)[i] = Command1(q[i])

\* A name is cut, but never to nothing.
LEMMA ExeOf ==
  ASSUME NEW T, NEW w \in Seq(T), NEW seps, seps = {" "}
  PROVE  Command1(w).exe # <<>> <=> \E k \in 1..Len(w) : w[k] \notin seps
<1>1. PICK ws : /\ ws = Tokens(w, seps) /\ ws \in Seq(Seq(T))
                /\ \A n \in DOMAIN ws : ws[n] # <<>>
  BY TokensOf
<1>2. Command1(w).exe = IF ws = <<>> THEN <<>> ELSE First(ws[1], ExeMax - 1)
  BY <1>1 DEF Command1
<1>3. ws # <<>> => First(ws[1], ExeMax - 1) # <<>>
  <2> SUFFICES ASSUME ws # <<>> PROVE First(ws[1], ExeMax - 1) # <<>>
    OBVIOUS
  <2>1. ws[1] \in Seq(T) /\ ws[1] # <<>>
    BY ONLY <1>1, ws # <<>>
  <2>2. PICK u, e : u = ws[1] /\ e = ExeMax - 1
    OBVIOUS
  <2>3. ExeMax \in Nat /\ ExeMax > 1
    BY BoundsAssumption, RoomAssumption
  <2>4. e \in Nat /\ e >= 1
    BY ONLY <2>2, <2>3
  <2>5. u \in Seq(T) /\ Len(u) \in Nat /\ Len(u) # 0
    BY ONLY <2>1, <2>2
  <2>6. First(u, e) # <<>>
    <3>1. First(u, e) = SubSeq(u, 1, IF Len(u) < e THEN Len(u) ELSE e)
      BY DEF First
    <3>2. PICK k : k = (IF Len(u) < e THEN Len(u) ELSE e) /\ k \in 1..Len(u)
      BY ONLY <2>4, <2>5
    <3>3. Len(SubSeq(u, 1, k)) = k /\ k # 0
      BY ONLY <2>5, <3>2
    <3>4. Len(First(u, e)) # 0
      BY ONLY <3>1, <3>2, <3>3
    <3> QED
      BY ONLY <3>4
  <2> QED
    BY ONLY <2>2, <2>6
<1>4. ws # <<>> <=> \E k \in 1..Len(w) : w[k] \notin seps
  BY <1>1, HasWords
<1> QED
  BY ONLY <1>2, <1>3, <1>4

-----------------------------------------------------------------------------
(***************************************************************************)
(* The commands of ShellP1, and that ShellP3 finds the same.               *)
(***************************************************************************)
\* A line that ShellP1 accepts falls into the parts that its commands are made of.
LEMMA P1Divides ==
  ASSUME NEW T, NEW seps, seps = {" "}, NEW s \in Seq(T), ShellP1(s).rc = "OK"
  PROVE  /\ \E k \in 1..Len(s) : s[k] \notin seps
         /\ \E q, d : /\ q \in Seq(Seq(T)) /\ Len(q) \in Nat /\ Commands1(s, q)
                      /\ Divides(s, q, d, Len(q), seps, Pipe)
<1>1. PICK t : t = Trimmed(s, seps) /\ t \in Seq(T)
  BY TrimmedIs
<1>2. PICK parts : /\ parts = Tokens(t, {Pipe}) /\ parts \in Seq(Seq(T))
                   /\ Len(parts) \in Nat /\ DOMAIN parts = 1..Len(parts)
  <2>1. PICK parts : parts = Tokens(t, {Pipe})
    OBVIOUS
  <2>2. parts \in Seq(Seq(T))
    BY <1>1, <2>1, TokensOf
  <2> QED
    BY ONLY <2>1, <2>2
<1>3. PICK a : Core(t, s, a, seps)
  <2>1. \E x : Core(Trimmed(s, seps), s, x, seps)
    BY TrimmedCore
  <2> QED
    BY ONLY <1>1, <2>1
<1>4. /\ t # <<>> /\ Len(parts) <= CmdMax
      /\ ShellP1(s).cmds = [n \in 1..Len(parts) |-> Command1(parts[n])]
  <2> DEFINE cmds == First(parts, CmdMax)
             bad  == \E n \in DOMAIN cmds : TooBig(Tokens(cmds[n], {" "}))
  <2>1. ShellP1(s) =
          CASE t = <<>> -> [rc |-> "WARN_NO_CMDS", cmds |-> <<>>]
            [] bad -> [rc |-> "ERR_CMD_OR_ARGS_TOO_BIG", cmds |-> <<>>]
            [] OTHER -> IF Len(parts) > CmdMax
                          THEN [rc |-> "ERR_TOO_MANY_COMMANDS", cmds |-> <<>>]
                          ELSE [rc |-> "OK", cmds |-> [n \in DOMAIN cmds |-> Command1(cmds[n])]]
    BY <1>1, <1>2 DEF ShellP1
  <2> HIDE DEF cmds, bad
  <2>2. /\ t # <<>> /\ ~(Len(parts) > CmdMax)
        /\ ShellP1(s).cmds = [n \in DOMAIN cmds |-> Command1(cmds[n])]
    <3>1. PICK r, over, ok : /\ r = ShellP1(s) /\ over = (Len(parts) > CmdMax)
                             /\ ok = [n \in DOMAIN cmds |-> Command1(cmds[n])]
      OBVIOUS
    <3>2. r.rc = "OK"
      BY <3>1
    <3> QED
      BY ONLY <2>1, <3>1, <3>2
  <2>3. CmdMax \in Nat
    BY Limits
  <2>4. Len(parts) <= CmdMax
    BY ONLY <1>2, <2>2, <2>3
  <2>5. cmds = parts
    BY <1>2, <2>3, <2>4, FirstIs DEF cmds
  <2> QED
    BY ONLY <1>2, <2>2, <2>4, <2>5
<1>5. \E k \in 1..Len(s) : s[k] \notin seps
  <2>1. Trimmed(s, seps) # <<>> <=> \E k \in 1..Len(s) : s[k] \notin seps
    BY TrimmedCore
  <2> QED
    BY ONLY <1>1, <1>4, <2>1
<1>6. PICK R, x : R = Solid(parts, seps) /\ x = [n \in R |-> 0]
  OBVIOUS
<1>7. Cored(T, parts, R, parts, x, seps)
  <2> SUFFICES ASSUME NEW n \in R
               PROVE  parts[n] \in Seq(T) /\ Core(parts[n], parts[n], x[n], seps)
    BY DEF Cored
  <2>1. n \in 1..Len(parts) /\ x[n] = 0
    BY <1>6 DEF Solid
  <2>2. PICK w : w = parts[n] /\ w \in Seq(T)
    BY ONLY <1>2, <2>1
  <2>3. Core(w, w, 0, seps)
    <3>1. Len(w) \in Nat /\ 0 \in Nat /\ 0 + Len(w) <= Len(w)
      BY ONLY <2>2
    <3>2. \A k \in 1..Len(w) : 0 < k /\ k <= 0 + Len(w) /\ 0 + k = k
      BY ONLY <3>1
    <3>3. \A k \in 1..Len(w) : w[k] = w[0 + k]
      BY ONLY <3>2
    <3> QED
      BY ONLY <3>1, <3>2, <3>3 DEF Core
  <2> QED
    BY ONLY <2>1, <2>2, <2>3
<1>8. PICK q : q = At(parts, R)
  OBVIOUS
<1>9. Parted(T, s, At(parts, R), parts, R, parts, seps, Pipe)
  BY <1>1, <1>2, <1>3, <1>6, <1>7, PartsDivide
<1>10. /\ q \in Seq(Seq(T)) /\ Len(q) = Cardinality(R) /\ Len(q) \in Nat
       /\ Len(q) <= Len(parts) /\ R \subseteq 1..Len(parts)
       /\ \A i \in 1..Len(q) : Nth(R, i) \in R /\ q[i] = parts[Nth(R, i)]
       /\ \E d : Divides(s, q, d, Len(q), seps, Pipe)
  BY ONLY <1>8, <1>9 DEF Parted
<1>11. PICK c : c = ShellP1(s).cmds
  OBVIOUS
<1>12. DOMAIN c = 1..Len(parts) /\ \A n \in 1..Len(parts) : c[n] = Command1(parts[n])
  BY ONLY <1>4, <1>11
<1>13. R = {n \in DOMAIN c : c[n].exe # <<>>}
  <2>1. \A n \in 1..Len(parts) :
          c[n].exe # <<>> <=> \E k \in 1..Len(parts[n]) : parts[n][k] \notin seps
    <3> TAKE n \in 1..Len(parts)
    <3>1. parts[n] \in Seq(T)
      BY ONLY <1>2
    <3>2. Command1(parts[n]).exe # <<>> <=> \E k \in 1..Len(parts[n]) : parts[n][k] \notin seps
      BY <3>1, ExeOf
    <3> QED
      BY ONLY <1>12, <3>2
  <2> QED
    BY ONLY <1>6, <1>12, <2>1 DEF Solid
<1>14. Named1(s) = At(c, R)
  BY ONLY <1>11, <1>13 DEF Named1
<1>15. Commands1(s, q)
  <2>1. At(c, R) = [n \in 1..Cardinality(R) |-> c[Nth(R, n)]]
    BY DEF At
  <2>2. Named1(s) = [n \in 1..Len(q) |-> c[Nth(R, n)]]
    BY ONLY <1>10, <1>14, <2>1
  <2>3. /\ DOMAIN Named1(s) = 1..Len(q) /\ Len(Named1(s)) = Len(q)
        /\ \A i \in 1..Len(q) : Named1(s)[i] = c[Nth(R, i)]
    BY ONLY <1>10, <2>2
  <2>4. \A i \in 1..Len(q) : Named1(s)[i] = Command1(q[i])
    BY ONLY <1>10, <1>12, <2>3
  <2>5. CmdMax \in Nat
    BY Limits
  <2>6. Len(q) <= CmdMax
    BY ONLY <1>2, <1>4, <1>10, <2>5
  <2> QED
    BY ONLY <2>3, <2>4, <2>6 DEF Commands1
<1> QED
  BY ONLY <1>5, <1>10, <1>15

\* To cut the tail is to take the tail of what is cut later.
LEMMA FirstTail ==
  ASSUME NEW T, NEW w \in Seq(T), Len(w) # 0, NEW n \in Nat, n > 1
  PROVE  /\ First(Tail(w), n - 2) = Tail(First(w, n - 1))
         /\ First(w, n - 1)[1] = w[1] /\ First(w, n - 1) # <<>>
<1>1. PICK l : l = Len(w) /\ l \in Nat /\ l # 0
  OBVIOUS
<1>2. PICK t : t = Tail(w)
  OBVIOUS
<1>3. t = Tail(w) /\ t \in Seq(T) /\ Len(t) = l - 1 /\ \A i \in 1..l - 1 : t[i] = w[i + 1]
  BY <1>2, <1>1
<1>4. PICK k, h : /\ k = (IF l < n - 1 THEN l ELSE n - 1)
                  /\ h = (IF l - 1 < n - 2 THEN l - 1 ELSE n - 2)
  OBVIOUS
<1>5. k \in 1..l /\ h = k - 1 /\ h \in 0..l - 1
  BY ONLY <1>1, <1>4, n \in Nat, n > 1
<1>6. First(w, n - 1) = SubSeq(w, 1, k) /\ First(t, n - 2) = SubSeq(t, 1, h)
  BY <1>1, <1>3, <1>4 DEF First
<1>7. PICK u, v : u = SubSeq(w, 1, k) /\ v = SubSeq(t, 1, h)
  OBVIOUS
<1>8. u = SubSeq(w, 1, k) /\ u \in Seq(T) /\ Len(u) = k /\ \A i \in 1..k : u[i] = w[i]
  BY <1>7, <1>1, <1>5
<1>9. v = SubSeq(t, 1, h) /\ v \in Seq(T) /\ Len(v) = h /\ \A i \in 1..h : v[i] = t[i]
  <2>1. h \in Nat /\ h <= Len(t)
    BY ONLY <1>1, <1>3, <1>5
  <2> QED
    BY <1>7, <1>3, <2>1
<1>10. Tail(u) \in Seq(T) /\ Len(Tail(u)) = h /\ \A i \in 1..h : Tail(u)[i] = u[i + 1]
  BY <1>5, <1>8
<1>11. v = Tail(u)
  <2>1. \A i \in 1..h : v[i] = Tail(u)[i]
    BY ONLY <1>1, <1>3, <1>5, <1>8, <1>9, <1>10
  <2> QED
    BY <1>9, <1>10, <2>1, SameSeq
<1>12. u[1] = w[1] /\ u # <<>>
  <2>1. Len(u) # 0
    BY ONLY <1>1, <1>5, <1>8
  <2> QED
    BY ONLY <1>1, <1>5, <1>8, <2>1
<1> QED
  BY ONLY <1>3, <1>6, <1>8, <1>9, <1>11, <1>12

\* The commands cs of ShellP1 are the commands ps of ShellP3.
SameCommands(T, cs, ps) ==
  /\ Len(cs) = Len(ps) /\ DOMAIN cs = 1..Len(cs) /\ DOMAIN ps = 1..Len(ps)
  /\ \A n \in 1..Len(cs) : /\ cs[n].exe = First(ps[n][1], ExeMax - 1)
                           /\ ps[n] # <<>> /\ ps[n][1] \in Seq(T)
                           /\ First(cs[n].args, ArgvMax - 2) = Tail(ps[n])

\* Both parsers make the same command of the same words.
LEMMA SameWords ==
  ASSUME NEW T, NEW w, NEW v, NEW ws \in Seq(Seq(T)), ws # <<>>,
         Tokens(w, {" "}) = ws, Tokens(v, {" "}) = ws
  PROVE  /\ Command1(w).exe = First(Argv(v)[1], ExeMax - 1)
         /\ Argv(v) # <<>> /\ Argv(v)[1] \in Seq(T)
         /\ First(Command1(w).args, ArgvMax - 2) = Tail(Argv(v))
<1>1. Command1(w).exe = First(ws[1], ExeMax - 1) /\ Command1(w).args = Tail(ws)
  BY DEF Command1
<1>2. Argv(v) = First(ws, ArgvMax - 1)
  BY DEF Argv
<1>3. PICK n : n = ArgvMax /\ n \in Nat /\ n > 1
  BY BoundsAssumption, RoomAssumption
<1>4. Len(ws) # 0
  BY ONLY ws \in Seq(Seq(T)), ws # <<>>
<1>5. /\ First(Tail(ws), n - 2) = Tail(First(ws, n - 1)) /\ First(ws, n - 1)[1] = ws[1]
      /\ First(ws, n - 1) # <<>>
  BY <1>3, <1>4, FirstTail
<1>6. ws[1] \in Seq(T)
  BY ONLY <1>4, ws \in Seq(Seq(T))
<1> QED
  BY ONLY <1>1, <1>2, <1>3, <1>5, <1>6

\* A line that both accept, without a tab, gives both the same commands.
LEMMA ParsersSame ==
  ASSUME NEW T, NEW seps, seps = {" "}, AgreeOn(T, Blanks, seps), NEW s \in Seq(T),
         ShellP1(s).rc = "OK", Accepted3(s)
  PROVE  SameCommands(T, Named1(s), ShellP3(s).cmds)
<1>1. PICK cmds, named, F : /\ cmds = ShellP3(s).cmds /\ named = Named1(s)
                            /\ F = Starts(s, seps \cup {Pipe})
  OBVIOUS
<1>2. PICK k : k \in 1..Len(s) /\ s[k] \notin seps
  BY P1Divides
<1>3. PICK r, e, b : Parting(T, s, r, e, Len(r), seps, Pipe, F, b) /\ Commands3(T, cmds, r)
  BY <1>1, <1>2, P3Divides
<1>4. PICK q, d : /\ q \in Seq(Seq(T)) /\ Len(q) \in Nat /\ Commands1(s, q)
                  /\ Divides(s, q, d, Len(q), seps, Pipe)
  BY P1Divides
<1>5. F # {}
  <2>1. PICK o : o \in 1..Len(r) /\ b[o - 1] < b[o] /\ b[o] <= Cardinality(F) /\ b[o - 1] \in Nat
                 /\ b[o] \in Nat
    <3>1. WordCuts(r, e, Len(r), F, b)
      BY <1>3, DividesCuts
    <3>2. Len(r) \in Nat /\ Len(r) # 0
      BY ONLY <1>3 DEF Parting
    <3>3. 1 \in 1..Len(r) /\ 1 - 1 \in 0..Len(r) /\ 1 \in 0..Len(r)
      BY ONLY <3>2
    <3> QED
      BY ONLY <3>1, <3>3 DEF WordCuts
  <2>2. F = {} => Cardinality(F) = 0
    BY FS_EmptySet
  <2> QED
    BY ONLY <2>1, <2>2
<1>6. PICK c : Parting(T, s, q, d, Len(q), seps, Pipe, F, c)
  <2>1. HasParting(T, s, q, d, Len(q), seps, Pipe, F)
    BY <1>1, <1>4, PartingExists
  <2> QED
    BY ONLY <1>5, <2>1 DEF HasParting
<1>7. Pipe \notin seps
  BY DEF Pipe
<1>8. Len(q) = Len(r) /\ \A i \in 0..Len(q) : c[i] = b[i]
  <2>1. SameCuts(Len(q), Len(r), c, b)
    BY ONLY <1>3, <1>6, <1>7, PartingUnique
  <2> QED
    BY ONLY <2>1 DEF SameCuts
<1>9. PICK ws : /\ ws = Tokens(s, seps \cup {Pipe})
                /\ Sliced(q, seps, ws, c, Len(q)) /\ Sliced(r, seps, ws, b, Len(r))
  <2>1. Sliced(q, seps, Tokens(s, seps \cup {Pipe}), c, Len(q))
    BY ONLY <1>6, PartingWords
  <2>2. Sliced(r, seps, Tokens(s, seps \cup {Pipe}), b, Len(r))
    BY ONLY <1>3, PartingWords
  <2> QED
    BY ONLY <2>1, <2>2
<1>10. /\ Len(named) = Len(q) /\ DOMAIN named = 1..Len(q) /\ Len(cmds) = Len(q)
       /\ cmds \in Seq(Seq(Seq(T)))
       /\ \A i \in 1..Len(q) : named[i] = Command1(q[i]) /\ cmds[i] = Argv(r[i])
  <2>1. /\ Len(q) <= CmdMax /\ DOMAIN named = 1..Len(q) /\ Len(named) = Len(q)
        /\ \A i \in 1..Len(q) : named[i] = Command1(q[i])
    BY ONLY <1>1, <1>4 DEF Commands1
  <2> QED
    BY ONLY <1>3, <1>8, <2>1 DEF Commands3
<1>11. \A i \in 1..Len(q) : Tokens(q[i], seps) = Tokens(r[i], seps)
  <2> TAKE i \in 1..Len(q)
  <2>1. i - 1 \in 0..Len(q) /\ i \in 0..Len(q)
    BY ONLY <1>4
  <2>2. c[i - 1] = b[i - 1] /\ c[i] = b[i]
    BY ONLY <1>8, <2>1
  <2>3. /\ Tokens(q[i], seps) = SubSeq(ws, c[i - 1] + 1, c[i])
        /\ Tokens(r[i], seps) = SubSeq(ws, b[i - 1] + 1, b[i])
    BY ONLY <1>8, <1>9 DEF Sliced
  <2> QED
    BY ONLY <2>2, <2>3
<1>12. \A i \in 1..Len(q) : Tokens(q[i], seps) \in Seq(Seq(T)) /\ Tokens(q[i], seps) # <<>>
  <2> TAKE i \in 1..Len(q)
  <2>1. q[i] \in Seq(T)
    BY ONLY <1>4
  <2>2. Tokens(q[i], seps) \in Seq(Seq(T))
    BY <2>1, TokensOf
  <2>3. Tokens(q[i], seps) = SubSeq(ws, c[i - 1] + 1, c[i])
    BY ONLY <1>9 DEF Sliced
  <2>4. WordCuts(q, d, Len(q), F, c)
    BY <1>6, DividesCuts
  <2>5. /\ c[i - 1] < c[i] /\ c[i] <= Cardinality(F) /\ c[i] \in Nat /\ c[i - 1] \in Nat
    <3>1. i \in 0..Len(q) /\ i - 1 \in 0..Len(q)
      BY ONLY <1>4
    <3> QED
      BY ONLY <2>4, <3>1 DEF WordCuts
  <2>6. ws \in Seq(Seq(T)) /\ Len(ws) = Cardinality(F)
    <3>1. PICK full : full = seps \cup {Pipe}
      OBVIOUS
    <3>2. s \in Seq(T) /\ ws = Tokens(s, full) /\ F = Starts(s, full)
      BY <1>1, <1>9, <3>1
    <3> QED
      BY ONLY <3>2, TokensAt
  <2>7. Len(SubSeq(ws, c[i - 1] + 1, c[i])) = c[i] - c[i - 1]
    <3>1. PICK lo, hi : lo = c[i - 1] /\ hi = c[i] /\ lo \in Nat /\ hi \in Nat
                        /\ lo <= hi /\ hi <= Len(ws) /\ lo < hi
      BY ONLY <2>5, <2>6
    <3>2. Len(SubSeq(ws, lo + 1, hi)) = hi - lo
      <4>1. PICK X : X = Seq(T) /\ ws \in Seq(X)
        BY ONLY <2>6
      <4>2. lo \in Nat /\ hi \in Nat /\ lo <= hi /\ hi <= Len(ws)
        BY ONLY <3>1
      <4> QED
        BY ONLY <4>1, <4>2, SliceIs
    <3> QED
      BY ONLY <3>1, <3>2
  <2>8. Len(Tokens(q[i], seps)) = c[i] - c[i - 1] /\ c[i] - c[i - 1] # 0
    BY ONLY <2>3, <2>5, <2>7
  <2>9. Tokens(q[i], seps) # <<>>
    <3>1. PICK l : l = c[i] - c[i - 1] /\ l # 0
      BY ONLY <2>8
    <3>2. Len(Tokens(q[i], seps)) # 0
      BY ONLY <2>8, <3>1
    <3> QED
      BY ONLY <3>2
  <2> QED
    BY ONLY <2>2, <2>9
<1>13. ASSUME NEW n \in 1..Len(q)
       PROVE  /\ named[n].exe = First(cmds[n][1], ExeMax - 1)
              /\ cmds[n] # <<>> /\ cmds[n][1] \in Seq(T)
              /\ First(named[n].args, ArgvMax - 2) = Tail(cmds[n])
  <2>1. PICK w, v, x : w = q[n] /\ v = r[n] /\ x = Tokens(w, seps)
    OBVIOUS
  <2>2. x \in Seq(Seq(T)) /\ x # <<>> /\ Tokens(w, seps) = x /\ Tokens(v, seps) = x
    BY ONLY <1>11, <1>12, <2>1
  <2>3. /\ Command1(w).exe = First(Argv(v)[1], ExeMax - 1)
        /\ Argv(v) # <<>> /\ Argv(v)[1] \in Seq(T)
        /\ First(Command1(w).args, ArgvMax - 2) = Tail(Argv(v))
    BY <2>2, SameWords
  <2> QED
    BY ONLY <1>10, <2>1, <2>3
<1>14. SameCommands(T, named, cmds)
  <2>1. \A n \in 1..Len(named) : /\ named[n].exe = First(cmds[n][1], ExeMax - 1)
                                  /\ cmds[n] # <<>> /\ cmds[n][1] \in Seq(T)
                                  /\ First(named[n].args, ArgvMax - 2) = Tail(cmds[n])
    <3>1. PICK l : l = Len(q) /\ l = Len(named)
      BY ONLY <1>10
    <3>2. \A n \in 1..l : /\ named[n].exe = First(cmds[n][1], ExeMax - 1)
                           /\ cmds[n] # <<>> /\ cmds[n][1] \in Seq(T)
                           /\ First(named[n].args, ArgvMax - 2) = Tail(cmds[n])
      BY ONLY <1>13, <3>1
    <3> QED
      BY ONLY <3>1, <3>2
  <2>2. DOMAIN cmds = 1..Len(cmds)
    BY ONLY <1>10
  <2> QED
    BY ONLY <1>10, <2>1, <2>2 DEF SameCommands
<1> QED
  BY ONLY <1>1, <1>14

\* Without its tabs a line has blanks where it has spaces.
LEMMA NoTabs ==
  ASSUME line \in Seq(Chars), ~Has({"\t"}), NEW T, T = Chars \ {"\t"}
  PROVE  line \in Seq(T) /\ AgreeOn(T, Blanks, {" "})
<1>1. \A k \in 1..Len(line) : line[k] \in T
  <2>1. \A k \in 1..Len(line) : line[k] \in Chars /\ line[k] # "\t"
    BY DEF Has
  <2> QED
    BY <2>1
<1>2. line \in Seq(T)
  BY <1>1
<1>3. AgreeOn(T, Blanks, {" "})
  <2>1. \A c \in T : c \in Blanks <=> c \in {" "}
    BY DEF Blanks
  <2> QED
    BY <2>1 DEF AgreeOn
<1> QED
  BY <1>2, <1>3

\* The line is one of characters.
LEMMA LineTyped == Spec => [](line \in Seq(Chars))
<1>1. TypeOK => line \in Seq(Chars)
  BY DEF TypeOK
<1> QED
  BY <1>1, TypeCorrect, PTL

\* build_cmd_list() and build_cmd_buff() of ShellP3 lose no word and change no order:
\* what the commands hold, one behind the other, is what the line holds.
THEOREM KeepsWords == Spec => []P3KeepsWords
<1>1. line \in Seq(Chars) => P3KeepsWords
  <2> DEFINE parts == Tokens(line, {Pipe})
  <2> SUFFICES ASSUME line \in Seq(Chars), ShellP3(line).rc = "OK", ~Has({"\t"}),
                      ~(Len(parts) > CmdMax), \A n \in DOMAIN parts : ~BadArgs(parts[n])
               PROVE  FlattenSeq(ShellP3(line).cmds) = Tokens(line, {" ", Pipe})
    BY DEF P3KeepsWords
  <2>1. PICK T : T = Chars \ {"\t"}
    OBVIOUS
  <2>2. line \in Seq(T) /\ AgreeOn(T, Blanks, {" "})
    BY <2>1, NoTabs
  <2>3. Accepted3(line)
    BY DEF Accepted3
  <2>4. parts \in Seq(Seq(T))
    BY <2>2, TokensOf
  <2> HIDE DEF parts
  <2>5. DOMAIN parts = 1..Len(parts) /\ Len(parts) \in Nat
    BY ONLY <2>4
  <2>6. CmdMax \in Nat
    BY Limits
  <2>7. Len(parts) <= CmdMax
    BY ONLY <2>5, <2>6, ~(Len(parts) > CmdMax)
  <2>8. \A n \in 1..Len(parts) : ~BadArgs(parts[n])
    BY <2>5
  <2>9. PICK seps, ps : seps = {" "} /\ ps = Tokens(line, {Pipe})
    OBVIOUS
  <2>10. Len(ps) <= CmdMax /\ \A n \in 1..Len(ps) : ~BadArgs(ps[n])
    BY <2>7, <2>8, <2>9 DEF parts
  <2>11. FlattenSeq(ShellP3(line).cmds) = Tokens(line, seps \cup {Pipe})
    BY <2>2, <2>3, <2>9, <2>10, P3Words
  <2>12. seps \cup {Pipe} = {" ", Pipe}
    BY <2>9
  <2> QED
    BY ONLY <2>11, <2>12
<1> QED
  BY <1>1, LineTyped, PTL

\* The parsers of ShellP1 and ShellP3, that have no line in common, find the same
\* commands in every line that both accept, unless a tab is in it or a name does not
\* fit into exe.
THEOREM ParsersAgree == Spec => []P1AgreesWithP3
<1>1. line \in Seq(Chars) => P1AgreesWithP3
  <2> DEFINE named == Named1(line)
             cmds  == ShellP3(line).cmds
  <2> SUFFICES ASSUME line \in Seq(Chars), ShellP1(line).rc = "OK",
                      ShellP3(line).rc = "OK", NamesFit, ~Has({"\t"})
               PROVE  /\ Len(named) = Len(cmds)
                      /\ \A n \in DOMAIN named :
                           /\ named[n].exe = cmds[n][1]
                           /\ First(named[n].args, ArgvMax - 2) = Tail(cmds[n])
    BY DEF P1AgreesWithP3, Named1
  <2>1. PICK T : T = Chars \ {"\t"}
    OBVIOUS
  <2>2. line \in Seq(T) /\ AgreeOn(T, Blanks, {" "})
    BY <2>1, NoTabs
  <2>3. Accepted3(line)
    BY DEF Accepted3
  <2>4. SameCommands(T, named, cmds)
    BY <2>2, <2>3, ParsersSame
  <2>5. DOMAIN cmds = 1..Len(cmds)
    BY ONLY <2>4 DEF SameCommands
  <2>6. \A n \in DOMAIN cmds : cmds[n] # <<>> => Len(cmds[n][1]) < ExeMax
    BY DEF NamesFit
  <2> HIDE DEF named, cmds
  <2>7. ASSUME NEW n \in DOMAIN named PROVE First(cmds[n][1], ExeMax - 1) = cmds[n][1]
    <3>1. PICK w, e : w = cmds[n][1] /\ e = ExeMax
      OBVIOUS
    <3>2. w \in Seq(T) /\ Len(w) < e
      BY ONLY <2>4, <2>5, <2>6, <2>7, <3>1 DEF SameCommands
    <3>3. e - 1 \in Nat /\ e \in Nat
      BY <3>1, BoundsAssumption
    <3>4. Len(w) <= e - 1
      BY ONLY <3>2, <3>3
    <3>5. First(w, e - 1) = w
      BY ONLY <3>2, <3>3, <3>4, FirstIs
    <3> QED
      BY ONLY <3>1, <3>5
  <2> QED
    BY ONLY <2>4, <2>7 DEF SameCommands
<1> QED
  BY <1>1, LineTyped, PTL

-----------------------------------------------------------------------------
(***************************************************************************)
(* The loop of ShellP2.                                                    *)
(***************************************************************************)
\* What the loop begins with, and that f is what it has after each character of s.
Begun == [quoted |-> FALSE, start |-> NoArg, nuls |-> {}, argv |-> <<>>]

Follows(f, s, n) ==
  f = [k \in 0..n |-> IF k = 0 THEN Begun ELSE OnChar(f[k - 1], s, k)]

\* There is such a function: the recursion of Loop() is one over the places.
LEMMA LoopExists ==
  ASSUME NEW s, NEW N \in Nat
  PROVE  \E f : Follows(f, s, N)
<1> DEFINE D == {n \in 0..N : ~\E f : Follows(f, s, n)}
<1>1. SUFFICES ASSUME D # {} PROVE FALSE
  OBVIOUS
<1>2. PICK n \in D : \A m \in D : n <= m
  <2>1. D \subseteq Nat
    OBVIOUS
  <2> HIDE DEF D
  <2> QED
    BY <1>1, <2>1, LeastNumber
<1>3. n \in 0..N /\ ~(\E f : Follows(f, s, n)) /\ n \in Int
  BY <1>2
<1>4. n # 0
  <2>1. Follows([k \in 0..0 |-> Begun], s, 0)
    BY DEF Follows
  <2> QED
    BY <1>3, <2>1
<1>5. n - 1 \in 0..N /\ ~(n <= n - 1) /\ 0 <= n - 1
  BY <1>3, <1>4
<1>6. PICK g : Follows(g, s, n - 1)
  <2>1. n - 1 \notin D
    <3> HIDE DEF D
    <3> QED
      BY <1>2, <1>5
  <2> QED
    BY <1>5, <2>1
<1> HIDE DEF D
<1> DEFINE f == [k \in 0..n |-> IF k = n THEN OnChar(g[n - 1], s, n) ELSE g[k]]
<1>7. \A k \in 0..n : /\ k \in Int /\ (k # n => k \in 0..n - 1)
                      /\ k # 0 => k - 1 \in 0..n /\ k - 1 # n /\ k - 1 \in 0..n - 1
  BY <1>3
<1>8. \A k \in 0..n - 1 : g[k] = IF k = 0 THEN Begun ELSE OnChar(g[k - 1], s, k)
  BY <1>6 DEF Follows
<1>9. ASSUME NEW k \in 0..n
      PROVE  f[k] = IF k = 0 THEN Begun ELSE OnChar(f[k - 1], s, k)
  <2>1. k # 0 => f[k - 1] = g[k - 1]
    BY <1>7
  <2>2. CASE k = n
    <3>1. f[k] = OnChar(g[k - 1], s, k) /\ k # 0
      BY <1>4, <2>2
    <3> QED
      BY <2>1, <3>1, Zenon
  <2>3. CASE k # n
    <3>1. f[k] = g[k] /\ k \in 0..n - 1
      BY <1>7, <2>3
    <3> HIDE DEF f
    <3> QED
      BY <1>8, <2>1, <3>1
  <2> QED
    BY <2>2, <2>3
<1>10. Follows(f, s, n)
  <2>1. f = [k \in 0..n |-> f[k]]
    OBVIOUS
  <2> HIDE DEF f
  <2> QED
    BY <1>9, <2>1 DEF Follows
<1> QED
  BY <1>3, <1>10

LEMMA LoopIs ==
  ASSUME NEW s, Len(s) \in Nat
  PROVE  /\ Loop(s)[0] = Begun
         /\ \A k \in 1..Len(s) : Loop(s)[k] = OnChar(Loop(s)[k - 1], s, k)
<1>1. Loop(s) = CHOOSE f : Follows(f, s, Len(s))
  BY DEF Loop, Follows, Begun
<1>2. Follows(Loop(s), s, Len(s))
  BY <1>1, LoopExists
<1>3. PICK f : f = Loop(s)
  OBVIOUS
<1>4. \A k \in 0..Len(s) : f[k] = IF k = 0 THEN Begun ELSE OnChar(f[k - 1], s, k)
  BY <1>2, <1>3 DEF Follows
<1>5. 0 \in 0..Len(s) /\ \A k \in 1..Len(s) : k \in 0..Len(s) /\ k # 0
  OBVIOUS
<1> QED
  BY <1>3, <1>4, <1>5

LoopStates == [quoted : BOOLEAN, start : Nat, nuls : SUBSET Nat, argv : Seq(Nat)]

\* What the character c at place k does to the parts of the state.
Does(st, new, c, k) ==
  /\ c = Quote =>
       /\ new.quoted <=> ~st.quoted
       /\ st.quoted => /\ new.start = st.start
                       /\ new.nuls = st.nuls \cup {k}
                       /\ new.argv = Append(st.argv, st.start)
       /\ ~st.quoted => new.start = k + 1 /\ new.nuls = st.nuls /\ new.argv = st.argv
  /\ c # Quote =>
       /\ new.quoted <=> st.quoted
       /\ c \in Blanks /\ ~st.quoted =>
            /\ new.start = 0
            /\ new.nuls = st.nuls \cup {k}
            /\ st.start = 0 => new.argv = st.argv
            /\ st.start # 0 => new.argv = Append(st.argv, st.start)
       /\ ~(c \in Blanks /\ ~st.quoted) =>
            /\ new.nuls = st.nuls
            /\ new.argv = st.argv
            /\ st.start = 0 => new.start = k
            /\ st.start # 0 => new.start = st.start

LEMMA CharDoes ==
  ASSUME NEW st \in LoopStates, NEW s, NEW k \in Nat, k >= 1
  PROVE  OnChar(st, s, k) \in LoopStates /\ Does(st, OnChar(st, s, k), s[k], k)
<1>1. CASE s[k] = Quote
  <2>0. s[k] \notin Blanks
    BY <1>1 DEF Quote, Blanks
  <2>1. OnChar(st, s, k) = OnQuote(st, k)
    BY <1>1, <2>0 DEF OnChar
  <2>2. st.start \in Nat /\ k + 1 \in Nat /\ st.nuls \cup {k} \in SUBSET Nat
    BY DEF LoopStates
  <2>3. Append(st.argv, st.start) \in Seq(Nat)
    BY DEF LoopStates
  <2>4. CASE st.quoted
    BY <1>1, <2>1, <2>2, <2>3, <2>4 DEF OnQuote, LoopStates, Does
  <2>5. CASE ~st.quoted
    BY <1>1, <2>1, <2>2, <2>3, <2>5 DEF OnQuote, LoopStates, Does
  <2> QED
    BY <2>4, <2>5
<1>2. CASE s[k] # Quote /\ s[k] \in Blanks /\ ~st.quoted
  <2>1. OnChar(st, s, k) = OnBlank(st, k)
    BY <1>2 DEF OnChar
  <2>2. st.start \in Nat /\ st.nuls \cup {k} \in SUBSET Nat
    BY DEF LoopStates
  <2>3. Append(st.argv, st.start) \in Seq(Nat)
    BY DEF LoopStates
  <2>4. PICK r : r = OnBlank(st, k)
    OBVIOUS
  <2>5. r = [quoted |-> st.quoted, start |-> 0, nuls |-> st.nuls \cup {k},
             argv |-> IF st.start = 0 THEN st.argv ELSE Append(st.argv, st.start)]
    BY <2>4 DEF OnBlank, LoopStates, NoArg
  <2>6. /\ r \in LoopStates /\ r.quoted = st.quoted /\ r.start = 0
        /\ r.nuls = st.nuls \cup {k}
        /\ st.start = 0 => r.argv = st.argv
        /\ st.start # 0 => r.argv = Append(st.argv, st.start)
    BY <2>2, <2>3, <2>5 DEF LoopStates
  <2> QED
    BY <1>2, <2>1, <2>4, <2>6 DEF Does
<1>3. CASE s[k] # Quote /\ ~(s[k] \in Blanks /\ ~st.quoted)
  <2>1. OnChar(st, s, k) = [st EXCEPT !.start = IF @ = NoArg THEN k ELSE @]
    BY <1>3 DEF OnChar
  <2> QED
    BY <1>3, <2>1 DEF LoopStates, NoArg, Does
<1> QED
  BY <1>1, <1>2, <1>3

-----------------------------------------------------------------------------
(***************************************************************************)
(* Quotes and words of a line, as its user means it.                       *)
(***************************************************************************)
\* Each quote changes whether what follows is in quotes.
LEMMA QuotedStep ==
  ASSUME NEW k \in Nat, k >= 1
  PROVE  /\ ~Quoted(0)
         /\ line[k] = Quote => (Quoted(k) <=> ~Quoted(k - 1))
         /\ line[k] # Quote => (Quoted(k) <=> Quoted(k - 1))
<1> DEFINE Q(j) == {m \in 1..j : line[m] = Quote}
<1>1. ~Quoted(0)
  <2>1. Q(0) = {}
    OBVIOUS
  <2>2. Cardinality(Q(0)) = 0
    BY <2>1, FS_EmptySet
  <2> QED
    BY <2>2 DEF Quoted
<1>2. IsFiniteSet(Q(k - 1)) /\ Cardinality(Q(k - 1)) \in Nat
  <2>1. IsFiniteSet(1..k - 1)
    BY FS_Interval
  <2>2. Q(k - 1) \in SUBSET (1..k - 1)
    OBVIOUS
  <2> QED
    BY <2>1, <2>2, FS_Subset, FS_CardinalityType
<1>3. ASSUME line[k] # Quote PROVE Q(k) = Q(k - 1)
  BY <1>3
<1>4. ASSUME line[k] = Quote PROVE Cardinality(Q(k)) = Cardinality(Q(k - 1)) + 1
  <2>1. Q(k) = Q(k - 1) \cup {k} /\ k \notin Q(k - 1)
    BY <1>4
  <2> HIDE DEF Q
  <2> QED
    BY <1>2, <2>1, FS_AddElement
<1>5. \A n \in Nat : (n + 1) % 2 = 1 <=> n % 2 # 1
  OBVIOUS
<1>6. \A j : Quoted(j) <=> Cardinality(Q(j)) % 2 = 1
  BY DEF Quoted
<1> HIDE DEF Q
<1> QED
  BY <1>1, <1>2, <1>3, <1>4, <1>5, <1>6

\* The parts of a line begin and end at places of it; the n-th word is the n-th.
LEMMA WordEnds ==
  ASSUME line \in Seq(Chars)
  PROVE  /\ PartStarts \subseteq 1..Len(line) /\ Parts \subseteq 1..Len(line)
         /\ \A p \in PartStarts :
              /\ p \in 1..Len(line) /\ PartEnd(p) \in p..Len(line)
              /\ p..PartEnd(p) \subseteq Parts /\ PartEnd(p) + 1 \notin Parts
<1>1. PICK N : N = Len(line) /\ N \in Nat /\ DOMAIN line = 1..N
  OBVIOUS
<1>2. PartStarts \subseteq 1..N /\ Parts \subseteq 1..N
  BY <1>1 DEF PartStarts, Parts
<1>3. PICK t : t = [k \in 1..N |-> IF k \in Parts THEN 1 ELSE 0]
  OBVIOUS
<1>4. t \in Seq(Nat) /\ Len(t) = N /\ DOMAIN t = 1..N
  BY <1>1, <1>3
<1>5. \A k : Inside(t, {0}, k) <=> k \in Parts
  <2> TAKE k
  <2>1. k \in 1..N => (t[k] \notin {0} <=> k \in Parts)
    BY <1>3
  <2> QED
    BY <1>2, <1>4, <2>1 DEF Inside
<1>6. Starts(t, {0}) = PartStarts
  BY <1>2, <1>4, <1>5 DEF Starts, PartStarts
<1>7. ASSUME NEW p \in PartStarts
      PROVE  /\ p \in 1..N /\ PartEnd(p) \in p..N
             /\ p..PartEnd(p) \subseteq Parts /\ PartEnd(p) + 1 \notin Parts
  <2>1. PICK e : /\ e \in p..N
                 /\ \A m \in p..e : Inside(t, {0}, m)
                 /\ ~Inside(t, {0}, e + 1)
    BY <1>4, <1>6, TokenEnds
  <2>2. e \in p..N /\ p..e \subseteq Parts /\ e + 1 \notin Parts
    BY <1>5, <2>1
  <2> QED
    BY <1>1, <1>2, <2>2 DEF PartEnd
<1> QED
  BY <1>1, <1>2, <1>7

WordStart(n) == Nth(PartStarts, n)
WordEnd(n)   == PartEnd(WordStart(n))

LEMMA WordsAre ==
  ASSUME line \in Seq(Chars)
  PROVE  /\ Len(Words) \in Nat /\ Len(Words) = Cardinality(PartStarts)
         /\ DOMAIN Words = 1..Len(Words)
         /\ \A n \in 1..Len(Words) :
              /\ WordStart(n) \in PartStarts /\ WordStart(n) \in 1..Len(line)
              /\ WordEnd(n) \in WordStart(n)..Len(line)
              /\ Words[n] = SubSeq(line, WordStart(n), WordEnd(n))
              /\ Words[n] \in Seq(Chars)
<1> DEFINE S == PartStarts
           f == [k \in S |-> SubSeq(line, k, PartEnd(k))]
<1>1. S \subseteq 1..Len(line) /\ Len(line) \in Nat
  BY WordEnds
<1>2. IsFiniteSet(S) /\ S \subseteq Int
  <2> HIDE DEF S
  <2> QED
    BY <1>1, RankOf
<1>3. ASSUME NEW k \in S PROVE f[k] \in Seq(Chars)
  <2>1. PICK e : e = PartEnd(k) /\ k \in 1..Len(line) /\ e \in k..Len(line)
    BY WordEnds
  <2>2. \A i \in k..e : line[i] \in Chars
    BY <1>1, <2>1
  <2>3. SubSeq(line, k, e) \in Seq(Chars)
    BY <2>1, <2>2, SubSeqProperties
  <2> QED
    BY <2>1, <2>3
<1>4. Words = At(f, S)
  BY DEF Words
<1>5. \A n \in 1..Cardinality(S) : Nth(S, n) \in S
  <2> HIDE DEF S
  <2> QED
    BY <1>2, NthIs
<1>6. \A k \in S : f[k] = SubSeq(line, k, PartEnd(k))
  OBVIOUS
<1> HIDE DEF f
<1>7. /\ Words \in Seq(Seq(Chars)) /\ Len(Words) = Cardinality(S)
      /\ \A n \in 1..Cardinality(S) : Words[n] = f[Nth(S, n)]
  <2> HIDE DEF S
  <2> QED
    BY <1>2, <1>3, <1>4, AtIs
<1>8. Len(Words) \in Nat /\ DOMAIN Words = 1..Len(Words)
  BY <1>7
<1>9. \A n \in 1..Cardinality(S) : Words[n] = SubSeq(line, WordStart(n), WordEnd(n)) /\ Words[n] \in Seq(Chars)
  BY <1>3, <1>5, <1>6, <1>7 DEF WordStart, WordEnd
<1>10. \A n \in 1..Cardinality(S) :
         /\ WordStart(n) \in PartStarts /\ WordStart(n) \in 1..Len(line)
         /\ WordEnd(n) \in WordStart(n)..Len(line)
  BY <1>5, WordEnds DEF WordStart, WordEnd
<1> QED
  BY <1>7, <1>8, <1>9, <1>10

\* The words begun up to a place.
Begins(k) == Rank(PartStarts, k)

\* A place between words begins none; one in a word begins one, when the one before
\* it is in none.
LEMMA PlaceStep ==
  ASSUME line \in Seq(Chars), NEW k \in 1..Len(line)
  PROVE  /\ Begins(0) = 0 /\ 0 \notin Parts
         /\ Begins(k) \in 0..Len(Words) /\ Begins(k - 1) \in 0..Len(Words)
         /\ k \notin Parts \/ k - 1 \in Parts => Begins(k) = Begins(k - 1)
         /\ k \in Parts /\ k - 1 \notin Parts =>
              /\ Begins(k) = Begins(k - 1) + 1
              /\ WordStart(Begins(k)) = k
<1> DEFINE S == PartStarts
<1>1. /\ k \in Int /\ k - 1 \in Int /\ Len(line) \in Nat /\ S \subseteq 1..Len(line)
      /\ Parts \subseteq 1..Len(line)
  BY WordEnds
<1>2. /\ IsFiniteSet(S) /\ S \subseteq Int /\ Rank(S, 0) = 0
      /\ \A i \in Int : Rank(S, i) \in Nat /\ Rank(S, i) <= Cardinality(S)
  <2>1. \A i \in Int : i <= i
    OBVIOUS
  <2> HIDE DEF S
  <2> QED
    BY <1>1, <2>1, RankOf
<1>3. Begins(k) \in 0..Len(Words) /\ Begins(k - 1) \in 0..Len(Words)
  <2>1. Len(Words) \in Nat /\ Len(Words) = Cardinality(S)
    BY WordsAre
  <2> HIDE DEF S
  <2>2. /\ Rank(S, k) \in Nat /\ Rank(S, k) <= Cardinality(S)
        /\ Rank(S, k - 1) \in Nat /\ Rank(S, k - 1) <= Cardinality(S)
    BY <1>1, <1>2
  <2> QED
    BY <2>1, <2>2 DEF Begins, S
<1>4. ASSUME k \notin Parts \/ k - 1 \in Parts PROVE Begins(k) = Begins(k - 1)
  <2>1. k \notin S
    BY <1>4 DEF PartStarts
  <2>2. NoneIn(S, k - 1, k)
    <3>1. \A j \in S : j \in Int /\ (k - 1 < j /\ j <= k => j = k)
      BY <1>1
    <3> HIDE DEF S
    <3> QED
      BY <2>1, <3>1 DEF NoneIn
  <2>3. k - 1 <= k
    BY <1>1
  <2> HIDE DEF S
  <2>4. Rank(S, k - 1) = Rank(S, k)
    BY <1>1, <1>2, <2>2, <2>3, RankStays
  <2> QED
    BY <2>4 DEF Begins, S
<1>5. ASSUME k \in Parts, k - 1 \notin Parts
      PROVE  Begins(k) = Begins(k - 1) + 1 /\ WordStart(Begins(k)) = k
  <2>1. k \in S
    BY <1>5 DEF PartStarts
  <2> HIDE DEF S
  <2>2. AtMost(S, k) = AtMost(S, k - 1) \cup {k} /\ k \notin AtMost(S, k - 1)
    <3>1. \A j \in S : j \in Int /\ (j <= k <=> (j <= k - 1 \/ j = k)) /\ ~(k <= k - 1)
      BY <1>1
    <3> QED
      BY <2>1, <3>1 DEF AtMost
  <2>3. IsFiniteSet(AtMost(S, k - 1))
    <3>1. AtMost(S, k - 1) \in SUBSET S
      BY DEF AtMost
    <3> QED
      BY <1>2, <3>1, FS_Subset
  <2>4. Rank(S, k) = Rank(S, k - 1) + 1
    BY <2>2, <2>3, FS_AddElement DEF Rank
  <2>5. Nth(S, Rank(S, k)) = k
    BY <1>2, <2>1, NthIs
  <2> QED
    BY <2>4, <2>5 DEF Begins, WordStart, S
<1>6. Begins(0) = 0
  BY <1>2 DEF Begins
<1>7. 0 \notin Parts
  BY <1>1
<1> QED
  BY <1>3, <1>4, <1>5, <1>6, <1>7

\* In a place of a word, the word is the one begun last.
InWord(k) ==
  /\ Begins(k) \in 1..Len(Words)
  /\ WordStart(Begins(k)) <= k
  /\ WordStart(Begins(k))..k \subseteq Parts

LEMMA WordOfPlace ==
  ASSUME line \in Seq(Chars)
  PROVE  \A k \in Parts : InWord(k)
<1> DEFINE D == {k \in Parts : ~InWord(k)}
<1>1. SUFFICES ASSUME D # {} PROVE FALSE
  OBVIOUS
<1>2. Parts \subseteq 1..Len(line) /\ Len(line) \in Nat /\ Len(Words) \in Nat
  BY WordEnds, WordsAre
<1>3. PICK k \in D : \A j \in D : k <= j
  <2>0. \A k \in Parts : k \in Nat
    BY <1>2
  <2>1. D \subseteq Nat
    BY <2>0
  <2> HIDE DEF D
  <2> QED
    BY <1>1, <2>1, LeastNumber
<1>4. k \in Parts /\ ~InWord(k) /\ k \in 1..Len(line) /\ k \in Int
  BY <1>2, <1>3
<1>5. k - 1 \in Parts => InWord(k - 1)
  <2>1. ~(k <= k - 1)
    BY <1>4
  <2> QED
    BY <1>3, <2>1
<1>6. /\ Begins(k) \in 0..Len(Words) /\ Begins(k - 1) \in 0..Len(Words)
      /\ k - 1 \in Parts => Begins(k) = Begins(k - 1)
      /\ k - 1 \notin Parts => Begins(k) = Begins(k - 1) + 1 /\ WordStart(Begins(k)) = k
  BY <1>4, PlaceStep
<1>7. CASE k - 1 \in Parts
  <2>1. /\ Begins(k) \in 1..Len(Words) /\ WordStart(Begins(k)) <= k - 1
        /\ WordStart(Begins(k))..k - 1 \subseteq Parts
    BY <1>5, <1>6, <1>7 DEF InWord
  <2>2. WordStart(Begins(k)) \in Int
    BY <1>2, <2>1, WordsAre
  <2>3. WordStart(Begins(k)) <= k
    BY <1>4, <2>1, <2>2
  <2>4. \A j \in WordStart(Begins(k))..k : j = k \/ j \in WordStart(Begins(k))..k - 1
    BY <1>4, <2>2
  <2> QED
    BY <1>4, <2>1, <2>3, <2>4 DEF InWord
<1>8. CASE k - 1 \notin Parts
  <2>1. Begins(k) \in 1..Len(Words)
    BY <1>2, <1>6, <1>8
  <2>2. WordStart(Begins(k)) = k /\ k <= k
    BY <1>4, <1>6, <1>8
  <2>3. \A j \in k..k : j = k
    BY <1>4
  <2> QED
    BY <1>4, <2>1, <2>2, <2>3 DEF InWord
<1> QED
  BY <1>7, <1>8

\* A word goes on to its end, and is over where a place is in none.
LEMMA WordGoesOn ==
  ASSUME line \in Seq(Chars), NEW k \in Parts
  PROVE  /\ k <= WordEnd(Begins(k))
         /\ k + 1 \notin Parts => k = WordEnd(Begins(k))
         /\ k + 1 \in Parts => k # WordEnd(Begins(k))
<1>1. PICK n : n = Begins(k) /\ n \in 1..Len(Words)
  BY WordOfPlace DEF InWord
<1>2. PICK p, e : p = WordStart(n) /\ e = WordEnd(n)
  OBVIOUS
<1>3. /\ p \in PartStarts /\ p \in 1..Len(line) /\ e \in p..Len(line)
      /\ p..e \subseteq Parts /\ e + 1 \notin Parts
  BY <1>1, <1>2, WordsAre, WordEnds DEF WordEnd
<1>4. p <= k /\ p..k \subseteq Parts
  BY <1>1, <1>2, WordOfPlace DEF InWord
<1>5. k \in Int /\ e \in Int /\ p \in Int /\ Len(line) \in Nat
  BY <1>3, WordEnds
<1>6. k <= e
  <2>1. ~(k <= e) => e + 1 \in p..k
    BY <1>3, <1>4, <1>5
  <2> QED
    BY <1>3, <1>4, <2>1
<1>7. k + 1 \notin Parts => k = e
  <2>1. k # e => k + 1 \in p..e
    BY <1>4, <1>5, <1>6
  <2> QED
    BY <1>3, <2>1
<1> QED
  BY <1>1, <1>2, <1>3, <1>6, <1>7

\* The word from p to e has no quote, or one at each end and no other.
Plain(p, e) == \A m \in p..e : line[m] # Quote
InTwo(p, e) ==
  /\ p < e /\ line[p] = Quote /\ line[e] = Quote
  /\ \A m \in p..e : line[m] = Quote => m = p \/ m = e

LEMMA WordQuotes ==
  ASSUME line \in Seq(Chars), WellQuoted, NEW n \in 1..Len(Words)
  PROVE  /\ Plain(WordStart(n), WordEnd(n)) \/ InTwo(WordStart(n), WordEnd(n))
         /\ InQuotes(Words[n]) <=> line[WordStart(n)] = Quote
<1>1. PICK p, e : p = WordStart(n) /\ e = WordEnd(n)
  OBVIOUS
<1>2. /\ p \in Int /\ e \in Int /\ 1 <= p /\ p <= e /\ e <= Len(line) /\ Len(line) \in Nat
      /\ Words[n] = SubSeq(line, p, e) /\ n \in DOMAIN Words
  BY <1>1, WordsAre
<1>3. PICK w : w = Words[n]
  OBVIOUS
<1>4. /\ w \in Seq(Chars) /\ Len(w) = e - p + 1
      /\ \A i \in 1..e - p + 1 : w[i] = line[p + i - 1]
  <2>1. \A i \in p..e : line[i] \in Chars
    BY <1>2
  <2> QED
    BY <1>2, <1>3, <2>1, SubSeqProperties
<1>5. PICK Q : Q = {k \in DOMAIN w : w[k] = Quote}
  OBVIOUS
<1>6. Q = {} \/ (Q = {1, Len(w)} /\ Len(w) > 1)
  BY <1>2, <1>3, <1>5 DEF WellQuoted
<1>7. \A m \in p..e : /\ m - p + 1 \in 1..e - p + 1 /\ m - p + 1 \in DOMAIN w
                      /\ w[m - p + 1] = line[m]
  <2> TAKE m \in p..e
  <2>1. m - p + 1 \in 1..e - p + 1 /\ p + (m - p + 1) - 1 = m
    BY <1>2
  <2> QED
    BY <1>4, <2>1
<1>8. w[1] = line[p]
  <2>1. 1 \in 1..e - p + 1 /\ p + 1 - 1 = p
    BY <1>2
  <2> QED
    BY <1>4, <2>1
<1>9. CASE Q = {}
  <2>1. \A m \in p..e : line[m] # Quote
    BY <1>5, <1>7, <1>9
  <2> QED
    BY <1>1, <1>3, <1>8, <2>1 DEF Plain, InQuotes
<1>10. CASE Q = {1, Len(w)} /\ Len(w) > 1
  <2>1. p < e
    BY <1>2, <1>4, <1>10
  <2>2. w[1] = Quote /\ w[e - p + 1] = Quote
    BY <1>4, <1>5, <1>10
  <2>3. \A m \in p..e : line[m] = Quote => m - p + 1 = 1 \/ m - p + 1 = e - p + 1
    BY <1>4, <1>5, <1>7, <1>10
  <2>4. \A m \in p..e : line[m] = Quote => m = p \/ m = e
    BY <1>2, <2>3
  <2>5. line[p] = Quote /\ line[e] = Quote
    <3>1. e \in p..e /\ p \in p..e /\ p - p + 1 = 1
      BY <1>2
    <3> QED
      BY <1>7, <1>8, <2>2, <3>1
  <2> QED
    BY <1>1, <1>3, <1>8, <2>1, <2>4, <2>5 DEF InTwo, InQuotes
<1> QED
  BY <1>6, <1>9, <1>10

\* A quoted word without its quotes is what is between them.
LEMMA UnquotedIs ==
  ASSUME NEW w \in Seq(Chars), Len(w) > 1, {k \in DOMAIN w : w[k] = Quote} = {1, Len(w)}
  PROVE  Unquoted(w) = SubSeq(w, 2, Len(w) - 1)
<1>1. PICK l : l = Len(w) /\ l \in Nat /\ l > 1 /\ DOMAIN w = 1..l
  OBVIOUS
<1>2. PICK S : S = {k \in DOMAIN w : w[k] # Quote}
  OBVIOUS
<1>3. \A k \in 1..l : k \in S <=> k # 1 /\ k # l
  BY <1>1, <1>2
<1>4. S \subseteq 1..l /\ S = 2..l - 1
  BY <1>1, <1>2, <1>3
<1>5. IsFiniteSet(S) /\ S \subseteq Int
  BY <1>1, <1>4, RankOf
<1>6. Cardinality(S) = l - 2
  <2>1. Cardinality(2..l - 1) = IF 2 > l - 1 THEN 0 ELSE (l - 1) - 2 + 1
    <3>1. 2 \in Int /\ l - 1 \in Int
      BY <1>1
    <3> QED
      BY <3>1, FS_Interval
  <2> QED
    BY <1>1, <1>4, <2>1
<1>7. ASSUME NEW n \in 1..l - 2 PROVE Nth(S, n) = n + 1
  <2>1. n \in Int /\ n + 1 \in S
    BY <1>1, <1>4
  <2>2. AtMost(S, n + 1) = 2..n + 1
    BY <1>1, <1>4, <2>1 DEF AtMost
  <2>3. Cardinality(2..n + 1) = IF 2 > n + 1 THEN 0 ELSE (n + 1) - 2 + 1
    BY <2>1, FS_Interval
  <2>4. Rank(S, n + 1) = n
    BY <2>1, <2>2, <2>3 DEF Rank
  <2> QED
    BY <1>5, <2>1, <2>4, NthIs
<1>8. \A k \in S : w[k] \in Chars
  BY <1>1, <1>4
<1>9. PICK u : u = At(w, S)
  OBVIOUS
<1>10. u \in Seq(Chars) /\ Len(u) = l - 2 /\ \A n \in 1..l - 2 : u[n] = w[n + 1]
  <2>1. /\ u \in Seq(Chars) /\ Len(u) = l - 2
        /\ \A n \in 1..l - 2 : u[n] = w[Nth(S, n)]
    <3>1. /\ At(w, S) \in Seq(Chars) /\ Len(At(w, S)) = Cardinality(S)
          /\ \A n \in 1..Cardinality(S) : At(w, S)[n] = w[Nth(S, n)]
      BY ONLY <1>5, <1>8, AtIs
    <3> QED
      BY ONLY <1>6, <1>9, <3>1
  <2> QED
    BY <1>7, <2>1
<1>11. IsSlice(u, w, 1, l - 1) /\ 1 \in Nat /\ l - 1 \in Nat /\ 1 <= l - 1 /\ l - 1 <= Len(w)
       /\ 1 + 1 = 2
  <2>1. l - 1 - 1 = l - 2 /\ \A n \in 1..l - 2 : n + 1 = 1 + n
    BY <1>1
  <2>2. \A n \in 1..Len(u) : u[n] = w[1 + n]
    BY ONLY <1>10, <2>1
  <2>3. IsSlice(u, w, 1, l - 1)
    BY ONLY <1>10, <2>1, <2>2 DEF IsSlice
  <2> QED
    BY <1>1, <2>3
<1>12. u = SubSeq(w, 1 + 1, l - 1)
  BY <1>10, <1>11, SliceSame
<1> QED
  BY <1>1, <1>2, <1>9, <1>11, <1>12 DEF Unquoted

-----------------------------------------------------------------------------
\* An argument ends at the first NUL from its start on.
FirstFrom(nuls, p, e) == /\ e \in nuls
                         /\ \A m \in p..e - 1 : m \notin nuls

LEMMA StopIs ==
  ASSUME NEW s, Len(s) \in Nat, NEW nuls \in SUBSET Nat, NEW p \in Nat,
         NEW e \in p..Len(s) + 1,
         FirstFrom(nuls \cup {Len(s) + 1}, p, e)
  PROVE  Stop(s, nuls, p) = e
<1> DEFINE P(k) == /\ k \in p..Len(s) + 1
                   /\ k \in nuls \cup {Len(s) + 1} /\ nuls \cap p..k - 1 = {}
<1>1. e \in Int /\ p \in Int /\ p <= e /\ e <= Len(s) + 1
  OBVIOUS
<1>2. P(e)
  BY <1>1 DEF FirstFrom
<1>3. ASSUME NEW k, P(k) PROVE k = e
  <2>1. k \in Int /\ p <= k /\ k <= Len(s) + 1
    BY <1>3
  <2>2. ~(k < e)
    <3>1. k < e => k \in p..e - 1
      BY <1>1, <2>1
    <3> QED
      BY <1>3, <3>1 DEF FirstFrom
  <2>3. ~(e < k)
    <3>1. e < k => e \in p..k - 1 /\ e # Len(s) + 1
      BY <1>1, <2>1
    <3> QED
      BY <1>3, <3>1 DEF FirstFrom
  <2> QED
    BY <1>1, <2>1, <2>2, <2>3
<1>4. Stop(s, nuls, p) = CHOOSE k : P(k)
  BY DEF Stop
<1> HIDE DEF P
<1> QED
  BY <1>2, <1>3, <1>4

\* The places of a word have it as the one begun last.
LEMMA WordPlaces ==
  ASSUME line \in Seq(Chars), NEW n \in 1..Len(Words), NEW m \in WordStart(n)..WordEnd(n)
  PROVE  m \in Parts /\ Begins(m) = n
<1>1. PICK S, p, e : S = PartStarts /\ p = WordStart(n) /\ e = WordEnd(n)
  OBVIOUS
<1>2. /\ p \in S /\ p \in 1..Len(line) /\ p..e \subseteq Parts /\ m \in p..e
      /\ S \subseteq 1..Len(line) /\ Len(line) \in Nat /\ Len(Words) = Cardinality(S)
  BY <1>1, WordsAre, WordEnds DEF WordEnd
<1>3. IsFiniteSet(S) /\ S \subseteq Int
  BY <1>2, RankOf
<1>4. p \in Int /\ m \in Int /\ e \in Int /\ p <= m /\ \A k \in S : k \in Int
  <2>1. e \in p..Len(line)
    BY <1>1, WordsAre
  <2> QED
    BY <1>2, <2>1
<1>5. Rank(S, p) = n
  BY <1>1, <1>2, <1>3, NthIs DEF WordStart
<1>6. NoneIn(S, p, m)
  <2>1. ASSUME NEW k \in S, p < k, k <= m PROVE FALSE
    <3>1. k - 1 \in p..e
      <4>1. k \in Int /\ p < k /\ k <= m /\ m \in p..e /\ e \in Int /\ p \in Int
        BY <1>2, <1>4, <2>1
      <4> QED
        BY ONLY <4>1
    <3>2. k - 1 \notin Parts
      BY <1>1 DEF PartStarts
    <3> QED
      BY <1>2, <3>1, <3>2
  <2> QED
    BY <2>1 DEF NoneIn
<1>7. Rank(S, p) = Rank(S, m)
  BY <1>3, <1>4, <1>6, RankStays
<1> QED
  BY <1>1, <1>2, <1>5, <1>7 DEF Begins

\* In quotes are the places of a quoted word up to the last.
LEMMA QuotedPlaces ==
  ASSUME line \in Seq(Chars), WellQuoted, NEW k \in Parts
  PROVE  Quoted(k) <=> /\ line[WordStart(Begins(k))] = Quote
                       /\ k # WordEnd(Begins(k))
<1> DEFINE Right(j) == Quoted(j) <=> /\ line[WordStart(Begins(j))] = Quote
                                     /\ j # WordEnd(Begins(j))
           D == {j \in Parts : ~Right(j)}
<1>1. SUFFICES ASSUME D # {} PROVE FALSE
  OBVIOUS
<1>2. Parts \subseteq 1..Len(line) /\ Len(line) \in Nat /\ Len(Words) \in Nat
  BY WordEnds, WordsAre
<1>3. PICK j \in D : \A i \in D : j <= i
  <2>0. \A i \in Parts : i \in Nat
    BY <1>2
  <2>1. D \subseteq Nat
    BY <2>0
  <2> HIDE DEF D
  <2> QED
    BY <1>1, <2>1, LeastNumber
<1>4. j \in Parts /\ ~Right(j) /\ j \in 1..Len(line) /\ j \in Int /\ j \in Nat /\ j >= 1
  BY <1>2, <1>3
<1>5. j - 1 \in Parts => Right(j - 1)
  <2>1. ~(j <= j - 1)
    BY <1>4
  <2> QED
    BY <1>3, <2>1
<1> HIDE DEF D
<1>6. PICK n, p, e : n = Begins(j) /\ p = WordStart(n) /\ e = WordEnd(n)
  OBVIOUS
<1>7. n \in 1..Len(Words) /\ p <= j /\ j <= e /\ p \in Int /\ e \in Int
  <2>1. n \in 1..Len(Words) /\ p <= j /\ j <= e
    BY <1>4, <1>6, WordOfPlace, WordGoesOn DEF InWord
  <2> QED
    BY <1>2, <1>6, <2>1, WordsAre
<1>8. Plain(p, e) \/ InTwo(p, e)
  BY <1>6, <1>7, WordQuotes
<1>9. /\ ~Quoted(0)
      /\ line[j] = Quote => (Quoted(j) <=> ~Quoted(j - 1))
      /\ line[j] # Quote => (Quoted(j) <=> Quoted(j - 1))
  BY <1>4, QuotedStep
<1>10. j \in p..e /\ p \in p..e /\ e \in p..e
  BY <1>4, <1>7
<1>11. CASE j - 1 \notin Parts
  <2>1. p = j
    BY <1>4, <1>6, <1>11, PlaceStep
  <2>2. ~Quoted(j - 1)
    <3>1. j = 1 => j - 1 = 0
      OBVIOUS
    <3>2. j # 1 => j - 1 \in DOMAIN line
      BY <1>2, <1>4
    <3> QED
      BY <1>9, <1>11, <3>1, <3>2 DEF Parts
  <2>3. Plain(p, e) => line[j] # Quote
    BY <1>10 DEF Plain
  <2>4. InTwo(p, e) => line[j] = Quote /\ j # e
    BY <1>4, <1>7, <2>1 DEF InTwo
  <2> QED
    BY <1>4, <1>6, <1>8, <1>9, <2>1, <2>2, <2>3, <2>4
<1>12. CASE j - 1 \in Parts
  <2>1. Begins(j - 1) = n
    BY <1>4, <1>6, <1>12, PlaceStep
  <2>2. j - 1 # e /\ p <= j - 1
    <3>1. j - 1 + 1 = j
      BY <1>4
    <3>2. p <= j - 1
      BY <1>6, <1>12, <2>1, WordOfPlace DEF InWord
    <3> QED
      BY <1>4, <1>6, <1>12, <2>1, <3>1, <3>2, WordGoesOn
  <2>3. Quoted(j - 1) <=> line[p] = Quote
    BY <1>5, <1>6, <1>12, <2>1, <2>2
  <2>4. Plain(p, e) => line[j] # Quote /\ line[p] # Quote
    BY <1>10 DEF Plain
  <2>5. j # p
    BY <1>4, <1>7, <2>2
  <2>6. InTwo(p, e) => line[p] = Quote /\ (line[j] = Quote <=> j = e)
    BY <1>10, <2>5 DEF InTwo
  <2> QED
    BY <1>4, <1>6, <1>8, <1>9, <2>3, <2>4, <2>6
<1> QED
  BY <1>11, <1>12

-----------------------------------------------------------------------------
(***************************************************************************)
(* The arguments as text.                                                  *)
(***************************************************************************)
\* The NULs that the loop has put up to a place, and what is at a pointer in the end.
Nuls(k) == {m \in 1..k : ~Quoted(m) /\ line[m] \in Blanks \cup {Quote}}
Text(p) == SubSeq(line, p, Stop(line, Nuls(Len(line)), p) - 1)

\* The pointer to the n-th word, and what argv gets of it.
ArgStart(n) == IF line[WordStart(n)] = Quote THEN WordStart(n) + 1 ELSE WordStart(n)
Piece(n) == IF InQuotes(Words[n]) THEN <<Unquoted(Words[n]), Unquoted(Words[n])>>
                                  ELSE <<Words[n]>>

\* The argument is the word, without its quotes.
LEMMA ArgText ==
  ASSUME line \in Seq(Chars), WellQuoted, NEW n \in 1..Len(Words)
  PROVE  /\ Text(ArgStart(n)) \in Seq(Chars)
         /\ Piece(n) = IF line[WordStart(n)] = Quote
                         THEN <<Text(ArgStart(n)), Text(ArgStart(n))>>
                         ELSE <<Text(ArgStart(n))>>
<1>1. PICK p, e, N : p = WordStart(n) /\ e = WordEnd(n) /\ N = Len(line)
  OBVIOUS
<1>2. /\ p \in Int /\ e \in Int /\ 1 <= p /\ p <= e /\ e <= N /\ N \in Nat
      /\ Words[n] = SubSeq(line, p, e) /\ Words[n] \in Seq(Chars)
  BY <1>1, WordsAre
<1>3. /\ Plain(p, e) \/ InTwo(p, e)
      /\ InQuotes(Words[n]) <=> line[p] = Quote
  BY <1>1, WordQuotes
<1>4. Nuls(N) \in SUBSET Nat /\ \A m \in Nuls(N) : m \in 1..N
  BY <1>2 DEF Nuls
<1>5. p \in PartStarts /\ p..e \subseteq Parts /\ e + 1 \notin Parts
  BY <1>1, WordsAre, WordEnds DEF WordEnd
<1>6. CASE Plain(p, e)
  <2>1. line[p] # Quote
    BY <1>2, <1>6 DEF Plain
  <2>2. \A m \in p..e : m \notin Nuls(N) /\ m # N + 1
    <3> TAKE m \in p..e
    <3>1. m \in Parts /\ line[m] # Quote /\ m # N + 1
      BY <1>2, <1>5, <1>6 DEF Plain
    <3> QED
      BY <3>1 DEF Parts, Nuls
  <2>3. e + 1 \in Nuls(N) \cup {N + 1}
    <3>1. e + 1 # N + 1 => e + 1 \in 1..N /\ e + 1 \in DOMAIN line
      BY <1>1, <1>2
    <3> QED
      BY <1>5, <3>1 DEF Parts, Nuls
  <2>4. FirstFrom(Nuls(N) \cup {N + 1}, p, e + 1) /\ e + 1 \in p..N + 1 /\ p \in Nat
    <3>1. e + 1 \in p..N + 1 /\ p \in Nat
      BY <1>2
    <3>2. \A m \in p..(e + 1) - 1 : m \in p..e
      BY <1>2
    <3>3. \A m \in p..(e + 1) - 1 : m \notin Nuls(N) \cup {N + 1}
      BY <2>2, <3>2
    <3>4. FirstFrom(Nuls(N) \cup {N + 1}, p, e + 1)
      BY ONLY <2>3, <3>3 DEF FirstFrom
    <3> QED
      BY ONLY <3>1, <3>4
  <2>5. Stop(line, Nuls(N), p) = e + 1
    BY <1>1, <1>2, <1>4, <2>4, StopIs
  <2>6. Text(p) = Words[n]
    <3>1. (e + 1) - 1 = e
      BY <1>2
    <3>2. Text(p) = SubSeq(line, p, Stop(line, Nuls(N), p) - 1)
      BY <1>1 DEF Text
    <3>3. Text(p) = SubSeq(line, p, e)
      BY ONLY <2>5, <3>1, <3>2
    <3> QED
      BY <1>2, <3>3
  <2> QED
    BY <1>1, <1>2, <1>3, <2>1, <2>6 DEF ArgStart, Piece
<1>7. CASE InTwo(p, e)
  <2>1. p < e /\ line[p] = Quote /\ line[e] = Quote
    BY <1>7 DEF InTwo
  <2>2. \A m \in p..e : m \in Parts /\ (Quoted(m) <=> m # e)
    <3> TAKE m \in p..e
    <3>1. m \in Parts /\ Begins(m) = n
      BY <1>1, WordPlaces
    <3> QED
      BY <1>1, <2>1, <3>1, QuotedPlaces
  <2>3. \A m \in p + 1..e - 1 : m \notin Nuls(N) /\ m # N + 1
    <3> TAKE m \in p + 1..e - 1
    <3>1. m \in p..e /\ m # e /\ m # N + 1
      BY <1>2
    <3> QED
      BY <2>2, <3>1 DEF Nuls
  <2>4. e \in Nuls(N) \cup {N + 1}
    <3>1. e \in 1..N /\ e \in p..e
      BY <1>2
    <3> QED
      BY <2>1, <2>2, <3>1 DEF Nuls
  <2>5. FirstFrom(Nuls(N) \cup {N + 1}, p + 1, e) /\ e \in p + 1..N + 1 /\ p + 1 \in Nat
    <3>1. e \in p + 1..N + 1 /\ p + 1 \in Nat
      BY <1>2, <2>1
    <3> QED
      BY <2>3, <2>4, <3>1 DEF FirstFrom
  <2>6. Stop(line, Nuls(N), p + 1) = e
    BY <1>1, <1>2, <1>4, <2>5, StopIs
  <2>7. Text(p + 1) = SubSeq(line, p + 1, e - 1)
    BY <1>1, <2>6 DEF Text
  <2>8. PICK w, l : w = Words[n] /\ l = Len(w)
    OBVIOUS
  <2>9. /\ w \in Seq(Chars) /\ l = e - p + 1 /\ l \in Nat /\ l > 1
        /\ \A i \in 1..l : w[i] = line[p + i - 1]
    <3>1. \A i \in p..e : line[i] \in Chars
      BY <1>1, <1>2
    <3>2. /\ w \in Seq(Chars) /\ Len(w) = e - p + 1
          /\ \A i \in 1..e - p + 1 : w[i] = line[p + i - 1]
      BY <1>2, <2>8, <3>1, SubSeqProperties
    <3> QED
      BY <1>2, <2>1, <2>8, <3>2
  <2>10. {k \in DOMAIN w : w[k] = Quote} = {1, l}
    <3>0. DOMAIN w = 1..l
      <4>1. w \in Seq(Chars) /\ l = Len(w)
        BY <2>8, <2>9
      <4> QED
        BY ONLY <4>1
    <3>1. \A i \in 1..l : p + i - 1 \in p..e /\ (p + i - 1 = p <=> i = 1) /\ (p + i - 1 = e <=> i = l)
      BY <1>2, <2>9
    <3>2. \A i \in 1..l : w[i] = Quote <=> i = 1 \/ i = l
      BY <1>7, <2>1, <2>9, <3>1 DEF InTwo
    <3>3. 1 \in 1..l /\ l \in 1..l
      BY <2>9
    <3> QED
      BY <3>0, <3>2, <3>3
  <2>11. Unquoted(w) = SubSeq(w, 2, l - 1)
    BY <2>8, <2>9, <2>10, UnquotedIs
  <2>12. PICK v : v = SubSeq(w, 1 + 1, l - 1)
    OBVIOUS
  <2>13. /\ v \in Seq(Chars) /\ Len(v) = l - 1 - 1
         /\ \A i \in 1..l - 1 - 1 : v[i] = w[1 + i]
    <3>1. 1 \in Nat /\ l - 1 \in Nat /\ 1 <= l - 1 /\ l - 1 <= Len(w)
      BY <2>8, <2>9
    <3> QED
      BY ONLY <2>9, <2>12, <3>1, SliceIs
  <2>14. IsSlice(v, line, p, e - 1)
    <3>1. l - 1 - 1 = e - 1 - p /\ \A i \in 1..l - 1 - 1 : 1 + i \in 1..l /\ p + (1 + i) - 1 = p + i
      BY <1>2, <2>9
    <3> QED
      BY <2>9, <2>13, <3>1 DEF IsSlice
  <2>15. v = SubSeq(line, p + 1, e - 1)
    <3>1. p \in Nat /\ e - 1 \in Nat /\ p <= e - 1 /\ e - 1 <= Len(line)
      BY <1>1, <1>2, <2>1
    <3> QED
      BY <2>13, <2>14, <3>1, SliceSame
  <2>16. 1 + 1 = 2
    OBVIOUS
  <2>17. Text(p + 1) = Unquoted(w) /\ Unquoted(w) \in Seq(Chars)
    BY <2>7, <2>11, <2>12, <2>13, <2>15, <2>16
  <2> QED
    BY <1>1, <1>3, <2>1, <2>8, <2>17 DEF ArgStart, Piece
<1> QED
  BY <1>3, <1>6, <1>7

\* What argv gets of the first c words.
Given(c) == FlattenSeq([n \in 1..c |-> Piece(n)])

LEMMA GivenIs ==
  ASSUME line \in Seq(Chars), WellQuoted
  PROVE  /\ Given(0) = <<>>
         /\ \A c \in 0..Len(Words) : Given(c) \in Seq(Seq(Chars))
         /\ \A c \in 1..Len(Words) : Given(c) = Given(c - 1) \o Piece(c)
<1>1. PICK T, W : T = Seq(Chars) /\ W = Len(Words) /\ W \in Nat
  BY WordsAre
<1>2. \A n \in 1..W : Piece(n) \in Seq(T)
  <2> TAKE n \in 1..W
  <2>1. PICK x : x = Text(ArgStart(n)) /\ x \in T
    BY <1>1, ArgText
  <2>2. Piece(n) = <<x, x>> \/ Piece(n) = <<x>>
    BY <1>1, <2>1, ArgText
  <2>3. <<x, x>> \in Seq(T) /\ <<x>> \in Seq(T)
    BY ONLY <2>1
  <2> QED
    BY <2>2, <2>3
<1>3. Given(0) = <<>>
  <2>1. PICK q : q = [n \in 1..0 |-> Piece(n)]
    OBVIOUS
  <2>2. q = <<>> /\ Len(q) = 0
    BY ONLY <2>1
  <2> QED
    BY <2>1, <2>2 DEF Given, FlattenSeq
<1>4. ASSUME NEW c \in 1..W
      PROVE  Given(c) \in Seq(T) /\ Given(c) = Given(c - 1) \o Piece(c)
  <2>1. c \in Nat /\ c >= 1 /\ \A n \in 1..c : n \in 1..W
    BY <1>1
  <2>2. PICK q : q = [n \in 1..c |-> Piece(n)]
    OBVIOUS
  <2>3. /\ q \in Seq(Seq(T)) /\ Len(q) = c /\ q # <<>>
        /\ \A n \in 1..c : q[n] = Piece(n) /\ q[n] \in Seq(T)
    <3>1. q \in Seq(Seq(T)) /\ Len(q) = c /\ \A n \in 1..c : q[n] = Piece(n) /\ q[n] \in Seq(T)
      BY <1>2, <2>1, <2>2
    <3> QED
      BY <2>1, <3>1
  <2>4. Given(c) = FlattenSeq(q)
    BY <2>2 DEF Given
  <2>5. /\ FlattenSeq(q) \in Seq(T)
        /\ c = 1 => FlattenSeq(q) = q[1]
        /\ c > 1 => FlattenSeq(q) = FlattenSeq(SubSeq(q, 1, c - 1)) \o q[c]
    BY <2>3, FlattenFront
  <2>6. CASE c = 1
    <3>1. Given(c) = Piece(c) /\ Piece(c) \in Seq(T)
      BY <1>2, <2>3, <2>4, <2>5, <2>6
    <3>2. Given(c - 1) = <<>>
      BY <1>3, <2>6
    <3>3. <<>> \o Piece(c) = Piece(c)
      BY <3>1
    <3> QED
      BY <2>4, <2>5, <3>1, <3>2, <3>3
  <2>7. CASE c > 1
    <3>1. PICK r : r = SubSeq(q, 1, c - 1)
      OBVIOUS
    <3>2. r = [n \in 1..c - 1 |-> Piece(n)]
      <4>1. \A n \in 1..c - 1 : n \in 1..c /\ 1 + n - 1 = n
        BY <2>1
      <4>2. \A n \in 1..c - 1 : q[n] \in Seq(T)
        BY <2>3, <4>1
      <4>3. /\ 1 <= c - 1 /\ c - 1 \in Int /\ (c - 1) - 1 + 1 = c - 1
        BY <2>1, <2>7
      <4>4. r \in Seq(Seq(T)) /\ Len(r) = c - 1 /\ \A n \in 1..c - 1 : r[n] = q[n]
        BY <3>1, <4>1, <4>2, <4>3, SubSeqProperties
      <4>5. DOMAIN r = 1..c - 1 /\ r = [n \in DOMAIN r |-> r[n]]
        BY ONLY <4>3, <4>4
      <4>6. \A n \in 1..c - 1 : r[n] = Piece(n)
        BY <2>3, <4>1, <4>4
      <4> QED
        BY <4>5, <4>6
    <3>3. Given(c - 1) = FlattenSeq(r)
      BY <3>2 DEF Given
    <3>4. c \in 1..c
      BY <2>1
    <3> QED
      BY <2>3, <2>4, <2>5, <2>7, <3>1, <3>3, <3>4
  <2> QED
    BY <2>1, <2>6, <2>7
<1>5. <<>> \in Seq(T)
  OBVIOUS
<1>6. \A c \in 0..W : c = 0 \/ c \in 1..W
  BY <1>1
<1> QED
  BY <1>1, <1>3, <1>4, <1>5, <1>6

\* The arguments that pointers stand for.
Texts(a) == [n \in 1..Len(a) |-> Text(a[n])]

LEMMA TextsAppend ==
  ASSUME NEW a \in Seq(Nat), NEW p \in Nat
  PROVE  Texts(Append(a, p)) = Append(Texts(a), Text(p))
<1>0. PICK n : n = Len(a) /\ n \in Nat
  OBVIOUS
<1>1. PICK b : b = Append(a, p) /\ n = Len(a) /\ n \in Nat
  BY <1>0
<1>2. Len(b) = n + 1 /\ b[n + 1] = p /\ \A i \in 1..n : b[i] = a[i]
  BY <1>1
<1>3. PICK t, u : t = Texts(a) /\ u = Texts(b)
  OBVIOUS
<1>4. t = [i \in 1..n |-> Text(a[i])] /\ u = [i \in 1..n + 1 |-> Text(b[i])]
  BY <1>1, <1>2, <1>3 DEF Texts
<1>5. Append(t, Text(p)) = [i \in 1..n + 1 |-> IF i = n + 1 THEN Text(p) ELSE t[i]]
  BY <1>1, <1>4
<1>6. \A i \in 1..n + 1 : i # n + 1 => i \in 1..n
  BY <1>1
<1>7. \A i \in 1..n + 1 : Text(b[i]) = IF i = n + 1 THEN Text(p) ELSE t[i]
  BY <1>2, <1>4, <1>6
<1>8. u = Append(t, Text(p))
  BY <1>4, <1>5, <1>7
<1> QED
  BY <1>1, <1>3, <1>8

-----------------------------------------------------------------------------
(***************************************************************************)
(* The invariant of the loop.                                              *)
(***************************************************************************)
\* Place k is the second quote of a word: argv has got the word once already.
ClosedOnce(k) == WordStart(Begins(k)) < k /\ line[k] = Quote

\* What the state is after k characters.  Between words argv has what the words up to
\* there give; in a word it has what those before it give, and the word itself once
\* when its second quote is read.
Reads(st, k) ==
  /\ st \in LoopStates
  /\ st.quoted <=> Quoted(k)
  /\ st.nuls = Nuls(k)
  /\ k \notin Parts => st.start = 0 /\ Texts(st.argv) = Given(Begins(k))
  /\ k \in Parts =>
       /\ st.start = ArgStart(Begins(k))
       /\ Texts(st.argv) = IF ClosedOnce(k)
                             THEN Append(Given(Begins(k) - 1), Text(ArgStart(Begins(k))))
                             ELSE Given(Begins(k) - 1)

\* At the end of a word its pointer is the one that argv has not got yet.
LEMMA WordCloses ==
  ASSUME line \in Seq(Chars), WellQuoted, NEW k \in Parts, k = WordEnd(Begins(k)),
         NEW st, Reads(st, k)
  PROVE  st.start # 0 /\ Texts(Append(st.argv, st.start)) = Given(Begins(k))
<1>1. PICK n, p, e, x : n = Begins(k) /\ p = WordStart(n) /\ e = WordEnd(n) /\ x = ArgStart(n)
  OBVIOUS
<1>2. n \in 1..Len(Words) /\ Len(Words) \in Nat
  BY <1>1, WordOfPlace, WordsAre DEF InWord
<1>3. p \in Int /\ e \in Int /\ 1 <= p /\ p <= e /\ k = e
  <2>1. p \in 1..Len(line) /\ e \in p..Len(line) /\ Len(line) \in Nat
    BY <1>1, <1>2, WordsAre
  <2> QED
    BY <1>1, <2>1
<1>4. x = (IF line[p] = Quote THEN p + 1 ELSE p) /\ x \in Nat /\ x # 0
  <2>1. x = IF line[p] = Quote THEN p + 1 ELSE p
    BY <1>1 DEF ArgStart
  <2> QED
    BY <1>3, <2>1
<1>5. st.start = x /\ st.argv \in Seq(Nat)
  BY <1>1 DEF Reads, LoopStates
<1>6. Texts(Append(st.argv, x)) = Append(Texts(st.argv), Text(x))
  BY <1>4, <1>5, TextsAppend
<1>7. PICK t, T, G : t = Text(x) /\ T = Seq(Chars) /\ G = Given(n - 1)
  OBVIOUS
<1>8. t \in T /\ G \in Seq(T) /\ Given(n) = G \o Piece(n)
  <2>1. n - 1 \in 0..Len(Words)
    BY <1>2
  <2> QED
    BY <1>1, <1>2, <1>7, <2>1, ArgText, GivenIs
<1>9. Plain(p, e) \/ InTwo(p, e)
  BY <1>1, <1>2, WordQuotes
<1>10. CASE line[p] = Quote
  <2>1. InTwo(p, e)
    <3>1. p \in p..e
      BY <1>3
    <3> QED
      BY <1>9, <1>10, <3>1 DEF Plain
  <2>2. ClosedOnce(k)
    BY <1>1, <1>3, <2>1 DEF InTwo, ClosedOnce
  <2>3. Texts(st.argv) = Append(G, t)
    BY <1>1, <1>7, <2>2 DEF Reads
  <2>4. Piece(n) = <<t, t>>
    BY <1>1, <1>2, <1>7, <1>10, ArgText
  <2>5. Append(Append(G, t), t) = G \o <<t, t>>
    BY ONLY <1>8
  <2> QED
    BY <1>1, <1>4, <1>5, <1>6, <1>7, <1>8, <2>3, <2>4, <2>5
<1>11. CASE line[p] # Quote
  <2>1. ~ClosedOnce(k)
    <3>1. Plain(p, e) /\ k \in p..e
      BY <1>3, <1>9, <1>11 DEF InTwo
    <3> QED
      BY <3>1 DEF Plain, ClosedOnce
  <2>2. Texts(st.argv) = G
    BY <1>1, <1>7, <2>1 DEF Reads
  <2>3. Piece(n) = <<t>>
    BY <1>1, <1>2, <1>7, <1>11, ArgText
  <2>4. Append(G, t) = G \o <<t>>
    BY ONLY <1>8
  <2> QED
    BY <1>1, <1>4, <1>5, <1>6, <1>7, <1>8, <2>2, <2>3, <2>4
<1> QED
  BY <1>10, <1>11

LEMMA NulsStep ==
  ASSUME NEW k \in Nat, k >= 1
  PROVE  /\ Nuls(0) = {}
         /\ ~Quoted(k) /\ line[k] \in Blanks \cup {Quote} => Nuls(k) = Nuls(k - 1) \cup {k}
         /\ Quoted(k) \/ line[k] \notin Blanks \cup {Quote} => Nuls(k) = Nuls(k - 1)
<1>1. \A m : m \in 1..k <=> m \in 1..k - 1 \/ m = k
  OBVIOUS
<1>2. Nuls(0) = {}
  <2>1. \A m : m \notin 1..0
    OBVIOUS
  <2> QED
    BY <2>1 DEF Nuls
<1>3. \A m : m \in Nuls(k) <=> m \in Nuls(k - 1)
                               \/ (m = k /\ ~Quoted(k) /\ line[k] \in Blanks \cup {Quote})
  BY <1>1 DEF Nuls
<1> QED
  BY <1>2, <1>3

LEMMA BegunReads ==
  ASSUME line \in Seq(Chars), WellQuoted
  PROVE  Reads(Begun, 0)
<1>1. /\ Begun \in LoopStates /\ ~Begun.quoted /\ Begun.nuls = {} /\ Begun.start = 0
      /\ Begun.argv = <<>>
  BY DEF Begun, LoopStates, NoArg
<1>2. Texts(<<>>) = <<>>
  <2>1. Len(<<>>) = 0
    OBVIOUS
  <2>2. Texts(<<>>) = [n \in 1..0 |-> Text(<<>>[n])]
    BY <2>1 DEF Texts
  <2> QED
    BY <2>2
<1>3. ~Quoted(0) /\ Nuls(0) = {}
  <2>1. 1 \in Nat /\ 1 >= 1
    OBVIOUS
  <2> QED
    BY <2>1, QuotedStep, NulsStep
<1>4. 0 \notin Parts /\ Begins(0) = 0
  <2>1. PICK S : S = PartStarts /\ S \subseteq 1..Len(line) /\ Len(line) \in Nat
    BY WordEnds
  <2>2. Rank(S, 0) = 0
    BY <2>1, RankOf
  <2> QED
    BY <2>1, <2>2, WordEnds DEF Begins
<1>5. Given(0) = <<>>
  BY GivenIs
<1> QED
  BY <1>1, <1>2, <1>3, <1>4, <1>5 DEF Reads

\* The word of a place: the loop is at its first character or behind it.
LEMMA FirstOfWord ==
  ASSUME line \in Seq(Chars), WellQuoted, NEW k \in 1..Len(line), k \in Parts
  PROVE  /\ line[k] = Quote => k = WordStart(Begins(k)) \/ k = WordEnd(Begins(k))
         /\ line[k] = Quote => line[WordStart(Begins(k))] = Quote
         /\ line[k] = Quote =>
              (k = WordStart(Begins(k)) <=> k # WordEnd(Begins(k)))
         /\ k = WordStart(Begins(k)) <=> k - 1 \notin Parts
         /\ WordStart(Begins(k)) <= k /\ WordStart(Begins(k)) \in Int
         /\ Begins(k) \in 1..Len(Words) /\ Len(Words) \in Nat
<1>1. PICK n, p, e : n = Begins(k) /\ p = WordStart(n) /\ e = WordEnd(n)
  OBVIOUS
<1>2. /\ n \in 1..Len(Words) /\ Len(Words) \in Nat /\ p <= k /\ p..k \subseteq Parts /\ k <= e
  BY <1>1, WordOfPlace, WordsAre, WordGoesOn DEF InWord
<1>3. p \in PartStarts /\ p \in Int /\ e \in Int /\ k \in Int
  <2>1. p \in PartStarts /\ p \in 1..Len(line) /\ e \in p..Len(line) /\ Len(line) \in Nat
    BY <1>1, <1>2, WordsAre
  <2> QED
    BY <2>1
<1>4. p = k => k - 1 \notin Parts
  BY <1>3 DEF PartStarts
<1>5. k - 1 \notin Parts => p = k
  <2>1. p # k => k - 1 \in p..k
    BY <1>2, <1>3
  <2> QED
    BY <1>2, <2>1
<1>6. k \in p..e /\ p \in p..e
  BY <1>2, <1>3
<1>7. ASSUME line[k] = Quote PROVE (k = p \/ k = e) /\ line[p] = Quote /\ p # e
  <2>1. InTwo(p, e)
    BY <1>1, <1>2, <1>6, <1>7, WordQuotes DEF Plain
  <2> QED
    BY <1>3, <1>6, <1>7, <2>1 DEF InTwo
<1> QED
  BY <1>1, <1>2, <1>3, <1>4, <1>5, <1>7

\* One more character.
LEMMA ReadsStep ==
  ASSUME line \in Seq(Chars), WellQuoted, NEW k \in 1..Len(line),
         NEW st, Reads(st, k - 1), NEW new, new = OnChar(st, line, k)
  PROVE  Reads(new, k)
<1>1. k \in Nat /\ k >= 1 /\ k \in DOMAIN line
  OBVIOUS
<1>2. /\ st \in LoopStates /\ (st.quoted <=> Quoted(k - 1)) /\ st.nuls = Nuls(k - 1)
      /\ st.start \in Nat /\ st.argv \in Seq(Nat)
  BY DEF Reads, LoopStates
<1>3. /\ line[k] = Quote => (Quoted(k) <=> ~Quoted(k - 1))
      /\ line[k] # Quote => (Quoted(k) <=> Quoted(k - 1))
  BY <1>1, QuotedStep
<1>4. k \in Parts <=> (line[k] \in Blanks => Quoted(k))
  BY <1>1 DEF Parts
<1>5. Quote \notin Blanks
  BY DEF Quote, Blanks
<1>6. new \in LoopStates /\ Does(st, new, line[k], k)
  BY <1>1, <1>2, CharDoes
<1>7. new.quoted <=> Quoted(k)
  BY <1>2, <1>3, <1>6 DEF Does
<1>8. new.nuls = Nuls(k)
  <2>1. /\ ~Quoted(k) /\ line[k] \in Blanks \cup {Quote} => Nuls(k) = Nuls(k - 1) \cup {k}
        /\ Quoted(k) \/ line[k] \notin Blanks \cup {Quote} => Nuls(k) = Nuls(k - 1)
    BY <1>1, NulsStep
  <2>2. CASE line[k] = Quote
    BY <1>2, <1>3, <1>6, <2>1, <2>2 DEF Does
  <2>3. CASE line[k] # Quote
    BY <1>2, <1>3, <1>6, <2>1, <2>3 DEF Does
  <2> QED
    BY <2>2, <2>3
<1>9. ASSUME k \notin Parts
      PROVE  new.start = 0 /\ Texts(new.argv) = Given(Begins(k))
  <2>1. line[k] \in Blanks /\ line[k] # Quote /\ ~Quoted(k) /\ ~st.quoted
    BY <1>2, <1>3, <1>4, <1>5, <1>9
  <2>2. /\ new.start = 0
        /\ st.start = 0 => new.argv = st.argv
        /\ st.start # 0 => new.argv = Append(st.argv, st.start)
    BY <1>6, <2>1 DEF Does
  <2>3. Begins(k) = Begins(k - 1)
    BY <1>9, PlaceStep
  <2>4. CASE k - 1 \notin Parts
    BY <2>2, <2>3, <2>4 DEF Reads
  <2>5. CASE k - 1 \in Parts
    <3>1. (k - 1) + 1 = k
      BY <1>1
    <3>2. k - 1 = WordEnd(Begins(k - 1))
      BY <1>9, <2>5, <3>1, WordGoesOn
    <3>3. st.start # 0 /\ Texts(Append(st.argv, st.start)) = Given(Begins(k - 1))
      BY <2>5, <3>2, WordCloses
    <3> QED
      BY <2>2, <2>3, <3>3
  <2> QED
    BY <2>4, <2>5
<1>10. ASSUME k \in Parts
       PROVE  /\ new.start = ArgStart(Begins(k))
              /\ Texts(new.argv) = IF ClosedOnce(k)
                   THEN Append(Given(Begins(k) - 1), Text(ArgStart(Begins(k))))
                   ELSE Given(Begins(k) - 1)
  <2>1. PICK n, p, e, x : n = Begins(k) /\ p = WordStart(n) /\ e = WordEnd(n) /\ x = ArgStart(n)
    OBVIOUS
  <2>2. /\ line[k] = Quote => k = p \/ k = e
        /\ line[k] = Quote => line[p] = Quote /\ (k = p <=> k # e)
        /\ k = p <=> k - 1 \notin Parts
        /\ p <= k /\ p \in Int /\ n \in 1..Len(Words) /\ Len(Words) \in Nat
    BY <1>10, <2>1, FirstOfWord
  <2>3. x = IF line[p] = Quote THEN p + 1 ELSE p
    BY <2>1 DEF ArgStart
  <2>4. ClosedOnce(k) <=> p < k /\ line[k] = Quote
    BY <2>1 DEF ClosedOnce
  <2>5. line[k] # Quote => ~(line[k] \in Blanks /\ ~st.quoted)
    BY <1>2, <1>3, <1>4, <1>10
  <2>6. CASE k = p
    <3>1. k - 1 \notin Parts /\ n = Begins(k - 1) + 1
      BY <1>10, <2>1, <2>2, <2>6, PlaceStep
    <3>2. st.start = 0 /\ Texts(st.argv) = Given(n - 1)
      <4>1. Begins(k - 1) = n - 1
        <5>1. Begins(k - 1) \in 0..Len(Words)
          BY PlaceStep
        <5> QED
          BY <2>2, <3>1, <5>1
      <4> QED
        BY <3>1, <4>1 DEF Reads
    <3>3. ~ClosedOnce(k)
      BY <1>1, <2>4, <2>6
    <3>4. line[k] = Quote => ~st.quoted
      <4>1. Quoted(k) <=> line[p] = Quote /\ k # e
        BY <1>10, <2>1, QuotedPlaces
      <4> QED
        BY <1>2, <1>3, <2>2, <2>6, <4>1
    <3>5. new.argv = st.argv /\ new.start = x
      <4>1. CASE line[k] = Quote
        BY <1>6, <2>3, <2>6, <3>4, <4>1 DEF Does
      <4>2. CASE line[k] # Quote
        BY <1>6, <2>3, <2>5, <2>6, <3>2, <4>2 DEF Does
      <4> QED
        BY <4>1, <4>2
    <3> QED
      BY <2>1, <3>2, <3>3, <3>5
  <2>7. CASE k # p
    <3>1. k - 1 \in Parts /\ Begins(k - 1) = n
      BY <1>10, <2>1, <2>2, <2>7, PlaceStep
    <3>2. st.start = x /\ x # 0 /\ x \in Nat
      <4>1. st.start = x
        BY <2>1, <3>1 DEF Reads
      <4>2. p \in 1..Len(line)
        BY <2>1, <2>2, WordsAre
      <4> QED
        BY <2>3, <4>1, <4>2
    <3>3. ~ClosedOnce(k - 1)
      <4>1. k - 1 # e
        <5>1. (k - 1) + 1 = k
          BY <1>1
        <5> QED
          BY <1>10, <2>1, <3>1, <5>1, WordGoesOn
      <4>2. line[k - 1] = Quote => k - 1 = p
        <5>1. k - 1 \in 1..Len(line)
          BY <3>1, WordEnds
        <5>2. line[k - 1] = Quote => k - 1 = p \/ k - 1 = e
          BY <2>1, <3>1, <5>1, FirstOfWord
        <5> QED
          BY <4>1, <5>2
      <4>3. ~(k - 1 < k - 1)
        BY <1>1
      <4> QED
        BY <2>1, <3>1, <4>2, <4>3 DEF ClosedOnce
    <3>4. Texts(st.argv) = Given(n - 1)
      BY <3>1, <3>3 DEF Reads
    <3>5. CASE line[k] = Quote
      <4>1. ClosedOnce(k) /\ k = e
        BY <1>1, <2>2, <2>4, <2>7, <3>5
      <4>2. st.quoted
        <5>1. ~Quoted(k)
          BY <1>10, <2>1, <4>1, QuotedPlaces
        <5> QED
          BY <1>2, <1>3, <3>5, <5>1
      <4>3. new.start = x /\ new.argv = Append(st.argv, x)
        BY <1>6, <3>2, <3>5, <4>2 DEF Does
      <4>4. Texts(new.argv) = Append(Given(n - 1), Text(x))
        BY <1>2, <3>2, <3>4, <4>3, TextsAppend
      <4> QED
        BY <2>1, <4>1, <4>3, <4>4
    <3>6. CASE line[k] # Quote
      <4>1. new.start = x /\ new.argv = st.argv
        BY <1>6, <2>5, <3>2, <3>6 DEF Does
      <4> QED
        BY <2>1, <2>4, <3>4, <3>6, <4>1
    <3> QED
      BY <3>5, <3>6
  <2> QED
    BY <2>6, <2>7
<1> QED
  BY <1>6, <1>7, <1>8, <1>9, <1>10 DEF Reads

\* The invariant holds from the first character to the last.
LEMMA LoopReads ==
  ASSUME line \in Seq(Chars), WellQuoted
  PROVE  \A k \in 0..Len(line) : Reads(Loop(line)[k], k)
<1> DEFINE D == {k \in 0..Len(line) : ~Reads(Loop(line)[k], k)}
<1>1. SUFFICES ASSUME D # {} PROVE FALSE
  OBVIOUS
<1>2. Len(line) \in Nat
  OBVIOUS
<1>3. PICK k \in D : \A j \in D : k <= j
  <2>1. D \subseteq Nat
    BY <1>2
  <2> HIDE DEF D
  <2> QED
    BY <1>1, <2>1, LeastNumber
<1>4. k \in 0..Len(line) /\ ~Reads(Loop(line)[k], k)
  OBVIOUS
<1>5. k # 0
  BY <1>2, <1>4, LoopIs, BegunReads
<1>6. k \in 1..Len(line) /\ k - 1 \in 0..Len(line) /\ ~(k <= k - 1)
  BY <1>2, <1>4, <1>5
<1>7. Reads(Loop(line)[k - 1], k - 1)
  BY <1>3, <1>6
<1>8. Loop(line)[k] = OnChar(Loop(line)[k - 1], line, k)
  BY <1>2, <1>6, LoopIs
<1>9. Reads(Loop(line)[k], k)
  BY <1>6, <1>7, <1>8, ReadsStep
<1> QED
  BY <1>4, <1>9

\* The arguments that the loop leaves are what the words give.
LEMMA P2Keeps ==
  ASSUME line \in Seq(Chars), WellQuoted
  PROVE  Found(line) = Given(Len(Words))
<1>1. Len(Words) \in Nat /\ DOMAIN Words = 1..Len(Words) /\ Len(line) \in Nat
  BY WordsAre
<1>2. PICK N, W : N = Len(line) /\ W = Len(Words) /\ N \in Nat /\ W \in Nat
                  /\ DOMAIN Words = 1..W
  BY <1>1
<1>3. PICK st : st = Loop(line)[N]
  OBVIOUS
<1>4. Reads(st, N) /\ st.argv \in Seq(Nat) /\ st.start \in Nat /\ st.nuls = Nuls(N)
  <2>1. N \in 0..Len(line)
    BY <1>2
  <2>2. Reads(st, N)
    BY <1>2, <1>3, <2>1, LoopReads
  <2> QED
    BY <2>2 DEF Reads, LoopStates
<1>5. PICK argv : argv = IF st.start = NoArg THEN st.argv ELSE Append(st.argv, st.start)
  OBVIOUS
<1>6. argv \in Seq(Nat)
  BY <1>4, <1>5
<1>7. Found(line) = Texts(argv)
  <2>1. DOMAIN argv = 1..Len(argv)
    BY <1>6
  <2>2. Found(line) = [n \in DOMAIN argv |-> SubSeq(line, argv[n], Stop(line, st.nuls, argv[n]) - 1)]
    BY <1>2, <1>3, <1>5 DEF Found
  <2> QED
    BY <1>2, <1>4, <2>1, <2>2 DEF Texts, Text
<1>8. Begins(N) = W
  <2>1. PICK S : S = PartStarts /\ S \subseteq 1..N
    BY <1>2, WordEnds
  <2>2. Rank(S, N) = Cardinality(S)
    <3>1. N \in Int /\ N >= N
      BY <1>2
    <3> QED
      BY <1>2, <2>1, <3>1, RankOf
  <2> QED
    BY <1>2, <2>1, <2>2, WordsAre DEF Begins
<1>9. Texts(argv) = Given(W)
  <2>1. CASE N \notin Parts
    BY <1>4, <1>5, <1>8, <2>1 DEF Reads, NoArg
  <2>2. CASE N \in Parts
    <3>1. N + 1 \notin Parts
      <4>1. \A m \in Parts : m <= N
        BY <1>2, WordEnds
      <4>2. ~(N + 1 <= N)
        BY <1>2
      <4> QED
        BY <4>1, <4>2
    <3>2. N = WordEnd(Begins(N))
      BY <2>2, <3>1, WordGoesOn
    <3>3. st.start # 0 /\ Texts(Append(st.argv, st.start)) = Given(Begins(N))
      BY <1>4, <2>2, <3>2, WordCloses
    <3> QED
      BY <1>5, <1>8, <3>3 DEF NoArg
  <2> QED
    BY <2>1, <2>2
<1> QED
  BY <1>2, <1>7, <1>9

\* What the parser returns when argv has room for the arguments, and when it has not.
LEMMA P2Returns ==
  ASSUME NEW T, NEW s, NEW args \in Seq(T), Found(s) = args
  PROVE  /\ Len(args) < Argv2Max => ShellP2(s).cmds = Filled(args)
         /\ ~(Len(args) < Argv2Max) => ShellP2(s).rc = "overrun"
<1>1. PICK m, l : m = Argv2Max /\ l = Len(args) /\ m \in Nat /\ m # 0 /\ l \in Nat
  BY BoundsAssumption
<1>2. args = <<>> => l = 0
  BY <1>1
<1>3. (l >= m <=> ~(l < m)) /\ (args = <<>> => l < m)
  BY ONLY <1>1, <1>2
<1>4. ShellP2(s) = CASE args = <<>> -> [rc |-> "WARN_NO_CMDS", cmds |-> <<>>]
                     [] l >= m      -> [rc |-> "overrun", cmds |-> <<>>]
                     [] OTHER       -> [rc |-> "OK", cmds |-> <<args>>]
  BY <1>1 DEF ShellP2
<1>5. CASE args = <<>>
  <2>1. ShellP2(s) = [rc |-> "WARN_NO_CMDS", cmds |-> <<>>]
    BY ONLY <1>3, <1>4, <1>5
  <2> QED
    BY <1>1, <1>3, <1>5, <2>1 DEF Filled
<1>6. CASE args # <<>> /\ l < m
  <2>1. ShellP2(s) = [rc |-> "OK", cmds |-> <<args>>]
    BY ONLY <1>3, <1>4, <1>6
  <2> QED
    BY <1>1, <1>6, <2>1 DEF Filled
<1>7. CASE ~(l < m)
  <2>1. ShellP2(s) = [rc |-> "overrun", cmds |-> <<>>]
    BY ONLY <1>3, <1>4, <1>7
  <2> QED
    BY <1>1, <1>7, <2>1
<1> QED
  BY <1>5, <1>6, <1>7

\* build_cmd_buff() of ShellP2 loses no word of a line whose quotes are those of whole
\* words and changes no order while argv has room: it has every word once, and one in
\* quotes twice.
THEOREM QuotesKeepWords == Spec => []P2KeepsWords
<1>1. line \in Seq(Chars) => P2KeepsWords
  <2> SUFFICES ASSUME line \in Seq(Chars), WellQuoted
               PROVE  IF Len(Twice) < Argv2Max THEN ShellP2(line).cmds = Filled(Twice)
                                               ELSE ShellP2(line).rc = "overrun"
    BY DEF P2KeepsWords
  <2>1. DOMAIN Words = 1..Len(Words) /\ Len(Words) \in Nat
    BY WordsAre
  <2>2. Twice = Given(Len(Words))
    BY <2>1 DEF Twice, Given, Piece
  <2>3. Twice \in Seq(Seq(Chars))
    <3>1. Len(Words) \in 0..Len(Words)
      BY <2>1
    <3> QED
      BY <2>2, <3>1, GivenIs
  <2>4. Found(line) = Twice
    BY <2>2, P2Keeps
  <2> QED
    BY ONLY <2>3, <2>4, P2Returns
<1> QED
  BY <1>1, LineTyped, PTL

-----------------------------------------------------------------------------
(***************************************************************************)
(* Lines without quotes, pipes and tabs.                                   *)
(***************************************************************************)
\* In a line with neither quotes nor tabs the words are what strtok() finds between
\* spaces.
LEMMA BareWords ==
  ASSUME line \in Seq(Chars), ~Has({Quote, Pipe, "\t"})
  PROVE  Words = Tokens(line, {" "})
<1>0. PICK N : N = Len(line) /\ N \in Nat /\ DOMAIN line = 1..N
  OBVIOUS
<1>1. PICK seps : N = Len(line) /\ N \in Nat /\ DOMAIN line = 1..N /\ seps = {" "}
  BY <1>0
<1>2. \A k \in 1..N : line[k] # Quote /\ (line[k] \in Blanks <=> line[k] \in seps)
  <2>1. \A k \in 1..N : line[k] # Quote /\ line[k] # "\t"
    BY <1>1 DEF Has
  <2>2. \A c : c # "\t" => (c \in Blanks <=> c \in seps)
    BY <1>1 DEF Blanks
  <2> QED
    BY ONLY <2>1, <2>2
<1>3. \A k \in 1..N : ~Quoted(k)
  <2> TAKE k \in 1..N
  <2>1. {m \in 1..k : line[m] = Quote} = {}
    <3>1. \A m \in 1..k : m \in 1..N
      BY <1>0
    <3> QED
      BY <1>2, <3>1
  <2>2. Cardinality({m \in 1..k : line[m] = Quote}) = 0
    BY <2>1, FS_EmptySet
  <2> QED
    BY <2>2 DEF Quoted
<1>4. \A k : Inside(line, seps, k) <=> k \in Parts
  BY <1>1, <1>2, <1>3 DEF Inside, Parts
<1>5. PICK S : S = PartStarts /\ S = Starts(line, seps)
  <2>1. Parts \subseteq DOMAIN line
    BY DEF Parts
  <2> QED
    BY <1>4, <2>1 DEF PartStarts, Starts
<1>6. ASSUME NEW k \in S PROVE PartEnd(k) = EndOf(line, seps, k)
  <2>1. PICK e : /\ e = PartEnd(k) /\ k \in 1..N /\ e \in k..N
                 /\ k..e \subseteq Parts /\ e + 1 \notin Parts
    BY <1>1, <1>5, WordEnds
  <2>2. (\A m \in k..e : Inside(line, seps, m)) /\ ~Inside(line, seps, e + 1)
    BY <1>4, <2>1
  <2>3. k \in Nat /\ e \in k..Len(line)
    BY <1>0, <2>1
  <2>4. EndOf(line, seps, k) = e
    BY <2>2, <2>3, EndOfIs
  <2> QED
    BY <2>1, <2>4
<1>7. [k \in S |-> SubSeq(line, k, PartEnd(k))]
        = [k \in S |-> SubSeq(line, k, EndOf(line, seps, k))]
  BY <1>6
<1> QED
  BY <1>1, <1>5, <1>7 DEF Words, Tokens

\* A word has a first character, and characters of U only.
Written(U, w) == w \in Seq(U) /\ 1 \in DOMAIN w /\ \A k \in DOMAIN w : w[k] \in U

LEMMA WordsWritten ==
  ASSUME NEW U, NEW ws \in Seq(Seq(U) \ {<<>>})
  PROVE  \E W : /\ W = Len(ws) /\ W \in Nat /\ ws = [n \in 1..W |-> ws[n]]
               /\ \A n \in 1..W : Written(U, ws[n])
<1>1. Len(ws) \in Nat /\ ws = [n \in 1..Len(ws) |-> ws[n]]
  OBVIOUS
<1>2. ASSUME NEW n \in 1..Len(ws) PROVE Written(U, ws[n])
  <2>1. PICK w : w = ws[n] /\ w \in Seq(U) /\ w # <<>>
    OBVIOUS
  <2>2. 1 \in DOMAIN w /\ \A k \in DOMAIN w : w[k] \in U
    BY <2>1
  <2> QED
    BY <2>1, <2>2 DEF Written
<1> QED
  BY <1>1, <1>2

\* argv gets each of them once.
LEMMA BareArgs ==
  ASSUME line \in Seq(Chars), ~Has({Quote, Pipe, "\t"})
  PROVE  Found(line) = Tokens(line, {" "})
<1>1. PICK T, U, ws : T = Chars \ {Quote} /\ U = T \ {" "} /\ ws = Tokens(line, {" "})
  OBVIOUS
<1>2. line \in Seq(T)
  <2>1. \A k \in 1..Len(line) : line[k] \in Chars /\ line[k] # Quote
    BY DEF Has
  <2>2. \A k \in 1..Len(line) : line[k] \in T
    BY <1>1, <2>1
  <2> QED
    BY <2>2
<1>3. PICK W : /\ W = Len(ws) /\ W \in Nat /\ ws = [n \in 1..W |-> ws[n]]
               /\ \A n \in 1..W : Written(U, ws[n])
  <2>1. ws \in Seq(Seq(U) \ {<<>>})
    BY <1>1, <1>2, TokensAre
  <2> QED
    BY ONLY <2>1, WordsWritten
<1>4. Words = ws /\ Len(Words) = W /\ DOMAIN Words = 1..W
  <2>1. Words = ws
    BY <1>1, BareWords
  <2> QED
    BY <1>3, <2>1, WordsAre
<1>5. \A n \in 1..W : \A k \in DOMAIN ws[n] : ws[n][k] # Quote
  <2>1. \A c \in U : c # Quote
    BY <1>1
  <2> QED
    BY <1>3, <2>1 DEF Written
<1>6. WellQuoted
  <2>1. \A n \in DOMAIN Words : {k \in DOMAIN Words[n] : Words[n][k] = Quote} = {}
    BY <1>4, <1>5
  <2> QED
    BY <2>1 DEF WellQuoted
<1>7. \A n \in 1..W : Piece(n) = <<ws[n]>>
  <2> TAKE n \in 1..W
  <2>1. ws[n][1] # Quote
    BY <1>3, <1>5 DEF Written
  <2> QED
    BY <1>4, <2>1 DEF Piece, InQuotes
<1>8. W \in Nat
  BY <1>3
<1> DEFINE D == {c \in 0..W : Given(c) # [n \in 1..c |-> ws[n]]}
<1>9. D = {}
  <2>1. SUFFICES ASSUME D # {} PROVE FALSE
    OBVIOUS
  <2>2. PICK c \in D : \A d \in D : c <= d
    <3>1. D \subseteq Nat
      BY <1>8
    <3> HIDE DEF D
    <3> QED
      BY <2>1, <3>1, LeastNumber
  <2>3. c \in 0..W /\ Given(c) # [n \in 1..c |-> ws[n]] /\ c \in Int
    BY <1>8
  <2>4. c # 0
    <3>1. Given(0) = <<>>
      BY <1>6, GivenIs
    <3>2. [n \in 1..0 |-> ws[n]] = <<>>
      OBVIOUS
    <3> QED
      BY <2>3, <3>1, <3>2
  <2>5. c \in 1..W /\ c - 1 \in 0..W /\ c - 1 \in Nat /\ ~(c <= c - 1)
    BY <1>8, <2>3, <2>4
  <2>6. Given(c - 1) = [n \in 1..c - 1 |-> ws[n]]
    BY <2>2, <2>5
  <2> HIDE DEF D
  <2>7. Given(c) = Given(c - 1) \o <<ws[c]>>
    BY <1>4, <1>6, <1>7, <2>5, GivenIs
  <2>8. PICK g, x, d : g = Given(c - 1) /\ x = ws[c] /\ d = c - 1
    OBVIOUS
  <2>9. d \in Nat /\ c = d + 1 /\ g = [n \in 1..d |-> ws[n]]
    BY <2>3, <2>5, <2>6, <2>8
  <2>10. g \o <<x>> = [n \in 1..d + 1 |-> IF n = d + 1 THEN x ELSE g[n]]
    <3>1. g \in Seq({ws[n] : n \in 1..d}) /\ Len(g) = d
      BY ONLY <2>9
    <3> QED
      BY ONLY <2>9, <3>1
  <2>11. \A n \in 1..d + 1 : ws[n] = IF n = d + 1 THEN x ELSE g[n]
    <3> TAKE n \in 1..d + 1
    <3>1. n # d + 1 => n \in 1..d
      BY ONLY <2>9
    <3> QED
      BY <2>8, <2>9, <3>1
  <2>12. g \o <<x>> = [n \in 1..c |-> ws[n]]
    BY <2>9, <2>10, <2>11
  <2> QED
    BY <2>3, <2>7, <2>8, <2>12
<1>10. Given(W) = [n \in 1..W |-> ws[n]]
  <2>1. W \in 0..W
    BY <1>3
  <2> QED
    BY <1>9, <2>1
<1>11. [n \in 1..W |-> ws[n]] = ws
  BY <1>3, Zenon
<1>12. Found(line) = Given(W)
  BY <1>4, <1>6, P2Keeps
<1> QED
  BY <1>1, <1>10, <1>11, <1>12

\* ShellP2 and ShellP3, that have neither a loop nor a library function in common here,
\* make the same arguments of every line without quotes, pipes and tabs that ShellP3
\* accepts and argv of ShellP2 has room for.
THEOREM BareLinesAgree == Spec => []P2AgreesWithP3
<1>1. line \in Seq(Chars) => P2AgreesWithP3
  <2> SUFFICES ASSUME line \in Seq(Chars), ShellP3(line).rc = "OK", ~Has({Quote, Pipe, "\t"}),
                      Len(ShellP3(line).cmds[1]) < Argv2Max
               PROVE  ShellP2(line).cmds = Filled(ShellP3(line).cmds[1])
    BY DEF P2AgreesWithP3
  <2>1. Accepted3(line)
    BY DEF Accepted3
  <2>2. ~Piped(line)
    <3>1. \A k \in 1..Len(line) : line[k] # Pipe
      BY DEF Has
    <3> QED
      BY <3>1 DEF Piped, Contains
  <2>3. ~BadArgs(line) /\ ShellP3(line).cmds = <<Argv(line)>>
    BY <2>1, <2>2, P3Unpiped
  <2>4. PICK ws : ws = Tokens(line, {" "}) /\ ws \in Seq(Seq(Chars))
    BY TokensOf
  <2>5. Argv(line) = ws /\ ShellP3(line).cmds[1] = ws
    <3>1. Argv(line) = ws
      BY <2>3, <2>4, ArgvAll
    <3>2. <<ws>>[1] = ws
      OBVIOUS
    <3> QED
      BY <2>3, <3>1, <3>2
  <2>6. Found(line) = ws
    BY <2>4, BareArgs
  <2>7. Len(ws) < Argv2Max
    BY <2>5
  <2> QED
    BY ONLY <2>4, <2>5, <2>6, <2>7, P2Returns
<1> QED
  BY <1>1, LineTyped, PTL
=============================================================================
