-------------------------- MODULE StringFun_proofs --------------------------
(***************************************************************************)
(* Proofs about StringFun, for every alphabet, every BUFFER_SZ and every   *)
(* length of the arguments.                                                *)
(***************************************************************************)
EXTENDS StringFun, FiniteSetTheorems, FunctionTheorems, SequenceTheorems, TLAPS

\* A character as setup_buff() stores it.
Plain(c) == IF c \in Blanks THEN " " ELSE c

\* Words that the loop has met, the number of a word, and how much of it is seen.
Counted    == {k \in WordStarts : Upto(k) < ptr}
Rank(s)    == Cardinality({k \in WordStarts : k <= s})
Reached(s) == {k \in WordAt(s) : Upto(k) < ptr}

Operations == {"count", "reverse", "words", "replace"}

\* Where the program is, and what it has read by then.
Phase ==
  /\ pc # "exit" => status = 0
  /\ pc \in Operations =>
       /\ src = Len(input) + 1 /\ len = Cardinality(Kept) /\ ptr <= len + 1
       /\ opt # "z" /\ pc = Loop[opt]
  /\ pc = "exit" /\ status = 0 => src = Len(input) + 1 /\ len = Cardinality(Kept)

\* setup_buff(): what is kept of the input so far is in the buffer.
Collapsing ==
  pc = "setup" =>
    /\ ptr = 1 /\ words = <<>>
    /\ len = Upto(src - 1)
    /\ flag <=> (src > 1 /\ input[src - 1] \in Blanks)
    /\ \A k \in Kept : k < src => buff[Upto(k)] = Plain(input[k])

\* count_words() and print_words(): words has the words met so far.
CountingWords ==
  pc \in {"count", "words"} =>
    /\ Len(words) = Cardinality(Counted)
    /\ flag <=> (ptr > 1 /\ IsWordChar(Text(ptr - 1)))
    /\ \A n \in DOMAIN words : words[n] < ptr

\* print_words(): each with as many characters as were seen; inside a word, the
\* last entry is that word's.
MeasuringWords ==
  pc = "words" =>
    /\ \A s \in Counted : words[Rank(s)] = Cardinality(Reached(s))
    /\ flag => \E s \in Counted : /\ Rank(s) = Len(words)
                                  /\ \E k \in WordAt(s) : Upto(k) = ptr - 1

\* reverse_string(): the ends are exchanged, the middle is as it was.
Reversing ==
  pc = "reverse" =>
    /\ ptr + end = len + 1 /\ ptr <= end + 1
    /\ \A n \in Places :
         buff[n] = IF n <= len /\ (n < ptr \/ n > end) THEN Text(len + 1 - n) ELSE Text(n)

\* What the operations find in the buffer; what is refused has filled it.
Stored ==
  /\ pc \in {"count", "words", "replace"} =>
       len = Len(Collapsed) /\ \A n \in Places : buff[n] = Text(n)
  /\ pc = "exit" /\ src <= Len(input) => Upto(src - 1) >= BufSize

\* The second half of ReplaceKeepsRest.
Refusal ==
  /\ \A n \in Places : buff[n] = Text(n)
  /\ Len(New) > Len(Old) \/ \A n \in Places : ~Occurs(n)

\* The inductive invariant: the properties speak of the buffer before an operation
\* and of its result, the rest of how the loops get there.
IInv ==
  /\ TypeOK /\ Phase /\ Collapsing /\ CountingWords /\ MeasuringWords /\ Reversing
  /\ Stored /\ WordsRight /\ ReverseRight /\ ReplaceKeepsRest

USE BoundsAssumption

-----------------------------------------------------------------------------
(***************************************************************************)
(* The characters that are kept, and their places in the text.             *)
(***************************************************************************)
AtMost(S, m) == {j \in S : j <= m}

\* How many members a set has up to k, and how many up to k - 1.
LEMMA CountUpTo ==
  ASSUME NEW S, IsFiniteSet(S), S \subseteq Int, NEW k \in Int
  PROVE  /\ IsFiniteSet(AtMost(S, k)) /\ Cardinality(AtMost(S, k)) \in Nat
         /\ Cardinality(AtMost(S, k)) <= Cardinality(S)
         /\ Cardinality(AtMost(S, k))
              = Cardinality(AtMost(S, k - 1)) + (IF k \in S THEN 1 ELSE 0)
<1> DEFINE B(m) == AtMost(S, m)
<1> USE DEF AtMost
<1>1. ASSUME NEW m \in Int PROVE B(m) \in SUBSET S /\ IsFiniteSet(B(m))
                               /\ Cardinality(B(m)) \in Nat
                               /\ Cardinality(B(m)) <= Cardinality(S)
  <2>1. B(m) \in SUBSET S
    OBVIOUS
  <2> HIDE DEF B
  <2>2. IsFiniteSet(B(m)) /\ Cardinality(B(m)) <= Cardinality(S)
    BY <2>1, FS_Subset
  <2> QED
    BY <2>1, <2>2, FS_CardinalityType
<1>a. \A j \in S : /\ j \in Int /\ (j <= k <=> j <= k - 1 \/ j = k)
  OBVIOUS
<1>2. CASE k \in S
  <2>1. B(k) = B(k - 1) \cup {k} /\ k \notin B(k - 1) /\ k - 1 \in Int
    <3>1. ~(k <= k - 1) /\ k <= k /\ k - 1 \in Int
      OBVIOUS
    <3> QED
      BY <1>a, <1>2, <3>1
  <2> HIDE DEF B
  <2>2. Cardinality(B(k)) = Cardinality(B(k - 1)) + 1
    BY <1>1, <2>1, FS_AddElement
  <2> QED
    BY <1>1, <1>2, <2>2 DEF B
<1>3. CASE k \notin S
  <2>1. B(k) = B(k - 1)
    BY <1>a, <1>3
  <2>2. Cardinality(B(k)) = Cardinality(B(k - 1)) + 0
    <3> HIDE DEF B
    <3> QED
      BY <1>1, <2>1
  <2> QED
    BY <1>1, <1>3, <2>2
<1> QED
  BY <1>2, <1>3

LEMMA KeptFacts ==
  ASSUME input \in Seq(Chars)
  PROVE  /\ Kept \subseteq 1..Len(input) /\ IsFiniteSet(Kept)
         /\ Cardinality(Kept) \in Nat
         /\ Upto(0) = 0 /\ Upto(Len(input)) = Cardinality(Kept)
         /\ \A k \in Int : Upto(k) \in Nat /\ Upto(k) <= Cardinality(Kept)
         /\ \A k \in Int : Upto(k) = Upto(k - 1) + (IF k \in Kept THEN 1 ELSE 0)
<1>1. Kept \subseteq 1..Len(input) /\ Len(input) \in Nat
  BY DEF Kept
<1>2. IsFiniteSet(Kept)
  <2>1. IsFiniteSet(1..Len(input))
    BY <1>1, FS_Interval
  <2> QED
    BY <1>1, <2>1, FS_Subset
<1>a. \A k \in Kept : k \in Int /\ k >= 1 /\ k <= Len(input)
  BY <1>1
<1>3. Cardinality(Kept) \in Nat
  BY <1>2, FS_CardinalityType
<1>4. Upto(0) = 0
  <2>1. {m \in Kept : m <= 0} = {}
    BY <1>a
  <2> QED
    BY <2>1, FS_EmptySet DEF Upto
<1>5. Upto(Len(input)) = Cardinality(Kept)
  <2>1. {m \in Kept : m <= Len(input)} = Kept
    BY <1>a
  <2> QED
    BY <2>1 DEF Upto
<1>6. ASSUME NEW k \in Int
      PROVE  /\ Upto(k) \in Nat /\ Upto(k) <= Cardinality(Kept)
             /\ Upto(k) = Upto(k - 1) + (IF k \in Kept THEN 1 ELSE 0)
  <2>1. Kept \subseteq Int
    BY <1>a
  <2>2. \A m : Upto(m) = Cardinality(AtMost(Kept, m))
    BY DEF Upto, AtMost
  <2> QED
    BY <1>2, <2>1, <2>2, CountUpTo
<1> QED
  BY <1>1, <1>2, <1>3, <1>4, <1>5, <1>6

LEMMA UptoGrows ==
  ASSUME input \in Seq(Chars), NEW k \in Int, NEW m \in Int, k < m
  PROVE  /\ Upto(k) <= Upto(m)
         /\ m \in Kept => Upto(k) < Upto(m)
<1> DEFINE B(j) == {n \in Kept : n <= j}
<1>1. ASSUME NEW j \in Int, k <= j PROVE Upto(k) <= Upto(j)
  <2>1. B(k) \in SUBSET B(j)
    BY <1>1, KeptFacts
  <2>2. IsFiniteSet(B(j))
    <3>1. B(j) \in SUBSET Kept
      OBVIOUS
    <3> QED
      BY <3>1, KeptFacts, FS_Subset
  <2> HIDE DEF B
  <2>3. Cardinality(B(k)) <= Cardinality(B(j))
    BY <2>1, <2>2, FS_Subset
  <2> QED
    BY <2>3 DEF B, Upto
<1>2. Upto(k) <= Upto(m - 1) /\ Upto(k) <= Upto(m)
  BY <1>1
<1>3. Upto(m) = Upto(m - 1) + (IF m \in Kept THEN 1 ELSE 0)
      /\ Upto(k) \in Nat /\ Upto(m - 1) \in Nat
  <2>1. m - 1 \in Int
    OBVIOUS
  <2> QED
    BY <2>1, KeptFacts
<1> QED
  BY <1>2, <1>3

\* No two characters of the input get the same place.
LEMMA SamePlace ==
  ASSUME input \in Seq(Chars), NEW k \in Kept, NEW m \in Kept, Upto(k) = Upto(m)
  PROVE  k = m
<1>1. k \in Int /\ m \in Int /\ Upto(k) \in Nat /\ Upto(m) \in Nat
  BY KeptFacts
<1>2. k < m => Upto(k) < Upto(m)
  BY <1>1, UptoGrows
<1>3. m < k => Upto(m) < Upto(k)
  BY <1>1, UptoGrows
<1> QED
  BY <1>1, <1>2, <1>3

\* Every place of the text is that of a character of the input.
LEMMA EveryPlace ==
  ASSUME input \in Seq(Chars)
  PROVE  /\ \A k \in Kept : Upto(k) \in 1..Cardinality(Kept)
         /\ \A j \in 1..Cardinality(Kept) : \E k \in Kept : Upto(k) = j
<1> DEFINE c == Cardinality(Kept)
           f == [k \in Kept |-> Upto(k)]
<1>1. ASSUME NEW k \in Kept PROVE Upto(k) \in 1..c
  <2>1. k \in Int /\ c \in Nat
    BY KeptFacts
  <2>2. Upto(k) = Upto(k - 1) + 1 /\ Upto(k - 1) \in Nat /\ Upto(k) <= c
    BY <2>1, KeptFacts
  <2> QED
    BY <2>1, <2>2
<1>2. f \in Injection(Kept, 1..c)
  <2>1. f \in [Kept -> 1..c]
    BY <1>1
  <2>2. \A a, b \in Kept : f[a] = f[b] => a = b
    BY SamePlace
  <2> HIDE DEF f
  <2> QED
    BY <2>1, <2>2 DEF Injection, IsInjective
<1>3. IsFiniteSet(1..c) /\ Cardinality(1..c) = c /\ IsFiniteSet(Kept)
  <2>1. c \in Nat /\ IsFiniteSet(Kept)
    BY KeptFacts
  <2> HIDE DEF c
  <2> QED
    BY <2>1, FS_Interval
<1>4. f \in Surjection(Kept, 1..c)
  BY <1>2, <1>3, FS_Injection
<1>5. \A j \in 1..c : \E k \in Kept : f[k] = j
  BY <1>4 DEF Surjection
<1> QED
  BY <1>1, <1>5

LEMMA CollapsedIs ==
  ASSUME input \in Seq(Chars)
  PROVE  /\ Len(Collapsed) = Cardinality(Kept)
         /\ \A k \in Kept : Text(Upto(k)) = Plain(input[k])
         /\ \A n \in Int : n > Cardinality(Kept) => Text(n) = "."
<1> DEFINE c == Cardinality(Kept)
<1>1. c \in Nat
  BY KeptFacts
<1>2. Len(Collapsed) = c
  BY <1>1 DEF Collapsed
<1>3. ASSUME NEW k \in Kept PROVE Text(Upto(k)) = Plain(input[k])
  <2>1. Upto(k) \in 1..c
    BY EveryPlace
  <2>2. k = CHOOSE m \in Kept : Upto(m) = Upto(k)
    BY SamePlace
  <2>3. Collapsed[Upto(k)] = IF input[k] \in Blanks THEN " " ELSE input[k]
    BY <2>1, <2>2 DEF Collapsed
  <2>4. Upto(k) <= Len(Collapsed)
    BY <1>1, <1>2, <2>1
  <2> QED
    BY <2>3, <2>4 DEF Text, Plain
<1> QED
  BY <1>1, <1>2, <1>3 DEF Text

-----------------------------------------------------------------------------
(***************************************************************************)
(* setup_buff() and the end of an operation.                               *)
(***************************************************************************)

\* What is told from the arguments stays as they do.
LEMMA ArgumentsStay ==
  ASSUME input' = input, args' = args
  PROVE  /\ Kept' = Kept /\ WordStarts' = WordStarts /\ Old' = Old /\ New' = New
         /\ Collapsed' = Collapsed
         /\ \A k : Upto(k)' = Upto(k) /\ Text(k)' = Text(k) /\ WordAt(k)' = WordAt(k)
                   /\ Rank(k)' = Rank(k)
BY DEF Kept, WordStarts, Old, New, Collapsed, Upto, Text, WordAt, Rank

LEMMA Sequences ==
  ASSUME NEW S, NEW n \in Nat, NEW q \in UpTo(S, n)
  PROVE  q \in Seq(S)
<1>1. PICK m \in 0..n : q \in [1..m -> S]
  BY DEF UpTo
<1> QED
  BY <1>1

\* A character of a word is kept, and a blank is none.
LEMMA WordsAreKept ==
  ASSUME input \in Seq(Chars)
  PROVE  /\ \A k \in DOMAIN input : IsWordChar(input[k]) => k \in Kept
         /\ WordStarts \subseteq Kept
         /\ \A k \in Kept : IsWordChar(Text(Upto(k))) <=> IsWordChar(input[k])
<1>1. \A k \in DOMAIN input : IsWordChar(input[k]) => k \in Kept
  BY DEF IsWordChar, Kept
<1>2. WordStarts \subseteq Kept
  BY <1>1 DEF WordStarts
<1>3. \A c : IsWordChar(Plain(c)) <=> IsWordChar(c)
  BY DEF IsWordChar, Plain, Blanks
<1> QED
  BY <1>1, <1>2, <1>3, CollapsedIs

\* No result is due before the program has ended.
LEMMA NoResult ==
  ASSUME pc # "exit"
  PROVE  WordsRight /\ ReverseRight /\ ReplaceKeepsRest
BY DEF WordsRight, ReverseRight, ReplaceKeepsRest, Succeeded

LEMMA InitIInv == Init => IInv
<1> SUFFICES ASSUME Init PROVE IInv
  OBVIOUS
<1>1. pc = "setup" /\ status = 0 /\ ptr = 1 /\ end = 0 /\ src = 1 /\ len = 0
      /\ flag = FALSE /\ words = <<>> /\ buff = [n \in Places |-> "?"]
      /\ opt \in {"c", "r", "w", "x", "z"}
  BY DEF Init
<1>2. input \in Seq(Chars)
  BY Sequences DEF Init
<1>3. args \in Seq(Chars) \X Seq(Chars)
  <2>1. CASE opt = "x"
    <3>1. args \in UpTo(Chars, MaxArg) \X UpTo(Chars, MaxArg)
      BY <2>1 DEF Init
    <3>2. \A q \in UpTo(Chars, MaxArg) : q \in Seq(Chars)
      BY Sequences
    <3> QED
      BY <3>1, <3>2
  <2>2. CASE opt # "x"
    <3>1. args = << <<>>, <<>> >>
      BY <2>2 DEF Init
    <3>2. <<>> \in Seq(Chars)
      OBVIOUS
    <3> QED
      BY <3>1, <3>2
  <2> QED
    BY <2>1, <2>2
<1>4. TypeOK
  <2>1. buff \in [Places -> Bytes]
    BY <1>1 DEF Bytes
  <2>2. words \in Seq(Places)
    BY <1>1
  <2>3. /\ src \in 1..Len(input) + 1 /\ len \in 0..BufSize /\ flag \in BOOLEAN
        /\ ptr \in 1..BufSize + 1 /\ end \in 0..BufSize /\ status \in 0..2
    <3>1. Len(input) \in Nat
      BY <1>2
    <3>2. flag \in BOOLEAN
      BY <1>1
    <3> QED
      BY <1>1, <3>1, <3>2
  <2> QED
    BY <1>1, <1>2, <1>3, <2>1, <2>2, <2>3 DEF TypeOK
<1>5. Upto(0) = 0 /\ \A k \in Kept : k >= 1
  BY <1>2, KeptFacts
<1>6. Collapsing
  <2>1. src - 1 = 0 /\ ~(src > 1) /\ \A k \in Kept : k \in Int /\ ~(k < src)
    BY <1>1, <1>2, <1>5, KeptFacts
  <2> QED
    BY <1>1, <1>5, <2>1 DEF Collapsing
<1>7. Phase /\ CountingWords /\ MeasuringWords /\ Reversing /\ Stored
  BY <1>1 DEF Phase, CountingWords, MeasuringWords, Reversing, Stored, Operations
<1> QED
  BY <1>1, <1>4, <1>6, <1>7, NoResult DEF IInv

\* An end of the program that is no success.
LEMMA FailIInv ==
  ASSUME IInv, NEW e \in 1..2, Exit(e),
         UNCHANGED <<argvars, buff, src, len, flag, ptr, end, words>>,
         src <= Len(input) => Upto(src - 1) >= BufSize,
         opt = "x" /\ src > Len(input) => Refusal
  PROVE  IInv'
<1>1. pc' = "exit" /\ status' = e /\ status' # 0
      /\ UNCHANGED <<opt, input, args, buff, src, len, flag, ptr, end, words>>
  BY DEF Exit, argvars
<1>2. TypeOK'
  BY <1>1 DEF IInv, TypeOK
<1>3. Phase' /\ Collapsing' /\ CountingWords' /\ MeasuringWords' /\ Reversing'
  BY <1>1 DEF Phase, Collapsing, CountingWords, MeasuringWords, Reversing, Operations
<1>4. Stored'
  BY <1>1 DEF Stored, Upto, Kept
<1>5. WordsRight' /\ ReverseRight'
  BY <1>1 DEF WordsRight, ReverseRight, Succeeded
<1>6. ReplaceKeepsRest'
  <2>1. Refusal' <=> Refusal
    <3>1. Old' = Old /\ New' = New /\ Collapsed' = Collapsed /\ \A n : Text(n)' = Text(n)
      BY <1>1, ArgumentsStay
    <3>2. \A n : Occurs(n)' <=> Occurs(n)
      BY <3>1 DEF Occurs, Text
    <3> QED
      BY <1>1, <3>1, <3>2 DEF Refusal
  <2> QED
    BY <1>1, <2>1 DEF ReplaceKeepsRest, Succeeded, Refusal
<1> QED
  BY <1>2, <1>3, <1>4, <1>5, <1>6 DEF IInv

LEMMA SetupTooLongIInv ==
  ASSUME IInv, SetupTooLong
  PROVE  IInv'
<1>1. pc = "setup" /\ len >= BufSize /\ len = Upto(src - 1) /\ src \in Int
      /\ input \in Seq(Chars)
  BY DEF SetupTooLong, Full, IInv, Collapsing, TypeOK
<1>2. src <= Len(input) /\ Len(input) \in Nat
  BY <1>1 DEF SetupTooLong
<1>3. Upto(src - 1) >= BufSize /\ ~(src > Len(input))
  BY <1>1, <1>2
<1> QED
  BY <1>3, FailIInv DEF SetupTooLong

\* One more character of the input: a blank after a blank is dropped, and every
\* other character gets the place after those before it.
LEMMA SetupCharIInv ==
  ASSUME IInv, SetupChar
  PROVE  IInv'
<1> DEFINE c == input[src]
<1>1. /\ pc = "setup" /\ src <= Len(input) /\ ~(len >= BufSize)
      /\ src' = src + 1 /\ flag' = (c \in Blanks)
      /\ IF c \in Blanks /\ flag
           THEN buff' = buff /\ len' = len
           ELSE buff' = [buff EXCEPT ![len + 1] = Plain(c)] /\ len' = len + 1
      /\ UNCHANGED <<pc, opt, input, args, ptr, end, words, status>>
  BY DEF SetupChar, Full, argvars, Plain
<1>2. /\ input \in Seq(Chars) /\ src \in 1..Len(input) /\ len \in 0..BufSize
      /\ Len(input) \in Nat /\ buff \in [Places -> Bytes] /\ c \in Chars
  BY <1>1 DEF IInv, TypeOK
<1>3. /\ ptr = 1 /\ words = <<>> /\ len = Upto(src - 1) /\ status = 0
      /\ flag <=> (src > 1 /\ input[src - 1] \in Blanks)
      /\ \A k \in Kept : k < src => buff[Upto(k)] = Plain(input[k])
  BY <1>1 DEF IInv, Collapsing, Phase
<1>4. src \in Kept <=> ~(c \in Blanks /\ flag)
  <2>1. src \in DOMAIN input
    BY <1>2
  <2> QED
    BY <1>2, <1>3, <2>1 DEF Kept
<1>5. Upto(src) = Upto(src - 1) + (IF src \in Kept THEN 1 ELSE 0)
      /\ \A k \in Kept : k \in Int /\ k >= 1
  BY <1>2, KeptFacts
<1>6. len' = Upto(src)
  BY <1>1, <1>2, <1>3, <1>4, <1>5
<1>7. TypeOK'
  <2>1. buff' \in [Places -> Bytes] /\ len' \in 0..BufSize
    <3>1. Plain(c) \in Bytes
      BY <1>2 DEF Plain, Bytes, Chars, Blanks
    <3> HIDE DEF c
    <3> QED
      BY <1>1, <1>2, <3>1
  <2>2. src' \in 1..Len(input) + 1 /\ flag' \in BOOLEAN
    BY <1>1, <1>2
  <2> HIDE DEF c
  <2> QED
    BY <1>1, <2>1, <2>2 DEF IInv, TypeOK
<1>8. ASSUME NEW k \in Kept, k < src + 1 PROVE buff'[Upto(k)] = Plain(input[k])
  <2>1. Upto(k) \in 1..Cardinality(Kept)
    BY <1>2, EveryPlace
  <2>2. CASE k = src
    <3>1. buff' = [buff EXCEPT ![len + 1] = Plain(c)] /\ Upto(k) = len + 1
      BY <1>1, <1>3, <1>4, <1>5, <2>2
    <3>2. len + 1 \in Places
      BY <1>1, <1>2 DEF Places
    <3> QED
      BY <1>2, <2>2, <3>1, <3>2
  <2>3. CASE k # src
    <3>1. k < src /\ k <= src - 1 /\ src - 1 \in Int /\ k \in Int
      BY <1>2, <1>5, <1>8, <2>3
    <3>2. Upto(k) <= Upto(src - 1)
      <4>1. CASE k = src - 1
        BY <1>2, <1>3, <4>1
      <4>2. CASE k < src - 1
        BY <1>2, <3>1, <4>2, UptoGrows
      <4> QED
        BY <3>1, <4>1, <4>2
    <3>3. Upto(k) # len + 1 /\ Upto(k) \in Places
      <4>1. Cardinality(Kept) \in Nat
        BY <1>2, KeptFacts
      <4>2. Upto(k) \in Int /\ 1 <= Upto(k) /\ Upto(k) <= len
        BY <1>3, <2>1, <3>2, <4>1
      <4> QED
        BY <1>2, <4>2 DEF Places
    <3>4. buff'[Upto(k)] = buff[Upto(k)]
      <4> HIDE DEF c
      <4> QED
        BY <1>1, <1>2, <3>3
    <3> QED
      BY <1>3, <3>1, <3>4
  <2> QED
    BY <2>2, <2>3
<1>9. /\ Kept' = Kept /\ \A k : Upto(k)' = Upto(k)
  BY <1>1, ArgumentsStay
<1>10. Collapsing'
  <2>1. src' - 1 = src /\ src' > 1
    BY <1>1, <1>2
  <2>2. flag' <=> (src' > 1 /\ input'[src' - 1] \in Blanks)
    <3>1. input'[src' - 1] = c /\ flag' = (c \in Blanks)
      BY <1>1, <2>1
    <3> QED
      BY <2>1, <3>1, Zenon
  <2>3. \A k \in Kept : k < src' => buff'[Upto(k)] = Plain(input[k])
    BY <1>1, <1>8
  <2>4. len' = Cardinality({m \in Kept' : m <= src' - 1})
    BY <1>6, <1>9, <2>1, Zenon DEF Upto
  <2>5. (len = Upto(src - 1))'
    BY <2>4 DEF Upto
  <2> HIDE DEF c
  <2> QED
    BY <1>1, <1>3, <1>9, <2>2, <2>3, <2>5 DEF Collapsing
<1>11. Phase' /\ CountingWords' /\ MeasuringWords' /\ Reversing' /\ Stored'
  BY <1>1, <1>3 DEF Phase, CountingWords, MeasuringWords, Reversing, Stored, Operations
<1>12. WordsRight' /\ ReverseRight' /\ ReplaceKeepsRest'
  BY <1>1 DEF WordsRight, ReverseRight, ReplaceKeepsRest, Succeeded
<1> QED
  BY <1>7, <1>10, <1>11, <1>12 DEF IInv

\* A place of the text has the character that was kept for it.
LEMMA TextIs ==
  ASSUME input \in Seq(Chars), NEW n \in 1..Cardinality(Kept)
  PROVE  \E k \in Kept : Upto(k) = n /\ Text(n) = Plain(input[k])
BY EveryPlace, CollapsedIs

\* The rest of the buffer is filled with dots, and the operation can begin.
LEMMA SetupDoneIInv ==
  ASSUME IInv, SetupDone
  PROVE  IInv'
<1> DEFINE c == Cardinality(Kept)
<1>1. /\ pc = "setup" /\ src > Len(input)
      /\ buff' = [n \in Places |-> IF n > len THEN "." ELSE buff[n]]
      /\ \/ opt = "z" /\ pc' = "exit" /\ status' = 1
         \/ opt # "z" /\ pc' = Loop[opt] /\ status' = status
      /\ flag' = FALSE /\ ptr' = 1 /\ end' = len
      /\ UNCHANGED <<opt, input, args, src, len, words>>
  BY DEF SetupDone, Exit, argvars
<1>2. /\ input \in Seq(Chars) /\ src \in 1..Len(input) + 1 /\ len \in 0..BufSize
      /\ Len(input) \in Nat /\ buff \in [Places -> Bytes] /\ opt \in {"c", "r", "w", "x", "z"}
  BY DEF IInv, TypeOK
<1>3. /\ words = <<>> /\ len = Upto(src - 1) /\ status = 0
      /\ \A k \in Kept : k < src => buff[Upto(k)] = Plain(input[k])
  BY <1>1 DEF IInv, Collapsing, Phase
<1>4. src = Len(input) + 1 /\ src - 1 = Len(input)
  BY <1>1, <1>2
<1>5. len = c /\ c \in Nat /\ Len(Collapsed) = c
  BY <1>2, <1>3, <1>4, KeptFacts, CollapsedIs
<1>6. ASSUME NEW n \in Places PROVE buff'[n] = Text(n)
  <2>1. CASE n > len
    BY <1>1, <1>2, <1>5, <2>1, CollapsedIs DEF Places
  <2>2. CASE ~(n > len)
    <3>1. n \in 1..c
      BY <1>2, <1>5, <2>2 DEF Places
    <3>2. PICK k \in Kept : Upto(k) = n /\ Text(n) = Plain(input[k])
      BY <1>2, <3>1, TextIs
    <3>3. k < src
      BY <1>2, <1>4, KeptFacts
    <3>4. buff[n] = Text(n)
      BY <1>3, <3>2, <3>3
    <3> QED
      BY <1>1, <2>2, <3>4
  <2> QED
    BY <2>1, <2>2
<1>7. /\ pc' \in Operations \cup {"exit"} /\ pc' # "setup"
      /\ pc' = "exit" => status' = 1
      /\ pc' # "exit" => opt # "z" /\ pc' = Loop[opt] /\ status' = 0
  BY <1>1, <1>2, <1>3 DEF Loop, Operations
<1>8. /\ Kept' = Kept /\ Collapsed' = Collapsed /\ WordStarts' = WordStarts
      /\ \A k : Upto(k)' = Upto(k) /\ Text(k)' = Text(k)
  BY <1>1, ArgumentsStay
<1> HIDE DEF c
<1>9. TypeOK'
  <2>1. buff' \in [Places -> Bytes]
    <3>1. \A n \in Places : (IF n > len THEN "." ELSE buff[n]) \in Bytes
      BY <1>2 DEF Bytes, Chars
    <3> QED
      BY <1>1, <3>1
  <2>2. /\ pc' \in {"setup", "count", "reverse", "words", "replace", "exit"}
        /\ status' \in 0..2 /\ ptr' \in 1..BufSize + 1 /\ end' \in 0..BufSize
    BY <1>1, <1>2, <1>7 DEF Operations
  <2>3. flag' \in BOOLEAN
    BY <1>1
  <2> QED
    BY <1>1, <2>1, <2>2, <2>3 DEF IInv, TypeOK
<1>10. Phase' /\ Collapsing'
  <2>1. src' = Len(input') + 1 /\ len' = Cardinality(Kept') /\ ptr' <= len' + 1
    BY <1>1, <1>4, <1>5, <1>8 DEF c
  <2> QED
    BY <1>1, <1>7, <2>1 DEF Phase, Collapsing, Operations
<1>11. Counted' = {}
  <2>1. \A k \in WordStarts : Upto(k) >= 1 /\ Upto(k) \in Int
    BY <1>2, <1>5, WordsAreKept, EveryPlace DEF c
  <2>2. \A k \in WordStarts' : ~(Upto(k)' < ptr')
    BY <1>1, <1>8, <2>1
  <2> QED
    BY <2>2 DEF Counted
<1>12. CountingWords' /\ MeasuringWords'
  <2>1. Cardinality(Counted') = 0
    BY <1>11, FS_EmptySet
  <2>2. words' = <<>> /\ Len(words') = 0 /\ DOMAIN words' = {}
    BY <1>1, <1>3
  <2>3. ~(ptr' > 1) /\ ~flag'
    BY <1>1
  <2> QED
    BY <1>11, <2>1, <2>2, <2>3 DEF CountingWords, MeasuringWords
<1>13. Reversing'
  <2>1. ptr' + end' = len' + 1 /\ ptr' <= end' + 1
    BY <1>1, <1>2
  <2>2. \A n \in Places : ~(n <= len' /\ (n < ptr' \/ n > end'))
    BY <1>1, <1>2 DEF Places
  <2>3. \A n \in Places : buff'[n] = Text(n)'
    BY <1>6, <1>8
  <2> QED
    BY <2>1, <2>2, <2>3 DEF Reversing
<1>14. Stored'
  <2>1. len' = Len(Collapsed)' /\ ~(src' <= Len(input'))
    BY <1>1, <1>2, <1>4, <1>5, <1>8
  <2>2. \A n \in Places : buff'[n] = Text(n)'
    BY <1>6, <1>8
  <2> QED
    BY <2>1, <2>2 DEF Stored
<1>15. WordsRight' /\ ReverseRight' /\ ReplaceKeepsRest'
  <2>1. pc' # "exit" \/ status' = 1
    BY <1>7
  <2> QED
    BY <2>1 DEF WordsRight, ReverseRight, ReplaceKeepsRest, Succeeded
<1> QED
  BY <1>9, <1>10, <1>12, <1>13, <1>14, <1>15 DEF IInv

-----------------------------------------------------------------------------
(***************************************************************************)
(* reverse_string() and replace_string().                                  *)
(***************************************************************************)
\* Two characters of the text are exchanged.
LEMMA SwapIInv ==
  ASSUME IInv, Swap
  PROVE  IInv'
<1>1. /\ pc = "reverse" /\ ptr < end
      /\ buff' = [buff EXCEPT ![ptr] = buff[end], ![end] = buff[ptr]]
      /\ ptr' = ptr + 1 /\ end' = end - 1
      /\ UNCHANGED <<pc, opt, input, args, src, len, flag, words, status>>
  BY DEF Swap, Swapping, argvars
<1>2. /\ input \in Seq(Chars) /\ len \in 0..BufSize /\ buff \in [Places -> Bytes]
      /\ ptr \in 1..BufSize + 1 /\ end \in 0..BufSize /\ len \in Int
  BY DEF IInv, TypeOK
<1>3. /\ ptr + end = len + 1
      /\ \A n \in Places :
           buff[n] = IF n <= len /\ (n < ptr \/ n > end) THEN Text(len + 1 - n) ELSE Text(n)
  BY <1>1 DEF IInv, Reversing
<1>4. ptr \in Places /\ end \in Places /\ ptr <= len /\ end <= len
      /\ len + 1 - ptr = end /\ len + 1 - end = ptr
  BY <1>1, <1>2, <1>3 DEF Places
<1>5. buff[ptr] = Text(ptr) /\ buff[end] = Text(end)
  BY <1>1, <1>2, <1>3, <1>4
<1>6. /\ buff' \in [Places -> Bytes] /\ buff'[ptr] = buff[end] /\ buff'[end] = buff[ptr]
      /\ \A n \in Places : n # ptr /\ n # end => buff'[n] = buff[n]
  BY <1>1, <1>2, <1>4
<1>7. ASSUME NEW n \in Places
      PROVE  buff'[n] = IF n <= len /\ (n < ptr + 1 \/ n > end - 1)
                          THEN Text(len + 1 - n) ELSE Text(n)
  <2>1. CASE n = ptr
    BY <1>2, <1>4, <1>5, <1>6, <2>1
  <2>2. CASE n = end
    BY <1>2, <1>4, <1>5, <1>6, <2>2
  <2>3. CASE n # ptr /\ n # end
    <3>1. (n < ptr + 1 \/ n > end - 1) <=> (n < ptr \/ n > end)
      BY <1>2, <2>3 DEF Places
    <3> QED
      BY <1>3, <1>6, <2>3, <3>1
  <2> QED
    BY <2>1, <2>2, <2>3
<1>8. Kept' = Kept /\ Collapsed' = Collapsed /\ \A k : Text(k)' = Text(k)
  BY <1>1, ArgumentsStay
<1>9. TypeOK'
  <2>1. ptr' \in 1..BufSize + 1 /\ end' \in 0..BufSize
    BY <1>1, <1>2
  <2> QED
    BY <1>1, <1>6, <2>1 DEF IInv, TypeOK
<1>10. Phase' /\ Collapsing' /\ CountingWords' /\ MeasuringWords' /\ Stored'
  <2>1. ptr' <= len' + 1
    BY <1>1, <1>2, <1>4
  <2> QED
    BY <1>1, <1>8, <2>1 DEF IInv, Phase, Collapsing, CountingWords, MeasuringWords, Stored,
                            Operations
<1>11. Reversing'
  <2>1. ptr' + end' = len' + 1 /\ ptr' <= end' + 1
    BY <1>1, <1>2, <1>3
  <2>2. \A n \in Places :
          buff'[n] = IF n <= len' /\ (n < ptr' \/ n > end') THEN Text(len + 1 - n) ELSE Text(n)
    BY <1>1, <1>7
  <2>3. ASSUME NEW n \in Places PROVE (Text(len + 1 - n))' = Text(len + 1 - n)
    BY <1>1, <1>8 DEF Text
  <2> QED
    BY <1>8, <2>1, <2>2, <2>3 DEF Reversing
<1>12. WordsRight' /\ ReverseRight' /\ ReplaceKeepsRest'
  BY <1>1 DEF WordsRight, ReverseRight, ReplaceKeepsRest, Succeeded
<1> QED
  BY <1>9, <1>10, <1>11, <1>12 DEF IInv

\* The result of an operation that has run to its end.
LEMMA OperationDoneIInv ==
  ASSUME IInv, OperationDone
  PROVE  IInv'
<1>1. /\ \/ pc \in {"count", "words"} /\ ptr > len
         \/ pc = "reverse" /\ ~(ptr < end)
      /\ pc' = "exit" /\ status' = 0
      /\ UNCHANGED <<opt, input, args, buff, src, len, flag, ptr, end, words>>
  BY DEF OperationDone, Swapping, Exit, argvars
<1>2. /\ input \in Seq(Chars) /\ len \in 0..BufSize /\ ptr \in 1..BufSize + 1
      /\ end \in 0..BufSize /\ Len(input) \in Nat
  BY DEF IInv, TypeOK
<1>3. /\ src = Len(input) + 1 /\ len = Cardinality(Kept) /\ ptr <= len + 1 /\ pc = Loop[opt]
      /\ opt \in {"c", "r", "w", "x", "z"}
  BY <1>1 DEF IInv, Phase, Operations, TypeOK
<1>4. /\ Kept' = Kept /\ WordStarts' = WordStarts /\ Collapsed' = Collapsed
      /\ \A k : Text(k)' = Text(k) /\ WordAt(k)' = WordAt(k) /\ Rank(k)' = Rank(k)
  BY <1>1, ArgumentsStay
<1>5. TypeOK'
  BY <1>1 DEF IInv, TypeOK
<1>6. Phase' /\ Collapsing' /\ CountingWords' /\ MeasuringWords' /\ Reversing'
  BY <1>1, <1>3, <1>4
     DEF Phase, Collapsing, CountingWords, MeasuringWords, Reversing, Operations
<1>7. Stored'
  <2>1. ~(src <= Len(input))
    BY <1>2, <1>3
  <2> QED
    BY <1>1, <2>1 DEF Stored
<1>8. WordsRight'
  <2>1. CASE opt \notin {"c", "w"}
    BY <1>1, <2>1 DEF WordsRight, Succeeded
  <2>2. CASE opt \in {"c", "w"}
    <3>1. pc \in {"count", "words"} /\ ptr > len /\ (opt = "w" => pc = "words")
      BY <1>1, <1>3, <2>2 DEF Loop
    <3>2. ASSUME NEW k \in Kept PROVE Upto(k) < ptr
      BY <1>2, <1>3, <3>1, EveryPlace
    <3>3. Counted = WordStarts
      BY <1>2, <3>2, WordsAreKept DEF Counted
    <3>4. Len(words) = Cardinality(WordStarts)
      BY <3>1, <3>3 DEF IInv, CountingWords
    <3>5. ASSUME opt = "w", NEW s \in WordStarts
          PROVE  words[Rank(s)] = Cardinality(WordAt(s))
      <4>1. \A k \in WordAt(s) : k \in Kept
        <5>1. \A k \in WordAt(s) : k \in DOMAIN input /\ IsWordChar(input[k])
          BY <1>2 DEF WordAt, WordStarts
        <5> QED
          BY <1>2, <5>1, WordsAreKept
      <4>2. Reached(s) = WordAt(s)
        BY <3>2, <4>1 DEF Reached
      <4> QED
        BY <3>1, <3>3, <3>5, <4>2 DEF IInv, MeasuringWords
    <3>6. Len(words') = Cardinality(WordStarts')
      BY <1>1, <1>4, <3>4
    <3>7. ASSUME opt' = "w", NEW s \in WordStarts'
          PROVE  words'[Rank(s)'] = Cardinality(WordAt(s)')
      BY <1>1, <1>4, <3>5, <3>7
    <3> QED
      BY <3>6, <3>7 DEF WordsRight, Succeeded, Rank
  <2> QED
    BY <2>1, <2>2
<1>9. ReverseRight'
  <2>1. CASE opt # "r"
    BY <1>1, <2>1 DEF ReverseRight, Succeeded
  <2>2. CASE opt = "r"
    <3>1. pc = "reverse" /\ ~(ptr < end)
      BY <1>1, <1>3, <2>2 DEF Loop
    <3>2. /\ ptr + end = len + 1 /\ ptr <= end + 1
          /\ \A n \in Places :
               buff[n] = IF n <= len /\ (n < ptr \/ n > end) THEN Text(len + 1 - n) ELSE Text(n)
      BY <3>1 DEF IInv, Reversing
    <3>3. ASSUME NEW n \in Places
          PROVE  buff[n] = IF n <= len THEN Text(len + 1 - n) ELSE "."
      <4>1. CASE n > len
        BY <1>2, <1>3, <3>2, <4>1, CollapsedIs DEF Places
      <4>2. CASE n <= len /\ (n < ptr \/ n > end)
        BY <3>2, <4>2
      <4>3. CASE n <= len /\ ~(n < ptr \/ n > end)
        <5>1. n = len + 1 - n
          BY <1>2, <3>1, <3>2, <4>3 DEF Places
        <5>2. buff[n] = Text(n)
          BY <3>2, <4>3
        <5> QED
          BY <4>3, <5>1, <5>2
      <4> QED
        BY <1>2, <4>1, <4>2, <4>3 DEF Places
    <3>4. ASSUME NEW n \in Places PROVE (Text(len + 1 - n))' = Text(len + 1 - n)
      BY <1>1, <1>4 DEF Text
    <3> QED
      BY <1>1, <1>2, <3>3, <3>4 DEF ReverseRight
  <2> QED
    BY <2>1, <2>2
<1>10. ReplaceKeepsRest'
  <2>1. opt # "x"
    BY <1>1, <1>3 DEF Loop
  <2> QED
    BY <1>1, <2>1 DEF ReplaceKeepsRest, Succeeded
<1> QED
  BY <1>5, <1>6, <1>7, <1>8, <1>9, <1>10 DEF IInv
\* A set of numbers that is not empty has a least element.
LEMMA LeastNumber ==
  ASSUME NEW S, S \subseteq Nat, S # {}
  PROVE  \E n \in S : \A k \in S : n <= k
<1> DEFINE R == OpToRel(<, Nat)
<1>1. PICK n \in S : \A k \in S : <<k, n>> \notin R
  BY NatLessThanWellFounded, WFMin, Zenon
<1>2. \A k \in S : ~(k < n)
  <2> TAKE k \in S
  <2>1. k \in Nat /\ n \in Nat /\ <<k, n>> \notin R
    BY <1>1
  <2>2. k < n => <<k, n>> \in R
    BY <2>1 DEF OpToRel
  <2> QED
    BY <2>1, <2>2
<1> QED
  BY <1>2

\* temp is what is before the match, the new part, and what is behind the match.
LEMMA ReplacedIs ==
  ASSUME args \in Seq(Chars) \X Seq(Chars), buff \in [Places -> Bytes], Matches # {}
  PROVE  \E n \in Places :
           /\ n + Len(Old) <= BufSize + 1 /\ \A m \in 1..n - 1 : m \notin Matches
           /\ \A k \in 1..Len(Old) : buff[n + k - 1] = Old[k]
           /\ Replaced \in Seq(Bytes) /\ Len(Replaced) = BufSize - Len(Old) + Len(New)
           /\ \A k \in 1..n - 1 : Replaced[k] = buff[k]
           /\ \A k \in 1..Len(New) : Replaced[n + k - 1] = New[k]
           /\ \A k \in n + Len(Old)..BufSize : Replaced[k - Len(Old) + Len(New)] = buff[k]
<1> DEFINE n == CHOOSE m \in Matches : \A k \in Matches : m <= k
<1>1. Old \in Seq(Chars) /\ New \in Seq(Chars) /\ Len(Old) \in Nat /\ Len(New) \in Nat
  BY DEF Old, New
<1>2. Matches \subseteq Nat
  BY <1>1 DEF Matches
<1>3. n \in Matches /\ \A k \in Matches : n <= k
  <2>1. \E m \in Matches : \A k \in Matches : m <= k
    BY <1>2, LeastNumber
  <2> QED
    BY <2>1
<1>4. Replaced = Before(n) \o New \o After(n)
  BY DEF Replaced
<1> HIDE DEF n
<1>5. n \in 1..BufSize - Len(Old) + 1 /\ n \in Int
      /\ \A k \in 1..Len(Old) : buff[n + k - 1] = Old[k]
  BY <1>3 DEF Matches
<1>6. n \in Places
  <2>1. CASE Len(Old) = 0
    <3>1. 1 \in Matches
      BY <1>1, <2>1 DEF Matches
    <3> QED
      BY <1>3, <1>5, <3>1 DEF Places
  <2>2. CASE Len(Old) # 0
    BY <1>1, <1>5, <2>2 DEF Places
  <2> QED
    BY <2>1, <2>2
<1>7. /\ Before(n) \in Seq(Bytes) /\ Len(Before(n)) = n - 1
      /\ \A k \in 1..n - 1 : Before(n)[k] = buff[k]
  <2>1. n - 1 \in Nat /\ \A k \in 1..n - 1 : buff[k] \in Bytes
    BY <1>6 DEF Places
  <2> QED
    BY <2>1 DEF Before
<1> DEFINE r == BufSize - n + 1 - Len(Old)
<1>8. /\ After(n) \in Seq(Bytes) /\ Len(After(n)) = r
      /\ \A k \in 1..r : After(n)[k] = buff[n + Len(Old) + k - 1]
  <2>1. r \in Nat /\ \A k \in 1..r : n + Len(Old) + k - 1 \in Places
    BY <1>1, <1>5 DEF Places
  <2>2. \A k \in 1..r : buff[n + Len(Old) + k - 1] \in Bytes
    BY <2>1
  <2>3. After(n) = [k \in 1..r |-> buff[n + Len(Old) + k - 1]]
    BY DEF After
  <2> HIDE DEF r
  <2> QED
    BY <2>1, <2>2, <2>3
<1>9. New \in Seq(Bytes)
  BY <1>1 DEF Bytes
<1> DEFINE front == Before(n) \o New
<1>10. /\ front \in Seq(Bytes) /\ Len(front) = n - 1 + Len(New)
       /\ \A i \in 1..n - 1 + Len(New) :
            front[i] = IF i <= n - 1 THEN Before(n)[i] ELSE New[i - (n - 1)]
  BY <1>7, <1>9, ConcatProperties
<1> HIDE DEF front
<1> DEFINE L == n - 1 + Len(New)
<1>11. /\ Replaced \in Seq(Bytes) /\ Len(Replaced) = L + r
       /\ \A i \in 1..L + r :
            Replaced[i] = IF i <= L THEN front[i] ELSE After(n)[i - L]
  <2> DEFINE t == After(n)
  <2>1. Replaced = front \o t /\ t \in Seq(Bytes) /\ Len(t) = r
    BY <1>4, <1>8 DEF front
  <2> HIDE DEF t
  <2>2. /\ Replaced \in Seq(Bytes) /\ Len(Replaced) = Len(front) + Len(t)
        /\ \A i \in 1..Len(front) + Len(t) :
             Replaced[i] = IF i <= Len(front) THEN front[i] ELSE t[i - Len(front)]
    BY <1>10, <2>1, ConcatProperties
  <2>3. Len(front) = L
    BY <1>10
  <2> HIDE DEF L, r
  <2>4. /\ Replaced \in Seq(Bytes) /\ Len(Replaced) = L + r
        /\ \A i \in 1..L + r : Replaced[i] = IF i <= L THEN front[i] ELSE t[i - L]
    BY <2>1, <2>2, <2>3
  <2> QED
    BY <2>4 DEF t
<1>12. Len(Replaced) = BufSize - Len(Old) + Len(New)
  BY <1>1, <1>5, <1>11
<1>13. ASSUME NEW k \in 1..n - 1 PROVE Replaced[k] = buff[k]
  <2>1. k \in 1..L + r /\ k <= L /\ k \in 1..n - 1 + Len(New) /\ k <= n - 1
    BY <1>1, <1>5
  <2> HIDE DEF L, r
  <2> QED
    BY <1>7, <1>10, <1>11, <2>1
<1>14. ASSUME NEW k \in 1..Len(New) PROVE Replaced[n + k - 1] = New[k]
  <2>1. /\ n + k - 1 \in 1..L + r /\ n + k - 1 <= L /\ n + k - 1 \in 1..n - 1 + Len(New)
        /\ ~(n + k - 1 <= n - 1) /\ n + k - 1 - (n - 1) = k
    BY <1>1, <1>5
  <2>2. front[n + k - 1] = New[k]
    <3> DEFINE j == n + k - 1
    <3>1. j \in 1..n - 1 + Len(New) /\ ~(j <= n - 1) /\ j - (n - 1) = k
      BY <1>1, <1>5
    <3> HIDE DEF j
    <3>2. front[j] = New[j - (n - 1)]
      BY <1>10, <3>1
    <3> QED
      BY <3>1, <3>2 DEF j
  <2> HIDE DEF L, r
  <2> QED
    BY <1>11, <2>1, <2>2
<1>15. ASSUME NEW k \in n + Len(Old)..BufSize
       PROVE  Replaced[k - Len(Old) + Len(New)] = buff[k]
  <2> DEFINE i == k - Len(Old) + Len(New)
  <2>1. /\ i \in 1..L + r /\ ~(i <= L) /\ i - L \in 1..r
        /\ n + Len(Old) + (i - L) - 1 = k
    BY <1>1, <1>5
  <2> HIDE DEF L, r, i
  <2>2. Replaced[i] = buff[k]
    BY <1>8, <1>11, <2>1
  <2> QED
    BY <2>2 DEF i
<1>16. n + Len(Old) <= BufSize + 1
  BY <1>1, <1>5
<1>17. \A m \in 1..n - 1 : m \notin Matches
  <2>1. \A m \in 1..n - 1 : ~(n <= m)
    BY <1>5
  <2> QED
    BY <1>3, <2>1
<1> HIDE DEF L, r
<1> QED
  BY <1>5, <1>6, <1>11, <1>12, <1>13, <1>14, <1>15, <1>16, <1>17

\* In a buffer that holds the text strstr() finds old where it occurs.
LEMMA MatchesAre ==
  ASSUME args \in Seq(Chars) \X Seq(Chars), \A n \in Places : buff[n] = Text(n),
         NEW m \in Places
  PROVE  Occurs(m) <=> m \in Matches
<1>1. Len(Old) \in Nat /\ m \in Int /\ m >= 1
  BY DEF Old, Places
<1>2. m \in 1..BufSize - Len(Old) + 1 <=> m + Len(Old) - 1 <= BufSize
  BY <1>1
<1>3. ASSUME m + Len(Old) - 1 <= BufSize, NEW k \in 1..Len(Old)
      PROVE  buff[m + k - 1] = Text(m + k - 1)
  <2>1. m + k - 1 \in Places
    BY <1>1, <1>3 DEF Places
  <2> QED
    BY <2>1
<1> QED
  BY <1>2, <1>3 DEF Occurs, Matches

\* "substring not found" and "replacement causes buffer overflow".
LEMMA ReplaceFailsIInv ==
  ASSUME IInv, ReplaceFails
  PROVE  IInv'
<1>1. /\ pc = "replace" /\ Exit(2)
      /\ Matches = {} \/ BufSize - Len(Old) + Len(New) > BufSize
      /\ UNCHANGED <<argvars, buff, src, len, flag, ptr, end, words>>
  BY DEF ReplaceFails
<1>2. /\ src = Len(input) + 1 /\ Len(input) \in Nat /\ args \in Seq(Chars) \X Seq(Chars)
      /\ \A n \in Places : buff[n] = Text(n)
  BY <1>1 DEF IInv, Phase, Stored, Operations, TypeOK
<1>3. ~(src <= Len(input)) /\ 2 \in 1..2
  BY <1>2
<1>4. Refusal
  <2>1. Len(Old) \in Nat /\ Len(New) \in Nat
    BY <1>2 DEF Old, New
  <2>2. BufSize - Len(Old) + Len(New) > BufSize => Len(New) > Len(Old)
    BY <2>1
  <2>3. Matches = {} => \A n \in Places : ~Occurs(n)
    BY <1>2, MatchesAre
  <2> QED
    BY <1>1, <1>2, <2>2, <2>3 DEF Refusal
<1> QED
  BY <1>1, <1>3, <1>4, FailIInv

\* The part that was found is replaced, and the rest moves up to it.
LEMMA ReplaceIInv ==
  ASSUME IInv, Replace
  PROVE  IInv'
<1>1. /\ pc = "replace" /\ Matches # {} /\ BufSize - Len(Old) + Len(New) <= BufSize
      /\ buff' = Copied(Replaced) /\ pc' = "exit" /\ status' = 0
      /\ UNCHANGED <<opt, input, args, src, len, flag, ptr, end, words>>
  BY DEF Replace, Exit, argvars
<1>2. /\ input \in Seq(Chars) /\ len \in 0..BufSize /\ buff \in [Places -> Bytes]
      /\ args \in Seq(Chars) \X Seq(Chars) /\ Len(input) \in Nat
      /\ opt \in {"c", "r", "w", "x", "z"}
  BY DEF IInv, TypeOK
<1>3. /\ src = Len(input) + 1 /\ len = Cardinality(Kept) /\ pc = Loop[opt]
      /\ \A n \in Places : buff[n] = Text(n)
  BY <1>1 DEF IInv, Phase, Operations, Stored
<1>4. opt = "x"
  <2>1. Loop["c"] # "replace" /\ Loop["r"] # "replace" /\ Loop["w"] # "replace"
    BY DEF Loop
  <2>2. opt # "z"
    BY <1>1 DEF IInv, Phase, Operations
  <2> QED
    BY <1>1, <1>2, <1>3, <2>1, <2>2
<1>5. Old \in Seq(Chars) /\ New \in Seq(Chars) /\ Len(Old) \in Nat /\ Len(New) \in Nat
  BY <1>2 DEF Old, New
<1>6. PICK n \in Places :
           /\ n + Len(Old) <= BufSize + 1 /\ \A m \in 1..n - 1 : m \notin Matches
           /\ \A k \in 1..Len(Old) : buff[n + k - 1] = Old[k]
           /\ Replaced \in Seq(Bytes) /\ Len(Replaced) = BufSize - Len(Old) + Len(New)
           /\ \A k \in 1..n - 1 : Replaced[k] = buff[k]
           /\ \A k \in 1..Len(New) : Replaced[n + k - 1] = New[k]
           /\ \A k \in n + Len(Old)..BufSize : Replaced[k - Len(Old) + Len(New)] = buff[k]
  BY <1>1, <1>2, ReplacedIs
<1>7. n \in Int /\ 1 <= n /\ n <= BufSize
  BY <1>6 DEF Places
<1>8. ASSUME NEW m \in Places
      PROVE  buff'[m] = IF m < BufSize /\ m <= Len(Replaced) THEN Replaced[m] ELSE "NUL"
  BY <1>1 DEF Copied
<1>9. TypeOK'
  <2>1. buff' \in [Places -> Bytes]
    <3>1. ASSUME NEW m \in Places, m <= Len(Replaced) PROVE Replaced[m] \in Bytes
      <4>1. m \in 1..Len(Replaced)
        BY <3>1 DEF Places
      <4> QED
        BY <1>6, <4>1, ElementOfSeq
    <3>2. \A m \in Places :
            (IF m < BufSize /\ m <= Len(Replaced) THEN Replaced[m] ELSE "NUL") \in Bytes
      BY <3>1 DEF Bytes
    <3> QED
      BY <1>1, <3>2 DEF Copied
  <2> QED
    BY <1>1, <2>1 DEF IInv, TypeOK
<1>10. /\ Kept' = Kept /\ Collapsed' = Collapsed /\ Old' = Old /\ New' = New
       /\ \A k : Text(k)' = Text(k)
  BY <1>1, ArgumentsStay
<1>11. Phase' /\ Collapsing' /\ CountingWords' /\ MeasuringWords' /\ Reversing'
  BY <1>1, <1>3, <1>10
     DEF Phase, Collapsing, CountingWords, MeasuringWords, Reversing, Operations
<1>12. Stored'
  <2>1. ~(src <= Len(input))
    BY <1>2, <1>3
  <2> QED
    BY <1>1, <2>1 DEF Stored
<1>13. WordsRight' /\ ReverseRight'
  BY <1>1, <1>4 DEF WordsRight, ReverseRight, Succeeded
<1>14. ASSUME NEW k \in 1..n - 1 PROVE buff'[k] = Text(k)
  <2>1. k \in Places /\ k < BufSize
    BY <1>7 DEF Places
  <2>2. k <= Len(Replaced)
    BY <1>5, <1>6, <1>7
  <2> QED
    BY <1>3, <1>6, <1>8, <2>1, <2>2
<1>15. ASSUME NEW k \in 1..Len(Old) PROVE Text(n + k - 1) = Old[k]
  <2>1. n + k - 1 \in Places
    BY <1>5, <1>6, <1>7 DEF Places
  <2> QED
    BY <1>3, <1>6, <2>1
<1>16. ASSUME NEW k \in 1..Len(New), n + k - 1 < BufSize PROVE buff'[n + k - 1] = New[k]
  <2>1. n + k - 1 \in Places /\ n + k - 1 <= Len(Replaced)
    BY <1>5, <1>6, <1>7, <1>16 DEF Places
  <2> QED
    BY <1>6, <1>8, <1>16, <2>1
<1>17. ASSUME NEW k \in n + Len(Old)..BufSize, k - Len(Old) + Len(New) < BufSize
       PROVE  buff'[k - Len(Old) + Len(New)] = Text(k)
  <2>1. k \in n + Len(Old)..BufSize /\ k \in Places
    BY <1>2, <1>5, <1>7 DEF Places
  <2>2. k - Len(Old) + Len(New) \in Places /\ k - Len(Old) + Len(New) <= Len(Replaced)
    BY <1>5, <1>6, <1>7, <1>17, <2>1 DEF Places
  <2>3. buff'[k - Len(Old) + Len(New)] = Replaced[k - Len(Old) + Len(New)]
    BY <1>8, <1>17, <2>2
  <2>4. Replaced[k - Len(Old) + Len(New)] = buff[k]
    BY <1>6, <2>1
  <2> QED
    BY <1>3, <2>1, <2>3, <2>4
<1>18. Occurs(n) /\ \A m \in 1..n - 1 : ~Occurs(m)
  <2>1. n + Len(Old) - 1 <= BufSize
    BY <1>5, <1>6, <1>7
  <2>2. ASSUME NEW m \in 1..n - 1 PROVE ~Occurs(m)
    <3>1. m \in Places
      BY <1>7 DEF Places
    <3> QED
      BY <1>2, <1>3, <1>6, <3>1, MatchesAre
  <2> QED
    BY <1>15, <2>1, <2>2 DEF Occurs
<1>19. ASSUME NEW k \in Places, k = BufSize \/ k > BufSize - Len(Old) + Len(New)
       PROVE  buff'[k] = "NUL"
  <2>1. ~(k < BufSize /\ k <= Len(Replaced))
    BY <1>5, <1>6, <1>19 DEF Places
  <2> QED
    BY <1>8, <2>1
<1>20. ReplaceKeepsRest'
  <2>1. \A k \in 1..n - 1 : buff'[k] = Text(k)'
    BY <1>10, <1>14
  <2>2. \A m : Occurs(m)' <=> Occurs(m)
    BY <1>1, <1>10 DEF Occurs, Text
  <2>3. \A k \in 1..Len(New)' : n + k - 1 < BufSize => buff'[n + k - 1] = New'[k]
    BY <1>10, <1>16
  <2>4. \A k \in n + Len(Old)'..BufSize :
          k - Len(Old)' + Len(New)' < BufSize => buff'[k - Len(Old)' + Len(New)'] = Text(k)'
    BY <1>1, <1>10, <1>17
  <2>5. \A k \in Places :
          k = BufSize \/ k > BufSize - Len(Old)' + Len(New)' => buff'[k] = "NUL"
    BY <1>10, <1>19
  <2>6. (Occurs(n) /\ \A m \in 1..n - 1 : ~Occurs(m))'
    BY <1>18, <2>2
  <2>7. status' # 2
    BY <1>1
  <2> QED
    BY <1>6, <2>1, <2>3, <2>4, <2>5, <2>6, <2>7 DEF ReplaceKeepsRest
<1> QED
  BY <1>9, <1>11, <1>12, <1>13, <1>20 DEF IInv
-----------------------------------------------------------------------------
(***************************************************************************)
(* count_words() and print_words(): words and the places of their          *)
(* characters.                                                             *)
(***************************************************************************)
\* The characters that are kept have places in the order of the input.
LEMMA PlacesInOrder ==
  ASSUME input \in Seq(Chars), NEW k \in Kept, NEW m \in Kept
  PROVE  /\ k \in 1..Len(input) /\ Upto(k) \in Nat /\ Upto(m) \in Nat
         /\ Upto(k) < Upto(m) <=> k < m
<1>1. k \in 1..Len(input) /\ k \in Int /\ m \in Int /\ Upto(k) \in Nat /\ Upto(m) \in Nat
  BY KeptFacts
<1>2. k < m => Upto(k) < Upto(m)
  BY <1>1, UptoGrows
<1>3. m < k => Upto(m) < Upto(k)
  BY <1>1, UptoGrows
<1>4. ~(k < m) => ~(Upto(k) < Upto(m))
  <2>1. CASE k = m
    BY <1>1, <2>1
  <2>2. CASE m < k
    BY <1>1, <1>3, <2>2
  <2> QED
    BY <1>1, <2>1, <2>2
<1> QED
  BY <1>1, <1>2, <1>4

\* Of a run of white space the first character is kept, so that the last place
\* of the text up to a blank is not one of a word.
LEMMA BlankText ==
  ASSUME input \in Seq(Chars)
  PROVE  \A k \in 1..Len(input) : input[k] \in Blanks => ~IsWordChar(Text(Upto(k)))
<1> DEFINE Bad(m) == input[m] \in Blanks /\ IsWordChar(Text(Upto(m)))
           S == {m \in 1..Len(input) : Bad(m)}
<1>1. Len(input) \in Nat /\ DOMAIN input = 1..Len(input)
  OBVIOUS
<1> HIDE DEF Bad
<1>2. ASSUME S # {} PROVE FALSE
  <2>1. S \subseteq Nat
    BY <1>1
  <2> HIDE DEF S
  <2>2. PICK n \in S : \A m \in S : n <= m
    BY <1>2, <2>1, LeastNumber
  <2>3. n \in 1..Len(input) /\ n \in Int /\ input[n] \in Blanks /\ IsWordChar(Text(Upto(n)))
    BY <1>1 DEF S, Bad
  <2>4. n \notin Kept
    <3>1. ~IsWordChar(input[n])
      BY <2>3 DEF IsWordChar
    <3> QED
      BY <2>3, <3>1, WordsAreKept
  <2>5. n > 1 /\ input[n - 1] \in Blanks
    BY <1>1, <2>3, <2>4 DEF Kept
  <2>6. Upto(n - 1) = Upto(n)
    <3>1. Upto(n) = Upto(n - 1) + 0 /\ Upto(n - 1) \in Nat
      <4>1. n - 1 \in Int
        BY <2>3
      <4> QED
        BY <2>3, <2>4, <4>1, KeptFacts
    <3> QED
      BY <3>1
  <2>7. n - 1 \in 1..Len(input) /\ ~(n <= n - 1)
    BY <1>1, <2>3, <2>5
  <2>8. n - 1 \in S
    <3>1. Bad(n - 1)
      BY <2>3, <2>5, <2>6 DEF Bad
    <3> QED
      BY <2>7, <3>1 DEF S
  <2> QED
    BY <2>2, <2>7, <2>8
<1>3. \A m \in 1..Len(input) : ~Bad(m)
  BY <1>2
<1> QED
  BY <1>3 DEF Bad

\* A word begins where the place before is not of a word: the flag in_word.
LEMMA StartIs ==
  ASSUME input \in Seq(Chars), NEW k \in Kept, IsWordChar(input[k])
  PROVE  k \in WordStarts <=> ~(Upto(k) > 1 /\ IsWordChar(Text(Upto(k) - 1)))
<1>1. k \in 1..Len(input) /\ k \in Int /\ DOMAIN input = 1..Len(input) /\ Len(input) \in Nat
  BY KeptFacts
<1>2. /\ Upto(k) = Upto(k - 1) + 1 /\ Upto(k - 1) \in Nat /\ k - 1 \in Int
      /\ Upto(k) - 1 = Upto(k - 1) /\ (Upto(k) > 1 <=> Upto(k - 1) >= 1)
  <2>1. Upto(k) = Upto(k - 1) + 1 /\ Upto(k - 1) \in Nat /\ k - 1 \in Int
    BY <1>1, KeptFacts
  <2> QED
    BY <2>1
<1>3. k \in WordStarts <=> (k > 1 => ~IsWordChar(input[k - 1]))
  BY <1>1 DEF WordStarts
<1>4. CASE k = 1
  <2>1. ~(Upto(k - 1) >= 1)
    BY <1>1, <1>4, KeptFacts
  <2> QED
    BY <1>2, <1>3, <1>4, <2>1
<1>5. CASE k > 1 /\ input[k - 1] \in Blanks
  <2>1. k - 1 \in 1..Len(input)
    BY <1>1, <1>5
  <2>2. ~IsWordChar(Text(Upto(k - 1)))
    BY <1>5, <2>1, BlankText
  <2>3. ~IsWordChar(input[k - 1])
    BY <1>5 DEF IsWordChar
  <2> QED
    BY <1>2, <1>3, <2>2, <2>3
<1>6. CASE k > 1 /\ input[k - 1] \notin Blanks
  <2>1. k - 1 \in 1..Len(input)
    BY <1>1, <1>6
  <2>2. k - 1 \in Kept
    BY <1>1, <1>6, <2>1 DEF Kept
  <2>3. Upto(k - 1) >= 1
    BY <2>2, EveryPlace
  <2>4. IsWordChar(Text(Upto(k - 1))) <=> IsWordChar(input[k - 1])
    BY <2>2, WordsAreKept
  <2> QED
    BY <1>2, <1>3, <1>6, <2>3, <2>4
<1> QED
  BY <1>1, <1>4, <1>5, <1>6

\* Words are numbered in the order of the input.
LEMMA RankFacts ==
  ASSUME input \in Seq(Chars), NEW s \in WordStarts
  PROVE  /\ Rank(s) \in Nat \ {0}
         /\ IsFiniteSet(WordStarts)
         /\ \A t \in WordStarts : s < t => Rank(s) < Rank(t)
<1>1. WordStarts \subseteq 1..Len(input) /\ Len(input) \in Nat
  BY DEF WordStarts
<1>2. IsFiniteSet(WordStarts) /\ WordStarts \subseteq Int
  <2>1. IsFiniteSet(1..Len(input)) /\ 1..Len(input) \subseteq Int
    BY <1>1, FS_Interval
  <2> QED
    BY <1>1, <2>1, FS_Subset
<1> DEFINE C(m) == Cardinality(AtMost(WordStarts, m))
<1>3. \A m : Rank(m) = C(m)
  BY DEF Rank, AtMost
<1>4. ASSUME NEW m \in Int
      PROVE  /\ IsFiniteSet(AtMost(WordStarts, m)) /\ C(m) \in Nat
             /\ C(m) = C(m - 1) + (IF m \in WordStarts THEN 1 ELSE 0)
  BY <1>2, CountUpTo
<1>5. \A m \in WordStarts : m \in Int /\ m - 1 \in Int
  BY <1>2
<1>6. ASSUME NEW m \in WordStarts PROVE C(m) = C(m - 1) + 1 /\ C(m) \in Nat /\ C(m - 1) \in Nat
  BY <1>4, <1>5
<1>7. ASSUME NEW t \in WordStarts, s < t PROVE C(s) < C(t)
  <2>1. AtMost(WordStarts, s) \in SUBSET AtMost(WordStarts, t - 1)
    BY <1>5, <1>7 DEF AtMost
  <2>2. C(s) <= C(t - 1)
    BY <1>4, <1>5, <2>1, FS_Subset
  <2> HIDE DEF C
  <2> QED
    BY <1>6, <2>2
<1> HIDE DEF C
<1>8. C(s) \in Nat \ {0}
  BY <1>6
<1> QED
  BY <1>2, <1>3, <1>7, <1>8

\* A word ends before the next one begins.
LEMMA WordsApart ==
  ASSUME input \in Seq(Chars), NEW s \in WordStarts, NEW t \in WordStarts, s < t,
         NEW k \in WordAt(s)
  PROVE  k < t
<1>1. s \in Int /\ t \in Int /\ k \in Int /\ s <= k
      /\ \A m \in s..k : IsWordChar(input[m])
  BY DEF WordStarts, WordAt
<1>2. t > 1 /\ ~IsWordChar(input[t - 1])
  <2>1. s >= 1
    BY DEF WordStarts
  <2> QED
    BY <1>1, <2>1 DEF WordStarts
<1>3. t <= k => t - 1 \in s..k
  BY <1>1
<1> QED
  BY <1>1, <1>2, <1>3

\* Every character of a word is kept.
LEMMA WordAtIsKept ==
  ASSUME input \in Seq(Chars), NEW s \in WordStarts
  PROVE  /\ WordAt(s) \subseteq Kept /\ s \in WordAt(s) /\ s \in Kept
         /\ \A k \in WordAt(s) : k \in Int /\ s <= k /\ IsWordChar(input[k])
         /\ IsFiniteSet(WordAt(s))
<1>1. s \in 1..Len(input) /\ IsWordChar(input[s]) /\ Len(input) \in Nat
      /\ DOMAIN input = 1..Len(input)
  BY DEF WordStarts
<1>2. \A k \in WordAt(s) : k \in Int /\ s <= k /\ IsWordChar(input[k]) /\ k \in 1..Len(input)
  BY <1>1 DEF WordAt
<1>3. s \in WordAt(s)
  <2>1. \A m \in s..s : m = s
    BY <1>1
  <2>2. s \in s..Len(input)
    BY <1>1
  <2> QED
    BY <1>1, <2>1, <2>2 DEF WordAt
<1>4. WordAt(s) \subseteq Kept
  BY <1>1, <1>2, WordsAreKept
<1>5. IsFiniteSet(WordAt(s))
  BY <1>4, KeptFacts, FS_Subset
<1> QED
  BY <1>1, <1>2, <1>3, <1>4, <1>5
\* The loop takes one more character of the text, k of the input: it is the first
\* of a word exactly if it is a character of a word and the flag is not set.
LEMMA NextChar ==
  ASSUME IInv, pc \in {"count", "words"}, ptr <= len,
         ptr' = ptr + 1, UNCHANGED <<input, args>>
  PROVE  \E k \in Kept :
           /\ Upto(k) = ptr
           /\ IsWordChar(buff[ptr]) <=> IsWordChar(input[k])
           /\ k \in WordStarts <=> (IsWordChar(buff[ptr]) /\ ~flag)
           /\ k \notin Counted /\ IsFiniteSet(Counted)
           /\ Counted' = Counted \cup (WordStarts \cap {k})
<1>1. /\ input \in Seq(Chars) /\ len \in 0..BufSize /\ ptr \in 1..BufSize + 1
  BY DEF IInv, TypeOK
<1>2. /\ len = Cardinality(Kept) /\ \A n \in Places : buff[n] = Text(n)
  BY DEF IInv, Phase, Stored, Operations
<1>3. ptr \in Places /\ ptr \in 1..Cardinality(Kept) /\ ptr \in Int
  BY <1>1, <1>2 DEF Places
<1>4. flag <=> (ptr > 1 /\ IsWordChar(Text(ptr - 1)))
  BY DEF IInv, CountingWords
<1>5. PICK k \in Kept : Upto(k) = ptr
  BY <1>1, <1>3, EveryPlace
<1>6. IsWordChar(buff[ptr]) <=> IsWordChar(input[k])
  BY <1>1, <1>2, <1>3, <1>5, WordsAreKept
<1>7. k \in WordStarts <=> (IsWordChar(buff[ptr]) /\ ~flag)
  <2>1. CASE IsWordChar(input[k])
    <3>1. k \in WordStarts <=> ~(ptr > 1 /\ IsWordChar(Text(ptr - 1)))
      BY <1>1, <1>5, <2>1, StartIs
    <3> QED
      BY <1>4, <1>6, <2>1, <3>1
  <2>2. CASE ~IsWordChar(input[k])
    BY <1>6, <2>2 DEF WordStarts
  <2> QED
    BY <2>1, <2>2
<1>8. WordStarts \subseteq Kept /\ IsFiniteSet(Kept)
  BY <1>1, WordsAreKept, KeptFacts
<1>9. IsFiniteSet(Counted) /\ k \notin Counted
  <2>1. Counted \in SUBSET Kept
    BY <1>8 DEF Counted
  <2>2. ~(ptr < ptr)
    BY <1>3
  <2> QED
    BY <1>5, <1>8, <2>1, <2>2, FS_Subset DEF Counted
<1>10. Counted' = Counted \cup (WordStarts \cap {k})
  <2>1. ASSUME NEW j \in WordStarts PROVE Upto(j) < ptr + 1 <=> Upto(j) < ptr \/ j = k
    <3>1. j \in Kept /\ Upto(j) \in Nat
      BY <1>1, <1>8, PlacesInOrder
    <3>2. Upto(j) = ptr <=> j = k
      BY <1>1, <1>5, <3>1, SamePlace
    <3> QED
      BY <1>3, <3>1, <3>2
  <2>2. Counted' = {j \in WordStarts : Upto(j) < ptr + 1}
    BY ArgumentsStay DEF Counted
  <2> QED
    BY <2>1, <2>2 DEF Counted
<1> QED
  BY <1>5, <1>6, <1>7, <1>9, <1>10

\* A step of one of the two loops keeps what it does not write.
LEMMA CountingStep ==
  ASSUME IInv, pc \in {"count", "words"}, ptr <= len, ptr' = ptr + 1,
         flag' = IsWordChar(buff[ptr]), words' \in Seq(Places),
         UNCHANGED <<pc, argvars, buff, src, len, end, status>>
  PROVE  /\ TypeOK' /\ Phase' /\ Collapsing' /\ Reversing' /\ Stored'
         /\ WordsRight' /\ ReverseRight' /\ ReplaceKeepsRest'
         /\ flag' <=> (ptr' > 1 /\ IsWordChar((Text(ptr - 1))'))
<1>1. /\ input \in Seq(Chars) /\ len \in 0..BufSize /\ ptr \in 1..BufSize + 1
      /\ UNCHANGED <<pc, opt, input, args, buff, src, len, end, status>>
  BY DEF IInv, TypeOK, argvars
<1>2. \A n \in Places : buff[n] = Text(n)
  BY DEF IInv, Stored
<1>3. ptr \in Places /\ ptr' > 1 /\ ptr' - 1 = ptr /\ ptr' \in 1..BufSize + 1 /\ ptr' <= len + 1
  BY <1>1 DEF Places
<1>4. /\ Kept' = Kept /\ Collapsed' = Collapsed /\ \A n : Text(n)' = Text(n)
  BY <1>1, ArgumentsStay
<1>5. TypeOK'
  <2>1. flag' \in BOOLEAN
    BY DEF IsWordChar
  <2> QED
    BY <1>1, <1>3, <2>1 DEF IInv, TypeOK
<1>6. Phase' /\ Collapsing' /\ Reversing' /\ Stored'
  <2>1. ptr' <= len' + 1
    BY <1>1, <1>3
  <2> QED
    BY <1>1, <1>4, <2>1 DEF IInv, Phase, Collapsing, Reversing, Stored, Operations
<1>7. WordsRight' /\ ReverseRight' /\ ReplaceKeepsRest'
  BY <1>1 DEF WordsRight, ReverseRight, ReplaceKeepsRest, Succeeded
<1>8. flag' <=> (ptr' > 1 /\ IsWordChar((Text(ptr - 1))'))
  <2>1. (Text(ptr - 1))' = Text(ptr)
    BY <1>1, <1>3, <1>4 DEF Text
  <2>2. buff[ptr] = Text(ptr)
    BY <1>2, <1>3
  <2> QED
    BY <1>3, <2>1, <2>2
<1> QED
  BY <1>5, <1>6, <1>7, <1>8

\* count_words() counts a word at its first character.
LEMMA CountCharIInv ==
  ASSUME IInv, CountChar
  PROVE  IInv'
<1>1. /\ pc = "count" /\ ptr <= len /\ ptr' = ptr + 1
      /\ flag' = IsWordChar(buff[ptr])
      /\ words' = (IF IsWordChar(buff[ptr]) /\ ~flag THEN Append(words, 1) ELSE words)
      /\ UNCHANGED <<pc, argvars, buff, src, len, end, status>>
      /\ UNCHANGED <<pc, input, args>>
  BY DEF CountChar, argvars
<1>2. /\ words \in Seq(Places) /\ ptr \in 1..BufSize + 1 /\ Len(words) \in Nat
  BY DEF IInv, TypeOK
<1>3. /\ Len(words) = Cardinality(Counted) /\ \A n \in DOMAIN words : words[n] < ptr
  BY <1>1 DEF IInv, CountingWords
<1>4. PICK k \in Kept :
           /\ k \in WordStarts <=> (IsWordChar(buff[ptr]) /\ ~flag)
           /\ k \notin Counted /\ IsFiniteSet(Counted)
           /\ Counted' = Counted \cup (WordStarts \cap {k})
  BY <1>1, NextChar
<1>5. 1 \in Places
  BY DEF Places
<1>6. /\ words' \in Seq(Places) /\ Len(words') = Cardinality(Counted')
      /\ \A n \in DOMAIN words' : words'[n] < ptr'
  <2>1. CASE k \in WordStarts
    <3>1. words' = Append(words, 1) /\ Counted' = Counted \cup {k}
      BY <1>1, <1>4, <2>1
    <3>2. /\ words' \in Seq(Places) /\ Len(words') = Len(words) + 1
          /\ \A n \in 1..Len(words) : words'[n] = words[n]
          /\ words'[Len(words) + 1] = 1
      BY <1>2, <1>5, <3>1, AppendProperties
    <3>3. Cardinality(Counted') = Cardinality(Counted) + 1
      BY <1>4, <3>1, FS_AddElement
    <3>4. ASSUME NEW n \in DOMAIN words' PROVE words'[n] < ptr'
      <4>1. n \in 1..Len(words) \/ n = Len(words) + 1
        BY <1>2, <3>2
      <4>2. CASE n = Len(words) + 1
        BY <1>1, <1>2, <3>2, <4>2
      <4>3. CASE n \in 1..Len(words)
        <5>1. words[n] < ptr /\ words[n] \in Places
          BY <1>2, <1>3, <4>3
        <5> QED
          BY <1>1, <1>2, <3>2, <4>3, <5>1 DEF Places
      <4> QED
        BY <4>1, <4>2, <4>3
    <3> QED
      BY <1>3, <3>2, <3>3, <3>4
  <2>2. CASE k \notin WordStarts
    <3>1. words' = words /\ Counted' = Counted
      BY <1>1, <1>4, <2>2
    <3>2. \A n \in DOMAIN words : words[n] \in Int
      BY <1>2 DEF Places
    <3>3. \A n \in DOMAIN words : words[n] < ptr + 1
      BY <1>2, <1>3, <3>2
    <3> QED
      BY <1>1, <1>2, <1>3, <3>1, <3>3
  <2> QED
    BY <2>1, <2>2
<1>7. /\ TypeOK' /\ Phase' /\ Collapsing' /\ Reversing' /\ Stored'
      /\ WordsRight' /\ ReverseRight' /\ ReplaceKeepsRest'
      /\ flag' <=> (ptr' > 1 /\ IsWordChar((Text(ptr - 1))'))
  BY <1>1, <1>6, CountingStep
<1>8. CountingWords' /\ MeasuringWords'
  BY <1>1, <1>6, <1>7 DEF CountingWords, MeasuringWords
<1> QED
  BY <1>7, <1>8 DEF IInv
\* The number of a word that was met is a place of words, a later word has a
\* greater one, and a word that was not met has none of these.
LEMMA CountedRank ==
  ASSUME input \in Seq(Chars), ptr \in Int, NEW s \in Counted
  PROVE  /\ s \in WordStarts /\ s \in Kept /\ IsFiniteSet(Counted)
         /\ Rank(s) \in 1..Cardinality(Counted)
<1>1. s \in WordStarts /\ s \in Kept /\ Upto(s) < ptr
  BY WordsAreKept DEF Counted
<1>2. IsFiniteSet(Counted)
  <2>1. Counted \in SUBSET WordStarts
    BY DEF Counted
  <2> QED
    BY <1>1, <2>1, RankFacts, FS_Subset
<1>3. {k \in WordStarts : k <= s} \in SUBSET Counted
  <2>1. ASSUME NEW k \in WordStarts, k <= s PROVE Upto(k) < ptr
    <3>1. k \in Kept
      BY WordsAreKept
    <3>2. k \in Int /\ s \in Int /\ Upto(k) \in Nat /\ Upto(s) \in Nat
          /\ (Upto(k) < Upto(s) <=> k < s)
      BY <1>1, <3>1, PlacesInOrder, KeptFacts
    <3>3. CASE k = s
      BY <1>1, <3>3
    <3>4. CASE k < s
      BY <1>1, <3>2, <3>4
    <3> QED
      BY <2>1, <3>2, <3>3, <3>4
  <2> QED
    BY <2>1 DEF Counted
<1>4. Rank(s) <= Cardinality(Counted) /\ Cardinality(Counted) \in Nat
  BY <1>2, <1>3, FS_Subset, FS_CardinalityType DEF Rank
<1>5. Rank(s) \in Nat \ {0}
  BY <1>1, RankFacts
<1> QED
  BY <1>1, <1>2, <1>4, <1>5

\* print_words() prints a character of a word: the first one begins a new word,
\* and every other one is one more of the last word.
LEMMA PrintCharIInv ==
  ASSUME IInv, PrintChar
  PROVE  IInv'
<1> DEFINE b == IsWordChar(buff[ptr])
           L == Len(words)
<1>1. /\ pc = "words" /\ ptr <= len /\ ptr' = ptr + 1 /\ flag' = b
      /\ words' = (IF b THEN Grown(words) ELSE words)
      /\ UNCHANGED <<pc, argvars, buff, src, len, end, status>>
      /\ UNCHANGED <<pc, input, args>>
  BY DEF PrintChar, argvars
<1>2. /\ words \in Seq(Places) /\ ptr \in 1..BufSize + 1 /\ len \in 0..BufSize
      /\ L \in Nat /\ DOMAIN words = 1..L /\ input \in Seq(Chars) /\ ptr \in Int
  BY DEF IInv, TypeOK
<1>3. /\ L = Cardinality(Counted) /\ \A n \in 1..L : words[n] < ptr
      /\ \A s \in Counted : words[Rank(s)] = Cardinality(Reached(s))
      /\ flag => \E s \in Counted : /\ Rank(s) = L
                                    /\ \E k \in WordAt(s) : Upto(k) = ptr - 1
  BY <1>1, <1>2 DEF IInv, CountingWords, MeasuringWords
<1>4. PICK k \in Kept :
           /\ Upto(k) = ptr
           /\ b <=> IsWordChar(input[k])
           /\ k \in WordStarts <=> (b /\ ~flag)
           /\ k \notin Counted /\ IsFiniteSet(Counted)
           /\ Counted' = Counted \cup (WordStarts \cap {k})
  BY <1>1, NextChar
<1>5. \A n \in 1..L : words[n] \in Int /\ words[n] >= 1
  BY <1>2 DEF Places
<1> HIDE DEF b
<1>6. ASSUME NEW s \in Counted
      PROVE  /\ s \in WordStarts /\ s \in Kept /\ s < k /\ s \in Int /\ k \in Int
             /\ Rank(s) \in 1..L /\ IsFiniteSet(Reached(s)) /\ k \notin Reached(s)
  <2>1. s \in WordStarts /\ s \in Kept /\ Rank(s) \in 1..L /\ Upto(s) < ptr
    BY <1>2, <1>3, CountedRank DEF Counted
  <2>2. s < k /\ s \in Int /\ k \in Int
    BY <1>2, <1>4, <2>1, PlacesInOrder, KeptFacts
  <2>3. Reached(s) \in SUBSET WordAt(s) /\ k \notin Reached(s)
    BY <1>2, <1>4 DEF Reached
  <2>4. IsFiniteSet(Reached(s))
    BY <1>2, <2>1, <2>3, WordAtIsKept, FS_Subset
  <2> QED
    BY <2>1, <2>2, <2>3, <2>4
<1>7. ASSUME NEW s \in WordStarts
      PROVE  Reached(s)' = Reached(s) \cup (WordAt(s) \cap {k})
  <2>1. ASSUME NEW j \in WordAt(s) PROVE Upto(j) < ptr + 1 <=> Upto(j) < ptr \/ j = k
    <3>1. j \in Kept
      BY <1>2, WordAtIsKept
    <3>2. Upto(j) \in Nat
      BY <1>2, <3>1, PlacesInOrder
    <3>3. Upto(j) = ptr <=> j = k
      BY <1>2, <1>4, <3>1, SamePlace
    <3> QED
      BY <1>2, <3>2, <3>3
  <2>2. WordAt(s)' = WordAt(s) /\ \A j : Upto(j)' = Upto(j)
    BY <1>1, ArgumentsStay
  <2>3. Reached(s)' = {j \in WordAt(s) : Upto(j) < ptr + 1}
    BY <1>1, <2>2 DEF Reached
  <2> QED
    BY <2>1, <2>3 DEF Reached
<1>8. \A s : Rank(s)' = Rank(s) /\ WordAt(s)' = WordAt(s) /\ Upto(s)' = Upto(s)
  BY <1>1, ArgumentsStay
<1> DEFINE Good ==
             /\ words' \in Seq(Places) /\ Len(words') = Cardinality(Counted')
             /\ \A n \in DOMAIN words' : words'[n] < ptr + 1
             /\ \A s \in Counted' : words'[Rank(s)] = Cardinality(Reached(s)')
             /\ b => \E s \in Counted' : /\ Rank(s) = Len(words')
                                         /\ \E j \in WordAt(s) : Upto(j) = ptr
<1>9. ASSUME ~b PROVE Good
  <2>1. words' = words /\ Counted' = Counted
    BY <1>1, <1>4, <1>9
  <2>2. ASSUME NEW s \in Counted PROVE Reached(s)' = Reached(s)
    <3>1. k \notin WordAt(s)
      BY <1>2, <1>4, <1>6, <1>9, WordAtIsKept
    <3> QED
      BY <1>6, <1>7, <3>1
  <2>3. \A n \in 1..L : words[n] < ptr + 1
    BY <1>2, <1>3, <1>5
  <2> QED
    BY <1>2, <1>3, <1>9, <2>1, <2>2, <2>3
<1>10. ASSUME b /\ ~flag PROVE Good
  <2>1. k \in WordStarts /\ Counted' = Counted \cup {k}
    BY <1>4, <1>10
  <2>2. /\ words' = Append(words, 1) /\ 1 \in Places
    BY <1>1, <1>10 DEF Grown, Places
  <2>3. /\ words' \in Seq(Places) /\ Len(words') = L + 1
        /\ \A n \in 1..L : words'[n] = words[n]
        /\ words'[L + 1] = 1
    BY <1>2, <2>2, AppendProperties
  <2>4. Cardinality(Counted') = L + 1
    BY <1>3, <1>4, <2>1, FS_AddElement
  <2>5. ASSUME NEW n \in DOMAIN words' PROVE words'[n] < ptr + 1
    <3>1. n \in 1..L \/ n = L + 1
      BY <1>2, <2>3
    <3>2. CASE n = L + 1
      BY <1>2, <2>3, <3>2
    <3>3. CASE n \in 1..L
      BY <1>2, <1>3, <1>5, <2>3, <3>3
    <3> QED
      BY <3>1, <3>2, <3>3
  <2>6. ASSUME NEW s \in Counted PROVE words'[Rank(s)] = Cardinality(Reached(s)')
    <3>1. k \notin WordAt(s)
      <4>1. k \in WordAt(s) => k < k
        BY <1>2, <1>6, <2>1, WordsApart
      <4> QED
        BY <1>6, <4>1
    <3>2. Reached(s)' = Reached(s)
      BY <1>6, <1>7, <3>1
    <3> QED
      BY <1>3, <1>6, <2>3, <3>2
  <2>7. Rank(k) = L + 1
    <3>1. ASSUME NEW j \in WordStarts PROVE j <= k <=> (Upto(j) < ptr \/ j = k)
      <4>1. j \in Kept
        BY <1>2, WordsAreKept
      <4>2. j \in Int /\ k \in Int
        BY <1>2, <4>1, KeptFacts
      <4>3. Upto(j) < ptr <=> j < k
        BY <1>2, <1>4, <4>1, PlacesInOrder
      <4>4. j <= k <=> (j < k \/ j = k)
        BY <4>2
      <4> QED
        BY <4>3, <4>4
    <3>2. {j \in WordStarts : j <= k} = Counted'
      BY <2>1, <3>1 DEF Counted
    <3> QED
      BY <2>4, <3>2 DEF Rank
  <2>8. k \in WordAt(k)
    BY <1>2, <2>1, WordAtIsKept
  <2>9. Cardinality(Reached(k)') = 1
    <3>1. Reached(k) = {}
      <4>1. ASSUME NEW j \in WordAt(k) PROVE ~(Upto(j) < ptr)
        <5>1. j \in Kept /\ j \in Int /\ k \in Int /\ k <= j
          BY <1>2, <2>1, WordAtIsKept
        <5>2. Upto(j) < ptr <=> j < k
          BY <1>2, <1>4, <5>1, PlacesInOrder
        <5> QED
          BY <5>1, <5>2
      <4> QED
        BY <4>1 DEF Reached
    <3>2. Reached(k)' = {k}
      BY <1>7, <2>1, <2>8, <3>1
    <3> QED
      BY <3>2, FS_Singleton
  <2>10. \A s \in Counted' : words'[Rank(s)] = Cardinality(Reached(s)')
    BY <2>1, <2>3, <2>6, <2>7, <2>9
  <2> QED
    BY <1>4, <2>1, <2>3, <2>4, <2>5, <2>7, <2>8, <2>10
<1>11. ASSUME b /\ flag PROVE Good
  <2>1. Counted' = Counted /\ k \notin WordStarts /\ IsWordChar(input[k])
    BY <1>4, <1>11
  <2>2. PICK t \in Counted : Rank(t) = L /\ \E j \in WordAt(t) : Upto(j) = ptr - 1
    BY <1>3, <1>11
  <2>3. PICK j \in WordAt(t) : Upto(j) = ptr - 1
    BY <2>2
  <2>4. L \in 1..L /\ t \in WordStarts
    BY <1>6, <2>2
  <2>5. /\ words' = [words EXCEPT ![L] = words[L] + 1]
    BY <1>1, <1>11 DEF Grown
  <2>6. words[L] + 1 \in Places /\ words[L] + 1 < ptr + 1 /\ words[L] \in Int
    BY <1>1, <1>2, <1>3, <1>5, <2>4 DEF Places
  <2>7. /\ words' \in Seq(Places) /\ Len(words') = L /\ DOMAIN words' = 1..L
        /\ words'[L] = words[L] + 1
        /\ \A n \in 1..L : n # L => words'[n] = words[n]
    <3>1. words \in [1..L -> Places]
      BY <1>2
    <3> DEFINE v == words[L] + 1
    <3>2. words' = [words EXCEPT ![L] = v] /\ v \in Places
      BY <2>5, <2>6
    <3> HIDE DEF v, L
    <3>3. /\ words' \in [1..L -> Places] /\ words'[L] = v
          /\ \A n \in 1..L : n # L => words'[n] = words[n]
      BY <2>4, <3>1, <3>2
    <3>4. words' \in Seq(Places) /\ Len(words') = L /\ DOMAIN words' = 1..L
      BY <1>2, <3>3
    <3> QED
      BY <3>3, <3>4 DEF v
  <2>8. \A n \in 1..L : words'[n] < ptr + 1
    BY <1>2, <1>3, <1>5, <2>6, <2>7
  <2>9. k - 1 = j /\ k \in Int /\ k \in 1..Len(input)
    <3>1. k > 1 /\ IsWordChar(input[k - 1]) /\ k \in 1..Len(input) /\ k \in Int
      <4>1. k \in 1..Len(input) /\ k \in Int
        BY <1>2, KeptFacts
      <4>2. k \in DOMAIN input
        BY <1>2, <4>1
      <4> QED
        BY <2>1, <4>1, <4>2 DEF WordStarts
    <3>2. k - 1 \in Kept
      <4>1. k - 1 \in DOMAIN input
        BY <1>2, <3>1
      <4> QED
        BY <1>2, <3>1, <4>1, WordsAreKept
    <3>3. Upto(k) = Upto(k - 1) + 1 /\ Upto(k - 1) \in Nat
      BY <1>2, <3>1, KeptFacts
    <3>4. Upto(k - 1) = Upto(j)
      BY <1>4, <2>3, <3>3
    <3>5. j \in Kept
      BY <1>2, <2>4, WordAtIsKept
    <3> QED
      BY <1>2, <3>1, <3>2, <3>4, <3>5, SamePlace
  <2>10. k \in WordAt(t)
    <3>1. t \in Int /\ t <= j /\ \A m \in t..j : IsWordChar(input[m])
      BY <1>2, <2>4, WordAtIsKept DEF WordAt
    <3>2. \A m \in t..k : m \in t..j \/ m = k
      BY <2>9, <3>1
    <3>3. k \in t..Len(input)
      BY <2>9, <3>1
    <3> QED
      BY <2>1, <3>1, <3>2, <3>3 DEF WordAt
  <2>11. ASSUME NEW s \in Counted PROVE words'[Rank(s)] = Cardinality(Reached(s)')
    <3>1. CASE s = t
      <4>1. Reached(s)' = Reached(s) \cup {k}
        BY <1>7, <2>4, <2>10, <3>1
      <4>2. Cardinality(Reached(s)') = Cardinality(Reached(s)) + 1
        BY <1>6, <4>1, FS_AddElement
      <4> QED
        BY <1>3, <2>2, <2>7, <3>1, <4>2
    <3>2. CASE s # t
      <4>1. s < t
        <5>1. ~(t < s)
          <6>1. t < s => L < Rank(s)
            BY <1>2, <1>6, <2>2, <2>4, RankFacts
          <6> QED
            BY <1>2, <1>6, <6>1
        <5> QED
          BY <1>6, <3>2, <5>1
      <4>2. k \notin WordAt(s)
        <5>1. k \in WordAt(s) => k < t
          BY <1>2, <1>6, <2>4, <4>1, WordsApart
        <5> QED
          BY <1>6, <5>1
      <4>3. Reached(s)' = Reached(s)
        BY <1>6, <1>7, <4>2
      <4>4. Rank(s) # L
        <5>1. Rank(s) < Rank(t)
          BY <1>2, <1>6, <2>4, <4>1, RankFacts
        <5> QED
          BY <1>6, <2>2, <5>1
      <4> QED
        BY <1>3, <1>6, <2>7, <4>3, <4>4
    <3> QED
      BY <3>1, <3>2
  <2>12. \E s \in Counted' : Rank(s) = Len(words') /\ \E m \in WordAt(s) : Upto(m) = ptr
    BY <1>4, <2>1, <2>2, <2>7, <2>10
  <2> QED
    BY <1>3, <2>1, <2>7, <2>8, <2>11, <2>12
<1>12. Good
  BY <1>9, <1>10, <1>11
<1>13. /\ TypeOK' /\ Phase' /\ Collapsing' /\ Reversing' /\ Stored'
       /\ WordsRight' /\ ReverseRight' /\ ReplaceKeepsRest'
       /\ flag' <=> (ptr' > 1 /\ IsWordChar((Text(ptr - 1))'))
  <2>1. words' \in Seq(Places)
    BY <1>12
  <2> QED
    BY <1>1, <2>1, CountingStep DEF b
<1>14. CountingWords'
  BY <1>1, <1>12, <1>13 DEF CountingWords
<1>15. MeasuringWords'
  <2>1. \A s \in Counted' : words'[Rank(s)'] = Cardinality(Reached(s)')
    BY <1>8, <1>12
  <2>2. ASSUME flag' PROVE (\E s \in Counted : /\ Rank(s) = Len(words)
                                               /\ \E m \in WordAt(s) : Upto(m) = ptr - 1)'
    <3>1. PICK s \in Counted' : Rank(s) = Len(words') /\ \E m \in WordAt(s) : Upto(m) = ptr
      BY <1>1, <1>12, <2>2
    <3>2. PICK m \in WordAt(s) : Upto(m) = ptr
      BY <3>1
    <3>3. ptr' - 1 = ptr
      BY <1>1, <1>2
    <3> QED
      BY <1>8, <3>1, <3>2, <3>3
  <2> QED
    BY <2>1, <2>2 DEF MeasuringWords
<1> QED
  BY <1>13, <1>14, <1>15 DEF IInv

-----------------------------------------------------------------------------
(***************************************************************************)
(* The theorems.                                                           *)
(***************************************************************************)
LEMMA NextIInv ==
  ASSUME IInv, [Next]_vars
  PROVE  IInv'
<1>1. CASE UNCHANGED vars
  <2>1. UNCHANGED <<pc, opt, input, args, buff, src, len, flag, ptr, end, words, status>>
    BY <1>1 DEF vars
  <2>2. TypeOK' <=> TypeOK
    BY <2>1 DEF TypeOK
  <2>3. (Phase' <=> Phase) /\ (Collapsing' <=> Collapsing)
    BY <2>1 DEF Phase, Collapsing, Kept, Upto
  <2>4. CountingWords' <=> CountingWords
    BY <2>1 DEF CountingWords, Counted, WordStarts, Kept, Upto, Collapsed, Text
  <2>5. MeasuringWords' <=> MeasuringWords
    BY <2>1 DEF MeasuringWords, Counted, Reached, Rank, WordAt, WordStarts, Kept, Upto
  <2>6. (Reversing' <=> Reversing) /\ (Stored' <=> Stored)
    BY <2>1 DEF Reversing, Stored, Text, Collapsed, Kept, Upto
  <2>7. WordsRight' <=> WordsRight
    BY <2>1 DEF WordsRight, Succeeded, WordStarts, WordAt
  <2>8. ReverseRight' <=> ReverseRight
    BY <2>1 DEF ReverseRight, Succeeded, Text, Collapsed, Kept, Upto
  <2>9. ReplaceKeepsRest' <=> ReplaceKeepsRest
    BY <2>1 DEF ReplaceKeepsRest, Succeeded, Occurs, Text, Collapsed, Kept, Upto, Old, New
  <2> QED
    BY <2>2, <2>3, <2>4, <2>5, <2>6, <2>7, <2>8, <2>9 DEF IInv
<1>2. CASE Next
  BY <1>2, SetupTooLongIInv, SetupCharIInv, SetupDoneIInv, CountCharIInv, PrintCharIInv,
     SwapIInv, OperationDoneIInv, ReplaceFailsIInv, ReplaceIInv DEF Next
<1> QED
  BY <1>1, <1>2

LEMMA Invariance == Spec => []IInv
<1>1. IInv /\ [Next]_vars => IInv'
  BY NextIInv
<1> QED
  BY <1>1, InitIInv, PTL DEF Spec

\* Type correctness: every index that a loop of stringfun.c takes is in the buffer
\* or one behind its end, whatever the arguments.
THEOREM TypeCorrect == Spec => []TypeOK
<1>1. IInv => TypeOK
  BY DEF IInv
<1> QED
  BY <1>1, Invariance, PTL

\* setup_buff() leaves an input without a blank at its ends in the buffer with its
\* white space collapsed and dots behind it, and refuses it only when this does not fit.
THEOREM CollapsesItsInput == Spec => []SetupCollapses
<1>1. ASSUME IInv PROVE SetupCollapses
  <2>1. pc \in {"count", "words", "replace"} =>
          len = Len(Collapsed) /\ \A n \in Places : buff[n] = Text(n)
    BY <1>1 DEF IInv, Stored
  <2>2. ASSUME ~OuterBlank, pc = "exit", src <= Len(input)
        PROVE  Len(Collapsed) > BufSize
    <3>1. PICK l, e : l = Len(input) /\ e = src - 1
      OBVIOUS
    <3>2. input \in Seq(Chars) /\ l \in Int /\ e \in Int /\ e < l /\ l >= 1
      BY <1>1, <2>2, <3>1 DEF IInv, TypeOK
    <3>3. l \in Kept
      <4>1. l \in DOMAIN input /\ l \in {1, Len(input)}
        BY <3>1, <3>2
      <4>2. input[l] \notin Blanks
        BY <2>2, <4>1 DEF OuterBlank
      <4> QED
        BY <4>1, <4>2 DEF Kept
    <3>4. Upto(e) >= BufSize
      BY <1>1, <2>2, <3>1 DEF IInv, Stored
    <3>5. Upto(e) < Upto(l) /\ Upto(e) \in Nat /\ Upto(l) \in Nat
      BY <3>2, <3>3, UptoGrows, KeptFacts
    <3>6. Upto(l) = Cardinality(Kept) /\ Len(Collapsed) = Cardinality(Kept)
      BY <3>1, <3>2, KeptFacts, CollapsedIs
    <3> QED
      BY <3>4, <3>5, <3>6
  <2> QED
    BY <2>1, <2>2 DEF SetupCollapses
<1>2. IInv => SetupCollapses
  BY <1>1
<1> QED
  BY <1>2, Invariance, PTL

\* count_words() and print_words() tell the number and the lengths of the words of
\* the argument, as they are before the white space is collapsed.
THEOREM CountsWords == Spec => []WordsRight
<1>1. IInv => WordsRight
  BY DEF IInv
<1> QED
  BY <1>1, Invariance, PTL

\* reverse_string() turns the text round and nothing else.
THEOREM ReversesText == Spec => []ReverseRight
<1>1. IInv => ReverseRight
  BY DEF IInv
<1> QED
  BY <1>1, Invariance, PTL

\* replace_string() replaces the first part of the text that is like old, moves the
\* rest up to it, leaves NULs behind and loses the last place; it refuses only what is
\* not there or would become longer, and then changes nothing.
THEOREM ReplaceLosesNothing == Spec => []ReplaceKeepsRest
<1>1. IInv => ReplaceKeepsRest
  BY DEF IInv
<1> QED
  BY <1>1, Invariance, PTL
=============================================================================
