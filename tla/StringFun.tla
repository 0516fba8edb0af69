------------------------------ MODULE StringFun ------------------------------
(***************************************************************************)
(* stringfun.c: the program copies its argument into a buffer of BufSize   *)
(* characters, with its white space collapsed and dots behind it, and      *)
(* counts or prints its words, reverses it or replaces a part of it.       *)
(*                                                                         *)
(* A step is one round of a loop of the code, so that every access to the  *)
(* buffer is a step.  Buffer positions count from 1.  malloc() succeeds,   *)
(* and strstr() and strlen() find a NUL right behind the buffer.           *)
(***************************************************************************)
EXTENDS Integers, Sequences, FiniteSets

CONSTANTS Letters,  \* characters that are neither white space nor a dot
          BufSize,  \* BUFFER_SZ
          MaxInput, \* characters of the string argument
          MaxArg    \* characters of the arguments of -x

Blanks == {" ", "\t"}

ASSUME LettersAssumption ==
  Letters # {} /\ Letters \cap (Blanks \cup {".", "NUL", "?"}) = {}
ASSUME BoundsAssumption ==
  BufSize \in Nat \ {0} /\ MaxInput \in Nat /\ MaxArg \in Nat

Chars  == Letters \cup Blanks \cup {"."}
Bytes  == Chars \cup {"NUL", "?"}  \* "?" is what malloc() found there
Places == 1..BufSize

UpTo(S, n) == UNION {[1..m -> S] : m \in 0..n}

VARIABLES pc,    \* the loop that main() is in, or "exit"
          opt,   \* the option letter
          input, \* argv[2]
          args,  \* argv[3] and argv[4]
          buff,  \* the buffer
          src,   \* setup_buff(): place in the input
          len,   \* setup_buff(): count, then user_str_len
          flag,  \* space_flag, then in_word
          ptr,   \* place in the text: ptr, or start of reverse_string()
          end,   \* end of reverse_string()
          words, \* word lengths printed, or words counted so far as their starts
          status \* exit status

vars == <<pc, opt, input, args, buff, src, len, flag, ptr, end, words, status>>
argvars == <<opt, input, args>>

TypeOK ==
  /\ pc \in {"setup", "count", "reverse", "words", "replace", "exit"}
  /\ opt \in {"c", "r", "w", "x", "z"}
  /\ input \in Seq(Chars)
  /\ args \in Seq(Chars) \X Seq(Chars)
  /\ buff \in [Places -> Bytes]
  /\ src \in 1..Len(input) + 1 /\ len \in 0..BufSize
  /\ flag \in BOOLEAN
  /\ ptr \in 1..BufSize + 1 /\ end \in 0..BufSize
  /\ words \in Seq(Places)
  /\ status \in 0..2

\* main() behind its malloc(), with the arguments that the option takes: "z" is any
\* other letter.  What main() does before there is a buffer is left out: its exits
\* for a missing argument (status 1) and for -h (status 0).
Init ==
  /\ pc = "setup"
  /\ opt \in {"c", "r", "w", "x", "z"}
  /\ input \in UpTo(Chars, MaxInput)
  /\ args \in (IF opt = "x" THEN UpTo(Chars, MaxArg) \X UpTo(Chars, MaxArg)
                            ELSE {<< <<>>, <<>> >>})
  /\ buff = [n \in Places |-> "?"]
  /\ src = 1 /\ len = 0 /\ flag = FALSE
  /\ ptr = 1 /\ end = 0 /\ words = <<>> /\ status = 0

Exit(s) ==
  /\ pc' = "exit" /\ status' = s

-----------------------------------------------------------------------------
(***************************************************************************)
(* setup_buff().                                                           *)
(***************************************************************************)
\* Mutant: the limit is tested one character late.
Full_Late == len > BufSize

Full == len >= BufSize

SetupTooLong ==
  /\ pc = "setup" /\ src <= Len(input) /\ Full
  /\ Exit(2)
  /\ UNCHANGED <<argvars, buff, src, len, flag, ptr, end, words>>

\* Mutant: the flag is never reset.
SetupChar_FlagKept ==
  /\ pc = "setup" /\ src <= Len(input) /\ ~Full
  /\ src' = src + 1
  /\ flag' = (flag \/ input[src] \in Blanks)
  /\ IF input[src] \in Blanks /\ flag
       THEN UNCHANGED <<buff, len>>
       ELSE /\ buff' = [buff EXCEPT ![len + 1] =
                          IF input[src] \in Blanks THEN " " ELSE input[src]]
            /\ len' = len + 1
  /\ UNCHANGED <<pc, argvars, ptr, end, words, status>>

SetupChar ==
  /\ pc = "setup" /\ src <= Len(input) /\ ~Full
  /\ src' = src + 1
  /\ flag' = (input[src] \in Blanks)
  /\ IF input[src] \in Blanks /\ flag
       THEN UNCHANGED <<buff, len>>
       ELSE /\ buff' = [buff EXCEPT ![len + 1] =
                          IF input[src] \in Blanks THEN " " ELSE input[src]]
            /\ len' = len + 1
  /\ UNCHANGED <<pc, argvars, ptr, end, words, status>>

Loop == [c |-> "count", r |-> "reverse", w |-> "words", x |-> "replace"]

\* memset() of the rest, and the switch of main(), which only now sees that the
\* option is none of its own.
SetupDone ==
  /\ pc = "setup" /\ src > Len(input)
  /\ buff' = [n \in Places |-> IF n > len THEN "." ELSE buff[n]]
  /\ IF opt = "z" THEN Exit(1) ELSE pc' = Loop[opt] /\ UNCHANGED status
  /\ flag' = FALSE /\ ptr' = 1 /\ end' = len
  /\ UNCHANGED <<argvars, src, len, words>>

-----------------------------------------------------------------------------
(***************************************************************************)
(* The operations.                                                         *)
(***************************************************************************)
IsWordChar(c) == c \notin Blanks /\ c # "."

\* count_words(): one more entry of words for each word.
CountChar ==
  /\ pc = "count" /\ ptr <= len
  /\ ptr' = ptr + 1
  /\ flag' = IsWordChar(buff[ptr])
  /\ words' = (IF IsWordChar(buff[ptr]) /\ ~flag THEN Append(words, 1) ELSE words)
  /\ UNCHANGED <<pc, argvars, buff, src, len, end, status>>

\* Mutant: char_count is not reset at the end of a word.
Grown_NotReset(ws) ==
  IF flag THEN [ws EXCEPT ![Len(ws)] = @ + 1]
          ELSE Append(ws, 1 + IF ws = <<>> THEN 0 ELSE ws[Len(ws)])

\* The lengths of the words printed, after one more character of a word.
Grown(ws) == IF flag THEN [ws EXCEPT ![Len(ws)] = @ + 1] ELSE Append(ws, 1)

\* print_words(): char_count is the last entry of words.
PrintChar ==
  /\ pc = "words" /\ ptr <= len
  /\ ptr' = ptr + 1
  /\ flag' = IsWordChar(buff[ptr])
  /\ words' = (IF IsWordChar(buff[ptr]) THEN Grown(words) ELSE words)
  /\ UNCHANGED <<pc, argvars, buff, src, len, end, status>>

\* Mutant: the loop goes to the end of the text and swaps everything back.
Swapping_All == ptr <= len

Swapping == ptr < end

\* reverse_string()
Swap ==
  /\ pc = "reverse" /\ Swapping
  /\ buff' = [buff EXCEPT ![ptr] = buff[end], ![end] = buff[ptr]]
  /\ ptr' = ptr + 1 /\ end' = end - 1
  /\ UNCHANGED <<pc, argvars, src, len, flag, words, status>>

\* The loop is over and main() prints the buffer.
OperationDone ==
  /\ \/ pc \in {"count", "words"} /\ ptr > len
     \/ pc = "reverse" /\ ~Swapping
  /\ Exit(0)
  /\ UNCHANGED <<argvars, buff, src, len, flag, ptr, end, words>>

-----------------------------------------------------------------------------
(***************************************************************************)
(* replace_string().                                                       *)
(***************************************************************************)
Old == args[1]
New == args[2]

\* Places of the buffer where old begins.
Matches ==
  {n \in 1..BufSize - Len(Old) + 1 :
     \A k \in 1..Len(Old) : buff[n + k - 1] = Old[k]}

Before(n) == [k \in 1..n - 1 |-> buff[k]]
After(n)  == [k \in 1..BufSize - n + 1 - Len(Old) |-> buff[n + Len(Old) + k - 1]]

\* temp: strncpy() of what is before the match, strncat() of new and of the rest.
Replaced == LET n == CHOOSE m \in Matches : \A k \in Matches : m <= k
            IN  Before(n) \o New \o After(n)

\* temp has BUFFER_SZ - 1 characters at most, strncpy() fills up with NUL.
Copied(temp) ==
  [n \in Places |-> IF n < BufSize /\ n <= Len(temp) THEN temp[n] ELSE "NUL"]

\* "substring not found", "replacement causes buffer overflow": strlen(buff) is
\* BufSize, the dots included.
ReplaceFails ==
  /\ pc = "replace"
  /\ Matches = {} \/ BufSize - Len(Old) + Len(New) > BufSize
  /\ Exit(2)
  /\ UNCHANGED <<argvars, buff, src, len, flag, ptr, end, words>>

\* Mutant: what follows the match is not appended.
Replace_NoRest ==
  /\ pc = "replace"
  /\ Matches # {} /\ BufSize - Len(Old) + Len(New) <= BufSize
  /\ buff' = Copied(SubSeq(Replaced, 1, Len(Replaced) - 1))
  /\ Exit(0)
  /\ UNCHANGED <<argvars, src, len, flag, ptr, end, words>>

Replace ==
  /\ pc = "replace"
  /\ Matches # {} /\ BufSize - Len(Old) + Len(New) <= BufSize
  /\ buff' = Copied(Replaced)
  /\ Exit(0)
  /\ UNCHANGED <<argvars, src, len, flag, ptr, end, words>>

-----------------------------------------------------------------------------

Next ==
  \/ SetupTooLong \/ SetupChar \/ SetupDone
  \/ CountChar \/ PrintChar \/ Swap \/ OperationDone
  \/ ReplaceFails \/ Replace

Spec == Init /\ [][Next]_vars

-----------------------------------------------------------------------------
(***************************************************************************)
(* Properties: what the operations are to do, told from the arguments.     *)
(***************************************************************************)
\* The characters of the input that setup_buff() is to keep, in their order.
Kept      == {k \in DOMAIN input : input[k] \in Blanks /\ k > 1 => input[k - 1] \notin Blanks}
Upto(k)   == Cardinality({m \in Kept : m <= k})
Collapsed == [j \in 1..Cardinality(Kept) |->
                LET k == CHOOSE m \in Kept : Upto(m) = j
                IN  IF input[k] \in Blanks THEN " " ELSE input[k]]
Text(n)   == IF n <= Len(Collapsed) THEN Collapsed[n] ELSE "."

Succeeded(o) == pc = "exit" /\ opt = o /\ status = 0

\* A blank at an end of the argument.  Of each run of them setup_buff() keeps one,
\* and src/test.sh:28-33 ("remove extra spaces") expects that none is left.
OuterBlank == \E k \in DOMAIN input \cap {1, Len(input)} : input[k] \in Blanks

\* What the operations find in the buffer is the input with its white space
\* collapsed and dots behind it, and the input is refused only when this does not
\* fit into the buffer.  Arguments with a blank at an end are left out.
SetupCollapses ==
  ~OuterBlank =>
    /\ pc \in {"count", "words", "replace"} =>
         len = Len(Collapsed) /\ \A n \in Places : buff[n] = Text(n)
    /\ pc = "exit" /\ src <= Len(input) => Len(Collapsed) > BufSize

\* count_words() and print_words() agree with the words of the argument: runs
\* of characters that are neither white space nor a dot, in their order.
WordStarts == {k \in DOMAIN input : IsWordChar(input[k]) /\ (k > 1 => ~IsWordChar(input[k - 1]))}
WordAt(s)  == {k \in s..Len(input) : \A m \in s..k : IsWordChar(input[m])}

WordsRight ==
  /\ Succeeded("c") \/ Succeeded("w") => Len(words) = Cardinality(WordStarts)
  /\ Succeeded("w") =>
       \A s \in WordStarts :
         words[Cardinality({k \in WordStarts : k <= s})] = Cardinality(WordAt(s))

\* reverse_string() turns the text round and leaves the dots behind it.
ReverseRight ==
  Succeeded("r") =>
    \A n \in Places :
      buff[n] = IF n <= len THEN Text(len + 1 - n) ELSE "."

\* old is at place n of the text with the dots behind it.
Occurs(n) ==
  /\ n + Len(Old) - 1 <= BufSize
  /\ \A k \in 1..Len(Old) : Text(n + k - 1) = Old[k]

\* replace_string() replaces the first part that is like old; the rest, dots
\* included, moves up to it.  The last place of the buffer is lost (temp has room for
\* one character less, strncat() at stringfun.c:159), and NULs come behind what
\* became shorter, where src/test.sh:96-100 expects dots.  It refuses, and then
\* changes nothing, when old is not there or new is longer than old, however short
\* the text: src/test.sh:72-94 expects the longer one to be put in.
ReplaceKeepsRest ==
  /\ Succeeded("x") =>
       \E n \in Places :
         /\ Occurs(n) /\ \A m \in 1..n - 1 : ~Occurs(m)
         /\ \A k \in 1..n - 1 : buff[k] = Text(k)
         /\ \A k \in 1..Len(New) : n + k - 1 < BufSize => buff[n + k - 1] = New[k]
         /\ \A k \in n + Len(Old)..BufSize :
              LET to == k - Len(Old) + Len(New)
              IN  to < BufSize => buff[to] = Text(k)
         /\ \A k \in Places :
              k = BufSize \/ k > BufSize - Len(Old) + Len(New) => buff[k] = "NUL"
  /\ pc = "exit" /\ opt = "x" /\ status = 2 /\ src > Len(input) =>
       /\ \A n \in Places : buff[n] = Text(n)
       /\ Len(New) > Len(Old) \/ \A n \in Places : ~Occurs(n)
=============================================================================
