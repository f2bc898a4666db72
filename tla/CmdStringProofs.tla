--------------------------- MODULE CmdStringProofs ---------------------------
(***************************************************************************)
(* Proofs about the walk over a command string (CmdString), for strings of  *)
(* any length over any symbols.                                             *)
(***************************************************************************)
EXTENDS CmdString, SequenceTheorems, FiniteSetTheorems, WellFoundedInduction, TLAPS

(***************************************************************************)
(* Natural numbers: least and greatest elements, and induction stated with  *)
(* a set, which can be instantiated.                                        *)
(***************************************************************************)
\* A set of natural numbers has a least element.
LEMMA Least ==
  ASSUME NEW T \in SUBSET Nat, T # {}
  PROVE  \E m \in T : \A n \in T : m <= n
<1> DEFINE Less == OpToRel(<, Nat)
<1>1. PICK x \in T : \A y \in T : ~ (<<y, x>> \in Less)
  BY WFMin, NatLessThanWellFounded
<1>2. ASSUME NEW y \in T, y < x PROVE <<y, x>> \in Less
  <2>1. <<y, x>> \in Nat \X Nat /\ <<y, x>>[1] = y /\ <<y, x>>[2] = x
    OBVIOUS
  <2> QED
    BY <1>2, <2>1, Zenon DEF OpToRel
<1> HIDE DEF Less
<1>3. \A y \in T : ~ (y < x)
  BY <1>1, <1>2, Zenon
<1> QED
  BY <1>3

\* A set that holds 0, and n + 1 with every n, holds all natural numbers.
LEMMA Induction ==
  ASSUME NEW S, 0 \in S, \A n \in Nat : n \in S => n + 1 \in S
  PROVE  Nat \subseteq S
<1> SUFFICES ASSUME Nat \ S # {} PROVE FALSE
  OBVIOUS
<1>1. PICK m \in Nat \ S : \A n \in Nat \ S : m <= n
  BY Least
<1> QED
  BY <1>1, m - 1 \in Nat

\* What Min and Max of the community modules give.
LEMMA MinOf ==
  ASSUME NEW T \in SUBSET Nat, T # {}
  PROVE  Min(T) \in T /\ \A n \in T : Min(T) <= n
BY Least DEF Min

\* The same for a set of numbers up to b.
LEMMA MaxOf ==
  ASSUME NEW b \in Nat, NEW T \in SUBSET (0 .. b), T # {}
  PROVE  Max(T) \in T /\ \A n \in T : n <= Max(T)
<1> DEFINE Down == {b - n : n \in T}
<1>1. Down \in SUBSET Nat /\ Down # {}
  <2>1. \A n \in T : b - n \in Nat
    OBVIOUS
  <2> QED
    BY <2>1
<1>2. PICK d \in Down : \A e \in Down : d <= e
  BY <1>1, Least
<1>3. PICK m \in T : d = b - m
  BY <1>2
<1>4. ASSUME NEW n \in T PROVE n <= m
  <2>1. b - n \in Down
    OBVIOUS
  <2>2. b - m <= b - n
    BY <1>2, <1>3, <2>1
  <2> QED
    BY <2>2, n \in 0 .. b, m \in 0 .. b
<1> QED
  BY <1>4 DEF Max

(***************************************************************************)
(* The recursive functions of the model.                                    *)
(***************************************************************************)
IsSum(f, s, n) ==
  f \in [0 .. n -> Int] /\ f[0] = 0 /\ \A i \in 1 .. n : f[i] = f[i - 1] + s[i]

\* There is a function of partial sums.
LEMMA SumExists ==
  ASSUME NEW s, NEW n \in Nat, \A i \in 1 .. n : s[i] \in Int
  PROVE  \E f : IsSum(f, s, n)
<1> DEFINE S == {m \in Nat : m <= n => \E f : IsSum(f, s, m)}
<1>1. 0 \in S
  <2>1. IsSum([i \in 0 .. 0 |-> 0], s, 0)
    BY DEF IsSum
  <2> QED
    BY <2>1
<1>2. ASSUME NEW m \in Nat, m \in S PROVE m + 1 \in S
  <2>1. SUFFICES ASSUME m + 1 <= n PROVE \E f : IsSum(f, s, m + 1)
     OBVIOUS
  <2>2. PICK f : IsSum(f, s, m)
    BY <1>2, <2>1
  <2> DEFINE g == [i \in 0 .. m + 1 |-> IF i = m + 1 THEN f[m] + s[m + 1] ELSE f[i]]
  <2>3. IsSum(g, s, m + 1)
    BY <2>2, <2>1 DEF IsSum
  <2> QED
    BY <2>3
<1> HIDE DEF S
<1>3. n \in S
  BY <1>1, <1>2, Induction
<1> QED
  BY <1>3 DEF S

\* SumOf is the last of the partial sums.
LEMMA SumIs ==
  ASSUME NEW s \in Seq(Int), NEW f, IsSum(f, s, Len(s))
  PROVE  SumOf(s) = f[Len(s)]
<1> DEFINE n == Len(s)
           Def(g) == [i \in 0 .. n |-> IF i = 0 THEN 0 ELSE g[i - 1] + s[i]]
           sum == CHOOSE g : g = Def(g)
           S == {m \in Nat : m <= n => sum[m] = f[m]}
<1>1. n \in Nat
  OBVIOUS
<1>2. f = Def(f)
  BY <1>1 DEF IsSum
<1>3. sum = Def(sum)
  <2> HIDE DEF Def
  <2> QED
    BY <1>2, Zenon
<1>4. SumOf(s) = sum[n]
  BY DEF SumOf
<1> HIDE DEF sum
<1>5. 0 \in S
  BY <1>1, <1>3 DEF IsSum
<1>6. ASSUME NEW m \in Nat, m \in S PROVE m + 1 \in S
  <2>1. SUFFICES ASSUME m + 1 <= n PROVE sum[m + 1] = f[m + 1]
    OBVIOUS
  <2>2. sum[m + 1] = sum[m] + s[m + 1]
    BY <1>1, <1>3, <2>1, m + 1 \in 0 .. n
  <2> QED
    BY <1>1, <1>6, <2>1, <2>2 DEF IsSum
<1> HIDE DEF S
<1>7. n \in S
  BY <1>1, <1>5, <1>6, Induction
<1> QED
  BY <1>1, <1>4, <1>7 DEF S

\* The sum of no numbers, and of one number more.
LEMMA SumOfNone == SumOf(<<>>) = 0
<1>1. IsSum([i \in 0 .. 0 |-> 0], <<>>, Len(<<>>)) /\ <<>> \in Seq(Int)
  BY DEF IsSum
<1> QED
  BY <1>1, SumIs

\* The sum of a longer sequence.
LEMMA SumOfOneMore ==
  ASSUME NEW s \in Seq(Int), NEW x \in Int
  PROVE  SumOf(Append(s, x)) = SumOf(s) + x /\ SumOf(s) \in Int
<1> DEFINE n == Len(s)
           t == Append(s, x)
<1>1. n \in Nat /\ t \in Seq(Int) /\ Len(t) = n + 1 /\ t[n + 1] = x
      /\ \A i \in 1 .. n : t[i] = s[i]
  OBVIOUS
<1>2. PICK f : IsSum(f, s, n)
  BY <1>1, SumExists
<1> DEFINE g == [i \in 0 .. n + 1 |-> IF i = n + 1 THEN f[n] + x ELSE f[i]]
<1> HIDE DEF t
<1>3. SumOf(s) = f[n] /\ f[n] \in Int
  <2>1. f \in [0 .. n -> Int] /\ n \in 0 .. n
    BY <1>1, <1>2 DEF IsSum
  <2> QED
    BY <1>2, <2>1, SumIs
<1>4. IsSum(g, t, n + 1)
  <2>1. g \in [0 .. n + 1 -> Int] /\ g[0] = 0
    BY <1>1, <1>2, <1>3 DEF IsSum
  <2>2. ASSUME NEW i \in 1 .. n + 1 PROVE g[i] = g[i - 1] + t[i]
    BY <1>1, <1>2 DEF IsSum
  <2> QED
    BY <2>1, <2>2 DEF IsSum
<1>5. SumOf(t) = g[n + 1]
  <2> HIDE DEF g
  <2> QED
    BY <1>1, <1>4, SumIs
<1> QED
  BY <1>1, <1>3, <1>5 DEF t

\* What atoi gives is a natural number.
LEMMA NumberNat ==
  ASSUME NEW d \in Seq(DOMAIN Digit)
  PROVE  Number(d) \in Nat
<1> DEFINE n == Len(d)
           Def(g) == [i \in 0 .. n |-> IF i = 0 THEN 0 ELSE 10 * g[i - 1] + Digit[d[i]]]
           IsValue(g, m) == /\ g \in [0 .. m -> Nat] /\ g[0] = 0
                            /\ \A i \in 1 .. m : g[i] = 10 * g[i - 1] + Digit[d[i]]
           Built == {m \in Nat : m <= n => \E g : IsValue(g, m)}
           value == CHOOSE g : g = Def(g)
           Typed == {m \in Nat : m <= n => value[m] \in Nat}
<1>1. n \in Nat /\ \A i \in 1 .. n : Digit[d[i]] \in Nat
  <2>1. \A c \in DOMAIN Digit : Digit[c] \in Nat
    BY DEF Digit
  <2> QED
    BY <2>1
<1>2. 0 \in Built
  <2>1. IsValue([i \in 0 .. 0 |-> 0], 0)
    OBVIOUS
  <2> HIDE DEF IsValue
  <2> QED
    BY <2>1
<1>3. ASSUME NEW m \in Nat, m \in Built PROVE m + 1 \in Built
  <2> HIDE DEF IsValue
  <2>1. SUFFICES ASSUME m + 1 <= n PROVE \E g : IsValue(g, m + 1)
    OBVIOUS
  <2>2. PICK f : IsValue(f, m)
    BY <1>3, <2>1
  <2> DEFINE g == [i \in 0 .. m + 1 |-> IF i = m + 1 THEN 10 * f[m] + Digit[d[m + 1]] ELSE f[i]]
  <2>3. m + 1 \in 1 .. n /\ m \in 0 .. m
    BY <2>1
  <2>4. g \in [0 .. m + 1 -> Nat] /\ g[0] = 0
    BY <1>1, <2>2, <2>3 DEF IsValue
  <2>5. ASSUME NEW i \in 1 .. m + 1 PROVE g[i] = 10 * g[i - 1] + Digit[d[i]]
    BY <2>2 DEF IsValue
  <2>6. IsValue(g, m + 1)
    BY <2>4, <2>5 DEF IsValue
  <2> HIDE DEF g
  <2> QED
    BY <2>6
<1>4. PICK f : IsValue(f, n)
  <2> HIDE DEF Built
  <2>1. n \in Built
    BY <1>1, <1>2, <1>3, Induction
  <2> QED
    BY <2>1, <1>1 DEF Built
<1>5. f = Def(f)
  BY <1>1, <1>4
<1>6. value = Def(value)
  <2> HIDE DEF Def
  <2> QED
    BY <1>5, Zenon
<1>7. Number(d) = value[n]
  BY DEF Number
<1> HIDE DEF value
<1>8. 0 \in Typed
  BY <1>1, <1>6
<1>9. ASSUME NEW m \in Nat, m \in Typed PROVE m + 1 \in Typed
  <2>1. SUFFICES ASSUME m + 1 <= n PROVE value[m + 1] \in Nat
    OBVIOUS
  <2>2. m + 1 \in 0 .. n /\ m + 1 \in 1 .. n /\ (m + 1) - 1 = m
    BY <1>1, <2>1
  <2>3. value[m + 1] = 10 * value[m] + Digit[d[m + 1]]
    BY <1>6, <2>2
  <2> QED
    BY <1>1, <1>9, <2>1, <2>2, <2>3
<1>10. n \in Typed
  <2> HIDE DEF Typed
  <2> QED
    BY <1>1, <1>8, <1>9, Induction
<1> QED
  BY <1>1, <1>7, <1>10

(***************************************************************************)
(* parse_cmd                                                                *)
(***************************************************************************)
\* The separators differ from each other and from the digits.
LEMMA Separators == Comma # Semicolon /\ Semicolon \notin DOMAIN Digit
BY Zenon DEF Comma, Semicolon, Digit

\* The first place of a symbol.
LEMMA FirstOf ==
  ASSUME NEW s \in Seq(STRING), NEW c
  PROVE  /\ First(s, c) \in 0 .. Len(s)
         /\ First(s, c) = 0 => \A i \in 1 .. Len(s) : s[i] # c
         /\ First(s, c) # 0 => /\ s[First(s, c)] = c
                               /\ \A i \in 1 .. Len(s) : s[i] = c => First(s, c) <= i
<1> DEFINE I == {i \in 1 .. Len(s) : s[i] = c}
<1>1. First(s, c) = IF I # {} THEN Min(I) ELSE 0
  BY DEF First, SelectInSeq
<1>2. I \in SUBSET Nat
  OBVIOUS
<1>3. CASE I = {}
  BY <1>1, <1>3
<1>4. CASE I # {}
  <2>1. Min(I) \in I /\ \A n \in I : Min(I) <= n
    <3> HIDE DEF I
    <3> QED
      BY <1>2, <1>4, MinOf
  <2> QED
    BY <1>1, <1>4, <2>1
<1> QED
  BY <1>3, <1>4

\* How many digits a string starts with.
DigitCount(s) == Max({i \in 0 .. Len(s) : \A j \in 1 .. i : s[j] \in DOMAIN Digit})

\* The digits counted are digits, and the symbol behind them is not one.
LEMMA DigitCountOf ==
  ASSUME NEW s \in Seq(STRING)
  PROVE  /\ DigitCount(s) \in 0 .. Len(s)
         /\ \A j \in 1 .. DigitCount(s) : s[j] \in DOMAIN Digit
         /\ DigitCount(s) < Len(s) => s[DigitCount(s) + 1] \notin DOMAIN Digit
<1> DEFINE I == {i \in 0 .. Len(s) : \A j \in 1 .. i : s[j] \in DOMAIN Digit}
           m == DigitCount(s)
<1>1. I \in SUBSET (0 .. Len(s)) /\ 0 \in I /\ Len(s) \in Nat
  OBVIOUS
<1>2. m \in I /\ \A n \in I : n <= m
  <2> HIDE DEF I
  <2>1. m = Max(I)
    BY DEF DigitCount, I
  <2> QED
    BY <1>1, <2>1, MaxOf
<1>3. ASSUME m < Len(s), s[m + 1] \in DOMAIN Digit PROVE m + 1 \in I
  BY <1>1, <1>2, <1>3
<1> HIDE DEF m
<1>4. m \in Int /\ ~ (m + 1 <= m)
  BY <1>2
<1> QED
  BY <1>2, <1>3, <1>4 DEF m

\* The number of digits is determined by them and by what follows.
LEMMA DigitCountIs ==
  ASSUME NEW s \in Seq(STRING), NEW m \in 0 .. Len(s),
         \A j \in 1 .. m : s[j] \in DOMAIN Digit,
         m < Len(s) => s[m + 1] \notin DOMAIN Digit
  PROVE  DigitCount(s) = m
<1> DEFINE n == DigitCount(s)
<1>1. /\ n \in 0 .. Len(s)
      /\ \A j \in 1 .. n : s[j] \in DOMAIN Digit
      /\ n < Len(s) => s[n + 1] \notin DOMAIN Digit
  BY DigitCountOf
<1> HIDE DEF n
<1>2. CASE n < m
  BY <1>1, <1>2, n + 1 \in 1 .. m
<1>3. CASE m < n
  BY <1>1, <1>3, m + 1 \in 1 .. n
<1> QED
  BY <1>1, <1>2, <1>3 DEF n

\* The same for a whole string.
LEMMA AtoiNat ==
  ASSUME NEW s \in Seq(STRING)
  PROVE  Atoi(s) \in Nat
<1>1. Digits(s) = SubSeq(s, 1, DigitCount(s))
  BY DEF Digits, DigitCount
<1>2. DigitCount(s) \in 0 .. Len(s) /\ \A j \in 1 .. DigitCount(s) : s[j] \in DOMAIN Digit
  BY DigitCountOf
<1>3. Digits(s) \in Seq(DOMAIN Digit)
  <2>1. DigitCount(s) \in Int /\ 1 \in Int
    BY <1>2
  <2> QED
    BY <1>1, <1>2, <2>1, SubSeqProperties
<1> QED
  BY <1>3, NumberNat DEF Atoi

\* atoi does not look behind the first character that is not a digit.
LEMMA AtoiStops ==
  ASSUME NEW s \in Seq(STRING), NEW t \in Seq(STRING), Len(t) < Len(s),
         \A j \in 1 .. Len(t) : s[j] = t[j], s[Len(t) + 1] \notin DOMAIN Digit
  PROVE  Atoi(s) = Atoi(t)
<1> DEFINE m == DigitCount(t)
<1>1. /\ m \in 0 .. Len(t)
      /\ \A j \in 1 .. m : t[j] \in DOMAIN Digit
      /\ m < Len(t) => t[m + 1] \notin DOMAIN Digit
  BY DigitCountOf
<1> HIDE DEF m
<1>2. m \in 0 .. Len(s) /\ \A j \in 1 .. m : s[j] \in DOMAIN Digit
  BY <1>1
<1>3. s[m + 1] \notin DOMAIN Digit
  BY <1>1
<1>4. DigitCount(s) = m
  BY <1>2, <1>3, DigitCountIs
<1>5. SubSeq(s, 1, m) = SubSeq(t, 1, m)
  <2>1. SubSeq(s, 1, m) \in Seq(STRING) /\ SubSeq(t, 1, m) \in Seq(STRING)
    BY <1>1, <1>2
  <2>2. Len(SubSeq(s, 1, m)) = m /\ Len(SubSeq(t, 1, m)) = m
    BY <1>1, <1>2
  <2>3. \A i \in 1 .. m : SubSeq(s, 1, m)[i] = SubSeq(t, 1, m)[i]
    BY <1>1, <1>2
  <2> QED
    BY <2>1, <2>2, <2>3, SeqEqual
<1>6. Digits(s) = Digits(t)
  BY <1>4, <1>5 DEF Digits, DigitCount, m
<1> QED
  BY <1>6 DEF Atoi

(***************************************************************************)
(* The pieces of a string.                                                  *)
(***************************************************************************)
\* The semicolons of a string.
LEMMA EndsInString ==
  ASSUME NEW s \in Seq(STRING)
  PROVE  Len(s) \in Nat /\ \A j \in Ends(s) : j \in Nat /\ 1 <= j /\ j <= Len(s) /\ s[j] = Semicolon
<1>1. Len(s) \in Nat
  OBVIOUS
<1>2. \A j \in 1 .. Len(s) : j \in Nat /\ 1 <= j /\ j <= Len(s)
  BY <1>1
<1> QED
  BY <1>1, <1>2 DEF Ends

\* They can be counted.
LEMMA EndsFinite ==
  ASSUME NEW s \in Seq(STRING)
  PROVE  /\ IsFiniteSet(Ends(s)) /\ Cardinality(Ends(s)) \in Nat
         /\ \A i : /\ IsFiniteSet(EndsUpTo(s, i)) /\ Cardinality(EndsUpTo(s, i)) \in Nat
                   /\ Cardinality(EndsUpTo(s, i)) <= Cardinality(Ends(s))
<1>1. Len(s) \in Nat /\ IsFiniteSet(1 .. Len(s))
  BY FS_Interval
<1>2. Ends(s) \in SUBSET (1 .. Len(s)) /\ IsFiniteSet(Ends(s))
  BY <1>1, FS_Subset DEF Ends
<1>3. \A i : EndsUpTo(s, i) \in SUBSET Ends(s)
  BY DEF EndsUpTo
<1> QED
  BY <1>2, <1>3, FS_Subset, FS_CardinalityType

\* The k-th semicolon is where the k-th piece ends.
LEMMA CutIs ==
  ASSUME NEW s \in Seq(STRING), NEW c \in {0} \cup Ends(s)
  PROVE  Cut(s, Cardinality(EndsUpTo(s, c))) = c
<1> DEFINE k == Cardinality(EndsUpTo(s, c))
<1>0. \A j \in Ends(s) : j \in Nat /\ 1 <= j
  BY EndsInString, Zenon
<1>1. CASE c = 0
  <2>1. EndsUpTo(s, 0) = {}
    BY <1>0 DEF EndsUpTo
  <2> QED
    BY <1>1, <2>1, FS_EmptySet DEF Cut
<1>2. CASE c \in Ends(s)
  <2>1. k # 0
    <3>1. c \in EndsUpTo(s, c)
      BY <1>2, <1>0 DEF EndsUpTo
    <3> QED
      BY <3>1, EndsFinite, FS_EmptySet
  <2>2. ASSUME NEW i \in Ends(s), Cardinality(EndsUpTo(s, i)) = k PROVE i = c
    <3>1. c \in Nat /\ i \in Nat
      BY <1>0, <1>2
    <3>2. CASE i <= c
      <4>1. EndsUpTo(s, i) \in SUBSET EndsUpTo(s, c)
        <5>1. \A j \in Ends(s) : j <= i => j <= c
          BY <3>1, <3>2, <1>0
        <5> QED
          BY <5>1, Zenon DEF EndsUpTo
      <4>2. EndsUpTo(s, i) = EndsUpTo(s, c)
        BY <2>2, <4>1, EndsFinite, FS_Subset
      <4>3. c \in EndsUpTo(s, c)
        BY <1>2, <3>1 DEF EndsUpTo
      <4> QED
        BY <3>1, <3>2, <4>2, <4>3 DEF EndsUpTo
    <3>3. CASE c <= i
      <4>1. EndsUpTo(s, c) \in SUBSET EndsUpTo(s, i)
        <5>1. \A j \in Ends(s) : j <= c => j <= i
          BY <3>1, <3>3, <1>0
        <5> QED
          BY <5>1, Zenon DEF EndsUpTo
      <4>2. EndsUpTo(s, i) = EndsUpTo(s, c)
        BY <2>2, <4>1, EndsFinite, FS_Subset
      <4>3. i \in EndsUpTo(s, i)
        BY <2>2, <3>1 DEF EndsUpTo
      <4> QED
        BY <3>1, <3>3, <4>2, <4>3 DEF EndsUpTo
    <3> QED
      BY <3>1, <3>2, <3>3
  <2> HIDE DEF k
  <2>3. Cut(s, k) = CHOOSE i \in Ends(s) : Cardinality(EndsUpTo(s, i)) = k
    BY <2>1 DEF Cut
  <2> QED
    BY <1>2, <2>2, <2>3 DEF k
<1> QED
  BY <1>1, <1>2

\* The next semicolon ends the next piece; with none left there is no next piece.
LEMMA NextEnd ==
  ASSUME NEW s \in Seq(STRING), NEW c \in {0} \cup Ends(s)
  PROVE  /\ \A e \in Ends(s) :
              e > c /\ (\A j \in Ends(s) : j > c => e <= j) =>
                Cardinality(EndsUpTo(s, e)) = Cardinality(EndsUpTo(s, c)) + 1
         /\ (\A j \in Ends(s) : j <= c) =>
                Cardinality(EndsUpTo(s, c)) = Cardinality(Ends(s))
<1>1. c \in Nat /\ \A j \in Ends(s) : j \in Nat
  <2>1. \A j \in Ends(s) : j \in Nat
    BY EndsInString, Zenon
  <2> QED
    BY <2>1
<1>2. ASSUME NEW e \in Ends(s), e > c, \A j \in Ends(s) : j > c => e <= j
      PROVE  Cardinality(EndsUpTo(s, e)) = Cardinality(EndsUpTo(s, c)) + 1
  <2>1. EndsUpTo(s, e) = EndsUpTo(s, c) \cup {e} /\ e \notin EndsUpTo(s, c)
    BY <1>1, <1>2 DEF EndsUpTo
  <2> QED
    BY <2>1, EndsFinite, FS_AddElement
<1>3. ASSUME \A j \in Ends(s) : j <= c PROVE EndsUpTo(s, c) = Ends(s)
  BY <1>3 DEF EndsUpTo
<1> QED
  BY <1>2, <1>3

\* What is left of a string.
LEMMA RestOf ==
  ASSUME NEW s \in Seq(STRING), NEW c \in 0 .. Len(s)
  PROVE  /\ SubSeq(s, c + 1, Len(s)) \in Seq(STRING)
         /\ Len(SubSeq(s, c + 1, Len(s))) = Len(s) - c
         /\ \A i \in 1 .. Len(s) - c : SubSeq(s, c + 1, Len(s))[i] = s[c + i]
<1>1. Len(s) \in Nat /\ c + 1 \in Int
  OBVIOUS
<1>2. \A i \in c + 1 .. Len(s) : s[i] \in STRING
  BY <1>1
<1> QED
  BY <1>1, <1>2, SubSeqProperties

RestAt(s, c) == SubSeq(s, c + 1, Len(s))

\* The number of the piece that ends at c.
Rank(s, c) == Cardinality(EndsUpTo(s, c))

\* The piece that starts at c runs to the first semicolon of the rest.
LEMMA PieceAt ==
  ASSUME NEW s \in Seq(STRING), NEW c \in {0} \cup Ends(s)
  PROVE  LET r == RestAt(s, c)
             b == First(r, Semicolon)
         IN  /\ b # 0 => /\ c + b \in Ends(s)
                         /\ Rank(s, c + b) = Rank(s, c) + 1
                         /\ Rank(s, c) + 1 \in DOMAIN Pieces(s)
                         /\ Pieces(s)[Rank(s, c) + 1] = SubSeq(r, 1, b - 1)
             /\ b = 0 => Rank(s, c) = Cardinality(Ends(s))
<1> DEFINE r == RestAt(s, c)
           b == First(r, Semicolon)
           k == Rank(s, c)
<1>1. c \in 0 .. Len(s) /\ Len(s) \in Nat /\ c \in Nat
  <2>1. Len(s) \in Nat /\ \A j \in Ends(s) : j \in Nat /\ j <= Len(s)
    BY EndsInString, Zenon
  <2> QED
    BY <2>1
<1>2. /\ r \in Seq(STRING) /\ Len(r) = Len(s) - c
      /\ \A i \in 1 .. Len(s) - c : r[i] = s[c + i]
  BY <1>1, RestOf DEF RestAt
<1>3. /\ b \in 0 .. Len(r)
      /\ b = 0 => \A i \in 1 .. Len(r) : r[i] # Semicolon
      /\ b # 0 => r[b] = Semicolon /\ \A i \in 1 .. Len(r) : r[i] = Semicolon => b <= i
  BY <1>2, FirstOf
<1> HIDE DEF r, b
<1>4. ASSUME NEW j \in Ends(s), j > c
      PROVE  j - c \in 1 .. Len(r) /\ r[j - c] = Semicolon /\ j \in Nat
  <2>1. j \in Nat /\ j <= Len(s) /\ s[j] = Semicolon
    BY EndsInString, Zenon
  <2>2. j - c \in 1 .. Len(s) - c /\ c + (j - c) = j
    BY <1>1, <1>4, <2>1
  <2> QED
    BY <1>2, <2>1, <2>2
<1>5. k \in Nat /\ Cardinality(Ends(s)) \in Nat
  BY EndsFinite DEF Rank
<1> HIDE DEF k
<1>6. ASSUME b = 0 PROVE k = Cardinality(Ends(s))
  <2>1. \A j \in Ends(s) : j \in Nat
    BY EndsInString, Zenon
  <2>2. \A j \in Ends(s) : j <= c
    BY <1>1, <1>3, <1>4, <1>6, <2>1
  <2> QED
    BY <2>2, NextEnd DEF k, Rank
<1>7. ASSUME b # 0
      PROVE  /\ c + b \in Ends(s) /\ Rank(s, c + b) = k + 1
             /\ k + 1 \in DOMAIN Pieces(s) /\ Pieces(s)[k + 1] = SubSeq(r, 1, b - 1)
  <2>1. b \in 1 .. Len(s) - c /\ s[c + b] = Semicolon /\ c + b \in 1 .. Len(s)
    BY <1>1, <1>2, <1>3, <1>7
  <2>2. c + b \in Ends(s)
    BY <2>1 DEF Ends
  <2>3. ASSUME NEW j \in Ends(s), j > c PROVE c + b <= j
    BY <1>1, <1>3, <1>4, <1>7, <2>1, <2>3
  <2>4. Rank(s, c + b) = k + 1
    BY <1>1, <2>1, <2>2, <2>3, NextEnd DEF k, Rank
  <2>5. k + 1 \in 1 .. Cardinality(Ends(s))
    <3>1. k + 1 <= Cardinality(Ends(s))
      BY <2>4, EndsFinite DEF Rank
    <3> QED
      BY <1>5, <3>1
  <2>6. Cut(s, k) = c /\ Cut(s, k + 1) = c + b
    BY <2>2, <2>4, CutIs DEF k, Rank
  <2>7. Pieces(s)[k + 1] = SubSeq(s, c + 1, (c + b) - 1) /\ k + 1 \in DOMAIN Pieces(s)
    <3>1. (k + 1) - 1 = k
      BY <1>5
    <3>2. /\ k + 1 \in DOMAIN Pieces(s)
          /\ Pieces(s)[k + 1] = SubSeq(s, Cut(s, (k + 1) - 1) + 1, Cut(s, k + 1) - 1)
      BY <2>5 DEF Pieces
    <3>3. Cut(s, (k + 1) - 1) = c /\ Cut(s, k + 1) = c + b
      BY <2>6, <3>1
    <3> QED
      BY <3>2, <3>3, Zenon
  <2>8. SubSeq(s, c + 1, (c + b) - 1) = SubSeq(r, 1, b - 1)
    <3> DEFINE x == SubSeq(s, c + 1, (c + b) - 1)
               y == SubSeq(r, 1, b - 1)
    <3>1. /\ c + 1 \in Int /\ (c + b) - 1 \in Int /\ 1 \in Int /\ b - 1 \in Int
          /\ (((c + b) - 1) - (c + 1)) + 1 = b - 1 /\ ((b - 1) - 1) + 1 = b - 1
      BY <1>1, <2>1
    <3>2. \A i \in c + 1 .. (c + b) - 1 : s[i] \in STRING
      BY <1>1, <2>1
    <3>3. \A i \in 1 .. b - 1 : r[i] \in STRING
      BY <1>1, <1>2, <2>1
    <3>4. /\ x \in Seq(STRING) /\ Len(x) = b - 1
          /\ \A i \in 1 .. b - 1 : x[i] = s[c + 1 + i - 1]
      BY <1>1, <2>1, <3>1, <3>2, SubSeqProperties
    <3>5. /\ y \in Seq(STRING) /\ Len(y) = b - 1
          /\ \A i \in 1 .. b - 1 : y[i] = r[1 + i - 1]
      BY <1>1, <2>1, <3>1, <3>3, SubSeqProperties
    <3> HIDE DEF x, y
    <3>6. \A i \in 1 .. b - 1 : x[i] = y[i]
      <4>1. ASSUME NEW i \in 1 .. b - 1 PROVE c + 1 + i - 1 = c + i /\ 1 + i - 1 = i /\ i \in 1 .. Len(s) - c
        BY <1>1, <2>1
      <4> QED
        BY <4>1, <1>2, <3>4, <3>5
    <3>7. x = y
      BY <3>4, <3>5, <3>6, SeqEqual
    <3> QED
      BY <3>7 DEF x, y
  <2> QED
    BY <2>2, <2>4, <2>7, <2>8
<1> QED
  BY <1>6, <1>7 DEF r, b, k

\* A command that parse_cmd has accepted.
Parsed == [next : Nat, code : Seq(STRING), beat : Nat]

\* parse_cmd gives the meaning of the piece before the first semicolon, and refuses
\* just the pieces that are not "code,beats".
LEMMA ParseIs ==
  ASSUME NEW r \in Seq(STRING), First(r, Semicolon) # 0
  PROVE  LET p == SubSeq(r, 1, First(r, Semicolon) - 1)
         IN  /\ IsCommand(p) => /\ parse_cmd(r).next = First(r, Semicolon)
                                /\ parse_cmd(r).next > 1
                                /\ parse_cmd(r) \in Parsed
                                /\ <<parse_cmd(r).code, parse_cmd(r).beat>> = Meaning(p)
             /\ ~IsCommand(p) => parse_cmd(r) = Malformed
<1> DEFINE b == First(r, Semicolon)
           a == First(r, Comma)
           p == SubSeq(r, 1, b - 1)
<1>1. /\ b \in 1 .. Len(r) /\ r[b] = Semicolon /\ Len(r) \in Nat
      /\ \A i \in 1 .. Len(r) : r[i] = Semicolon => b <= i
  BY FirstOf
<1>2. /\ a \in 0 .. Len(r)
      /\ a = 0 => \A i \in 1 .. Len(r) : r[i] # Comma
      /\ a # 0 => r[a] = Comma /\ \A i \in 1 .. Len(r) : r[i] = Comma => a <= i
  BY FirstOf
<1> HIDE DEF a, b
<1>3. p \in Seq(STRING) /\ Len(p) = b - 1 /\ \A i \in 1 .. b - 1 : p[i] = r[i]
  BY <1>1
<1> HIDE DEF p
<1>4. a # b
  BY <1>1, <1>2, Separators
<1>5. IsCommand(p) <=> ~(a <= 1 \/ b <= 1 \/ a >= b)
  <2>1. DOMAIN p = 1 .. b - 1
    BY <1>1, <1>3
  <2>2. ASSUME IsCommand(p) PROVE ~(a <= 1 \/ b <= 1 \/ a >= b)
    <3>1. p # <<>> /\ p[1] # Comma
      BY <2>2 DEF IsCommand
    <3>2. PICK i \in 1 .. b - 1 : p[i] = Comma
      BY <2>1, <2>2 DEF IsCommand
    <3>3. i \in 1 .. Len(r) /\ r[i] = Comma /\ i < b /\ 1 \in 1 .. b - 1
      BY <1>1, <1>3, <3>2
    <3>4. a # 0 /\ a <= i
      BY <1>2, <3>3
    <3>5. a # 1
      BY <1>2, <1>3, <3>1, <3>3, <3>4
    <3> QED
      BY <1>1, <1>2, <3>3, <3>4, <3>5
  <2>3. ASSUME ~(a <= 1 \/ b <= 1 \/ a >= b) PROVE IsCommand(p)
    <3>1. a \in 2 .. b - 1 /\ r[a] = Comma
      BY <1>1, <1>2, <2>3
    <3>2. p[a] = Comma /\ a \in DOMAIN p
      BY <1>3, <2>1, <3>1
    <3>3. p[1] # Comma
      <4>1. 1 \in 1 .. b - 1 /\ 1 \in 1 .. Len(r) /\ ~ (a <= 1)
        BY <1>1, <3>1
      <4> QED
        BY <1>2, <1>3, <3>1, <4>1
    <3>4. p # <<>>
      BY <1>1, <1>3, <3>1
    <3> QED
      BY <3>2, <3>3, <3>4 DEF IsCommand
  <2> QED
    BY <2>2, <2>3
<1>6. ASSUME ~IsCommand(p) PROVE parse_cmd(r) = Malformed
  BY <1>5, <1>6 DEF parse_cmd, a, b
<1>7. ASSUME IsCommand(p)
      PROVE  /\ parse_cmd(r).next = b /\ b > 1
             /\ parse_cmd(r) \in Parsed
             /\ <<parse_cmd(r).code, parse_cmd(r).beat>> = Meaning(p)
  <2>1. a \in 2 .. b - 1 /\ r[a] = Comma /\ \A j \in 1 .. a - 1 : r[j] # Comma
    BY <1>1, <1>2, <1>5, <1>7
  <2>2. parse_cmd(r) = [next |-> b, code |-> SubSeq(r, 1, a - 1),
                        beat |-> Atoi(SubSeq(r, a + 1, Len(r)))]
    BY <1>5, <1>7 DEF parse_cmd, a, b
  <2>3. (CHOOSE i \in DOMAIN p : p[i] = Comma /\ \A j \in 1 .. i - 1 : p[j] # Comma) = a
    <3>1. DOMAIN p = 1 .. b - 1
      BY <1>1, <1>3
    <3>2. a \in DOMAIN p /\ p[a] = Comma /\ \A j \in 1 .. a - 1 : p[j] # Comma
      BY <1>1, <1>3, <2>1, <3>1
    <3>3. ASSUME NEW i \in DOMAIN p, p[i] = Comma, \A j \in 1 .. i - 1 : p[j] # Comma
          PROVE  i = a
      BY <1>1, <2>1, <3>1, <3>2, <3>3
    <3> QED
      BY <3>2, <3>3
  <2>4. Meaning(p) = <<SubSeq(p, 1, a - 1), Atoi(SubSeq(p, a + 1, Len(p)))>>
    BY <2>3, Zenon DEF Meaning
  <2>5. SubSeq(p, 1, a - 1) = SubSeq(r, 1, a - 1) /\ SubSeq(r, 1, a - 1) \in Seq(STRING)
    <3>1. /\ SubSeq(r, 1, a - 1) \in Seq(STRING) /\ Len(SubSeq(r, 1, a - 1)) = a - 1
          /\ \A i \in 1 .. a - 1 : SubSeq(r, 1, a - 1)[i] = r[i]
      BY <1>1, <2>1
    <3>2. /\ SubSeq(p, 1, a - 1) \in Seq(STRING) /\ Len(SubSeq(p, 1, a - 1)) = a - 1
          /\ \A i \in 1 .. a - 1 : SubSeq(p, 1, a - 1)[i] = p[i]
      BY <1>1, <1>3, <2>1
    <3>3. \A i \in 1 .. a - 1 : r[i] = p[i]
      BY <1>3, <2>1
    <3> QED
      BY <3>1, <3>2, <3>3, SeqEqual
  <2>6. /\ Atoi(SubSeq(r, a + 1, Len(r))) = Atoi(SubSeq(p, a + 1, Len(p)))
        /\ Atoi(SubSeq(r, a + 1, Len(r))) \in Nat
    <3> DEFINE x == SubSeq(r, a + 1, Len(r))
               y == SubSeq(p, a + 1, Len(p))
    <3>1. x \in Seq(STRING) /\ Len(x) = Len(r) - a /\ \A i \in 1 .. Len(r) - a : x[i] = r[a + i]
      BY <1>1, <2>1, RestOf
    <3>2. y \in Seq(STRING) /\ Len(y) = b - 1 - a /\ \A i \in 1 .. b - 1 - a : y[i] = p[a + i]
      <4>1. a \in 0 .. Len(p)
        BY <1>1, <1>3, <2>1
      <4> QED
        BY <1>3, <4>1, RestOf
    <3> HIDE DEF x, y
    <3>3. Len(y) < Len(x)
      BY <1>1, <2>1, <3>1, <3>2
    <3>4. ASSUME NEW j \in 1 .. Len(y) PROVE x[j] = y[j]
      <4>1. j \in 1 .. b - 1 - a /\ j \in 1 .. Len(r) - a /\ a + j \in 1 .. b - 1
        BY <1>1, <2>1, <3>2
      <4> QED
        BY <1>3, <3>1, <3>2, <4>1
    <3>5. x[Len(y) + 1] = Semicolon
      <4>1. Len(y) + 1 \in 1 .. Len(r) - a /\ a + (Len(y) + 1) = b
        BY <1>1, <2>1, <3>2
      <4> QED
        BY <1>1, <3>1, <4>1
    <3>6. Atoi(x) = Atoi(y) /\ Atoi(x) \in Nat
      BY <3>1, <3>2, <3>3, <3>4, <3>5, Separators, AtoiStops, AtoiNat
    <3> QED
      BY <3>6 DEF x, y
  <2>7. parse_cmd(r) \in Parsed
    BY <1>1, <2>2, <2>5, <2>6 DEF Parsed
  <2> QED
    BY <1>1, <2>1, <2>2, <2>4, <2>5, <2>6, <2>7
<1> QED
  BY <1>6, <1>7 DEF b, p

\* Both together: the call of parse_cmd at the end of a piece.
LEMMA NextCommand ==
  ASSUME NEW s \in Seq(STRING), NEW c \in {0} \cup Ends(s)
  PROVE  LET m == parse_cmd(RestAt(s, c))
             k == Rank(s, c) + 1
         IN  /\ m # Malformed =>
                  /\ m \in Parsed /\ m.next > 1
                  /\ c + m.next \in Ends(s) /\ Rank(s, c + m.next) = k
                  /\ k \in DOMAIN Pieces(s) /\ IsCommand(Pieces(s)[k])
                  /\ <<m.code, m.beat>> = Meaning(Pieces(s)[k])
             /\ m = Malformed /\ k \in DOMAIN Pieces(s) => ~IsCommand(Pieces(s)[k])
<1> DEFINE r == RestAt(s, c)
           b == First(r, Semicolon)
           p == SubSeq(r, 1, b - 1)
           m == parse_cmd(r)
           k == Rank(s, c) + 1
<1>1. r \in Seq(STRING)
  <2>1. Len(s) \in Nat /\ \A j \in Ends(s) : j \in Nat /\ j <= Len(s)
    BY EndsInString, Zenon
  <2>2. c \in 0 .. Len(s)
    BY <2>1
  <2> QED
    BY <2>2, RestOf DEF RestAt
<1>2. /\ b # 0 => /\ c + b \in Ends(s) /\ Rank(s, c + b) = k
                  /\ k \in DOMAIN Pieces(s) /\ Pieces(s)[k] = p
      /\ b = 0 => Rank(s, c) = Cardinality(Ends(s))
  BY PieceAt
<1>3. b # 0 => /\ IsCommand(p) => /\ m.next = b /\ m.next > 1
                                  /\ m \in Parsed
                                  /\ <<m.code, m.beat>> = Meaning(p)
               /\ ~IsCommand(p) => m = Malformed
  BY <1>1, ParseIs
<1>4. b = 0 => m = Malformed
  BY DEF parse_cmd
<1>5. b \in Nat
  BY <1>1, FirstOf
<1>6. Malformed.next = 0
  BY DEF Malformed
<1>7. Rank(s, c) = Cardinality(Ends(s)) => k \notin DOMAIN Pieces(s)
  <2>1. Cardinality(Ends(s)) \in Nat
    BY EndsFinite
  <2> QED
    BY <2>1 DEF Pieces
<1> HIDE DEF r, b, p, m, k
<1>8. /\ m # Malformed =>
           /\ m \in Parsed /\ m.next > 1
           /\ c + m.next \in Ends(s) /\ Rank(s, c + m.next) = k
           /\ k \in DOMAIN Pieces(s) /\ IsCommand(Pieces(s)[k])
           /\ <<m.code, m.beat>> = Meaning(Pieces(s)[k])
      /\ m = Malformed /\ k \in DOMAIN Pieces(s) => ~IsCommand(Pieces(s)[k])
  <2>1. CASE b = 0
    BY <1>2, <1>4, <1>7, <2>1
  <2>2. CASE b # 0 /\ IsCommand(p)
    <3>1. m # Malformed
      BY <1>3, <1>6, <2>2
    <3> QED
      BY <1>2, <1>3, <1>5, <2>2, <3>1
  <2>3. CASE b # 0 /\ ~IsCommand(p)
    BY <1>2, <1>3, <2>3
  <2> QED
    BY <2>1, <2>2, <2>3
<1> QED
  BY <1>8 DEF r, m, k

\* The commands of a string are its first pieces up to one that is not a command.
CommandCount(s) ==
  Max({k \in 0 .. Len(Pieces(s)) : \A i \in 1 .. k : IsCommand(Pieces(s)[i])})

\* What a string tells the task to do: the meaning of its pieces up to the first
\* that is no command.
LEMMA CommandsOf ==
  ASSUME NEW s \in Seq(STRING)
  PROVE  LET p == Pieces(s)
             n == CommandCount(s)
         IN  /\ DOMAIN p = 1 .. Cardinality(Ends(s)) /\ n \in 0 .. Cardinality(Ends(s))
             /\ Commands(s) = [i \in 1 .. n |-> Meaning(p[i])]
             /\ \A i \in 1 .. n : IsCommand(p[i])
             /\ \A k \in 0 .. Cardinality(Ends(s)) :
                  (\A i \in 1 .. k : IsCommand(p[i])) => k <= n
<1> DEFINE p == Pieces(s)
           N == Cardinality(Ends(s))
           K == {k \in 0 .. N : \A i \in 1 .. k : IsCommand(p[i])}
<1>1. N \in Nat
  BY EndsFinite
<1>2. DOMAIN p = 1 .. N /\ Len(p) = N
  <2>1. p = [k \in 1 .. N |-> p[k]] /\ DOMAIN p = 1 .. N
    BY DEF Pieces
  <2> HIDE DEF p, N
  <2> QED
    BY <1>1, <2>1
<1> HIDE DEF p, N
<1>3. 0 \in K /\ K \in SUBSET (0 .. N)
  BY <1>1
<1>4. CommandCount(s) = Max(K)
  BY <1>2 DEF CommandCount, p
<1>5. Max(K) \in K /\ \A k \in K : k <= Max(K)
  <2> HIDE DEF K
  <2> QED
    BY <1>1, <1>3, MaxOf
<1>6. Commands(s) = [i \in 1 .. CommandCount(s) |-> Meaning(p[i])]
  BY DEF Commands, CommandCount, p
<1> QED
  BY <1>2, <1>4, <1>5, <1>6 DEF p, N

(***************************************************************************)
(* The walk: its place in the string is the end of a piece.                 *)
(***************************************************************************)
WalkTypes ==
  /\ kind \in {"led", "motor", "notes"}
  /\ str \in Seq(STRING)
  /\ cmds \in {0} \cup Ends(str)
  /\ task_run \in BOOLEAN
  /\ pc \in {"loop", "perform", "end", "played", "stopped"}
  /\ done \in Seq(Parsed)
  /\ pc = "perform" => cmd \in Parsed

\* The pieces behind the pointer are the commands done and the one in hand; a task
\* that left the loop without being stopped has met no further command.
WalkPlace ==
  /\ Rank(str, cmds) = Len(done) + (IF pc = "perform" THEN 1 ELSE 0)
  /\ \A i \in 1 .. Rank(str, cmds) : i \in DOMAIN Pieces(str) /\ IsCommand(Pieces(str)[i])
  /\ \A i \in 1 .. Len(done) : <<done[i].code, done[i].beat>> = Meaning(Pieces(str)[i])
  /\ pc = "perform" => <<cmd.code, cmd.beat>> = Meaning(Pieces(str)[Rank(str, cmds)])
  /\ (pc = "end" /\ task_run) \/ pc = "played" => parse_cmd(RestAt(str, cmds)) = Malformed

WalkInv == WalkTypes /\ WalkPlace

\* The walk begins in front of the first piece.
LEMMA WalkInit == Init => WalkInv
<1> SUFFICES ASSUME Init PROVE WalkInv
  OBVIOUS
<1>1. str \in Seq(STRING) /\ kind \in {"led", "motor", "notes"}
  BY StringAssumption DEF Init
<1>2. done = <<>> /\ done \in Seq(Parsed) /\ Len(done) = 0 /\ cmds = 0 /\ pc = "loop"
  BY DEF Init
<1>3. WalkTypes
  BY <1>1, <1>2 DEF Init, WalkTypes
<1>4. Rank(str, cmds) = 0
  <2>1. \A j \in Ends(str) : j \in Nat /\ 1 <= j
    BY <1>1, EndsInString, Zenon
  <2>2. EndsUpTo(str, 0) = {}
    BY <2>1 DEF EndsUpTo
  <2> QED
    BY <1>2, <2>2, FS_EmptySet DEF Rank
<1>5. WalkPlace
  BY <1>2, <1>4 DEF WalkPlace
<1> QED
  BY <1>3, <1>5 DEF WalkInv

\* parse_cmd finds no command in the rest of a string that is used up.
LEMMA ParseNothing == parse_cmd(<<>>) = Malformed
<1>1. <<>> \in Seq(STRING) /\ Len(<<>>) = 0
  OBVIOUS
<1>2. First(<<>>, Comma) \in 0 .. 0
  BY <1>1, FirstOf
<1>3. First(<<>>, Comma) <= 1
  BY <1>2
<1> QED
  BY <1>3, Zenon DEF parse_cmd

\* Taking a command moves the pointer to the end of the next piece.
LEMMA TakeCmdWalk ==
  ASSUME WalkInv, TakeCmd
  PROVE  WalkInv' /\ cmd'.next > 1 /\ cmd'.next \in Nat
<1> DEFINE m == parse_cmd(RestAt(str, cmds))
           k == Rank(str, cmds) + 1
<1>1. /\ str \in Seq(STRING) /\ cmds \in {0} \cup Ends(str)
      /\ done \in Seq(Parsed) /\ Rank(str, cmds) = Len(done) /\ Len(done) \in Nat
  BY DEF WalkInv, WalkTypes, WalkPlace, TakeCmd
<1>2. cmd' = m /\ m # Malformed /\ cmds' = cmds + m.next /\ pc = "loop" /\ pc' = "perform"
  BY DEF TakeCmd, Rest, RestAt
<1>3. UNCHANGED <<kind, str, task_run, ticks, done>>
  BY DEF TakeCmd
<1>4. /\ m \in Parsed /\ m.next > 1
      /\ cmds + m.next \in Ends(str) /\ Rank(str, cmds + m.next) = k
      /\ k \in DOMAIN Pieces(str) /\ IsCommand(Pieces(str)[k])
      /\ <<m.code, m.beat>> = Meaning(Pieces(str)[k])
  BY <1>1, <1>2, NextCommand
<1> HIDE DEF m, k
<1>5. WalkTypes'
  BY <1>2, <1>3, <1>4 DEF WalkInv, WalkTypes
<1>6. Rank(str, cmds)' = k
  BY <1>2, <1>3, <1>4
<1>7. k = Len(done) + 1 /\ \A i \in 1 .. k : i \in 1 .. Rank(str, cmds) \/ i = k
  BY <1>1 DEF k
<1>8. WalkPlace'
  BY <1>2, <1>3, <1>4, <1>6, <1>7 DEF WalkInv, WalkPlace
<1>9. m.next \in Nat
  BY <1>4 DEF Parsed
<1> QED
  BY <1>2, <1>4, <1>5, <1>8, <1>9 DEF WalkInv

\* Every step keeps the walk at the end of a piece.
LEMMA WalkNext == WalkInv /\ [Next]_vars => WalkInv'
<1> SUFFICES ASSUME WalkInv, [Next]_vars PROVE WalkInv'
  OBVIOUS
<1> USE DEF WalkInv
<1>1. CASE Leave
  <2>1. WalkTypes'
    BY <1>1 DEF Leave, WalkTypes
  <2>2. task_run => parse_cmd(RestAt(str, cmds)) = Malformed
    BY <1>1, ParseNothing DEF Leave, Rest, RestAt
  <2>3. WalkPlace'
    BY <1>1, <2>2 DEF Leave, WalkPlace
  <2> QED
    BY <2>1, <2>3
<1>2. CASE TakeCmd
  BY <1>2, TakeCmdWalk
<1>3. CASE Perform
  <2>1. /\ done' = Append(done, cmd) /\ cmd \in Parsed /\ done \in Seq(Parsed)
        /\ pc = "perform" /\ pc' = "loop"
        /\ UNCHANGED <<kind, str, cmds, task_run>>
    BY <1>3 DEF Perform, WalkTypes
  <2>2. /\ done' \in Seq(Parsed) /\ Len(done') = Len(done) + 1 /\ Len(done) \in Nat
        /\ done'[Len(done) + 1] = cmd
        /\ \A i \in 1 .. Len(done) : done'[i] = done[i]
    BY <2>1
  <2>3. WalkTypes'
    BY <2>1, <2>2 DEF WalkTypes
  <2>4. Rank(str, cmds) = Len(done) + 1
    BY <2>1 DEF WalkPlace
  <2>5. \A i \in 1 .. Len(done') : <<done'[i].code, done'[i].beat>> = Meaning(Pieces(str)[i])
    <3>1. \A i \in 1 .. Len(done') : i \in 1 .. Len(done) \/ i = Len(done) + 1
      BY <2>2
    <3>2. \A i \in 1 .. Len(done) : <<done[i].code, done[i].beat>> = Meaning(Pieces(str)[i])
      BY DEF WalkPlace
    <3>3. <<cmd.code, cmd.beat>> = Meaning(Pieces(str)[Len(done) + 1])
      BY <2>1, <2>4 DEF WalkPlace
    <3> QED
      BY <2>2, <3>1, <3>2, <3>3
  <2>6. WalkPlace'
    BY <2>1, <2>2, <2>4, <2>5 DEF WalkPlace
  <2> QED
    BY <2>3, <2>6
<1>4. CASE End
  BY <1>4 DEF End, WalkTypes, WalkPlace
<1>5. CASE StopTask
  BY <1>5 DEF StopTask, WalkTypes, WalkPlace
<1>6. CASE UNCHANGED vars
  BY <1>6 DEF vars, WalkTypes, WalkPlace
<1> QED
  BY <1>1, <1>2, <1>3, <1>4, <1>5, <1>6 DEF Next, Walk, Ended

\* The walk never leaves its invariant.
LEMMA WalkInvariant == Spec => []WalkInv
BY WalkInit, WalkNext, PTL DEF Spec

\* The pointer stays inside the string, for every string: parse_cmd returns the
\* position of a semicolon that is there.
THEOREM PointerInString == Spec => []StaysInString
<1>1. WalkInv => StaysInString
  <2> SUFFICES ASSUME WalkInv PROVE cmds <= Len(str)
    BY DEF StaysInString
  <2>1. str \in Seq(STRING) /\ cmds \in {0} \cup Ends(str)
    BY DEF WalkInv, WalkTypes
  <2>2. Len(str) \in Nat /\ \A j \in Ends(str) : j <= Len(str)
    BY <2>1, EndsInString, Zenon
  <2> QED
    BY <2>1, <2>2
<1> QED
  BY <1>1, WalkInvariant, PTL

\* The commands carried out are those of the string, in order, and all of them when
\* the task has not been stopped.
THEOREM StringCarriedOut == Spec => []CarriesOutString
<1>1. WalkInv => CarriesOutString
  <2> SUFFICES ASSUME WalkInv PROVE CarriesOutString
    OBVIOUS
  <2> DEFINE p == Pieces(str)
             n == CommandCount(str)
             N == Cardinality(Ends(str))
             k == Rank(str, cmds)
             M == {Meaning(p[i]) : i \in 1 .. n}
  <2>1. str \in Seq(STRING) /\ cmds \in {0} \cup Ends(str) /\ done \in Seq(Parsed)
        /\ Len(done) \in Nat
    BY DEF WalkInv, WalkTypes
  <2>2. /\ k = Len(done) + (IF pc = "perform" THEN 1 ELSE 0)
        /\ \A i \in 1 .. k : i \in DOMAIN p /\ IsCommand(p[i])
        /\ \A i \in 1 .. Len(done) : <<done[i].code, done[i].beat>> = Meaning(p[i])
        /\ pc = "played" => parse_cmd(RestAt(str, cmds)) = Malformed
    BY DEF WalkInv, WalkPlace
  <2>3. /\ DOMAIN p = 1 .. N /\ n \in 0 .. N /\ N \in Nat
        /\ Commands(str) = [i \in 1 .. n |-> Meaning(p[i])]
        /\ \A i \in 1 .. n : IsCommand(p[i])
        /\ \A j \in 0 .. N : (\A i \in 1 .. j : IsCommand(p[i])) => j <= n
    BY <2>1, CommandsOf, EndsFinite
  <2>4. pc = "played" => (k + 1 \in DOMAIN p => ~IsCommand(p[k + 1]))
    BY <2>1, <2>2, NextCommand
  <2>5. k \in Nat /\ k <= N
    BY <2>1, EndsFinite DEF Rank
  <2> HIDE DEF p, n, N, k
  <2>6. Len(done) <= k /\ k <= n
    <3>1. k \in 0 .. N /\ \A i \in 1 .. k : IsCommand(p[i])
      BY <2>2, <2>3, <2>5
    <3>2. k <= n
      BY <2>3, <3>1
    <3>3. Len(done) <= k
      BY <2>1, <2>2
    <3> QED
      BY <3>2, <3>3
  <2>7. pc = "played" => Len(done) = n
    <3>1. SUFFICES ASSUME pc = "played", k < n PROVE FALSE
      BY <2>1, <2>2, <2>3, <2>5, <2>6
    <3>2. k + 1 \in 1 .. n /\ k + 1 \in 1 .. N
      BY <2>3, <2>5, <3>1
    <3> QED
      BY <2>3, <2>4, <3>1, <3>2
  <2>8. /\ Carried \in Seq(M) /\ Len(Carried) = Len(done)
        /\ \A i \in 1 .. Len(done) : Carried[i] = Meaning(p[i])
    <3>1. DOMAIN done = 1 .. Len(done)
      BY <2>1
    <3>2. \A i \in 1 .. Len(done) : Carried[i] = Meaning(p[i]) /\ i \in 1 .. n
      <4>1. \A i \in 1 .. Len(done) : i \in 1 .. n
        BY <2>1, <2>3, <2>5, <2>6
      <4>2. \A i \in 1 .. Len(done) : Carried[i] = <<done[i].code, done[i].beat>>
        BY <3>1 DEF Carried
      <4> QED
        BY <2>2, <4>1, <4>2
    <3>3. Carried \in [1 .. Len(done) -> M]
      BY <3>1, <3>2 DEF Carried
    <3> QED
      BY <2>1, <3>2, <3>3
  <2>9. /\ Commands(str) \in Seq(M) /\ Len(Commands(str)) = n
        /\ \A i \in 1 .. n : Commands(str)[i] = Meaning(p[i])
    BY <2>3
  <2> HIDE DEF M
  <2>10. pc = "played" => Carried = Commands(str)
    BY <2>7, <2>8, <2>9, SeqEqual
  <2>11. SubSeq(Carried, 1, Len(Carried)) = SubSeq(Commands(str), 1, Len(Carried))
    <3> DEFINE l == Len(done)
               x == SubSeq(Carried, 1, l)
               y == SubSeq(Commands(str), 1, l)
    <3>1. /\ x \in Seq(M) /\ Len(x) = l /\ \A i \in 1 .. l : x[i] = Carried[i]
      BY <2>1, <2>8
    <3>2. /\ y \in Seq(M) /\ Len(y) = l /\ \A i \in 1 .. l : y[i] = Commands(str)[i]
      BY <2>1, <2>3, <2>5, <2>6, <2>9
    <3>3. \A i \in 1 .. l : Carried[i] = Commands(str)[i]
      BY <2>1, <2>3, <2>5, <2>6, <2>8, <2>9
    <3> HIDE DEF x, y
    <3>4. x = y
      BY <3>1, <3>2, <3>3, SeqEqual
    <3> QED
      BY <2>8, <3>4 DEF x, y
  <2>12. Len(Carried) <= Len(Commands(str))
    BY <2>1, <2>3, <2>5, <2>6, <2>8, <2>9
  <2> QED
    BY <2>10, <2>11, <2>12 DEF CarriesOutString, IsPrefix
<1> QED
  BY <1>1, WalkInvariant, PTL

\* Every step of the task, whatever the string, brings it closer to its end.
THEOREM WalkShrinks == Spec => WalkAdvances
<1>1. ASSUME WalkInv, [Next]_vars
      PROVE  [pc' # pc => StepsLeft' < StepsLeft /\ StepsLeft' >= 0]_vars
  <2> DEFINE n == Len(str)
  <2>1. str \in Seq(STRING) /\ cmds \in {0} \cup Ends(str)
    BY <1>1 DEF WalkInv, WalkTypes
  <2>2. n \in Nat /\ \A j \in Ends(str) : j \in Nat /\ j <= n
    BY <2>1, EndsInString, Zenon
  <2>3. cmds \in Nat /\ cmds <= n
    BY <2>1, <2>2
  <2> HIDE DEF n
  <2>4. CASE Leave
    BY <2>2, <2>3, <2>4 DEF Leave, StepsLeft, n
  <2>5. CASE TakeCmd
    <3>1. WalkInv' /\ cmd'.next > 1 /\ cmd'.next \in Nat
      BY <1>1, <2>5, TakeCmdWalk
    <3>2. cmds' \in {0} \cup Ends(str) /\ str' = str
      BY <3>1, <2>5 DEF WalkInv, WalkTypes, TakeCmd
    <3>3. cmds' \in Nat /\ cmds' <= n
      BY <2>2, <3>2
    <3>4. cmds' = cmds + cmd'.next /\ pc = "loop" /\ pc' = "perform"
      BY <2>5 DEF TakeCmd
    <3> QED
      BY <2>2, <2>3, <3>1, <3>2, <3>3, <3>4 DEF StepsLeft, n
  <2>6. CASE Perform
    BY <2>2, <2>3, <2>6 DEF Perform, StepsLeft, n
  <2>7. CASE End
    BY <2>2, <2>3, <2>7 DEF End, StepsLeft, n
  <2>8. CASE StopTask \/ UNCHANGED vars
    BY <2>8 DEF StopTask, vars
  <2> QED
    BY <1>1, <2>4, <2>5, <2>6, <2>7, <2>8 DEF Next, Walk, Ended
<1> QED
  BY <1>1, WalkInvariant, PTL DEF Spec, WalkAdvances

(***************************************************************************)
(* The beat.                                                                *)
(***************************************************************************)
\* A command takes its beats, less what the truncations cost.
LEMMA DurationIs ==
  ASSUME NEW c \in Parsed, kind \in {"led", "motor", "notes"}
  PROVE  Duration(c) = 60 * c.beat - Early(c) /\ Early(c) \in Int
<1> DEFINE n == c.beat
<1>1. n \in Nat
  BY DEF Parsed
<1> HIDE DEF n
<1>2. Beats(n) = 60 * n
  BY <1>1 DEF Beats, pdMS_TO_TICKS
<1>3. RestBeats(n) = IF n \in ShortRests THEN 60 * n - 1 ELSE 60 * n
  BY <1>1 DEF RestBeats, pdMS_TO_TICKS
<1>4. NoteBeats(n) = 60 * n
  BY <1>1 DEF NoteBeats, pdMS_TO_TICKS
<1>5. Blink(n) = 60 * n /\ Chase(n) = 56 * n
  BY <1>1 DEF Blink, Chase, pdMS_TO_TICKS
<1>6. CASE kind = "led"
  BY <1>1, <1>2, <1>5, <1>6 DEF Duration, LedDuration, Early, n
<1>7. CASE kind = "notes"
  BY <1>1, <1>3, <1>4, <1>7 DEF Duration, NotesDuration, Early, n
<1>8. CASE kind = "motor"
  BY <1>1, <1>2, <1>8 DEF Duration, Early, n
<1> QED
  BY <1>6, <1>7, <1>8

\* The nominal times and the leads of the commands done, as sequences.
Times == [i \in DOMAIN done |-> 60 * done[i].beat]
Leads == [i \in DOMAIN done |-> Early(done[i])]

\* Both are sequences of numbers.
LEMMA TimesAreNumbers ==
  ASSUME WalkTypes
  PROVE  Times \in Seq(Int) /\ Leads \in Seq(Int)
<1>1. done \in Seq(Parsed) /\ DOMAIN done = 1 .. Len(done) /\ Len(done) \in Nat
  BY DEF WalkTypes
<1>2. \A i \in 1 .. Len(done) : 60 * done[i].beat \in Int /\ Early(done[i]) \in Int
  <2>1. \A i \in 1 .. Len(done) : done[i] \in Parsed
    BY <1>1
  <2>2. \A c \in Parsed : 60 * c.beat \in Int /\ Early(c) \in Int
    BY DurationIs DEF WalkTypes, Parsed
  <2> QED
    BY <2>1, <2>2
<1> QED
  BY <1>1, <1>2 DEF Times, Leads

BeatInv == WalkInv /\ ticks \in Int /\ KeepsTheBeat

\* One command more adds its own time and its own lead.
LEMMA PerformBeat ==
  ASSUME BeatInv, Perform
  PROVE  ticks' \in Int /\ KeepsTheBeat'
<1>1. /\ done' = Append(done, cmd) /\ cmd \in Parsed /\ done \in Seq(Parsed)
      /\ kind' = kind /\ kind \in {"led", "motor", "notes"}
      /\ ticks' = ticks + Duration(cmd)
  BY DEF Perform, BeatInv, WalkInv, WalkTypes
<1>2. Duration(cmd) = 60 * cmd.beat - Early(cmd) /\ Early(cmd) \in Int /\ 60 * cmd.beat \in Int
  BY <1>1, DurationIs DEF Parsed
<1>3. Times \in Seq(Int) /\ Leads \in Seq(Int)
  BY TimesAreNumbers DEF BeatInv, WalkInv
<1>4. /\ DOMAIN done' = 1 .. Len(done) + 1 /\ DOMAIN done = 1 .. Len(done) /\ Len(done) \in Nat
      /\ done'[Len(done) + 1] = cmd /\ \A i \in 1 .. Len(done) : done'[i] = done[i]
  BY <1>1
<1>5. \A c : Early(c)' = Early(c)
  BY <1>1 DEF Early
<1>6. Times' = Append(Times, 60 * cmd.beat)
  BY <1>1, <1>2, <1>3, <1>4 DEF Times
<1>7. Leads' = Append(Leads, Early(cmd))
  BY <1>1, <1>2, <1>3, <1>4, <1>5 DEF Leads
<1>8. /\ SumOf(Times') = SumOf(Times) + 60 * cmd.beat /\ SumOf(Times) \in Int
      /\ SumOf(Leads') = SumOf(Leads) + Early(cmd) /\ SumOf(Leads) \in Int
  BY <1>2, <1>3, <1>6, <1>7, SumOfOneMore
<1>9. ticks \in Int /\ ticks = SumOf(Times) - SumOf(Leads)
  BY DEF BeatInv, KeepsTheBeat, Nominal, Ahead, Times, Leads
<1>10. ticks' \in Int /\ ticks' = SumOf(Times') - SumOf(Leads')
  BY <1>1, <1>2, <1>8, <1>9
<1> QED
  BY <1>10 DEF KeepsTheBeat, Nominal, Ahead, Times, Leads

\* Strings of the same beats take the same time, for strings of any length, up to
\* the truncations that Early names.
THEOREM StringsInStep == Spec => []KeepsTheBeat
<1>1. Init => BeatInv
  <2> SUFFICES ASSUME Init PROVE BeatInv
    OBVIOUS
  <2>1. done = <<>> /\ ticks = 0
    BY DEF Init
  <2>2. Times = <<>> /\ Leads = <<>>
    BY <2>1 DEF Times, Leads
  <2>3. KeepsTheBeat
    BY <2>1, <2>2, SumOfNone DEF KeepsTheBeat, Nominal, Ahead, Times, Leads
  <2> QED
    BY <2>1, <2>3, WalkInit DEF BeatInv
<1>2. BeatInv /\ [Next]_vars => BeatInv'
  <2> SUFFICES ASSUME BeatInv, [Next]_vars PROVE BeatInv'
    OBVIOUS
  <2>1. WalkInv'
    BY WalkNext DEF BeatInv
  <2>2. CASE Perform
    BY <2>1, <2>2, PerformBeat DEF BeatInv
  <2>3. CASE ~Perform
    <3>1. UNCHANGED <<kind, done, ticks>>
      BY <2>3 DEF Next, Walk, Leave, TakeCmd, End, StopTask, Ended, vars
    <3>2. KeepsTheBeat'
      BY <3>1 DEF BeatInv, KeepsTheBeat, Nominal, Ahead, Early
    <3> QED
      BY <2>1, <3>1, <3>2 DEF BeatInv
  <2> QED
    BY <2>2, <2>3
<1>3. BeatInv => KeepsTheBeat
  BY DEF BeatInv
<1> QED
  BY <1>1, <1>2, <1>3, PTL DEF Spec
=============================================================================
