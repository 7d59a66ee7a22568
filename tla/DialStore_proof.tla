--------------------------- MODULE DialStore_proof ---------------------------
(***************************************************************************)
(* Proofs about DialStore, for all words, all lists that clients may send  *)
(* and any number of saves, failing writes and crashes.                    *)
(*                                                                         *)
(* The text of a list is defined by recursion over its pairs.  Where an    *)
(* argument needs induction it looks at the least number for which the     *)
(* claim fails: one exists because < on the naturals is well founded.      *)
(***************************************************************************)
EXTENDS DialStore, SequenceTheorems, WellFoundedInduction, TLAPS

-----------------------------------------------------------------------------
(* Least counterexamples, and FlattenSeq.                                  *)

\* A set of natural numbers that is not empty has a least element.
LEMMA NatMin ==
    ASSUME NEW T, T \subseteq Nat, T # {}
    PROVE  \E m \in T : \A k \in T : m <= k
<1> DEFINE R == {p \in Nat \X Nat : p[1] < p[2]}
<1>1. OpToRel(<, Nat) = R
  BY DEF OpToRel
<1>2. IsWellFoundedOn(R, Nat)
  BY <1>1, NatLessThanWellFounded
<1>3. PICK m \in T : \A k \in T : ~(<<k, m>> \in R)
  <2> HIDE DEF R
  <2> QED BY <1>2, WFMin
<1>4. \A k \in T : k \in Nat /\ m \in Nat /\ ~(k < m)
  BY <1>3
<1> QED BY <1>4

\* f[i] puts the first i sequences together, for i up to n.
IsFlattening(f, seqs, n, S) ==
    /\ f \in [1 .. n -> Seq(S)]
    /\ \A i \in 1 .. n : f[i] = IF i = 1 THEN seqs[i] ELSE f[i - 1] \o seqs[i]

\* For every number of sequences there is such a function: the recursion of
\* FlattenSeq has a solution.
LEMMA FlatteningExists ==
    ASSUME NEW S, NEW seqs \in Seq(Seq(S)), NEW n \in 1 .. Len(seqs)
    PROVE  \E f : IsFlattening(f, seqs, n, S)
<1> DEFINE Bad == {k \in 1 .. n : ~\E f : IsFlattening(f, seqs, k, S)}
<1>0. /\ n \in Nat /\ n >= 1
      /\ \A i \in 1 .. n : seqs[i] \in Seq(S)
  BY LenProperties
<1>1. SUFFICES ASSUME Bad # {} PROVE FALSE
  <2>1. n \notin Bad => \E f : IsFlattening(f, seqs, n, S)
    BY <1>0
  <2> HIDE DEF Bad
  <2> QED BY <2>1
<1>2. PICK m \in Bad : \A k \in Bad : m <= k
  <2> Bad \subseteq Nat
    OBVIOUS
  <2> HIDE DEF Bad
  <2> QED BY <1>1, NatMin
<1>3. m \in 1 .. n /\ m \in Int
  BY <1>2, <1>0
<1>4. CASE m = 1
  <2>1. IsFlattening([i \in 1 .. m |-> seqs[1]], seqs, m, S)
    BY <1>0, <1>4 DEF IsFlattening
  <2> QED BY <2>1, <1>2
<1>5. CASE m # 1
  <2>1. m - 1 \in 1 .. n /\ ~(m <= m - 1)
    BY <1>3, <1>5, <1>0
  <2>2. PICK g : IsFlattening(g, seqs, m - 1, S)
    BY <1>2, <2>1
  <2> DEFINE h == [i \in 1 .. m |-> IF i = m THEN g[m - 1] \o seqs[m] ELSE g[i]]
  <2>3. \A i \in 1 .. m - 1 : g[i] \in Seq(S)
    BY <2>2 DEF IsFlattening
  <2>4. g[m - 1] \o seqs[m] \in Seq(S)
    <3>1. g[m - 1] \in Seq(S) /\ seqs[m] \in Seq(S)
      BY <2>1, <2>3, <1>3, <1>0
    <3> QED BY <3>1, ConcatProperties
  <2>5. h \in [1 .. m -> Seq(S)]
    BY <2>3, <2>4, <1>3
  <2>6. ASSUME NEW i \in 1 .. m
        PROVE  h[i] = IF i = 1 THEN seqs[i] ELSE h[i - 1] \o seqs[i]
    <3>1. CASE i = m
      <4>1. h[m] = g[m - 1] \o seqs[m] /\ h[m - 1] = g[m - 1]
        <5>1. m \in 1 .. m /\ m - 1 \in 1 .. m /\ m - 1 # m
          BY <1>3, <2>1
        <5> QED BY <5>1
      <4> HIDE DEF h
      <4> QED BY <3>1, <1>5, <4>1
    <3>2. CASE i # m
      <4>1. i \in 1 .. m - 1 /\ h[i] = g[i]
        BY <3>2, <1>3
      <4>2. i # 1 => i - 1 \in 1 .. m /\ i - 1 # m /\ h[i - 1] = g[i - 1]
        BY <4>1, <1>3
      <4> QED BY <4>1, <4>2, <2>2 DEF IsFlattening
    <3> QED BY <3>1, <3>2
  <2>7. IsFlattening(h, seqs, m, S)
    <3> HIDE DEF h
    <3> QED BY <2>5, <2>6 DEF IsFlattening
  <2> QED BY <2>7, <1>2
<1> QED BY <1>4, <1>5

\* So FlattenSeq is the last value of a function of this kind.
LEMMA FlattenSeqUnfold ==
    ASSUME NEW S, NEW seqs \in Seq(Seq(S)), seqs # <<>>
    PROVE  /\ Len(seqs) \in Nat /\ Len(seqs) >= 1
           /\ \E f : IsFlattening(f, seqs, Len(seqs), S) /\ FlattenSeq(seqs) = f[Len(seqs)]
<1> DEFINE n == Len(seqs)
<1>1. n \in Nat /\ n >= 1 /\ n \in 1 .. n
  BY EmptySeq, LenProperties
<1>2. PICK g : IsFlattening(g, seqs, n, S)
  BY <1>1, FlatteningExists
<1> DEFINE Eqn(f) == f = [i \in 1 .. n |-> IF i = 1 THEN seqs[i] ELSE f[i - 1] \o seqs[i]]
           c == CHOOSE f : Eqn(f)
<1>3. Eqn(g)
  BY <1>2 DEF IsFlattening
<1>4. FlattenSeq(seqs) = c[n]
  BY <1>1 DEF FlattenSeq
<1>5. Eqn(c)
  <2> HIDE DEF Eqn
  <2> QED BY <1>3
<1>6. DOMAIN c = 1 .. n
  BY <1>5
<1>7. \A i \in 1 .. n : c[i] = IF i = 1 THEN seqs[i] ELSE c[i - 1] \o seqs[i]
  <2> HIDE DEF c
  <2> QED BY <1>5
<1> HIDE DEF c
<1> DEFINE Bad == {i \in 1 .. n : c[i] # g[i]}
<1>8. ASSUME Bad # {} PROVE FALSE
  <2>1. PICK m \in Bad : \A k \in Bad : m <= k
    <3> Bad \subseteq Nat
      OBVIOUS
    <3> HIDE DEF Bad
    <3> QED BY <1>8, NatMin
  <2>2. m \in 1 .. n /\ c[m] # g[m]
    BY <2>1
  <2>3. m # 1 => m - 1 \in 1 .. n /\ c[m - 1] = g[m - 1]
    BY <2>1, <2>2, <1>1
  <2> QED BY <2>2, <2>3, <1>7, <1>2 DEF IsFlattening
<1>9. \A i \in 1 .. n : c[i] = g[i]
  BY <1>8
<1>10. c[n] = g[n]
  BY <1>9, <1>1
<1> QED BY <1>1, <1>2, <1>4, <1>10

\* What FlattenSeq puts together are elements of its sequences.
LEMMA FlattenSeqType ==
    ASSUME NEW S, NEW seqs \in Seq(Seq(S))
    PROVE  FlattenSeq(seqs) \in Seq(S)
<1>1. CASE seqs = <<>>
  BY <1>1, EmptySeq DEF FlattenSeq
<1>2. CASE seqs # <<>>
  BY <1>2, FlattenSeqUnfold DEF IsFlattening
<1> QED BY <1>1, <1>2


-----------------------------------------------------------------------------
(* What store_dial_data prints.                                            *)

\* The text of a list consists of the words of its fields.
LEMMA PrintedType ==
    ASSUME NEW S, NEW list \in Seq(Pairs(S))
    PROVE  Printed(list) \in Seq(S)
<1> DEFINE seqs == [i \in 1 .. Len(list) |-> list[i].key \o list[i].value]
<1>1. Len(list) \in Nat /\ \A i \in 1 .. Len(list) : list[i] \in Pairs(S)
  BY LenProperties
<1>2. ASSUME NEW i \in 1 .. Len(list)
      PROVE  list[i].key \o list[i].value \in Seq(S)
  <2>1. list[i].key \in Seq(S) /\ list[i].value \in Seq(S)
    BY <1>1 DEF Pairs
  <2> QED BY <2>1, ConcatProperties
<1>3. seqs \in Seq(Seq(S))
  BY <1>1, <1>2, IsASeq
<1> QED BY <1>3, FlattenSeqType DEF Printed

\* c has the elements of s and behind them those of t.
IsConcat(c, s, t) ==
    /\ Len(c) = Len(s) + Len(t)
    /\ \A k \in 1 .. Len(s) + Len(t) : c[k] = IF k <= Len(s) THEN s[k] ELSE t[k - Len(s)]

\* The library's theorem about concatenation, with IsConcat as its conclusion.
LEMMA ConcatParts ==
    ASSUME NEW S, NEW s \in Seq(S), NEW t \in Seq(S)
    PROVE  s \o t \in Seq(S) /\ IsConcat(s \o t, s, t)
BY ConcatProperties DEF IsConcat

\* In the text of a list of single words, pair j is found at words 2 * j - 1 and
\* 2 * j: the lines of store_dial_data are two words each.
LEMMA PrintedWords ==
    ASSUME NEW S, NEW list \in Seq(Pairs(S)), SingleWords(list)
    PROVE  /\ Len(Printed(list)) = 2 * Len(list)
           /\ \A j \in 1 .. Len(list) : /\ Printed(list)[2 * j - 1] = list[j].key[1]
                                        /\ Printed(list)[2 * j] = list[j].value[1]
<1> DEFINE n == Len(list)
           seqs == [i \in 1 .. n |-> list[i].key \o list[i].value]
<1>1. n \in Nat /\ \A i \in 1 .. n : list[i].key \in Seq(S) /\ list[i].value \in Seq(S)
  <2>1. n \in Nat /\ \A i \in 1 .. n : list[i] \in Pairs(S)
    BY LenProperties
  <2> QED BY <2>1 DEF Pairs
<1>2. ASSUME NEW i \in 1 .. n
      PROVE  /\ seqs[i] \in Seq(S)
             /\ Len(seqs[i]) = 2
             /\ seqs[i][1] = list[i].key[1]
             /\ seqs[i][2] = list[i].value[1]
  <2>1. Len(list[i].key) = 1 /\ Len(list[i].value) = 1
    BY DEF SingleWords
  <2>2. seqs[i] = list[i].key \o list[i].value
    OBVIOUS
  <2>3. list[i].key \in Seq(S) /\ list[i].value \in Seq(S)
    BY <1>1
  <2> HIDE DEF seqs
  <2>4. seqs[i] \in Seq(S) /\ IsConcat(seqs[i], list[i].key, list[i].value)
    BY <2>2, <2>3, ConcatParts
  <2> QED BY <2>1, <2>4 DEF IsConcat
<1>3. /\ seqs \in Seq(Seq(S))
      /\ Len(seqs) = n
      /\ Printed(list) = FlattenSeq(seqs)
  <2>1. seqs \in [1 .. n -> Seq(S)]
    BY <1>2
  <2> QED BY <1>1, <2>1, SeqDef DEF Printed
<1> HIDE DEF seqs
<1>4. CASE n = 0
  <2>1. seqs = <<>>
    BY <1>3, <1>4, EmptySeq
  <2> QED BY <1>3, <1>4, <2>1, EmptySeq DEF FlattenSeq
<1>5. CASE n # 0
  <2>1. seqs # <<>>
    BY <1>3, <1>5, EmptySeq
  <2>2. PICK f : IsFlattening(f, seqs, n, S) /\ FlattenSeq(seqs) = f[n]
    BY <2>1, <1>3, FlattenSeqUnfold
  <2>3. \A i \in 1 .. n : f[i] = IF i = 1 THEN seqs[i] ELSE f[i - 1] \o seqs[i]
    BY <2>2 DEF IsFlattening
  <2>4. \A i \in 1 .. n : f[i] \in Seq(S)
    BY <2>2 DEF IsFlattening
  <2> DEFINE Good(i) == /\ Len(f[i]) = 2 * i
                        /\ \A j \in 1 .. i : /\ f[i][2 * j - 1] = list[j].key[1]
                                             /\ f[i][2 * j] = list[j].value[1]
             Bad == {i \in 1 .. n : ~Good(i)}
  <2>5. ASSUME Bad # {} PROVE FALSE
    <3>1. PICK m \in Bad : \A k \in Bad : m <= k
      <4> Bad \subseteq Nat
        OBVIOUS
      <4> HIDE DEF Bad
      <4> QED BY <2>5, NatMin
    <3>2. m \in 1 .. n /\ ~Good(m)
      BY <3>1
    <3>3. m # 1 => m - 1 \in 1 .. n /\ Good(m - 1)
      <4> SUFFICES ASSUME m # 1 PROVE m - 1 \in 1 .. n /\ Good(m - 1)
        OBVIOUS
      <4>1. m - 1 \in 1 .. n /\ ~(m <= m - 1)
        BY <3>2, <1>1
      <4>2. m - 1 \notin Bad
        <5> HIDE DEF Bad
        <5> QED BY <3>1, <4>1
      <4> QED BY <4>1, <4>2
    <3>4. m \in Nat /\ m >= 1
      BY <3>2
    <3>5. CASE m = 1
      <4>1. f[m] = seqs[m]
        BY <2>3, <3>2, <3>5
      <4>2. Len(f[m]) = 2 /\ f[m][1] = list[1].key[1] /\ f[m][2] = list[1].value[1]
        BY <4>1, <1>2, <3>2, <3>5
      <4>3. Good(m)
        BY <4>2, <3>5
      <4> QED BY <4>3, <3>2
    <3>6. CASE m # 1
      <4>1. f[m] = f[m - 1] \o seqs[m]
        BY <2>3, <3>2, <3>6
      <4>2. f[m - 1] \in Seq(S) /\ Len(f[m - 1]) = 2 * (m - 1)
        BY <2>4, <3>3, <3>6
      <4>3. /\ Len(f[m]) = 2 * m
            /\ \A k \in 1 .. 2 * m :
                 f[m][k] = IF k <= 2 * (m - 1) THEN f[m - 1][k]
                           ELSE seqs[m][k - 2 * (m - 1)]
        <5>1. seqs[m] \in Seq(S) /\ Len(seqs[m]) = 2
          BY <1>2, <3>2
        <5>2. IsConcat(f[m], f[m - 1], seqs[m])
          BY <4>1, <4>2, <5>1, ConcatParts
        <5>3. Len(f[m - 1]) + Len(seqs[m]) = 2 * m
          BY <4>2, <5>1, <3>4
        <5> QED BY <5>2, <5>3, <4>2 DEF IsConcat
      <4>4. ASSUME NEW j \in 1 .. m
            PROVE  f[m][2 * j - 1] = list[j].key[1] /\ f[m][2 * j] = list[j].value[1]
        <5>1. 2 * j - 1 \in 1 .. 2 * m /\ 2 * j \in 1 .. 2 * m
          BY <3>4
        <5>2. CASE j = m
          <6>1. /\ ~(2 * j - 1 <= 2 * (m - 1)) /\ 2 * j - 1 - 2 * (m - 1) = 1
                /\ ~(2 * j <= 2 * (m - 1)) /\ 2 * j - 2 * (m - 1) = 2
            BY <5>2, <3>4
          <6>2. f[m][2 * j - 1] = seqs[m][1] /\ f[m][2 * j] = seqs[m][2]
            BY <4>3, <5>1, <6>1
          <6> QED BY <6>2, <1>2, <3>2, <5>2
        <5>3. CASE j # m
          <6>1. j \in 1 .. m - 1 /\ 2 * j - 1 <= 2 * (m - 1) /\ 2 * j <= 2 * (m - 1)
            BY <5>3, <3>4
          <6>2. f[m][2 * j - 1] = f[m - 1][2 * j - 1] /\ f[m][2 * j] = f[m - 1][2 * j]
            BY <4>3, <5>1, <6>1
          <6> QED BY <6>1, <6>2, <3>3, <3>6
        <5> QED BY <5>2, <5>3
      <4>5. Good(m)
        BY <4>3, <4>4
      <4> QED BY <4>5, <3>2
    <3> QED BY <3>5, <3>6
  <2>6. Good(n)
    BY <2>5, <1>1, <1>5
  <2> QED BY <2>6, <2>2, <1>3
<1> QED BY <1>4, <1>5

-----------------------------------------------------------------------------
(* What retrieve_dial_data reads.                                          *)

\* How many pairs are read from a file, a last one without value included.
PairsRead(words) == (Len(words) + 1) \div 2

\* The list that is read has that length, holds words of the file or the
\* uninitialized array, and holds the pairs of the file from its end.
LEMMA ReadParts ==
    ASSUME NEW S, NEW words \in Seq(S)
    PROVE  /\ PairsRead(words) \in Nat
           /\ 2 * PairsRead(words) \in Len(words) .. Len(words) + 1
           /\ Read(words) \in Seq(Pairs(S \cup {Garbage}))
           /\ Len(Read(words)) = PairsRead(words)
           /\ \A i \in 1 .. PairsRead(words) :
                2 * (PairsRead(words) + 1 - i) <= Len(words) =>
                    Read(words)[i] = [key |-> <<words[2 * (PairsRead(words) + 1 - i) - 1]>>,
                                      value |-> <<words[2 * (PairsRead(words) + 1 - i)]>>]
<1> DEFINE n == PairsRead(words)
           T == S \cup {Garbage}
           Key(i) == words[2 * (n + 1 - i) - 1]
           Value(i) == LET k == 2 * (n + 1 - i)
                       IN  IF k <= Len(words) THEN words[k]
                           ELSE IF k > 2 THEN words[k - 2] ELSE Garbage
           pair(i) == [key |-> <<Key(i)>>, value |-> <<Value(i)>>]
<1>1. Len(words) \in Nat /\ \A k \in 1 .. Len(words) : words[k] \in S
  BY LenProperties
<1>2. n \in Nat /\ 2 * n >= Len(words) /\ 2 * n <= Len(words) + 1
  BY <1>1 DEF PairsRead
<1>3. Read(words) = [i \in 1 .. n |-> pair(i)]
  BY DEF Read, PairsRead
<1>4. ASSUME NEW i \in 1 .. n
      PROVE  pair(i) \in Pairs(T)
  <2>1. Key(i) \in T
    <3>1. 2 * (n + 1 - i) - 1 \in 1 .. Len(words)
      BY <1>1, <1>2
    <3> QED BY <1>1, <3>1
  <2>2. Value(i) \in T
    <3>1. 2 * (n + 1 - i) \in Nat /\ 2 * (n + 1 - i) >= 1
      BY <1>2
    <3>2. CASE 2 * (n + 1 - i) <= Len(words)
      <4>1. 2 * (n + 1 - i) \in 1 .. Len(words)
        BY <1>1, <3>1, <3>2
      <4> QED BY <1>1, <3>2, <4>1
    <3>3. CASE ~(2 * (n + 1 - i) <= Len(words)) /\ 2 * (n + 1 - i) > 2
      <4>1. 2 * (n + 1 - i) - 2 \in 1 .. Len(words)
        BY <1>1, <1>2, <3>1, <3>3
      <4> QED BY <1>1, <3>3, <4>1
    <3>4. CASE ~(2 * (n + 1 - i) <= Len(words)) /\ ~(2 * (n + 1 - i) > 2)
      BY <3>4
    <3> QED BY <3>2, <3>3, <3>4
  <2> HIDE DEF Key, Value, T
  <2>3. <<Key(i)>> \in Seq(T) /\ <<Value(i)>> \in Seq(T)
    BY <2>1, <2>2
  <2> QED BY <2>3 DEF Pairs
<1>5. Read(words) \in Seq(Pairs(T)) /\ Len(Read(words)) = n
  <2> HIDE DEF pair, T, n
  <2>1. Read(words) \in [1 .. n -> Pairs(T)]
    BY <1>3, <1>4
  <2>2. Read(words) \in Seq(Pairs(T))
    BY <2>1, <1>2, SeqDef
  <2> QED BY <2>1, <2>2, <1>2, LenProperties
<1>6. ASSUME NEW i \in 1 .. n, 2 * (n + 1 - i) <= Len(words)
      PROVE  Read(words)[i] = [key |-> <<words[2 * (n + 1 - i) - 1]>>,
                               value |-> <<words[2 * (n + 1 - i)]>>]
  <2>1. Value(i) = words[2 * (n + 1 - i)]
    BY <1>6
  <2>2. Read(words)[i] = pair(i)
    <3> HIDE DEF pair, n
    <3> QED BY <1>3
  <2> QED BY <2>1, <2>2, Zenon
<1>7. 2 * n \in Len(words) .. Len(words) + 1
  BY <1>1, <1>2
<1> HIDE DEF n
<1> QED BY <1>2, <1>5, <1>6, <1>7 DEF n

\* Where the words of a pair of single words are intact, the pair is read.
LEMMA IntactPairRead ==
    ASSUME NEW S, NEW list \in Seq(Pairs(S)), SingleWords(list),
           NEW T, NEW words \in Seq(T), NEW j \in 1 .. Len(list), 2 * j <= Len(words),
           words[2 * j - 1] = Printed(list)[2 * j - 1], words[2 * j] = Printed(list)[2 * j]
    PROVE  /\ PairsRead(words) + 1 - j \in 1 .. PairsRead(words)
           /\ Read(words)[PairsRead(words) + 1 - j] = list[j]
<1> DEFINE n == PairsRead(words)
           i == n + 1 - j
<1>1. Len(words) \in Nat /\ j \in Nat /\ j >= 1 /\ list[j] \in Pairs(S)
  BY LenProperties
<1>2. n \in Nat /\ 2 * n >= Len(words) /\ 2 * n <= Len(words) + 1
  <2>1. n \in Nat /\ 2 * n \in Len(words) .. Len(words) + 1
    BY ReadParts
  <2> QED BY <2>1, <1>1
<1>3. i \in 1 .. n /\ n + 1 - i = j
  BY <1>1, <1>2
<1>4. Read(words)[i] = [key |-> <<words[2 * j - 1]>>, value |-> <<words[2 * j]>>]
  <2>1. 2 * (n + 1 - i) <= Len(words)
    BY <1>3
  <2> HIDE DEF n, i
  <2> QED BY <2>1, <1>3, ReadParts DEF n
<1>5. list[j].key = <<list[j].key[1]>> /\ list[j].value = <<list[j].value[1]>>
  <2>1. list[j].key \in Seq(S) /\ list[j].value \in Seq(S)
    BY <1>1 DEF Pairs
  <2>2. Len(list[j].key) = 1 /\ Len(list[j].value) = 1
    BY DEF SingleWords
  <2> QED BY <2>1, <2>2
<1>6. words[2 * j - 1] = list[j].key[1] /\ words[2 * j] = list[j].value[1]
  BY PrintedWords
<1>7. list[j] = [key |-> list[j].key, value |-> list[j].value]
  BY <1>1 DEF Pairs
<1> HIDE DEF i
<1> QED BY <1>3, <1>4, <1>5, <1>6, <1>7 DEF i

\* The elements of a reversed list.
LEMMA ReversedList ==
    ASSUME NEW S, NEW list \in Seq(S)
    PROVE  /\ Reverse(list) \in Seq(S)
           /\ Len(Reverse(list)) = Len(list)
           /\ \A i \in 1 .. Len(list) : Reverse(list)[i] = list[Len(list) - i + 1]
<1>1. Len(list) \in Nat /\ \A i \in 1 .. Len(list) : list[i] \in S
  BY LenProperties
<1>2. \A i \in 1 .. Len(list) : Len(list) - i + 1 \in 1 .. Len(list)
  BY <1>1
<1>3. Reverse(list) \in [1 .. Len(list) -> S]
  BY <1>1, <1>2 DEF Reverse
<1>4. Reverse(list) \in Seq(S)
  BY <1>1, <1>3, SeqDef
<1>5. Len(Reverse(list)) = Len(list)
  BY <1>1, <1>3, <1>4, LenProperties
<1> QED BY <1>4, <1>5 DEF Reverse

\* Lists over some words are lists over more words.
LEMMA PairsMonotonic ==
    ASSUME NEW S, NEW T, S \subseteq T
    PROVE  Seq(Pairs(S)) \subseteq Seq(Pairs(T))
<1>1. Seq(S) \subseteq Seq(T)
  BY SeqMonotonic
<1>2. Pairs(S) \subseteq Pairs(T)
  BY <1>1 DEF Pairs
<1> QED BY <1>2, SeqMonotonic

\* What store_dial_data has printed for single words, retrieve_dial_data reads
\* back, the last pair first.
LEMMA ReadPrinted ==
    ASSUME NEW S, NEW list \in Seq(Pairs(S)), SingleWords(list)
    PROVE  Read(Printed(list)) = Reverse(list)
<1> DEFINE words == Printed(list)
           n == Len(list)
           T == S \cup {Garbage}
<1>1. n \in Nat /\ words \in Seq(S) /\ Len(words) = 2 * n
  BY LenProperties, PrintedType, PrintedWords
<1>2. /\ PairsRead(words) \in Nat
      /\ 2 * PairsRead(words) \in Len(words) .. Len(words) + 1
      /\ Read(words) \in Seq(Pairs(T)) /\ Len(Read(words)) = PairsRead(words)
  BY <1>1, ReadParts
<1>3. PairsRead(words) = n
  <2> HIDE DEF words
  <2> QED BY <1>1, <1>2
<1>4. /\ Reverse(list) \in Seq(Pairs(T)) /\ Len(Reverse(list)) = n
      /\ \A i \in 1 .. n : Reverse(list)[i] = list[n - i + 1]
  <2>1. Reverse(list) \in Seq(Pairs(S))
    BY ReversedList
  <2>2. Reverse(list) \in Seq(Pairs(T))
    BY <2>1, PairsMonotonic
  <2> QED BY <2>2, ReversedList
<1>5. ASSUME NEW i \in 1 .. n
      PROVE  Read(words)[i] = Reverse(list)[i]
  <2> DEFINE j == n - i + 1
  <2>1. j \in 1 .. n /\ n + 1 - j = i /\ 2 * j <= Len(words)
    BY <1>1
  <2> HIDE DEF j
  <2>2. Read(words)[n + 1 - j] = list[j]
    BY <2>1, <1>1, <1>3, IntactPairRead
  <2> QED BY <2>1, <2>2, <1>4 DEF j
<1> HIDE DEF words
<1>6. Read(words) = Reverse(list)
  BY <1>2, <1>3, <1>4, <1>5, SeqEqual
<1> QED BY <1>6 DEF words

\* What a save leaves that was cut short: the last word may be a piece.
IsCut(words, full) ==
    /\ Len(words) <= Len(full)
    /\ \A k \in 1 .. Len(words) - 1 : words[k] = full[k]

\* Read back, it is the beginning of the list turned round, behind one pair of
\* which nothing is known.
LEMMA ReadOfCut ==
    ASSUME NEW S, NEW list \in Seq(Pairs(S)), SingleWords(list),
           NEW T, NEW words \in Seq(T), IsCut(words, Printed(list)), Read(words) # <<>>
    PROVE  \E n \in 0 .. Len(list) : Tail(Read(words)) = Reverse(SubSeq(list, 1, n))
<1> DEFINE n == PairsRead(words)
           U == S \cup T \cup {Garbage}
           first == SubSeq(list, 1, n - 1)
<1>1. /\ Len(words) \in Nat /\ Len(list) \in Nat
      /\ Len(Printed(list)) = 2 * Len(list)
      /\ \A j \in 1 .. Len(list) : list[j] \in Pairs(S)
  BY LenProperties, PrintedWords
<1>2. /\ n \in Nat
      /\ 2 * n \in Len(words) .. Len(words) + 1
      /\ Read(words) \in Seq(Pairs(T \cup {Garbage}))
      /\ Len(Read(words)) = n
  BY ReadParts
<1>3. Read(words) \in Seq(Pairs(U))
  <2>1. T \cup {Garbage} \subseteq U
    OBVIOUS
  <2> HIDE DEF U
  <2> QED BY <2>1, <1>2, PairsMonotonic
<1>4. /\ n >= 1
      /\ Tail(Read(words)) \in Seq(Pairs(U))
      /\ Len(Tail(Read(words))) = n - 1
      /\ \A i \in 1 .. n - 1 : Tail(Read(words))[i] = Read(words)[i + 1]
  <2>1. n # 0
    BY <1>2, EmptySeq
  <2> HIDE DEF n, U
  <2> QED BY <2>1, <1>2, <1>3, HeadTailProperties
<1>5. 2 * n <= 2 * Len(list) + 1 /\ n <= Len(list)
  <2>1. Len(words) <= 2 * Len(list)
    BY <1>1 DEF IsCut
  <2> HIDE DEF n
  <2> QED BY <2>1, <1>1, <1>2
<1>6. /\ first \in Seq(Pairs(S)) /\ Len(first) = n - 1
      /\ \A i \in 1 .. n - 1 : first[i] = list[i]
  <2>1. \A i \in 1 .. n - 1 : list[i] \in Pairs(S)
    BY <1>1, <1>2, <1>5
  <2> HIDE DEF n
  <2>2. /\ first \in Seq(Pairs(S))
        /\ Len(first) = IF 1 <= n - 1 THEN n - 1 - 1 + 1 ELSE 0
        /\ \A i \in 1 .. n - 1 - 1 + 1 : first[i] = list[1 + i - 1]
    BY <2>1, <1>2, SubSeqProperties
  <2> QED BY <2>2, <1>2, <1>4
<1>7. /\ Reverse(first) \in Seq(Pairs(U)) /\ Len(Reverse(first)) = n - 1
      /\ \A i \in 1 .. n - 1 : Reverse(first)[i] = list[n - i]
  <2> HIDE DEF first, n
  <2>1. Reverse(first) \in Seq(Pairs(S))
    BY <1>6, ReversedList
  <2>2. Seq(Pairs(S)) \subseteq Seq(Pairs(U))
    BY PairsMonotonic
  <2>3. \A i \in 1 .. n - 1 : Reverse(first)[i] = first[n - 1 - i + 1]
    BY <1>6, ReversedList
  <2>4. \A i \in 1 .. n - 1 : n - 1 - i + 1 = n - i /\ n - i \in 1 .. n - 1
    BY <1>2
  <2> QED BY <2>1, <2>2, <2>3, <2>4, <1>6, ReversedList
<1>8. ASSUME NEW i \in 1 .. n - 1
      PROVE  Tail(Read(words))[i] = Reverse(first)[i]
  <2> DEFINE j == n - i
  <2>1. /\ j \in 1 .. Len(list) /\ n + 1 - j = i + 1
        /\ 2 * j - 1 \in 1 .. Len(words) - 1 /\ 2 * j \in 1 .. Len(words) - 1
        /\ 2 * j <= Len(words)
    <3>1. 2 * n <= Len(words) + 1 /\ n \in Nat /\ Len(words) \in Nat /\ n <= Len(list)
      BY <1>1, <1>2, <1>5
    <3> HIDE DEF n
    <3> QED BY <3>1, <1>1
  <2>2. words[2 * j - 1] = Printed(list)[2 * j - 1] /\ words[2 * j] = Printed(list)[2 * j]
    BY <2>1 DEF IsCut
  <2> HIDE DEF j
  <2>3. Read(words)[n + 1 - j] = list[j]
    BY <2>1, <2>2, IntactPairRead
  <2> QED BY <2>1, <2>3, <1>4, <1>7 DEF j
<1>9. Tail(Read(words)) = Reverse(first)
  <2> HIDE DEF first, n, U
  <2> QED BY <1>4, <1>7, <1>8, SeqEqual
<1>10. n - 1 \in 0 .. Len(list)
  BY <1>1, <1>2, <1>4, <1>5
<1> QED BY <1>9, <1>10

-----------------------------------------------------------------------------
(* What retrieve_dial_data makes of it in memory.                          *)

\* A copy of a list is a list of the same length, over the same words and Rest.
LEMMA CopyType ==
    ASSUME NEW S, Rest \in S, NEW list \in Seq(Pairs(S)), NEW copy \in Copies(list)
    PROVE  copy \in Seq(Pairs(S)) /\ Len(copy) = Len(list)
<1> DEFINE n == Len(list)
<1>1. n \in Nat /\ \A i \in 1 .. n : list[i] \in Pairs(S)
  BY LenProperties
<1>2. PICK ends \in [1 .. n -> [key : Ends, value : Ends]] :
          copy = [i \in 1 .. n |-> [key   |-> list[i].key \o ends[i].key,
                                   value |-> list[i].value \o ends[i].value]]
  BY DEF Copies
<1>3. Ends \subseteq Seq(S)
  <2>1. <<>> \in Seq(S) /\ <<Rest>> \in Seq(S)
    BY EmptySeq
  <2> QED BY <2>1 DEF Ends
<1>4. ASSUME NEW i \in 1 .. n
      PROVE  [key   |-> list[i].key \o ends[i].key,
              value |-> list[i].value \o ends[i].value] \in Pairs(S)
  <2>1. list[i].key \in Seq(S) /\ list[i].value \in Seq(S)
    BY <1>1 DEF Pairs
  <2>2. ends[i].key \in Seq(S) /\ ends[i].value \in Seq(S)
    BY <1>2, <1>3
  <2>3. list[i].key \o ends[i].key \in Seq(S) /\ list[i].value \o ends[i].value \in Seq(S)
    BY <2>1, <2>2, ConcatProperties
  <2> QED BY <2>3 DEF Pairs
<1> HIDE DEF n
<1>5. copy \in [1 .. n -> Pairs(S)]
  BY <1>2, <1>4, Zenon
<1>6. copy \in Seq(Pairs(S))
  BY <1>1, <1>5, SeqDef
<1>7. Len(copy) = n
  BY <1>1, <1>5, <1>6, LenProperties
<1> QED BY <1>6, <1>7 DEF n

\* What is behind the first pair of a copy is a copy of what is behind the first
\* pair of the list.
LEMMA TailOfCopy ==
    ASSUME NEW S, Rest \in S, NEW list \in Seq(Pairs(S)), NEW copy \in Copies(list),
           copy # <<>>
    PROVE  list # <<>> /\ Tail(copy) \in Copies(Tail(list))
<1> DEFINE n == Len(list)
<1>1. n \in Nat /\ n >= 1 /\ list # <<>> /\ copy \in Seq(Pairs(S)) /\ Len(copy) = n
  <2>1. copy \in Seq(Pairs(S)) /\ Len(copy) = n
    BY CopyType
  <2>2. n \in Nat /\ n # 0
    BY <2>1, EmptySeq, LenProperties
  <2> QED BY <2>1, <2>2, EmptySeq
<1>2. PICK ends \in [1 .. n -> [key : Ends, value : Ends]] :
          copy = [i \in 1 .. n |-> [key   |-> list[i].key \o ends[i].key,
                                   value |-> list[i].value \o ends[i].value]]
  BY DEF Copies
<1>3. /\ Tail(list) \in Seq(Pairs(S)) /\ Len(Tail(list)) = n - 1
      /\ \A i \in 1 .. n - 1 : Tail(list)[i] = list[i + 1]
  BY <1>1, HeadTailProperties
<1>4. /\ Tail(copy) \in Seq(Pairs(S)) /\ Len(Tail(copy)) = n - 1
      /\ \A i \in 1 .. n - 1 : Tail(copy)[i] = copy[i + 1]
  <2> HIDE DEF n
  <2> QED BY <1>1, HeadTailProperties
<1> HIDE DEF n
<1> DEFINE rest == [i \in 1 .. n - 1 |-> ends[i + 1]]
           pair(i) == [key   |-> Tail(list)[i].key \o rest[i].key,
                       value |-> Tail(list)[i].value \o rest[i].value]
<1>5. rest \in [1 .. n - 1 -> [key : Ends, value : Ends]]
  <2>1. \A i \in 1 .. n - 1 : i + 1 \in 1 .. n
    BY <1>1
  <2> QED BY <1>2, <2>1
<1>6. ASSUME NEW i \in 1 .. n - 1
      PROVE  Tail(copy)[i] = pair(i)
  <2>1. i + 1 \in 1 .. n
    BY <1>1
  <2>2. Tail(copy)[i] = copy[i + 1] /\ Tail(list)[i] = list[i + 1] /\ rest[i] = ends[i + 1]
    BY <1>3, <1>4
  <2>3. copy[i + 1] = [key   |-> list[i + 1].key \o ends[i + 1].key,
                       value |-> list[i + 1].value \o ends[i + 1].value]
    BY <1>2, <2>1, Zenon
  <2> HIDE DEF rest
  <2> QED BY <2>2, <2>3, Zenon
<1>7. Tail(copy) = [i \in 1 .. n - 1 |-> Tail(copy)[i]]
  <2>1. DOMAIN Tail(copy) = 1 .. n - 1 /\ Tail(copy) \in [1 .. n - 1 -> Pairs(S)]
    BY <1>4, LenProperties
  <2> QED BY <2>1
<1>8. Tail(copy) = [i \in 1 .. n - 1 |-> pair(i)]
  <2> HIDE DEF pair
  <2> QED BY <1>6, <1>7
<1>9. Tail(copy) \in Copies(Tail(list))
  <2> HIDE DEF rest
  <2> QED BY <1>3, <1>5, <1>8 DEF Copies
<1> QED BY <1>1, <1>9

-----------------------------------------------------------------------------
(* The invariant of the store.                                             *)

\* A save writes the list that handle_dial_data has just kept.  Unless one of its
\* writes fails, it writes all of its text, and what is on the disk is the
\* acknowledged list or as much of that save as got there.  The list in memory is
\* the one that was acknowledged, or one that was read.
StoreInvariant ==
    /\ TypeOK
    /\ pc \in {"open", "write"} => data \in Posts
    /\ pc = "write" => torn /\ saving = data
    /\ pc = "write" /\ ~lost => text = Printed(data)
    /\ torn /\ ~lost => IsCut(disk, Printed(saving))
    /\ ~torn /\ ~lost => disk = Printed(acked)
    /\ pc = "up" => \/ ~torn /\ data = acked
                    \/ data = <<>>
                    \/ data \in Copies(Read(disk))

\* The lists of clients and what is found are lists over Found.
LEMMA FoundTypes ==
    /\ Seq(Words) \subseteq Seq(Found)
    /\ Seq(Pairs(Words)) \subseteq Seq(Pairs(Found))
    /\ Posts \subseteq Seq(Pairs(Words))
    /\ Found \cup {Garbage} = Found
    /\ Piece \in Found /\ Rest \in Found
<1>1. Words \subseteq Found /\ Found \cup {Garbage} = Found /\ Piece \in Found /\ Rest \in Found
  BY DEF Found
<1>2. Seq(Words) \subseteq Seq(Found)
  BY <1>1, SeqMonotonic
<1>3. Seq(Pairs(Words)) \subseteq Seq(Pairs(Found))
  BY <1>1, PairsMonotonic
<1> QED BY <1>1, <1>2, <1>3, StoreAssumption

\* Once all of the file is overwritten nothing of it is left.
LEMMA OverwrittenAll ==
    ASSUME NEW S, NEW words \in Seq(S), disk \in Seq(S), Len(disk) <= Len(words)
    PROVE  Overwritten(words) = words
<1>1. Len(words) \in Nat /\ Len(disk) \in Nat
  BY LenProperties
<1>2. SubSeq(disk, Len(words) + 1, Len(disk)) = <<>>
  <2>1. Len(disk) < Len(words) + 1
    BY <1>1
  <2> QED BY <2>1, <1>1, SubSeqEmpty
<1> QED BY <1>2, ConcatEmptySeq DEF Overwritten

\* A list of a client and its text have their types.
LEMMA PrintedPost ==
    ASSUME NEW list \in Posts
    PROVE  /\ list \in Seq(Pairs(Words)) /\ list \in Seq(Pairs(Found))
           /\ Printed(list) \in Seq(Words) /\ Printed(list) \in Seq(Found)
           /\ Len(Printed(list)) \in Nat
BY FoundTypes, PrintedType, LenProperties

\* Nothing is printed for the empty list, so a missing file stands for it.
LEMMA EmptyPrinted == Printed(<<>>) = <<>>
<1>1. Len(<<>>) = 0
  OBVIOUS
<1>2. [i \in 1 .. Len(<<>>) |-> <<>>[i].key \o <<>>[i].value] = <<>>
  OBVIOUS
<1> QED BY <1>1, <1>2 DEF Printed, FlattenSeq

\* The invariant holds initially.
LEMMA InitStore == Init => StoreInvariant
<1> SUFFICES ASSUME Init PROVE StoreInvariant
  OBVIOUS
<1>1. TypeOK
  <2>1. 0 \in 0 .. MaxPosts /\ 0 \in 0 .. MaxRestarts
    BY StoreAssumption
  <2>2. \A S : <<>> \in Seq(S)
    BY EmptySeq
  <2> QED BY <2>1, <2>2 DEF Init, TypeOK
<1> QED BY <1>1, EmptyPrinted DEF Init, StoreInvariant

\* A flush leaves the file cut short, of the length that was written.
LEMMA FlushCuts ==
    ASSUME NEW full \in Seq(Found), disk \in Seq(Found), NEW n \in 1 .. Len(full),
           Len(disk) < n, NEW cut \in {<<>>, <<Piece>>}
    PROVE  LET after == Overwritten(SubSeq(full, 1, n - Len(cut)) \o cut)
           IN  after \in Seq(Found) /\ Len(after) = n /\ IsCut(after, full)
<1> DEFINE m == n - Len(cut)
           kept == SubSeq(full, 1, m)
           words == kept \o cut
<1>1. /\ Len(full) \in Nat /\ n \in Nat /\ n >= 1 /\ n <= Len(full)
      /\ \A i \in 1 .. Len(full) : full[i] \in Found
  BY LenProperties
<1>2. cut \in Seq(Found) /\ (Len(cut) = 0 \/ Len(cut) = 1)
  <2>1. CASE cut = <<>>
    BY <2>1, EmptySeq
  <2>2. CASE cut = <<Piece>>
    BY <2>2, FoundTypes
  <2> QED BY <2>1, <2>2
<1>3. m \in Int /\ m <= Len(full) /\ (m = n \/ m = n - 1) /\ m >= 0 /\ m + Len(cut) = n
  <2>1. CASE Len(cut) = 0
    BY <2>1, <1>1
  <2>2. CASE Len(cut) = 1
    BY <2>2, <1>1
  <2> QED BY <2>1, <2>2, <1>2
<1> HIDE DEF m
<1>4. kept \in Seq(Found) /\ Len(kept) = m /\ \A i \in 1 .. m : kept[i] = full[i]
  <2>1. \A i \in 1 .. m : full[i] \in Found
    BY <1>1, <1>3
  <2>2. /\ kept \in Seq(Found)
        /\ Len(kept) = IF 1 <= m THEN m - 1 + 1 ELSE 0
        /\ \A i \in 1 .. m - 1 + 1 : kept[i] = full[1 + i - 1]
    BY <2>1, <1>3, SubSeqProperties
  <2> QED BY <2>2, <1>3
<1> HIDE DEF kept
<1>5. words \in Seq(Found) /\ IsConcat(words, kept, cut)
  BY <1>2, <1>4, ConcatParts
<1>6. Len(words) = n /\ \A i \in 1 .. n - 1 : words[i] = full[i]
  BY <1>2, <1>3, <1>4, <1>5 DEF IsConcat
<1> HIDE DEF words
<1>7. Overwritten(words) = words
  <2>1. Len(disk) \in Nat /\ Len(disk) <= Len(words)
    BY <1>1, <1>6, LenProperties
  <2> QED BY <2>1, <1>5, OverwrittenAll
<1>8. IsCut(words, full)
  BY <1>1, <1>6 DEF IsCut
<1> QED BY <1>5, <1>6, <1>7, <1>8 DEF words, kept, m

\* What is left to write after a failure is made of words and at most one piece,
\* and it is no shorter than what is on the disk.
LEMMA FailureKeepsDisk ==
    ASSUME NEW full \in Seq(Found), NEW n \in 0 .. Len(full), NEW m \in 1 .. Len(full),
           n < m, NEW joint \in {<<>>, <<Piece>>}
    PROVE  LET after == SubSeq(full, 1, n) \o joint \o SubSeq(full, m + 1, Len(full))
           IN  after \in Seq(Found) /\ Len(after) >= n + Len(joint)
<1> DEFINE kept == SubSeq(full, 1, n)
           later == SubSeq(full, m + 1, Len(full))
<1>1. /\ Len(full) \in Nat /\ n \in Nat /\ m \in Nat /\ n <= Len(full)
      /\ \A i \in 1 .. Len(full) : full[i] \in Found
  BY LenProperties
<1>2. joint \in Seq(Found) /\ Len(joint) \in Nat
  <2>1. CASE joint = <<>>
    BY <2>1, EmptySeq
  <2>2. CASE joint = <<Piece>>
    BY <2>2, FoundTypes
  <2> QED BY <2>1, <2>2
<1>3. kept \in Seq(Found) /\ Len(kept) = n
  <2>1. \A i \in 1 .. n : full[i] \in Found
    BY <1>1
  <2>2. kept \in Seq(Found) /\ Len(kept) = IF 1 <= n THEN n - 1 + 1 ELSE 0
    BY <2>1, <1>1, SubSeqProperties
  <2> QED BY <2>2, <1>1
<1>4. later \in Seq(Found) /\ Len(later) \in Nat
  <2>1. \A i \in m + 1 .. Len(full) : full[i] \in Found
    BY <1>1
  <2>2. later \in Seq(Found)
    BY <2>1, <1>1, SubSeqProperties
  <2> QED BY <2>2, LenProperties
<1> HIDE DEF kept, later
<1>5. kept \o joint \in Seq(Found) /\ Len(kept \o joint) = n + Len(joint)
  <2>1. kept \o joint \in Seq(Found) /\ IsConcat(kept \o joint, kept, joint)
    BY <1>2, <1>3, ConcatParts
  <2> QED BY <2>1, <1>3 DEF IsConcat
<1>6. /\ (kept \o joint) \o later \in Seq(Found)
      /\ Len((kept \o joint) \o later) = n + Len(joint) + Len(later)
  <2> DEFINE front == kept \o joint
  <2>1. front \in Seq(Found) /\ Len(front) = n + Len(joint)
    BY <1>5
  <2> HIDE DEF front
  <2>2. front \o later \in Seq(Found) /\ IsConcat(front \o later, front, later)
    BY <2>1, <1>4, ConcatParts
  <2>3. Len(front \o later) = n + Len(joint) + Len(later)
    BY <2>1, <2>2 DEF IsConcat
  <2> QED BY <2>2, <2>3 DEF front
<1>7. Len((kept \o joint) \o later) >= n + Len(joint)
  BY <1>1, <1>2, <1>4, <1>6
<1> QED BY <1>6, <1>7 DEF kept, later

\* The conjuncts of TypeOK that the steps need.
LEMMA StoreTypes ==
    ASSUME TypeOK
    PROVE  /\ data \in Seq(Pairs(Found)) /\ disk \in Seq(Found) /\ text \in Seq(Found)
           /\ Len(disk) \in Nat /\ Len(text) \in Nat
           /\ flushed \in Nat
           /\ pc = "write" => Len(disk) = flushed /\ flushed <= Len(text)
<1>1. /\ data \in Seq(Pairs(Found)) /\ disk \in Seq(Found) /\ text \in Seq(Found)
      /\ flushed \in Nat /\ (pc = "write" => Len(disk) = flushed /\ flushed <= Len(text))
  BY DEF TypeOK
<1> QED BY <1>1, LenProperties

\* Every step preserves it.
LEMMA NextStore == StoreInvariant /\ [Next]_vars => StoreInvariant'
<1> SUFFICES ASSUME StoreInvariant, [Next]_vars PROVE StoreInvariant'
  OBVIOUS
<1> USE DEF history
<1>0. TypeOK
  BY DEF StoreInvariant
<1>1. ASSUME NEW list \in Posts, Post(list) PROVE StoreInvariant'
  <2>1. TypeOK'
    <3>1. list \in Seq(Pairs(Found)) /\ posts' \in 0 .. MaxPosts
      BY <1>0, <1>1, PrintedPost, StoreAssumption DEF TypeOK, Post
    <3> QED BY <1>0, <1>1, <3>1 DEF TypeOK, Post
  <2> QED BY <1>1, <2>1 DEF StoreInvariant, Post
<1>2. CASE Open
  <2>1. /\ data \in Posts /\ data \in Seq(Pairs(Words))
        /\ Printed(data) \in Seq(Found) /\ Len(Printed(data)) \in Nat
    BY <1>2, PrintedPost DEF StoreInvariant, Open
  <2>2. <<>> \in Seq(Found) /\ Len(<<>>) = 0
    BY EmptySeq
  <2>3. TypeOK'
    <3>1. Len(disk') = flushed' /\ flushed' <= Len(text')
      BY <1>2, <2>1, <2>2 DEF Open
    <3>2. /\ pc' \in {"up", "open", "write", "down"}
          /\ disk' \in Seq(Found) /\ text' \in Seq(Found) /\ flushed' \in Nat
          /\ torn' \in BOOLEAN /\ lost' \in BOOLEAN
      BY <1>2, <2>1, <2>2 DEF Open
    <3>3. /\ data' \in Seq(Pairs(Found))
          /\ acked' \in Seq(Pairs(Words)) /\ saving' \in Seq(Pairs(Words))
          /\ posts' \in 0 .. MaxPosts /\ restarts' \in 0 .. MaxRestarts
      BY <1>0, <1>2, <2>1 DEF TypeOK, Open
    <3> QED BY <3>1, <3>2, <3>3 DEF TypeOK
  <2>4. IsCut(<<>>, Printed(data))
    BY <2>1, <2>2 DEF IsCut
  <2>5. IsCut(disk, Printed(saving))'
    BY <1>2, <2>4 DEF Open
  <2> QED BY <1>2, <2>1, <2>3, <2>5 DEF StoreInvariant, Open
<1>3. CASE OpenFails
  <2>1. TypeOK'
    <3>1. <<>> \in Seq(Pairs(Found))
      BY EmptySeq
    <3> QED BY <1>0, <1>3, <3>1 DEF TypeOK, OpenFails
  <2> QED BY <1>3, <2>1 DEF StoreInvariant, OpenFails
<1>4. ASSUME NEW n \in 1 .. Len(text), Flush(n) PROVE StoreInvariant'
  <2>1. /\ pc = "write" /\ torn /\ saving = data
        /\ text \in Seq(Found) /\ Len(text) \in Nat
        /\ disk \in Seq(Found) /\ Len(disk) = flushed
    BY <1>4, <1>0, StoreTypes DEF StoreInvariant, Flush
  <2>2. PICK cut \in {<<>>, <<Piece>>} :
            disk' = Overwritten(SubSeq(text, 1, n - Len(cut)) \o cut)
    BY <1>4 DEF Flush
  <2>3. Len(disk) < n /\ n \in Nat /\ n <= Len(text)
    <3>1. flushed \in Nat /\ n \in flushed + 1 .. Len(text)
      BY <1>4, <1>0, StoreTypes DEF Flush
    <3> QED BY <2>1, <3>1
  <2>4. disk' \in Seq(Found) /\ Len(disk') = n /\ IsCut(disk', text)
    BY <1>4, <2>1, <2>2, <2>3, FlushCuts
  <2>5. TypeOK'
    BY <1>0, <1>4, <2>3, <2>4 DEF TypeOK, Flush
  <2>6. ~lost => IsCut(disk', Printed(saving))
    <3>1. ~lost => text = Printed(saving)
      BY <2>1 DEF StoreInvariant
    <3> QED BY <2>4, <3>1
  <2>7. (torn /\ ~lost => IsCut(disk, Printed(saving)))'
    BY <1>4, <2>6 DEF Flush
  <2> QED BY <1>4, <2>1, <2>5, <2>7 DEF StoreInvariant, Flush
<1>5. ASSUME NEW n \in 0 .. Len(text), NEW m \in 1 .. Len(text), WriteFails(n, m)
      PROVE  StoreInvariant'
  <2>1. pc = "write" /\ text \in Seq(Found) /\ Len(disk) = flushed /\ flushed \in Nat
    BY <1>5, <1>0, StoreTypes DEF WriteFails
  <2>2. PICK joint \in {<<>>, <<Piece>>} :
            /\ n + Len(joint) >= flushed
            /\ text' = SubSeq(text, 1, n) \o joint \o SubSeq(text, m + 1, Len(text))
    BY <1>5 DEF WriteFails
  <2>3. text' \in Seq(Found) /\ Len(text') >= n + Len(joint) /\ n < m
    BY <1>5, <2>1, <2>2, FailureKeepsDisk DEF WriteFails
  <2>4. flushed <= Len(text')
    <3>1. Len(text') \in Nat /\ n \in Int
      BY <2>3, LenProperties, <2>1
    <3>2. Len(joint) = 0 \/ Len(joint) = 1
      BY <2>2
    <3>3. n + Len(joint) >= flushed /\ Len(text') >= n + Len(joint)
      BY <2>2, <2>3
    <3> QED BY ONLY <2>1, <3>1, <3>2, <3>3
  <2>5. TypeOK'
    BY <1>0, <1>5, <2>3, <2>4 DEF TypeOK, WriteFails
  <2> QED BY <1>5, <2>1, <2>5 DEF StoreInvariant, WriteFails
<1>6. CASE CloseFile
  <2>1. /\ pc = "write" /\ data \in Posts /\ disk \in Seq(Found)
        /\ text \in Seq(Found) /\ Len(disk) <= Len(text)
    BY <1>6, <1>0, StoreTypes DEF StoreInvariant, CloseFile
  <2>2. data \in Seq(Pairs(Words))
    BY <2>1, PrintedPost
  <2>3. disk' = text
    BY <1>6, <2>1, OverwrittenAll DEF CloseFile
  <2>4. TypeOK'
    BY <1>0, <1>6, <2>1, <2>2, <2>3 DEF TypeOK, CloseFile
  <2>5. (~torn /\ ~lost => disk = Printed(acked))'
    BY <1>6, <2>1, <2>3 DEF StoreInvariant, CloseFile
  <2> QED BY <1>6, <2>4, <2>5 DEF StoreInvariant, CloseFile
<1>7. CASE Register
  <2>1. Read(disk) \in Seq(Pairs(Found))
    <3>1. Read(disk) \in Seq(Pairs(Found \cup {Garbage}))
      BY <1>0, StoreTypes, ReadParts
    <3> QED BY <3>1, FoundTypes
  <2>2. data' \in Seq(Pairs(Found))
    <3>1. data' = <<>> \/ data' \in Copies(Read(disk))
      BY <1>7 DEF Register
    <3> QED BY <2>1, <3>1, CopyType, FoundTypes, EmptySeq
  <2>3. TypeOK'
    BY <1>0, <1>7, <2>2 DEF TypeOK, Register
  <2> QED BY <1>7, <2>3 DEF StoreInvariant, Register
<1>8. CASE Crash
  <2>1. TypeOK'
    <3>1. <<>> \in Seq(Pairs(Found)) /\ restarts' \in 0 .. MaxRestarts
      BY <1>0, <1>8, EmptySeq, StoreAssumption DEF TypeOK, Crash
    <3> QED BY <1>0, <1>8, <3>1 DEF TypeOK, Crash
  <2> QED BY <1>8, <2>1 DEF StoreInvariant, Crash
<1>9. CASE UNCHANGED vars
  <2>1. TypeOK'
    BY <1>0, <1>9 DEF TypeOK, vars
  <2>2. IsCut(disk, Printed(saving))' <=> IsCut(disk, Printed(saving))
    BY <1>9 DEF vars
  <2> QED BY <1>9, <2>1, <2>2 DEF StoreInvariant, vars
<1> QED BY <1>1, <1>2, <1>3, <1>4, <1>5, <1>6, <1>7, <1>8, <1>9 DEF Next, Save

\* StoreInvariant always holds, whatever write fails and wherever the process
\* crashes.
THEOREM StoreIsInvariant == Spec => []StoreInvariant
BY InitStore, NextStore, PTL DEF Spec

\* Every variable has its type, and a save under way has written as much of the
\* file as there is, and no more than it has to write.
THEOREM StoreTypeOK == Spec => []TypeOK
<1>1. StoreInvariant => TypeOK
  BY DEF StoreInvariant
<1> QED BY <1>1, StoreIsInvariant, PTL

\* Unless a save was cut short or one of its writes failed, retrieve_dial_data
\* finds the list that handle_dial_data acknowledged last, turned round; and the
\* memory holds that list, a copy of it turned round whose fields may run on, or
\* nothing: for every list whose fields are single words.
THEOREM AcknowledgedSurvives == Spec => []AckedSurvives
<1>1. StoreInvariant => AckedSurvives
  <2> SUFFICES ASSUME StoreInvariant, ~torn, ~lost, SingleWords(acked)
               PROVE  /\ Read(disk) = Reverse(acked)
                      /\ pc = "up" => data \in {acked, <<>>} \cup Copies(Reverse(acked))
    BY DEF AckedSurvives, DiskHoldsAcked, MemoryMatchesAcked
  <2>1. acked \in Seq(Pairs(Words)) /\ disk = Printed(acked)
    BY DEF StoreInvariant, TypeOK
  <2>2. Read(disk) = Reverse(acked)
    BY <2>1, ReadPrinted
  <2> QED BY <2>2 DEF StoreInvariant
<1> QED BY <1>1, StoreIsInvariant, PTL

\* A crash in store_dial_data, at any word or within one, damages at most the
\* pair that is found first, if no write failed; the others are the beginning of
\* the list that was being saved, in memory as fields that may run on.
THEOREM DamageBounded == Spec => []DamageIsOnePair
<1>1. StoreInvariant => DamageIsOnePair
  <2> SUFFICES ASSUME StoreInvariant, torn, ~lost, SingleWords(saving)
               PROVE  /\ Read(disk) # <<>> =>
                            \E n \in 0 .. Len(saving) :
                                Tail(Read(disk)) = Reverse(SubSeq(saving, 1, n))
                      /\ pc = "up" /\ data # <<>> =>
                            \E n \in 0 .. Len(saving) :
                                Tail(data) \in Copies(Reverse(SubSeq(saving, 1, n)))
    BY DEF DamageIsOnePair
  <2>1. /\ saving \in Seq(Pairs(Words)) /\ disk \in Seq(Found)
        /\ IsCut(disk, Printed(saving))
    BY DEF StoreInvariant, TypeOK
  <2>2. Read(disk) # <<>> =>
            \E n \in 0 .. Len(saving) : Tail(Read(disk)) = Reverse(SubSeq(saving, 1, n))
    BY <2>1, ReadOfCut
  <2>3. ASSUME pc = "up", data # <<>>
        PROVE  \E n \in 0 .. Len(saving) : Tail(data) \in Copies(Reverse(SubSeq(saving, 1, n)))
    <3>1. data \in Copies(Read(disk))
      BY <2>3 DEF StoreInvariant
    <3>2. Read(disk) \in Seq(Pairs(Found)) /\ Rest \in Found
      <4>1. Read(disk) \in Seq(Pairs(Found \cup {Garbage}))
        BY <2>1, ReadParts
      <4> QED BY <4>1, FoundTypes
    <3>3. Read(disk) # <<>> /\ Tail(data) \in Copies(Tail(Read(disk)))
      BY <2>3, <3>1, <3>2, TailOfCopy
    <3> QED BY <2>2, <3>3
  <2> QED BY <2>2, <2>3
<1> QED BY <1>1, StoreIsInvariant, PTL
==============================================================================
