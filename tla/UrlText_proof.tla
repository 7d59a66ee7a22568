---------------------------- MODULE UrlText_proof ----------------------------
(***************************************************************************)
(* Proofs about UrlText, for texts of any length over any characters.      *)
(*                                                                         *)
(* The functions of UrlText that go through a text are recursive.  Where   *)
(* an argument needs induction it looks at the least or at the greatest    *)
(* position for which the claim fails: one exists because < on the         *)
(* naturals is well founded.                                               *)
(***************************************************************************)
EXTENDS UrlText, SequenceTheorems, WellFoundedInduction, TLAPS

-----------------------------------------------------------------------------
(* Numbers.                                                                *)

\* A set of natural numbers that is not empty has a least element.
LEMMA NatMin ==
    ASSUME NEW T, T \subseteq Nat, T # {}
    PROVE  \E m \in T : \A k \in T : m <= k
<1> DEFINE R == {p \in Nat \X Nat : p[1] < p[2]}
<1>1. OpToRel(<, Nat) = R
  BY DEF OpToRel
<1>2. IsWellFoundedOn(R, Nat)
  BY <1>1, NatLessThanWellFounded
<1>3. PICK m \in T : \A k \in T : ~(<<k, m>> \in R)
  <2> HIDE DEF R
  <2> QED BY <1>2, WFMin
<1>4. \A k \in T : k \in Nat /\ m \in Nat /\ ~(k < m)
  BY <1>3
<1> QED BY <1>4

\* And, if it is bounded, a greatest one.
LEMMA NatMax ==
    ASSUME NEW T, T \subseteq Nat, T # {}, NEW bound \in Nat, \A k \in T : k <= bound
    PROVE  \E m \in T : \A k \in T : k <= m
<1> DEFINE Gaps == {bound - k : k \in T}
<1>1. Gaps \subseteq Nat /\ Gaps # {}
  <2>1. \A k \in T : bound - k \in Nat
    OBVIOUS
  <2>2. PICK k \in T : TRUE
    OBVIOUS
  <2>3. bound - k \in Gaps
    OBVIOUS
  <2> QED BY <2>1, <2>3
<1>2. PICK g \in Gaps : \A h \in Gaps : g <= h
  <2> HIDE DEF Gaps
  <2> QED BY <1>1, NatMin
<1>3. PICK m \in T : g = bound - m
  BY <1>2
<1>4. ASSUME NEW k \in T PROVE k <= m
  <2>1. bound - k \in Gaps
    OBVIOUS
  <2>2. bound - m <= bound - k
    BY <1>2, <1>3, <2>1
  <2> QED BY <2>2
<1> QED BY <1>4

\* Min and Max of such sets.
LEMMA MinIs ==
    ASSUME NEW T, T \subseteq Nat, T # {}
    PROVE  Min(T) \in T /\ \A k \in T : Min(T) <= k
<1>1. \E m \in T : \A k \in T : m <= k
  BY NatMin
<1> QED BY <1>1 DEF Min

\* A bounded set has its Max among its elements.
LEMMA MaxIs ==
    ASSUME NEW T, T \subseteq Nat, T # {}, NEW bound \in Nat, \A k \in T : k <= bound
    PROVE  Max(T) \in T /\ \A k \in T : k <= Max(T)
<1>1. \E m \in T : \A k \in T : k <= m
  BY NatMax
<1>2. \E m \in T : \A k \in T : m >= k
  <2>1. PICK m \in T : \A k \in T : k <= m
    BY <1>1
  <2>2. \A k \in T : m >= k
    BY <2>1
  <2> QED BY <2>2
<1>3. Max(T) \in T /\ \A k \in T : Max(T) >= k
  BY <1>2 DEF Max
<1>4. \A k \in T : k <= Max(T)
  BY <1>3
<1> QED BY <1>3, <1>4

-----------------------------------------------------------------------------
(* Parts of texts.                                                         *)

\* The positions and the elements of a sequence.
LEMMA SeqParts ==
    ASSUME NEW S, NEW s \in Seq(S)
    PROVE  Len(s) \in Nat /\ DOMAIN s = 1 .. Len(s) /\ \A i \in 1 .. Len(s) : s[i] \in S
BY LenProperties

\* w is the beginning of s before the first element in stops.
IsBefore(w, s, stops) ==
    /\ Len(w) \in Nat
    /\ Len(w) <= Len(s)
    /\ \A i \in 1 .. Len(w) : w[i] = s[i] /\ s[i] \notin stops
    /\ Len(w) < Len(s) => s[Len(w) + 1] \in stops
    /\ Len(w) = Len(s) => w = s

\* Before finds that beginning.
LEMMA BeforeParts ==
    ASSUME NEW S, NEW s \in Seq(S), NEW stops
    PROVE  Before(s, stops) \in Seq(S) /\ IsBefore(Before(s, stops), s, stops)
<1> DEFINE T == {i \in DOMAIN s : s[i] \in stops}
           m == Min(T)
           w == SubSeq(s, 1, m - 1)
<1>0. Len(s) \in Nat /\ DOMAIN s = 1 .. Len(s) /\ \A i \in 1 .. Len(s) : s[i] \in S
  BY SeqParts
<1>1. CASE T = {}
  <2>1. Before(s, stops) = s
    BY <1>1 DEF Before
  <2>2. \A i \in 1 .. Len(s) : s[i] \notin stops
    BY <1>0, <1>1
  <2>3. IsBefore(s, s, stops)
    <3> HIDE DEF T
    <3> QED BY <1>0, <2>2 DEF IsBefore
  <2> QED BY <2>1, <2>3
<1>2. CASE T # {}
  <2>1. Before(s, stops) = w
    BY <1>2 DEF Before
  <2>2. m \in T /\ \A k \in T : m <= k
    <3>1. T \subseteq Nat
      BY <1>0
    <3> HIDE DEF T
    <3> QED BY <1>2, <3>1, MinIs
  <2>3. /\ m \in Nat /\ m >= 1 /\ m <= Len(s) /\ s[m] \in stops
        /\ \A i \in 1 .. Len(s) : s[i] \in stops => m <= i
    <3>1. m \in 1 .. Len(s) /\ s[m] \in stops
      BY <2>2, <1>0
    <3>2. \A i \in 1 .. Len(s) : s[i] \in stops => i \in T
      BY <1>0
    <3> HIDE DEF T, m
    <3> QED BY <3>1, <3>2, <2>2, <1>0
  <2> HIDE DEF T, m
  <2>4. w \in Seq(S) /\ Len(w) = m - 1 /\ \A i \in 1 .. m - 1 : w[i] = s[i]
    <3>1. \A i \in 1 .. m - 1 : s[i] \in S
      BY <1>0, <2>3
    <3>2. /\ w \in Seq(S)
          /\ Len(w) = IF 1 <= m - 1 THEN m - 1 - 1 + 1 ELSE 0
          /\ \A i \in 1 .. m - 1 - 1 + 1 : w[i] = s[1 + i - 1]
      BY <3>1, <2>3, SubSeqProperties
    <3> QED BY <3>2, <2>3
  <2>5. \A i \in 1 .. m - 1 : s[i] \notin stops
    <3>1. \A i \in 1 .. m - 1 : i \in 1 .. Len(s) /\ ~(m <= i)
      BY <1>0, <2>3
    <3> QED BY <3>1, <2>3
  <2> HIDE DEF w
  <2>6. IsBefore(w, s, stops)
    <3>1. Len(w) \in Nat /\ Len(w) < Len(s) /\ Len(w) + 1 = m /\ Len(w) # Len(s)
      BY <1>0, <2>3, <2>4
    <3>2. \A i \in 1 .. Len(w) : w[i] = s[i] /\ s[i] \notin stops
      BY <2>4, <2>5
    <3> QED BY <3>1, <3>2, <2>3 DEF IsBefore
  <2> QED BY <2>1, <2>4, <2>6
<1> QED BY <1>1, <1>2

\* What is between two positions.
LEMMA PartParts ==
    ASSUME NEW S, NEW s \in Seq(S), NEW a \in Nat, a >= 1, NEW b \in Nat, b <= Len(s), a <= b + 1
    PROVE  /\ SubSeq(s, a, b) \in Seq(S)
           /\ Len(SubSeq(s, a, b)) = b + 1 - a
           /\ \A k \in 1 .. b + 1 - a : SubSeq(s, a, b)[k] = s[a + k - 1]
<1>1. Len(s) \in Nat /\ \A k \in 1 .. Len(s) : s[k] \in S
  BY SeqParts
<1>2. \A k \in a .. b : s[k] \in S
  BY <1>1
<1>3. /\ SubSeq(s, a, b) \in Seq(S)
      /\ Len(SubSeq(s, a, b)) = IF a <= b THEN b - a + 1 ELSE 0
      /\ \A k \in 1 .. b - a + 1 : SubSeq(s, a, b)[k] = s[a + k - 1]
  BY <1>2, SubSeqProperties
<1> QED BY <1>3

\* What starts at i.
LEMMA FromParts ==
    ASSUME NEW S, NEW s \in Seq(S), NEW i \in Nat, i >= 1, i <= Len(s) + 1
    PROVE  /\ From(s, i) \in Seq(S)
           /\ Len(From(s, i)) = Len(s) + 1 - i
           /\ \A k \in 1 .. Len(s) + 1 - i : From(s, i)[k] = s[i + k - 1]
<1>0. Len(s) \in Nat /\ \A k \in 1 .. Len(s) : s[k] \in S
  BY SeqParts
<1>1. \A k \in i .. Len(s) : s[k] \in S
  BY <1>0
<1>2. /\ From(s, i) \in Seq(S)
      /\ Len(From(s, i)) = IF i <= Len(s) THEN Len(s) - i + 1 ELSE 0
      /\ \A k \in 1 .. Len(s) - i + 1 : From(s, i)[k] = s[i + k - 1]
  BY <1>0, <1>1, SubSeqProperties DEF From
<1> QED BY <1>0, <1>2

\* c has the elements of s and behind them those of t.
IsConcat(c, s, t) ==
    /\ Len(c) = Len(s) + Len(t)
    /\ \A k \in 1 .. Len(s) + Len(t) : c[k] = IF k <= Len(s) THEN s[k] ELSE t[k - Len(s)]

\* What \o puts together, position by position.
LEMMA ConcatParts ==
    ASSUME NEW S, NEW s \in Seq(S), NEW t \in Seq(S)
    PROVE  s \o t \in Seq(S) /\ IsConcat(s \o t, s, t)
BY ConcatProperties DEF IsConcat

\* One element and what follows it.
LEMMA ConsParts ==
    ASSUME NEW S, NEW e \in S, NEW t \in Seq(S)
    PROVE  /\ <<e>> \o t \in Seq(S)
           /\ Len(<<e>> \o t) = Len(t) + 1
           /\ (<<e>> \o t)[1] = e
           /\ \A k \in 1 .. Len(t) : (<<e>> \o t)[k + 1] = t[k]
<1>1. <<e>> \in Seq(S) /\ Len(<<e>>) = 1 /\ <<e>>[1] = e /\ Len(t) \in Nat
  BY SeqParts
<1> DEFINE c == <<e>> \o t
<1>2. c \in Seq(S) /\ IsConcat(c, <<e>>, t)
  BY <1>1, ConcatParts
<1> HIDE DEF c
<1>3. /\ Len(c) = Len(t) + 1
      /\ \A k \in 1 .. Len(t) + 1 : c[k] = IF k <= 1 THEN <<e>>[k] ELSE t[k - 1]
  BY <1>1, <1>2 DEF IsConcat
<1>4. c[1] = e
  BY <1>1, <1>3
<1>5. ASSUME NEW k \in 1 .. Len(t) PROVE c[k + 1] = t[k]
  <2>1. k + 1 \in 1 .. Len(t) + 1 /\ ~(k + 1 <= 1) /\ k + 1 - 1 = k
    BY <1>1
  <2> QED BY <2>1, <1>3
<1> QED BY <1>2, <1>3, <1>4, <1>5 DEF c

\* A suffix, position by position.
LEMMA SuffixIs ==
    ASSUME NEW S, NEW s \in Seq(S), NEW t \in Seq(S)
    PROVE  IsSuffix(s, t) <=>
               /\ Len(s) <= Len(t)
               /\ \A i \in 1 .. Len(s) : s[i] = t[Len(t) - Len(s) + i]
<1> DEFINE rs == Reverse(s)
           rt == Reverse(t)
           m == Len(s)
           n == Len(t)
<1>0. /\ m \in Nat /\ n \in Nat
      /\ \A i \in 1 .. m : s[i] \in S /\ m - i + 1 \in 1 .. m
      /\ \A i \in 1 .. n : t[i] \in S /\ n - i + 1 \in 1 .. n
  <2>1. m \in Nat /\ n \in Nat /\ (\A i \in 1 .. m : s[i] \in S) /\ (\A i \in 1 .. n : t[i] \in S)
    BY SeqParts
  <2> QED BY <2>1
<1>1. /\ rs = [i \in 1 .. m |-> s[(m - i) + 1]]
      /\ rt = [i \in 1 .. n |-> t[(n - i) + 1]]
  BY DEF Reverse
<1>2. rs \in Seq(S) /\ rt \in Seq(S) /\ Len(rs) = m /\ Len(rt) = n
  <2> HIDE DEF rs, rt, m, n
  <2>1. rs \in [1 .. m -> S] /\ rt \in [1 .. n -> S]
    BY <1>0, <1>1
  <2> QED BY <2>1, <1>0, SeqDef, LenProperties
<1>3. IsSuffix(s, t) <=> m <= n /\ SubSeq(rs, 1, m) = SubSeq(rt, 1, m)
  BY <1>2 DEF IsSuffix, IsPrefix
<1> HIDE DEF rs, rt, m, n
<1>4. ASSUME m <= n
      PROVE  SubSeq(rs, 1, m) = SubSeq(rt, 1, m)
               <=> \A i \in 1 .. m : rs[i] = rt[i]
  <2>1. \A i \in 1 .. m : rs[i] \in S /\ rt[i] \in S
    BY <1>0, <1>1, <1>4
  <2>2. /\ SubSeq(rs, 1, m) \in Seq(S) /\ SubSeq(rt, 1, m) \in Seq(S)
        /\ Len(SubSeq(rs, 1, m)) = IF 1 <= m THEN m - 1 + 1 ELSE 0
        /\ Len(SubSeq(rt, 1, m)) = IF 1 <= m THEN m - 1 + 1 ELSE 0
        /\ \A i \in 1 .. m - 1 + 1 : SubSeq(rs, 1, m)[i] = rs[1 + i - 1]
        /\ \A i \in 1 .. m - 1 + 1 : SubSeq(rt, 1, m)[i] = rt[1 + i - 1]
    BY <1>0, <2>1, SubSeqProperties
  <2> DEFINE us == SubSeq(rs, 1, m)
             ut == SubSeq(rt, 1, m)
  <2>3. /\ us \in Seq(S) /\ ut \in Seq(S) /\ Len(us) = m /\ Len(ut) = m
        /\ \A i \in 1 .. m : us[i] = rs[i] /\ ut[i] = rt[i]
    <3> HIDE DEF us, ut
    <3> QED BY <2>2, <1>0 DEF us, ut
  <2> HIDE DEF us, ut
  <2>4. us = ut <=> \A i \in 1 .. m : us[i] = ut[i]
    BY <2>3, SeqEqual
  <2> QED BY <2>3, <2>4 DEF us, ut
<1>5. ASSUME m <= n
      PROVE  (\A i \in 1 .. m : rs[i] = rt[i]) <=> \A i \in 1 .. m : s[i] = t[n - m + i]
  <2>1. ASSUME \A i \in 1 .. m : rs[i] = rt[i], NEW i \in 1 .. m
        PROVE  s[i] = t[n - m + i]
    <3>1. m - i + 1 \in 1 .. m /\ m - i + 1 \in 1 .. n
      BY <1>0, <1>5
    <3>2. rs[m - i + 1] = s[(m - (m - i + 1)) + 1] /\ rt[m - i + 1] = t[(n - (m - i + 1)) + 1]
      BY <1>1, <3>1
    <3>3. (m - (m - i + 1)) + 1 = i /\ (n - (m - i + 1)) + 1 = n - m + i
      BY <1>0
    <3> QED BY <2>1, <3>1, <3>2, <3>3
  <2>2. ASSUME \A i \in 1 .. m : s[i] = t[n - m + i], NEW i \in 1 .. m
        PROVE  rs[i] = rt[i]
    <3>1. m - i + 1 \in 1 .. m /\ i \in 1 .. n
      BY <1>0, <1>5
    <3>2. rs[i] = s[(m - i) + 1] /\ rt[i] = t[(n - i) + 1]
      BY <1>1, <3>1
    <3>3. n - m + (m - i + 1) = (n - i) + 1
      BY <1>0
    <3> QED BY <2>2, <3>1, <3>2, <3>3
  <2> QED BY <2>1, <2>2
<1> QED BY <1>3, <1>4, <1>5 DEF m, n

\* Where the characters of S that start at i end.
LEMMA BehindParts ==
    ASSUME NEW C, NEW s \in Seq(C), NEW S, NEW i \in Nat, i >= 1, i <= Len(s) + 1
    PROVE  /\ Behind(s, i, S) \in Nat
           /\ i <= Behind(s, i, S)
           /\ Behind(s, i, S) <= Len(s) + 1
           /\ \A j \in i .. Behind(s, i, S) - 1 : s[j] \in S
           /\ Behind(s, i, S) <= Len(s) => s[Behind(s, i, S)] \notin S
<1> DEFINE T == {j \in i .. Len(s) + 1 : j = Len(s) + 1 \/ s[j] \notin S}
           m == Min(T)
<1>0. Len(s) \in Nat
  BY SeqParts
<1>1. m \in T /\ \A k \in T : m <= k
  <2>1. T \subseteq Nat /\ Len(s) + 1 \in T
    BY <1>0
  <2> HIDE DEF T
  <2> QED BY <2>1, MinIs
<1>2. Behind(s, i, S) = m
  BY DEF Behind
<1>3. m \in i .. Len(s) + 1 /\ (m = Len(s) + 1 \/ s[m] \notin S)
  BY <1>1
<1>4. ASSUME NEW j \in i .. m - 1 PROVE s[j] \in S
  <2>1. j \in i .. Len(s) + 1 /\ j # Len(s) + 1 /\ ~(m <= j)
    BY <1>0, <1>3
  <2>2. j \notin T
    <3> HIDE DEF T
    <3> QED BY <1>1, <2>1
  <2> QED BY <2>1, <2>2
<1> HIDE DEF m
<1> QED BY <1>0, <1>2, <1>3, <1>4

-----------------------------------------------------------------------------
(* Recursion.                                                              *)

\* A text goes through positions 1 .. n: at those in stop it ends, at the others
\* head is followed by what comes from the position next.
Unrolls(f, n, stop, head, next) ==
    \A i \in 1 .. n : f[i] = IF i \in stop THEN <<>> ELSE head[i] \o f[next[i]]

\* What such a function is made from, with elements of S.
Unrollable(n, S, stop, head, next) ==
    /\ n \in Nat
    /\ head \in [1 .. n -> Seq(S)]
    /\ \A i \in 1 .. n : i \notin stop => next[i] \in i + 1 .. n

\* It defines a function on all positions: the last ones first.
LEMMA UnrollExists ==
    ASSUME NEW n, NEW S, NEW stop, NEW head, NEW next, Unrollable(n, S, stop, head, next)
    PROVE  \E f : f \in [1 .. n -> Seq(S)] /\ Unrolls(f, n, stop, head, next)
<1> DEFINE Partial(f, k) ==
               /\ f \in [k .. n -> Seq(S)]
               /\ \A i \in k .. n : f[i] = IF i \in stop THEN <<>> ELSE head[i] \o f[next[i]]
           Bad == {k \in 1 .. n + 1 : ~\E f : Partial(f, k)}
<1>0. /\ n \in Nat
      /\ \A i \in 1 .. n : head[i] \in Seq(S)
      /\ \A i \in 1 .. n : i \notin stop => next[i] \in i + 1 .. n
  BY DEF Unrollable
<1>1. SUFFICES ASSUME Bad # {} PROVE FALSE
  <2>1. 1 \notin Bad => \E f : Partial(f, 1)
    BY <1>0
  <2>2. \E f : Partial(f, 1)
    <3> HIDE DEF Bad, Partial
    <3> QED BY <2>1
  <2> QED BY <2>2 DEF Unrolls
<1>2. PICK m \in Bad : \A k \in Bad : k <= m
  <2>1. Bad \subseteq Nat /\ \A k \in Bad : k <= n + 1
    BY <1>0
  <2>2. n + 1 \in Nat
    BY <1>0
  <2> HIDE DEF Bad
  <2> QED BY <1>1, <2>1, <2>2, NatMax
<1>3. m \in 1 .. n + 1 /\ ~\E f : Partial(f, m)
  BY <1>2
<1>4. CASE m = n + 1
  <2> DEFINE e == [i \in m .. n |-> <<>>]
  <2>1. m .. n = {}
    BY <1>0, <1>4
  <2>2. Partial(e, m)
    BY <2>1
  <2> HIDE DEF Partial
  <2> QED BY <1>3, <2>2
<1>5. CASE m # n + 1
  <2>1. m \in 1 .. n /\ m + 1 \in 1 .. n + 1 /\ ~(m + 1 <= m)
    BY <1>0, <1>3, <1>5
  <2>2. \E f : Partial(f, m + 1)
    <3>1. m + 1 \notin Bad
      <4> HIDE DEF Bad
      <4> QED BY <1>2, <2>1
    <3> HIDE DEF Partial
    <3> QED BY <2>1, <3>1
  <2>3. PICK g : Partial(g, m + 1)
    BY <2>2
  <2> DEFINE first == IF m \in stop THEN <<>> ELSE head[m] \o g[next[m]]
             h == [i \in m .. n |-> IF i = m THEN first ELSE g[i]]
  <2>4. first \in Seq(S)
    <3>1. CASE m \in stop
      BY <3>1, EmptySeq
    <3>2. CASE m \notin stop
      <4>1. next[m] \in m + 1 .. n
        BY <1>0, <2>1, <3>2
      <4>2. head[m] \in Seq(S) /\ g[next[m]] \in Seq(S)
        BY <1>0, <2>1, <2>3, <4>1
      <4> QED BY <3>2, <4>2, ConcatProperties
    <3> QED BY <3>1, <3>2
  <2>5. \A i \in m + 1 .. n : i \in m .. n /\ i # m /\ g[i] \in Seq(S)
    <3>1. \A i \in m + 1 .. n : i \in m .. n /\ i # m
      BY <2>1
    <3> QED BY <2>3, <3>1
  <2>6. \A i \in m .. n : i = m \/ i \in m + 1 .. n
    BY <2>1
  <2>7. h \in [m .. n -> Seq(S)]
    <3> HIDE DEF first, Partial
    <3> QED BY <2>4, <2>5, <2>6
  <2>8. ASSUME NEW i \in m .. n
        PROVE  h[i] = IF i \in stop THEN <<>> ELSE head[i] \o h[next[i]]
    <3>1. i \notin stop => next[i] \in m + 1 .. n /\ h[next[i]] = g[next[i]]
      <4> SUFFICES ASSUME i \notin stop
                   PROVE  next[i] \in m + 1 .. n /\ h[next[i]] = g[next[i]]
        OBVIOUS
      <4>1. i \in 1 .. n
        BY <2>1
      <4>2. next[i] \in i + 1 .. n
        BY <1>0, <4>1
      <4>3. next[i] \in m + 1 .. n
        BY <2>1, <4>1, <4>2
      <4> HIDE DEF first, Partial
      <4> QED BY <4>3, <2>5
    <3>2. CASE i = m
      <4>1. h[i] = first
        <5> HIDE DEF first, Partial
        <5> QED BY <3>2
      <4> HIDE DEF h
      <4> QED BY <3>1, <3>2, <4>1
    <3>3. CASE i # m
      <4>1. i \in m + 1 .. n
        BY <2>6, <3>3
      <4>2. h[i] = g[i]
        <5> HIDE DEF first, Partial
        <5> QED BY <3>3
      <4>3. g[i] = IF i \in stop THEN <<>> ELSE head[i] \o g[next[i]]
        BY <2>3, <4>1
      <4> HIDE DEF h, Partial
      <4> QED BY <3>1, <4>2, <4>3
    <3> QED BY <3>2, <3>3
  <2>9. Partial(h, m)
    <3> HIDE DEF h
    <3> QED BY <2>7, <2>8
  <2> HIDE DEF Partial
  <2> QED BY <1>3, <2>9
<1> QED BY <1>4, <1>5

\* And whatever satisfies the equation has sequences over S as its values.
LEMMA UnrollType ==
    ASSUME NEW n, NEW S, NEW stop, NEW head, NEW next, Unrollable(n, S, stop, head, next),
           NEW f, Unrolls(f, n, stop, head, next)
    PROVE  \A i \in 1 .. n : f[i] \in Seq(S)
<1> DEFINE Bad == {i \in 1 .. n : f[i] \notin Seq(S)}
<1>0. n \in Nat
  BY DEF Unrollable
<1> SUFFICES ASSUME Bad # {} PROVE FALSE
  OBVIOUS
<1>1. PICK m \in Bad : \A k \in Bad : k <= m
  <2>1. Bad \subseteq Nat /\ \A k \in Bad : k <= n
    BY <1>0
  <2> HIDE DEF Bad
  <2> QED BY <1>0, <2>1, NatMax
<1>2. m \in 1 .. n /\ f[m] \notin Seq(S)
  BY <1>1
<1>3. CASE m \in stop
  <2>1. f[m] = <<>>
    BY <1>2, <1>3 DEF Unrolls
  <2> QED BY <1>2, <2>1, EmptySeq
<1>4. CASE m \notin stop
  <2>1. next[m] \in m + 1 .. n /\ head[m] \in Seq(S) /\ f[m] = head[m] \o f[next[m]]
    BY <1>2, <1>4 DEF Unrolls, Unrollable
  <2>2. next[m] \in 1 .. n /\ ~(next[m] <= m)
    BY <1>0, <1>2, <2>1
  <2>3. next[m] \notin Bad
    <3> HIDE DEF Bad
    <3> QED BY <1>1, <2>2
  <2>4. f[next[m]] \in Seq(S)
    BY <2>2, <2>3
  <2> QED BY <1>2, <2>1, <2>4, ConcatProperties
<1> QED BY <1>3, <1>4

-----------------------------------------------------------------------------
(* The path of a request.                                                  *)

\* What a text is made of, and what a decoder can make of it.
Chars == 1 .. 255
Bytes == 0 .. 255

\* The characters of a text are bytes that are not NUL.
LEMMA CharsAreBytes == Seq(Chars) \subseteq Seq(Bytes)
<1>1. Chars \subseteq Bytes
  BY DEF Chars, Bytes
<1> QED BY <1>1, SeqMonotonic

\* The value of an escape is a byte.
LEMMA EscapedByte ==
    ASSUME NEW s, NEW i, EscapeAt(s, i)
    PROVE  Escaped(s, i) \in Bytes
<1>1. \A c : HexValue(c) >= 0 => HexValue(c) \in 0 .. 15
  BY DEF HexValue
<1>2. HexValue(s[i + 1]) \in 0 .. 15 /\ HexValue(s[i + 2]) \in 0 .. 15
  BY <1>1 DEF EscapeAt
<1> QED BY <1>2 DEF Escaped, Bytes

\* How url_decode goes through a text.
DecodeHead(s) ==
    [i \in 1 .. Len(s) + 1 |->
        IF i > Len(s) THEN <<>> ELSE IF EscapeAt(s, i) THEN <<Escaped(s, i)>> ELSE <<s[i]>>]
DecodeNext(s) == [i \in 1 .. Len(s) + 1 |-> IF EscapeAt(s, i) THEN i + 3 ELSE i + 1]

\* The mongoose decoder, url_decode, gives a text of bytes.
LEMMA DecodedBytes ==
    ASSUME NEW s \in Seq(Bytes)
    PROVE  url_decode(s) \in Seq(Bytes)
<1> DEFINE n == Len(s) + 1
           head == DecodeHead(s)
           next == DecodeNext(s)
           Eqn(f) == f = [i \in 1 .. Len(s) + 1 |->
                            IF i > Len(s) THEN <<>>
                            ELSE IF EscapeAt(s, i) THEN <<Escaped(s, i)>> \o f[i + 3]
                            ELSE <<s[i]>> \o f[i + 1]]
           c == CHOOSE f : Eqn(f)
<1>0. Len(s) \in Nat /\ \A i \in 1 .. Len(s) : s[i] \in Bytes
  BY SeqParts
<1>1. ASSUME NEW i \in 1 .. n
      PROVE  /\ head[i] = IF i = n THEN <<>>
                          ELSE IF EscapeAt(s, i) THEN <<Escaped(s, i)>> ELSE <<s[i]>>
             /\ head[i] \in Seq(Bytes)
             /\ i # n => next[i] = IF EscapeAt(s, i) THEN i + 3 ELSE i + 1
             /\ i # n => next[i] \in i + 1 .. n
  <2>1. i > Len(s) <=> i = n
    BY <1>0
  <2>2. head[i] = IF i = n THEN <<>>
                  ELSE IF EscapeAt(s, i) THEN <<Escaped(s, i)>> ELSE <<s[i]>>
    BY <2>1 DEF DecodeHead
  <2>3. next[i] = IF EscapeAt(s, i) THEN i + 3 ELSE i + 1
    BY DEF DecodeNext
  <2>4. head[i] \in Seq(Bytes)
    <3>1. CASE i = n
      BY <2>2, <3>1, EmptySeq
    <3>2. CASE i # n /\ EscapeAt(s, i)
      BY <2>2, <3>2, EscapedByte
    <3>3. CASE i # n /\ ~EscapeAt(s, i)
      BY <2>2, <3>3, <1>0
    <3> QED BY <3>1, <3>2, <3>3
  <2>5. i # n => next[i] \in i + 1 .. n
    <3>1. EscapeAt(s, i) => i + 2 <= Len(s)
      BY DEF EscapeAt
    <3> HIDE DEF next
    <3> QED BY <2>3, <3>1, <1>0
  <2> QED BY <2>2, <2>3, <2>4, <2>5
<1> HIDE DEF head, next
<1>2. Unrollable(n, Bytes, {n}, head, next)
  <2>1. n \in Nat
    BY <1>0
  <2>2. head \in [1 .. n -> Seq(Bytes)]
    <3>1. head = [i \in 1 .. n |-> head[i]]
      BY DEF head, DecodeHead
    <3> QED BY <3>1, <1>1
  <2> QED BY <2>1, <2>2, <1>1 DEF Unrollable
<1>3. PICK g : g \in [1 .. n -> Seq(Bytes)] /\ Unrolls(g, n, {n}, head, next)
  <2> HIDE DEF n
  <2> QED BY <1>2, UnrollExists
<1>4. Eqn(g)
  <2>1. ASSUME NEW i \in 1 .. n
        PROVE  g[i] = IF i > Len(s) THEN <<>>
                      ELSE IF EscapeAt(s, i) THEN <<Escaped(s, i)>> \o g[i + 3]
                      ELSE <<s[i]>> \o g[i + 1]
    <3>1. g[i] = IF i = n THEN <<>> ELSE head[i] \o g[next[i]]
      BY <1>3 DEF Unrolls
    <3>2. i > Len(s) <=> i = n
      BY <1>0
    <3> HIDE DEF n
    <3> QED BY <3>1, <3>2, <1>1
  <2> QED BY <1>3, <2>1
<1>5. Eqn(c)
  <2> HIDE DEF Eqn
  <2> QED BY <1>4
<1>6. url_decode(s) = c[1]
  BY DEF url_decode
<1>7. Unrolls(c, n, {n}, head, next)
  <2> HIDE DEF c
  <2>1. ASSUME NEW i \in 1 .. n
        PROVE  c[i] = IF i \in {n} THEN <<>> ELSE head[i] \o c[next[i]]
    <3>1. c[i] = IF i > Len(s) THEN <<>>
                 ELSE IF EscapeAt(s, i) THEN <<Escaped(s, i)>> \o c[i + 3]
                 ELSE <<s[i]>> \o c[i + 1]
      BY <1>5
    <3>2. i > Len(s) <=> i = n
      BY <1>0
    <3> HIDE DEF n
    <3> QED BY <3>1, <3>2, <1>1
  <2> QED BY <2>1 DEF Unrolls
<1>8. 1 \in 1 .. n
  BY <1>0
<1> HIDE DEF c, n
<1> QED BY <1>2, <1>6, <1>7, <1>8, UnrollType

\* Skip stays in the text and leaves at most one dot.
LEMMA SkipParts ==
    ASSUME NEW C, NEW s \in Seq(C), NEW i \in Nat, i >= 1, i <= Len(s) + 1
    PROVE  /\ Skip(s, i) \in i .. Len(s) + 1
           /\ ~(Skip(s, i) + 1 <= Len(s) /\ s[Skip(s, i)] = Dot /\ s[Skip(s, i) + 1] = Dot)
<1> DEFINE a == AfterSlashes(s, i)
           b == Behind(s, a, {Dot})
           j == a + 2 * ((b - a) \div 2)
<1>0. Len(s) \in Nat
  BY SeqParts
<1>1. a \in Nat /\ i <= a /\ a <= Len(s) + 1
  BY BehindParts DEF AfterSlashes
<1>2. a >= 1
  BY <1>1
<1> HIDE DEF a
<1>3. /\ b \in Nat /\ a <= b /\ b <= Len(s) + 1
      /\ b <= Len(s) => s[b] # Dot
  BY <1>1, <1>2, BehindParts
<1>4. Skip(s, i) = j
  BY DEF Skip, AfterDots, a
<1> HIDE DEF b
<1>5. j \in i .. Len(s) + 1 /\ (j = b \/ j = b - 1)
  BY <1>0, <1>1, <1>3
<1>6. ~(j + 1 <= Len(s) /\ s[j] = Dot /\ s[j + 1] = Dot)
  <2>1. CASE j = b
    BY <2>1, <1>0, <1>3
  <2>2. CASE j = b - 1
    <3>1. j + 1 = b
      BY <2>2, <1>3
    <3> HIDE DEF j
    <3> QED BY <3>1, <1>3
  <2> QED BY <2>1, <2>2, <1>5
<1> HIDE DEF j
<1> QED BY <1>4, <1>5, <1>6

\* No slash with two dots behind it.
NoUp(p) == \A k \in 1 .. Len(p) - 2 : ~(p[k] = Slash /\ p[k + 1] = Dot /\ p[k + 2] = Dot)

\* How remove_double_dots_and_double_slashes goes through a text.
CleanHead(s) == [i \in 1 .. Len(s) + 1 |-> IF i > Len(s) THEN <<>> ELSE <<s[i]>>]
CleanNext(s) ==
    [i \in 1 .. Len(s) + 1 |-> IF s[i] \in Slashes THEN Skip(s, i + 1) ELSE i + 1]

\* These heads and positions define a function: Skip never goes backwards.
LEMMA CleanUnrollable ==
    ASSUME NEW C, NEW s \in Seq(C)
    PROVE  /\ Unrollable(Len(s) + 1, C, {Len(s) + 1}, CleanHead(s), CleanNext(s))
           /\ \A i \in 1 .. Len(s) :
                /\ CleanHead(s)[i] = <<s[i]>>
                /\ CleanNext(s)[i] = IF s[i] \in Slashes THEN Skip(s, i + 1) ELSE i + 1
                /\ CleanNext(s)[i] \in i + 1 .. Len(s) + 1
<1> DEFINE n == Len(s) + 1
<1>0. Len(s) \in Nat /\ \A i \in 1 .. Len(s) : s[i] \in C
  BY SeqParts
<1>1. ASSUME NEW i \in 1 .. Len(s)
      PROVE  /\ CleanHead(s)[i] = <<s[i]>>
             /\ <<s[i]>> \in Seq(C)
             /\ CleanNext(s)[i] = IF s[i] \in Slashes THEN Skip(s, i + 1) ELSE i + 1
             /\ CleanNext(s)[i] \in i + 1 .. n
  <2>1. i \in 1 .. n /\ ~(i > Len(s)) /\ i + 1 \in Nat /\ i + 1 >= 1 /\ i + 1 <= Len(s) + 1
    BY <1>0
  <2>2. CleanHead(s)[i] = <<s[i]>>
    BY <2>1 DEF CleanHead
  <2>3. CleanNext(s)[i] = IF s[i] \in Slashes THEN Skip(s, i + 1) ELSE i + 1
    BY <2>1 DEF CleanNext
  <2>4. Skip(s, i + 1) \in i + 1 .. n
    BY <2>1, SkipParts
  <2>5. i + 1 \in i + 1 .. n
    BY <2>1, <1>0
  <2>6. <<s[i]>> \in Seq(C)
    BY <1>0
  <2> QED BY <2>2, <2>3, <2>4, <2>5, <2>6
<1>2. n \in Nat /\ \A i \in 1 .. n : i \in 1 .. Len(s) \/ i = n
  BY <1>0
<1>3. CleanHead(s) \in [1 .. n -> Seq(C)]
  <2>1. CleanHead(s)[n] = <<>>
    <3>1. n \in 1 .. n /\ n > Len(s)
      BY <1>0
    <3> QED BY <3>1 DEF CleanHead
  <2>2. <<>> \in Seq(C)
    BY EmptySeq
  <2>3. CleanHead(s) = [i \in 1 .. n |-> CleanHead(s)[i]]
    BY DEF CleanHead
  <2>4. \A i \in 1 .. n : CleanHead(s)[i] \in Seq(C)
    <3> HIDE DEF n
    <3> QED BY <1>1, <1>2, <2>1, <2>2
  <2> QED BY <2>3, <2>4
<1>4. Unrollable(n, C, {n}, CleanHead(s), CleanNext(s))
  <2> HIDE DEF n
  <2> QED BY <1>1, <1>2, <1>3 DEF Unrollable
<1> QED BY <1>1, <1>4

\* remove_double_dots_and_double_slashes is what such a function gives at 1.
LEMMA CleanUnrolls ==
    ASSUME NEW C, NEW s \in Seq(C)
    PROVE  \E f : /\ remove_double_dots_and_double_slashes(s) = f[1]
                  /\ Unrolls(f, Len(s) + 1, {Len(s) + 1}, CleanHead(s), CleanNext(s))
<1> DEFINE n == Len(s) + 1
           head == CleanHead(s)
           next == CleanNext(s)
           Eqn(f) == f = [i \in 1 .. Len(s) + 1 |->
                            IF i > Len(s) THEN <<>>
                            ELSE <<s[i]>> \o f[IF s[i] \in Slashes THEN Skip(s, i + 1) ELSE i + 1]]
           c == CHOOSE f : Eqn(f)
<1>0. /\ n \in Nat
      /\ \A i \in 1 .. n : i > Len(s) <=> i = n
      /\ \A i \in 1 .. n : i # n => i \in 1 .. Len(s)
  BY SeqParts
<1>1. PICK g : g \in [1 .. n -> Seq(C)] /\ Unrolls(g, n, {n}, head, next)
  <2>1. Unrollable(n, C, {n}, head, next)
    BY CleanUnrollable
  <2> HIDE DEF n, head, next
  <2> QED BY <2>1, UnrollExists
<1>2. ASSUME NEW f, NEW i \in 1 .. n
      PROVE  (IF i \in {n} THEN <<>> ELSE head[i] \o f[next[i]])
               = IF i > Len(s) THEN <<>>
                 ELSE <<s[i]>> \o f[IF s[i] \in Slashes THEN Skip(s, i + 1) ELSE i + 1]
  <2>1. i # n => /\ head[i] = <<s[i]>>
                 /\ next[i] = IF s[i] \in Slashes THEN Skip(s, i + 1) ELSE i + 1
    BY <1>0, CleanUnrollable
  <2> HIDE DEF n, head, next
  <2> QED BY <2>1, <1>0
<1>3. Eqn(g)
  <2>1. \A i \in 1 .. n :
          g[i] = IF i > Len(s) THEN <<>>
                 ELSE <<s[i]>> \o g[IF s[i] \in Slashes THEN Skip(s, i + 1) ELSE i + 1]
    <3> HIDE DEF n, head, next
    <3> QED BY <1>1, <1>2 DEF Unrolls
  <2> QED BY <1>1, <2>1
<1>4. Eqn(c)
  <2> HIDE DEF Eqn
  <2> QED BY <1>3
<1>5. Unrolls(c, n, {n}, head, next)
  <2> HIDE DEF c
  <2>1. \A i \in 1 .. n :
          c[i] = IF i > Len(s) THEN <<>>
                 ELSE <<s[i]>> \o c[IF s[i] \in Slashes THEN Skip(s, i + 1) ELSE i + 1]
    BY <1>4
  <2> HIDE DEF n, head, next, Eqn
  <2> QED BY <2>1, <1>2 DEF Unrolls
<1>6. remove_double_dots_and_double_slashes(s) = c[1]
  BY DEF remove_double_dots_and_double_slashes
<1> HIDE DEF c
<1> QED BY <1>5, <1>6

\* What the pass keeps has no slash with two dots behind it.
LEMMA CleanHasNoUp ==
    ASSUME NEW C, NEW s \in Seq(C)
    PROVE  /\ remove_double_dots_and_double_slashes(s) \in Seq(C)
           /\ NoUp(remove_double_dots_and_double_slashes(s))
<1> DEFINE L == Len(s)
           n == L + 1
           next == CleanNext(s)
<1>0. L \in Nat /\ \A i \in 1 .. L : s[i] \in C
  BY SeqParts
<1>1. PICK f : /\ remove_double_dots_and_double_slashes(s) = f[1]
               /\ Unrolls(f, n, {n}, CleanHead(s), next)
  BY CleanUnrolls
<1>2. \A i \in 1 .. n : f[i] \in Seq(C)
  <2>1. Unrollable(n, C, {n}, CleanHead(s), next)
    BY CleanUnrollable
  <2> HIDE DEF n, next
  <2> QED BY <1>1, <2>1, UnrollType
<1>3. f[n] = <<>>
  <2>1. n \in 1 .. n
    BY <1>0
  <2> HIDE DEF n, next
  <2> QED BY <1>1, <2>1 DEF Unrolls
<1>4. ASSUME NEW i \in 1 .. L
      PROVE  /\ next[i] = IF s[i] \in Slashes THEN Skip(s, i + 1) ELSE i + 1
             /\ next[i] \in i + 1 .. n
             /\ f[next[i]] \in Seq(C)
             /\ Len(f[i]) = Len(f[next[i]]) + 1
             /\ f[i][1] = s[i]
             /\ \A k \in 1 .. Len(f[next[i]]) : f[i][k + 1] = f[next[i]][k]
  <2>1. /\ CleanHead(s)[i] = <<s[i]>>
        /\ next[i] = IF s[i] \in Slashes THEN Skip(s, i + 1) ELSE i + 1
        /\ next[i] \in i + 1 .. n
    BY CleanUnrollable
  <2>2. i \in 1 .. n /\ i # n /\ next[i] \in 1 .. n
    BY <1>0, <2>1
  <2> HIDE DEF n, next
  <2>3. f[i] = <<s[i]>> \o f[next[i]]
    BY <1>1, <2>1, <2>2 DEF Unrolls
  <2>4. s[i] \in C /\ f[next[i]] \in Seq(C)
    BY <1>0, <1>2, <2>2
  <2> QED BY <2>1, <2>3, <2>4, ConsParts
<1> HIDE DEF next
<1> DEFINE Bad == {i \in 1 .. n : ~NoUp(f[i])}
<1>5. ASSUME Bad # {} PROVE FALSE
  <2>1. PICK m \in Bad : \A k \in Bad : k <= m
    <3>1. Bad \subseteq Nat /\ n \in Nat /\ \A k \in Bad : k <= n
      BY <1>0
    <3> HIDE DEF Bad
    <3> QED BY <1>5, <3>1, NatMax
  <2>2. m \in 1 .. n /\ ~NoUp(f[m])
    BY <2>1
  <2>3. m \in 1 .. L
    <3>1. NoUp(<<>>)
      BY DEF NoUp
    <3>2. m # n
      BY <2>2, <3>1, <1>3
    <3> QED BY <2>2, <3>2, <1>0
  <2> DEFINE j == next[m]
  <2>4. /\ j \in m + 1 .. n
        /\ j = IF s[m] \in Slashes THEN Skip(s, m + 1) ELSE m + 1
        /\ f[j] \in Seq(C)
        /\ Len(f[m]) = Len(f[j]) + 1
        /\ f[m][1] = s[m]
        /\ \A k \in 1 .. Len(f[j]) : f[m][k + 1] = f[j][k]
    BY <1>4, <2>3
  <2> HIDE DEF j
  <2>5. Len(f[j]) \in Nat /\ j \in 1 .. n /\ ~(j <= m) /\ j \in Nat /\ m + 1 \in Nat
        /\ m + 1 >= 1 /\ m + 1 <= L + 1
    BY <1>0, <2>3, <2>4, SeqParts
  <2>6. NoUp(f[j])
    <3>1. j \notin Bad
      <4> HIDE DEF Bad
      <4> QED BY <2>1, <2>5
    <3> QED BY <2>5, <3>1
  <2>7. PICK k \in 1 .. Len(f[m]) - 2 :
            f[m][k] = Slash /\ f[m][k + 1] = Dot /\ f[m][k + 2] = Dot
    BY <2>2 DEF NoUp
  <2>8. k \in 1 .. Len(f[j]) - 1
    BY <2>4, <2>5
  <2>9. CASE k # 1
    <3>1. /\ k - 1 \in 1 .. Len(f[j]) - 2
          /\ k - 1 \in 1 .. Len(f[j]) /\ k \in 1 .. Len(f[j]) /\ k + 1 \in 1 .. Len(f[j])
          /\ (k - 1) + 1 = k /\ (k + 1) + 1 = k + 2 /\ (k - 1) + 2 = k + 1
      BY <2>5, <2>8, <2>9
    <3>2. f[j][k - 1] = Slash /\ f[j][k] = Dot /\ f[j][k + 1] = Dot
      BY <2>4, <2>7, <3>1
    <3> QED BY <2>6, <3>1, <3>2 DEF NoUp
  <2>10. CASE k = 1
    <3>1. s[m] = Slash /\ 1 \in 1 .. Len(f[j]) /\ 2 \in 1 .. Len(f[j])
      BY <2>4, <2>5, <2>7, <2>8, <2>10
    <3>2. f[j][1] = Dot /\ f[j][2] = Dot
      BY <2>4, <2>7, <2>10, <3>1
    <3>3. j = Skip(s, m + 1)
      BY <2>4, <3>1 DEF Slashes
    <3>4. j \in 1 .. L
      <4>1. f[j] # <<>>
        BY <3>1, EmptySeq
      <4>2. j # n
        BY <4>1, <1>3
      <4> QED BY <4>2, <2>5, <1>0
    <3> DEFINE q == next[j]
    <3>5. /\ q \in j + 1 .. n
          /\ q = IF s[j] \in Slashes THEN Skip(s, j + 1) ELSE j + 1
          /\ f[q] \in Seq(C)
          /\ Len(f[j]) = Len(f[q]) + 1
          /\ f[j][1] = s[j]
          /\ \A i \in 1 .. Len(f[q]) : f[j][i + 1] = f[q][i]
      BY <1>4, <3>4
    <3> HIDE DEF q
    <3>6. s[j] = Dot /\ q = j + 1
      BY <3>2, <3>5 DEF Slashes, Dot, Slash, Backslash
    <3>7. Len(f[q]) \in Nat /\ 1 \in 1 .. Len(f[q])
      <4>1. Len(f[q]) \in Nat
        BY <3>5, SeqParts
      <4> QED BY <4>1, <3>1, <3>5
    <3>8. f[q][1] = Dot
      <4>1. f[j][1 + 1] = f[q][1]
        BY <3>5, <3>7
      <4> QED BY <4>1, <3>2
    <3>9. q \in 1 .. L
      <4>1. f[q] # <<>>
        BY <3>7, EmptySeq
      <4>2. q # n
        BY <4>1, <1>3
      <4> QED BY <4>2, <3>4, <3>5, <1>0
    <3>10. s[j + 1] = Dot /\ j + 1 <= L
      <4>1. f[q][1] = s[q]
        BY <1>4, <3>9
      <4> QED BY <4>1, <3>6, <3>8, <3>9
    <3> QED BY <2>5, <3>3, <3>6, <3>10, SkipParts
  <2> QED BY <2>9, <2>10
<1>6. 1 \in 1 .. n
  BY <1>0
<1> QED BY <1>1, <1>2, <1>5, <1>6

\* The path that the handlers see has no slash with two dots behind it.
LEMMA PathParts ==
    ASSUME NEW uri \in Seq(Bytes)
    PROVE  PathOf(uri) \in Seq(Bytes) /\ NoUp(PathOf(uri))
<1>1. Before(uri, {Question}) \in Seq(Bytes)
  BY BeforeParts
<1>2. url_decode(Before(uri, {Question})) \in Seq(Bytes)
  BY <1>1, DecodedBytes
<1>3. CString(url_decode(Before(uri, {Question}))) \in Seq(Bytes)
  BY <1>2, BeforeParts DEF CString
<1> QED BY <1>3, CleanHasNoUp DEF PathOf

\* What is between two slashes, with the first of them, ends the text before the
\* second.
LEMMA BetweenSlashes ==
    ASSUME NEW C, NEW path \in Seq(C), NEW begin \in 1 .. Len(path), NEW last \in 1 .. Len(path),
           begin < last, path[begin] = Slash, \A i \in begin + 1 .. last - 1 : path[i] # Slash
    PROVE  LET name == SubSeq(path, begin + 1, last - 1)
           IN  /\ Slash \notin ToSet(name)
               /\ IsSuffix(<<Slash>> \o name, SubSeq(path, 1, last - 1))
<1> DEFINE name == SubSeq(path, begin + 1, last - 1)
           first == SubSeq(path, 1, last - 1)
           x == <<Slash>> \o name
<1>0. /\ Len(path) \in Nat /\ begin \in Nat /\ last \in Nat
      /\ begin >= 1 /\ last <= Len(path) /\ begin + 1 <= last
      /\ Slash \in C
  <2>1. Len(path) \in Nat /\ path[begin] \in C
    BY SeqParts
  <2> QED BY <2>1
<1>1. /\ name \in Seq(C) /\ Len(name) = last - 1 - begin
      /\ \A i \in 1 .. last - 1 - begin : name[i] = path[begin + i]
  <2>1. /\ begin + 1 \in Nat /\ begin + 1 >= 1 /\ last - 1 \in Nat /\ last - 1 <= Len(path)
        /\ begin + 1 <= last - 1 + 1 /\ last - 1 + 1 - (begin + 1) = last - 1 - begin
    BY <1>0
  <2>2. /\ name \in Seq(C)
        /\ Len(name) = last - 1 + 1 - (begin + 1)
        /\ \A i \in 1 .. last - 1 + 1 - (begin + 1) : name[i] = path[begin + 1 + i - 1]
    BY ONLY <2>1, PartParts, path \in Seq(C)
  <2> HIDE DEF name
  <2>3. \A i \in 1 .. last - 1 - begin : begin + 1 + i - 1 = begin + i
    BY <1>0
  <2> QED BY <2>1, <2>2, <2>3
<1>2. /\ first \in Seq(C) /\ Len(first) = last - 1
      /\ \A i \in 1 .. last - 1 : first[i] = path[i]
  <2>1. /\ last - 1 \in Nat /\ last - 1 <= Len(path) /\ 1 <= last - 1 + 1
        /\ last - 1 + 1 - 1 = last - 1
    BY <1>0
  <2>2. /\ first \in Seq(C)
        /\ Len(first) = last - 1 + 1 - 1
        /\ \A i \in 1 .. last - 1 + 1 - 1 : first[i] = path[1 + i - 1]
    BY ONLY <2>1, PartParts, path \in Seq(C)
  <2> HIDE DEF first
  <2>3. \A i \in 1 .. last - 1 : 1 + i - 1 = i
    OBVIOUS
  <2> QED BY <2>1, <2>2, <2>3
<1> HIDE DEF name, first
<1>3. Slash \notin ToSet(name)
  <2>1. DOMAIN name = 1 .. last - 1 - begin
    BY <1>1, SeqParts
  <2>2. \A i \in 1 .. last - 1 - begin : begin + i \in begin + 1 .. last - 1
    BY <1>0
  <2>3. \A i \in DOMAIN name : name[i] # Slash
    BY <2>1, <2>2, <1>1
  <2> QED BY <2>3 DEF ToSet
<1>4. /\ x \in Seq(C) /\ Len(x) = Len(name) + 1 /\ x[1] = Slash
      /\ \A k \in 1 .. Len(name) : x[k + 1] = name[k]
  BY ONLY <1>0, <1>1, ConsParts
<1> HIDE DEF x
<1>5. Len(x) = last - begin
  BY <1>0, <1>1, <1>4
<1>6. ASSUME NEW i \in 1 .. Len(x)
      PROVE  x[i] = first[Len(first) - Len(x) + i]
  <2>1. Len(first) - Len(x) + i = begin + (i - 1) /\ i \in Int
    BY <1>0, <1>2, <1>5
  <2>2. CASE i = 1
    <3>1. begin + (i - 1) = begin /\ begin \in 1 .. last - 1
      BY <1>0, <2>2
    <3> QED BY <2>1, <2>2, <3>1, <1>2, <1>4
  <2>3. CASE i # 1
    <3>1. /\ i - 1 \in 1 .. last - 1 - begin /\ i - 1 \in 1 .. Len(name) /\ (i - 1) + 1 = i
          /\ begin + (i - 1) \in 1 .. last - 1
      BY <1>0, <1>1, <1>5, <2>3
    <3>2. x[i] = name[i - 1]
      BY <1>4, <3>1
    <3>3. name[i - 1] = path[begin + (i - 1)]
      BY <1>1, <3>1
    <3>4. first[begin + (i - 1)] = path[begin + (i - 1)]
      BY <1>2, <3>1
    <3> QED BY <2>1, <3>2, <3>3, <3>4
  <2> QED BY <2>2, <2>3
<1>7. Len(x) <= Len(first)
  BY <1>0, <1>2, <1>5
<1>8. IsSuffix(x, first)
  BY <1>2, <1>4, <1>6, <1>7, SuffixIs
<1> QED BY <1>3, <1>8 DEF x, name, first

\* In an absolute path parse_app_name finds what is between the last two slashes.
LEMMA AppNameParts ==
    ASSUME NEW C, NEW path \in Seq(C), path # <<>>, path[1] = Slash,
           NEW last, last = Max({i \in DOMAIN path : path[i] = Slash}), last > 1
    PROVE  /\ Slash \notin ToSet(parse_app_name(path))
           /\ IsSuffix(<<Slash>> \o parse_app_name(path), SubSeq(path, 1, last - 1))
<1> DEFINE slashes == {i \in DOMAIN path : path[i] = Slash}
           begin == Max({1} \cup (slashes \ {last}))
           L == Len(path)
<1>0. L \in Nat /\ DOMAIN path = 1 .. L /\ L >= 1 /\ \A i \in 1 .. L : path[i] \in C
  BY SeqParts, EmptySeq
<1>1. \A i : i \in slashes <=> i \in 1 .. L /\ path[i] = Slash
  BY <1>0
<1>2. 1 \in slashes
  BY <1>0, <1>1
<1> HIDE DEF slashes
<1>3. last \in slashes /\ \A i \in slashes : i <= last
  <2>1. slashes \subseteq Nat /\ slashes # {} /\ \A i \in slashes : i <= L
    BY <1>0, <1>1, <1>2
  <2>2. last = Max(slashes)
    BY DEF slashes
  <2> HIDE DEF L
  <2> QED BY <2>1, <2>2, <1>0, MaxIs
<1>4. last \in 1 .. L /\ last > 1
  BY <1>1, <1>3
<1>5. /\ begin \in slashes \ {last}
      /\ \A i \in slashes \ {last} : i <= begin
  <2> DEFINE T == {1} \cup (slashes \ {last})
  <2>1. T = slashes \ {last}
    <3>1. 1 # last
      BY <1>4
    <3> QED BY <1>2, <3>1
  <2>2. T \subseteq Nat /\ T # {} /\ \A i \in T : i <= L
    BY <1>0, <1>1, <2>1
  <2>3. begin = Max(T)
    OBVIOUS
  <2> HIDE DEF T, L, begin
  <2>4. begin \in T /\ \A i \in T : i <= begin
    BY <2>2, <2>3, <1>0, MaxIs
  <2> QED BY <2>1, <2>4
<1> HIDE DEF begin
<1>6. /\ begin \in 1 .. L /\ path[begin] = Slash /\ begin < last
  <2>1. begin \in 1 .. L /\ path[begin] = Slash /\ begin # last /\ begin <= last
    BY <1>1, <1>3, <1>5
  <2> QED BY <2>1, <1>4
<1>7. \A i \in begin + 1 .. last - 1 : path[i] # Slash
  <2> SUFFICES ASSUME NEW i \in begin + 1 .. last - 1
               PROVE  path[i] # Slash
    OBVIOUS
  <2>1. i \in 1 .. L /\ ~(i <= begin) /\ i # last
    BY <1>0, <1>4, <1>6
  <2> QED BY <2>1, <1>0, <1>1, <1>5
<1>8. parse_app_name(path) = SubSeq(path, begin + 1, last - 1)
  <2>1. ~(slashes \subseteq {1})
    BY <1>3, <1>4
  <2>2. last = Max(slashes)
    BY DEF slashes
  <2> QED BY <2>1, <2>2 DEF parse_app_name, slashes, begin
<1> QED BY <1>4, <1>6, <1>7, <1>8, BetweenSlashes

-----------------------------------------------------------------------------
(* Iteration.                                                              *)

\* f goes through n steps from init.
Iterates(f, n, init, step) ==
    f[0] = init /\ \A i \in 1 .. n : f[i] = step[<<f[i - 1], i>>]

\* A step function on X can be iterated.
LEMMA IterateExists ==
    ASSUME NEW X, NEW n \in Nat, NEW init \in X, NEW step \in [X \X (1 .. n) -> X]
    PROVE  \E f : f \in [0 .. n -> X] /\ Iterates(f, n, init, step)
<1> DEFINE Partial(f, k) ==
               /\ f \in [0 .. k -> X]
               /\ Iterates(f, k, init, step)
           Bad == {k \in 0 .. n : ~\E f : Partial(f, k)}
<1>1. SUFFICES ASSUME Bad # {} PROVE FALSE
  <2>1. n \in 0 .. n /\ (n \notin Bad => \E f : Partial(f, n))
    OBVIOUS
  <2>2. \E f : Partial(f, n)
    <3> HIDE DEF Bad, Partial
    <3> QED BY <2>1
  <2> QED BY <2>2
<1>2. PICK m \in Bad : \A k \in Bad : m <= k
  <2>1. Bad \subseteq Nat
    OBVIOUS
  <2> HIDE DEF Bad
  <2> QED BY <1>1, <2>1, NatMin
<1>3. m \in 0 .. n /\ ~\E f : Partial(f, m)
  BY <1>2
<1>4. CASE m = 0
  <2> DEFINE e == [i \in 0 .. m |-> init]
  <2>1. e[0] = init /\ e \in [0 .. m -> X] /\ 1 .. m = {}
    BY <1>4
  <2> HIDE DEF e
  <2>2. Partial(e, m)
    BY <2>1 DEF Iterates
  <2> HIDE DEF Partial
  <2> QED BY <1>3, <2>2
<1>5. CASE m # 0
  <2>1. m \in 1 .. n /\ m - 1 \in 0 .. n /\ ~(m <= m - 1)
    BY <1>3, <1>5
  <2>2. \E f : Partial(f, m - 1)
    <3>1. m - 1 \notin Bad
      <4> HIDE DEF Bad
      <4> QED BY <1>2, <2>1
    <3> HIDE DEF Partial
    <3> QED BY <2>1, <3>1
  <2>3. PICK g : Partial(g, m - 1)
    BY <2>2
  <2> DEFINE last == step[<<g[m - 1], m>>]
             h == [i \in 0 .. m |-> IF i = m THEN last ELSE g[i]]
  <2>4. \A i \in 0 .. m - 1 : i \in 0 .. m /\ i # m /\ g[i] \in X
    <3>1. \A i \in 0 .. m - 1 : i \in 0 .. m /\ i # m
      BY <2>1
    <3> QED BY <2>3, <3>1
  <2>5. last \in X
    <3>1. m - 1 \in 0 .. m - 1
      BY <2>1
    <3>2. <<g[m - 1], m>> \in X \X (1 .. n)
      BY <2>1, <2>4, <3>1
    <3> QED BY <3>2
  <2>6. \A i \in 0 .. m : i = m \/ i \in 0 .. m - 1
    BY <2>1
  <2>7. h \in [0 .. m -> X]
    <3> HIDE DEF last, Partial
    <3> QED BY <2>4, <2>5, <2>6
  <2>8. h[m] = last /\ \A i \in 0 .. m - 1 : h[i] = g[i]
    <3>1. m \in 0 .. m
      BY <2>1
    <3> HIDE DEF last, Partial
    <3> QED BY <2>4, <3>1
  <2> HIDE DEF h
  <2>9. h[0] = init
    <3>1. 0 \in 0 .. m - 1
      BY <2>1
    <3> QED BY <2>3, <2>8, <3>1 DEF Iterates
  <2>10. ASSUME NEW i \in 1 .. m
         PROVE  h[i] = step[<<h[i - 1], i>>]
    <3>1. i - 1 \in 0 .. m - 1 /\ (i # m => i \in 1 .. m - 1 /\ i \in 0 .. m - 1)
      BY <2>1
    <3>2. CASE i = m
      BY <2>8, <3>1, <3>2
    <3>3. CASE i # m
      <4>1. g[i] = step[<<g[i - 1], i>>]
        BY <2>3, <3>1, <3>3 DEF Iterates
      <4> HIDE DEF Partial, last
      <4> QED BY <2>8, <3>1, <3>3, <4>1
    <3> QED BY <3>2, <3>3
  <2>11. Partial(h, m)
    BY <2>7, <2>9, <2>10 DEF Iterates
  <2> HIDE DEF Partial
  <2> QED BY <1>3, <2>11
<1> QED BY <1>4, <1>5

\* f[i] puts the first i sequences together.
Flattens(f, seqs, S) ==
    /\ f \in [0 .. Len(seqs) -> Seq(S)]
    /\ f[0] = <<>>
    /\ \A i \in 1 .. Len(seqs) : f[i] = f[i - 1] \o seqs[i]

\* FlattenSeq is the last value of such a function.
LEMMA FlattenSeqIs ==
    ASSUME NEW S, NEW seqs \in Seq(Seq(S))
    PROVE  \E f : Flattens(f, seqs, S) /\ FlattenSeq(seqs) = f[Len(seqs)]
<1> DEFINE n == Len(seqs)
           step == [p \in Seq(S) \X (1 .. n) |-> p[1] \o seqs[p[2]]]
<1>1. n \in Nat /\ \A i \in 1 .. n : seqs[i] \in Seq(S)
  BY SeqParts
<1>2. \E g : g \in [0 .. n -> Seq(S)] /\ Iterates(g, n, <<>>, step)
  <2>1. step \in [Seq(S) \X (1 .. n) -> Seq(S)]
    <3>1. \A p \in Seq(S) \X (1 .. n) : p[1] \in Seq(S) /\ seqs[p[2]] \in Seq(S)
      BY <1>1
    <3>2. \A p \in Seq(S) \X (1 .. n) : p[1] \o seqs[p[2]] \in Seq(S)
      BY <3>1, ConcatProperties
    <3> HIDE DEF n
    <3> QED BY <3>2
  <2>2. <<>> \in Seq(S)
    BY EmptySeq
  <2> HIDE DEF n, step
  <2> QED BY <1>1, <2>1, <2>2, IterateExists
<1>3. PICK g : g \in [0 .. n -> Seq(S)] /\ Iterates(g, n, <<>>, step)
  BY <1>2
<1>4. g[0] = <<>> /\ \A i \in 1 .. n : g[i - 1] \in Seq(S) /\ g[i] = g[i - 1] \o seqs[i]
  <2>1. g[0] = <<>> /\ \A i \in 1 .. n : g[i] = step[<<g[i - 1], i>>]
    BY <1>3 DEF Iterates
  <2>2. \A i \in 1 .. n : g[i - 1] \in Seq(S)
    <3>1. \A i \in 1 .. n : i - 1 \in 0 .. n
      BY <1>1
    <3> HIDE DEF n, step
    <3> QED BY <1>3, <3>1
  <2>3. ASSUME NEW i \in 1 .. n PROVE step[<<g[i - 1], i>>] = g[i - 1] \o seqs[i]
    <3>1. <<g[i - 1], i>> \in Seq(S) \X (1 .. n)
      BY <2>2
    <3> QED BY <3>1
  <2> HIDE DEF step
  <2> QED BY <2>1, <2>2, <2>3
<1> HIDE DEF step
<1>5. Flattens(g, seqs, S)
  BY <1>3, <1>4 DEF Flattens
<1>6. CASE n = 0
  <2>1. seqs = <<>>
    BY <1>6, EmptySeq
  <2>2. FlattenSeq(seqs) = <<>>
    BY <1>6, <2>1 DEF FlattenSeq
  <2> QED BY <1>4, <1>5, <1>6, <2>2
<1>7. CASE n # 0
  <2> DEFINE Eqn(f) == f = [i \in 1 .. Len(seqs) |->
                              IF i = 1 THEN seqs[i] ELSE f[i - 1] \o seqs[i]]
             c == CHOOSE f : Eqn(f)
             r == [i \in 1 .. n |-> g[i]]
  <2>1. Eqn(r)
    <3>1. ASSUME NEW i \in 1 .. n
          PROVE  g[i] = IF i = 1 THEN seqs[i] ELSE r[i - 1] \o seqs[i]
      <4>1. CASE i = 1
        <5>1. g[1] = g[1 - 1] \o seqs[1] /\ seqs[1] \in Seq(S)
          BY <1>1, <1>4, <4>1
        <5>2. g[1 - 1] = <<>>
          BY <1>4
        <5> QED BY <4>1, <5>1, <5>2, ConcatEmptySeq
      <4>2. CASE i # 1
        <5>1. i - 1 \in 1 .. n
          BY <4>2, <1>1
        <5>2. r[i - 1] = g[i - 1]
          BY <5>1
        <5> HIDE DEF r
        <5> QED BY <1>4, <4>2, <5>2
      <4> QED BY <4>1, <4>2
    <3> QED BY <3>1
  <2>2. Eqn(c)
    <3> HIDE DEF Eqn
    <3> QED BY <2>1
  <2>3. FlattenSeq(seqs) = c[n]
    BY <1>7 DEF FlattenSeq
  <2>4. \A i \in 1 .. n : c[i] = IF i = 1 THEN seqs[i] ELSE c[i - 1] \o seqs[i]
    <3> HIDE DEF c
    <3> QED BY <2>2
  <2>5. \A i \in 1 .. n : r[i] = IF i = 1 THEN seqs[i] ELSE r[i - 1] \o seqs[i]
    <3> HIDE DEF r
    <3> QED BY <2>1
  <2> HIDE DEF c
  <2>6. \A i \in 1 .. n : r[i] = g[i]
    OBVIOUS
  <2> HIDE DEF r, Eqn
  <2> DEFINE Bad == {i \in 1 .. n : c[i] # r[i]}
  <2>7. ASSUME Bad # {} PROVE FALSE
    <3>1. PICK m \in Bad : \A k \in Bad : m <= k
      <4>1. Bad \subseteq Nat
        OBVIOUS
      <4> HIDE DEF Bad
      <4> QED BY <2>7, <4>1, NatMin
    <3>2. m \in 1 .. n /\ c[m] # r[m]
      BY <3>1
    <3>3. m # 1 => m - 1 \in 1 .. n /\ c[m - 1] = r[m - 1]
      <4>1. m # 1 => m - 1 \in 1 .. n /\ ~(m <= m - 1)
        BY <3>2, <1>1
      <4>2. m # 1 => m - 1 \notin Bad
        <5> HIDE DEF Bad
        <5> QED BY <3>1, <4>1
      <4> QED BY <4>1, <4>2
    <3> QED BY <3>2, <3>3, <2>4, <2>5
  <2>8. n \in 1 .. n
    BY <1>1, <1>7
  <2>9. c[n] = g[n]
    BY <2>6, <2>7, <2>8
  <2> QED BY <1>5, <2>3, <2>9
<1> QED BY <1>6, <1>7

-----------------------------------------------------------------------------
(* What xmlencode writes.                                                  *)

\* The smaller of two numbers.
LEMMA MinOfTwo ==
    ASSUME NEW a \in Nat, NEW b \in Nat
    PROVE  Min({a, b}) = IF a <= b THEN a ELSE b
<1>1. {a, b} \subseteq Nat /\ {a, b} # {}
  OBVIOUS
<1>2. Min({a, b}) \in {a, b} /\ \A k \in {a, b} : Min({a, b}) <= k
  BY <1>1, MinIs
<1> QED BY <1>2

\* The greater of two numbers.
LEMMA MaxOfTwo ==
    ASSUME NEW a \in Nat, NEW b \in Nat
    PROVE  Max({a, b}) = IF a <= b THEN b ELSE a
<1>1. {a, b} \subseteq Nat /\ {a, b} # {} /\ a + b \in Nat /\ \A k \in {a, b} : k <= a + b
  OBVIOUS
<1>2. Max({a, b}) \in {a, b} /\ \A k \in {a, b} : k <= Max({a, b})
  BY <1>1, MaxIs
<1> QED BY <1>2

\* An entity has two characters more than its name.
LEMMA EntityParts ==
    ASSUME NEW letters \in Seq(Bytes), NEW k \in 2 .. 4, Len(letters) = k
    PROVE  LET entity == <<Ampersand>> \o letters \o <<Semicolon>>
           IN  entity \in Seq(Bytes) /\ Len(entity) \in 1 .. 6
<1> DEFINE begun == <<Ampersand>> \o letters
           entity == begun \o <<Semicolon>>
<1>1. Ampersand \in Bytes /\ <<Semicolon>> \in Seq(Bytes) /\ Len(<<Semicolon>>) = 1
  BY DEF Ampersand, Semicolon, Bytes
<1>2. begun \in Seq(Bytes) /\ Len(begun) = k + 1
  BY <1>1, ConsParts
<1> HIDE DEF begun
<1>3. entity \in Seq(Bytes) /\ IsConcat(entity, begun, <<Semicolon>>)
  BY <1>1, <1>2, ConcatParts
<1> HIDE DEF entity
<1>4. Len(entity) = k + 2
  BY <1>1, <1>2, <1>3 DEF IsConcat
<1>5. Len(entity) \in 1 .. 6
  BY <1>4
<1> QED BY <1>3, <1>5 DEF entity, begun

\* A piece is one byte or an entity of at most six.
LEMMA PieceParts ==
    ASSUME NEW c \in Bytes
    PROVE  Piece(c) \in Seq(Bytes) /\ Len(Piece(c)) \in 1 .. 6
<1> USE DEF Ampersand, Less, Greater, Quote, Apostrophe
<1> DEFINE entity(letters) == <<Ampersand>> \o letters \o <<Semicolon>>
           name == CASE c \in {Less, Greater} -> <<c, c>>
                     [] c = Ampersand -> <<c, c, c>>
                     [] c \in {Quote, Apostrophe} -> <<c, c, c, c>>
<1>0. c \in Markup => Piece(c) = entity(name)
  BY DEF Piece, Entity
<1>1. CASE c \notin Markup
  <2>1. Piece(c) = <<c>>
    BY <1>1 DEF Piece
  <2> QED BY <2>1
<1>2. CASE c \in {Less, Greater}
  <2>1. Piece(c) = entity(<<c, c>>)
    <3>1. name = <<c, c>> /\ c \in Markup
      BY <1>2 DEF Markup
    <3> HIDE DEF name
    <3> QED BY <1>0, <3>1
  <2>2. <<c, c>> \in Seq(Bytes) /\ Len(<<c, c>>) = 2 /\ 2 \in 2 .. 4
    OBVIOUS
  <2> QED BY <2>1, <2>2, EntityParts
<1>3. CASE c = Ampersand
  <2>1. Piece(c) = entity(<<c, c, c>>)
    BY <1>3 DEF Piece, Entity, Markup
  <2>2. <<c, c, c>> \in Seq(Bytes) /\ Len(<<c, c, c>>) = 3 /\ 3 \in 2 .. 4
    OBVIOUS
  <2> QED BY <2>1, <2>2, EntityParts
<1>4. CASE c \in {Quote, Apostrophe}
  <2>1. Piece(c) = entity(<<c, c, c, c>>)
    <3>1. name = <<c, c, c, c>> /\ c \in Markup
      BY <1>4 DEF Markup
    <3> HIDE DEF name
    <3> QED BY <1>0, <3>1
  <2>2. <<c, c, c, c>> \in Seq(Bytes) /\ Len(<<c, c, c, c>>) = 4 /\ 4 \in 2 .. 4
    OBVIOUS
  <2> QED BY <2>1, <2>2, EntityParts
<1> QED BY <1>1, <1>2, <1>3, <1>4 DEF Markup

\* What xmlencode knows while it goes through a text.
Progress == [size : Nat, out : Seq(Bytes), written : Nat]

\* The text is as long as what was counted, unless it was cut at max_size; at
\* most one byte behind it was written.
Fits(done, max_size) ==
    /\ done \in Progress
    /\ Len(done.out) = IF done.size <= max_size THEN done.size ELSE max_size
    /\ done.written <= Len(done.out) + 1

\* One character keeps it so; a piece for which there is room is not cut.
LEMMA WithPieceFits ==
    ASSUME NEW done, NEW c \in Bytes, NEW max_size \in Nat, Fits(done, max_size)
    PROVE  /\ Fits(WithPiece(done, c, max_size), max_size)
           /\ done.size + Len(Piece(c)) <= max_size =>
                /\ WithPiece(done, c, max_size).size = done.size + Len(Piece(c))
                /\ WithPiece(done, c, max_size).out = done.out \o Piece(c)
<1> DEFINE length == Len(Piece(c))
           room == max_size - done.size
           kept == Appended(length, room)
           end == Len(done.out) + kept
           cut == SubSeq(Piece(c), 1, kept)
           text1 == done.out \o cut
           written1 == IF c \in Markup THEN end + 1 ELSE end
           after == [size |-> done.size + length, out |-> text1, written |-> written1]
<1>0. /\ done \in Progress /\ done.size \in Nat /\ done.out \in Seq(Bytes)
      /\ done.written \in Nat /\ Len(done.out) \in Nat
      /\ length \in Nat /\ length >= 1 /\ Piece(c) \in Seq(Bytes)
  <2>1. done \in Progress /\ done.size \in Nat /\ done.out \in Seq(Bytes) /\ done.written \in Nat
    BY DEF Fits, Progress
  <2>2. Len(done.out) \in Nat
    BY <2>1, SeqParts
  <2>3. length \in 1 .. 6 /\ Piece(c) \in Seq(Bytes)
    BY PieceParts
  <2> HIDE DEF length
  <2> QED BY <2>1, <2>2, <2>3
<1>1. CASE done.size >= max_size
  <2>1. WithPiece(done, c, max_size) = done
    BY <1>1 DEF WithPiece
  <2>2. ~(done.size + length <= max_size)
    BY <1>0, <1>1
  <2> QED BY <2>1, <2>2
<1>2. CASE ~(done.size >= max_size)
  <2>1. WithPiece(done, c, max_size) = after
    BY <1>2 DEF WithPiece
  <2>2. room \in Nat /\ room >= 1
    BY <1>0, <1>2
  <2>3. kept = IF length <= room THEN length ELSE room
    <3> HIDE DEF length, room
    <3> QED BY <1>0, <2>2, MinOfTwo DEF Appended
  <2> HIDE DEF kept
  <2>4. kept \in Nat /\ kept <= length /\ 1 <= kept + 1 /\ kept + 1 - 1 = kept
    BY <1>0, <2>2, <2>3
  <2>5. cut \in Seq(Bytes) /\ Len(cut) = kept
    <3>1. cut \in Seq(Bytes) /\ Len(cut) = kept + 1 - 1
      BY ONLY <1>0, <2>4, PartParts
    <3> QED BY <3>1, <2>4
  <2>6. kept = length => cut = Piece(c)
    BY <1>0, SubSeqFull
  <2> HIDE DEF cut, length
  <2>7. text1 \in Seq(Bytes) /\ Len(text1) = Len(done.out) + kept
    <3>1. text1 \in Seq(Bytes) /\ IsConcat(text1, done.out, cut)
      BY <1>0, <2>5, ConcatParts
    <3> HIDE DEF text1
    <3> QED BY <3>1, <2>5 DEF IsConcat
  <2>8. written1 \in Nat /\ written1 <= Len(text1) + 1
    BY <1>0, <2>4, <2>7
  <2> HIDE DEF text1, written1
  <2>9. after.size = done.size + length /\ after.out = text1 /\ after.written = written1
    OBVIOUS
  <2>10. after \in Progress
    <3>1. done.size + length \in Nat /\ text1 \in Seq(Bytes)
      BY <1>0, <2>7
    <3> QED BY <2>8, <3>1 DEF Progress
  <2> HIDE DEF after
  <2>11. Len(done.out) = done.size
    BY <1>0, <1>2 DEF Fits
  <2>12. Len(after.out) = IF after.size <= max_size THEN after.size ELSE max_size
    <3>1. Len(after.out) = done.size + kept
      BY <2>7, <2>9, <2>11
    <3>2. CASE length <= room
      <4>1. kept = length /\ done.size + length <= max_size
        BY <1>0, <2>3, <3>2
      <4> QED BY <3>1, <4>1, <2>9
    <3>3. CASE ~(length <= room)
      <4>1. kept = room /\ ~(done.size + length <= max_size) /\ done.size + room = max_size
        BY <1>0, <2>3, <3>3
      <4> QED BY <3>1, <4>1, <2>9
    <3> QED BY <3>2, <3>3
  <2>13. Fits(after, max_size)
    BY <2>8, <2>9, <2>10, <2>12 DEF Fits
  <2>14. done.size + length <= max_size => kept = length
    BY <1>0, <2>3
  <2> QED BY <2>1, <2>6, <2>9, <2>13, <2>14 DEF length, text1
<1> QED BY <1>1, <1>2

\* after[n] is what xmlencode has done with the first n characters.
Encodes(after, src, max_size) ==
    /\ after[0] = [size |-> 0, out |-> <<>>, written |-> 0]
    /\ \A i \in 1 .. Len(src) : after[i] = WithPiece(after[i - 1], src[i], max_size)

\* xmlencode goes through its text in this way, and fits all along.
LEMMA XmlencodeIs ==
    ASSUME NEW src \in Seq(Bytes), NEW max_size \in Nat
    PROVE  \E after :
             /\ Encodes(after, src, max_size)
             /\ xmlencode(src, max_size) =
                  [out |-> after[Len(src)].out,
                   written |-> Max({after[Len(src)].written, Len(after[Len(src)].out) + 1})]
             /\ \A i \in 0 .. Len(src) : Fits(after[i], max_size)
<1> DEFINE n == Len(src)
           init == [size |-> 0, out |-> <<>>, written |-> 0]
           X == {d \in Progress : Fits(d, max_size)}
           step == [p \in X \X (1 .. n) |-> WithPiece(p[1], src[p[2]], max_size)]
           Eqn(f) == f = [i \in 0 .. Len(src) |->
                            IF i = 0 THEN [size |-> 0, out |-> <<>>, written |-> 0]
                            ELSE WithPiece(f[i - 1], src[i], max_size)]
           c == CHOOSE f : Eqn(f)
<1>1. n \in Nat /\ \A i \in 1 .. n : src[i] \in Bytes
  BY SeqParts
<1>2. init \in X
  <2>1. init \in Progress
    <3>1. <<>> \in Seq(Bytes)
      BY EmptySeq
    <3> QED BY <3>1 DEF Progress
  <2>2. init.size = 0 /\ init.out = <<>> /\ init.written = 0 /\ Len(<<>>) = 0
    OBVIOUS
  <2> HIDE DEF init
  <2>3. Fits(init, max_size)
    BY <2>1, <2>2 DEF Fits
  <2> QED BY <2>1, <2>3
<1>3. step \in [X \X (1 .. n) -> X]
  <2>1. ASSUME NEW p \in X \X (1 .. n)
        PROVE  WithPiece(p[1], src[p[2]], max_size) \in X
    <3>1. Fits(p[1], max_size) /\ src[p[2]] \in Bytes
      BY <1>1
    <3>2. Fits(WithPiece(p[1], src[p[2]], max_size), max_size)
      BY <3>1, WithPieceFits
    <3> QED BY <3>2 DEF Fits
  <2> HIDE DEF X, n
  <2> QED BY <2>1
<1>4. PICK g : g \in [0 .. n -> X] /\ Iterates(g, n, init, step)
  <2> HIDE DEF X, n, init, step
  <2> QED BY <1>1, <1>2, <1>3, IterateExists
<1>5. ASSUME NEW i \in 1 .. n
      PROVE  g[i] = WithPiece(g[i - 1], src[i], max_size)
  <2>1. g[i] = step[<<g[i - 1], i>>]
    <3> HIDE DEF step, init, n
    <3> QED BY <1>4 DEF Iterates
  <2>2. g[i - 1] \in X
    <3>1. i - 1 \in 0 .. n
      BY <1>1
    <3> HIDE DEF X, n
    <3> QED BY <1>4, <3>1
  <2>3. <<g[i - 1], i>> \in X \X (1 .. n)
    <3> HIDE DEF X, n
    <3> QED BY <2>2
  <2>4. step[<<g[i - 1], i>>] = WithPiece(g[i - 1], src[i], max_size)
    <3> HIDE DEF X, n
    <3> QED BY <2>3
  <2> QED BY <2>1, <2>4
<1>6. g[0] = init
  <2> HIDE DEF step, init, n
  <2> QED BY <1>4 DEF Iterates
<1>7. Eqn(g)
  <2>1. \A i \in 0 .. n : g[i] = IF i = 0 THEN init ELSE WithPiece(g[i - 1], src[i], max_size)
    <3>1. \A i \in 0 .. n : i = 0 \/ i \in 1 .. n
      BY <1>1
    <3> HIDE DEF init, n
    <3> QED BY <3>1, <1>5, <1>6
  <2>2. g = [i \in 0 .. n |-> g[i]]
    <3> HIDE DEF X, n
    <3> QED BY <1>4
  <2> QED BY <2>1, <2>2
<1>8. Eqn(c)
  <2> HIDE DEF Eqn
  <2> QED BY <1>7
<1>9. Encodes(c, src, max_size)
  <2> HIDE DEF c
  <2>1. c[0] = init
    <3>1. 0 \in 0 .. n
      BY <1>1
    <3> QED BY <1>8, <3>1
  <2>2. \A i \in 1 .. n : c[i] = WithPiece(c[i - 1], src[i], max_size)
    <3>1. \A i \in 1 .. n : i \in 0 .. n /\ i # 0
      BY <1>1
    <3> QED BY <1>8, <3>1
  <2> QED BY <2>1, <2>2 DEF Encodes
<1>10. xmlencode(src, max_size) =
         [out |-> c[n].out, written |-> Max({c[n].written, Len(c[n].out) + 1})]
  BY DEF xmlencode
<1> HIDE DEF c, Eqn
<1> DEFINE Bad == {i \in 0 .. n : ~Fits(c[i], max_size)}
<1>11. ASSUME Bad # {} PROVE FALSE
  <2>1. PICK m \in Bad : \A k \in Bad : m <= k
    <3>1. Bad \subseteq Nat
      OBVIOUS
    <3> HIDE DEF Bad
    <3> QED BY <1>11, <3>1, NatMin
  <2>2. m \in 0 .. n /\ ~Fits(c[m], max_size)
    BY <2>1
  <2>3. CASE m = 0
    BY <2>2, <2>3, <1>2, <1>9 DEF Encodes
  <2>4. CASE m # 0
    <3>1. m \in 1 .. n /\ m - 1 \in 0 .. n /\ ~(m <= m - 1)
      BY <2>2, <2>4, <1>1
    <3>2. m - 1 \notin Bad
      <4> HIDE DEF Bad
      <4> QED BY <2>1, <3>1
    <3>3. Fits(c[m - 1], max_size) /\ src[m] \in Bytes
      BY <3>1, <3>2, <1>1
    <3>4. c[m] = WithPiece(c[m - 1], src[m], max_size)
      BY <3>1, <1>9 DEF Encodes
    <3>5. Fits(c[m], max_size)
      BY <3>3, <3>4, WithPieceFits
    <3> QED BY <2>2, <3>5
  <2> QED BY <2>3, <2>4
<1>12. \A i \in 0 .. n : Fits(c[i], max_size)
  BY <1>11
<1> QED BY <1>9, <1>10, <1>12

\* So xmlencode writes at most one byte more than it was given.
LEMMA XmlencodeFits ==
    ASSUME NEW src \in Seq(Bytes), NEW max_size \in Nat
    PROVE  xmlencode(src, max_size).written <= max_size + 1
<1>1. PICK after :
        /\ xmlencode(src, max_size) =
             [out |-> after[Len(src)].out,
              written |-> Max({after[Len(src)].written, Len(after[Len(src)].out) + 1})]
        /\ \A i \in 0 .. Len(src) : Fits(after[i], max_size)
  BY XmlencodeIs
<1> DEFINE d == after[Len(src)]
<1>2. Fits(d, max_size)
  <2>1. Len(src) \in 0 .. Len(src)
    BY SeqParts
  <2> QED BY <2>1, <1>1
<1> HIDE DEF d
<1>3. xmlencode(src, max_size).written = Max({d.written, Len(d.out) + 1})
  BY <1>1 DEF d
<1>4. d.written \in Nat /\ Len(d.out) \in Nat /\ Len(d.out) <= max_size
      /\ d.written <= Len(d.out) + 1
  <2>1. d.written \in Nat /\ d.size \in Nat /\ d.out \in Seq(Bytes)
    BY <1>2 DEF Fits, Progress
  <2>2. Len(d.out) \in Nat
    BY <2>1, SeqParts
  <2> QED BY <1>2, <2>1, <2>2 DEF Fits
<1>5. Max({d.written, Len(d.out) + 1}) = Len(d.out) + 1
  <2>1. Len(d.out) + 1 \in Nat
    BY <1>4
  <2>2. Max({d.written, Len(d.out) + 1})
          = IF d.written <= Len(d.out) + 1 THEN Len(d.out) + 1 ELSE d.written
    BY <1>4, <2>1, MaxOfTwo
  <2> QED BY <2>2, <1>4
<1> QED BY <1>3, <1>4, <1>5

-----------------------------------------------------------------------------
(* What urldecode reads.                                                   *)

\* How urldecode goes through a text: it also ends at an escape that is wrong.
ValueStop(s) ==
    {Len(s) + 1} \cup {i \in 1 .. Len(s) : s[i] = Percent /\ ~EscapeAt(s, i)}
ValueHead(s) ==
    [i \in 1 .. Len(s) + 1 |->
        IF i \in ValueStop(s) THEN <<>>
        ELSE IF s[i] = Plus THEN <<Space>>
        ELSE IF s[i] # Percent THEN <<s[i]>> ELSE <<Escaped(s, i)>>]
ValueNext(s) ==
    [i \in 1 .. Len(s) + 1 |-> IF s[i] = Percent THEN i + 3 ELSE i + 1]

\* It is the beginning of what such a function has put together.
LEMMA UrldecodeIs ==
    ASSUME NEW s \in Seq(Bytes), NEW max_size
    PROVE  \E f :
             /\ \A i \in 1 .. Len(s) + 1 : f[i] \in Seq(Bytes)
             /\ Unrolls(f, Len(s) + 1, ValueStop(s), ValueHead(s), ValueNext(s))
             /\ urldecode(s, max_size) = SubSeq(f[1], 1, Min({Len(f[1]), max_size}))
<1> DEFINE n == Len(s) + 1
           stop == ValueStop(s)
           head == ValueHead(s)
           next == ValueNext(s)
           Eqn(f) == f = [i \in 1 .. Len(s) + 1 |->
                            IF i > Len(s) THEN <<>>
                            ELSE IF s[i] = Plus THEN <<Space>> \o f[i + 1]
                            ELSE IF s[i] # Percent THEN <<s[i]>> \o f[i + 1]
                            ELSE IF EscapeAt(s, i) THEN <<Escaped(s, i)>> \o f[i + 3]
                            ELSE <<>>]
           c == CHOOSE f : Eqn(f)
<1>0. Len(s) \in Nat /\ \A i \in 1 .. Len(s) : s[i] \in Bytes
  BY SeqParts
<1>p. Plus # Percent
  BY DEF Plus, Percent
<1>1. ASSUME NEW i \in 1 .. n
      PROVE  /\ i \in stop <=> i > Len(s) \/ (s[i] = Percent /\ ~EscapeAt(s, i))
             /\ head[i] = IF i \in stop THEN <<>>
                          ELSE IF s[i] = Plus THEN <<Space>>
                          ELSE IF s[i] # Percent THEN <<s[i]>> ELSE <<Escaped(s, i)>>
             /\ head[i] \in Seq(Bytes)
             /\ next[i] = IF s[i] = Percent THEN i + 3 ELSE i + 1
             /\ i \notin stop => next[i] \in i + 1 .. n
  <2>1. i \in stop <=> i > Len(s) \/ (s[i] = Percent /\ ~EscapeAt(s, i))
    BY <1>0 DEF ValueStop
  <2>2. head[i] = IF i \in stop THEN <<>>
                  ELSE IF s[i] = Plus THEN <<Space>>
                  ELSE IF s[i] # Percent THEN <<s[i]>> ELSE <<Escaped(s, i)>>
    BY DEF ValueHead
  <2>3. next[i] = IF s[i] = Percent THEN i + 3 ELSE i + 1
    BY DEF ValueNext
  <2> HIDE DEF stop, head, next
  <2>4. head[i] \in Seq(Bytes)
    <3>1. CASE i \in stop
      BY <2>2, <3>1, EmptySeq
    <3>2. CASE i \notin stop /\ s[i] = Plus
      <4>1. Space \in Bytes
        BY DEF Space, Bytes
      <4> QED BY <2>2, <3>2, <4>1
    <3>3. CASE i \notin stop /\ s[i] # Plus /\ s[i] # Percent
      <4>1. i \in 1 .. Len(s)
        BY <2>1, <3>3, <1>0
      <4>2. s[i] \in Bytes
        BY <4>1, <1>0
      <4> QED BY <2>2, <3>3, <4>2
    <3>4. CASE i \notin stop /\ s[i] = Percent
      <4>1. EscapeAt(s, i)
        BY <2>1, <3>4
      <4>2. Escaped(s, i) \in Bytes
        BY <4>1, EscapedByte
      <4>3. head[i] = <<Escaped(s, i)>>
        BY <2>2, <3>4, <1>p
      <4> HIDE DEF n
      <4> QED BY <4>2, <4>3
    <3> QED BY <3>1, <3>2, <3>3, <3>4
  <2>5. i \notin stop => next[i] \in i + 1 .. n
    <3>1. EscapeAt(s, i) => i + 2 <= Len(s)
      BY DEF EscapeAt
    <3> QED BY <2>1, <2>3, <3>1, <1>0
  <2> QED BY <2>1, <2>2, <2>3, <2>4, <2>5
<1>s. head = [i \in 1 .. n |-> head[i]]
  BY DEF ValueHead
<1> HIDE DEF stop, head, next
<1>2. Unrollable(n, Bytes, stop, head, next)
  <2>1. n \in Nat
    BY <1>0
  <2>2. head \in [1 .. n -> Seq(Bytes)]
    BY <1>s, <1>1
  <2> QED BY <2>1, <2>2, <1>1 DEF Unrollable
<1>3. PICK g : g \in [1 .. n -> Seq(Bytes)] /\ Unrolls(g, n, stop, head, next)
  <2> HIDE DEF n
  <2> QED BY <1>2, UnrollExists
<1>4. ASSUME NEW f, NEW i \in 1 .. n
      PROVE  (IF i > Len(s) THEN <<>>
              ELSE IF s[i] = Plus THEN <<Space>> \o f[i + 1]
              ELSE IF s[i] # Percent THEN <<s[i]>> \o f[i + 1]
              ELSE IF EscapeAt(s, i) THEN <<Escaped(s, i)>> \o f[i + 3]
              ELSE <<>>)
              = IF i \in stop THEN <<>> ELSE head[i] \o f[next[i]]
  <2> HIDE DEF n
  <2> QED BY <1>1, <1>p
<1>5. Eqn(g)
  <2>1. \A i \in 1 .. n : g[i] = IF i \in stop THEN <<>> ELSE head[i] \o g[next[i]]
    BY <1>3 DEF Unrolls
  <2>2. g = [i \in 1 .. n |-> g[i]]
    BY <1>3
  <2> QED BY <2>1, <2>2, <1>4
<1>6. Eqn(c)
  <2> HIDE DEF Eqn
  <2> QED BY <1>5
<1>7. urldecode(s, max_size) = SubSeq(c[1], 1, Min({Len(c[1]), max_size}))
  BY DEF urldecode
<1>8. Unrolls(c, n, stop, head, next)
  <2> HIDE DEF c
  <2>1. ASSUME NEW i \in 1 .. n
        PROVE  c[i] = IF i \in stop THEN <<>> ELSE head[i] \o c[next[i]]
    BY <1>4, <1>6
  <2> QED BY <2>1 DEF Unrolls
<1> HIDE DEF c, Eqn
<1>9. \A i \in 1 .. n : c[i] \in Seq(Bytes)
  <2> HIDE DEF n
  <2> QED BY <1>2, <1>8, UnrollType
<1> QED BY <1>7, <1>8, <1>9 DEF n, stop, head, next

\* It is a text of bytes.
LEMMA UrldecodeBytes ==
    ASSUME NEW s \in Seq(Bytes), NEW max_size \in Nat
    PROVE  urldecode(s, max_size) \in Seq(Bytes)
<1>1. PICK f :
        /\ \A i \in 1 .. Len(s) + 1 : f[i] \in Seq(Bytes)
        /\ urldecode(s, max_size) = SubSeq(f[1], 1, Min({Len(f[1]), max_size}))
  BY UrldecodeIs
<1> DEFINE d == f[1]
           m == Min({Len(d), max_size})
<1>2. d \in Seq(Bytes)
  <2>1. 1 \in 1 .. Len(s) + 1
    BY SeqParts
  <2> QED BY <2>1, <1>1
<1> HIDE DEF d
<1>3. Len(d) \in Nat
  BY <1>2, SeqParts
<1>4. m \in Nat /\ m <= Len(d) /\ 1 <= m + 1
  <2>1. m = IF Len(d) <= max_size THEN Len(d) ELSE max_size
    BY <1>3, MinOfTwo
  <2> QED BY <2>1, <1>3
<1> HIDE DEF m
<1>5. SubSeq(d, 1, m) \in Seq(Bytes)
  BY <1>2, <1>4, PartParts
<1> QED BY <1>1, <1>5 DEF d, m

-----------------------------------------------------------------------------
(* Words between separators.                                               *)

\* The word that starts at i, and where it ends.
Word(s, separator, i) == Before(From(s, i), {separator})

\* A word stays in the text and ends at its end or at a separator.
LEMMA WordParts ==
    ASSUME NEW C, NEW s \in Seq(C), NEW separator, NEW i \in Nat, i >= 1, i <= Len(s) + 1
    PROVE  LET w == Word(s, separator, i)
               end == i + Len(w)
           IN  /\ w \in Seq(C)
               /\ Len(w) \in Nat
               /\ end <= Len(s) + 1
               /\ \A j \in 1 .. Len(w) : w[j] = s[i + j - 1]
               /\ \A j \in i .. end - 1 : s[j] # separator
               /\ end <= Len(s) => s[end] = separator
               /\ (i <= Len(s) /\ s[i] # separator) => Len(w) >= 1
               /\ (i <= Len(s) => s[i] = separator) => Len(w) = 0
<1> DEFINE t == From(s, i)
           w == Word(s, separator, i)
           end == i + Len(w)
<1>0. Len(s) \in Nat
  BY SeqParts
<1>1. /\ t \in Seq(C) /\ Len(t) = Len(s) + 1 - i
      /\ \A k \in 1 .. Len(s) + 1 - i : t[k] = s[i + k - 1]
  BY FromParts
<1> HIDE DEF t
<1>2. w \in Seq(C) /\ IsBefore(w, t, {separator})
  <2>1. w = Before(t, {separator})
    BY DEF Word, t
  <2> QED BY <1>1, <2>1, BeforeParts
<1> HIDE DEF w
<1>3. /\ Len(w) \in Nat /\ Len(w) <= Len(s) + 1 - i
      /\ \A k \in 1 .. Len(w) : t[k] # separator
      /\ Len(w) < Len(s) + 1 - i => t[Len(w) + 1] = separator
  BY <1>1, <1>2 DEF IsBefore
<1>w. ASSUME NEW j \in 1 .. Len(w) PROVE w[j] = s[i + j - 1]
  <2>1. w[j] = t[j]
    BY <1>2 DEF IsBefore
  <2>2. j \in 1 .. Len(s) + 1 - i
    BY <1>0, <1>3
  <2> QED BY <1>1, <2>1, <2>2
<1>4. ASSUME NEW j \in i .. end - 1 PROVE s[j] # separator
  <2>1. j - i + 1 \in 1 .. Len(w) /\ j - i + 1 \in 1 .. Len(s) + 1 - i /\ i + (j - i + 1) - 1 = j
    BY <1>0, <1>3
  <2> QED BY <2>1, <1>1, <1>3
<1>5. end <= Len(s) => s[end] = separator
  <2> SUFFICES ASSUME end <= Len(s) PROVE s[end] = separator
    OBVIOUS
  <2>1. Len(w) + 1 \in 1 .. Len(s) + 1 - i /\ Len(w) < Len(s) + 1 - i /\ i + (Len(w) + 1) - 1 = end
    BY <1>0, <1>3
  <2> QED BY <2>1, <1>1, <1>3
<1>6. (i <= Len(s) /\ s[i] # separator) => Len(w) >= 1
  BY <1>3, <1>5
<1>7. (i <= Len(s) => s[i] = separator) => Len(w) = 0
  <2> SUFFICES ASSUME i <= Len(s) => s[i] = separator, Len(w) # 0 PROVE FALSE
    OBVIOUS
  <2>1. i \in i .. end - 1 /\ i <= Len(s)
    BY <1>0, <1>3
  <2> QED BY <2>1, <1>4
<1>8. end <= Len(s) + 1
  BY <1>0, <1>3
<1> QED BY <1>2, <1>3, <1>w, <1>4, <1>5, <1>6, <1>7, <1>8 DEF w

\* How Tokens goes through a text.
Tokenizes(f, s, separator, C) ==
    /\ \A i \in 1 .. Len(s) + 1 : f[i] \in Seq(Seq(C))
    /\ f[Len(s) + 1] = <<>>
    /\ \A i \in 1 .. Len(s) :
         f[i] = IF s[i] = separator THEN f[i + 1]
                ELSE <<Word(s, separator, i)>> \o f[i + Len(Word(s, separator, i))]

\* Tokens is what such a function gives at 1.
LEMMA TokensIs ==
    ASSUME NEW C, NEW s \in Seq(C), NEW separator
    PROVE  \E f : Tokenizes(f, s, separator, C) /\ Tokens(s, separator) = f[1]
<1> DEFINE n == Len(s) + 1
           Ends(i) == i + Len(Word(s, separator, i))
           head == [i \in 1 .. n |-> IF s[i] = separator THEN <<>> ELSE <<Word(s, separator, i)>>]
           next == [i \in 1 .. n |-> IF s[i] = separator THEN i + 1 ELSE Ends(i)]
           Eqn(f) == f = [i \in 1 .. Len(s) + 1 |->
                            IF i > Len(s) THEN <<>>
                            ELSE IF s[i] = separator THEN f[i + 1]
                            ELSE <<Word(s, separator, i)>> \o f[i + Len(Word(s, separator, i))]]
           c == CHOOSE f : Eqn(f)
<1>0. Len(s) \in Nat
  BY SeqParts
<1>1. ASSUME NEW i \in 1 .. n
      PROVE  /\ Word(s, separator, i) \in Seq(C)
             /\ Ends(i) \in Nat
             /\ i \notin {n} /\ s[i] # separator => Ends(i) \in i + 1 .. n
             /\ i > Len(s) <=> i = n
             /\ i # n => i + 1 \in i + 1 .. n
  <2>1. i \in Nat /\ i >= 1 /\ i <= Len(s) + 1
    BY <1>0
  <2> DEFINE w == Word(s, separator, i)
  <2>2. /\ w \in Seq(C) /\ Len(w) \in Nat /\ i + Len(w) <= Len(s) + 1
        /\ (i <= Len(s) /\ s[i] # separator) => Len(w) >= 1
    BY <2>1, WordParts
  <2> HIDE DEF w
  <2>3. /\ i + Len(w) \in Nat
        /\ (i # n /\ s[i] # separator) => i + Len(w) \in i + 1 .. n
        /\ i > Len(s) <=> i = n
        /\ i # n => i + 1 \in i + 1 .. n
    BY <1>0, <2>1, <2>2
  <2> QED BY <2>2, <2>3 DEF w
<1> HIDE DEF Ends
<1>2. Unrollable(n, Seq(C), {n}, head, next)
  <2>1. n \in Nat
    BY <1>0
  <2>2. head \in [1 .. n -> Seq(Seq(C))]
    <3>1. ASSUME NEW i \in 1 .. n
          PROVE  (IF s[i] = separator THEN <<>> ELSE <<Word(s, separator, i)>>) \in Seq(Seq(C))
      <4>1. Word(s, separator, i) \in Seq(C)
        BY <1>1
      <4>2. <<Word(s, separator, i)>> \in Seq(Seq(C)) /\ <<>> \in Seq(Seq(C))
        BY <4>1, EmptySeq
      <4> QED BY <4>2
    <3> HIDE DEF n
    <3> QED BY <3>1
  <2>3. ASSUME NEW i \in 1 .. n, i \notin {n} PROVE next[i] \in i + 1 .. n
    <3>1. next[i] = IF s[i] = separator THEN i + 1 ELSE Ends(i)
      OBVIOUS
    <3> HIDE DEF next, n
    <3> QED BY <1>1, <2>3, <3>1
  <2> HIDE DEF head, next, n
  <2> QED BY <2>1, <2>2, <2>3 DEF Unrollable
<1>3. PICK g : g \in [1 .. n -> Seq(Seq(C))] /\ Unrolls(g, n, {n}, head, next)
  <2> HIDE DEF n, head, next
  <2> QED BY <1>2, UnrollExists
<1>4. Eqn(g)
  <2>1. ASSUME NEW i \in 1 .. n
        PROVE  g[i] = IF i > Len(s) THEN <<>>
                      ELSE IF s[i] = separator THEN g[i + 1]
                      ELSE <<Word(s, separator, i)>> \o g[Ends(i)]
    <3>1. g[i] = IF i = n THEN <<>> ELSE head[i] \o g[next[i]]
      <4> HIDE DEF n, head, next
      <4> QED BY <1>3 DEF Unrolls
    <3>2. /\ head[i] = IF s[i] = separator THEN <<>> ELSE <<Word(s, separator, i)>>
          /\ next[i] = IF s[i] = separator THEN i + 1 ELSE Ends(i)
      OBVIOUS
    <3>3. i # n /\ s[i] = separator => <<>> \o g[i + 1] = g[i + 1]
      <4>1. i # n => i + 1 \in 1 .. n
        BY <1>0
      <4> HIDE DEF n
      <4>2. i # n => g[i + 1] \in Seq(Seq(C))
        BY <1>3, <4>1
      <4> QED BY <4>2, ConcatEmptySeq
    <3> HIDE DEF n, head, next
    <3> QED BY <3>1, <3>2, <3>3, <1>1
  <2>2. g = [i \in 1 .. n |-> g[i]]
    <3> HIDE DEF n, head, next
    <3> QED BY <1>3
  <2> HIDE DEF head, next
  <2> QED BY <2>1, <2>2 DEF Ends
<1>5. Eqn(c)
  <2> HIDE DEF Eqn
  <2> QED BY <1>4
<1>6. Tokens(s, separator) = c[1]
  BY DEF Tokens, Word
<1> HIDE DEF c
<1>7. \A i \in 1 .. n : c[i] = IF i > Len(s) THEN <<>>
                               ELSE IF s[i] = separator THEN c[i + 1]
                               ELSE <<Word(s, separator, i)>> \o c[Ends(i)]
  BY <1>5 DEF Ends
<1> HIDE DEF Eqn, head, next
<1> DEFINE Bad == {i \in 1 .. n : c[i] \notin Seq(Seq(C))}
<1>8. ASSUME Bad # {} PROVE FALSE
  <2>1. PICK m \in Bad : \A k \in Bad : k <= m
    <3>1. Bad \subseteq Nat /\ n \in Nat /\ \A k \in Bad : k <= n
      BY <1>0
    <3> HIDE DEF Bad, n
    <3> QED BY <1>8, <3>1, NatMax
  <2>2. m \in 1 .. n /\ c[m] \notin Seq(Seq(C))
    BY <2>1
  <2>3. ASSUME NEW k \in m + 1 .. n PROVE c[k] \in Seq(Seq(C))
    <3>1. k \in 1 .. n /\ ~(k <= m)
      BY <2>2, <1>0
    <3>2. k \notin Bad
      <4> HIDE DEF Bad, n
      <4> QED BY <2>1, <3>1
    <3> QED BY <3>1, <3>2
  <2>4. CASE m = n
    <3>1. c[m] = <<>>
      <4> HIDE DEF n
      <4> QED BY <1>1, <1>7, <2>2, <2>4
    <3> QED BY <2>2, <3>1, EmptySeq
  <2>5. CASE m # n /\ s[m] = separator
    <3>1. c[m] = c[m + 1] /\ m + 1 \in m + 1 .. n
      <4> HIDE DEF n
      <4> QED BY <1>1, <1>7, <2>2, <2>5
    <3> QED BY <2>2, <2>3, <3>1
  <2>6. CASE m # n /\ s[m] # separator
    <3>1. c[m] = <<Word(s, separator, m)>> \o c[Ends(m)] /\ Ends(m) \in m + 1 .. n
          /\ Word(s, separator, m) \in Seq(C)
      <4> HIDE DEF n
      <4> QED BY <1>1, <1>7, <2>2, <2>6
    <3> QED BY <2>2, <2>3, <3>1, ConsParts
  <2> QED BY <2>4, <2>5, <2>6
<1>9. Tokenizes(c, s, separator, C)
  <2>1. c[Len(s) + 1] = <<>>
    <3>1. n \in 1 .. n
      BY <1>0
    <3> QED BY <3>1, <1>1, <1>7
  <2>2. ASSUME NEW i \in 1 .. Len(s)
        PROVE  c[i] = IF s[i] = separator THEN c[i + 1]
                      ELSE <<Word(s, separator, i)>> \o c[Ends(i)]
    <3>1. i \in 1 .. n /\ ~(i > Len(s))
      BY <1>0
    <3> HIDE DEF n
    <3> QED BY <3>1, <1>7
  <2> QED BY <1>8, <2>1, <2>2 DEF Tokenizes, Ends
<1> QED BY <1>6, <1>9

\* Where a word starts that does not begin before i.
Starts(s, separator, i) ==
    {j \in i .. Len(s) : s[j] # separator /\ (j = i \/ s[j - 1] = separator)}

\* The tokens are the words that start at the beginning or behind a separator.
LEMMA TokensAreWords ==
    ASSUME NEW C, NEW s \in Seq(C), NEW separator
    PROVE  ToSet(Tokens(s, separator)) = {Word(s, separator, j) : j \in Starts(s, separator, 1)}
<1> DEFINE n == Len(s) + 1
           W(j) == Word(s, separator, j)
           St(i) == Starts(s, separator, i)
<1>0. Len(s) \in Nat
  BY SeqParts
<1>1. PICK f : Tokenizes(f, s, separator, C) /\ Tokens(s, separator) = f[1]
  BY TokensIs
<1>2. /\ \A i \in 1 .. n : f[i] \in Seq(Seq(C))
      /\ f[n] = <<>>
      /\ \A i \in 1 .. Len(s) : f[i] = IF s[i] = separator THEN f[i + 1]
                                       ELSE <<W(i)>> \o f[i + Len(W(i))]
  BY <1>1 DEF Tokenizes
<1>3. ASSUME NEW i \in 1 .. Len(s), s[i] = separator PROVE St(i) = St(i + 1)
  BY <1>0, <1>3 DEF Starts
<1>4. ASSUME NEW i \in 1 .. Len(s), s[i] # separator
      PROVE  /\ i + Len(W(i)) \in i + 1 .. n
             /\ St(i) = {i} \cup St(i + Len(W(i)))
             /\ W(i) \in Seq(C)
  <2> DEFINE e == i + Len(W(i))
  <2>1. /\ W(i) \in Seq(C) /\ Len(W(i)) \in Nat /\ e <= Len(s) + 1
        /\ \A j \in i .. e - 1 : s[j] # separator
        /\ e <= Len(s) => s[e] = separator
        /\ Len(W(i)) >= 1
    <3>1. i \in Nat /\ i >= 1 /\ i <= Len(s) + 1 /\ i <= Len(s)
      BY <1>0
    <3> QED BY <1>4, <3>1, WordParts
  <2>2. e \in i + 1 .. n
    <3> HIDE DEF W
    <3> QED BY <1>0, <2>1
  <2> HIDE DEF e
  <2>3. ASSUME NEW j \in St(i), j # i PROVE j \in St(e)
    <3>1. j \in i + 1 .. Len(s) /\ s[j] # separator /\ s[j - 1] = separator
      BY <1>0, <2>3 DEF Starts
    <3>2. j - 1 \in i .. Len(s) /\ ~(j - 1 \in i .. e - 1)
      BY <1>0, <2>1, <3>1
    <3>3. j \in e .. Len(s)
      BY <1>0, <2>2, <3>1, <3>2
    <3> QED BY <3>1, <3>3 DEF Starts
  <2>4. ASSUME NEW j \in St(e) PROVE j \in St(i)
    <3>1. j \in e .. Len(s) /\ s[j] # separator /\ (j = e \/ s[j - 1] = separator)
      BY DEF Starts
    <3>2. j # e
      BY <1>0, <2>1, <2>2, <3>1
    <3>3. j \in i .. Len(s)
      BY <1>0, <2>2, <3>1
    <3> QED BY <3>1, <3>2, <3>3 DEF Starts
  <2>5. i \in St(i)
    BY <1>0, <1>4 DEF Starts
  <2> HIDE DEF St, W
  <2>6. St(i) = {i} \cup St(e)
    BY <2>3, <2>4, <2>5
  <2> QED BY <2>1, <2>2, <2>6 DEF e
<1> DEFINE Bad == {i \in 1 .. n : ToSet(f[i]) # {W(j) : j \in St(i)}}
<1>5. ASSUME Bad # {} PROVE FALSE
  <2>1. PICK m \in Bad : \A k \in Bad : k <= m
    <3>1. Bad \subseteq Nat /\ n \in Nat /\ \A k \in Bad : k <= n
      BY <1>0
    <3> HIDE DEF Bad, n
    <3> QED BY <1>5, <3>1, NatMax
  <2>2. m \in 1 .. n /\ ToSet(f[m]) # {W(j) : j \in St(m)}
    BY <2>1
  <2>3. ASSUME NEW k \in m + 1 .. n PROVE ToSet(f[k]) = {W(j) : j \in St(k)}
    <3>1. k \in 1 .. n /\ ~(k <= m)
      BY <2>2, <1>0
    <3>2. k \notin Bad
      <4> HIDE DEF Bad, n
      <4> QED BY <2>1, <3>1
    <3> HIDE DEF St, W
    <3> QED BY <3>1, <3>2
  <2>4. CASE m = n
    <3>1. St(m) = {}
      BY <1>0, <2>4 DEF Starts
    <3>2. ToSet(f[m]) = {}
      BY <1>2, <2>4 DEF ToSet
    <3> HIDE DEF St, W
    <3> QED BY <2>2, <3>1, <3>2
  <2>5. CASE m # n /\ s[m] = separator
    <3>1. m \in 1 .. Len(s) /\ m + 1 \in m + 1 .. n
      BY <1>0, <2>2, <2>5
    <3>2. f[m] = f[m + 1]
      <4> HIDE DEF W
      <4> QED BY <1>2, <2>5, <3>1
    <3>3. St(m) = St(m + 1)
      BY <1>3, <2>5, <3>1
    <3>4. ToSet(f[m + 1]) = {W(j) : j \in St(m + 1)}
      BY <2>3, <3>1
    <3> HIDE DEF St, W, n, Bad
    <3> QED BY ONLY <2>2, <3>2, <3>3, <3>4, Zenon
  <2>6. CASE m # n /\ s[m] # separator
    <3> DEFINE e == m + Len(W(m))
    <3>1. m \in 1 .. Len(s)
      BY <1>0, <2>2, <2>6
    <3>2. e \in m + 1 .. n /\ St(m) = {m} \cup St(e) /\ W(m) \in Seq(C)
      BY <1>4, <2>6, <3>1
    <3>3. f[m] = <<W(m)>> \o f[e]
      <4> HIDE DEF W
      <4> QED BY <1>2, <2>6, <3>1
    <3> HIDE DEF e
    <3>4. ToSet(f[e]) = {W(j) : j \in St(e)} /\ f[e] \in Seq(Seq(C))
      <4>1. e \in 1 .. n
        BY <1>0, <2>2, <3>2
      <4> QED BY <1>2, <2>3, <3>2, <4>1
    <3> HIDE DEF W, St
    <3>5. ToSet(f[m]) = {W(m)} \cup ToSet(f[e])
      <4> DEFINE t == f[e]
                 b == f[m]
      <4> HIDE DEF t
      <4>1. /\ b \in Seq(Seq(C)) /\ Len(b) = Len(t) + 1 /\ b[1] = W(m)
            /\ \A k \in 1 .. Len(t) : b[k + 1] = t[k]
        BY <3>2, <3>3, <3>4, ConsParts DEF t
      <4>2. Len(t) \in Nat /\ DOMAIN t = 1 .. Len(t) /\ DOMAIN b = 1 .. Len(t) + 1
        BY <4>1, <3>4, SeqParts DEF t
      <4> HIDE DEF b
      <4>3. ASSUME NEW k \in 1 .. Len(t) + 1 PROVE b[k] \in {W(m)} \cup {t[j] : j \in 1 .. Len(t)}
        <5>1. k = 1 \/ (k - 1 \in 1 .. Len(t) /\ (k - 1) + 1 = k)
          BY <4>2
        <5> QED BY <4>1, <5>1
      <4>4. ASSUME NEW j \in 1 .. Len(t)
            PROVE  t[j] \in {b[k] : k \in 1 .. Len(t) + 1}
        <5>1. j + 1 \in 1 .. Len(t) + 1
          BY <4>2
        <5> QED BY <4>1, <5>1
      <4>5. W(m) \in {b[k] : k \in 1 .. Len(t) + 1}
        <5>1. 1 \in 1 .. Len(t) + 1
          BY <4>2
        <5> QED BY <4>1, <5>1
      <4>6. ToSet(b) = {b[k] : k \in 1 .. Len(t) + 1} /\ ToSet(t) = {t[j] : j \in 1 .. Len(t)}
        BY <4>2 DEF ToSet
      <4> QED BY <4>3, <4>4, <4>5, <4>6 DEF b, t
    <3>6. {W(j) : j \in St(m)} = {W(m)} \cup {W(j) : j \in St(e)}
      <4> HIDE DEF n, Bad
      <4> QED BY <3>2
    <3> HIDE DEF n, Bad
    <3> QED BY ONLY <2>2, <3>4, <3>5, <3>6, Zenon
  <2> QED BY <2>4, <2>5, <2>6
<1>6. 1 \in 1 .. n
  BY <1>0
<1>7. ToSet(f[1]) = {W(j) : j \in St(1)}
  <2> HIDE DEF St, W, n
  <2> QED BY <1>5, <1>6
<1> QED BY <1>1, <1>7

-----------------------------------------------------------------------------
(* A value that is encoded and decoded.                                    *)

\* Induction over the positions of a text, upwards and downwards, for the set
\* of the positions for which a claim holds.
LEMMA CountUp ==
    ASSUME NEW n \in Nat, NEW T, 0 \in T, \A i \in 1 .. n : i - 1 \in T => i \in T
    PROVE  \A i \in 0 .. n : i \in T
<1> DEFINE Bad == {i \in 0 .. n : i \notin T}
<1> SUFFICES ASSUME Bad # {} PROVE FALSE
  OBVIOUS
<1>1. PICK m \in Bad : \A k \in Bad : m <= k
  <2>1. Bad \subseteq Nat
    OBVIOUS
  <2> HIDE DEF Bad
  <2> QED BY <2>1, NatMin
<1>2. m \in 0 .. n /\ m \notin T
  BY <1>1
<1>3. m \in 1 .. n /\ m - 1 \in 0 .. n /\ ~(m <= m - 1)
  BY <1>2
<1>4. m - 1 \notin Bad
  <2> HIDE DEF Bad
  <2> QED BY <1>1, <1>3
<1> QED BY <1>2, <1>3, <1>4

\* From the last position down to 0.
LEMMA CountDown ==
    ASSUME NEW n \in Nat, NEW T, n \in T, \A i \in 1 .. n : i \in T => i - 1 \in T
    PROVE  \A i \in 0 .. n : i \in T
<1> DEFINE Bad == {i \in 0 .. n : i \notin T}
<1> SUFFICES ASSUME Bad # {} PROVE FALSE
  OBVIOUS
<1>1. PICK m \in Bad : \A k \in Bad : k <= m
  <2>1. Bad \subseteq Nat /\ \A k \in Bad : k <= n
    OBVIOUS
  <2> HIDE DEF Bad
  <2> QED BY <2>1, NatMax
<1>2. m \in 0 .. n /\ m \notin T
  BY <1>1
<1>3. m + 1 \in 1 .. n /\ m + 1 \in 0 .. n /\ (m + 1) - 1 = m /\ ~(m + 1 <= m)
  BY <1>2
<1>4. m + 1 \notin Bad
  <2> HIDE DEF Bad
  <2> QED BY <1>1, <1>3
<1> QED BY <1>2, <1>3, <1>4

\* part stands in whole behind the position at.
Stands(whole, at, part) == \A j \in 1 .. Len(part) : whole[at + j] = part[j]

\* What f has put together in i steps it keeps in its place.
LEMMA FlattenedParts ==
    ASSUME NEW S, NEW seqs \in Seq(Seq(S)), NEW f, Flattens(f, seqs, S), NEW i \in 1 .. Len(seqs)
    PROVE  /\ f[i] \in Seq(S) /\ f[i - 1] \in Seq(S) /\ seqs[i] \in Seq(S)
           /\ Len(f[i]) = Len(f[i - 1]) + Len(seqs[i])
           /\ \A m \in i .. Len(seqs) :
                /\ Len(f[i]) <= Len(f[m])
                /\ Stands(f[m], Len(f[i - 1]), seqs[i])
<1> DEFINE n == Len(seqs)
           L == [k \in 0 .. n |-> Len(f[k])]
           M == [k \in 1 .. n |-> Len(seqs[k])]
           Kept(m) == /\ L[i] <= L[m]
                      /\ \A j \in 1 .. M[i] : f[m][L[i - 1] + j] = seqs[i][j]
           T == {m \in 0 .. n : m >= i => Kept(m)}
<1>0. n \in Nat /\ \A k \in 1 .. n : seqs[k] \in Seq(S)
  BY SeqParts
<1>n. n \in Nat
  BY <1>0
<1>i. i \in 1 .. n
  OBVIOUS
<1>L. \A k \in 0 .. n : L[k] = Len(f[k])
  OBVIOUS
<1>M. \A k \in 1 .. n : M[k] = Len(seqs[k])
  OBVIOUS
<1> HIDE DEF L, M
<1>1. ASSUME NEW k \in 1 .. n
      PROVE  /\ k - 1 \in 0 .. n /\ k \in 0 .. n
             /\ f[k] \in Seq(S) /\ f[k - 1] \in Seq(S) /\ seqs[k] \in Seq(S)
             /\ L[k] \in Nat /\ L[k - 1] \in Nat /\ M[k] \in Nat
             /\ L[k] = L[k - 1] + M[k]
             /\ \A x \in 1 .. L[k - 1] + M[k] :
                  f[k][x] = IF x <= L[k - 1] THEN f[k - 1][x] ELSE seqs[k][x - L[k - 1]]
  <2>1. k - 1 \in 0 .. n /\ k \in 0 .. n
    BY <1>0
  <2>2. f[k] \in Seq(S) /\ f[k - 1] \in Seq(S) /\ f[k] = f[k - 1] \o seqs[k]
    BY <2>1 DEF Flattens
  <2>3. seqs[k] \in Seq(S)
    BY <1>0
  <2> HIDE DEF n
  <2>4. IsConcat(f[k], f[k - 1], seqs[k])
    BY <2>2, <2>3, ConcatParts
  <2>5. Len(f[k]) \in Nat /\ Len(f[k - 1]) \in Nat /\ Len(seqs[k]) \in Nat
    BY <2>2, <2>3, SeqParts
  <2>6. L[k] = Len(f[k]) /\ L[k - 1] = Len(f[k - 1]) /\ M[k] = Len(seqs[k])
    BY <1>L, <1>M, <2>1
  <2> QED BY <2>1, <2>2, <2>3, <2>4, <2>5, <2>6 DEF IsConcat
<1> HIDE DEF n
<1>3. Kept(i)
  <2> DEFINE a == L[i - 1]
  <2>1. /\ a \in Nat /\ M[i] \in Nat /\ L[i] \in Nat
        /\ \A x \in 1 .. a + M[i] : f[i][x] = IF x <= a THEN f[i - 1][x] ELSE seqs[i][x - a]
    BY <1>1, <1>i
  <2> HIDE DEF a
  <2>2. ASSUME NEW j \in 1 .. M[i] PROVE f[i][a + j] = seqs[i][j]
    <3> DEFINE x == a + j
    <3>1. a \in Nat /\ M[i] \in Nat
      BY <2>1
    <3>2. x \in 1 .. a + M[i] /\ ~(x <= a) /\ x - a = j
      BY <3>1
    <3> HIDE DEF x
    <3>3. f[i][x] = IF x <= a THEN f[i - 1][x] ELSE seqs[i][x - a]
      BY <2>1, <3>2
    <3>4. f[i][x] = seqs[i][j]
      BY <3>2, <3>3, Zenon
    <3> QED BY <3>4 DEF x
  <2> QED BY <2>1, <2>2 DEF a
<1>4. ASSUME NEW m \in 1 .. n, m - 1 \in T PROVE m \in T
  <2> SUFFICES ASSUME m >= i PROVE Kept(m)
    BY <1>n
  <2>1. CASE m = i
    BY <1>3, <2>1
  <2>2. CASE m # i
    <3> DEFINE a == L[i - 1]
    <3>1. m - 1 >= i
      BY <2>2, <1>n, <1>i
    <3>2. L[i] <= L[m - 1] /\ \A j \in 1 .. M[i] : f[m - 1][a + j] = seqs[i][j]
      BY <1>4, <3>1
    <3>3. L[i] \in Nat /\ a \in Nat /\ M[i] \in Nat /\ L[i] = a + M[i]
      BY <1>1, <1>i
    <3>4. /\ L[m] \in Nat /\ L[m - 1] \in Nat /\ M[m] \in Nat
          /\ L[m] = L[m - 1] + M[m]
          /\ \A x \in 1 .. L[m - 1] + M[m] :
                f[m][x] = IF x <= L[m - 1] THEN f[m - 1][x] ELSE seqs[m][x - L[m - 1]]
      BY <1>1
    <3> HIDE DEF a, Kept, T
    <3>6. ASSUME NEW j \in 1 .. M[i] PROVE f[m][a + j] = seqs[i][j]
      <4>1. L[i] <= L[m - 1] /\ L[m - 1] \in Nat /\ M[m] \in Nat
        BY <3>2, <3>4
      <4>2. a + j \in 1 .. L[m - 1] + M[m] /\ a + j <= L[m - 1]
        <5> DEFINE b == L[m - 1]
                   c == L[i]
                   d == M[i]
                   e == M[m]
        <5>1. a \in Nat /\ b \in Nat /\ d \in Nat /\ e \in Nat /\ c = a + d /\ c <= b
          BY <3>3, <4>1, Zenon
        <5>2. j \in 1 .. d
          OBVIOUS
        <5> HIDE DEF b, c, d, e
        <5>3. a + j \in 1 .. b + e /\ a + j <= b
          BY ONLY <5>1, <5>2
        <5> QED BY <5>3 DEF b, e
      <4>3. f[m][a + j]
              = IF a + j <= L[m - 1] THEN f[m - 1][a + j] ELSE seqs[m][a + j - L[m - 1]]
        BY <3>4, <4>2, Zenon
      <4>4. f[m][a + j] = f[m - 1][a + j]
        BY <4>2, <4>3, Zenon
      <4> QED BY <3>2, <4>4, Zenon
    <3>7. L[i] <= L[m]
      <4> DEFINE b == L[m - 1]
                 c == L[i]
                 e == M[m]
                 g == L[m]
      <4>1. b \in Nat /\ c \in Nat /\ e \in Nat /\ g = b + e /\ c <= b
        BY <3>2, <3>3, <3>4, Zenon
      <4> HIDE DEF b, c, e, g
      <4>2. c <= g
        BY ONLY <4>1
      <4> QED BY <4>2 DEF c, g
    <3> QED BY <3>6, <3>7 DEF a, Kept
  <2> QED BY <2>1, <2>2
<1>5. 0 \in T
  BY <1>n, <1>i
<1>6. \A m \in 0 .. n : m \in T
  <2> HIDE DEF T
  <2> QED BY <1>n, <1>4, <1>5, CountUp
<1>7. ASSUME NEW m \in i .. n
      PROVE  /\ Len(f[i]) <= Len(f[m])
             /\ Stands(f[m], Len(f[i - 1]), seqs[i])
  <2>1. m \in 0 .. n /\ m >= i /\ i \in 0 .. n /\ i - 1 \in 0 .. n
    BY <1>n, <1>i
  <2>2. Kept(m)
    <3> HIDE DEF Kept
    <3> QED BY <1>6, <2>1
  <2>3. L[m] = Len(f[m]) /\ L[i] = Len(f[i]) /\ L[i - 1] = Len(f[i - 1]) /\ M[i] = Len(seqs[i])
    BY <1>L, <1>M, <1>i, <2>1
  <2> QED BY <2>2, <2>3 DEF Stands
<1>8. Len(f[i]) = Len(f[i - 1]) + Len(seqs[i])
  <2>1. i \in 0 .. n /\ i - 1 \in 0 .. n
    BY <1>n, <1>i
  <2>2. L[i] = Len(f[i]) /\ L[i - 1] = Len(f[i - 1]) /\ M[i] = Len(seqs[i])
    BY <1>L, <1>M, <1>i, <2>1
  <2>3. L[i] = L[i - 1] + M[i]
    BY <1>1, <1>i
  <2> QED BY <2>2, <2>3
<1> QED BY <1>1, <1>7, <1>8 DEF n

\* The characters of a code.
CodeChars == Unreserved \cup {Percent, Plus}

\* The digits of a byte, and their values.
LEMMA DigitParts ==
    ASSUME NEW d \in 0 .. 15
    PROVE  /\ HexDigits[d] \in Unreserved
           /\ HexValue(HexDigits[d]) = d
<1>1. HexDigits[d] = IF d < 10 THEN 48 + d ELSE 87 + d
  BY DEF HexDigits
<1>2. CASE d < 10
  <2> DEFINE c == 48 + d
  <2>1. c \in 48 .. 57 /\ c - 48 = d
    BY <1>2
  <2>2. HexDigits[d] = c
    BY <1>1, <1>2
  <2> HIDE DEF c
  <2> QED BY <2>1, <2>2 DEF HexValue, Unreserved
<1>3. CASE ~(d < 10)
  <2> DEFINE c == 87 + d
  <2>1. c \in 97 .. 102 /\ c - 87 = d /\ c \in 97 .. 122 /\ c \notin 48 .. 57
    BY <1>3
  <2>2. HexDigits[d] = c
    BY <1>1, <1>3
  <2> HIDE DEF c
  <2> QED BY <2>1, <2>2 DEF HexValue, Unreserved
<1> QED BY <1>2, <1>3

\* The code of a character: at least one of these characters, and at least half
\* as many as its piece has.
LEMMA EncodedParts ==
    ASSUME NEW c \in Chars
    PROVE  /\ Encoded(c) \in Seq(CodeChars)
           /\ Len(Encoded(c)) >= 1
           /\ Len(Piece(c)) <= 2 * Len(Encoded(c))
           /\ \/ c \in Unreserved /\ Len(Encoded(c)) = 1 /\ Encoded(c)[1] = c
              \/ c = Space /\ Len(Encoded(c)) = 1 /\ Encoded(c)[1] = Plus
              \/ /\ Len(Encoded(c)) = 3 /\ Encoded(c)[1] = Percent
                 /\ Encoded(c)[2] = HexDigits[c \div 16]
                 /\ Encoded(c)[3] = HexDigits[c % 16]
<1>0. c \in Bytes
  BY DEF Chars, Bytes
<1>1. Len(Piece(c)) \in 1 .. 6
  BY <1>0, PieceParts
<1>2. c \notin Markup => Piece(c) = <<c>>
  BY DEF Piece
<1>3. Markup \cap Unreserved = {} /\ Space \notin Markup
  BY DEF Markup, Unreserved, Ampersand, Quote, Apostrophe, Less, Greater, Space, Hyphen,
         Underscore, Dot, Tilde
<1>4. CASE c \in Unreserved
  <2>1. Encoded(c) = <<c>>
    BY <1>4 DEF Encoded
  <2>2. Piece(c) = <<c>>
    BY <1>2, <1>3, <1>4
  <2>3. c \in CodeChars
    BY <1>4 DEF CodeChars
  <2> QED BY <1>4, <2>1, <2>2, <2>3
<1>5. CASE c \notin Unreserved /\ c = Space
  <2>1. Encoded(c) = <<Plus>>
    BY <1>5 DEF Encoded
  <2>2. Piece(c) = <<c>>
    BY <1>2, <1>3, <1>5
  <2>3. Plus \in CodeChars
    BY DEF CodeChars
  <2> QED BY <1>5, <2>1, <2>2, <2>3
<1>6. CASE c \notin Unreserved /\ c # Space
  <2> DEFINE high == HexDigits[c \div 16]
             low == HexDigits[c % 16]
  <2>1. Encoded(c) = <<Percent, high, low>>
    BY <1>6 DEF Encoded
  <2>2. c \div 16 \in 0 .. 15 /\ c % 16 \in 0 .. 15
    BY DEF Chars
  <2>3. high \in CodeChars /\ low \in CodeChars /\ Percent \in CodeChars
    BY <2>2, DigitParts DEF CodeChars
  <2> HIDE DEF high, low
  <2>4. /\ Encoded(c) \in Seq(CodeChars) /\ Len(Encoded(c)) = 3 /\ Encoded(c)[1] = Percent
        /\ Encoded(c)[2] = high /\ Encoded(c)[3] = low
    BY <2>1, <2>3
  <2>5. Len(Piece(c)) <= 2 * Len(Encoded(c))
    <3> DEFINE k == Len(Piece(c))
    <3>1. k \in 1 .. 6
      BY <1>1
    <3> HIDE DEF k
    <3>2. k <= 2 * 3
      BY <3>1
    <3> QED BY <2>4, <3>2 DEF k
  <2> QED BY <2>4, <2>5 DEF high, low
<1> QED BY <1>4, <1>5, <1>6

\* The codes of the characters of a text, and their pieces.
Codes(s) == [i \in DOMAIN s |-> Encoded(s[i])]
Pieces(s) == [i \in DOMAIN s |-> Piece(s[i])]

\* There is one code and one piece for each character.
LEMMA CodesArePieces ==
    ASSUME NEW s \in Seq(Chars)
    PROVE  /\ Codes(s) \in Seq(Seq(CodeChars)) /\ Len(Codes(s)) = Len(s)
           /\ Pieces(s) \in Seq(Seq(Bytes)) /\ Len(Pieces(s)) = Len(s)
           /\ \A i \in 1 .. Len(s) : Codes(s)[i] = Encoded(s[i]) /\ Pieces(s)[i] = Piece(s[i])
<1> DEFINE n == Len(s)
<1>0. n \in Nat /\ DOMAIN s = 1 .. n /\ \A i \in 1 .. n : s[i] \in Chars /\ s[i] \in Bytes
  BY SeqParts DEF Chars, Bytes
<1>1. \A i \in 1 .. n : Encoded(s[i]) \in Seq(CodeChars) /\ Piece(s[i]) \in Seq(Bytes)
  BY <1>0, EncodedParts, PieceParts
<1>2. /\ Codes(s) = [i \in 1 .. n |-> Encoded(s[i])]
      /\ Pieces(s) = [i \in 1 .. n |-> Piece(s[i])]
  BY <1>0 DEF Codes, Pieces
<1> HIDE DEF n
<1>3. Codes(s) \in [1 .. n -> Seq(CodeChars)] /\ Pieces(s) \in [1 .. n -> Seq(Bytes)]
  BY <1>1, <1>2
<1>4. Codes(s) \in Seq(Seq(CodeChars)) /\ Pieces(s) \in Seq(Seq(Bytes))
  BY <1>0, <1>3, SeqDef
<1>5. Len(Codes(s)) = n /\ Len(Pieces(s)) = n
  BY <1>0, <1>3, <1>4, LenProperties
<1> QED BY <1>2, <1>4, <1>5 DEF n

\* urldecode reads back, at p, the character whose code stands there.
LEMMA DecodesCode ==
    ASSUME NEW code \in Seq(Bytes), NEW d,
           Unrolls(d, Len(code) + 1, ValueStop(code), ValueHead(code), ValueNext(code)),
           NEW c \in Chars, NEW at \in Nat,
           at + Len(Encoded(c)) <= Len(code), Stands(code, at, Encoded(c))
    PROVE  d[at + 1] = <<c>> \o d[at + Len(Encoded(c)) + 1]
<1> DEFINE n == Len(code)
           size == Len(Encoded(c))
           p == at + 1
<1>0. n \in Nat
  BY SeqParts
<1>1. size = 1 \/ size = 3
  BY EncodedParts
<1> HIDE DEF n, size
<1>2. p + size <= n + 1 /\ p \in Nat /\ p >= 1 /\ p - 1 = at
  BY <1>0, <1>1 DEF n, size
<1>s. size = Len(Encoded(c)) /\ Stands(code, p - 1, Encoded(c))
  BY <1>2, Zenon DEF size
<1>e. d[at + Len(Encoded(c)) + 1] = d[p + size]
  <2>1. at + size + 1 = p + size
    BY <1>1
  <2> QED BY <2>1, Zenon DEF size
<1> SUFFICES d[p] = <<c>> \o d[p + size]
  BY <1>e, Zenon
<1> HIDE DEF p
<1>3. p \in 1 .. n /\ p \in 1 .. n + 1 /\ p # n + 1
  BY <1>0, <1>1, <1>2
<1>4. code[p] = Encoded(c)[1]
  <2>1. 1 \in 1 .. size /\ (p - 1) + 1 = p
    BY <1>1, <1>2
  <2> QED BY <2>1, <1>s DEF Stands
<1>5. d[p] = IF p \in ValueStop(code) THEN <<>> ELSE ValueHead(code)[p] \o d[ValueNext(code)[p]]
  BY <1>3 DEF Unrolls, n
<1>6. /\ ValueHead(code)[p] = IF p \in ValueStop(code) THEN <<>>
                              ELSE IF code[p] = Plus THEN <<Space>>
                              ELSE IF code[p] # Percent THEN <<code[p]>> ELSE <<Escaped(code, p)>>
      /\ ValueNext(code)[p] = IF code[p] = Percent THEN p + 3 ELSE p + 1
  BY <1>3 DEF ValueHead, ValueNext, n
<1>7. p \in ValueStop(code) => code[p] = Percent /\ ~EscapeAt(code, p)
  BY <1>3 DEF ValueStop, n
<1>8. Plus # Percent /\ Plus \notin Unreserved /\ Percent \notin Unreserved
  BY DEF Plus, Percent, Unreserved, Hyphen, Underscore, Dot, Tilde
<1>9. CASE c \in Unreserved /\ Len(Encoded(c)) = 1 /\ Encoded(c)[1] = c
  <2>1. code[p] = c /\ c # Plus /\ c # Percent /\ size = 1
    BY <1>4, <1>8, <1>9, <1>s
  <2>2. p \notin ValueStop(code)
    BY <1>7, <2>1
  <2>3. ValueHead(code)[p] = <<c>> /\ ValueNext(code)[p] = p + size
    BY <1>6, <2>1, <2>2
  <2> QED BY <1>5, <2>2, <2>3, Zenon
<1>10. CASE c = Space /\ Len(Encoded(c)) = 1 /\ Encoded(c)[1] = Plus
  <2>1. code[p] = Plus /\ code[p] # Percent /\ size = 1
    BY <1>4, <1>8, <1>10, <1>s
  <2>2. p \notin ValueStop(code)
    BY <1>7, <2>1
  <2>3. ValueHead(code)[p] = <<c>> /\ ValueNext(code)[p] = p + size
    BY <1>6, <1>10, <2>1, <2>2
  <2> QED BY <1>5, <2>2, <2>3, Zenon
<1>11. CASE /\ Len(Encoded(c)) = 3 /\ Encoded(c)[1] = Percent
            /\ Encoded(c)[2] = HexDigits[c \div 16]
            /\ Encoded(c)[3] = HexDigits[c % 16]
  <2>1. code[p] = Percent /\ size = 3 /\ code[p] # Plus
    BY <1>4, <1>8, <1>11, <1>s
  <2>2. /\ code[p + 1] = HexDigits[c \div 16]
        /\ code[p + 2] = HexDigits[c % 16]
    <3>1. 2 \in 1 .. size /\ 3 \in 1 .. size /\ (p - 1) + 2 = p + 1 /\ (p - 1) + 3 = p + 2
      BY <1>2, <2>1
    <3> QED BY <1>11, <1>s, <3>1 DEF Stands
  <2> DEFINE high == c \div 16
             low == c % 16
  <2>3. high \in 0 .. 15 /\ low \in 0 .. 15 /\ 16 * high + low = c
    <3>1. c \in Nat /\ c <= 255
      BY DEF Chars
    <3> QED BY ONLY <3>1
  <2> HIDE DEF high, low
  <2>4. HexValue(code[p + 1]) = high /\ HexValue(code[p + 2]) = low
    BY <2>2, <2>3, DigitParts, Zenon DEF high, low
  <2>5. EscapeAt(code, p)
    <3>1. p + 2 <= n
      BY <1>0, <1>2, <2>1
    <3>2. HexValue(code[p + 1]) >= 0 /\ HexValue(code[p + 2]) >= 0
      BY <2>3, <2>4
    <3> QED BY <2>1, <3>1, <3>2 DEF EscapeAt, n
  <2>6. Escaped(code, p) = c
    BY <2>3, <2>4 DEF Escaped
  <2>7. p \notin ValueStop(code)
    BY <1>7, <2>5
  <2>8. ValueHead(code)[p] = <<c>> /\ ValueNext(code)[p] = p + size
    BY <1>6, <2>1, <2>6, <2>7
  <2> QED BY <1>5, <2>7, <2>8, Zenon
<1> QED BY <1>9, <1>10, <1>11, EncodedParts

\* How the code of a text, and its pieces, are put together.
LEMMA CodeParts ==
    ASSUME NEW s \in Seq(Chars)
    PROVE  \E f, g :
             /\ Flattens(f, Codes(s), CodeChars) /\ url_encode(s) = f[Len(s)]
             /\ Flattens(g, Pieces(s), Bytes) /\ FlattenSeq(Pieces(s)) = g[Len(s)]
             /\ \A k \in 0 .. Len(s) :
                  /\ f[k] \in Seq(CodeChars) /\ g[k] \in Seq(Bytes)
                  /\ k <= Len(f[k]) /\ Len(g[k]) <= 2 * Len(f[k])
                  /\ Len(f[k]) <= Len(f[Len(s)])
<1> DEFINE n == Len(s)
<1>0. n \in Nat /\ \A i \in 1 .. n : s[i] \in Chars
  BY SeqParts
<1>1. /\ Codes(s) \in Seq(Seq(CodeChars)) /\ Len(Codes(s)) = n
      /\ Pieces(s) \in Seq(Seq(Bytes)) /\ Len(Pieces(s)) = n
      /\ \A i \in 1 .. n : Codes(s)[i] = Encoded(s[i]) /\ Pieces(s)[i] = Piece(s[i])
  BY CodesArePieces
<1>2. PICK f : Flattens(f, Codes(s), CodeChars) /\ FlattenSeq(Codes(s)) = f[n]
  BY <1>1, FlattenSeqIs
<1>3. PICK g : Flattens(g, Pieces(s), Bytes) /\ FlattenSeq(Pieces(s)) = g[n]
  BY <1>1, FlattenSeqIs
<1>4. url_encode(s) = f[n]
  BY <1>2 DEF url_encode, Codes
<1>5. ASSUME NEW k \in 0 .. n
      PROVE  f[k] \in Seq(CodeChars) /\ g[k] \in Seq(Bytes)
  BY <1>1, <1>2, <1>3 DEF Flattens
<1>6. f[0] = <<>> /\ g[0] = <<>>
  BY <1>2, <1>3 DEF Flattens
<1> HIDE DEF n
<1> DEFINE L == [k \in 0 .. n |-> Len(f[k])]
           M == [k \in 0 .. n |-> Len(g[k])]
           T == {k \in 0 .. n : k <= L[k] /\ M[k] <= 2 * L[k]}
<1>n. n \in Nat
  BY <1>0
<1>L. \A k \in 0 .. n : L[k] = Len(f[k]) /\ M[k] = Len(g[k]) /\ L[k] \in Nat /\ M[k] \in Nat
  <2>1. \A k \in 0 .. n : L[k] = Len(f[k]) /\ M[k] = Len(g[k])
    OBVIOUS
  <2>2. \A k \in 0 .. n : Len(f[k]) \in Nat /\ Len(g[k]) \in Nat
    BY <1>5, SeqParts
  <2> HIDE DEF L, M
  <2> QED BY <2>1, <2>2, Zenon
<1> HIDE DEF L, M
<1>7. ASSUME NEW k \in 1 .. n
      PROVE  \E a, b \in Nat : /\ a >= 1 /\ b <= 2 * a
                               /\ L[k] = L[k - 1] + a /\ M[k] = M[k - 1] + b
                               /\ k - 1 \in 0 .. n /\ k \in 0 .. n
  <2>1. k - 1 \in 0 .. n /\ k \in 0 .. n
    BY <1>n
  <2>2. s[k] \in Chars /\ s[k] \in Bytes
    <3>1. s[k] \in Chars
      BY <1>0
    <3> QED BY <3>1 DEF Chars, Bytes
  <2> DEFINE a == Len(Encoded(s[k]))
             b == Len(Piece(s[k]))
  <2>3. a >= 1 /\ b <= 2 * a /\ Encoded(s[k]) \in Seq(CodeChars)
    BY <2>2, EncodedParts
  <2>4. a \in Nat /\ b \in Nat
    BY <2>2, <2>3, PieceParts, SeqParts
  <2>5. Len(f[k]) = Len(f[k - 1]) + a
    <3>1. k \in 1 .. Len(Codes(s)) /\ Codes(s)[k] = Encoded(s[k])
      BY <1>1, Zenon
    <3>2. f[k] = f[k - 1] \o Encoded(s[k])
      BY <1>2, <3>1, Zenon DEF Flattens
    <3>3. f[k - 1] \in Seq(CodeChars) /\ Encoded(s[k]) \in Seq(CodeChars)
      BY <1>5, <2>1, <2>2, <2>3, PieceParts
    <3> QED BY <3>2, <3>3, ConcatProperties
  <2>6. Len(g[k]) = Len(g[k - 1]) + b
    <3>1. k \in 1 .. Len(Pieces(s)) /\ Pieces(s)[k] = Piece(s[k])
      BY <1>1, Zenon
    <3>2. g[k] = g[k - 1] \o Piece(s[k])
      BY <1>3, <3>1, Zenon DEF Flattens
    <3>3. g[k - 1] \in Seq(Bytes) /\ Piece(s[k]) \in Seq(Bytes)
      BY <1>5, <2>1, <2>2, <2>3, PieceParts
    <3> QED BY <3>2, <3>3, ConcatProperties
  <2> HIDE DEF a, b
  <2>7. L[k] = L[k - 1] + a /\ M[k] = M[k - 1] + b
    BY <1>L, <2>1, <2>5, <2>6, Zenon
  <2> QED BY <2>1, <2>3, <2>4, <2>7
<1>8. 0 \in T
  <2>1. 0 \in 0 .. n
    BY <1>n
  <2>2. L[0] = 0 /\ M[0] = 0
    <3>1. Len(f[0]) = 0 /\ Len(g[0]) = 0
      BY <1>6, EmptySeq
    <3> QED BY <1>L, <2>1, <3>1, Zenon
  <2> QED BY <2>1, <2>2
<1>9. ASSUME NEW k \in 1 .. n, k - 1 \in T PROVE k \in T
  <2>1. PICK a, b \in Nat : /\ a >= 1 /\ b <= 2 * a
                            /\ L[k] = L[k - 1] + a /\ M[k] = M[k - 1] + b
                            /\ k - 1 \in 0 .. n /\ k \in 0 .. n
    BY <1>7
  <2>2. /\ k - 1 <= L[k - 1] /\ M[k - 1] <= 2 * L[k - 1]
        /\ L[k - 1] \in Nat /\ M[k - 1] \in Nat /\ L[k] \in Nat /\ M[k] \in Nat
    BY <1>9, <1>L, <2>1
  <2>3. k <= L[k] /\ M[k] <= 2 * L[k]
    BY <2>1, <2>2
  <2> QED BY <2>1, <2>3
<1>10. \A k \in 0 .. n : k \in T
  <2> HIDE DEF T
  <2> QED BY <1>n, <1>8, <1>9, CountUp
<1>11. ASSUME NEW k \in 0 .. n PROVE L[k] <= L[n]
  <2>1. CASE k = 0
    <3>1. L[0] = 0
      <4>1. Len(f[0]) = 0 /\ 0 \in 0 .. n
        BY <1>6, <1>n, EmptySeq
      <4> QED BY <1>L, <4>1, Zenon
    <3>2. L[n] \in Nat
      BY <1>L, <1>n
    <3> QED BY <2>1, <3>1, <3>2
  <2>2. CASE k # 0
    <3>1. k \in 1 .. n /\ n \in k .. n /\ n \in 0 .. n
      BY <2>2, <1>n
    <3>2. Len(f[k]) <= Len(f[n])
      BY <1>1, <1>2, <3>1, FlattenedParts
    <3> QED BY <1>L, <3>1, <3>2, Zenon
  <2> QED BY <2>1, <2>2
<1>12. ASSUME NEW k \in 0 .. n
       PROVE  k <= Len(f[k]) /\ Len(g[k]) <= 2 * Len(f[k]) /\ Len(f[k]) <= Len(f[n])
  <2>1. k <= L[k] /\ M[k] <= 2 * L[k] /\ n \in 0 .. n
    BY <1>10, <1>n
  <2>2. L[k] = Len(f[k]) /\ M[k] = Len(g[k]) /\ L[n] = Len(f[n])
    BY <1>L, <2>1
  <2> QED BY <1>11, <2>1, <2>2, Zenon
<1> QED BY <1>2, <1>3, <1>4, <1>5, <1>12 DEF n

\* What urldecode reads from the code of a text is the text.
LEMMA CodeIsDecoded ==
    ASSUME NEW s \in Seq(Chars)
    PROVE  urldecode(url_encode(s), Len(url_encode(s))) = s
<1> DEFINE n == Len(s)
           code == url_encode(s)
<1>n. n \in Nat /\ \A i \in 1 .. n : s[i] \in Chars
  BY SeqParts
<1>1. PICK f :
        /\ Flattens(f, Codes(s), CodeChars) /\ code = f[n]
        /\ \A k \in 0 .. n : f[k] \in Seq(CodeChars) /\ k <= Len(f[k]) /\ Len(f[k]) <= Len(f[n])
  BY CodeParts
<1>2. /\ Codes(s) \in Seq(Seq(CodeChars)) /\ Len(Codes(s)) = n
      /\ \A i \in 1 .. n : Codes(s)[i] = Encoded(s[i])
  BY CodesArePieces
<1> HIDE DEF code, n
<1>3. code \in Seq(Bytes) /\ Len(code) \in Nat /\ n <= Len(code)
  <2>1. code \in Seq(CodeChars) /\ n <= Len(code)
    <3>1. n \in 0 .. n
      BY <1>n
    <3> QED BY <1>1, <3>1
  <2>2. CodeChars \subseteq Bytes
    BY DEF CodeChars, Bytes, Unreserved, Percent, Plus, Hyphen, Underscore, Dot, Tilde
  <2>3. code \in Seq(Bytes)
    BY <2>1, <2>2, SeqMonotonic
  <2>4. Len(code) \in Nat
    BY <2>3, SeqParts
  <2> QED BY <2>1, <2>3, <2>4
<1>4. PICK d :
        /\ \A i \in 1 .. Len(code) + 1 : d[i] \in Seq(Bytes)
        /\ Unrolls(d, Len(code) + 1, ValueStop(code), ValueHead(code), ValueNext(code))
        /\ urldecode(code, Len(code)) = SubSeq(d[1], 1, Min({Len(d[1]), Len(code)}))
  BY <1>3, UrldecodeIs
<1> DEFINE L == [k \in 0 .. n |-> Len(f[k])]
           T == {k \in 0 .. n : d[L[k] + 1] = From(s, k + 1)}
<1>L. \A k \in 0 .. n : L[k] = Len(f[k]) /\ L[k] \in Nat /\ L[k] <= Len(code)
  <2>1. \A k \in 0 .. n : L[k] = Len(f[k])
    OBVIOUS
  <2>2. \A k \in 0 .. n : Len(f[k]) \in Nat /\ Len(f[k]) <= Len(code)
    BY <1>1, SeqParts
  <2> HIDE DEF L
  <2> QED BY <2>1, <2>2, Zenon
<1> HIDE DEF L
<1>5. n \in T
  <2>1. n \in 0 .. n
    BY <1>n
  <2>2. L[n] = Len(code)
    BY <1>1, <1>L, <2>1, Zenon
  <2>3. d[Len(code) + 1] = <<>>
    <3>1. Len(code) + 1 \in 1 .. Len(code) + 1 /\ Len(code) + 1 \in ValueStop(code)
      BY <1>3 DEF ValueStop
    <3> QED BY <1>4, <3>1 DEF Unrolls
  <2>4. From(s, n + 1) = <<>>
    <3>1. n + 1 \in Nat /\ n + 1 >= 1 /\ n + 1 <= n + 1
      BY <1>n
    <3>2. From(s, n + 1) \in Seq(Chars) /\ Len(From(s, n + 1)) = n + 1 - (n + 1)
      BY <3>1, FromParts DEF n
    <3>3. n + 1 - (n + 1) = 0
      BY <1>n
    <3> QED BY <3>2, <3>3, EmptySeq
  <2> QED BY <2>1, <2>2, <2>3, <2>4
<1>6. ASSUME NEW k \in 1 .. n, k \in T PROVE k - 1 \in T
  <2> DEFINE c == s[k]
             size == Len(Encoded(c))
             at == L[k - 1]
  <2>1. k - 1 \in 0 .. n /\ k \in 0 .. n /\ n \in k .. n /\ k \in Nat /\ k >= 1 /\ k <= n
    BY <1>n
  <2>2. c \in Chars
    BY <1>n
  <2>3. k \in 1 .. Len(Codes(s)) /\ Codes(s)[k] = Encoded(c)
    BY <1>2, Zenon
  <2>4. size \in Nat
    <3>1. Encoded(c) \in Seq(CodeChars)
      BY <2>2, EncodedParts
    <3> QED BY <3>1, SeqParts
  <2>5. L[k] = L[k - 1] + size
    <3>1. f[k] = f[k - 1] \o Encoded(c)
      BY <1>1, <2>3, Zenon DEF Flattens
    <3>2. f[k - 1] \in Seq(CodeChars) /\ Encoded(c) \in Seq(CodeChars)
      BY <1>1, <2>1, <2>2, EncodedParts
    <3>3. Len(f[k]) = Len(f[k - 1]) + size
      BY <3>1, <3>2, ConcatProperties
    <3> QED BY <1>L, <2>1, <3>3, Zenon
  <2>6. Stands(code, L[k - 1], Encoded(c))
    <3> DEFINE seqs == Codes(s)
    <3>1. /\ Flattens(f, seqs, CodeChars) /\ seqs \in Seq(Seq(CodeChars))
          /\ k \in 1 .. Len(seqs) /\ n \in k .. Len(seqs)
      BY <1>1, <1>2, <2>1, <2>3, Zenon
    <3> HIDE DEF seqs
    <3>2. Stands(f[n], Len(f[k - 1]), seqs[k])
      BY ONLY <3>1, FlattenedParts
    <3>3. seqs[k] = Encoded(c) /\ L[k - 1] = Len(f[k - 1]) /\ f[n] = code
      BY <1>1, <1>L, <2>1, <2>3, Zenon DEF seqs
    <3> QED BY <3>2, <3>3, Zenon
  <2>7. at \in Nat /\ at + size <= Len(code) /\ at + size + 1 = L[k] + 1
    <3>1. at \in Nat /\ L[k] <= Len(code)
      BY <1>L, <2>1
    <3> HIDE DEF at, size
    <3>2. L[k] = at + size
      BY <2>5 DEF at
    <3> QED BY <1>3, <2>4, <3>1, <3>2
  <2>8. d[at + 1] = <<c>> \o d[at + size + 1]
    <3> HIDE DEF at, c
    <3>1. Unrolls(d, Len(code) + 1, ValueStop(code), ValueHead(code), ValueNext(code))
      BY <1>4
    <3>2. Stands(code, at, Encoded(c)) /\ at \in Nat /\ at + Len(Encoded(c)) <= Len(code)
      BY <2>6, <2>7 DEF at
    <3>3. code \in Seq(Bytes)
      BY <1>3
    <3>4. d[at + 1] = <<c>> \o d[at + Len(Encoded(c)) + 1]
      BY ONLY <2>2, <3>1, <3>2, <3>3, DecodesCode
    <3> QED BY <3>4
  <2> HIDE DEF c, size
  <2>9. d[at + size + 1] = From(s, k + 1)
    BY <1>6, <2>7
  <2>10. From(s, k) = <<c>> \o From(s, k + 1)
    <3> DEFINE r == From(s, k + 1)
               t == From(s, k)
    <3>1. /\ t \in Seq(Chars) /\ Len(t) = n + 1 - k
          /\ \A i \in 1 .. n + 1 - k : t[i] = s[k + i - 1]
      BY <2>1, FromParts DEF n
    <3>2. /\ r \in Seq(Chars) /\ Len(r) = n + 1 - (k + 1)
          /\ \A i \in 1 .. n + 1 - (k + 1) : r[i] = s[(k + 1) + i - 1]
      <4>1. k + 1 \in Nat /\ k + 1 >= 1 /\ k + 1 <= n + 1
        BY <2>1, <1>n
      <4> QED BY <4>1, FromParts DEF n
    <3> HIDE DEF r, t
    <3> DEFINE u == <<c>> \o r
               m == n - k
    <3>3. /\ u \in Seq(Chars) /\ Len(u) = Len(r) + 1 /\ u[1] = c
          /\ \A i \in 1 .. Len(r) : u[i + 1] = r[i]
      BY <2>2, <3>2, ConsParts
    <3> HIDE DEF u
    <3>4. m \in Nat /\ n + 1 - (k + 1) = m /\ n + 1 - k = m + 1
      BY <1>n, <2>1
    <3>5. Len(t) = m + 1 /\ Len(u) = m + 1 /\ Len(r) = m
      BY <3>1, <3>2, <3>3, <3>4, Zenon
    <3> HIDE DEF m
    <3>6. ASSUME NEW i \in 1 .. m + 1 PROVE t[i] = u[i]
      <4>1. t[i] = s[k + i - 1]
        BY <3>1, <3>4
      <4>2. CASE i = 1
        <5>1. k + i - 1 = k
          BY <4>2, <2>1
        <5> QED BY <3>3, <4>1, <4>2, <5>1 DEF c
      <4>3. CASE i # 1
        <5>1. i - 1 \in 1 .. m /\ (i - 1) + 1 = i /\ (k + 1) + (i - 1) - 1 = k + i - 1
          BY <4>3, <2>1, <3>4
        <5>2. u[(i - 1) + 1] = r[i - 1] /\ r[i - 1] = s[(k + 1) + (i - 1) - 1]
          BY <3>2, <3>3, <3>4, <3>5, <5>1
        <5> QED BY <4>1, <5>1, <5>2
      <4> QED BY <4>2, <4>3
    <3>7. t = u
      BY <3>1, <3>3, <3>5, <3>6, SeqEqual
    <3> QED BY <3>7 DEF t, u, r
  <2>11. d[L[k - 1] + 1] = From(s, (k - 1) + 1)
    <3>1. (k - 1) + 1 = k
      BY <2>1
    <3> QED BY <2>8, <2>9, <2>10, <3>1
  <2> QED BY <2>1, <2>11
<1>7. 0 \in T
  <2> HIDE DEF T
  <2>1. \A k \in 0 .. n : k \in T
    BY <1>n, <1>5, <1>6, CountDown
  <2> QED BY <2>1, <1>n
<1>8. d[1] = s
  <2>1. L[0] = 0
    <3>1. f[0] = <<>> /\ 0 \in 0 .. n
      BY <1>1, <1>n DEF Flattens
    <3>2. Len(f[0]) = 0
      BY <3>1, EmptySeq
    <3> QED BY <1>L, <3>1, <3>2, Zenon
  <2>2. From(s, 0 + 1) = s
    BY SubSeqFull DEF From
  <2> QED BY <1>7, <2>1, <2>2
<1>9. Min({n, Len(code)}) = n
  <2> DEFINE l == Len(code)
  <2>1. l \in Nat /\ n <= l
    BY <1>3
  <2> HIDE DEF l
  <2>2. Min({n, l}) = n
    BY <1>n, <2>1, MinOfTwo
  <2> QED BY <2>2 DEF l
<1>10. SubSeq(s, 1, n) = s
  BY SubSeqFull DEF n
<1>11. urldecode(code, Len(code)) = SubSeq(s, 1, Min({n, Len(code)}))
  BY <1>4, <1>8, Zenon DEF n
<1> QED BY <1>9, <1>10, <1>11, Zenon DEF code

\* A text of characters ends at its end.
LEMMA CharsAreCString ==
    ASSUME NEW s \in Seq(Chars)
    PROVE  CString(s) = s
<1> DEFINE w == Before(s, {0})
<1>1. Len(s) \in Nat /\ \A i \in 1 .. Len(s) : s[i] \in Chars
  BY SeqParts
<1>2. IsBefore(w, s, {0})
  BY BeforeParts
<1> HIDE DEF w
<1>3. /\ Len(w) \in Nat /\ Len(w) <= Len(s) /\ (Len(w) < Len(s) => s[Len(w) + 1] = 0)
      /\ (Len(w) = Len(s) => w = s)
  BY <1>2 DEF IsBefore
<1>4. ~(Len(w) < Len(s))
  <2> SUFFICES ASSUME Len(w) < Len(s) PROVE FALSE
    OBVIOUS
  <2> DEFINE k == Len(w) + 1
  <2>1. k \in 1 .. Len(s) /\ s[k] = 0
    BY <1>1, <1>3
  <2> HIDE DEF k
  <2>2. 0 \in Chars
    BY <1>1, <2>1
  <2> QED BY <2>2 DEF Chars
<1>5. w = s
  BY <1>1, <1>3, <1>4
<1> QED BY <1>5 DEF CString, w

\* Twice the length of its code is room enough for the pieces of a text.
LEMMA PiecesAreKept ==
    ASSUME NEW s \in Seq(Chars)
    PROVE  xmlencode(s, 2 * Len(url_encode(s))).out = FlattenSeq(Pieces(s))
<1> DEFINE n == Len(s)
           code == url_encode(s)
           l == Len(code)
           size == 2 * l
<1>n. n \in Nat /\ \A i \in 1 .. n : s[i] \in Bytes
  BY SeqParts DEF Chars, Bytes
<1>1. PICK f, g :
        /\ code = f[n]
        /\ Flattens(g, Pieces(s), Bytes) /\ FlattenSeq(Pieces(s)) = g[n]
        /\ \A k \in 0 .. n : /\ f[k] \in Seq(CodeChars) /\ g[k] \in Seq(Bytes)
                             /\ Len(g[k]) <= 2 * Len(f[k]) /\ Len(f[k]) <= Len(f[n])
  BY CodeParts
<1>2. \A i \in 1 .. n : i \in 1 .. Len(Pieces(s)) /\ Pieces(s)[i] = Piece(s[i])
  BY CodesArePieces
<1> HIDE DEF n, code
<1>3. l \in Nat /\ size \in Nat
  <2>1. n \in 0 .. n
    BY <1>n
  <2>2. code \in Seq(CodeChars)
    BY <1>1, <2>1
  <2>3. Len(code) \in Nat
    BY <2>2, SeqParts
  <2> QED BY <2>3
<1>4. ASSUME NEW k \in 0 .. n PROVE Len(g[k]) \in Nat /\ Len(g[k]) <= size
  <2> DEFINE a == Len(f[k])
             b == Len(g[k])
  <2>1. a \in Nat /\ b \in Nat
    BY <1>1, SeqParts
  <2>2. b <= 2 * a /\ a <= l
    BY <1>1
  <2> HIDE DEF a, b, l
  <2>3. b <= 2 * l
    BY <2>1, <2>2, <1>3
  <2> QED BY <2>1, <2>3 DEF b
<1> HIDE DEF l
<1>5. PICK after :
        /\ Encodes(after, s, size)
        /\ xmlencode(s, size) =
             [out |-> after[n].out,
              written |-> Max({after[n].written, Len(after[n].out) + 1})]
        /\ \A i \in 0 .. n : Fits(after[i], size)
  <2>1. s \in Seq(Bytes)
    BY CharsAreBytes
  <2> HIDE DEF size
  <2> QED BY <1>3, <2>1, XmlencodeIs DEF n
<1> HIDE DEF size
<1> DEFINE T == {k \in 0 .. n : after[k].out = g[k] /\ after[k].size = Len(g[k])}
<1>6. 0 \in T
  <2>1. 0 \in 0 .. n
    BY <1>n
  <2>2. after[0].out = <<>> /\ after[0].size = 0
    BY <1>5 DEF Encodes
  <2>3. g[0] = <<>> /\ Len(<<>>) = 0
    BY <1>1 DEF Flattens
  <2> QED BY <2>1, <2>2, <2>3
<1>7. ASSUME NEW k \in 1 .. n, k - 1 \in T PROVE k \in T
  <2> DEFINE c == s[k]
             done == after[k - 1]
             p == Piece(c)
  <2>1. k - 1 \in 0 .. n /\ k \in 0 .. n
    BY <1>n
  <2>2. c \in Bytes /\ p \in Seq(Bytes)
    <3>1. c \in Bytes
      BY <1>n
    <3> QED BY <3>1, PieceParts
  <2>3. after[k] = WithPiece(done, c, size)
    BY <1>5 DEF Encodes, n
  <2>4. Fits(done, size)
    BY <1>5, <2>1
  <2>5. g[k] = g[k - 1] \o p
    BY <1>1, <1>2, Zenon DEF Flattens
  <2>6. g[k - 1] \in Seq(Bytes)
    BY <1>1, <2>1
  <2>7. Len(g[k]) = Len(g[k - 1]) + Len(p)
    BY <2>2, <2>5, <2>6, ConcatProperties
  <2>8. done.out = g[k - 1] /\ done.size = Len(g[k - 1])
    BY <1>7
  <2>9. done.size + Len(p) <= size
    <3>1. Len(g[k]) <= size
      BY <1>4, <2>1
    <3> QED BY <2>7, <2>8, <3>1, Zenon
  <2>10. /\ WithPiece(done, c, size).size = done.size + Len(p)
         /\ WithPiece(done, c, size).out = done.out \o p
    <3> HIDE DEF done, c
    <3> QED BY ONLY <1>3, <2>2, <2>4, <2>9, WithPieceFits DEF p
  <2> HIDE DEF done, c, p
  <2>11. after[k].size = Len(g[k]) /\ after[k].out = g[k]
    BY <2>3, <2>5, <2>7, <2>8, <2>10, Zenon
  <2> QED BY <2>1, <2>11
<1>8. n \in T
  <2> HIDE DEF T
  <2>1. \A k \in 0 .. n : k \in T
    BY <1>n, <1>6, <1>7, CountUp
  <2> QED BY <2>1, <1>n
<1>9. xmlencode(s, size).out = g[n]
  BY <1>5, <1>8
<1> QED BY <1>1, <1>9 DEF size, l, code

-----------------------------------------------------------------------------
(* The body of a dial_data request.                                        *)

\* The sequences pre are the first ones of seqs.
Begins(pre, seqs) == Len(pre) <= Len(seqs) /\ \A j \in 1 .. Len(pre) : pre[j] = seqs[j]

\* Two functions that put the same beginnings together agree on them.
LEMMA FlattensAgree ==
    ASSUME NEW S, NEW seqs \in Seq(Seq(S)), NEW f, Flattens(f, seqs, S),
           NEW pre \in Seq(Seq(S)), NEW g, Flattens(g, pre, S), Begins(pre, seqs)
    PROVE  \A j \in 0 .. Len(pre) : f[j] = g[j]
<1> DEFINE n == Len(pre)
           T == {j \in 0 .. n : f[j] = g[j]}
<1>1. /\ n \in Nat /\ Len(seqs) \in Nat /\ n <= Len(seqs)
      /\ \A j \in 1 .. n : pre[j] = seqs[j]
  BY SeqParts DEF Begins
<1>2. 0 \in T
  <2>1. f[0] = <<>> /\ g[0] = <<>>
    BY DEF Flattens
  <2> QED BY <1>1, <2>1
<1>3. ASSUME NEW j \in 1 .. n, j - 1 \in T PROVE j \in T
  <2>1. j \in 1 .. Len(seqs) /\ j \in 0 .. n /\ j - 1 \in 0 .. n
    BY <1>1
  <2>2. f[j] = f[j - 1] \o seqs[j] /\ g[j] = g[j - 1] \o pre[j] /\ pre[j] = seqs[j]
    BY <1>1, <2>1 DEF Flattens
  <2>3. f[j - 1] = g[j - 1]
    BY <1>3
  <2>4. f[j] = g[j]
    BY <2>2, <2>3, Zenon
  <2> QED BY <2>1, <2>4
<1>4. \A j \in 0 .. n : j \in T
  <2> HIDE DEF T, n
  <2> QED BY <1>1, <1>2, <1>3, CountUp
<1> QED BY <1>4

\* Every separator in s stands between two words.
Separated(s, separator) ==
    \A i \in 1 .. Len(s) : s[i] = separator => i # 1 /\ i # Len(s) /\ s[i + 1] # separator

\* Where the k-th token stands: behind what g has put together of the ones before
\* it, each with a separator before it.
TokenAt(g, k, s, separator) ==
    LET i == Len(g[k - 1]) + 1
    IN  /\ i \in 1 .. Len(s)
        /\ s[i] # separator
        /\ Tokens(s, separator)[k] = Word(s, separator, i)

\* The tokens of such a text with their separators.
Separately(s, separator) ==
    [k \in 1 .. Len(Tokens(s, separator)) |-> <<separator>> \o Tokens(s, separator)[k]]

\* Put together with their separators the tokens are the text.
LEMMA TokensInPlace ==
    ASSUME NEW C, NEW s \in Seq(C), Len(s) >= 1, NEW separator \in C, Separated(s, separator)
    PROVE  /\ Tokens(s, separator) \in Seq(Seq(C))
           /\ Len(Tokens(s, separator)) >= 1
           /\ Separately(s, separator) \in Seq(Seq(C))
           /\ Len(Separately(s, separator)) = Len(Tokens(s, separator))
           /\ \E g : /\ Flattens(g, Separately(s, separator), C)
                     /\ g[Len(Tokens(s, separator))] = <<separator>> \o s
                     /\ \A k \in 1 .. Len(Tokens(s, separator)) : TokenAt(g, k, s, separator)
<1> DEFINE n == Len(s)
           t == Tokens(s, separator)
           m == Len(t)
           seqs == Separately(s, separator)
           r == <<separator>> \o s
           W(i) == Word(s, separator, i)
<1>0. n \in Nat /\ n >= 1
  BY SeqParts
<1>1. PICK f : Tokenizes(f, s, separator, C) /\ t = f[1]
  BY TokensIs
<1>2. /\ \A i \in 1 .. n + 1 : f[i] \in Seq(Seq(C))
      /\ f[n + 1] = <<>>
      /\ \A i \in 1 .. n : f[i] = IF s[i] = separator THEN f[i + 1]
                                  ELSE <<W(i)>> \o f[i + Len(W(i))]
  BY <1>1 DEF Tokenizes
<1>3. t \in Seq(Seq(C)) /\ m \in Nat /\ \A k \in 1 .. m : t[k] \in Seq(C)
  <2>1. 1 \in 1 .. n + 1
    BY <1>0
  <2>2. t \in Seq(Seq(C))
    BY <1>1, <1>2, <2>1
  <2> HIDE DEF t
  <2> QED BY <2>2, SeqParts
<1>4. seqs = [k \in 1 .. m |-> <<separator>> \o t[k]]
  BY DEF Separately
<1>5. r \in Seq(C) /\ Len(r) = n + 1 /\ r[1] = separator /\ \A x \in 1 .. n : r[x + 1] = s[x]
  BY ConsParts
<1> HIDE DEF t, seqs, r
<1>6. seqs \in Seq(Seq(C)) /\ Len(seqs) = m /\ \A k \in 1 .. m : seqs[k] = <<separator>> \o t[k]
  <2>1. \A k \in 1 .. m : <<separator>> \o t[k] \in Seq(C)
    BY <1>3, ConsParts
  <2> HIDE DEF m
  <2>2. seqs \in [1 .. m -> Seq(C)]
    BY <1>4, <2>1
  <2>3. seqs \in Seq(Seq(C))
    BY <1>3, <2>2, SeqDef
  <2>4. Len(seqs) = m
    BY <1>3, <2>2, <2>3, LenProperties
  <2> QED BY <1>4, <2>3, <2>4
<1> HIDE DEF n, m
<1>7. PICK g : Flattens(g, seqs, C)
  BY <1>6, FlattenSeqIs
<1>8. /\ g[0] = <<>>
      /\ \A k \in 0 .. m : g[k] \in Seq(C)
      /\ \A k \in 1 .. m : g[k] = g[k - 1] \o seqs[k]
  BY <1>6, <1>7 DEF Flattens
\* A word, and what follows it: nothing or a separator and the next word.
<1>9. ASSUME NEW i \in 1 .. n, s[i] # separator
      PROVE  \E l \in Nat :
               /\ l = Len(W(i)) /\ l >= 1 /\ i + l <= n + 1
               /\ W(i) \in Seq(C) /\ \A j \in 1 .. l : W(i)[j] = s[i + j - 1]
               /\ \A x \in i .. i + l - 1 : s[x] # separator
               /\ \/ i + l = n + 1 /\ f[i] = <<W(i)>>
                  \/ /\ i + l + 1 \in 1 .. n /\ s[i + l] = separator /\ s[i + l + 1] # separator
                     /\ f[i] = <<W(i)>> \o f[i + l + 1]
                     /\ f[i + l + 1] \in Seq(Seq(C))
  <2> DEFINE w == W(i)
             l == Len(w)
             e == i + l
  <2>1. /\ w \in Seq(C) /\ l \in Nat /\ e <= n + 1
        /\ \A j \in 1 .. l : w[j] = s[i + j - 1]
        /\ \A x \in i .. e - 1 : s[x] # separator
        /\ e <= n => s[e] = separator
        /\ l >= 1
    <3>1. i \in Nat /\ i >= 1 /\ i <= n /\ i <= n + 1
      BY <1>0
    <3> QED BY <1>9, <3>1, WordParts DEF n
  <2>2. f[i] = <<w>> \o f[e]
    BY <1>2, <1>9
  <2> HIDE DEF w, l
  <2>3. CASE e = n + 1
    <3>1. f[i] = <<w>> \o <<>>
      BY <1>2, <2>2, <2>3
    <3>2. <<w>> \o <<>> = <<w>>
      <4>1. <<w>> \in Seq(Seq(C))
        BY <2>1
      <4> QED BY <4>1, ConcatEmptySeq
    <3> QED BY <2>1, <2>3, <3>1, <3>2 DEF w, l
  <2>4. CASE e # n + 1
    <3>1. e \in 1 .. n /\ s[e] = separator
      BY <1>0, <2>1, <2>4
    <3>2. e # n /\ s[e + 1] # separator
      BY <3>1 DEF Separated, n
    <3>3. e + 1 \in 1 .. n /\ e + 1 \in 1 .. n + 1
      BY <1>0, <3>1, <3>2
    <3>4. f[e] = f[e + 1] /\ f[e + 1] \in Seq(Seq(C))
      BY <1>2, <3>1, <3>3
    <3>5. f[i] = <<w>> \o f[e + 1]
      BY <2>2, <3>4, Zenon
    <3>6. /\ l = Len(w) /\ l \in Nat /\ l >= 1 /\ i + l <= n + 1
          /\ w \in Seq(C) /\ \A j \in 1 .. l : w[j] = s[i + j - 1]
          /\ \A x \in i .. i + l - 1 : s[x] # separator
          /\ i + l + 1 \in 1 .. n /\ s[i + l] = separator /\ s[i + l + 1] # separator
          /\ f[i] = <<w>> \o f[i + l + 1]
          /\ f[i + l + 1] \in Seq(Seq(C))
      <4>1. l = Len(w)
        BY DEF l
      <4> QED BY <2>1, <3>1, <3>2, <3>3, <3>4, <3>5, <4>1
    <3> QED BY <3>6, Zenon DEF w
  <2> QED BY <2>3, <2>4
<1> DEFINE L == [k \in 0 .. m |-> Len(g[k])]
<1>L. \A k \in 0 .. m : L[k] = Len(g[k]) /\ L[k] \in Nat
  <2>1. \A k \in 0 .. m : L[k] = Len(g[k])
    OBVIOUS
  <2>2. \A k \in 0 .. m : Len(g[k]) \in Nat
    BY <1>8, SeqParts
  <2> HIDE DEF L
  <2> QED BY <2>1, <2>2, Zenon
<1> HIDE DEF L
\* Behind k tokens what follows is tokenized as the rest of the tokens.
<1> DEFINE Rest(k, i) ==
               /\ i \in 1 .. n /\ s[i] # separator /\ (i = 1 \/ s[i - 1] = separator)
               /\ Len(f[i]) = m - k
               /\ \A j \in 1 .. m - k : f[i][j] = t[k + j]
           Copied(k) == L[k] <= n + 1 /\ \A x \in 1 .. L[k] : g[k][x] = r[x]
           T == {k \in 0 .. m : /\ Copied(k)
                                /\ k # m => Rest(k, L[k] + 1)
                                /\ k = m => L[k] = n + 1}
<1>10. m >= 1 /\ 0 \in T
  <2>1. L[0] = 0 /\ 0 \in 0 .. m
    <3>1. 0 \in 0 .. m /\ Len(g[0]) = 0
      BY <1>3, <1>8, EmptySeq
    <3> QED BY <1>L, <3>1, Zenon
  <2>2. 1 \in 1 .. n /\ s[1] # separator
    BY <1>0 DEF Separated, n
  <2>3. Len(f[1]) = m /\ m >= 1
    <3>1. m = Len(f[1])
      BY <1>1 DEF m, t
    <3>2. PICK l \in Nat : \/ f[1] = <<W(1)>>
                           \/ f[1] = <<W(1)>> \o f[1 + l + 1] /\ f[1 + l + 1] \in Seq(Seq(C))
      BY <1>9, <2>2
    <3>3. W(1) \in Seq(C)
      BY <1>9, <2>2
    <3> HIDE DEF W
    <3>4. CASE f[1] = <<W(1)>>
      BY <3>1, <3>4
    <3>5. CASE f[1] = <<W(1)>> \o f[1 + l + 1] /\ f[1 + l + 1] \in Seq(Seq(C))
      <4> DEFINE u == f[1 + l + 1]
      <4>1. Len(f[1]) = Len(u) + 1 /\ Len(u) \in Nat
        BY <3>3, <3>5, ConsParts, SeqParts
      <4> HIDE DEF u
      <4> QED BY <3>1, <4>1
    <3> QED BY <3>2, <3>4, <3>5
  <2>4. Rest(0, 0 + 1)
    <3>1. \A j \in 1 .. m - 0 : f[1][j] = t[0 + j]
      <4>1. \A j \in 1 .. m - 0 : 0 + j = j
        BY <1>3
      <4> QED BY <1>1, <4>1 DEF t
    <3>2. 0 + 1 = 1 /\ m - 0 = m
      BY <1>3
    <3> QED BY <2>2, <2>3, <3>1, <3>2
  <2>5. Copied(0)
    BY <1>0, <2>1
  <2> HIDE DEF Rest, Copied
  <2> QED BY <2>1, <2>3, <2>4, <2>5
<1>c. ASSUME NEW i \in 1 .. n, s[i] # separator
      PROVE  Len(f[i]) \in Nat /\ Len(f[i]) >= 1 /\ f[i][1] = W(i)
  <2>1. PICK l \in Nat : /\ W(i) \in Seq(C)
                         /\ \/ f[i] = <<W(i)>>
                            \/ f[i] = <<W(i)>> \o f[i + l + 1] /\ f[i + l + 1] \in Seq(Seq(C))
    BY <1>9, <1>c
  <2> HIDE DEF W
  <2>2. CASE f[i] = <<W(i)>>
    BY <2>2
  <2>3. CASE f[i] = <<W(i)>> \o f[i + l + 1] /\ f[i + l + 1] \in Seq(Seq(C))
    <3> DEFINE u == f[i + l + 1]
    <3>1. Len(f[i]) = Len(u) + 1 /\ Len(u) \in Nat /\ f[i][1] = W(i)
      BY <2>1, <2>3, ConsParts, SeqParts
    <3> HIDE DEF u
    <3> QED BY <3>1
  <2> QED BY <2>1, <2>2, <2>3
<1>11. ASSUME NEW k \in 1 .. m, k - 1 \in T
       PROVE  /\ L[k - 1] + 1 \in 1 .. n /\ s[L[k - 1] + 1] # separator
              /\ t[k] = W(L[k - 1] + 1)
              /\ k \in T
  <2> DEFINE a == L[k - 1]
             i == a + 1
  <2>1. /\ k - 1 \in 0 .. m /\ k \in 0 .. m /\ k - 1 # m /\ k \in Nat
        /\ 1 \in 1 .. m - (k - 1) /\ (k - 1) + 1 = k
    BY <1>3
  <2>2. a \in Nat /\ L[k] \in Nat
    BY <1>L, <2>1
  <2>3. Rest(k - 1, i) /\ Copied(k - 1)
    BY <1>11, <2>1
  <2>4. /\ i \in 1 .. n /\ s[i] # separator /\ (i = 1 \/ s[i - 1] = separator)
        /\ Len(f[i]) = m - (k - 1)
        /\ \A j \in 1 .. m - (k - 1) : f[i][j] = t[(k - 1) + j]
    BY <2>3
  <2>5. a <= n + 1 /\ \A x \in 1 .. a : g[k - 1][x] = r[x]
    BY <2>3
  <2> HIDE DEF Rest, Copied, T
  <2> HIDE DEF W
  <2>6. t[k] = W(i)
    <3>1. f[i][1] = t[(k - 1) + 1]
      BY <2>1, <2>4, Zenon
    <3> QED BY <1>c, <2>1, <2>4, <3>1, Zenon
  <2> DEFINE w == W(i)
  <2>7. PICK l \in Nat :
               /\ l = Len(w) /\ l >= 1 /\ i + l <= n + 1
               /\ w \in Seq(C) /\ \A j \in 1 .. l : w[j] = s[i + j - 1]
               /\ \/ i + l = n + 1 /\ f[i] = <<w>>
                  \/ /\ i + l + 1 \in 1 .. n /\ s[i + l] = separator /\ s[i + l + 1] # separator
                     /\ f[i] = <<w>> \o f[i + l + 1]
                     /\ f[i + l + 1] \in Seq(Seq(C))
    BY <1>9, <2>4, Zenon
  <2> HIDE DEF w
  <2> DEFINE v == <<separator>> \o w
  <2>8. /\ v \in Seq(C) /\ Len(v) = l + 1 /\ v[1] = separator
        /\ \A j \in 1 .. l : v[j + 1] = w[j]
    BY <2>7, ConsParts
  <2>9. g[k] = g[k - 1] \o v
    BY <1>6, <1>8, <2>6, Zenon DEF w
  <2> HIDE DEF v
  <2>10. /\ L[k] = a + l + 1
         /\ \A x \in 1 .. a + l + 1 : g[k][x] = IF x <= a THEN g[k - 1][x] ELSE v[x - a]
    <3>1. g[k - 1] \in Seq(C)
      BY <1>8, <2>1
    <3>2. IsConcat(g[k], g[k - 1], v)
      BY <2>8, <2>9, <3>1, ConcatParts
    <3>3. L[k] = Len(g[k]) /\ a = Len(g[k - 1])
      BY <1>L, <2>1
    <3>4. /\ L[k] = a + (l + 1)
          /\ \A x \in 1 .. a + (l + 1) : g[k][x] = IF x <= a THEN g[k - 1][x] ELSE v[x - a]
      BY <2>8, <3>2, <3>3, Zenon DEF IsConcat
    <3>5. a + (l + 1) = a + l + 1
      BY <2>2
    <3> QED BY <3>4, <3>5, Zenon
  <2> HIDE DEF a
  <2>11. Copied(k)
    <3>1. L[k] <= n + 1
      BY <2>2, <2>7, <2>10
    <3>2. ASSUME NEW x \in 1 .. L[k] PROVE g[k][x] = r[x]
      <4>1. x \in 1 .. a + l + 1
        BY <2>10
      <4>2. g[k][x] = IF x <= a THEN g[k - 1][x] ELSE v[x - a]
        BY <2>10, <4>1
      <4>3. CASE x <= a
        <5>1. x \in 1 .. a
          BY <2>2, <4>1, <4>3
        <5> QED BY <2>5, <4>2, <4>3, <5>1
      <4>4. CASE x = a + 1
        <5>1. x - a = 1 /\ ~(x <= a) /\ x = i
          BY <2>2, <4>4
        <5>2. g[k][x] = separator
          BY <2>8, <4>2, <5>1
        <5>3. CASE i = 1
          BY <1>5, <5>1, <5>2, <5>3
        <5>4. CASE i # 1
          <6>1. i - 1 \in 1 .. n /\ (i - 1) + 1 = i /\ s[i - 1] = separator
            BY <2>4, <5>4, <1>0
          <6> QED BY <1>5, <5>1, <5>2, <6>1
        <5> QED BY <5>3, <5>4
      <4>5. CASE x > a + 1
        <5> DEFINE j == x - a - 1
        <5>1. j \in 1 .. l /\ x - a = j + 1 /\ ~(x <= a) /\ i + j - 1 = x - 1
          BY <2>2, <2>7, <4>1, <4>5
        <5>2. x - 1 \in 1 .. n /\ (x - 1) + 1 = x
          BY <1>0, <2>2, <2>7, <4>1, <4>5
        <5> HIDE DEF j
        <5>3. g[k][x] = v[j + 1]
          BY <4>2, <5>1, Zenon
        <5>4. v[j + 1] = w[j] /\ w[j] = s[i + j - 1]
          BY <2>7, <2>8, <5>1
        <5>5. r[(x - 1) + 1] = s[x - 1]
          BY <1>5, <5>2
        <5> QED BY <5>1, <5>2, <5>3, <5>4, <5>5, Zenon
      <4> QED BY <2>2, <4>1, <4>3, <4>4, <4>5
    <3> QED BY <3>1, <3>2 DEF Copied
  <2>12. CASE i + l = n + 1 /\ f[i] = <<w>>
    <3>1. Len(f[i]) = 1
      BY <2>12
    <3>2. k = m /\ L[k] = n + 1
      BY <1>3, <2>1, <2>2, <2>4, <2>10, <2>12, <3>1
    <3> QED BY <2>1, <2>4, <2>6, <2>11, <3>2 DEF T, a
  <2>13. CASE /\ i + l + 1 \in 1 .. n /\ s[i + l] = separator /\ s[i + l + 1] # separator
              /\ f[i] = <<w>> \o f[i + l + 1]
              /\ f[i + l + 1] \in Seq(Seq(C))
    <3> DEFINE b == i + l + 1
               u == f[b]
    <3>1. b \in 1 .. n /\ s[b] # separator /\ s[b - 1] = separator /\ L[k] + 1 = b
      <4>1. b - 1 = i + l /\ L[k] + 1 = b
        BY <2>2, <2>10
      <4> QED BY <2>13, <4>1
    <3>2. Len(u) \in Nat /\ Len(u) >= 1
      BY <1>c, <3>1
    <3>3. Len(f[i]) = Len(u) + 1 /\ \A j \in 1 .. Len(u) : f[i][j + 1] = u[j]
      BY <2>7, <2>13, ConsParts
    <3> HIDE DEF u
    <3>4. Len(u) = m - k /\ k # m
      <4> DEFINE y == Len(f[i])
                 z == Len(u)
      <4>1. y = m - (k - 1) /\ y = z + 1 /\ z \in Nat /\ z >= 1
        BY <2>4, <3>2, <3>3
      <4> HIDE DEF y, z
      <4>2. z = m - k /\ k # m
        BY <1>3, <2>1, <4>1
      <4> QED BY <4>2 DEF z
    <3>5. ASSUME NEW j \in 1 .. m - k PROVE u[j] = t[k + j]
      <4>1. j + 1 \in 1 .. m - (k - 1) /\ (k - 1) + (j + 1) = k + j /\ j \in 1 .. Len(u)
        BY <1>3, <2>1, <3>4
      <4>2. f[i][j + 1] = t[(k - 1) + (j + 1)]
        BY <2>4, <4>1
      <4>3. f[i][j + 1] = u[j]
        BY <3>3, <4>1
      <4> QED BY <4>1, <4>2, <4>3, Zenon
    <3> HIDE DEF b
    <3>6. Rest(k, b)
      BY <3>1, <3>4, <3>5, Zenon DEF Rest, u
    <3>7. k \in T
      BY <2>1, <2>11, <3>1, <3>4, <3>6, Zenon DEF T
    <3> QED BY <2>4, <2>6, <3>7 DEF a
  <2> QED BY <2>7, <2>12, <2>13
<1>12. \A k \in 0 .. m : k \in T
  <2> HIDE DEF T
  <2> QED BY <1>3, <1>10, <1>11, CountUp
<1>13. ASSUME NEW k \in 1 .. m PROVE TokenAt(g, k, s, separator)
  <2>1. k - 1 \in 0 .. m
    BY <1>3
  <2>2. k - 1 \in T
    BY <1>12, <2>1
  <2> HIDE DEF T
  <2>3. L[k - 1] + 1 \in 1 .. n /\ s[L[k - 1] + 1] # separator /\ t[k] = W(L[k - 1] + 1)
    BY <1>11, <2>2
  <2>4. L[k - 1] = Len(g[k - 1])
    BY <1>L, <2>1
  <2> QED BY <2>3, <2>4 DEF TokenAt, n, t
<1>14. g[m] = r
  <2>1. m \in 0 .. m
    BY <1>3
  <2>2. L[m] = n + 1 /\ \A x \in 1 .. L[m] : g[m][x] = r[x]
    BY <1>12, <2>1
  <2>3. Len(g[m]) = n + 1 /\ g[m] \in Seq(C)
    BY <1>L, <1>8, <2>1, <2>2
  <2> QED BY <1>5, <2>2, <2>3, SeqEqual
<1> QED BY <1>3, <1>6, <1>7, <1>10, <1>13, <1>14 DEF t, m, seqs, r

\* What is turned round twice is as it was.
LEMMA ReverseTwice ==
    ASSUME NEW S, NEW s \in Seq(S)
    PROVE  Reverse(Reverse(s)) = s
<1> DEFINE n == Len(s)
           r == Reverse(s)
           b == Reverse(r)
<1>0. n \in Nat /\ \A i \in 1 .. n : s[i] \in S
  BY SeqParts
<1>1. r = [i \in 1 .. n |-> s[(n - i) + 1]]
  BY DEF Reverse
<1> HIDE DEF n
<1>2. \A i \in 1 .. n : (n - i) + 1 \in 1 .. n
  BY <1>0
<1> HIDE DEF r
<1>3. r \in Seq(S) /\ Len(r) = n
  <2>1. r \in [1 .. n -> S]
    BY <1>0, <1>1, <1>2
  <2>2. r \in Seq(S)
    BY <1>0, <2>1, SeqDef
  <2> QED BY <1>0, <2>1, <2>2, LenProperties
<1>4. b = [i \in 1 .. n |-> r[(n - i) + 1]]
  BY <1>3 DEF Reverse
<1> HIDE DEF b
<1>5. ASSUME NEW i \in 1 .. n PROVE b[i] = s[i]
  <2> DEFINE j == (n - i) + 1
  <2>1. j \in 1 .. n /\ (n - j) + 1 = i
    BY <1>0
  <2>2. b[i] = r[j]
    BY <1>4
  <2> HIDE DEF j
  <2>3. r[j] = s[(n - j) + 1]
    BY <1>1, <2>1
  <2> QED BY <2>1, <2>2, <2>3, Zenon
<1>6. b \in Seq(S) /\ Len(b) = n
  <2>1. b \in [1 .. n -> S]
    BY <1>0, <1>4, <1>5
  <2>2. b \in Seq(S)
    BY <1>0, <2>1, SeqDef
  <2> QED BY <1>0, <2>1, <2>2, LenProperties
<1>7. b = s
  BY <1>5, <1>6, SeqEqual DEF n
<1> QED BY <1>7 DEF b, r

\* A text without the separator is its only token.
LEMMA OneToken ==
    ASSUME NEW C, NEW s \in Seq(C), Len(s) >= 1, NEW separator,
           \A i \in 1 .. Len(s) : s[i] # separator
    PROVE  Tokens(s, separator) = <<s>>
<1> DEFINE n == Len(s)
           w == Word(s, separator, 1)
           l == Len(w)
<1>0. n \in Nat /\ n >= 1
  BY SeqParts
<1>1. PICK f : Tokenizes(f, s, separator, C) /\ Tokens(s, separator) = f[1]
  BY TokensIs
<1>2. f[n + 1] = <<>> /\ f[1] = <<w>> \o f[1 + l]
  <2>1. 1 \in 1 .. n /\ s[1] # separator
    BY <1>0
  <2>2. f[1] = IF s[1] = separator THEN f[1 + 1] ELSE <<w>> \o f[1 + l]
    BY <1>1, <2>1 DEF Tokenizes
  <2> QED BY <1>1, <2>1, <2>2 DEF Tokenizes
<1>3. /\ w \in Seq(C) /\ l \in Nat /\ 1 + l <= n + 1
      /\ \A j \in 1 .. l : w[j] = s[1 + j - 1]
      /\ 1 + l <= n => s[1 + l] = separator
  <2>1. 1 \in Nat /\ 1 >= 1 /\ 1 <= Len(s) + 1
    BY <1>0
  <2> QED BY <2>1, WordParts
<1> HIDE DEF w, l
<1>4. l = n
  <2>1. ~(1 + l <= n)
    <3> SUFFICES ASSUME 1 + l <= n PROVE FALSE
      OBVIOUS
    <3> DEFINE k == 1 + l
    <3>1. k \in 1 .. n /\ s[k] = separator
      BY <1>0, <1>3
    <3> HIDE DEF k
    <3> QED BY <3>1
  <2> QED BY <1>0, <1>3, <2>1
<1>5. w = s
  <2>1. \A j \in 1 .. l : w[j] = s[j]
    <3>1. \A j \in 1 .. l : 1 + j - 1 = j
      BY <1>3
    <3> QED BY <1>3, <3>1
  <2>2. Len(w) = n
    BY <1>4 DEF l
  <2> QED BY <1>3, <1>4, <2>1, <2>2, SeqEqual
<1>6. f[1 + l] = <<>>
  <2>1. 1 + l = n + 1
    BY <1>0, <1>4
  <2> QED BY <1>2, <2>1, Zenon
<1>7. f[1] = <<s>> \o <<>>
  BY <1>2, <1>5, <1>6, Zenon
<1>8. <<s>> \in Seq(Seq(C))
  OBVIOUS
<1>9. <<s>> \o <<>> = <<s>>
  BY <1>8, ConcatEmptySeq
<1> QED BY <1>1, <1>7, <1>9, Zenon

\* A well-formed pair is read as its two parts.
LEMMA PairParts ==
    ASSUME NEW token \in Seq(Bytes), WellFormed(token)
    PROVE  \E key \in Seq(Bytes) :
             /\ Len(key) >= 1 /\ Len(key) + 2 <= Len(token)
             /\ \A j \in 1 .. Len(key) : token[j] = key[j] /\ key[j] # Equals
             /\ token[Len(key) + 1] = Equals
             /\ Pair(token) = [key |-> key, value |-> From(token, Len(key) + 2)]
<1> DEFINE n == Len(token)
           key == Before(token, {Equals})
           l == Len(key)
           value == From(token, l + 2)
<1>0. n \in Nat /\ DOMAIN token = 1 .. n
  BY SeqParts
<1>1. key \in Seq(Bytes) /\ IsBefore(key, token, {Equals})
  BY BeforeParts
<1>2. PICK i \in 2 .. n - 1 : token[i] = Equals /\ \A j \in 1 .. i - 1 : token[j] # Equals
  BY DEF WellFormed
<1> HIDE DEF key
<1>3. /\ l \in Nat /\ l <= n
      /\ \A j \in 1 .. l : key[j] = token[j] /\ token[j] # Equals
      /\ l < n => token[l + 1] = Equals
  BY <1>1 DEF IsBefore
<1> HIDE DEF l, n
<1>4. l + 1 = i
  <2>1. ~(i <= l)
    <3>1. i <= l => i \in 1 .. l
      BY <1>0, <1>3
    <3> QED BY <1>2, <1>3, <3>1
  <2>2. ~(l + 1 < i)
    <3> SUFFICES ASSUME l + 1 < i PROVE FALSE
      OBVIOUS
    <3>1. l + 1 \in 1 .. i - 1 /\ l < n
      BY <1>0, <1>3
    <3> QED BY <1>2, <1>3, <3>1
  <2> QED BY <1>0, <1>3, <2>1, <2>2
<1>5. l >= 1 /\ l + 2 <= n /\ token[l + 1] = Equals
  BY <1>0, <1>2, <1>3, <1>4
<1>6. /\ value \in Seq(Bytes) /\ Len(value) >= 1
      /\ \A j \in 1 .. Len(value) : value[j] # Space
  <2>1. l + 2 \in Nat /\ l + 2 >= 1 /\ l + 2 <= n + 1
    BY <1>0, <1>3, <1>5
  <2>2. /\ value \in Seq(Bytes) /\ Len(value) = n + 1 - (l + 2)
        /\ \A j \in 1 .. n + 1 - (l + 2) : value[j] = token[(l + 2) + j - 1]
    BY <2>1, FromParts DEF n
  <2> HIDE DEF value
  <2>3. \A x \in 1 .. n : token[x] # Space
    BY <1>0 DEF WellFormed, ToSet
  <2>4. ASSUME NEW j \in 1 .. Len(value) PROVE value[j] # Space
    <3>1. j \in 1 .. n + 1 - (l + 2)
      BY <2>2
    <3>2. (l + 2) + j - 1 \in 1 .. n
      BY <1>0, <1>3, <3>1
    <3> QED BY <2>2, <2>3, <3>1, <3>2
  <2>5. Len(value) >= 1
    <3>1. n + 1 - (l + 2) >= 1
      BY <1>0, <1>3, <1>5
    <3> QED BY <2>2, <3>1, Zenon
  <2> QED BY <2>2, <2>4, <2>5
<1>7. Tokens(value, Space) = <<value>>
  <2> HIDE DEF value
  <2> QED BY <1>6, OneToken
<1>8. key # <<>>
  BY <1>5 DEF l
<1>9. Pair(token) = [key |-> key, value |-> value]
  <2> DEFINE words == Tokens(From(token, Len(key) + 2), Space)
  <2>1. words = <<value>>
    BY <1>7 DEF l
  <2>2. Pair(token) = [key |-> IF key = <<>> THEN Unwritten ELSE key,
                       value |-> IF key = <<>> \/ words = <<>> THEN Unwritten ELSE words[1]]
    BY DEF Pair, key
  <2> HIDE DEF words, value
  <2>3. words # <<>> /\ words[1] = value
    BY <2>1
  <2> QED BY <1>8, <2>2, <2>3
<1> QED BY <1>1, <1>3, <1>5, <1>9 DEF l, n

\* How a pair is put together again.
Shown(p) == <<Ampersand>> \o p.key \o <<Equals>> \o p.value

\* A well-formed pair is put together from its two parts.
LEMMA PairShown ==
    ASSUME NEW token \in Seq(Bytes), WellFormed(token)
    PROVE  Shown(Pair(token)) = <<Ampersand>> \o token
<1>1. PICK key \in Seq(Bytes) :
         /\ Len(key) >= 1 /\ Len(key) + 2 <= Len(token)
         /\ \A j \in 1 .. Len(key) : token[j] = key[j] /\ key[j] # Equals
         /\ token[Len(key) + 1] = Equals
         /\ Pair(token) = [key |-> key, value |-> From(token, Len(key) + 2)]
  BY PairParts
<1> DEFINE n == Len(token)
           l == Len(key)
           value == From(token, l + 2)
           a == <<Ampersand>> \o key
           b == a \o <<Equals>>
           c == b \o value
           d == <<Ampersand>> \o token
<1>2. n \in Nat /\ l \in Nat /\ l >= 1 /\ l + 2 <= n
  BY <1>1, SeqParts
<1>3. Shown(Pair(token)) = c
  BY <1>1 DEF Shown
<1>4. Ampersand \in Bytes /\ Equals \in Bytes
  BY DEF Ampersand, Equals, Bytes
<1>5. /\ value \in Seq(Bytes) /\ Len(value) = n + 1 - (l + 2)
      /\ \A j \in 1 .. n + 1 - (l + 2) : value[j] = token[(l + 2) + j - 1]
  <2>1. l + 2 \in Nat /\ l + 2 >= 1 /\ l + 2 <= n + 1
    BY <1>2
  <2> QED BY <2>1, FromParts DEF n
<1>6. /\ a \in Seq(Bytes) /\ Len(a) = l + 1 /\ a[1] = Ampersand
      /\ \A j \in 1 .. l : a[j + 1] = key[j]
  BY <1>4, ConsParts
<1>7. /\ d \in Seq(Bytes) /\ Len(d) = n + 1 /\ d[1] = Ampersand
      /\ \A j \in 1 .. n : d[j + 1] = token[j]
  BY <1>4, ConsParts
<1>e. <<Equals>> \in Seq(Bytes) /\ Len(<<Equals>>) = 1 /\ <<Equals>>[1] = Equals
  BY <1>4
<1> HIDE DEF a
<1>8. b \in Seq(Bytes) /\ IsConcat(b, a, <<Equals>>)
  BY <1>6, <1>e, ConcatParts
<1> HIDE DEF b, value
<1>9. c \in Seq(Bytes) /\ IsConcat(c, b, value)
  BY <1>5, <1>8, ConcatParts
<1> HIDE DEF c, d, l, n
<1>10. Len(b) = l + 2 /\ \A k \in 1 .. l + 2 : b[k] = IF k <= l + 1 THEN a[k] ELSE <<Equals>>[k - (l + 1)]
  BY <1>2, <1>6, <1>8, <1>e DEF IsConcat
<1>11. Len(c) = n + 1 /\ \A k \in 1 .. n + 1 : c[k] = IF k <= l + 2 THEN b[k] ELSE value[k - (l + 2)]
  BY <1>2, <1>5, <1>9, <1>10 DEF IsConcat
<1>12. ASSUME NEW k \in 1 .. n + 1 PROVE c[k] = d[k]
  <2>1. CASE k = 1
    <3>1. 1 \in 1 .. n + 1 /\ 1 \in 1 .. l + 2 /\ 1 <= l + 2 /\ 1 <= l + 1
      BY <1>2
    <3>2. c[1] = b[1] /\ b[1] = a[1]
      BY <1>10, <1>11, <3>1
    <3> QED BY <1>6, <1>7, <2>1, <3>2
  <2>2. CASE k \in 2 .. l + 1
    <3>1. c[k] = b[k] /\ b[k] = a[k]
      BY <1>2, <1>10, <1>11, <2>2
    <3> DEFINE j == k - 1
    <3>2. j \in 1 .. l /\ j \in 1 .. n /\ k = j + 1
      BY <1>2, <2>2
    <3> HIDE DEF j
    <3>3. a[j + 1] = key[j] /\ d[j + 1] = token[j] /\ token[j] = key[j]
      BY <1>1, <1>6, <1>7, <3>2 DEF l
    <3> QED BY <3>1, <3>2, <3>3
  <2>3. CASE k = l + 2
    <3>1. c[k] = b[k] /\ b[k] = <<Equals>>[k - (l + 1)] /\ k - (l + 1) = 1
      BY <1>2, <1>10, <1>11, <2>3
    <3>2. l + 1 \in 1 .. n /\ k = (l + 1) + 1
      BY <1>2, <2>3
    <3>3. d[(l + 1) + 1] = token[l + 1]
      BY <1>7, <3>2
    <3>4. token[l + 1] = Equals
      BY <1>1 DEF l
    <3> QED BY <1>e, <3>1, <3>2, <3>3, <3>4
  <2>4. CASE k > l + 2
    <3> DEFINE j == k - (l + 2)
               x == k - 1
    <3>1. j \in 1 .. n + 1 - (l + 2) /\ x \in 1 .. n /\ (l + 2) + j - 1 = x /\ k = x + 1 /\ ~(k <= l + 2)
      BY <1>2, <2>4
    <3>2. c[k] = value[j]
      BY <1>11, <3>1
    <3> HIDE DEF j, x
    <3>3. value[j] = token[x] /\ d[x + 1] = token[x]
      BY <1>5, <1>7, <3>1
    <3> QED BY <3>1, <3>2, <3>3
  <2> QED BY <1>2, <2>1, <2>2, <2>3, <2>4
<1>13. c = d
  BY <1>7, <1>9, <1>11, <1>12, SeqEqual
<1> QED BY <1>3, <1>13 DEF d

\* A token of s from p to e - 1, with the key, a "=" and a value.
PairAt(s, key, p, e) ==
    /\ p >= 1 /\ Len(key) >= 1
    /\ p + Len(key) + 1 <= e /\ e <= Len(s) + 1
    /\ \A j \in 1 .. Len(key) : s[p + j - 1] = key[j] /\ key[j] # Equals
    /\ s[p + Len(key)] = Equals
    /\ \A x \in p .. e - 1 : s[x] # Ampersand
    /\ e <= Len(s) => s[e] = Ampersand

\* Where strstr finds the key of a pair in that pair, parse_param returns what is
\* between the "=" and the next "&", or the end.
LEMMA ParamFound ==
    ASSUME NEW s \in Seq(Bytes), NEW key \in Seq(Bytes), NEW p \in Nat, NEW e \in Nat,
           PairAt(s, key, p, e), Places(s, key) \cap 1 .. p - 1 = {}
    PROVE  LET value == parse_param(s, key)
           IN  /\ value \in Seq(Bytes)
               /\ Len(value) = e - (p + Len(key) + 1)
               /\ \A j \in 1 .. Len(value) : value[j] = s[p + Len(key) + j]
<1> DEFINE n == Len(s)
           l == Len(key)
           places == Places(s, key)
           equals == {i \in p .. n : s[i] = Equals}
           E == p + l
           q == E + 1
           w == Word(s, Ampersand, q)
<1>0. n \in Nat /\ l \in Nat /\ DOMAIN s = 1 .. n
  BY SeqParts
<1>1. /\ p >= 1 /\ l >= 1 /\ p + l + 1 <= e /\ e <= n + 1
      /\ \A j \in 1 .. l : s[p + j - 1] = key[j] /\ key[j] # Equals
      /\ s[E] = Equals
      /\ \A x \in p .. e - 1 : s[x] # Ampersand
      /\ e <= n => s[e] = Ampersand
  BY DEF PairAt
<1>2. SubSeq(s, p, p + l - 1) = key
  <2> DEFINE part == SubSeq(s, p, p + l - 1)
  <2>1. /\ p >= 1 /\ p + l - 1 \in Nat /\ p + l - 1 <= n
        /\ p <= (p + l - 1) + 1 /\ (p + l - 1) + 1 - p = l
    BY <1>0, <1>1
  <2>2. /\ part \in Seq(Bytes) /\ Len(part) = (p + l - 1) + 1 - p
        /\ \A j \in 1 .. (p + l - 1) + 1 - p : part[j] = s[p + j - 1]
    BY <2>1, PartParts
  <2> HIDE DEF part
  <2>3. part \in Seq(Bytes) /\ Len(part) = l /\ \A j \in 1 .. l : part[j] = key[j]
    BY <1>1, <2>1, <2>2
  <2>4. part = key
    BY <2>3, SeqEqual
  <2> QED BY <2>4 DEF part
<1>3. p \in places
  <2>1. p \in 1 .. n /\ p + l - 1 <= n
    BY <1>0, <1>1
  <2> QED BY <1>0, <1>2, <2>1 DEF Places
<1>4. Min(places) = p
  <2>1. places \subseteq Nat /\ \A i \in places : i >= 1
    BY <1>0 DEF Places
  <2>2. \A i \in places : i \notin 1 .. p - 1
    OBVIOUS
  <2> HIDE DEF places
  <2>3. Min(places) \in places /\ \A i \in places : Min(places) <= i
    BY <1>3, <2>1, MinIs
  <2> DEFINE f == Min(places)
  <2>4. f \in Nat /\ f >= 1 /\ f \notin 1 .. p - 1 /\ f <= p
    BY <1>3, <2>1, <2>2, <2>3
  <2> HIDE DEF f
  <2>5. f = p
    BY <2>4
  <2> QED BY <2>5 DEF f
<1>5. equals # {} /\ Min(equals) = E
  <2>1. E \in p .. n /\ s[E] = Equals
    BY <1>0, <1>1
  <2>2. E \in equals /\ equals \subseteq Nat
    BY <2>1
  <2>3. ASSUME NEW i \in equals PROVE ~(i < E)
    <3> SUFFICES ASSUME i < E PROVE FALSE
      OBVIOUS
    <3> DEFINE j == i - p + 1
    <3>1. i \in p .. n /\ s[i] = Equals
      BY <2>3
    <3>2. j \in 1 .. l /\ p + j - 1 = i
      BY <1>0, <3>1
    <3> HIDE DEF j
    <3>3. s[p + j - 1] = key[j] /\ key[j] # Equals
      BY <1>1, <3>2
    <3> QED BY <3>1, <3>2, <3>3
  <2> HIDE DEF equals
  <2>4. Min(equals) \in equals /\ \A i \in equals : Min(equals) <= i
    BY <2>2, MinIs
  <2> DEFINE f == Min(equals)
  <2>5. f \in Nat /\ f <= E /\ ~(f < E) /\ E \in Nat
    BY <2>2, <2>3, <2>4
  <2> HIDE DEF f, E
  <2>6. f = E
    BY <2>5
  <2> QED BY <2>2, <2>6 DEF f
<1>6. parse_param(s, key) = w
  <2> HIDE DEF places, equals, E, w, q
  <2>1. parse_param(s, key)
          = ValueFrom(s, IF equals = {} THEN n + 1 ELSE Min(equals) + 1)
    BY <1>4 DEF parse_param, places, equals
  <2>2. parse_param(s, key) = ValueFrom(s, q)
    BY <1>5, <2>1 DEF q
  <2> QED BY <2>2 DEF ValueFrom, Word, w
<1>7. q \in Nat /\ q >= 1 /\ q <= n + 1 /\ E \in Nat /\ E >= p /\ q <= e
  BY <1>0, <1>1
<1> HIDE DEF q
<1>8. /\ w \in Seq(Bytes) /\ Len(w) \in Nat /\ q + Len(w) <= n + 1
      /\ \A j \in 1 .. Len(w) : w[j] = s[q + j - 1]
      /\ \A x \in q .. q + Len(w) - 1 : s[x] # Ampersand
      /\ q + Len(w) <= n => s[q + Len(w)] = Ampersand
  BY <1>7, WordParts
<1>9. Len(w) = e - q
  <2> DEFINE f == q + Len(w)
  <2>1. /\ f \in Nat /\ f <= n + 1 /\ f >= q
        /\ f <= n => s[f] = Ampersand
        /\ \A x \in q .. f - 1 : s[x] # Ampersand
    BY <1>7, <1>8
  <2>2. Len(w) = f - q
    BY <1>7, <1>8
  <2>3. q >= p
    BY <1>7 DEF q
  <2> HIDE DEF f, E, w
  <2>4. ~(f < e)
    <3> SUFFICES ASSUME f < e PROVE FALSE
      OBVIOUS
    <3>1. f <= n /\ f \in p .. e - 1
      BY <1>0, <1>1, <1>7, <2>1, <2>3
    <3> QED BY <1>1, <2>1, <3>1
  <2>5. ~(e < f)
    <3> SUFFICES ASSUME e < f PROVE FALSE
      OBVIOUS
    <3>1. e <= n /\ e \in q .. f - 1
      BY <1>0, <1>1, <1>7, <2>1
    <3> QED BY <1>1, <2>1, <3>1
  <2> QED BY <1>7, <2>1, <2>2, <2>4, <2>5
<1>10. ASSUME NEW j \in 1 .. Len(w) PROVE w[j] = s[E + j]
  <2>1. q + j - 1 = E + j
    BY <1>7, <1>8 DEF q
  <2>2. w[j] = s[q + j - 1]
    BY <1>8
  <2> HIDE DEF w, E
  <2> QED BY <2>1, <2>2
<1> HIDE DEF w
<1> QED BY <1>6, <1>8, <1>9, <1>10 DEF q

\* The value of a key that strstr does not find before its own token: the token
\* stands in the query at i, and the query in the text at start.
LEMMA ValueFound ==
    ASSUME NEW s \in Seq(Bytes), NEW start \in Nat, start >= 1, start <= Len(s) + 1,
           NEW i \in Nat, i >= 1, i <= Len(From(s, start)),
           NEW token, token = Word(From(s, start), Ampersand, i), WellFormed(token),
           Places(s, Pair(token).key) \cap 1 .. start + i - 2 = {}
    PROVE  parse_param(s, Pair(token).key) = Pair(token).value
<1> DEFINE query == From(s, start)
           n == Len(s)
           q == Len(query)
           t == Len(token)
           p == start + i - 1
           e == p + t
<1>0. n \in Nat
  BY SeqParts
<1>1. /\ query \in Seq(Bytes) /\ q = n + 1 - start
      /\ \A x \in 1 .. n + 1 - start : query[x] = s[start + x - 1]
  BY FromParts
<1>2. /\ token \in Seq(Bytes) /\ t \in Nat /\ i + t <= q + 1
      /\ \A j \in 1 .. t : token[j] = query[i + j - 1]
      /\ \A x \in i .. i + t - 1 : query[x] # Ampersand
      /\ i + t <= q => query[i + t] = Ampersand
  <2>1. i <= q /\ token = Word(query, Ampersand, i)
    OBVIOUS
  <2> HIDE DEF query
  <2>2. query \in Seq(Bytes) /\ i \in Nat /\ i >= 1 /\ i <= q + 1
    BY <1>0, <1>1, <2>1
  <2> DEFINE w == Word(query, Ampersand, i)
  <2>3. /\ w \in Seq(Bytes) /\ Len(w) \in Nat /\ i + Len(w) <= q + 1
        /\ \A j \in 1 .. Len(w) : w[j] = query[i + j - 1]
        /\ \A x \in i .. i + Len(w) - 1 : query[x] # Ampersand
        /\ i + Len(w) <= q => query[i + Len(w)] = Ampersand
    <3>1. w \in Seq(Bytes) /\ Len(w) \in Nat /\ i + Len(w) <= q + 1
      BY ONLY <2>2, WordParts
    <3>2. \A j \in 1 .. Len(w) : w[j] = query[i + j - 1]
      BY ONLY <2>2, WordParts
    <3>3. \A x \in i .. i + Len(w) - 1 : query[x] # Ampersand
      BY ONLY <2>2, WordParts
    <3>4. i + Len(w) <= q => query[i + Len(w)] = Ampersand
      BY ONLY <2>2, WordParts
    <3> QED BY <3>1, <3>2, <3>3, <3>4
  <2>4. token = w
    BY <2>1
  <2> HIDE DEF w
  <2> QED BY <2>3, <2>4
<1>3. PICK key \in Seq(Bytes) :
         /\ Len(key) >= 1 /\ Len(key) + 2 <= Len(token)
         /\ \A j \in 1 .. Len(key) : token[j] = key[j] /\ key[j] # Equals
         /\ token[Len(key) + 1] = Equals
         /\ Pair(token) = [key |-> key, value |-> From(token, Len(key) + 2)]
  BY <1>2, PairParts
<1> DEFINE l == Len(key)
           value == From(token, l + 2)
           found == parse_param(s, key)
<1>4. l \in Nat /\ l >= 1 /\ l + 2 <= t
  BY <1>3, SeqParts
<1> HIDE DEF query, q, n, t
<1>5. /\ p \in Nat /\ e \in Nat /\ p >= 1 /\ p + l + 1 <= e /\ e <= n + 1
      /\ p - 1 = start + i - 2
  BY <1>0, <1>1, <1>2, <1>4
<1>6. ASSUME NEW j \in 1 .. t PROVE s[p + j - 1] = token[j]
  <2> DEFINE x == i + j - 1
  <2>1. x \in 1 .. n + 1 - start /\ start + x - 1 = p + j - 1
    BY <1>0, <1>1, <1>2
  <2>2. token[j] = query[x]
    BY <1>2
  <2> HIDE DEF x, p
  <2>3. query[x] = s[start + x - 1]
    BY <1>1, <2>1
  <2> QED BY <2>1, <2>2, <2>3
<1>7. ASSUME NEW x \in p .. e - 1 PROVE s[x] # Ampersand
  <2> DEFINE y == x + 1 - start
  <2>1. y \in i .. i + t - 1 /\ y \in 1 .. n + 1 - start /\ start + y - 1 = x
    BY <1>0, <1>1, <1>2
  <2> HIDE DEF y
  <2>2. query[y] # Ampersand /\ query[y] = s[start + y - 1]
    BY <1>1, <1>2, <2>1
  <2> QED BY <2>1, <2>2
<1>8. e <= n => s[e] = Ampersand
  <2> SUFFICES ASSUME e <= n PROVE s[e] = Ampersand
    OBVIOUS
  <2> DEFINE y == i + t
  <2>1. y <= q /\ y \in 1 .. n + 1 - start /\ start + y - 1 = e
    BY <1>0, <1>1, <1>2
  <2>2. query[y] = Ampersand
    BY <1>2, <2>1
  <2> HIDE DEF y, e, p
  <2>3. query[y] = s[start + y - 1]
    BY <1>1, <2>1
  <2> QED BY <2>1, <2>2, <2>3
<1> HIDE DEF p, e
<1>9. \A j \in 1 .. l : s[p + j - 1] = key[j] /\ key[j] # Equals
  <2>1. \A j \in 1 .. l : j \in 1 .. t
    BY <1>2, <1>4
  <2> QED BY <1>3, <1>6, <2>1 DEF l
<1>10. s[p + l] = Equals
  <2> DEFINE j == l + 1
  <2>0. l \in Nat /\ t \in Nat /\ l + 2 <= t /\ p \in Nat
    BY <1>2, <1>4, <1>5
  <2>1. j \in 1 .. t /\ p + j - 1 = p + l
    <3> HIDE DEF l
    <3> QED BY ONLY <2>0
  <2>2. token[j] = Equals
    BY <1>3 DEF l
  <2> HIDE DEF j
  <2> QED BY <1>6, <2>1, <2>2
<1>11. Places(s, key) \cap 1 .. p - 1 = {}
  <2>1. Pair(token).key = key
    BY <1>3
  <2> QED BY <1>5, <2>1
<1>12. /\ found \in Seq(Bytes) /\ Len(found) = e - (p + l + 1)
       /\ \A j \in 1 .. Len(found) : found[j] = s[p + l + j]
  <2>1. PairAt(s, key, p, e)
    BY <1>4, <1>5, <1>7, <1>8, <1>9, <1>10 DEF PairAt, l, n
  <2>2. /\ found \in Seq(Bytes) /\ Len(found) = e - (p + Len(key) + 1)
        /\ \A j \in 1 .. Len(found) : found[j] = s[p + Len(key) + j]
    <3>1. s \in Seq(Bytes) /\ key \in Seq(Bytes) /\ p \in Nat /\ e \in Nat
      BY <1>5
    <3> QED BY ONLY <1>11, <2>1, <3>1, ParamFound
  <2> QED BY <2>2 DEF l
<1>13. /\ value \in Seq(Bytes) /\ Len(value) = t + 1 - (l + 2)
       /\ \A j \in 1 .. t + 1 - (l + 2) : value[j] = token[(l + 2) + j - 1]
  <2> DEFINE b == l + 2
  <2>1. b \in Nat /\ b >= 1 /\ b <= t + 1
    BY <1>2, <1>4
  <2> HIDE DEF b
  <2>2. /\ From(token, b) \in Seq(Bytes) /\ Len(From(token, b)) = t + 1 - b
        /\ \A j \in 1 .. t + 1 - b : From(token, b)[j] = token[b + j - 1]
    <3>1. token \in Seq(Bytes)
      BY <1>2
    <3> QED BY ONLY <2>1, <3>1, FromParts DEF t
  <2> QED BY <2>2 DEF b
<1> HIDE DEF found, value, l
<1>14. Len(found) = Len(value) /\ Len(found) = t - l - 1
  BY <1>2, <1>4, <1>5, <1>12, <1>13 DEF e
<1>15. ASSUME NEW j \in 1 .. Len(found) PROVE found[j] = value[j]
  <2> DEFINE x == l + 1 + j
  <2>1. x \in 1 .. t /\ p + x - 1 = p + l + j /\ (l + 2) + j - 1 = x /\ j \in 1 .. t + 1 - (l + 2)
    BY <1>2, <1>4, <1>5, <1>14
  <2>2. found[j] = s[p + l + j]
    BY <1>12
  <2> HIDE DEF x
  <2>3. s[p + x - 1] = token[x] /\ value[j] = token[x]
    BY <1>6, <1>13, <2>1
  <2> QED BY <2>1, <2>2, <2>3
<1>16. found = value
  BY <1>12, <1>13, <1>14, <1>15, SeqEqual
<1> QED BY <1>3, <1>16 DEF found, value, l

\* What BodyParsed asks of a query, and what it says of the pairs of a body.
GoodQuery(query) ==
    /\ query # <<>>
    /\ Separated(query, Ampersand)
    /\ \A token \in ToSet(Tokens(query, Ampersand)) : WellFormed(token)

BodyRead(s, start, pairs) ==
    /\ FlattenSeq([k \in DOMAIN pairs |-> Shown(pairs[k])]) = <<Ampersand>> \o From(s, start)
    /\ \A k \in DOMAIN pairs :
         Places(s, pairs[k].key)
             \cap 1 .. Len(FlattenSeq([j \in 1 .. k - 1 |-> Shown(pairs[j])])) + start - 1 = {}
           => parse_param(s, pairs[k].key) = pairs[k].value

\* A body of well-formed pairs: the list that parse_params makes of it, turned
\* round, and the value that parse_param finds for each of its keys.
LEMMA BodyIsParsed ==
    ASSUME NEW s \in Seq(Bytes), NEW start,
           start = IF s # <<>> /\ s[1] = Question THEN 2 ELSE 1,
           GoodQuery(From(s, start)),
           NEW pairs, pairs = Reverse(parse_params(s))
    PROVE  BodyRead(s, start, pairs)
<1> DEFINE n == Len(s)
           query == From(s, start)
           q == Len(query)
           t == Tokens(query, Ampersand)
           m == Len(t)
           seqs == Separately(query, Ampersand)
           shown == [k \in DOMAIN pairs |-> Shown(pairs[k])]
           read == [k \in DOMAIN t |-> Pair(t[k])]
<1>0. n \in Nat /\ Ampersand \in Bytes
  BY SeqParts DEF Ampersand, Bytes
<1>1. s # <<>> /\ n >= 1
  <2>1. SUFFICES ASSUME s = <<>> PROVE FALSE
    BY <1>0, EmptySeq
  <2>2. start \in Nat /\ start >= 1 /\ start <= n + 1 /\ n + 1 - start = 0
    BY <1>0, <2>1
  <2>3. query \in Seq(Bytes) /\ q = n + 1 - start
    BY ONLY s \in Seq(Bytes), <2>2, FromParts
  <2>4. query # <<>>
    BY DEF GoodQuery
  <2> HIDE DEF query
  <2> QED BY <2>2, <2>3, <2>4, EmptySeq
<1>2. start \in Nat /\ start >= 1 /\ start <= n + 1
  BY <1>0, <1>1
<1>3. query \in Seq(Bytes) /\ q \in Nat /\ q = n + 1 - start /\ q >= 1
  <2>1. query \in Seq(Bytes) /\ q = n + 1 - start
    BY ONLY s \in Seq(Bytes), <1>2, FromParts
  <2>2. query # <<>>
    BY DEF GoodQuery
  <2> HIDE DEF query
  <2> QED BY <1>0, <1>2, <2>1, <2>2, EmptySeq
<1>4. Separated(query, Ampersand) /\ \A token \in ToSet(t) : WellFormed(token)
  BY DEF GoodQuery
<1> HIDE DEF query
<1>5. /\ t \in Seq(Seq(Bytes)) /\ m >= 1
      /\ seqs \in Seq(Seq(Bytes)) /\ Len(seqs) = m
      /\ \E g : /\ Flattens(g, seqs, Bytes)
                /\ g[m] = <<Ampersand>> \o query
                /\ \A k \in 1 .. m : TokenAt(g, k, query, Ampersand)
  BY <1>0, <1>3, <1>4, TokensInPlace
<1>6. PICK g : /\ Flattens(g, seqs, Bytes)
               /\ g[m] = <<Ampersand>> \o query
               /\ \A k \in 1 .. m : TokenAt(g, k, query, Ampersand)
  BY <1>5
<1>7. /\ m \in Nat /\ DOMAIN t = 1 .. m
      /\ \A k \in 1 .. m : t[k] \in Seq(Bytes) /\ WellFormed(t[k])
  <2> HIDE DEF t
  <2>1. m \in Nat /\ DOMAIN t = 1 .. m /\ \A k \in 1 .. m : t[k] \in Seq(Bytes)
    BY <1>5, SeqParts
  <2>2. \A k \in 1 .. m : t[k] \in ToSet(t)
    BY <2>1 DEF ToSet
  <2> QED BY <1>4, <2>1, <2>2
<1>8. \A k \in 1 .. m : LET i == Len(g[k - 1]) + 1
                        IN  i \in 1 .. q /\ t[k] = Word(query, Ampersand, i)
  BY <1>6 DEF TokenAt
\* There are three characters at least, so the list is not the empty one.
<1>9. n >= 3
  <2> DEFINE i == Len(g[1 - 1]) + 1
             w == Word(query, Ampersand, i)
  <2>1. 1 \in 1 .. m
    BY <1>5, <1>7
  <2>2. i \in 1 .. q /\ t[1] = w
    BY <1>8, <2>1
  <2> HIDE DEF i
  <2>3. i \in Nat /\ i >= 1 /\ i <= q + 1
    BY <1>3, <2>2
  <2>4. Len(w) \in Nat /\ i + Len(w) <= q + 1
    BY ONLY <1>3, <2>3, WordParts
  <2>5. Len(w) >= 3
    BY <1>7, <2>1, <2>2 DEF WellFormed
  <2> HIDE DEF w
  <2> QED BY <1>0, <1>2, <1>3, <2>3, <2>4, <2>5
<1>10. pairs = [k \in 1 .. m |-> Pair(t[k])]
  <2>1. start = IF s[1] = Question THEN 2 ELSE 1
    BY <1>1
  <2>2. parse_params(s) = Reverse(read)
    <3>1. From(s, IF s[1] = Question THEN 2 ELSE 1) = query
      BY <2>1 DEF query
    <3>2. ~(Len(s) <= 2)
      BY <1>0, <1>9
    <3> HIDE DEF n
    <3> QED BY <3>1, <3>2 DEF parse_params
  <2> DEFINE S == {Pair(t[k]) : k \in 1 .. m}
  <2>3. read \in [1 .. m -> S]
    BY <1>7
  <2>4. read \in Seq(S)
    <3> HIDE DEF read, S, m
    <3> QED BY <1>7, <2>3, SeqDef
  <2>5. Reverse(Reverse(read)) = read
    <3> HIDE DEF read, S
    <3> QED BY <2>4, ReverseTwice
  <2>6. pairs = read
    <3> HIDE DEF read
    <3> QED BY <2>2, <2>5
  <2> QED BY <1>7, <2>6
<1>11. seqs = [k \in 1 .. m |-> <<Ampersand>> \o t[k]]
  BY DEF Separately
<1> HIDE DEF t, m, seqs, read
<1>12. DOMAIN pairs = 1 .. m /\ \A k \in 1 .. m : pairs[k] = Pair(t[k])
  BY <1>10
<1>13. \A k \in 1 .. m : Shown(pairs[k]) = seqs[k] /\ seqs[k] \in Seq(Bytes)
  <2>1. \A k \in 1 .. m : Shown(pairs[k]) = seqs[k]
    BY <1>7, <1>11, <1>12, PairShown
  <2>2. \A k \in 1 .. m : seqs[k] \in Seq(Bytes)
    BY <1>5, SeqParts
  <2> QED BY <2>1, <2>2
<1>14. FlattenSeq(shown) = <<Ampersand>> \o query
  <2>1. shown = seqs
    <3>1. shown = [k \in 1 .. m |-> seqs[k]]
      BY <1>12, <1>13
    <3>2. seqs = [k \in 1 .. m |-> seqs[k]]
      BY <1>11
    <3> QED BY <3>1, <3>2
  <2>2. PICK f : Flattens(f, seqs, Bytes) /\ FlattenSeq(seqs) = f[m]
    BY <1>5, FlattenSeqIs
  <2>3. \A j \in 0 .. m : f[j] = g[j]
    <3>1. Begins(seqs, seqs)
      BY <1>5, <1>7 DEF Begins
    <3>2. \A j \in 0 .. Len(seqs) : f[j] = g[j]
      BY <1>5, <1>6, <2>2, <3>1, FlattensAgree
    <3> QED BY <1>5, <3>2
  <2>4. m \in 0 .. m
    BY <1>7
  <2> HIDE DEF shown
  <2> QED BY <1>6, <2>1, <2>2, <2>3, <2>4
<1>15. ASSUME NEW k \in 1 .. m
       PROVE  FlattenSeq([j \in 1 .. k - 1 |-> Shown(pairs[j])]) = g[k - 1]
  <2> DEFINE pre == [j \in 1 .. k - 1 |-> Shown(pairs[j])]
  <2>1. k - 1 \in Nat /\ k - 1 <= m /\ \A j \in 1 .. k - 1 : j \in 1 .. m
    BY <1>7
  <2>2. pre \in [1 .. k - 1 -> Seq(Bytes)] /\ \A j \in 1 .. k - 1 : pre[j] = seqs[j]
    BY <1>13, <2>1
  <2> HIDE DEF pre
  <2>3. pre \in Seq(Seq(Bytes)) /\ Len(pre) = k - 1
    <3> DEFINE l == k - 1
    <3>1. l \in Nat /\ pre \in [1 .. l -> Seq(Bytes)]
      BY <2>1, <2>2
    <3> HIDE DEF l
    <3>2. pre \in Seq(Seq(Bytes))
      BY <3>1, SeqDef
    <3>3. Len(pre) = l
      BY <3>1, <3>2, LenProperties
    <3> QED BY <3>2, <3>3 DEF l
  <2>4. PICK h : Flattens(h, pre, Bytes) /\ FlattenSeq(pre) = h[Len(pre)]
    BY <2>3, FlattenSeqIs
  <2>5. \A j \in 0 .. Len(pre) : g[j] = h[j]
    <3>1. Begins(pre, seqs)
      BY <1>5, <2>1, <2>2, <2>3 DEF Begins
    <3>2. /\ seqs \in Seq(Seq(Bytes)) /\ pre \in Seq(Seq(Bytes))
          /\ Flattens(g, seqs, Bytes) /\ Flattens(h, pre, Bytes)
      BY <1>5, <1>6, <2>3, <2>4
    <3> QED BY ONLY <3>1, <3>2, FlattensAgree
  <2>6. k - 1 \in 0 .. Len(pre)
    BY <2>1, <2>3
  <2>7. FlattenSeq(pre) = g[k - 1]
    BY <2>3, <2>4, <2>5, <2>6
  <2> QED BY <2>7 DEF pre
<1>16. ASSUME NEW k \in 1 .. m,
              Places(s, pairs[k].key)
                \cap 1 .. Len(FlattenSeq([j \in 1 .. k - 1 |-> Shown(pairs[j])])) + start - 1 = {}
       PROVE  parse_param(s, pairs[k].key) = pairs[k].value
  <2> DEFINE i == Len(g[k - 1]) + 1
             token == t[k]
  <2>1. i \in 1 .. q /\ token = Word(query, Ampersand, i)
    BY <1>8
  <2>2. Places(s, Pair(token).key) \cap 1 .. Len(g[k - 1]) + start - 1 = {}
    BY <1>12, <1>15, <1>16
  <2>3. Len(g[k - 1]) + start - 1 = start + i - 2
    <3>1. Len(g[k - 1]) \in Nat
      <4>1. k - 1 \in 0 .. Len(seqs)
        BY <1>5, <1>7
      <4>2. g[k - 1] \in Seq(Bytes)
        BY <1>6, <4>1 DEF Flattens
      <4> QED BY <4>2, SeqParts
    <3> DEFINE l == Len(g[k - 1])
    <3>2. l \in Nat
      BY <3>1
    <3> HIDE DEF l
    <3>3. l + start - 1 = start + (l + 1) - 2
      BY <1>2, <3>2
    <3> QED BY <3>3 DEF l
  <2>4. WellFormed(token)
    BY <1>7
  <2>5. Places(s, Pair(token).key) \cap 1 .. start + i - 2 = {}
    BY <2>2, <2>3
  <2> HIDE DEF i, token
  <2>6. i \in Nat /\ i >= 1 /\ i <= q
    BY <1>3, <2>1
  <2>7. parse_param(s, Pair(token).key) = Pair(token).value
    BY ONLY s \in Seq(Bytes), <1>2, <2>1, <2>4, <2>5, <2>6, ValueFound DEF query, q, n
  <2> QED BY <1>12, <2>7 DEF token
<1> QED BY <1>12, <1>14, <1>16 DEF query, BodyRead

-----------------------------------------------------------------------------
(* The head of a request.                                                  *)

\* Before ends where the first element of stops is.
LEMMA BeforeIs ==
    ASSUME NEW S, NEW s \in Seq(S), NEW stops, NEW e \in Nat, e <= Len(s),
           \A x \in 1 .. e : s[x] \notin stops,
           e < Len(s) => s[e + 1] \in stops
    PROVE  /\ Len(Before(s, stops)) = e
           /\ Before(s, stops) = SubSeq(s, 1, e)
           /\ e = Len(s) => Before(s, stops) = s
<1> DEFINE w == Before(s, stops)
           l == Len(w)
           n == Len(s)
<1>0. n \in Nat
  BY SeqParts
<1>1. w \in Seq(S) /\ IsBefore(w, s, stops)
  BY BeforeParts
<1> HIDE DEF w
<1>2. /\ l \in Nat /\ l <= n
      /\ \A x \in 1 .. l : w[x] = s[x] /\ s[x] \notin stops
      /\ l < n => s[l + 1] \in stops
      /\ l = n => w = s
  BY <1>1 DEF IsBefore
<1> HIDE DEF l, n
<1>3. l = e
  <2>1. ~(l < e)
    <3>1. l < e => l + 1 \in 1 .. e /\ l < n
      BY <1>0, <1>2 DEF n
    <3> QED BY <1>2, <3>1
  <2>2. ~(e < l)
    <3>1. e < l => e + 1 \in 1 .. l /\ e < n
      BY <1>0, <1>2
    <3> QED BY <1>2, <3>1 DEF n
  <2> QED BY <1>2, <2>1, <2>2
<1>4. w = SubSeq(s, 1, e)
  <2> DEFINE v == SubSeq(s, 1, e)
  <2>1. 1 <= e + 1 /\ e \in Nat /\ 1 \in Nat /\ 1 >= 1 /\ e + 1 - 1 = e
    OBVIOUS
  <2>2. /\ v \in Seq(S) /\ Len(v) = e + 1 - 1
        /\ \A k \in 1 .. e + 1 - 1 : v[k] = s[1 + k - 1]
    BY <2>1, PartParts
  <2>3. \A k \in 1 .. e : 1 + k - 1 = k
    OBVIOUS
  <2> HIDE DEF v
  <2>4. Len(v) = e /\ \A k \in 1 .. e : v[k] = s[k]
    BY <2>1, <2>2, <2>3
  <2>5. Len(w) = e /\ \A k \in 1 .. e : w[k] = s[k]
    BY <1>2, <1>3 DEF l
  <2>6. w = v
    BY <1>1, <2>2, <2>4, <2>5, SeqEqual
  <2> QED BY <2>6 DEF v
<1> QED BY <1>2, <1>3, <1>4 DEF w, l, n

\* Behind ends where the first element that is not in S is.
LEMMA BehindIs ==
    ASSUME NEW C, NEW s \in Seq(C), NEW S, NEW i \in Nat, i >= 1, NEW b \in Nat,
           i <= b, b <= Len(s) + 1,
           \A j \in i .. b - 1 : s[j] \in S,
           b <= Len(s) => s[b] \notin S
    PROVE  Behind(s, i, S) = b
<1> DEFINE a == Behind(s, i, S)
           n == Len(s)
<1>0. n \in Nat /\ i <= n + 1
  BY SeqParts
<1>1. /\ a \in Nat /\ i <= a /\ a <= n + 1
      /\ \A j \in i .. a - 1 : s[j] \in S
      /\ a <= n => s[a] \notin S
  BY <1>0, BehindParts
<1> HIDE DEF a, n
<1>2. ~(a < b)
  <2>1. a < b => a \in i .. b - 1 /\ a <= n
    BY <1>0, <1>1 DEF n
  <2> QED BY <1>1, <2>1
<1>3. ~(b < a)
  <2>1. b < a => b \in i .. a - 1 /\ b <= n
    BY <1>0, <1>1 DEF n
  <2> QED BY <1>1, <2>1 DEF n
<1>4. a = b
  BY <1>1, <1>2, <1>3
<1> QED BY <1>4 DEF a

\* What starts at i in what starts at p.
LEMMA FromFrom ==
    ASSUME NEW C, NEW s \in Seq(C), NEW p \in Nat, p >= 1, NEW i \in Nat, i >= 1,
           p + i - 1 <= Len(s) + 1
    PROVE  From(From(s, p), i) = From(s, p + i - 1)
<1> DEFINE n == Len(s)
           q == From(s, p)
           u == From(q, i)
           o == p + i - 1
           v == From(s, o)
<1>0. n \in Nat /\ p <= n + 1 /\ o \in Nat /\ o >= 1 /\ o <= n + 1
  BY SeqParts
<1>1. /\ q \in Seq(C) /\ Len(q) = n + 1 - p
      /\ \A k \in 1 .. n + 1 - p : q[k] = s[p + k - 1]
  BY <1>0, FromParts
<1> HIDE DEF q
<1>2. i <= Len(q) + 1 /\ Len(q) + 1 - i = n + 1 - o
  BY <1>0, <1>1
<1>3. /\ u \in Seq(C) /\ Len(u) = n + 1 - o
      /\ \A k \in 1 .. n + 1 - o : u[k] = q[i + k - 1]
  <2>1. q \in Seq(C) /\ i <= Len(q) + 1
    BY <1>1, <1>2
  <2>2. /\ u \in Seq(C) /\ Len(u) = Len(q) + 1 - i
        /\ \A k \in 1 .. Len(q) + 1 - i : u[k] = q[i + k - 1]
    BY <2>1, FromParts
  <2> HIDE DEF u, o
  <2> QED BY <1>2, <2>2
<1> HIDE DEF u, o
<1>4. /\ v \in Seq(C) /\ Len(v) = n + 1 - o
      /\ \A k \in 1 .. n + 1 - o : v[k] = s[o + k - 1]
  BY <1>0, FromParts
<1> HIDE DEF v
<1>5. ASSUME NEW k \in 1 .. n + 1 - o PROVE u[k] = v[k]
  <2> DEFINE j == i + k - 1
  <2>1. j \in 1 .. n + 1 - p /\ p + j - 1 = o + k - 1
    BY <1>0, <1>2 DEF o
  <2>2. u[k] = q[j] /\ v[k] = s[o + k - 1]
    BY <1>3, <1>4
  <2> HIDE DEF j
  <2>3. q[j] = s[p + j - 1]
    BY <1>1, <2>1
  <2> QED BY <2>1, <2>2, <2>3
<1>6. u = v
  BY <1>3, <1>4, <1>5, SeqEqual
<1> QED BY <1>6 DEF u, v, q, o

\* A part of whole where it stands, and the same part of it.
LEMMA PartStands ==
    ASSUME NEW C, NEW whole \in Seq(C), NEW part \in Seq(C), NEW a \in Nat,
           Stands(whole, a, part), a + Len(part) <= Len(whole),
           NEW i \in Nat, i >= 1, NEW j \in Nat, i <= j + 1, j <= Len(part),
           NEW x, x = a + i, NEW y, y = a + j
    PROVE  SubSeq(whole, x, y) = SubSeq(part, i, j)
<1> DEFINE n == Len(whole)
           l == Len(part)
           u == SubSeq(whole, x, y)
           v == SubSeq(part, i, j)
           d == j + 1 - i
<1>0. /\ n \in Nat /\ l \in Nat /\ x \in Nat /\ y \in Nat /\ x >= 1 /\ y <= n /\ x <= y + 1
      /\ y + 1 - x = d /\ j <= l
  BY SeqParts
<1>1. /\ u \in Seq(C) /\ Len(u) = y + 1 - x
      /\ \A k \in 1 .. y + 1 - x : u[k] = whole[x + k - 1]
  BY <1>0, PartParts
<1>2. /\ v \in Seq(C) /\ Len(v) = d
      /\ \A k \in 1 .. d : v[k] = part[i + k - 1]
  BY PartParts
<1> HIDE DEF u, v, d
<1>3. ASSUME NEW k \in 1 .. d PROVE u[k] = v[k]
  <2> DEFINE z == i + k - 1
  <2>1. z \in 1 .. l /\ a + z = x + k - 1
    BY <1>0 DEF d
  <2>2. u[k] = whole[x + k - 1] /\ v[k] = part[z]
    BY <1>0, <1>1, <1>2
  <2> HIDE DEF z
  <2>3. whole[a + z] = part[z]
    BY <2>1 DEF Stands
  <2> QED BY <2>1, <2>2, <2>3
<1>4. u = v
  BY <1>0, <1>1, <1>2, <1>3, SeqEqual
<1> QED BY <1>4 DEF u, v

\* skip_quoted at p of s: the word goes up to the delimiter at e, or to the end,
\* and what is left starts at b.
SkipsTo(s, p, e, b, delimiters, whitespace) ==
    /\ p \in 1 .. Len(s) + 1 /\ e \in p .. Len(s) + 1 /\ b \in e .. Len(s) + 1
    /\ \A x \in p .. e - 1 : s[x] \notin delimiters
    /\ e <= Len(s) => s[e] \in delimiters /\ e < b
    /\ \A x \in e + 1 .. b - 1 : s[x] \in whitespace
    /\ b <= Len(s) => s[b] \notin whitespace

\* What skip_quoted makes of it.
LEMMA SkipIs ==
    ASSUME NEW C, NEW s \in Seq(C), NEW p, NEW e, NEW b, NEW delimiters, NEW whitespace,
           SkipsTo(s, p, e, b, delimiters, whitespace)
    PROVE  skip_quoted(From(s, p), delimiters, whitespace)
             = [word |-> SubSeq(s, p, e - 1), rest |-> From(s, b)]
<1> DEFINE n == Len(s)
           q == From(s, p)
           l == Len(q)
           w == Before(q, delimiters)
           d == e - p
           i == d + 2
           o == b - p + 1
<1>0. n \in Nat
  BY SeqParts
<1>1. /\ p \in Nat /\ p >= 1 /\ p <= n + 1 /\ e \in Nat /\ p <= e /\ e <= n + 1
      /\ b \in Nat /\ e <= b /\ b <= n + 1
      /\ \A x \in p .. e - 1 : s[x] \notin delimiters
      /\ e <= n => s[e] \in delimiters /\ e < b
      /\ \A x \in e + 1 .. b - 1 : s[x] \in whitespace
      /\ b <= n => s[b] \notin whitespace
  BY <1>0 DEF SkipsTo
<1>2. /\ q \in Seq(C) /\ l = n + 1 - p
      /\ \A k \in 1 .. n + 1 - p : q[k] = s[p + k - 1]
  BY <1>1, FromParts
<1> HIDE DEF q, l, n
<1>3. d \in Nat /\ d <= l /\ (d < l <=> e <= n) /\ (d = l <=> e = n + 1)
  BY <1>0, <1>1, <1>2
<1>4. /\ Len(w) = d
      /\ w = SubSeq(q, 1, d)
      /\ d = l => w = q
  <2>1. ASSUME NEW x \in 1 .. d PROVE q[x] \notin delimiters
    <3> DEFINE y == p + x - 1
    <3>1. y \in p .. e - 1 /\ x \in 1 .. n + 1 - p
      BY <1>0, <1>1
    <3>2. q[x] = s[y]
      BY <1>2, <3>1
    <3> HIDE DEF y
    <3> QED BY <1>1, <3>1, <3>2
  <2>2. d < l => q[d + 1] \in delimiters
    <3> SUFFICES ASSUME d < l PROVE q[d + 1] \in delimiters
      OBVIOUS
    <3> DEFINE x == d + 1
    <3>1. x \in 1 .. n + 1 - p /\ p + x - 1 = e /\ e <= n
      BY <1>0, <1>1, <1>3
    <3> HIDE DEF x
    <3>2. q[x] = s[e]
      BY <1>2, <3>1
    <3> QED BY <1>1, <3>1, <3>2 DEF x
  <2> HIDE DEF d
  <2> QED BY <1>2, <1>3, <2>1, <2>2, BeforeIs DEF l
<1> HIDE DEF w
<1>5. SubSeq(q, 1, d) = SubSeq(s, p, e - 1)
  <2> DEFINE a == p - 1
  <2>1. a \in Nat /\ a + 1 = p /\ a + d = e - 1 /\ 1 <= d + 1 /\ 1 \in Nat /\ 1 >= 1
    BY <1>1
  <2>2. Stands(s, a, q)
    <3>1. \A k \in 1 .. l : p + k - 1 = a + k
      BY <1>1
    <3> HIDE DEF a
    <3> QED BY <1>2, <3>1 DEF Stands, l
  <2>3. a + l <= n
    BY <1>0, <1>1, <1>2
  <2> HIDE DEF a
  <2>4. SubSeq(s, p, e - 1) = SubSeq(q, 1, d)
    <3> HIDE DEF d
    <3> QED BY <1>2, <1>3, <2>1, <2>2, <2>3, PartStands DEF l, n
  <2> QED BY <2>4
<1>6. CASE e = n + 1
  <2>1. w = q
    BY <1>3, <1>4, <1>6
  <2>2. From(s, b) = <<>>
    <3>1. b = n + 1
      BY <1>0, <1>1, <1>6
    <3>2. b \in Nat /\ b >= 1 /\ b <= Len(s) + 1 /\ Len(s) + 1 - b = 0
      BY <1>0, <3>1 DEF n
    <3>3. From(s, b) \in Seq(C) /\ Len(From(s, b)) = 0
      BY <3>2, FromParts
    <3> QED BY <3>3, EmptySeq
  <2>3. skip_quoted(q, delimiters, whitespace) = [word |-> w, rest |-> <<>>]
    BY <2>1 DEF skip_quoted, w
  <2> QED BY <1>4, <1>5, <2>2, <2>3 DEF q
<1>7. CASE e # n + 1
  <2>1. d < l /\ e <= n /\ e < b
    BY <1>0, <1>1, <1>3, <1>7
  <2>2. w # q
    BY <1>3, <1>4, <2>1 DEF l
  <2>3. Behind(q, i, whitespace) = o
    <3>1. i \in Nat /\ i >= 1 /\ o \in Nat /\ i <= o /\ o <= l + 1
      BY <1>0, <1>1, <1>2, <2>1
    <3>2. ASSUME NEW j \in i .. o - 1 PROVE q[j] \in whitespace
      <4> DEFINE x == p + j - 1
      <4>1. x \in e + 1 .. b - 1 /\ j \in 1 .. n + 1 - p
        BY <1>0, <1>1, <2>1
      <4>2. q[j] = s[x]
        BY <1>2, <4>1
      <4> HIDE DEF x
      <4> QED BY <1>1, <4>1, <4>2
    <3>3. o <= l => q[o] \notin whitespace
      <4> SUFFICES ASSUME o <= l PROVE q[o] \notin whitespace
        OBVIOUS
      <4>1. o \in 1 .. n + 1 - p /\ p + o - 1 = b /\ b <= n
        BY <1>0, <1>1, <1>2
      <4> HIDE DEF o
      <4>2. q[o] = s[b]
        BY <1>2, <4>1
      <4> QED BY <1>1, <4>1, <4>2
    <3> HIDE DEF i, o
    <3> QED BY <1>2, <3>1, <3>2, <3>3, BehindIs DEF l
  <2>4. From(q, o) = From(s, b)
    <3>1. o \in Nat /\ o >= 1 /\ p + o - 1 = b
      BY <1>1
    <3> HIDE DEF o
    <3>2. From(From(s, p), o) = From(s, p + o - 1)
      BY <1>1, <3>1, FromFrom DEF n
    <3> QED BY <3>1, <3>2 DEF q
  <2>5. skip_quoted(q, delimiters, whitespace)
          = [word |-> w, rest |-> From(q, Behind(q, Len(w) + 2, whitespace))]
    BY <2>2 DEF skip_quoted, w
  <2>6. Len(w) + 2 = i
    BY <1>4
  <2> HIDE DEF i, o
  <2> QED BY <1>4, <1>5, <2>3, <2>4, <2>5, <2>6 DEF q
<1> QED BY <1>6, <1>7

\* The colon of a line is at c, and its value starts at v.
HeaderAt(line, c, v) ==
    /\ c \in 2 .. Len(line) /\ v \in c + 1 .. Len(line) + 1
    /\ line[c] = Colon /\ \A x \in 1 .. c - 1 : line[x] # Colon
    /\ \A x \in c + 1 .. v - 1 : line[x] = Space
    /\ v <= Len(line) => line[v] # Space
    /\ HeaderOf(line) = [name |-> SubSeq(line, 1, c - 1), value |-> SubSeq(line, v, Len(line))]

\* A line has both.
LEMMA HeaderParts ==
    ASSUME NEW line \in Seq(Bytes), Colon \in ToSet(line), line[1] # Colon
    PROVE  \E c, v \in Nat : HeaderAt(line, c, v)
<1> DEFINE n == Len(line)
           w == Before(line, {Colon})
           l == Len(w)
           c == l + 1
           q == From(line, c + 1)
           b == Behind(q, 1, {Space})
           v == c + b
<1>0. n \in Nat /\ DOMAIN line = 1 .. n
  BY SeqParts
<1>1. w \in Seq(Bytes) /\ IsBefore(w, line, {Colon})
  BY BeforeParts
<1> HIDE DEF w
<1>2. /\ l \in Nat /\ l <= n
      /\ \A x \in 1 .. l : line[x] # Colon
      /\ l < n => line[l + 1] = Colon
  BY <1>1 DEF IsBefore
<1> HIDE DEF l, n
<1>3. l < n
  <2>1. PICK x \in 1 .. n : line[x] = Colon
    BY <1>0 DEF ToSet
  <2>2. ~(x \in 1 .. l)
    BY <1>2, <2>1
  <2> QED BY <1>0, <1>2, <2>2
<1>4. l >= 1
  <2>1. l = 0 => line[1] = Colon
    BY <1>2, <1>3
  <2> QED BY <1>2, <2>1
<1>5. /\ c \in Nat /\ c \in 2 .. n /\ line[c] = Colon /\ c - 1 = l
      /\ \A x \in 1 .. c - 1 : line[x] # Colon
  BY <1>0, <1>2, <1>3, <1>4
<1>6. w = SubSeq(line, 1, c - 1)
  <2>1. \A x \in 1 .. l : line[x] \notin {Colon}
    BY <1>2
  <2>2. l < n => line[l + 1] \in {Colon}
    BY <1>2
  <2>3. w = SubSeq(line, 1, l)
    BY <1>2, <2>1, <2>2, BeforeIs DEF n, w
  <2> QED BY <1>5, <2>3
<1>c. c + 1 = l + 2 /\ c + 1 \in Nat /\ c + 1 >= 1 /\ c + 1 <= n + 1
  BY <1>0, <1>2, <1>3
<1> HIDE DEF c
<1>7. /\ q \in Seq(Bytes) /\ Len(q) = n + 1 - (c + 1)
      /\ \A k \in 1 .. n + 1 - (c + 1) : q[k] = line[(c + 1) + k - 1]
  <2> DEFINE d == c + 1
  <2>1. d \in Nat /\ d >= 1 /\ d <= n + 1
    BY <1>c
  <2> HIDE DEF d
  <2>2. /\ From(line, d) \in Seq(Bytes) /\ Len(From(line, d)) = n + 1 - d
        /\ \A k \in 1 .. n + 1 - d : From(line, d)[k] = line[d + k - 1]
    BY <2>1, FromParts DEF n
  <2> QED BY <2>2 DEF d
<1> HIDE DEF q
<1>8. /\ b \in Nat /\ 1 <= b /\ b <= Len(q) + 1
      /\ \A j \in 1 .. b - 1 : q[j] \in {Space}
      /\ b <= Len(q) => q[b] \notin {Space}
  <2>1. 1 \in Nat /\ 1 >= 1 /\ 1 <= Len(q) + 1
    BY <1>0, <1>5, <1>7
  <2> QED BY <1>7, <2>1, BehindParts
<1> HIDE DEF b
<1>9. v \in Nat /\ v \in c + 1 .. n + 1 /\ v >= 1
  BY <1>0, <1>5, <1>7, <1>8
<1>10. ASSUME NEW x \in c + 1 .. v - 1 PROVE line[x] = Space
  <2> DEFINE k == x - c
  <2>1. k \in 1 .. b - 1 /\ k \in 1 .. n + 1 - (c + 1) /\ (c + 1) + k - 1 = x
    BY <1>0, <1>5, <1>7, <1>8
  <2> HIDE DEF k
  <2>2. q[k] \in {Space} /\ q[k] = line[(c + 1) + k - 1]
    BY <1>7, <1>8, <2>1
  <2> QED BY <2>1, <2>2
<1>11. v <= n => line[v] # Space
  <2> SUFFICES ASSUME v <= n PROVE line[v] # Space
    OBVIOUS
  <2>1. b <= Len(q) /\ b \in 1 .. n + 1 - (c + 1) /\ (c + 1) + b - 1 = v
    BY <1>0, <1>5, <1>7, <1>8
  <2> HIDE DEF v
  <2>2. q[b] \notin {Space} /\ q[b] = line[(c + 1) + b - 1]
    BY <1>7, <1>8, <2>1
  <2> QED BY <2>1, <2>2
<1>12. From(q, b) = SubSeq(line, v, n)
  <2> DEFINE d == c + 1
  <2>1. d \in Nat /\ d >= 1 /\ b >= 1 /\ d + b - 1 = v /\ d + b - 1 <= n + 1
    BY <1>c, <1>5, <1>8, <1>9
  <2>2. q = From(line, d)
    BY DEF q
  <2> HIDE DEF d, v
  <2>3. From(From(line, d), b) = From(line, d + b - 1)
    BY <1>8, <2>1, FromFrom DEF n
  <2>4. From(q, b) = From(line, v)
    BY <2>1, <2>2, <2>3
  <2> QED BY <2>4 DEF From, n
<1>13. HeaderOf(line) = [name |-> w, value |-> From(q, b)]
  <2>1. From(line, Len(w) + 2) = q
    BY <1>c DEF q, l
  <2> QED BY <2>1 DEF HeaderOf, w, b
<1> HIDE DEF v
<1>14. HeaderOf(line) = [name |-> SubSeq(line, 1, c - 1), value |-> SubSeq(line, v, n)]
  BY <1>6, <1>12, <1>13
<1>15. HeaderAt(line, c, v)
  BY <1>5, <1>9, <1>10, <1>11, <1>14 DEF HeaderAt, n
<1> QED BY <1>5, <1>9, <1>15

EndOfLine == {CR, LF}

\* A line with a header.
IsLine(line) ==
    /\ line \in Seq(Bytes) /\ Len(line) >= 1
    /\ \A x \in 1 .. Len(line) : line[x] \notin EndOfLine
    /\ Colon \in ToSet(line) /\ line[1] # Colon

\* A line stands in s behind a - 1, and its end goes on until b.
LineAt(s, line, a, b) ==
    /\ a \in Nat /\ b \in Nat /\ a >= 1 /\ a + Len(line) < b /\ b <= Len(s) + 1
    /\ Stands(s, a - 1, line)
    /\ \A x \in a + Len(line) .. b - 1 : s[x] \in EndOfLine
    /\ b <= Len(s) => s[b] \notin EndOfLine

\* parse_http_headers takes such a line apart and goes on at b.
LEMMA LineTaken ==
    ASSUME NEW s \in Seq(Bytes), NEW line, IsLine(line), NEW a, NEW b, LineAt(s, line, a, b)
    PROVE  LET name == skip_quoted(From(s, a), {Colon}, {Space})
           IN  /\ name.word = HeaderOf(line).name
               /\ name.word # <<>>
               /\ skip(name.rest, EndOfLine) = [word |-> HeaderOf(line).value, rest |-> From(s, b)]
<1> DEFINE n == Len(s)
           l == Len(line)
           name == skip_quoted(From(s, a), {Colon}, {Space})
<1>0. /\ n \in Nat /\ l \in Nat /\ l >= 1 /\ line \in Seq(Bytes)
      /\ \A x \in 1 .. l : line[x] \notin EndOfLine
  BY SeqParts DEF IsLine
<1>1. /\ a \in Nat /\ b \in Nat /\ a >= 1 /\ a + l < b /\ b <= n + 1
      /\ \A x \in a + l .. b - 1 : s[x] \in EndOfLine
      /\ b <= n => s[b] \notin EndOfLine
  BY DEF LineAt
<1>2. PICK c \in Nat, v \in Nat : HeaderAt(line, c, v)
  BY <1>0, HeaderParts DEF IsLine
<1>3. /\ c >= 2 /\ c <= l /\ v >= c + 1 /\ v <= l + 1
      /\ line[c] = Colon /\ \A x \in 1 .. c - 1 : line[x] # Colon
      /\ \A x \in c + 1 .. v - 1 : line[x] = Space
      /\ v <= l => line[v] # Space
      /\ HeaderOf(line) = [name |-> SubSeq(line, 1, c - 1), value |-> SubSeq(line, v, l)]
  BY <1>0, <1>2 DEF HeaderAt
<1> DEFINE ac == (a - 1) + c
           av == (a - 1) + v
           al == (a - 1) + l + 1
<1> HIDE DEF n, l
<1>r. /\ a \in Nat /\ b \in Nat /\ l \in Nat /\ n \in Nat /\ a >= 1 /\ a + l < b /\ b <= n + 1
      /\ c >= 2 /\ c <= l /\ v >= c + 1 /\ v <= l + 1
  BY <1>0, <1>1, <1>3
\* The characters of the line where they stand.
<1>4. ASSUME NEW x \in a .. al - 1 PROVE s[x] = line[x + 1 - a] /\ x + 1 - a \in 1 .. l
  <2> DEFINE y == x + 1 - a
  <2>1. y \in 1 .. l /\ (a - 1) + y = x
    BY <1>0, <1>1
  <2> HIDE DEF y
  <2>2. s[(a - 1) + y] = line[y]
    BY <2>1 DEF LineAt, Stands, l
  <2> QED BY <2>1, <2>2 DEF y
<1>5. SkipsTo(s, a, ac, av, {Colon}, {Space})
  <2>1. /\ a \in 1 .. n + 1 /\ ac \in a .. n + 1 /\ av \in ac .. n + 1
        /\ ac <= n /\ ac < av /\ ac \in a .. al - 1 /\ ac + 1 - a = c
    <3>1. ac \in Nat /\ a <= ac /\ ac <= n /\ ac + 1 - a = c
      BY ONLY <1>r, c \in Nat
    <3>2. av \in Nat /\ ac < av /\ av <= n + 1
      BY ONLY <1>r, c \in Nat, v \in Nat
    <3>3. al \in Nat /\ ac <= al - 1
      BY ONLY <1>r, c \in Nat
    <3> HIDE DEF ac, av, al
    <3> QED BY ONLY <1>r, <3>1, <3>2, <3>3
  <2>2. ASSUME NEW x \in a .. ac - 1 PROVE s[x] \notin {Colon}
    <3>1. x \in a .. al - 1 /\ x + 1 - a \in 1 .. c - 1
      BY <1>1, <1>3, <1>0
    <3> HIDE DEF al
    <3> QED BY <1>3, <1>4, <3>1
  <2>3. s[ac] \in {Colon}
    <3> HIDE DEF ac, al
    <3> QED BY <1>3, <1>4, <2>1
  <2>4. ASSUME NEW x \in ac + 1 .. av - 1 PROVE s[x] \in {Space}
    <3>1. x \in a .. al - 1 /\ x + 1 - a \in c + 1 .. v - 1
      BY <1>1, <1>3, <1>0
    <3> HIDE DEF al
    <3> QED BY <1>3, <1>4, <3>1
  <2>5. s[av] \notin {Space}
    <3>1. CASE v <= l
      <4>1. av \in a .. al - 1 /\ av + 1 - a = v
        BY <1>0, <1>1, <1>3, <3>1
      <4> HIDE DEF av, al
      <4> QED BY <1>3, <1>4, <3>1, <4>1
    <3>2. CASE ~(v <= l)
      <4>1. av = a + l /\ av \in a + l .. b - 1
        BY <1>0, <1>1, <1>3, <3>2
      <4>2. s[av] \in EndOfLine
        BY <1>1, <4>1
      <4> QED BY <4>2 DEF EndOfLine, CR, LF, Space
    <3> QED BY <3>1, <3>2
  <2> HIDE DEF ac, av
  <2> QED BY <2>1, <2>2, <2>3, <2>4, <2>5 DEF SkipsTo, n
<1>6. name = [word |-> SubSeq(s, a, ac - 1), rest |-> From(s, av)]
  <2> HIDE DEF ac, av, name
  <2>1. skip_quoted(From(s, a), {Colon}, {Space})
          = [word |-> SubSeq(s, a, ac - 1), rest |-> From(s, av)]
    <3> DEFINE D == {Colon}
               W == {Space}
    <3>1. SkipsTo(s, a, ac, av, D, W)
      BY <1>5
    <3> HIDE DEF D, W
    <3>2. skip_quoted(From(s, a), D, W) = [word |-> SubSeq(s, a, ac - 1), rest |-> From(s, av)]
      BY ONLY s \in Seq(Bytes), <3>1, SkipIs
    <3> QED BY <3>2 DEF D, W
  <2> QED BY <2>1 DEF name
<1>7. SkipsTo(s, av, al, b, EndOfLine, EndOfLine)
  <2>1. /\ av \in 1 .. n + 1 /\ al \in av .. n + 1 /\ b \in al .. n + 1
        /\ al <= n /\ al < b /\ al = a + l /\ al \in a + l .. b - 1
    <3>1. al = a + l
      BY <1>r
    <3>2. av >= 1 /\ av <= al /\ av \in Nat
      BY <1>r
    <3> HIDE DEF al, av
    <3> QED BY <1>r, <3>1, <3>2
  <2>2. ASSUME NEW x \in av .. al - 1 PROVE s[x] \notin EndOfLine
    <3>1. x \in a .. al - 1
      BY <1>0, <1>1, <1>3
    <3> HIDE DEF al
    <3> QED BY <1>0, <1>4, <3>1
  <2>3. s[al] \in EndOfLine /\ \A x \in al + 1 .. b - 1 : s[x] \in EndOfLine
    <3>1. \A x \in al + 1 .. b - 1 : x \in a + l .. b - 1
      BY <1>0, <1>1
    <3> HIDE DEF al
    <3> QED BY <1>1, <2>1, <3>1
  <2> HIDE DEF al, av
  <2> QED BY <1>1, <2>1, <2>2, <2>3 DEF SkipsTo, n
<1>8. skip(From(s, av), EndOfLine) = [word |-> SubSeq(s, av, al - 1), rest |-> From(s, b)]
  <2> HIDE DEF av, al
  <2> QED BY <1>7, SkipIs DEF skip
<1>9. /\ SubSeq(s, a, ac - 1) = SubSeq(line, 1, c - 1)
      /\ SubSeq(s, av, al - 1) = SubSeq(line, v, l)
  <2> DEFINE a1 == a - 1
             c1 == c - 1
  <2>1. /\ a1 \in Nat /\ c1 \in Nat /\ a1 + 1 = a /\ a1 + c1 = ac - 1
        /\ a1 + v = av /\ a1 + l = al - 1 /\ a1 + l <= n
        /\ 1 \in Nat /\ 1 >= 1 /\ 1 <= c1 + 1 /\ c1 <= l /\ v >= 1 /\ v <= l + 1
    BY <1>0, <1>1, <1>3
  <2>2. Stands(s, a1, line)
    BY DEF LineAt
  <2> HIDE DEF a1, c1, ac, av, al
  <2>3. s \in Seq(Bytes) /\ line \in Seq(Bytes)
    BY <1>0
  <2>4. SubSeq(s, a, ac - 1) = SubSeq(line, 1, c1)
    BY ONLY <2>1, <2>2, <2>3, PartStands DEF l, n
  <2>5. SubSeq(s, av, al - 1) = SubSeq(line, v, l)
    BY ONLY v \in Nat, <1>0, <2>1, <2>2, <2>3, PartStands DEF l, n
  <2> QED BY <2>4, <2>5 DEF c1
<1>10. SubSeq(line, 1, c - 1) # <<>>
  <2> DEFINE c1 == c - 1
  <2>1. c1 \in Nat /\ c1 >= 1 /\ c1 <= l /\ 1 <= c1 + 1 /\ 1 \in Nat /\ 1 >= 1
    BY <1>0, <1>3
  <2> HIDE DEF c1
  <2>2. Len(SubSeq(line, 1, c1)) = c1 + 1 - 1
    BY <1>0, <2>1, PartParts DEF l
  <2>3. Len(SubSeq(line, 1, c1)) # 0
    BY <2>1, <2>2
  <2>4. Len(<<>>) = 0
    BY EmptySeq
  <2>5. SubSeq(line, 1, c1) # <<>>
    BY <2>3, <2>4
  <2> QED BY <2>5 DEF c1
<1> HIDE DEF ac, av, al, name
<1> DEFINE first == SubSeq(line, 1, c - 1)
           last == SubSeq(line, v, l)
<1>11. /\ HeaderOf(line) = [name |-> first, value |-> last]
       /\ name = [word |-> first, rest |-> From(s, av)]
       /\ skip(From(s, av), EndOfLine) = [word |-> last, rest |-> From(s, b)]
       /\ first # <<>>
  BY ONLY <1>3, <1>6, <1>8, <1>9, <1>10, Zenon
<1> HIDE DEF first, last
<1>12. name.word = HeaderOf(line).name /\ name.word # <<>> /\ name.rest = From(s, av)
  BY ONLY <1>11
<1>13. skip(name.rest, EndOfLine) = [word |-> HeaderOf(line).value, rest |-> From(s, b)]
  BY ONLY <1>11, <1>12
<1> QED BY <1>12, <1>13 DEF name

\* The lines stand in s one behind the other, where at says, up to the end of s.
Laid(s, lines, at) ==
    /\ at[Len(lines) + 1] = Len(s) + 1
    /\ \A k \in 1 .. Len(lines) : IsLine(lines[k]) /\ LineAt(s, lines[k], at[k], at[k + 1])

\* parse_http_headers takes one line.
Parsed(p) ==
    LET name == skip_quoted(p.rest, {Colon}, {Space})
        value == skip(name.rest, {CR, LF})
    IN  IF ~p.more \/ name.word = <<>>
        THEN [p EXCEPT !.more = FALSE]
        ELSE [headers |-> Append(p.headers, [name |-> name.word, value |-> value.word]),
              rest |-> value.rest, more |-> TRUE]

\* A line that is there.
LEMMA ParsedLine ==
    ASSUME NEW s \in Seq(Bytes), NEW line, IsLine(line), NEW a, NEW b, LineAt(s, line, a, b),
           NEW headers
    PROVE  Parsed([headers |-> headers, rest |-> From(s, a), more |-> TRUE])
             = [headers |-> Append(headers, HeaderOf(line)), rest |-> From(s, b), more |-> TRUE]
<1> DEFINE name == skip_quoted(From(s, a), {Colon}, {Space})
           value == skip(name.rest, EndOfLine)
           p == [headers |-> headers, rest |-> From(s, a), more |-> TRUE]
           h == HeaderOf(line)
<1>1. /\ name.word = h.name /\ name.word # <<>>
      /\ value = [word |-> h.value, rest |-> From(s, b)]
  BY LineTaken
<1>2. h = [name |-> h.name, value |-> h.value]
  BY DEF HeaderOf
<1>3. Parsed(p) = IF ~TRUE \/ name.word = <<>>
                  THEN [p EXCEPT !.more = FALSE]
                  ELSE [headers |-> Append(headers, [name |-> name.word, value |-> value.word]),
                        rest |-> value.rest, more |-> TRUE]
  <2>1. p.rest = From(s, a) /\ p.more = TRUE /\ p.headers = headers
    OBVIOUS
  <2> HIDE DEF p
  <2> QED BY <2>1, Zenon DEF Parsed, EndOfLine
<1> HIDE DEF name, value, h, p
<1>4. value.word = h.value /\ value.rest = From(s, b)
  BY <1>1
<1>5. [name |-> name.word, value |-> value.word] = h
  BY <1>1, <1>2, <1>4
<1>6. Parsed(p) = [headers |-> Append(headers, h), rest |-> From(s, b), more |-> TRUE]
  BY <1>1, <1>3, <1>4, <1>5
<1> QED BY <1>6 DEF p, h

\* The last field of a record is replaced.
LEMMA MoreReplaced ==
    ASSUME NEW h, NEW r, NEW a, NEW b, NEW p, p \in [headers : {h}, rest : {r}, more : {a}]
    PROVE  [p EXCEPT !.more = b] = [headers |-> h, rest |-> r, more |-> b]
OBVIOUS

\* Nothing is left, or a line was missing before.
LEMMA ParsedNothing ==
    ASSUME NEW headers, NEW rest, NEW more \in BOOLEAN, more => rest = <<>>
    PROVE  Parsed([headers |-> headers, rest |-> rest, more |-> more])
             = [headers |-> headers, rest |-> rest, more |-> FALSE]
<1> DEFINE p == [headers |-> headers, rest |-> rest, more |-> more]
           name == skip_quoted(p.rest, {Colon}, {Space})
<1>1. ~p.more \/ name.word = <<>>
  <2>1. CASE ~more
    BY <2>1
  <2>2. CASE more
    <3>1. p.rest = <<>>
      BY <2>2
    <3>2. Before(<<>>, {Colon}) = <<>>
      <4>1. <<>> \in Seq(Bytes) /\ Len(<<>>) = 0
        BY EmptySeq
      <4> QED BY <4>1 DEF Before
    <3>3. skip_quoted(<<>>, {Colon}, {Space}).word = <<>>
      BY <3>2 DEF skip_quoted
    <3> HIDE DEF p
    <3> QED BY <3>1, <3>3
  <2> QED BY <2>1, <2>2
<1>2. Parsed(p) = [p EXCEPT !.more = FALSE]
  <2> HIDE DEF p
  <2> QED BY <1>1, Zenon DEF Parsed
<1>3. [p EXCEPT !.more = FALSE] = [headers |-> headers, rest |-> rest, more |-> FALSE]
  <2>1. p \in [headers : {headers}, rest : {rest}, more : {more}]
    OBVIOUS
  <2> HIDE DEF p
  <2> DEFINE b == FALSE
  <2> HIDE DEF b
  <2>2. [p EXCEPT !.more = b] = [headers |-> headers, rest |-> rest, more |-> b]
    BY ONLY <2>1, MoreReplaced
  <2> QED BY ONLY <2>2, Zenon DEF b
<1> QED BY <1>2, <1>3

\* The headers of lines, in their order and MaxHeaders at most.
LEMMA HeadersTaken ==
    ASSUME NEW s \in Seq(Bytes), NEW lines \in Seq(Seq(Bytes)), NEW at, Laid(s, lines, at)
    PROVE  LET given == [k \in DOMAIN lines |-> HeaderOf(lines[k])]
           IN  /\ Len(given) = Len(lines)
               /\ parse_http_headers(From(s, at[1]))
                    = SubSeq(given, 1, Min({Len(given), MaxHeaders}))
<1> DEFINE m == Len(lines)
           N == MaxHeaders
           G == [k \in DOMAIN lines |-> HeaderOf(lines[k])]
           H == {HeaderOf(lines[k]) : k \in 1 .. m}
           Upto(n) == IF n <= m THEN n ELSE m
           R(n) == [headers |-> SubSeq(G, 1, Upto(n)),
                    rest |-> From(s, at[Upto(n) + 1]), more |-> n <= m]
           first == [headers |-> <<>>, rest |-> From(s, at[1]), more |-> TRUE]
           Eqn(f) == f = [n \in 0 .. N |-> IF n = 0 THEN first ELSE Parsed(f[n - 1])]
           c == CHOOSE f : Eqn(f)
           r == [n \in 0 .. N |-> R(n)]
<1>0. m \in Nat /\ DOMAIN lines = 1 .. m /\ N \in Nat
  BY SeqParts, TextAssumption
<1> HIDE DEF m, N
<1>1. G \in Seq(H) /\ Len(G) = m /\ \A k \in 1 .. m : G[k] = HeaderOf(lines[k])
  <2>1. G \in [1 .. m -> H] /\ \A k \in 1 .. m : G[k] = HeaderOf(lines[k])
    BY <1>0
  <2> HIDE DEF G, H
  <2>2. G \in Seq(H)
    BY <1>0, <2>1, SeqDef
  <2> QED BY <1>0, <2>1, <2>2, LenProperties
<1> HIDE DEF G, H
<1>2. R(0) = first
  <2>1. Upto(0) = 0 /\ (0 <= m) = TRUE
    BY <1>0
  <2>2. SubSeq(G, 1, 0) = <<>>
    BY SubSeqEmpty
  <2>3. Upto(0) + 1 = 1
    BY <2>1
  <2> HIDE DEF Upto
  <2> QED BY <2>1, <2>2, <2>3
<1>3. ASSUME NEW n \in 1 .. N PROVE R(n) = Parsed(R(n - 1))
  <2>1. CASE n <= m
    <3>1. n \in 1 .. m /\ Upto(n) = n /\ Upto(n - 1) = n - 1 /\ (n - 1 <= m) = TRUE /\ n - 1 + 1 = n
      BY <1>0, <2>1
    <3>2. R(n - 1) = [headers |-> SubSeq(G, 1, n - 1), rest |-> From(s, at[n]), more |-> TRUE]
      <4> HIDE DEF Upto
      <4> QED BY <3>1
    <3>3. R(n) = [headers |-> SubSeq(G, 1, n), rest |-> From(s, at[n + 1]), more |-> TRUE]
      <4> HIDE DEF Upto
      <4> QED BY <2>1, <3>1
    <3>4. IsLine(lines[n]) /\ LineAt(s, lines[n], at[n], at[n + 1])
      BY <3>1 DEF Laid, m
    <3> DEFINE before == SubSeq(G, 1, n - 1)
    <3> HIDE DEF before
    <3>5. Parsed([headers |-> before, rest |-> From(s, at[n]), more |-> TRUE])
            = [headers |-> Append(before, HeaderOf(lines[n])),
               rest |-> From(s, at[n + 1]), more |-> TRUE]
      BY <3>4, ParsedLine
    <3>6. Append(before, HeaderOf(lines[n])) = SubSeq(G, 1, n)
      <4>1. 1 \in 1 .. Len(G) /\ n \in 1 .. Len(G) /\ G[n] = HeaderOf(lines[n])
        BY <1>0, <1>1, <3>1
      <4>2. SubSeq(G, 1, n) = SubSeq(G, 1, n - 1) \o <<G[n]>>
        BY <1>1, <4>1, SubSeqRecursiveSecond
      <4>3. before \in Seq(H) /\ G[n] \in H
        <5>1. G[n] \in H /\ \A k \in 1 .. n - 1 : G[k] \in H
          BY <1>1, <4>1, <1>0, SeqParts
        <5>2. SubSeq(G, 1, n - 1) \in Seq(H)
          BY <5>1, SubSeqProperties
        <5> QED BY <5>1, <5>2 DEF before
      <4>4. Append(before, G[n]) = before \o <<G[n]>>
        BY <4>3, AppendIsConcat
      <4> QED BY <4>1, <4>2, <4>4 DEF before
    <3> QED BY <3>2, <3>3, <3>5, <3>6 DEF before
  <2>2. CASE n > m
    <3>1. Upto(n) = m /\ Upto(n - 1) = m /\ (n <= m) = FALSE /\ (n - 1 <= m => n - 1 = m)
      BY <1>0, <2>2
    <3> DEFINE kept == SubSeq(G, 1, m)
               rest == From(s, at[m + 1])
               more == n - 1 <= m
    <3>2. rest = <<>>
      <4>1. at[m + 1] = Len(s) + 1
        BY DEF Laid, m
      <4>2. Len(s) + 1 \in Nat /\ Len(s) + 1 >= 1 /\ Len(s) + 1 <= Len(s) + 1
            /\ Len(s) + 1 - (Len(s) + 1) = 0
        BY SeqParts
      <4> DEFINE i == Len(s) + 1
      <4> HIDE DEF i
      <4>3. From(s, i) \in Seq(Bytes) /\ Len(From(s, i)) = 0
        BY <4>2, FromParts DEF i
      <4>4. From(s, i) = <<>>
        BY <4>3, EmptySeq
      <4> QED BY <4>1, <4>4 DEF i
    <3>3. R(n - 1) = [headers |-> kept, rest |-> rest, more |-> more]
      <4> HIDE DEF Upto
      <4> QED BY <3>1
    <3>4. R(n) = [headers |-> kept, rest |-> rest, more |-> FALSE]
      <4> HIDE DEF Upto
      <4> QED BY <3>1
    <3>5. more \in BOOLEAN
      OBVIOUS
    <3> HIDE DEF kept, rest, more
    <3>6. Parsed([headers |-> kept, rest |-> rest, more |-> more])
            = [headers |-> kept, rest |-> rest, more |-> FALSE]
      BY <3>2, <3>5, ParsedNothing
    <3> QED BY <3>3, <3>4, <3>6, Zenon
  <2> QED BY <1>0, <2>1, <2>2
<1>4. /\ r[0] = first
      /\ \A n \in 1 .. N : r[n] = Parsed(r[n - 1])
  <2>1. 0 \in 0 .. N /\ \A n \in 1 .. N : n \in 0 .. N /\ n - 1 \in 0 .. N
    BY <1>0
  <2> HIDE DEF R
  <2>2. \A n \in 0 .. N : r[n] = R(n)
    OBVIOUS
  <2> HIDE DEF r, first
  <2> QED BY <1>2, <1>3, <2>1, <2>2
<1>5. Eqn(r)
  <2>1. ASSUME NEW n \in 0 .. N PROVE R(n) = IF n = 0 THEN first ELSE Parsed(r[n - 1])
    <3> HIDE DEF R, first
    <3>1. r[n] = R(n)
      OBVIOUS
    <3>2. n # 0 => n \in 1 .. N
      BY <1>0
    <3> HIDE DEF r
    <3> QED BY <1>4, <3>1, <3>2
  <2> HIDE DEF R, first
  <2> QED BY <2>1
<1>6. Eqn(c)
  <2> HIDE DEF Eqn
  <2> QED BY <1>5
<1>7. parse_http_headers(From(s, at[1])) = c[N].headers
  BY DEF parse_http_headers, Parsed, N
<1> HIDE DEF c, R
<1>8. /\ c[0] = first
      /\ \A n \in 1 .. N : c[n] = Parsed(c[n - 1])
  <2>1. 0 \in 0 .. N /\ \A n \in 1 .. N : n \in 0 .. N /\ n # 0
    BY <1>0
  <2> HIDE DEF first
  <2>2. \A n \in 0 .. N : c[n] = IF n = 0 THEN first ELSE Parsed(c[n - 1])
    BY <1>6
  <2> HIDE DEF Eqn
  <2> QED BY <2>1, <2>2
<1> HIDE DEF r, first, Eqn
<1>9. c[N] = r[N]
  <2> DEFINE T == {n \in 0 .. N : c[n] = r[n]}
  <2>1. 0 \in T
    BY <1>0, <1>4, <1>8
  <2>2. ASSUME NEW n \in 1 .. N, n - 1 \in T PROVE n \in T
    <3>1. c[n] = Parsed(c[n - 1]) /\ r[n] = Parsed(r[n - 1]) /\ c[n - 1] = r[n - 1]
      BY <1>4, <1>8, <2>2
    <3>2. c[n] = r[n]
      BY <3>1, Zenon
    <3> QED BY <1>0, <3>2
  <2>3. \A n \in 0 .. N : n \in T
    <3> HIDE DEF T
    <3> QED BY <1>0, <2>1, <2>2, CountUp
  <2> QED BY <1>0, <2>3
<1>10. r[N].headers = SubSeq(G, 1, Upto(N))
  <2>1. N \in 0 .. N
    BY <1>0
  <2> HIDE DEF Upto
  <2> QED BY <2>1 DEF r, R
<1>11. Min({Len(G), MaxHeaders}) = Upto(N)
  <2>1. Min({m, N}) = IF m <= N THEN m ELSE N
    BY <1>0, MinOfTwo
  <2> QED BY <1>0, <1>1, <2>1 DEF N
<1> HIDE DEF Upto
<1>12. Len(G) = m /\ parse_http_headers(From(s, at[1])) = SubSeq(G, 1, Min({Len(G), MaxHeaders}))
  BY <1>1, <1>7, <1>9, <1>10, <1>11
<1> QED BY <1>12 DEF G, m

\* GET / HTTP/1
RequestLine == <<71, 69, 84, Space, Slash, Space, 72, 84, 84, 80, Slash, 49>>

\* The request line stands at p behind ends of lines, and its own end goes on until b.
RequestAt(s, p, b) ==
    /\ p \in Nat /\ b \in Nat /\ p >= 1 /\ p + 12 < b /\ b <= Len(s) + 1
    /\ \A x \in 1 .. p - 1 : s[x] \in EndOfLine
    /\ Stands(s, p - 1, RequestLine)
    /\ \A x \in p + 12 .. b - 1 : s[x] \in EndOfLine
    /\ b <= Len(s) => s[b] \notin EndOfLine

\* parse_http_request takes it apart, and its headers are what starts at b.
LEMMA RequestTaken ==
    ASSUME NEW s \in Seq(Bytes), NEW p, NEW b, RequestAt(s, p, b)
    PROVE  parse_http_request(s)
             = {[method |-> GET, uri |-> <<Slash>>, version |-> <<49>>,
                 headers |-> parse_http_headers(From(s, b))]}
<1> DEFINE n == Len(s)
           method == skip(From(s, Behind(s, 1, Whitespace)), {Space})
           uri == skip(method.rest, {Space})
           version == skip(uri.rest, {CR, LF})
<1>0. n \in Nat
  BY SeqParts
<1>1. /\ p \in Nat /\ b \in Nat /\ p >= 1 /\ p + 12 < b /\ b <= n + 1
      /\ \A x \in 1 .. p - 1 : s[x] \in EndOfLine
      /\ \A x \in p + 12 .. b - 1 : s[x] \in EndOfLine
      /\ b <= n => s[b] \notin EndOfLine
  BY DEF RequestAt
<1>2. /\ s[p] = 71 /\ s[p + 1] = 69 /\ s[p + 2] = 84
      /\ s[p + 3] = Space /\ s[p + 4] = Slash /\ s[p + 5] = Space
      /\ s[p + 6] = 72 /\ s[p + 7] = 84 /\ s[p + 8] = 84
      /\ s[p + 9] = 80 /\ s[p + 10] = Slash /\ s[p + 11] = 49
  <2> DEFINE a == p - 1
  <2>1. /\ a + 1 = p /\ a + 2 = p + 1 /\ a + 3 = p + 2 /\ a + 4 = p + 3 /\ a + 5 = p + 4
        /\ a + 6 = p + 5 /\ a + 7 = p + 6 /\ a + 8 = p + 7 /\ a + 9 = p + 8
        /\ a + 10 = p + 9 /\ a + 11 = p + 10 /\ a + 12 = p + 11
    BY <1>1
  <2>2. Stands(s, a, RequestLine)
    BY DEF RequestAt
  <2> HIDE DEF a
  <2>3. \A j \in 1 .. 12 : s[a + j] = RequestLine[j]
    <3>1. Len(RequestLine) = 12
      BY DEF RequestLine
    <3> QED BY <2>2, <3>1 DEF Stands
  <2>4. /\ s[a + 1] = 71 /\ s[a + 2] = 69 /\ s[a + 3] = 84
        /\ s[a + 4] = Space /\ s[a + 5] = Slash /\ s[a + 6] = Space
        /\ s[a + 7] = 72 /\ s[a + 8] = 84 /\ s[a + 9] = 84
        /\ s[a + 10] = 80 /\ s[a + 11] = Slash /\ s[a + 12] = 49
    BY <2>3 DEF RequestLine
  <2>5. s[p] = 71 /\ s[p + 1] = 69 /\ s[p + 2] = 84
    BY ONLY <2>1, <2>4
  <2>6. s[p + 3] = Space /\ s[p + 4] = Slash /\ s[p + 5] = Space
    BY ONLY <2>1, <2>4
  <2>7. s[p + 6] = 72 /\ s[p + 7] = 84 /\ s[p + 8] = 84
    BY ONLY <2>1, <2>4
  <2>8. s[p + 9] = 80 /\ s[p + 10] = Slash /\ s[p + 11] = 49
    BY ONLY <2>1, <2>4
  <2> QED BY <2>5, <2>6, <2>7, <2>8
<1> HIDE DEF n
<1>3. Behind(s, 1, Whitespace) = p
  <2>1. \A x \in 1 .. p - 1 : s[x] \in Whitespace
    BY <1>1 DEF EndOfLine, CR, LF, Whitespace
  <2>2. s[p] \notin Whitespace
    BY <1>2 DEF Whitespace, Space
  <2>3. 1 \in Nat /\ 1 >= 1 /\ 1 <= p /\ p <= n + 1
    BY <1>0, <1>1
  <2> QED BY <1>1, <2>1, <2>2, <2>3, BehindIs DEF n
<1>4. skip(From(s, p), {Space}) = [word |-> SubSeq(s, p, (p + 3) - 1), rest |-> From(s, p + 4)]
  <2> DEFINE e == p + 3
             d == p + 4
  <2>1. /\ p \in 1 .. n + 1 /\ e \in p .. n + 1 /\ d \in e .. n + 1 /\ e < d
        /\ \A x \in p .. e - 1 : x = p \/ x = p + 1 \/ x = p + 2
        /\ \A x \in e + 1 .. d - 1 : FALSE
    BY <1>0, <1>1
  <2>2. \A x \in p .. e - 1 : s[x] \notin {Space}
    <3>1. s[p] # Space /\ s[p + 1] # Space /\ s[p + 2] # Space
      BY <1>2 DEF Space
    <3> HIDE DEF e
    <3> QED BY <2>1, <3>1
  <2>3. s[e] \in {Space} /\ s[d] \notin {Space}
    BY <1>2 DEF Space, Slash
  <2> HIDE DEF e, d
  <2>4. SkipsTo(s, p, e, d, {Space}, {Space})
    BY <2>1, <2>2, <2>3 DEF SkipsTo, n
  <2>5. skip(From(s, p), {Space}) = [word |-> SubSeq(s, p, e - 1), rest |-> From(s, d)]
    BY <2>4, SkipIs DEF skip
  <2> QED BY ONLY <2>5, Zenon DEF e, d
<1>5. skip(From(s, p + 4), {Space})
        = [word |-> SubSeq(s, p + 4, (p + 5) - 1), rest |-> From(s, p + 6)]
  <2> DEFINE c == p + 4
             e == p + 5
             d == p + 6
  <2>1. /\ c \in 1 .. n + 1 /\ e \in c .. n + 1 /\ d \in e .. n + 1 /\ e < d
        /\ \A x \in c .. e - 1 : x = c
        /\ \A x \in e + 1 .. d - 1 : FALSE
    BY <1>0, <1>1
  <2>2. s[c] \notin {Space} /\ s[e] \in {Space} /\ s[d] \notin {Space}
    BY <1>2 DEF Space, Slash
  <2> HIDE DEF c, e, d
  <2>3. SkipsTo(s, c, e, d, {Space}, {Space})
    BY <2>1, <2>2 DEF SkipsTo, n
  <2>4. skip(From(s, c), {Space}) = [word |-> SubSeq(s, c, e - 1), rest |-> From(s, d)]
    BY <2>3, SkipIs DEF skip
  <2> QED BY ONLY <2>4, Zenon DEF c, e, d
<1>6. skip(From(s, p + 6), {CR, LF})
        = [word |-> SubSeq(s, p + 6, (p + 12) - 1), rest |-> From(s, b)]
  <2> DEFINE c == p + 6
             e == p + 12
  <2>1. /\ c \in 1 .. n + 1 /\ e \in c .. n + 1 /\ b \in e .. n + 1 /\ e < b
        /\ \A x \in c .. e - 1 : \/ x = p + 6 \/ x = p + 7 \/ x = p + 8
                                 \/ x = p + 9 \/ x = p + 10 \/ x = p + 11
        /\ \A x \in e + 1 .. b - 1 : x \in e .. b - 1
        /\ e \in e .. b - 1
    BY <1>0, <1>1
  <2>2. \A x \in c .. e - 1 : s[x] \notin EndOfLine
    <3>1. /\ s[p + 6] \notin EndOfLine /\ s[p + 7] \notin EndOfLine /\ s[p + 8] \notin EndOfLine
          /\ s[p + 9] \notin EndOfLine /\ s[p + 10] \notin EndOfLine /\ s[p + 11] \notin EndOfLine
      BY <1>2 DEF EndOfLine, CR, LF, Slash
    <3> HIDE DEF c, e
    <3> QED BY <2>1, <3>1
  <2>3. \A x \in e .. b - 1 : s[x] \in EndOfLine
    BY <1>1
  <2> HIDE DEF c, e
  <2>4. SkipsTo(s, c, e, b, EndOfLine, EndOfLine)
    BY <1>1, <2>1, <2>2, <2>3 DEF SkipsTo, n
  <2>5. skip(From(s, c), EndOfLine) = [word |-> SubSeq(s, c, e - 1), rest |-> From(s, b)]
    BY <2>4, SkipIs DEF skip
  <2> QED BY ONLY <2>5, Zenon DEF c, e, EndOfLine
<1>7. SubSeq(s, p, (p + 3) - 1) = GET
  <2> DEFINE w == SubSeq(s, p, (p + 3) - 1)
             y == (p + 3) - 1
  <2>1. y \in Nat /\ y <= n /\ p <= y + 1 /\ y + 1 - p = 3 /\ p + 1 - 1 = p /\ p + 2 - 1 = p + 1
        /\ (p + 3) - 1 = p + 2
    BY <1>0, <1>1
  <2>2. /\ w \in Seq(Bytes) /\ Len(w) = y + 1 - p /\ \A k \in 1 .. y + 1 - p : w[k] = s[p + k - 1]
    <3> DEFINE v == SubSeq(s, p, y)
    <3> HIDE DEF y
    <3>1. v \in Seq(Bytes) /\ Len(v) = y + 1 - p /\ \A k \in 1 .. y + 1 - p : v[k] = s[p + k - 1]
      BY <1>1, <2>1, PartParts DEF n
    <3> QED BY <3>1 DEF y
  <2> HIDE DEF w, y
  <2>3. w \in Seq(Bytes) /\ Len(w) = 3 /\ w[1] = 71 /\ w[2] = 69 /\ w[3] = 84
    <3>1. \A k \in 1 .. 3 : w[k] = s[p + k - 1]
      BY <2>1, <2>2
    <3>2. s[p + 1 - 1] = 71 /\ s[p + 2 - 1] = 69 /\ s[p + 3 - 1] = 84
      <4>1. p + 1 - 1 = p /\ p + 2 - 1 = p + 1 /\ p + 3 - 1 = p + 2
        BY <1>1
      <4> QED BY <1>2, <4>1
    <3>3. w[1] = s[p + 1 - 1]
      BY <3>1, 1 \in 1 .. 3
    <3>4. w[2] = s[p + 2 - 1]
      BY <3>1, 2 \in 1 .. 3
    <3>5. w[3] = s[p + 3 - 1]
      BY <3>1, 3 \in 1 .. 3
    <3> QED BY <2>1, <2>2, <3>2, <3>3, <3>4, <3>5
  <2>4. GET \in Seq(Bytes) /\ Len(GET) = 3 /\ GET[1] = 71 /\ GET[2] = 69 /\ GET[3] = 84
    BY DEF GET, Bytes
  <2>5. \A k \in 1 .. 3 : k = 1 \/ k = 2 \/ k = 3
    OBVIOUS
  <2>6. \A k \in 1 .. Len(w) : w[k] = GET[k]
    BY <2>3, <2>4, <2>5
  <2>7. w = GET
    BY <2>3, <2>4, <2>6, SeqEqual
  <2> QED BY <2>7 DEF w
<1>8. SubSeq(s, p + 4, (p + 5) - 1) = <<Slash>>
  <2> DEFINE c == p + 4
             w == SubSeq(s, c, c)
  <2>1. c \in Nat /\ c >= 1 /\ c <= n /\ c <= c + 1 /\ c + 1 - c = 1 /\ c + 1 - 1 = c /\ (p + 5) - 1 = c
    BY <1>0, <1>1
  <2>2. s[c] = Slash
    BY <1>2
  <2> HIDE DEF c
  <2>3. w \in Seq(Bytes) /\ Len(w) = c + 1 - c /\ \A k \in 1 .. c + 1 - c : w[k] = s[c + k - 1]
    BY <2>1, PartParts DEF n
  <2> HIDE DEF w
  <2>4. Len(w) = 1 /\ w[1] = Slash
    BY <2>1, <2>2, <2>3
  <2>5. <<Slash>> \in Seq(Bytes) /\ Len(<<Slash>>) = 1 /\ <<Slash>>[1] = Slash
    BY DEF Slash, Bytes
  <2>6. w = <<Slash>>
    <3>1. \A k \in 1 .. Len(w) : w[k] = <<Slash>>[k]
      <4>1. \A k \in 1 .. 1 : k = 1
        OBVIOUS
      <4> QED BY <2>4, <2>5, <4>1
    <3> QED BY <2>3, <2>4, <2>5, <3>1, SeqEqual
  <2> QED BY <2>1, <2>6 DEF w, c
<1> DEFINE word == SubSeq(s, p + 6, (p + 12) - 1)
<1>9. /\ word \in Seq(Bytes) /\ Len(word) = 6
      /\ word[1] = 72 /\ word[2] = 84 /\ word[3] = 84
      /\ word[4] = 80 /\ word[5] = Slash /\ word[6] = 49
  <2> DEFINE c == p + 6
             y == (p + 12) - 1
  <2>1. c \in Nat /\ c >= 1 /\ y \in Nat /\ y <= n /\ c <= y + 1 /\ y + 1 - c = 6
    BY <1>0, <1>1
  <2>2. /\ c + 1 - 1 = p + 6 /\ c + 2 - 1 = p + 7 /\ c + 3 - 1 = p + 8
        /\ c + 4 - 1 = p + 9 /\ c + 5 - 1 = p + 10 /\ c + 6 - 1 = p + 11
    BY <1>1
  <2>3. word = SubSeq(s, c, y)
    OBVIOUS
  <2> HIDE DEF c, y, word
  <2>4. /\ SubSeq(s, c, y) \in Seq(Bytes) /\ Len(SubSeq(s, c, y)) = y + 1 - c
        /\ \A k \in 1 .. y + 1 - c : SubSeq(s, c, y)[k] = s[c + k - 1]
    BY <2>1, PartParts DEF n
  <2>5. word \in Seq(Bytes) /\ Len(word) = 6 /\ \A k \in 1 .. 6 : word[k] = s[c + k - 1]
    BY <2>1, <2>3, <2>4
  <2>6. /\ word[1] = s[c + 1 - 1] /\ word[2] = s[c + 2 - 1] /\ word[3] = s[c + 3 - 1]
        /\ word[4] = s[c + 4 - 1] /\ word[5] = s[c + 5 - 1] /\ word[6] = s[c + 6 - 1]
    BY <2>5
  <2> QED BY <1>2, <2>2, <2>5, <2>6
<1> HIDE DEF word
<1>10. IsPrefix(HTTP, word)
  <2> DEFINE l == Len(HTTP)
             u == SubSeq(HTTP, 1, l)
             v == SubSeq(word, 1, l)
  <2>1. /\ HTTP \in Seq(Bytes) /\ l = 5 /\ HTTP[1] = 72 /\ HTTP[2] = 84 /\ HTTP[3] = 84
        /\ HTTP[4] = 80 /\ HTTP[5] = Slash
    BY DEF HTTP, Slash, Bytes
  <2>2. \A k \in 1 .. l : HTTP[k] = word[k]
    <3>1. \A k \in 1 .. 5 : k = 1 \/ k = 2 \/ k = 3 \/ k = 4 \/ k = 5
      OBVIOUS
    <3> HIDE DEF l
    <3> QED BY <1>9, <2>1, <3>1
  <2>3. Stands(word, 0, HTTP)
    <3>1. \A k \in 1 .. l : 0 + k = k
      OBVIOUS
    <3> QED BY <2>2, <3>1 DEF Stands
  <2>4. 1 \in Nat /\ 1 >= 1 /\ l \in Nat /\ 1 <= l + 1 /\ l <= l /\ 1 = 0 + 1 /\ l = 0 + l
        /\ 0 \in Nat /\ 0 + l <= Len(word) /\ l <= Len(word)
    BY <1>9, <2>1
  <2>5. v = u
    BY ONLY <1>9, <2>1, <2>3, <2>4, PartStands
  <2> QED BY <2>4, <2>5 DEF IsPrefix
<1>11. From(word, 6) = <<49>>
  <2> DEFINE v == From(word, 6)
             i == 6
  <2>1. i \in Nat /\ i >= 1 /\ i <= Len(word) + 1 /\ Len(word) + 1 - i = 1 /\ i + 1 - 1 = 6
    BY <1>9
  <2>2. v = From(word, i)
    OBVIOUS
  <2> HIDE DEF i, v
  <2>3. /\ v \in Seq(Bytes) /\ Len(v) = Len(word) + 1 - i
        /\ \A k \in 1 .. Len(word) + 1 - i : v[k] = word[i + k - 1]
    <3>1. word \in Seq(Bytes)
      BY <1>9
    <3>2. /\ From(word, i) \in Seq(Bytes) /\ Len(From(word, i)) = Len(word) + 1 - i
          /\ \A k \in 1 .. Len(word) + 1 - i : From(word, i)[k] = word[i + k - 1]
      BY ONLY <2>1, <3>1, FromParts
    <3> QED BY <2>2, <3>2
  <2>4. Len(v) = 1 /\ v[1] = 49
    <3>1. v[1] = word[i + 1 - 1]
      BY <2>1, <2>3
    <3> QED BY <1>9, <2>1, <2>3, <3>1
  <2>5. <<49>> \in Seq(Bytes) /\ Len(<<49>>) = 1 /\ <<49>>[1] = 49
    BY DEF Bytes
  <2>6. \A k \in 1 .. Len(v) : v[k] = <<49>>[k]
    <3>1. \A k \in 1 .. 1 : k = 1
      OBVIOUS
    <3> QED BY <2>4, <2>5, <3>1
  <2>7. v = <<49>>
    BY <2>3, <2>4, <2>5, <2>6, SeqEqual
  <2> QED BY <2>7 DEF v
<1>12. /\ method = [word |-> GET, rest |-> From(s, p + 4)]
       /\ uri = [word |-> <<Slash>>, rest |-> From(s, p + 6)]
       /\ version = [word |-> word, rest |-> From(s, b)]
  <2>1. method = [word |-> GET, rest |-> From(s, p + 4)]
    BY ONLY <1>3, <1>4, <1>7, Zenon
  <2> HIDE DEF method
  <2>2. method.rest = From(s, p + 4)
    BY <2>1
  <2>3. uri = [word |-> <<Slash>>, rest |-> From(s, p + 6)]
    BY ONLY <1>5, <1>8, <2>2, Zenon
  <2> HIDE DEF uri
  <2>4. uri.rest = From(s, p + 6)
    BY <2>3
  <2>5. version = [word |-> word, rest |-> From(s, b)]
    BY ONLY <1>6, <2>4, Zenon DEF word
  <2> QED BY <2>1, <2>3, <2>5
<1>13. parse_http_request(s)
         = IF method.word \in {GET, POST, DELETE, OPTIONS} /\ IsPrefix(HTTP, version.word)
           THEN {[method |-> method.word, uri |-> uri.word, version |-> From(version.word, 6),
                  headers |-> parse_http_headers(version.rest)]}
           ELSE {}
  BY DEF parse_http_request
<1> HIDE DEF method, uri, version
<1>14. /\ method.word = GET /\ uri.word = <<Slash>> /\ version.word = word
       /\ version.rest = From(s, b)
  BY <1>12
<1> QED BY ONLY <1>10, <1>11, <1>13, <1>14, Zenon

\* What stands in a part stands in the whole.
LEMMA StandsIn ==
    ASSUME NEW whole, NEW a \in Nat, NEW part, Stands(whole, a, part), Len(part) \in Nat,
           NEW b \in Nat, NEW inner, Stands(part, b, inner), Len(inner) \in Nat,
           b + Len(inner) <= Len(part)
    PROVE  Stands(whole, a + b, inner)
<1> DEFINE l == Len(inner)
           n == Len(part)
<1>0. l \in Nat /\ n \in Nat /\ b + l <= n
  OBVIOUS
<1>1. ASSUME NEW j \in 1 .. l PROVE whole[(a + b) + j] = inner[j]
  <2> DEFINE k == b + j
  <2> HIDE DEF l, n
  <2>1. k \in 1 .. n /\ (a + b) + j = a + k
    BY <1>0
  <2> HIDE DEF k
  <2>2. whole[a + k] = part[k]
    BY <2>1 DEF Stands, n
  <2>3. part[b + j] = inner[j]
    BY DEF Stands, l
  <2> QED BY <2>1, <2>2, <2>3 DEF k
<1> QED BY <1>1 DEF Stands

\* Both parts of a sequence stand in it.
LEMMA ConcatStands ==
    ASSUME NEW C, NEW u \in Seq(C), NEW v \in Seq(C)
    PROVE  /\ u \o v \in Seq(C) /\ Len(u) \in Nat /\ Len(v) \in Nat
           /\ Len(u \o v) = Len(u) + Len(v)
           /\ Stands(u \o v, 0, u) /\ Stands(u \o v, Len(u), v)
<1> DEFINE c == u \o v
           k == Len(u)
           l == Len(v)
<1>1. c \in Seq(C) /\ k \in Nat /\ l \in Nat /\ IsConcat(c, u, v)
  BY ConcatParts, SeqParts
<1> HIDE DEF c
<1>2. Len(c) = k + l /\ \A x \in 1 .. k + l : c[x] = IF x <= k THEN u[x] ELSE v[x - k]
  BY <1>1 DEF IsConcat
<1>3. Stands(c, 0, u)
  <2>1. ASSUME NEW j \in 1 .. k PROVE c[0 + j] = u[j]
    <3> HIDE DEF k, l
    <3>1. j \in 1 .. k + l /\ j <= k /\ 0 + j = j
      BY <1>1
    <3> QED BY <1>2, <3>1
  <2> QED BY <2>1 DEF Stands
<1>4. Stands(c, k, v)
  <2>1. ASSUME NEW j \in 1 .. l PROVE c[k + j] = v[j]
    <3> DEFINE x == k + j
    <3> HIDE DEF k, l
    <3>1. x \in 1 .. k + l /\ ~(x <= k) /\ x - k = j
      BY <1>1
    <3> HIDE DEF x
    <3>2. c[x] = v[j]
      BY <1>2, <3>1
    <3> QED BY <3>2 DEF x
  <2> QED BY <2>1 DEF Stands
<1> QED BY <1>1, <1>2, <1>3, <1>4 DEF c

\* A buffer whose last byte was replaced, and the text that it was: where its parts stand.
LEMMA BufferParts ==
    ASSUME NEW start \in Seq(Bytes), NEW end \in Seq(Bytes), Len(end) >= 1, NEW F \in Seq(Bytes)
    PROVE  LET q == RequestLine \o end \o F \o end
               w == start \o q
               s == start \o Front(q)
               z == Len(start)
               e == Len(end)
               f == Len(F)
           IN  /\ z \in Nat /\ e \in Nat /\ f \in Nat
               /\ s \in Seq(Bytes) /\ Len(s) = z + 11 + e + f + e
               /\ Stands(w, 0, start) /\ Stands(w, z, RequestLine) /\ Stands(w, z + 12, end)
               /\ Stands(w, z + 12 + e, F) /\ Stands(w, z + 12 + e + f, end)
               /\ \A x \in 1 .. Len(s) : s[x] = w[x]
<1> DEFINE r == RequestLine
           re == r \o end
           ref == re \o F
           q == ref \o end
           w == start \o q
           g == Front(q)
           s == start \o g
           z == Len(start)
           e == Len(end)
           f == Len(F)
<1>1. r \in Seq(Bytes) /\ Len(r) = 12
  BY DEF RequestLine, Bytes, Space, Slash
<1> HIDE DEF r
<1>2. /\ re \in Seq(Bytes) /\ z \in Nat /\ e \in Nat /\ Len(re) = 12 + e
      /\ Stands(re, 0, r) /\ Stands(re, 12, end)
  BY <1>1, ConcatStands
<1> HIDE DEF re
<1>3. /\ ref \in Seq(Bytes) /\ f \in Nat /\ Len(ref) = 12 + e + f
      /\ Stands(ref, 0, re) /\ Stands(ref, 12 + e, F)
  BY <1>2, ConcatStands
<1> HIDE DEF ref
<1>4. /\ q \in Seq(Bytes) /\ Len(q) = 12 + e + f + e
      /\ Stands(q, 0, ref) /\ Stands(q, 12 + e + f, end)
  BY <1>2, <1>3, ConcatStands
<1> HIDE DEF q
<1>5. /\ w \in Seq(Bytes) /\ Len(w) = z + (12 + e + f + e)
      /\ Stands(w, 0, start) /\ Stands(w, z, q)
  <2>1. /\ w \in Seq(Bytes) /\ Len(w) = z + Len(q)
        /\ Stands(w, 0, start) /\ Stands(w, z, q)
    <3>1. q \in Seq(Bytes)
      BY <1>4
    <3> QED BY ONLY start \in Seq(Bytes), <3>1, ConcatStands
  <2> QED BY <1>4, <2>1
<1> DEFINE l == Len(q) - 1
<1>6. g \in Seq(Bytes) /\ Len(g) = l /\ l \in Nat /\ \A x \in 1 .. l : g[x] = q[x]
  <2>1. l \in Nat /\ l <= Len(q) /\ 1 <= l + 1 /\ l + 1 - 1 = l
    BY <1>2, <1>3, <1>4
  <2>2. g = SubSeq(q, 1, l)
    BY DEF Front
  <2>3. \A x \in 1 .. l : 1 + x - 1 = x
    BY <2>1
  <2> HIDE DEF g, l
  <2>4. g \in Seq(Bytes) /\ Len(g) = l + 1 - 1 /\ \A x \in 1 .. l + 1 - 1 : g[x] = q[1 + x - 1]
    <3>1. 1 \in Nat /\ 1 >= 1
      OBVIOUS
    <3> QED BY <1>4, <2>1, <2>2, <3>1, PartParts
  <2> QED BY <2>1, <2>3, <2>4
<1> HIDE DEF g, w, l
<1>7. s \in Seq(Bytes) /\ Len(s) = z + l /\ Stands(s, 0, start) /\ Stands(s, z, g)
  BY <1>6, ConcatStands
<1> HIDE DEF s, z, e, f
<1>8. l = 11 + e + f + e
  <2>1. l = (12 + e + f + e) - 1
    BY <1>4 DEF l
  <2> QED BY <2>1, <1>2, <1>3
<1>9. ASSUME NEW x \in 1 .. Len(s) PROVE s[x] = w[x]
  <2>1. x \in 1 .. z + l
    BY <1>7
  <2>2. CASE x <= z
    <3>1. x \in 1 .. z /\ 0 + x = x
      BY <1>2, <2>1, <2>2
    <3>2. s[0 + x] = start[x] /\ w[0 + x] = start[x]
      BY <1>5, <1>7, <3>1 DEF Stands, z
    <3> QED BY <3>1, <3>2
  <2>3. CASE x > z
    <3> DEFINE j == x - z
    <3>1. j \in 1 .. l /\ z + j = x /\ j \in 1 .. l + 1
      BY <1>2, <1>6, <2>1, <2>3
    <3> HIDE DEF j
    <3>2. Len(q) = l + 1 /\ Len(g) = l
      BY <1>4, <1>6, <1>8, <1>2, <1>3
    <3>3. s[z + j] = g[j] /\ w[z + j] = q[j] /\ g[j] = q[j]
      BY <1>5, <1>6, <1>7, <3>1, <3>2 DEF Stands
    <3> QED BY <3>1, <3>3
  <2> QED BY <1>2, <2>1, <2>2, <2>3
<1>10. /\ Stands(w, z, ref) /\ Stands(w, z, re) /\ Stands(w, z, r) /\ Stands(w, z + 12, end)
       /\ Stands(w, z + (12 + e), F) /\ Stands(w, z + (12 + e + f), end)
  <2>0. /\ z + 0 = z /\ 0 + (12 + e + f) <= 12 + e + f + e /\ 0 + (12 + e) <= 12 + e + f
        /\ 0 + 12 <= 12 + e /\ 12 + e <= 12 + e /\ (12 + e) + f <= 12 + e + f
        /\ (12 + e + f) + e <= 12 + e + f + e
        /\ 12 + e \in Nat /\ 12 + e + f \in Nat /\ 12 + e + f + e \in Nat /\ 0 \in Nat /\ 12 \in Nat
    BY <1>2, <1>3
  <2>1. Stands(w, z + 0, ref)
    BY <1>2, <1>3, <1>4, <1>5, <2>0, StandsIn
  <2>2. Stands(w, z + 0, re)
    BY <1>2, <1>3, <2>0, <2>1, StandsIn
  <2>3. Stands(w, z + 0, r)
    BY <1>1, <1>2, <2>0, <2>2, StandsIn
  <2>4. Stands(w, z + 12, end)
    BY <1>2, <2>0, <2>2, StandsIn DEF e
  <2>5. Stands(w, z + (12 + e), F)
    BY <1>2, <1>3, <2>0, <2>1, StandsIn DEF f
  <2>6. Stands(w, z + (12 + e + f), end)
    BY <1>2, <1>4, <1>5, <2>0, StandsIn DEF e
  <2> QED BY <2>0, <2>1, <2>2, <2>3, <2>4, <2>5, <2>6
<1>11. z + (12 + e) = z + 12 + e /\ z + (12 + e + f) = z + 12 + e + f /\ z + l = z + 11 + e + f + e
  BY <1>2, <1>3, <1>8
<1>12. /\ s \in Seq(Bytes) /\ Len(s) = z + 11 + e + f + e /\ Stands(w, 0, start)
       /\ Stands(w, z, r) /\ Stands(w, z + 12, end)
       /\ Stands(w, z + 12 + e, F) /\ Stands(w, z + 12 + e + f, end)
  BY <1>5, <1>7, <1>10, <1>11
<1> QED BY <1>2, <1>3, <1>9, <1>12 DEF s, w, g, q, ref, re, r, z, e, f

\* The lines of a request stand in its buffer.
LEMMA BufferLaid ==
    ASSUME NEW lines \in Seq(Seq(Bytes)), \A k \in 1 .. Len(lines) : IsLine(lines[k]),
           NEW start \in {<<>>, <<CR, LF>>}, NEW end \in {<<LF>>, <<CR, LF>>}
    PROVE  LET F == FlattenSeq([k \in DOMAIN lines |-> lines[k] \o end])
               s == start \o Front(RequestLine \o end \o F \o end)
           IN  s \in Seq(Bytes) /\ \E at : RequestAt(s, Len(start) + 1, at[1]) /\ Laid(s, lines, at)
<1> DEFINE m == Len(lines)
           seqs == [k \in DOMAIN lines |-> lines[k] \o end]
           F == FlattenSeq(seqs)
           q == RequestLine \o end \o F \o end
           w == start \o q
           s == start \o Front(q)
           z == Len(start)
           e == Len(end)
           f == Len(F)
           n == Len(s)
           base == z + 12 + e
<1>1. /\ start \in Seq(Bytes) /\ end \in Seq(Bytes) /\ z \in Nat /\ e \in Nat /\ e >= 1
      /\ \A j \in 1 .. z : start[j] \in EndOfLine
      /\ \A j \in 1 .. e : end[j] \in EndOfLine
  <2>1. /\ CR \in Bytes /\ LF \in Bytes /\ <<CR, LF>> \in Seq(Bytes) /\ <<LF>> \in Seq(Bytes)
        /\ <<>> \in Seq(Bytes) /\ Len(<<CR, LF>>) = 2 /\ Len(<<LF>>) = 1 /\ Len(<<>>) = 0
        /\ \A j \in 1 .. 2 : <<CR, LF>>[j] \in EndOfLine
        /\ \A j \in 1 .. 1 : <<LF>>[j] \in EndOfLine
    BY DEF CR, LF, Bytes, EndOfLine
  <2>2. start \in Seq(Bytes) /\ z \in Nat /\ \A j \in 1 .. z : start[j] \in EndOfLine
    <3>1. CASE start = <<>>
      BY <2>1, <3>1
    <3>2. CASE start = <<CR, LF>>
      BY <2>1, <3>2
    <3> QED BY <3>1, <3>2
  <2>3. end \in Seq(Bytes) /\ e \in Nat /\ e >= 1 /\ \A j \in 1 .. e : end[j] \in EndOfLine
    <3>1. CASE end = <<LF>>
      BY <2>1, <3>1
    <3>2. CASE end = <<CR, LF>>
      BY <2>1, <3>2
    <3> QED BY <3>1, <3>2
  <2> QED BY <2>2, <2>3
<1>2. m \in Nat /\ DOMAIN lines = 1 .. m /\ \A k \in 1 .. m : lines[k] \in Seq(Bytes)
  BY SeqParts
<1> HIDE DEF m
<1>3. seqs \in Seq(Seq(Bytes)) /\ Len(seqs) = m /\ \A k \in 1 .. m : seqs[k] = lines[k] \o end
  <2>1. \A k \in 1 .. m : lines[k] \o end \in Seq(Bytes)
    BY <1>1, <1>2, ConcatStands
  <2>2. seqs \in [1 .. m -> Seq(Bytes)] /\ \A k \in 1 .. m : seqs[k] = lines[k] \o end
    BY <1>2, <2>1
  <2> HIDE DEF seqs
  <2>3. seqs \in Seq(Seq(Bytes))
    BY <1>2, <2>2, SeqDef
  <2> QED BY <1>2, <2>2, <2>3, LenProperties
<1> HIDE DEF seqs
<1>4. PICK h : Flattens(h, seqs, Bytes) /\ F = h[m]
  BY <1>3, FlattenSeqIs
<1> HIDE DEF F
<1> DEFINE K == [k \in 0 .. m |-> Len(h[k])]
           M == [k \in 1 .. m |-> Len(lines[k])]
<1>K. \A k \in 0 .. m : K[k] = Len(h[k])
  OBVIOUS
<1>M. \A k \in 1 .. m : M[k] = Len(lines[k])
  OBVIOUS
<1> HIDE DEF K, M
<1>5. /\ F \in Seq(Bytes) /\ f = K[m] /\ K[0] = 0
      /\ \A k \in 0 .. m : K[k] \in Nat
  <2>1. h \in [0 .. m -> Seq(Bytes)] /\ h[0] = <<>>
    BY <1>3, <1>4 DEF Flattens
  <2>2. m \in 0 .. m /\ 0 \in 0 .. m
    BY <1>2
  <2>3. \A k \in 0 .. m : h[k] \in Seq(Bytes) /\ Len(h[k]) \in Nat
    BY <2>1, SeqParts
  <2>4. Len(<<>>) = 0
    OBVIOUS
  <2> QED BY <1>4, <1>K, <2>1, <2>2, <2>3, <2>4
<1>6. ASSUME NEW k \in 1 .. m
      PROVE  /\ k - 1 \in 0 .. m /\ k \in 0 .. m /\ m \in 0 .. m
             /\ K[k - 1] \in Nat /\ K[k] \in Nat /\ M[k] \in Nat /\ M[k] >= 1
             /\ K[k] = K[k - 1] + M[k] + e /\ K[k] <= f
             /\ Stands(F, K[k - 1], lines[k]) /\ Stands(F, K[k - 1] + M[k], end)
  <2>1. k - 1 \in 0 .. m /\ k \in 0 .. m /\ m \in 0 .. m /\ m \in k .. m
    BY <1>2
  <2>2. K[k - 1] \in Nat /\ K[k] \in Nat /\ K[k] = Len(h[k]) /\ K[k - 1] = Len(h[k - 1])
    BY <1>5, <1>K, <2>1
  <2>3. M[k] = Len(lines[k]) /\ Len(lines[k]) >= 1 /\ lines[k] \in Seq(Bytes) /\ seqs[k] = lines[k] \o end
    BY <1>M, <1>2, <1>3 DEF IsLine, m
  <2>4. /\ Len(lines[k]) \in Nat /\ Len(seqs[k]) = Len(lines[k]) + e
        /\ Stands(seqs[k], 0, lines[k]) /\ Stands(seqs[k], Len(lines[k]), end)
    BY <1>1, <2>3, ConcatStands
  <2>5. /\ Len(h[k]) = Len(h[k - 1]) + Len(seqs[k]) /\ Len(h[k]) <= Len(h[m])
        /\ Stands(h[m], Len(h[k - 1]), seqs[k])
    BY <1>3, <1>4, <2>1, FlattenedParts
  <2>6. /\ M[k] \in Nat /\ M[k] >= 1 /\ Len(seqs[k]) = M[k] + e
        /\ K[k] = K[k - 1] + Len(seqs[k]) /\ K[k] <= f
        /\ Stands(F, K[k - 1], seqs[k]) /\ Stands(seqs[k], 0, lines[k]) /\ Stands(seqs[k], M[k], end)
    <3>1. f = Len(h[m])
      BY <1>4
    <3> QED BY <1>4, <2>2, <2>3, <2>4, <2>5, <3>1
  <2> HIDE DEF e, f
  <2> DEFINE c == K[k - 1]
             l == M[k]
             t == seqs[k]
  <2>r. c \in Nat /\ l \in Nat /\ e \in Nat /\ Len(t) = l + e /\ K[k] = c + Len(t)
    BY <1>1, <2>2, <2>6
  <2>7. Stands(F, c, t) /\ Stands(t, 0, lines[k]) /\ Stands(t, l, end) /\ Len(lines[k]) = l /\ Len(end) = e
    BY <2>3, <2>6 DEF e
  <2> HIDE DEF c, l, t
  <2>8. Stands(F, c + 0, lines[k]) /\ Stands(F, c + l, end)
    <3>1. Len(t) \in Nat /\ 0 + l <= Len(t) /\ l + e <= Len(t) /\ 0 \in Nat
      BY <2>r
    <3> QED BY <2>r, <2>7, <3>1, StandsIn
  <2>9. c + 0 = c /\ K[k] = c + l + e
    BY <2>r
  <2> QED BY <2>1, <2>2, <2>6, <2>8, <2>9 DEF c, l
<1>7. /\ f \in Nat /\ s \in Seq(Bytes) /\ n = z + 11 + e + f + e
      /\ Stands(w, 0, start) /\ Stands(w, z, RequestLine) /\ Stands(w, z + 12, end)
      /\ Stands(w, base, F) /\ Stands(w, base + f, end)
      /\ \A x \in 1 .. n : s[x] = w[x]
  BY <1>1, <1>5, BufferParts
<1>f. Len(F) = f
  OBVIOUS
<1>e. Len(end) = e
  OBVIOUS
<1>z. Len(start) = z
  OBVIOUS
<1>s. Len(s) = n
  OBVIOUS
<1> HIDE DEF w, s, n, f, e, z
<1>r. /\ base \in Nat /\ n \in Nat /\ n + 1 = base + f + e /\ base = z + 12 + e
      /\ z \in Nat /\ f \in Nat /\ e \in Nat /\ e >= 1
  BY <1>1, <1>7
<1> HIDE DEF base
\* What stands in the text stands in the buffer, as far as it goes.
<1>8. ASSUME NEW a \in Nat, NEW part, Stands(w, a, part), Len(part) \in Nat, a + Len(part) <= n
      PROVE  Stands(s, a, part)
  <2> DEFINE l == Len(part)
  <2>0. l \in Nat /\ a + l <= n
    BY <1>8
  <2> SUFFICES ASSUME NEW j \in 1 .. l PROVE s[a + j] = part[j]
    BY DEF Stands
  <2>1. w[a + j] = part[j]
    BY <1>8 DEF Stands
  <2> HIDE DEF l
  <2>2. a + j \in 1 .. n
    BY <1>8, <1>r, <2>0
  <2> QED BY <1>7, <2>1, <2>2
<1>9. ASSUME NEW a \in Nat, Stands(w, a, end), NEW x \in 1 .. n, x > a, x <= a + e
      PROVE  s[x] \in EndOfLine
  <2> DEFINE j == x - a
  <2>1. j \in 1 .. e /\ a + j = x
    BY <1>9, <1>r
  <2> HIDE DEF j
  <2>2. w[a + j] = end[j] /\ end[j] \in EndOfLine
    BY <1>1, <1>9, <1>e, <2>1 DEF Stands
  <2> QED BY <1>7, <2>1, <2>2
\* The lines in the text.
<1>10. ASSUME NEW k \in 1 .. m
       PROVE  /\ Stands(w, base + K[k - 1], lines[k])
              /\ Stands(w, base + (K[k - 1] + M[k]), end)
              /\ Stands(s, base + K[k - 1], lines[k])
              /\ base + K[k - 1] + 1 \in 1 .. n
              /\ s[base + K[k - 1] + 1] \notin EndOfLine
  <2> DEFINE c == K[k - 1]
             l == M[k]
  <2>1. /\ c \in Nat /\ l \in Nat /\ l >= 1 /\ K[k] = c + l + e /\ K[k] <= f
        /\ Stands(F, c, lines[k]) /\ Stands(F, c + l, end) /\ Len(lines[k]) = l
    BY <1>6, <1>M
  <2> HIDE DEF c, l
  <2>2. c + l <= f /\ (c + l) + e <= f /\ c + l \in Nat /\ base + c \in Nat /\ (base + c) + l <= n
        /\ (base + c) + 1 \in 1 .. n /\ 1 \in 1 .. l
    BY <1>r, <2>1
  <2>3. Stands(w, base + c, lines[k])
    BY <1>7, <1>f, <1>r, <2>1, <2>2, StandsIn
  <2>4. Stands(w, base + (c + l), end)
    BY <1>7, <1>e, <1>f, <1>r, <2>1, <2>2, StandsIn
  <2>5. Stands(s, base + c, lines[k])
    BY <1>8, <2>1, <2>2, <2>3
  <2>6. s[(base + c) + 1] \notin EndOfLine
    <3>1. s[(base + c) + 1] = lines[k][1]
      BY <2>1, <2>2, <2>5 DEF Stands
    <3>2. lines[k][1] \notin EndOfLine
      BY <2>1, <2>2 DEF IsLine, m
    <3> QED BY <3>1, <3>2
  <2> QED BY <2>2, <2>3, <2>4, <2>5, <2>6 DEF c, l
<1> DEFINE at == [k \in 1 .. m + 1 |-> IF k = m + 1 THEN n + 1 ELSE base + K[k - 1] + 1]
<1>11. /\ at[m + 1] = n + 1
       /\ \A k \in 1 .. m : at[k] = base + K[k - 1] + 1
       /\ \A k \in 1 .. m : at[k + 1] = IF k = m THEN n + 1 ELSE base + K[k] + 1
  <2>1. m + 1 \in 1 .. m + 1
    BY <1>2
  <2>2. at[m + 1] = n + 1
    BY <2>1
  <2>3. ASSUME NEW k \in 1 .. m PROVE at[k] = base + K[k - 1] + 1
    BY <1>2
  <2>4. ASSUME NEW k \in 1 .. m PROVE at[k + 1] = IF k = m THEN n + 1 ELSE base + K[k] + 1
    <3>1. k + 1 \in 1 .. m + 1 /\ (k + 1 = m + 1 <=> k = m) /\ (k + 1) - 1 = k
      BY <1>2
    <3> DEFINE y == k + 1
    <3> HIDE DEF y
    <3>2. y \in 1 .. m + 1 /\ (y = m + 1 <=> k = m) /\ y - 1 = k
      BY <3>1 DEF y
    <3>3. at[y] = IF y = m + 1 THEN n + 1 ELSE base + K[y - 1] + 1
      BY <3>2
    <3> QED BY <3>2, <3>3 DEF y
  <2> QED BY <2>2, <2>3, <2>4
<1> HIDE DEF at
<1>12. ASSUME NEW k \in 1 .. m PROVE LineAt(s, lines[k], at[k], at[k + 1])
  <2> DEFINE c == K[k - 1]
             l == M[k]
             a == at[k]
             b == at[k + 1]
  <2>1. c \in Nat /\ l \in Nat /\ l >= 1 /\ K[k] = c + l + e /\ K[k] <= f /\ Len(lines[k]) = l /\ K[k] \in Nat
    BY <1>6, <1>M
  <2>2. a = base + c + 1 /\ b = IF k = m THEN n + 1 ELSE base + K[k] + 1
    BY <1>11
  <2>3. k = m => K[k] = f
    BY <1>5 DEF f
  <2>4. /\ Stands(s, base + c, lines[k]) /\ Stands(w, base + (c + l), end)
    BY <1>10
  <2> DEFINE g == K[k]
  <2>5. /\ g \in Nat /\ g = c + l + e /\ g <= f /\ a = base + c + 1
        /\ b = IF k = m THEN n + 1 ELSE base + g + 1
        /\ k = m => g = f
    BY <2>1, <2>2, <2>3
  <2> HIDE DEF c, l, a, b, g
  <2>6. /\ a \in Nat /\ b \in Nat /\ a >= 1 /\ a + l < b /\ b <= n + 1 /\ a - 1 = base + c
    BY <1>r, <2>1, <2>5
  <2>7. ASSUME NEW x \in a + l .. b - 1 PROVE s[x] \in EndOfLine
    <3>1. /\ x \in 1 .. n /\ x > base + (c + l) /\ base + (c + l) \in Nat
          /\ base + f \in Nat /\ base + (c + l) + e = base + g
          /\ x <= base + g \/ (x > base + f /\ x <= base + f + e)
      BY <1>r, <2>1, <2>5, <2>6
    <3> QED BY <1>7, <1>9, <2>4, <3>1
  <2>8. ASSUME b <= n PROVE s[b] \notin EndOfLine
    <3>1. k # m /\ b = base + g + 1
      BY <1>r, <2>5, <2>8
    <3> DEFINE y == k + 1
    <3>2. y \in 1 .. m /\ y - 1 = k
      BY <1>2, <3>1
    <3> HIDE DEF y
    <3>3. s[base + K[y - 1] + 1] \notin EndOfLine
      BY <1>10, <3>2
    <3> QED BY <3>1, <3>2, <3>3 DEF g
  <2>9. /\ a \in Nat /\ b \in Nat /\ a >= 1 /\ a + Len(lines[k]) < b /\ b <= Len(s) + 1
        /\ Stands(s, a - 1, lines[k])
        /\ \A x \in a + Len(lines[k]) .. b - 1 : s[x] \in EndOfLine
        /\ b <= Len(s) => s[b] \notin EndOfLine
    BY <1>s, <2>1, <2>4, <2>6, <2>7, <2>8
  <2>10. LineAt(s, lines[k], a, b)
    BY <2>9 DEF LineAt
  <2> QED BY <2>10 DEF a, b
<1>13. RequestAt(s, z + 1, at[1])
  <2> DEFINE p == z + 1
             b == at[1]
  <2>1. IF m = 0 THEN b = n + 1 /\ f = 0 ELSE b = base + 1
    <3>1. CASE m = 0
      <4>1. at[0 + 1] = n + 1 /\ 0 + 1 = 1 /\ f = 0
        BY <1>5, <1>11, <3>1 DEF f
      <4> QED BY <3>1, <4>1
    <3>2. CASE m # 0
      <4>1. 1 \in 1 .. m /\ 1 - 1 = 0
        BY <1>2, <3>2
      <4>2. at[1] = base + K[1 - 1] + 1
        BY <1>11, <4>1
      <4> QED BY <1>5, <1>r, <3>2, <4>1, <4>2
    <3> QED BY <3>1, <3>2
  <2> HIDE DEF b
  <2>2. /\ p \in Nat /\ b \in Nat /\ p >= 1 /\ p + 12 < b /\ b <= n + 1 /\ p - 1 = z
        /\ z + 12 <= n /\ z <= n /\ z + 12 \in Nat /\ base + f \in Nat
    BY <1>r, <2>1
  <2> HIDE DEF p
  <2>3. ASSUME NEW x \in 1 .. p - 1 PROVE s[x] \in EndOfLine
    <3>1. x \in 1 .. z /\ x \in 1 .. n /\ 0 + x = x
      BY <1>r, <2>2
    <3>2. w[0 + x] = start[x] /\ start[x] \in EndOfLine
      BY <1>1, <1>7, <1>z, <3>1 DEF Stands
    <3> QED BY <1>7, <3>1, <3>2
  <2>4. Stands(s, p - 1, RequestLine)
    <3>1. Len(RequestLine) = 12
      BY DEF RequestLine
    <3>2. Len(RequestLine) \in Nat /\ z + Len(RequestLine) <= n
      BY <2>2, <3>1
    <3> QED BY <1>7, <1>8, <1>r, <2>2, <3>2
  <2>5. ASSUME NEW x \in p + 12 .. b - 1 PROVE s[x] \in EndOfLine
    <3>1. /\ x \in 1 .. n /\ x > z + 12
          /\ x <= (z + 12) + e \/ (x > base + f /\ x <= base + f + e)
      <4>1. x >= z + 13 /\ x <= b - 1 /\ x \in Nat
        BY <1>r, <2>2
      <4> QED BY <1>r, <2>1, <2>2, <4>1
    <3> QED BY <1>7, <1>9, <2>2, <3>1
  <2>6. ASSUME b <= n PROVE s[b] \notin EndOfLine
    <3>1. m # 0 /\ b = base + 1
      BY <1>r, <2>1, <2>6
    <3>2. 1 \in 1 .. m /\ 1 - 1 = 0
      BY <1>2, <3>1
    <3>3. s[base + K[1 - 1] + 1] \notin EndOfLine
      BY <1>10, <3>2
    <3>4. base + K[1 - 1] + 1 = b
      BY <1>5, <1>r, <3>1, <3>2
    <3> QED BY <3>3, <3>4
  <2>7. RequestAt(s, p, b)
    BY <1>s, <2>2, <2>3, <2>4, <2>5, <2>6 DEF RequestAt
  <2> QED BY <2>7 DEF p, b
<1>14. Laid(s, lines, at)
  <2>1. at[Len(lines) + 1] = Len(s) + 1
    BY <1>11, <1>s DEF m
  <2> QED BY <1>12, <2>1 DEF Laid, m
<1>15. s \in Seq(Bytes) /\ \E x : RequestAt(s, z + 1, x[1]) /\ Laid(s, lines, x)
  BY <1>7, <1>13, <1>14
<1> QED BY <1>15 DEF s, q, F, seqs, z

\* Its request line.
LEMMA RequestLineIs == GET \o <<Space, Slash, Space>> \o HTTP \o <<49>> = RequestLine
<1> DEFINE x == <<Space, Slash, Space>>
           y == <<49>>
           a == GET \o x
           b == a \o HTTP
           c == b \o y
<1>1. /\ GET \in Seq(Bytes) /\ Len(GET) = 3 /\ GET[1] = 71 /\ GET[2] = 69 /\ GET[3] = 84
      /\ x \in Seq(Bytes) /\ Len(x) = 3 /\ x[1] = Space /\ x[2] = Slash /\ x[3] = Space
      /\ HTTP \in Seq(Bytes) /\ Len(HTTP) = 5
      /\ HTTP[1] = 72 /\ HTTP[2] = 84 /\ HTTP[3] = 84 /\ HTTP[4] = 80 /\ HTTP[5] = Slash
      /\ y \in Seq(Bytes) /\ Len(y) = 1 /\ y[1] = 49
  BY DEF GET, HTTP, Space, Slash, Bytes
<1> HIDE DEF x, y
<1>2. a \in Seq(Bytes) /\ Len(a) = 6 /\ \A k \in 1 .. 6 : a[k] = IF k <= 3 THEN GET[k] ELSE x[k - 3]
  <2>1. a \in Seq(Bytes) /\ IsConcat(a, GET, x)
    BY <1>1, ConcatParts
  <2> HIDE DEF a
  <2> QED BY <1>1, <2>1 DEF IsConcat
<1> HIDE DEF a
<1>3. b \in Seq(Bytes) /\ Len(b) = 11 /\ \A k \in 1 .. 11 : b[k] = IF k <= 6 THEN a[k] ELSE HTTP[k - 6]
  <2>1. b \in Seq(Bytes) /\ IsConcat(b, a, HTTP)
    BY <1>1, <1>2, ConcatParts
  <2> HIDE DEF b
  <2> QED BY <1>1, <1>2, <2>1 DEF IsConcat
<1> HIDE DEF b
<1>4. c \in Seq(Bytes) /\ Len(c) = 12 /\ \A k \in 1 .. 12 : c[k] = IF k <= 11 THEN b[k] ELSE y[k - 11]
  <2>1. c \in Seq(Bytes) /\ IsConcat(c, b, y)
    BY <1>1, <1>3, ConcatParts
  <2> HIDE DEF c
  <2> QED BY <1>1, <1>3, <2>1 DEF IsConcat
<1> HIDE DEF c
<1>5. /\ a[1] = 71 /\ a[2] = 69 /\ a[3] = 84 /\ a[4] = Space /\ a[5] = Slash /\ a[6] = Space
  BY <1>1, <1>2
<1>6. /\ b[1] = 71 /\ b[2] = 69 /\ b[3] = 84 /\ b[4] = Space /\ b[5] = Slash /\ b[6] = Space
      /\ b[7] = 72 /\ b[8] = 84 /\ b[9] = 84 /\ b[10] = 80 /\ b[11] = Slash
  BY <1>1, <1>3, <1>5
<1>7. /\ c[1] = 71 /\ c[2] = 69 /\ c[3] = 84 /\ c[4] = Space /\ c[5] = Slash /\ c[6] = Space
      /\ c[7] = 72 /\ c[8] = 84 /\ c[9] = 84 /\ c[10] = 80 /\ c[11] = Slash /\ c[12] = 49
  <2>1. \A k \in 1 .. 11 : c[k] = b[k]
    BY <1>4
  <2>2. c[12] = y[1]
    BY <1>4
  <2> QED BY <1>1, <1>6, <2>1, <2>2
<1>8. RequestLine \in Seq(Bytes) /\ Len(RequestLine) = 12
  BY DEF RequestLine, Bytes, Space, Slash
<1>9. \A k \in 1 .. 12 : c[k] = RequestLine[k]
  BY <1>7 DEF RequestLine
<1>10. c = RequestLine
  BY <1>4, <1>8, <1>9, SeqEqual
<1> QED BY <1>10 DEF c, b, a, x, y

\* A text is in lower case once it was put there.
LEMMA LowercaseTwice ==
    ASSUME NEW s \in Seq(Bytes)
    PROVE  lowercase(lowercase(s)) = lowercase(s)
<1> DEFINE u == lowercase(s)
           v == lowercase(u)
<1>1. DOMAIN u = DOMAIN s /\ \A k \in DOMAIN s : s[k] \in Bytes
  BY SeqParts DEF lowercase
<1>2. \A k \in DOMAIN s : u[k] = IF s[k] \in 65 .. 90 THEN s[k] + 32 ELSE s[k]
  BY DEF lowercase
<1> HIDE DEF u
<1>3. v = [k \in DOMAIN s |-> IF u[k] \in 65 .. 90 THEN u[k] + 32 ELSE u[k]]
  BY <1>1 DEF lowercase
<1>4. ASSUME NEW k \in DOMAIN s PROVE u[k] \notin 65 .. 90
  <2> DEFINE c == s[k]
             d == u[k]
  <2>1. c \in Bytes /\ d = IF c \in 65 .. 90 THEN c + 32 ELSE c
    BY <1>1, <1>2
  <2> HIDE DEF c, d
  <2>2. d \notin 65 .. 90
    BY <2>1 DEF Bytes
  <2> QED BY <2>2 DEF d
<1>5. v = [k \in DOMAIN s |-> u[k]]
  BY <1>3, <1>4
<1>6. u = [k \in DOMAIN s |-> u[k]]
  <2>1. u = [k \in DOMAIN s |-> IF s[k] \in 65 .. 90 THEN s[k] + 32 ELSE s[k]]
    BY DEF u, lowercase
  <2> QED BY <2>1, <1>2
<1>7. v = u
  BY <1>5, <1>6
<1> QED BY <1>7 DEF u

\* get_header finds the first header with a name.
LEMMA HeaderFound ==
    ASSUME NEW kept, NEW n \in Nat, DOMAIN kept = 1 .. n, NEW k \in 1 .. n,
           kept[k].name \in Seq(Bytes),
           \A j \in 1 .. k - 1 : lowercase(kept[j].name) # lowercase(kept[k].name)
    PROVE  get_header(kept, lowercase(kept[k].name)) = {kept[k].value}
<1> DEFINE L(j) == lowercase(kept[j].name)
           N == L(k)
           First == {j \in DOMAIN kept : L(j) = N /\ \A before \in 1 .. j - 1 : L(before) # N}
<1>1. get_header(kept, N) = {kept[j].value : j \in First}
  <2>1. lowercase(N) = N
    BY LowercaseTwice
  <2> QED BY <2>1 DEF get_header
<1>2. \A j \in 1 .. k - 1 : L(j) # N
  OBVIOUS
<1>3. L(k) = N
  OBVIOUS
<1> HIDE DEF L, N
<1>4. k \in First
  BY <1>2, <1>3
<1>5. ASSUME NEW j \in First PROVE j = k
  <2>1. j \in 1 .. n /\ L(j) = N /\ \A before \in 1 .. j - 1 : L(before) # N
    OBVIOUS
  <2>2. ~(j < k)
    <3>1. j < k => j \in 1 .. k - 1
      BY <2>1
    <3> QED BY <1>2, <2>1, <3>1
  <2>3. ~(k < j)
    <3>1. k < j => k \in 1 .. j - 1
      BY <2>1
    <3> QED BY <1>3, <2>1, <3>1
  <2> QED BY <2>1, <2>2, <2>3
<1>6. First = {k}
  BY <1>4, <1>5
<1> QED BY <1>1, <1>6 DEF N, L

\* A text without CR is cut into lines.
LEMMA LinesOfText ==
    ASSUME NEW s \in Seq(Bytes), CR \notin ToSet(s),
           \A k \in DOMAIN Tokens(s, LF) :
             Colon \in ToSet(Tokens(s, LF)[k]) /\ Tokens(s, LF)[k][1] # Colon
    PROVE  /\ Tokens(s, LF) \in Seq(Seq(Bytes))
           /\ \A k \in 1 .. Len(Tokens(s, LF)) : IsLine(Tokens(s, LF)[k])
<1> DEFINE t == Tokens(s, LF)
           n == Len(s)
<1>0. n \in Nat /\ \A x \in 1 .. n : s[x] # CR
  BY SeqParts DEF ToSet
<1>1. t \in Seq(Seq(Bytes))
  <2>1. PICK f : Tokenizes(f, s, LF, Bytes) /\ t = f[1]
    BY TokensIs
  <2>2. 1 \in 1 .. n + 1
    BY <1>0
  <2> HIDE DEF t
  <2> QED BY <2>1, <2>2 DEF Tokenizes
<1>2. ToSet(t) = {Word(s, LF, j) : j \in Starts(s, LF, 1)}
  BY TokensAreWords
<1> HIDE DEF t
<1>3. ASSUME NEW k \in 1 .. Len(t) PROVE IsLine(t[k])
  <2> DEFINE line == t[k]
  <2>1. k \in DOMAIN t /\ line \in ToSet(t)
    BY <1>1, SeqParts DEF ToSet
  <2>2. PICK j \in Starts(s, LF, 1) : line = Word(s, LF, j)
    BY <1>2, <2>1
  <2>3. j \in Nat /\ j >= 1 /\ j <= n /\ j <= n + 1 /\ s[j] # LF
    BY <1>0 DEF Starts
  <2>4. /\ line \in Seq(Bytes) /\ Len(line) \in Nat /\ j + Len(line) <= n + 1
        /\ \A x \in 1 .. Len(line) : line[x] = s[j + x - 1]
        /\ \A x \in j .. j + Len(line) - 1 : s[x] # LF
        /\ Len(line) >= 1
    BY <2>2, <2>3, WordParts
  <2>5. Colon \in ToSet(line) /\ line[1] # Colon
    BY <2>1 DEF t
  <2> DEFINE l == Len(line)
  <2>l. Len(line) = l
    OBVIOUS
  <2> HIDE DEF line, n, l
  <2>6. ASSUME NEW x \in 1 .. l PROVE line[x] \notin EndOfLine
    <3> DEFINE y == j + x - 1
    <3>1. y \in j .. j + l - 1 /\ y \in 1 .. n
      BY <1>0, <2>3, <2>4, <2>l
    <3>2. line[x] = s[y]
      BY <2>4, <2>l
    <3> HIDE DEF y
    <3> QED BY <1>0, <2>4, <2>l, <3>1, <3>2 DEF EndOfLine
  <2>7. IsLine(line)
    BY <2>4, <2>5, <2>6, <2>l DEF IsLine
  <2> QED BY <2>7 DEF line
<1> QED BY <1>1, <1>3 DEF t

\* The head of a request is taken apart into the headers of its lines, and they are
\* found by their names.
LEMMA HeadIsTaken ==
    ASSUME NEW lines \in Seq(Seq(Bytes)), \A k \in 1 .. Len(lines) : IsLine(lines[k]),
           NEW start \in {<<>>, <<CR, LF>>}, NEW end \in {<<LF>>, <<CR, LF>>}
    PROVE  LET F == FlattenSeq([k \in DOMAIN lines |-> lines[k] \o end])
               s == start \o Front(RequestLine \o end \o F \o end)
               given == [k \in DOMAIN lines |-> HeaderOf(lines[k])]
               kept == SubSeq(given, 1, Min({Len(given), MaxHeaders}))
           IN  /\ parse_http_request(s)
                    = {[method |-> GET, uri |-> <<Slash>>, version |-> <<49>>, headers |-> kept]}
               /\ \A k \in DOMAIN kept :
                    (\A j \in 1 .. k - 1 : lowercase(kept[j].name) # lowercase(kept[k].name))
                      => get_header(kept, lowercase(kept[k].name)) = {kept[k].value}
<1> DEFINE F == FlattenSeq([k \in DOMAIN lines |-> lines[k] \o end])
           s == start \o Front(RequestLine \o end \o F \o end)
           given == [k \in DOMAIN lines |-> HeaderOf(lines[k])]
           m == Len(lines)
           n == Min({Len(given), MaxHeaders})
           kept == SubSeq(given, 1, n)
           C == {HeaderOf(lines[k]) : k \in 1 .. m}
<1>1. s \in Seq(Bytes) /\ \E at : RequestAt(s, Len(start) + 1, at[1]) /\ Laid(s, lines, at)
  BY BufferLaid
<1> HIDE DEF s
<1>2. PICK at : RequestAt(s, Len(start) + 1, at[1]) /\ Laid(s, lines, at)
  BY <1>1
<1>3. Len(given) = m /\ parse_http_headers(From(s, at[1])) = kept
  BY <1>1, <1>2, HeadersTaken
<1>4. parse_http_request(s) = {[method |-> GET, uri |-> <<Slash>>, version |-> <<49>>,
                               headers |-> parse_http_headers(From(s, at[1]))]}
  <2> DEFINE b == at[1]
             p == Len(start) + 1
  <2>1. RequestAt(s, p, b)
    BY <1>2
  <2> HIDE DEF p, b
  <2>2. parse_http_request(s) = {[method |-> GET, uri |-> <<Slash>>, version |-> <<49>>,
                                 headers |-> parse_http_headers(From(s, b))]}
    BY <1>1, <2>1, RequestTaken
  <2> QED BY <2>2 DEF b
<1>5. m \in Nat /\ DOMAIN lines = 1 .. m /\ \A k \in 1 .. m : lines[k] \in Seq(Bytes)
  BY SeqParts
<1>6. given \in Seq(C) /\ \A k \in 1 .. m : given[k] = HeaderOf(lines[k])
  <2>1. given \in [1 .. m -> C] /\ \A k \in 1 .. m : given[k] = HeaderOf(lines[k])
    BY <1>5
  <2> HIDE DEF given, C, m
  <2> QED BY <1>5, <2>1, SeqDef
<1> HIDE DEF given, C
<1>7. n \in Nat /\ n <= m
  <2>1. n = IF m <= MaxHeaders THEN m ELSE MaxHeaders
    BY <1>3, <1>5, MinOfTwo, TextAssumption
  <2> QED BY <1>5, <2>1, TextAssumption
<1> HIDE DEF n, m
<1>8. DOMAIN kept = 1 .. n /\ \A k \in 1 .. n : kept[k] = given[k]
  <2>1. n + 1 - 1 = n /\ 1 \in Nat /\ 1 >= 1 /\ 1 <= n + 1 /\ n <= Len(given)
        /\ \A k \in 1 .. n : 1 + k - 1 = k
    BY <1>3, <1>7
  <2>2. /\ kept \in Seq(C) /\ Len(kept) = n + 1 - 1
        /\ \A k \in 1 .. n + 1 - 1 : kept[k] = given[1 + k - 1]
    BY <1>6, <1>7, <2>1, PartParts
  <2> HIDE DEF kept
  <2>3. DOMAIN kept = 1 .. Len(kept)
    BY <2>2, SeqParts
  <2> QED BY <2>1, <2>2, <2>3
<1>9. ASSUME NEW k \in DOMAIN kept,
             \A j \in 1 .. k - 1 : lowercase(kept[j].name) # lowercase(kept[k].name)
      PROVE  get_header(kept, lowercase(kept[k].name)) = {kept[k].value}
  <2> HIDE DEF kept
  <2>1. k \in 1 .. n /\ k \in 1 .. m
    BY <1>5, <1>7, <1>8
  <2>2. kept[k] = HeaderOf(lines[k])
    BY <1>6, <1>8, <2>1
  <2>3. HeaderOf(lines[k]).name = Before(lines[k], {Colon})
    BY DEF HeaderOf
  <2>4. kept[k].name \in Seq(Bytes)
    BY <1>5, <2>1, <2>2, <2>3, BeforeParts
  <2> QED BY <1>7, <1>8, <1>9, <2>1, <2>4, HeaderFound
<1>10. parse_http_request(s)
         = {[method |-> GET, uri |-> <<Slash>>, version |-> <<49>>, headers |-> kept]}
  BY <1>3, <1>4
<1> HIDE DEF kept
<1> QED BY <1>9, <1>10 DEF kept, n, given, s, F

-----------------------------------------------------------------------------
(* The properties of UrlText.                                              *)

\* The texts that the specification writes are sequences of characters.
TextInv == use \in Uses /\ text \in Seq(Chars)

\* The texts that the properties are about: characters of one to 255, of any length.
THEOREM TextsAreTyped == Spec => []TextInv
<1>1. Init => TextInv
  BY EmptySeq DEF Init, TextInv
<1>2. TextInv /\ [Next]_vars => TextInv'
  <2>1. ASSUME TextInv, NEW c \in Alphabet[use], Type(c) PROVE TextInv'
    <3>1. c \in Chars
      BY <2>1, TextAssumption DEF TextInv, Chars
    <3> QED BY <2>1, <3>1, AppendProperties DEF TextInv, Type
  <2>2. ASSUME TextInv, UNCHANGED vars PROVE TextInv'
    BY <2>2 DEF TextInv, vars
  <2> QED BY <2>1, <2>2 DEF Next
<1> QED BY <1>1, <1>2, PTL DEF Spec

\* PathIsClean: however dots and slashes are written in a URI, encoded or not, the
\* path has no "/..", and parse_app_name finds the segment before the last one.
THEOREM PathsAreClean == Spec => []PathIsClean
<1>1. TextInv => PathIsClean
  <2> SUFFICES ASSUME TextInv PROVE PathIsClean
    OBVIOUS
  <2> DEFINE path == PathOf(text)
             last == Max({i \in DOMAIN path : path[i] = Slash})
  <2>1. path \in Seq(Bytes) /\ NoUp(path)
    <3>1. text \in Seq(Bytes)
      BY CharsAreBytes DEF TextInv
    <3> QED BY <3>1, PathParts
  <2> HIDE DEF path
  <2>2. ASSUME NEW i \in 1 .. Len(path) - 2
        PROVE  SubSeq(path, i, i + 2) # <<Slash, Dot, Dot>>
    <3>1. /\ Len(path) \in Nat /\ i \in Int /\ i + 2 \in Int
          /\ \A k \in i .. i + 2 : path[k] \in Bytes
      <4>1. Len(path) \in Nat /\ \A k \in 1 .. Len(path) : path[k] \in Bytes
        BY <2>1, SeqParts
      <4> QED BY <4>1
    <3> DEFINE part == SubSeq(path, i, i + 2)
    <3>2. \A k \in 1 .. i + 2 - i + 1 : part[k] = path[i + k - 1]
      BY <3>1, SubSeqProperties
    <3> HIDE DEF part
    <3>3. part[1] = path[i] /\ part[2] = path[i + 1] /\ part[3] = path[i + 2]
      <4>1. /\ 1 \in 1 .. i + 2 - i + 1 /\ 2 \in 1 .. i + 2 - i + 1 /\ 3 \in 1 .. i + 2 - i + 1
            /\ i + 1 - 1 = i /\ i + 2 - 1 = i + 1 /\ i + 3 - 1 = i + 2
        BY <3>1
      <4> QED BY <3>2, <4>1
    <3>4. part # <<Slash, Dot, Dot>>
      BY <3>3, <2>1 DEF NoUp
    <3> QED BY <3>4 DEF part
  <2>3. ASSUME path # <<>>, path[1] = Slash, last > 1
        PROVE  /\ Slash \notin ToSet(parse_app_name(path))
               /\ IsSuffix(<<Slash>> \o parse_app_name(path), SubSeq(path, 1, last - 1))
    BY <2>1, <2>3, AppNameParts
  <2> QED BY <2>2, <2>3 DEF PathIsClean, path
<1> QED BY <1>1, TextsAreTyped, PTL

\* BufferFits: an entry of a status never writes behind the 2 * n + 1 bytes that
\* handle_app_status has for a text of n bytes, whatever the text is.
THEOREM BuffersFit == Spec => []BufferFits
<1>1. TextInv => BufferFits
  <2> SUFFICES ASSUME TextInv
               PROVE  url_decode_xml_encode(text).written <= 2 * Len(text) + 1
    BY DEF BufferFits
  <2>1. text \in Seq(Bytes) /\ Len(text) \in Nat /\ 2 * Len(text) \in Nat
    <3>1. text \in Seq(Bytes)
      BY CharsAreBytes DEF TextInv
    <3>2. Len(text) \in Nat
      BY <3>1, SeqParts
    <3> QED BY <3>1, <3>2
  <2>2. urldecode(text, Len(text)) \in Seq(Bytes)
    BY <2>1, UrldecodeBytes
  <2>3. CString(urldecode(text, Len(text))) \in Seq(Bytes)
    BY <2>2, BeforeParts DEF CString
  <2>4. xmlencode(CString(urldecode(text, Len(text))), 2 * Len(text)).written <= 2 * Len(text) + 1
    BY <2>1, <2>3, XmlencodeFits
  <2> QED BY <2>4 DEF url_decode_xml_encode
<1> QED BY <1>1, TextsAreTyped, PTL

\* ends_with_in_list compares the words between spaces, and the empty text where
\* there is a space too many.
LEMMA OriginsAre ==
    ASSUME NEW list \in Seq(Bytes), NEW origin \in Seq(Bytes)
    PROVE  ends_with_in_list(origin, list)
             <=> \/ \E word \in ToSet(Tokens(list, Space)) : IsSuffix(word, origin)
                 \/ list = <<>> \/ Space \in {list[1], list[Len(list)]}
                 \/ \E k \in 2 .. Len(list) : list[k - 1] = Space /\ list[k] = Space
<1> DEFINE n == Len(list)
           W(i) == Word(list, Space, i)
           Spaces == {j \in DOMAIN list : list[j] = Space}
           Listed == \E word \in ToSet(Tokens(list, Space)) : IsSuffix(word, origin)
           TooMany == \/ list = <<>> \/ Space \in {list[1], list[n]}
                      \/ \E k \in 2 .. n : list[k - 1] = Space /\ list[k] = Space
<1>0. n \in Nat /\ DOMAIN list = 1 .. n
  BY SeqParts
<1>n. n \in Nat
  BY <1>0
<1>1. ends_with_in_list(origin, list) <=> \E k \in {0} \cup Spaces : IsSuffix(W(k + 1), origin)
  BY DEF ends_with_in_list, Word
<1>2. Listed <=> \E i \in Starts(list, Space, 1) : IsSuffix(W(i), origin)
  <2>1. ToSet(Tokens(list, Space)) = {W(j) : j \in Starts(list, Space, 1)}
    BY TokensAreWords
  <2> HIDE DEF W
  <2> QED BY <2>1
\* Where no word starts, the part is empty.
<1>3. ASSUME NEW i \in 1 .. n + 1, i <= n => list[i] = Space
      PROVE  IsSuffix(W(i), origin)
  <2>1. i \in Nat /\ i >= 1 /\ i <= n + 1
    BY <1>0
  <2>2. W(i) \in Seq(Bytes) /\ Len(W(i)) = 0
    BY <1>3, <2>1, WordParts
  <2> HIDE DEF W
  <2>3. Len(W(i)) <= Len(origin) /\ 1 .. Len(W(i)) = {}
    BY <2>2, SeqParts
  <2> QED BY <2>2, <2>3, SuffixIs
<1>4. \A k \in {0} \cup Spaces : k \in 0 .. n /\ k + 1 \in 1 .. n + 1
  BY <1>0
<1>5. ASSUME NEW k \in {0} \cup Spaces, IsSuffix(W(k + 1), origin)
      PROVE  Listed \/ TooMany
  <2> HIDE DEF W
  <2>1. CASE k = n
    <3>1. CASE k = 0
      <4>1. list = <<>>
        BY <2>1, <3>1, EmptySeq
      <4> QED BY <4>1
    <3>2. CASE k # 0
      <4>1. list[n] = Space
        BY <2>1, <3>2
      <4> QED BY <4>1
    <3> QED BY <3>1, <3>2
  <2>2. CASE k # n /\ list[k + 1] # Space
    <3>1. k + 1 \in 1 .. n /\ (k + 1 = 1 \/ list[(k + 1) - 1] = Space)
      <4>1. k \in 0 .. n
        BY <1>4
      <4>2. k = 0 \/ list[k] = Space
        OBVIOUS
      <4> HIDE DEF n, Spaces
      <4>3. k + 1 \in 1 .. n /\ (k + 1) - 1 = k /\ (k = 0 => k + 1 = 1)
        BY ONLY <4>1, <2>2, <1>n
      <4> QED BY <4>2, <4>3
    <3>2. k + 1 \in Starts(list, Space, 1)
      BY <3>1, <2>2 DEF Starts
    <3> QED BY <1>2, <1>5, <3>2
  <2>3. CASE k # n /\ list[k + 1] = Space
    <3>1. CASE k = 0
      <4>1. list[1] = Space
        BY <2>3, <3>1
      <4> QED BY <4>1
    <3>2. CASE k # 0
      <4>1. list[k] = Space
        BY <3>2
      <4>2. k \in 0 .. n
        BY <1>4
      <4> HIDE DEF n, Spaces
      <4>3. k + 1 \in 2 .. n /\ (k + 1) - 1 = k
        BY ONLY <2>3, <3>2, <4>2, <1>n
      <4> QED BY <4>1, <4>3, <2>3
    <3> QED BY <3>1, <3>2
  <2> QED BY <2>1, <2>2, <2>3
<1>6. ASSUME Listed
      PROVE  \E k \in {0} \cup Spaces : IsSuffix(W(k + 1), origin)
  <2>1. PICK i \in Starts(list, Space, 1) : IsSuffix(W(i), origin)
    BY <1>2, <1>6
  <2>2. i \in 1 .. n /\ (i = 1 \/ list[i - 1] = Space)
    BY DEF Starts
  <2>3. i - 1 \in {0} \cup Spaces /\ (i - 1) + 1 = i
    BY <1>0, <2>2
  <2> HIDE DEF W, Spaces
  <2> QED BY <2>1, <2>3
<1>7. ASSUME TooMany
      PROVE  \E k \in {0} \cup Spaces : IsSuffix(W(k + 1), origin)
  <2>1. \E k \in {0} \cup Spaces : k + 1 <= n => list[k + 1] = Space
    <3>1. CASE list = <<>>
      <4>1. n = 0
        BY <3>1
      <4> QED BY <4>1
    <3>2. CASE list # <<>> /\ list[1] = Space
      BY <3>2
    <3>3. CASE list # <<>> /\ list[n] = Space
      <4>1. n # 0
        BY <3>3, EmptySeq
      <4>2. n \in Spaces /\ ~(n + 1 <= n)
        BY <1>0, <3>3, <4>1
      <4> QED BY <4>2
    <3>4. ASSUME NEW k \in 2 .. n, list[k - 1] = Space, list[k] = Space
          PROVE  \E j \in {0} \cup Spaces : j + 1 <= n => list[j + 1] = Space
      <4>1. k - 1 \in Spaces /\ (k - 1) + 1 = k
        BY <1>0, <3>4
      <4> QED BY <3>4, <4>1
    <3> QED BY <1>7, <3>1, <3>2, <3>3, <3>4
  <2>2. PICK k \in {0} \cup Spaces : k + 1 <= n => list[k + 1] = Space
    BY <2>1
  <2>3. k + 1 \in 1 .. n + 1
    BY <1>4
  <2> HIDE DEF W, Spaces
  <2>4. IsSuffix(W(k + 1), origin)
    BY <1>3, <2>2, <2>3
  <2> QED BY <2>4
<1> HIDE DEF Listed, TooMany, W, Spaces
<1>8. ends_with_in_list(origin, list) <=> Listed \/ TooMany
  BY <1>1, <1>5, <1>6, <1>7
<1> QED BY <1>8 DEF Listed, TooMany

\* TextSurvives: whatever is encoded is decoded to the same text, its code has
\* only characters that cannot be taken for separators, and what a status shows
\* of the code is not cut.
THEOREM TextsSurvive == Spec => []TextSurvives
<1>1. TextInv => TextSurvives
  <2> SUFFICES ASSUME TextInv
               PROVE  LET code == url_encode(text)
                      IN  /\ ToSet(code) \subseteq Unreserved \cup {Percent, Plus}
                          /\ urldecode(code, Len(code)) = text
                          /\ url_decode_xml_encode(code).out
                               = FlattenSeq([i \in DOMAIN text |-> Piece(text[i])])
    BY DEF TextSurvives
  <2> DEFINE code == url_encode(text)
  <2>1. text \in Seq(Chars)
    BY DEF TextInv
  <2>2. ToSet(code) \subseteq CodeChars
    <3>1. PICK f : code = f[Len(text)] /\ \A k \in 0 .. Len(text) : f[k] \in Seq(CodeChars)
      BY <2>1, CodeParts
    <3>2. code \in Seq(CodeChars)
      <4>1. Len(text) \in 0 .. Len(text)
        BY <2>1, SeqParts
      <4> QED BY <3>1, <4>1
    <3> HIDE DEF code
    <3>3. DOMAIN code = 1 .. Len(code) /\ \A i \in 1 .. Len(code) : code[i] \in CodeChars
      BY <3>2, SeqParts
    <3> QED BY <3>3 DEF ToSet
  <2>3. urldecode(code, Len(code)) = text
    BY <2>1, CodeIsDecoded
  <2>4. CString(text) = text
    BY <2>1, CharsAreCString
  <2>5. xmlencode(text, 2 * Len(code)).out = FlattenSeq(Pieces(text))
    BY <2>1, PiecesAreKept
  <2>6. url_decode_xml_encode(code).out = FlattenSeq(Pieces(text))
    <3> HIDE DEF code
    <3> QED BY <2>3, <2>4, <2>5 DEF url_decode_xml_encode
  <2> QED BY <2>2, <2>3, <2>6 DEF Pieces, CodeChars
<1> QED BY <1>1, TextsAreTyped, PTL

\* BodyParsed: the pairs of a body, put together again, are the body, and
\* parse_param finds the value of a key unless strstr finds the name before.
THEOREM BodiesAreParsed == Spec => []BodyParsed
<1>1. TextInv => BodyParsed
  <2> DEFINE start == IF text # <<>> /\ text[1] = Question THEN 2 ELSE 1
             query == From(text, start)
             pairs == Reverse(parse_params(text))
  <2> SUFFICES ASSUME TextInv, query # <<>>,
                      \A i \in DOMAIN query : query[i] = Ampersand =>
                        i \notin {1, Len(query)} /\ query[i + 1] # Ampersand,
                      \A token \in ToSet(Tokens(query, Ampersand)) : WellFormed(token)
               PROVE  BodyRead(text, start, pairs)
    BY Zenon DEF BodyParsed, Shown, BodyRead
  <2>1. text \in Seq(Bytes)
    BY CharsAreBytes DEF TextInv
  <2>2. start \in Nat /\ start >= 1 /\ start <= Len(text) + 1
    <3>1. Len(text) \in Nat /\ (text # <<>> => Len(text) # 0)
      BY <2>1, SeqParts, EmptySeq
    <3> QED BY <3>1
  <2>3. GoodQuery(query)
    <3>1. query \in Seq(Bytes)
      <4> HIDE DEF start
      <4> QED BY <2>1, <2>2, FromParts
    <3> HIDE DEF query
    <3>2. DOMAIN query = 1 .. Len(query)
      BY <3>1, SeqParts
    <3> QED BY <3>2 DEF Separated, GoodQuery
  <2> QED BY <2>1, <2>3, BodyIsParsed, Zenon
<1> QED BY <1>1, TextsAreTyped, PTL

\* HeadersParsed: a request of any lines that have no CR of their own is taken apart
\* into its method, its URI and the first MaxHeaders lines in their order, however
\* lines end and whether empty lines come first; a header is found by its name.
THEOREM HeadersAreParsed == Spec => []HeadersParsed
<1>1. TextInv => HeadersParsed
  <2> DEFINE lines == Tokens(text, LF)
             given == [k \in DOMAIN lines |-> HeaderOf(lines[k])]
             kept == SubSeq(given, 1, Min({Len(given), MaxHeaders}))
             Request(end) ==
                 GET \o <<Space, Slash, Space>> \o HTTP \o <<49>> \o end
                   \o FlattenSeq([k \in DOMAIN lines |-> lines[k] \o end]) \o end
             Buffer(start, end) == start \o Front(Request(end))
             Taken(buffer) ==
                 \E request \in parse_http_request(buffer) :
                     /\ request = [method |-> GET, uri |-> <<Slash>>, version |-> <<49>>,
                                   headers |-> kept]
                     /\ \A k \in DOMAIN kept :
                          (\A j \in 1 .. k - 1 : lowercase(kept[j].name) # lowercase(kept[k].name))
                            => get_header(request.headers, lowercase(kept[k].name))
                                 = {kept[k].value}
  <2> SUFFICES ASSUME TextInv, CR \notin ToSet(text),
                      \A k \in DOMAIN lines : Colon \in ToSet(lines[k]) /\ lines[k][1] # Colon,
                      NEW start \in {<<>>, <<CR, LF>>}, NEW end \in {<<LF>>, <<CR, LF>>}
               PROVE  Taken(Buffer(start, end))
    BY Zenon DEF HeadersParsed
  <2>1. lines \in Seq(Seq(Bytes)) /\ \A k \in 1 .. Len(lines) : IsLine(lines[k])
    <3>1. text \in Seq(Bytes)
      BY CharsAreBytes DEF TextInv
    <3> QED BY <3>1, LinesOfText, Zenon
  <2>2. Buffer(start, end)
          = start \o Front(RequestLine \o end
                             \o FlattenSeq([k \in DOMAIN lines |-> lines[k] \o end]) \o end)
    BY RequestLineIs, Zenon
  <2> HIDE DEF lines, Buffer
  <2>3. /\ parse_http_request(Buffer(start, end))
             = {[method |-> GET, uri |-> <<Slash>>, version |-> <<49>>, headers |-> kept]}
        /\ \A k \in DOMAIN kept :
             (\A j \in 1 .. k - 1 : lowercase(kept[j].name) # lowercase(kept[k].name))
               => get_header(kept, lowercase(kept[k].name)) = {kept[k].value}
    <3> DEFINE s == start \o Front(RequestLine \o end
                       \o FlattenSeq([k \in DOMAIN lines |-> lines[k] \o end]) \o end)
    <3>1. /\ parse_http_request(s)
               = {[method |-> GET, uri |-> <<Slash>>, version |-> <<49>>, headers |-> kept]}
          /\ \A k \in DOMAIN kept :
               (\A j \in 1 .. k - 1 : lowercase(kept[j].name) # lowercase(kept[k].name))
                 => get_header(kept, lowercase(kept[k].name)) = {kept[k].value}
      BY ONLY <2>1, start \in {<<>>, <<CR, LF>>}, end \in {<<LF>>, <<CR, LF>>}, HeadIsTaken
    <3>2. Buffer(start, end) = s
      BY <2>2
    <3> HIDE DEF s, kept
    <3> QED BY <3>1, <3>2, Zenon
  <2> HIDE DEF kept
  <2> DEFINE r == [method |-> GET, uri |-> <<Slash>>, version |-> <<49>>, headers |-> kept]
  <2>4. r.headers = kept
    OBVIOUS
  <2>5. r \in parse_http_request(Buffer(start, end))
    BY <2>3
  <2> HIDE DEF r
  <2> SUFFICES /\ r = [method |-> GET, uri |-> <<Slash>>, version |-> <<49>>, headers |-> kept]
               /\ \A k \in DOMAIN kept :
                    (\A j \in 1 .. k - 1 : lowercase(kept[j].name) # lowercase(kept[k].name))
                      => get_header(r.headers, lowercase(kept[k].name)) = {kept[k].value}
    BY <2>5, Zenon
  <2>6. r = [method |-> GET, uri |-> <<Slash>>, version |-> <<49>>, headers |-> kept]
    BY DEF r
  <2> QED BY <2>3, <2>4, <2>6
<1> QED BY <1>1, TextsAreTyped, PTL

\* OriginsMatched, for lists and origins of any length: an origin whose scheme is
\* checked is admitted exactly when it ends with one of the words of the list, or
\* when the list is empty or has a space too many.
THEOREM OriginsAreMatched == Spec => []OriginsMatched
<1>1. TextInv => OriginsMatched
  <2> DEFINE Listed(origin) == \E word \in ToSet(Tokens(text, Space)) : IsSuffix(word, origin)
             Open == \/ text = <<>> \/ Space \in {text[1], text[Len(text)]}
                     \/ \E k \in 2 .. Len(text) : text[k - 1] = Space /\ text[k] = Space
  <2> SUFFICES ASSUME TextInv, use = "origins", NEW origin \in Origins
               PROVE  is_allowed_origin(origin, text)
                        <=> ~should_check_for_origin(origin) \/ Listed(origin) \/ Open
    BY DEF OriginsMatched
  <2>1. text \in Seq(Bytes)
    BY CharsAreBytes DEF TextInv
  <2>2. origin \in Seq(Bytes)
    <3>1. origin \in Seq(1 .. 255) /\ 1 .. 255 \subseteq Bytes
      BY TextAssumption DEF Bytes
    <3> HIDE DEF Bytes
    <3> QED BY <3>1, SeqMonotonic
  <2>3. ends_with_in_list(origin, text) <=> Listed(origin) \/ Open
    BY <2>1, <2>2, OriginsAre
  <2>4. origin = <<>> => ~should_check_for_origin(origin)
    <3>1. \A proto \in CHECK_PROTOS : Len(proto) > 0
      BY DEF CHECK_PROTOS
    <3>2. \A proto \in CHECK_PROTOS : IsPrefix(proto, <<>>) => Len(proto) <= Len(<<>>)
      BY DEF IsPrefix
    <3>3. Len(<<>>) = 0
      OBVIOUS
    <3>4. \A proto \in CHECK_PROTOS : Len(proto) \in Nat
      BY DEF CHECK_PROTOS
    <3> QED BY <3>1, <3>2, <3>3, <3>4 DEF should_check_for_origin
  <2>5. text = <<>> => Open
    OBVIOUS
  <2> HIDE DEF Listed, Open
  <2> QED BY <2>3, <2>4, <2>5 DEF is_allowed_origin
<1> QED BY <1>1, TextsAreTyped, PTL
==============================================================================
