------------------------- MODULE JpegCompressProofs --------------------------
(***************************************************************************)
(* Theorems about JpegCompress, for any size of a block, any image,        *)
(* components, script, restarts and destination.                           *)
(***************************************************************************)
EXTENDS JpegCompress, SequenceTheorems, NaturalsInduction, WellFoundedInduction, TLAPS

-----------------------------------------------------------------------------
(* Induction.  No prover instantiates the library's theorems with a        *)
(* predicate, so it is on the set of the numbers it holds of.              *)

(* A set of natural numbers has a least element.                           *)
LEMMA LeastNat ==
    ASSUME NEW S \in SUBSET Nat, S # {}
    PROVE  \E n \in S : \A k \in S : n <= k
  <1> DEFINE R == OpToRel(<, Nat)
  <1>1. IsWellFoundedOn(R, Nat)
    BY NatLessThanWellFounded
  <1>2. \A x, y \in Nat : x < y => <<x, y>> \in R
    BY DEF OpToRel
  <1> HIDE DEF R
  <1>3. PICK n \in S : \A k \in S : <<k, n>> \notin R
    BY <1>1, WFMin, Zenon
  <1>4. \A k \in S : ~(k < n)
    BY <1>2, <1>3
  <1>5. \A k \in S : k \in Nat /\ n \in Nat
    OBVIOUS
  <1> QED
    BY <1>4, <1>5

(* What holds of 0 and of the next number holds of all.                    *)
LEMMA Induction ==
    ASSUME NEW Good, 0 \in Good, \A n \in Nat : n \in Good => n + 1 \in Good
    PROVE  \A n \in Nat : n \in Good
  <1> SUFFICES ASSUME Nat \ Good # {}
               PROVE  FALSE
    OBVIOUS
  <1>1. PICK n \in Nat \ Good : \A k \in Nat \ Good : n <= k
    BY LeastNat
  <1>2. n # 0 /\ n - 1 \in Nat /\ n - 1 \in Good
    BY <1>1
  <1>3. (n - 1) + 1 \in Good
    BY <1>2
  <1> QED
    BY <1>1, <1>3

(* A set of numbers up to a bound has a largest and a least element.       *)
LEMMA MaxMin ==
    ASSUME NEW n \in Nat, NEW S \in SUBSET (0 .. n), S # {}
    PROVE  /\ Max(S) \in S /\ \A k \in S : k <= Max(S)
           /\ Min(S) \in S /\ \A k \in S : Min(S) <= k
  <1>1. PICK low \in S : \A k \in S : low <= k
    BY LeastNat
  <1> DEFINE T == {n - k : k \in S}
  <1>2. T \in SUBSET Nat /\ T # {}
    OBVIOUS
  <1>3. PICK t \in T : \A k \in T : t <= k
    <2> HIDE DEF T
    <2> QED
      BY <1>2, LeastNat
  <1>4. PICK high \in S : t = n - high
    OBVIOUS
  <1>5. \A k \in S : n - high <= n - k
    BY <1>3, <1>4
  <1>6. \A k \in S : high >= k
    BY <1>5
  <1>7. Max(S) \in S /\ \A k \in S : Max(S) >= k
    BY <1>6 DEF Max
  <1>8. Min(S) \in S /\ \A k \in S : Min(S) <= k
    BY <1>1 DEF Min
  <1> QED
    BY <1>7, <1>8

-----------------------------------------------------------------------------
(* Sequences of anything.                                                  *)

IsSeq(s) == \E S : s \in Seq(S)

LEMMA SeqHas ==
    ASSUME NEW s, IsSeq(s)
    PROVE  /\ Len(s) \in Nat /\ DOMAIN s = 1 .. Len(s)
           /\ s = [i \in 1 .. Len(s) |-> s[i]]
  BY LenProperties DEF IsSeq

(* A function on the numbers from 1 is one.                                *)
IsList(s, n) == s = [i \in 1 .. n |-> s[i]]

LEMMA ListIsSeq ==
    ASSUME NEW n \in Nat, NEW s, IsList(s, n)
    PROVE  IsSeq(s)
  <1>1. \E f : s = [i \in 1 .. n |-> f[i]]
    BY Zenon DEF IsList
  <1>2. PICK f : s = [i \in 1 .. n |-> f[i]]
    BY <1>1, Zenon
  <1>3. s \in Seq({f[i] : i \in 1 .. n})
    BY <1>2
  <1> QED
    BY <1>3 DEF IsSeq

LEMMA ListHas ==
    ASSUME NEW n \in Nat, NEW s, IsList(s, n)
    PROVE  IsSeq(s) /\ Len(s) = n /\ DOMAIN s = 1 .. n
  <1>1. Len(s) = n /\ DOMAIN s = 1 .. n
    BY DEF IsList
  <1>2. IsSeq(s)
    BY ListIsSeq
  <1> QED
    BY <1>1, <1>2

LEMMA SeqOne ==
    ASSUME NEW e
    PROVE  IsSeq(<<e>>) /\ Len(<<e>>) = 1 /\ <<e>>[1] = e
  <1>1. <<e>> \in Seq({e})
    OBVIOUS
  <1> QED
    BY <1>1 DEF IsSeq

LEMMA SeqNone == IsSeq(<<>>) /\ Len(<<>>) = 0
  <1>1. <<>> \in Seq({})
    OBVIOUS
  <1> QED
    BY <1>1 DEF IsSeq

LEMMA TwoSeqs ==
    ASSUME NEW s, NEW t, IsSeq(s), IsSeq(t)
    PROVE  \E S : s \in Seq(S) /\ t \in Seq(S)
  <1>1. PICK S : s \in Seq(S)
    BY DEF IsSeq
  <1>2. PICK T : t \in Seq(T)
    BY DEF IsSeq
  <1>3. s \in Seq(S \cup T) /\ t \in Seq(S \cup T)
    BY <1>1, <1>2, SeqMonotonic
  <1> QED
    BY <1>3

(* Joined, as an operator of its own: the provers need not know of what.   *)
s ++ t == s \o t

LEMMA SeqCat ==
    ASSUME NEW s, NEW t, IsSeq(s), IsSeq(t)
    PROVE  /\ IsSeq(s ++ t) /\ Len(s ++ t) = Len(s) + Len(t)
           /\ \A i \in 1 .. Len(s) : (s ++ t)[i] = s[i]
           /\ \A i \in 1 .. Len(t) : (s ++ t)[Len(s) + i] = t[i]
  <1>1. PICK S : s \in Seq(S) /\ t \in Seq(S)
    BY TwoSeqs
  <1>2. /\ s ++ t \in Seq(S) /\ Len(s ++ t) = Len(s) + Len(t)
        /\ \A i \in 1 .. Len(s) + Len(t) :
               (s ++ t)[i] = IF i <= Len(s) THEN s[i] ELSE t[i - Len(s)]
    BY <1>1, ConcatProperties DEF ++
  <1>3. Len(s) \in Nat /\ Len(t) \in Nat
    BY SeqHas
  <1>4. IsSeq(s ++ t)
    BY <1>2 DEF IsSeq
  <1> QED
    BY <1>2, <1>3, <1>4

LEMMA CatLen ==
    ASSUME NEW s, NEW t, IsSeq(s), IsSeq(t)
    PROVE  IsSeq(s ++ t) /\ Len(s ++ t) = Len(s) + Len(t)
  BY SeqCat

LEMMA CatFirst ==
    ASSUME NEW s, NEW t, IsSeq(s), IsSeq(t), NEW i \in 1 .. Len(s)
    PROVE  (s ++ t)[i] = s[i]
  BY SeqCat

LEMMA CatSecond ==
    ASSUME NEW s, NEW t, IsSeq(s), IsSeq(t), NEW i \in 1 .. Len(t)
    PROVE  (s ++ t)[Len(s) + i] = t[i]
  BY SeqCat

LEMMA SeqEq ==
    ASSUME NEW s, NEW t, IsSeq(s), IsSeq(t), Len(s) = Len(t),
           \A i \in 1 .. Len(s) : s[i] = t[i]
    PROVE  s = t
  BY SeqHas

LEMMA CatEmpty ==
    ASSUME NEW s, IsSeq(s)
    PROVE  s ++ <<>> = s /\ <<>> ++ s = s
  BY ConcatEmptySeq DEF IsSeq, ++

LEMMA CatAssoc ==
    ASSUME NEW s, NEW t, NEW u, IsSeq(s), IsSeq(t), IsSeq(u)
    PROVE  (s ++ t) ++ u = s ++ (t ++ u)
  <1>1. PICK S : s \in Seq(S) /\ t \in Seq(S)
    BY TwoSeqs
  <1>2. PICK U : u \in Seq(U)
    BY DEF IsSeq
  <1>3. s \in Seq(S \cup U) /\ t \in Seq(S \cup U) /\ u \in Seq(S \cup U)
    BY <1>1, <1>2, SeqMonotonic
  <1> QED
    BY <1>3, ConcatAssociative DEF ++

LEMMA SubSeqOf ==
    ASSUME NEW s, IsSeq(s), NEW m \in Nat \ {0}, NEW n \in Nat, n <= Len(s)
    PROVE  /\ IsSeq(SubSeq(s, m, n)) /\ Len(SubSeq(s, m, n)) = IF m <= n THEN n - m + 1 ELSE 0
           /\ \A i \in 1 .. n - m + 1 : SubSeq(s, m, n)[i] = s[m + i - 1]
  <1>1. PICK S : s \in Seq(S)
    BY DEF IsSeq
  <1>2. Len(s) \in Nat /\ \A i \in m .. n : s[i] \in S
    BY <1>1, LenProperties
  <1>3. /\ SubSeq(s, m, n) \in Seq(S)
        /\ Len(SubSeq(s, m, n)) = IF m <= n THEN n - m + 1 ELSE 0
        /\ \A i \in 1 .. n - m + 1 : SubSeq(s, m, n)[i] = s[m + i - 1]
    BY <1>2, SubSeqProperties
  <1> QED
    BY <1>3 DEF IsSeq

(* A sequence is its first elements and the others.                        *)
LEMMA SubSeqSplits ==
    ASSUME NEW s, IsSeq(s), NEW k \in 0 .. Len(s)
    PROVE  SubSeq(s, 1, k) ++ SubSeq(s, k + 1, Len(s)) = s
  <1>1. PICK S : s \in Seq(S)
    BY DEF IsSeq
  <1>2. Len(s) \in Nat
    BY SeqHas
  <1>3. SubSeq(s, 1, k) ++ SubSeq(s, k + 1, Len(s)) = SubSeq(s, 1, Len(s))
    <2>1. 1 \in 1 .. Len(s) + 1 /\ k \in 1 - 1 .. Len(s) /\ Len(s) \in k .. Len(s)
      BY <1>2
    <2> QED
      BY <1>1, <2>1, ConcatAdjacentSubSeq DEF ++
  <1> QED
    BY <1>1, <1>3, SubSeqFull

LEMMA SubSeqFrom ==
    ASSUME NEW s, IsSeq(s), NEW b \in 0 .. Len(s)
    PROVE  /\ IsSeq(SubSeq(s, b + 1, Len(s))) /\ Len(SubSeq(s, b + 1, Len(s))) = Len(s) - b
           /\ \A i \in 1 .. Len(s) - b : SubSeq(s, b + 1, Len(s))[i] = s[b + i]
  <1>1. Len(s) \in Nat /\ b + 1 \in Nat \ {0} /\ Len(s) <= Len(s)
    BY SeqHas
  <1>2. PICK q : q = SubSeq(s, b + 1, Len(s))
    OBVIOUS
  <1>3. /\ IsSeq(q) /\ Len(q) = IF b + 1 <= Len(s) THEN Len(s) - (b + 1) + 1 ELSE 0
        /\ \A i \in 1 .. Len(s) - (b + 1) + 1 : q[i] = s[(b + 1) + i - 1]
    BY <1>1, <1>2, SubSeqOf
  <1>4. \A i \in 1 .. Len(s) - b : i \in 1 .. Len(s) - (b + 1) + 1 /\ (b + 1) + i - 1 = b + i
    BY <1>1
  <1> QED
    BY <1>1, <1>2, <1>3, <1>4

(* What is added to a sequence is added to what follows a place in it.     *)
LEMMA SubSeqCat ==
    ASSUME NEW s, NEW t, IsSeq(s), IsSeq(t), NEW b \in 0 .. Len(s)
    PROVE  SubSeq(s ++ t, b + 1, Len(s ++ t)) = SubSeq(s, b + 1, Len(s)) ++ t
  <1>1. Len(s) \in Nat /\ Len(t) \in Nat /\ b \in Nat
    BY SeqHas
  <1>2. PICK st : st = s ++ t
    OBVIOUS
  <1>3. /\ IsSeq(st) /\ Len(st) = Len(s) + Len(t)
        /\ \A i \in 1 .. Len(s) : st[i] = s[i]
        /\ \A i \in 1 .. Len(t) : st[Len(s) + i] = t[i]
    BY <1>2, SeqCat
  <1>4. PICK l : l = SubSeq(st, b + 1, Len(st))
    OBVIOUS
  <1>5. PICK q : q = SubSeq(s, b + 1, Len(s))
    OBVIOUS
  <1>6. /\ IsSeq(l) /\ Len(l) = Len(st) - b
        /\ \A i \in 1 .. Len(st) - b : l[i] = st[b + i]
    <2>1. b \in 0 .. Len(st)
      BY <1>1, <1>3
    <2> QED
      BY <1>3, <1>4, <2>1, SubSeqFrom
  <1>7. /\ IsSeq(q) /\ Len(q) = Len(s) - b
        /\ \A i \in 1 .. Len(s) - b : q[i] = s[b + i]
    BY <1>5, SubSeqFrom
  <1>8. PICK r : r = q ++ t
    OBVIOUS
  <1>9. /\ IsSeq(r) /\ Len(r) = Len(q) + Len(t)
        /\ \A i \in 1 .. Len(q) : r[i] = q[i]
        /\ \A i \in 1 .. Len(t) : r[Len(q) + i] = t[i]
    <2>1. IsSeq(q)
      BY <1>7
    <2> QED
      BY <1>8, <2>1, SeqCat
  <1>10. ASSUME NEW i \in 1 .. Len(l)
         PROVE  l[i] = r[i]
    <2>1. CASE i <= Len(s) - b
      <3>1. i \in 1 .. Len(q) /\ b + i \in 1 .. Len(s) /\ i \in 1 .. Len(st) - b /\ i \in 1 .. Len(s) - b
        BY <1>1, <1>3, <1>6, <1>7, <2>1
      <3> QED
        BY <1>3, <1>6, <1>7, <1>9, <3>1
    <2>2. CASE i > Len(s) - b
      <3>1. PICK j \in Int : j = i - (Len(s) - b)
        BY <1>1
      <3>2. j \in 1 .. Len(t) /\ i = Len(q) + j /\ b + i = Len(s) + j /\ i \in 1 .. Len(st) - b
        BY <1>1, <1>3, <1>6, <1>7, <2>2, <3>1
      <3> QED
        BY <1>3, <1>6, <1>9, <3>2
    <2>3. i \in Int /\ Len(s) - b \in Int
      BY <1>1, <1>3, <1>6
    <2> QED
      BY <2>1, <2>2, <2>3
  <1>11. Len(l) = Len(r)
    BY <1>1, <1>3, <1>6, <1>7, <1>9
  <1>12. l = r
    BY <1>6, <1>9, <1>10, <1>11, SeqEq
  <1> QED
    BY <1>2, <1>4, <1>5, <1>8, <1>12

(* A prefix is what is before something else.                              *)
LEMMA PrefixOfCat ==
    ASSUME NEW s, NEW t, IsSeq(s), IsSeq(t)
    PROVE  IsPrefix(s, s ++ t)
  <1>1. /\ IsSeq(s ++ t) /\ Len(s ++ t) = Len(s) + Len(t) /\ Len(s) \in Nat /\ Len(t) \in Nat
        /\ \A i \in 1 .. Len(s) : (s ++ t)[i] = s[i]
    BY SeqCat, SeqHas
  <1>2. SubSeq(s, 1, Len(s)) = SubSeq(s ++ t, 1, Len(s))
    <2>1. /\ IsSeq(SubSeq(s, 1, Len(s))) /\ Len(SubSeq(s, 1, Len(s))) = Len(s)
          /\ \A i \in 1 .. Len(s) : SubSeq(s, 1, Len(s))[i] = s[i]
      BY <1>1, SubSeqOf, 1 \in Nat \ {0}, Len(s) <= Len(s), SubSeqFull DEF IsSeq
    <2>2. /\ IsSeq(SubSeq(s ++ t, 1, Len(s)))
          /\ Len(SubSeq(s ++ t, 1, Len(s))) = IF 1 <= Len(s) THEN Len(s) - 1 + 1 ELSE 0
          /\ \A i \in 1 .. Len(s) - 1 + 1 : SubSeq(s ++ t, 1, Len(s))[i] = (s ++ t)[1 + i - 1]
      <3>1. 1 \in Nat \ {0} /\ Len(s) <= Len(s ++ t)
        BY <1>1
      <3> HIDE DEF IsSeq
      <3> QED
        BY <1>1, <3>1, SubSeqOf
    <2> DEFINE p == SubSeq(s, 1, Len(s))
               q == SubSeq(s ++ t, 1, Len(s))
    <2>3. Len(p) = Len(q) /\ IsSeq(p) /\ IsSeq(q)
      BY <1>1, <2>1, <2>2
    <2>4. ASSUME NEW i \in 1 .. Len(p)
          PROVE  p[i] = q[i]
      <3>1. i \in 1 .. Len(s) /\ i \in 1 .. Len(s) - 1 + 1 /\ 1 + i - 1 = i
        BY <1>1, <2>1
      <3> QED
        BY <1>1, <2>1, <2>2, <3>1
    <2> HIDE DEF p, q
    <2>5. p = q
      BY <2>3, <2>4, SeqEq
    <2> QED
      BY <2>5 DEF p, q
  <1> QED
    BY <1>1, <1>2 DEF IsPrefix

LEMMA PrefixHasRest ==
    ASSUME NEW s, NEW t, IsSeq(s), IsSeq(t), IsPrefix(s, t)
    PROVE  \E u : IsSeq(u) /\ t = s ++ u
  <1> DEFINE u == SubSeq(t, Len(s) + 1, Len(t))
  <1>1. Len(s) \in 0 .. Len(t) /\ Len(t) \in Nat
    BY SeqHas DEF IsPrefix
  <1>2. SubSeq(s, 1, Len(s)) = s
    BY SubSeqFull DEF IsSeq
  <1>3. t = s ++ u
    BY <1>1, <1>2, SubSeqSplits DEF IsPrefix
  <1>4. IsSeq(u)
    BY <1>1, SubSeqOf, Len(s) + 1 \in Nat \ {0}, Len(t) <= Len(t)
  <1> QED
    BY <1>3, <1>4

LEMMA PrefixPasses ==
    ASSUME NEW s, NEW t, NEW u, IsSeq(s), IsSeq(t), IsSeq(u), IsPrefix(s, t), IsPrefix(t, u)
    PROVE  IsPrefix(s, u)
  <1>1. PICK v : IsSeq(v) /\ t = s ++ v
    BY PrefixHasRest
  <1>2. PICK w : IsSeq(w) /\ u = t ++ w
    BY PrefixHasRest
  <1>3. u = s ++ (v ++ w) /\ IsSeq(v ++ w)
    BY <1>1, <1>2, CatAssoc, SeqCat
  <1> QED
    BY <1>3, PrefixOfCat

-----------------------------------------------------------------------------
(* Sequences of sequences, one behind the other.                           *)

Flat(f, n) == FlattenSeq([i \in 1 .. n |-> f[i]])

(* FlattenSeq is a recursion; there is a function that satisfies it.       *)
LEMMA FlattenIs ==
    ASSUME NEW n \in Nat \ {0}, NEW s, IsList(s, n)
    PROVE  \E g : /\ FlattenSeq(s) = g[n] /\ g[1] = s[1]
                  /\ \A i \in 2 .. n : g[i] = g[i - 1] ++ s[i]
  <1> DEFINE UpTo(m, g) == g[1] = s[1] /\ \A i \in 2 .. m : g[i] = g[i - 1] ++ s[i]
             Good == {m \in Nat : \E g : UpTo(m, g)}
  <1>1. Len(s) = n
    BY ListHas
  <1>2. 0 \in Good
    <2>1. UpTo(0, [i \in {1} |-> s[1]])
      OBVIOUS
    <2> QED
      BY <2>1
  <1>3. ASSUME NEW m \in Nat, m \in Good
        PROVE  m + 1 \in Good
    <2>1. PICK g : UpTo(m, g)
      BY <1>3
    <2> DEFINE h == [i \in 1 .. m + 1 |-> IF i = 1 THEN s[1] ELSE IF i <= m THEN g[i] ELSE g[m] ++ s[m + 1]]
    <2>2. ASSUME NEW i \in 2 .. m + 1
          PROVE  h[i] = h[i - 1] ++ s[i]
      <3>1. CASE i <= m
        BY <2>1, <3>1
      <3>2. CASE i = m + 1
        <4>1. m # 0 /\ h[m] = g[m]
          BY <2>1, <3>2
        <4> QED
          BY <3>2, <4>1
      <3> QED
        BY <3>1, <3>2
    <2>3. h[1] = s[1]
      OBVIOUS
    <2> HIDE DEF h
    <2>4. UpTo(m + 1, h)
      BY <2>2, <2>3
    <2> QED
      BY <2>4
  <1>4. n \in Good
    <2> HIDE DEF Good
    <2> QED
      BY <1>2, <1>3, Induction
  <1>5. PICK g : UpTo(n, g)
    BY <1>4
  <1> DEFINE Flats(h) == [i \in 1 .. n |-> IF i = 1 THEN s[i] ELSE h[i - 1] ++ s[i]]
             h == [i \in 1 .. n |-> g[i]]
             chosen == CHOOSE k : k = Flats(k)
  <1>6. h = Flats(h)
    BY <1>5
  <1> HIDE DEF h
  <1>7. chosen = Flats(chosen)
    BY <1>6, Zenon
  <1>8. FlattenSeq(s) = chosen[n]
    BY <1>1, Zenon DEF FlattenSeq, ++
  <1> HIDE DEF chosen
  <1>9. \A i \in 1 .. n : chosen[i] = IF i = 1 THEN s[i] ELSE chosen[i - 1] ++ s[i]
    BY <1>7, Zenon
  <1>10. chosen[1] = s[1] /\ \A i \in 2 .. n : chosen[i] = chosen[i - 1] ++ s[i]
    BY <1>9
  <1> QED
    BY <1>8, <1>10

LEMMA FlatList ==
    ASSUME NEW f, NEW n \in Nat
    PROVE  /\ IsList([i \in 1 .. n |-> f[i]], n)
           /\ \A i \in 1 .. n : [j \in 1 .. n |-> f[j]][i] = f[i]
  BY DEF IsList

LEMMA FlatZero == ASSUME NEW f PROVE Flat(f, 0) = <<>>
  <1>1. [i \in 1 .. 0 |-> f[i]] = <<>> /\ Len(<<>>) = 0
    OBVIOUS
  <1> QED
    BY <1>1, Zenon DEF Flat, FlattenSeq

LEMMA FlatNext ==
    ASSUME NEW f, NEW n \in Nat, IsSeq(f[n + 1])
    PROVE  Flat(f, n + 1) = Flat(f, n) ++ f[n + 1]
  <1>1. PICK s : s = [i \in 1 .. n + 1 |-> f[i]]
    OBVIOUS
  <1>2. IsList(s, n + 1) /\ \A i \in 1 .. n + 1 : s[i] = f[i]
    BY <1>1, FlatList
  <1>3. PICK g : /\ FlattenSeq(s) = g[n + 1] /\ g[1] = s[1]
                 /\ \A i \in 2 .. n + 1 : g[i] = g[i - 1] ++ s[i]
    BY <1>2, FlattenIs, n + 1 \in Nat \ {0}
  <1>4. CASE n = 0
    <2>1. FlattenSeq(s) = f[n + 1]
      BY <1>2, <1>3, <1>4
    <2> QED
      BY <1>1, <1>4, <2>1, FlatZero, CatEmpty DEF Flat
  <1>5. CASE n # 0
    <2>1. PICK t : t = [i \in 1 .. n |-> f[i]]
      OBVIOUS
    <2>2. IsList(t, n) /\ \A i \in 1 .. n : t[i] = f[i]
      BY <2>1, FlatList
    <2>3. PICK h : /\ FlattenSeq(t) = h[n] /\ h[1] = t[1]
                   /\ \A i \in 2 .. n : h[i] = h[i - 1] ++ t[i]
      BY <1>5, <2>2, FlattenIs
    <2> DEFINE Good == {i \in Nat : i + 1 \in 1 .. n => g[i + 1] = h[i + 1]}
    <2>4. 0 \in Good
      BY <1>2, <1>3, <1>5, <2>2, <2>3
    <2>5. ASSUME NEW i \in Nat, i \in Good
          PROVE  i + 1 \in Good
      <3> SUFFICES ASSUME (i + 1) + 1 \in 1 .. n
                   PROVE  g[(i + 1) + 1] = h[(i + 1) + 1]
        OBVIOUS
      <3>1. (i + 1) + 1 \in 2 .. n + 1 /\ (i + 1) + 1 \in 2 .. n /\ ((i + 1) + 1) - 1 = i + 1 /\ i + 1 \in 1 .. n
        OBVIOUS
      <3>2. g[i + 1] = h[i + 1]
        BY <2>5, <3>1
      <3> QED
        BY <1>2, <1>3, <2>2, <2>3, <3>1, <3>2
    <2>6. n - 1 \in Good
      <3> HIDE DEF Good
      <3> QED
        BY <1>5, <2>4, <2>5, Induction, n - 1 \in Nat
    <2>7. g[n] = h[n]
      BY <1>5, <2>6
    <2>8. FlattenSeq(s) = FlattenSeq(t) ++ f[n + 1]
      BY <1>2, <1>3, <1>5, <2>3, <2>7
    <2> QED
      BY <1>1, <2>1, <2>8 DEF Flat
  <1> QED
    BY <1>4, <1>5

LEMMA FlatOne == ASSUME NEW f, IsSeq(f[1]) PROVE Flat(f, 1) = f[1]
  <1>1. Flat(f, 0 + 1) = Flat(f, 0) ++ f[0 + 1]
    BY FlatNext
  <1> QED
    BY <1>1, FlatZero, CatEmpty

LEMMA FlatIsSeq ==
    ASSUME NEW f, NEW n \in Nat, \A i \in 1 .. n : IsSeq(f[i])
    PROVE  IsSeq(Flat(f, n))
  <1> DEFINE Good == {m \in Nat : m <= n => IsSeq(Flat(f, m))}
  <1>1. 0 \in Good
    BY FlatZero, SeqNone
  <1>2. ASSUME NEW m \in Nat, m \in Good
        PROVE  m + 1 \in Good
    <2> SUFFICES ASSUME m + 1 <= n
                 PROVE  IsSeq(Flat(f, m + 1))
      OBVIOUS
    <2>1. IsSeq(f[m + 1]) /\ IsSeq(Flat(f, m))
      BY <1>2
    <2> QED
      BY <2>1, FlatNext, SeqCat
  <1>3. n \in Good
    <2> HIDE DEF Good
    <2> QED
      BY <1>1, <1>2, Induction
  <1> QED
    BY <1>3

LEMMA FlatSame ==
    ASSUME NEW f, NEW g, NEW n \in Nat, \A i \in 1 .. n : f[i] = g[i]
    PROVE  Flat(f, n) = Flat(g, n)
  <1>1. [i \in 1 .. n |-> f[i]] = [i \in 1 .. n |-> g[i]]
    OBVIOUS
  <1> QED
    BY <1>1 DEF Flat

LEMMA FlatCat ==
    ASSUME NEW f, NEW n \in Nat, NEW g, NEW m \in Nat,
           \A i \in 1 .. n + m : IsSeq(f[i]), \A i \in 1 .. m : g[i] = f[n + i]
    PROVE  Flat(f, n + m) = Flat(f, n) ++ Flat(g, m)
  <1> DEFINE Good == {k \in Nat : k <= m => Flat(f, n + k) = Flat(f, n) ++ Flat(g, k)}
  <1>1. IsSeq(Flat(f, n))
    BY FlatIsSeq
  <1>2. 0 \in Good
    BY <1>1, FlatZero, CatEmpty
  <1>3. ASSUME NEW k \in Nat, k \in Good
        PROVE  k + 1 \in Good
    <2> SUFFICES ASSUME k + 1 <= m
                 PROVE  Flat(f, n + (k + 1)) = Flat(f, n) ++ Flat(g, k + 1)
      OBVIOUS
    <2>1. n + k \in Nat /\ n + (k + 1) = (n + k) + 1 /\ IsSeq(f[(n + k) + 1]) /\ g[k + 1] = f[(n + k) + 1]
      <3>1. (n + k) + 1 \in 1 .. n + m /\ k + 1 \in 1 .. m /\ n + (k + 1) = (n + k) + 1
        OBVIOUS
      <3> QED
        BY <3>1
    <2>2. \A i \in 1 .. k : IsSeq(g[i])
      <3> TAKE i \in 1 .. k
      <3>1. n + i \in 1 .. n + m /\ i \in 1 .. m
        OBVIOUS
      <3> QED
        BY <3>1
    <2>3. IsSeq(Flat(g, k))
      BY <2>2, FlatIsSeq
    <2>4. Flat(f, n + k) = Flat(f, n) ++ Flat(g, k)
      BY <1>3
    <2>5. Flat(f, (n + k) + 1) = Flat(f, n + k) ++ f[(n + k) + 1]
      BY <2>1, FlatNext
    <2>6. Flat(g, k + 1) = Flat(g, k) ++ f[(n + k) + 1]
      BY <2>1, FlatNext
    <2>7. (Flat(f, n) ++ Flat(g, k)) ++ f[(n + k) + 1] = Flat(f, n) ++ (Flat(g, k) ++ f[(n + k) + 1])
      BY <1>1, <2>1, <2>3, CatAssoc
    <2> QED
      BY <2>1, <2>4, <2>5, <2>6, <2>7
  <1>4. m \in Good
    <2> HIDE DEF Good
    <2> QED
      BY <1>2, <1>3, Induction
  <1> QED
    BY <1>4

LEMMA FlatPrefix ==
    ASSUME NEW f, NEW n \in Nat, NEW m \in Nat, m <= n, \A i \in 1 .. n : IsSeq(f[i])
    PROVE  IsPrefix(Flat(f, m), Flat(f, n))
  <1> DEFINE g == [i \in Nat |-> f[m + i]]
  <1>1. \A i \in 1 .. n - m : g[i] = f[m + i]
    OBVIOUS
  <1> HIDE DEF g
  <1>2. n - m \in Nat /\ m + (n - m) = n
    OBVIOUS
  <1>3. Flat(f, m + (n - m)) = Flat(f, m) ++ Flat(g, n - m)
    BY <1>1, <1>2, FlatCat
  <1>4. IsSeq(Flat(f, m))
    BY FlatIsSeq
  <1>5. IsSeq(Flat(g, n - m))
    <2>1. \A i \in 1 .. n - m : IsSeq(g[i])
      <3> TAKE i \in 1 .. n - m
      <3>1. m + i \in 1 .. n
        OBVIOUS
      <3> QED
        BY <1>1, <3>1
    <2> QED
      BY <1>2, <2>1, FlatIsSeq
  <1> QED
    BY <1>2, <1>3, <1>4, <1>5, PrefixOfCat

(* Element q of sequence i is behind the sequences before i.               *)
LEMMA FlatAt ==
    ASSUME NEW f, NEW n \in Nat, \A i \in 1 .. n : IsSeq(f[i]),
           NEW i \in 1 .. n, NEW q \in 1 .. Len(f[i])
    PROVE  /\ Len(Flat(f, i - 1)) + q \in 1 .. Len(Flat(f, n))
           /\ Flat(f, n)[Len(Flat(f, i - 1)) + q] = f[i][q]
  <1>1. /\ i - 1 \in Nat /\ (i - 1) + 1 = i /\ i \in Nat /\ IsSeq(f[i])
        /\ \A k \in 1 .. i - 1 : IsSeq(f[k])
    OBVIOUS
  <1>2. IsSeq(Flat(f, i - 1)) /\ Flat(f, i) = Flat(f, i - 1) ++ f[i]
    <2>1. IsSeq(Flat(f, i - 1))
      BY <1>1, FlatIsSeq
    <2>2. Flat(f, (i - 1) + 1) = Flat(f, i - 1) ++ f[(i - 1) + 1]
      BY <1>1, FlatNext
    <2> QED
      BY <1>1, <2>1, <2>2
  <1>3. PICK a, b, c, d : a = Flat(f, i - 1) /\ b = f[i] /\ c = Flat(f, i) /\ d = Flat(f, n)
    OBVIOUS
  <1>4. IsSeq(a) /\ IsSeq(b) /\ c = a ++ b
    BY <1>1, <1>2, <1>3
  <1>5. IsSeq(c) /\ Len(c) = Len(a) + Len(b) /\ c[Len(a) + q] = b[q]
    <2>1. q \in 1 .. Len(b)
      BY <1>3
    <2>2. IsSeq(c) /\ Len(c) = Len(a) + Len(b)
      BY <1>4, CatLen
    <2>3. (a ++ b)[Len(a) + q] = b[q]
      BY <1>4, <2>1, CatSecond
    <2> QED
      BY <1>4, <2>2, <2>3
  <1>6. IsSeq(d) /\ IsPrefix(c, d)
    BY <1>3, FlatIsSeq, FlatPrefix
  <1>7. PICK u : IsSeq(u) /\ d = c ++ u
    BY <1>5, <1>6, PrefixHasRest
  <1>8. Len(d) = Len(c) + Len(u) /\ \A k \in 1 .. Len(c) : d[k] = c[k]
    BY <1>5, <1>7, CatLen, CatFirst
  <1>9. Len(a) \in Nat /\ Len(b) \in Nat /\ Len(u) \in Nat
    BY <1>4, <1>7, SeqHas
  <1>10. Len(a) + q \in 1 .. Len(c) /\ Len(a) + q \in 1 .. Len(d)
    <2>1. q \in 1 .. Len(b)
      BY <1>3
    <2> QED
      BY <1>5, <1>8, <1>9, <2>1
  <1> QED
    BY <1>3, <1>5, <1>8, <1>10

(* There are no other elements.                                            *)
LEMMA FlatHas ==
    ASSUME NEW f, NEW n \in Nat, \A i \in 1 .. n : IsSeq(f[i]), NEW k \in 1 .. Len(Flat(f, n))
    PROVE  \E i \in 1 .. n : \E q \in 1 .. Len(f[i]) : k = Len(Flat(f, i - 1)) + q
  <1> DEFINE Found(m) == \E i \in 1 .. m : \E q \in 1 .. Len(f[i]) : k = Len(Flat(f, i - 1)) + q
             Good == {m \in Nat : m <= n /\ k <= Len(Flat(f, m)) => Found(m)}
  <1>1. 0 \in Good
    BY FlatZero, SeqNone
  <1>2. ASSUME NEW m \in Nat, m \in Good
        PROVE  m + 1 \in Good
    <2> SUFFICES ASSUME m + 1 <= n, k <= Len(Flat(f, m + 1))
                 PROVE  Found(m + 1)
      OBVIOUS
    <2>1. IsSeq(f[m + 1]) /\ \A i \in 1 .. m : IsSeq(f[i])
      OBVIOUS
    <2>2. IsSeq(Flat(f, m)) /\ Flat(f, m + 1) = Flat(f, m) ++ f[m + 1]
      BY <2>1, FlatIsSeq, FlatNext
    <2>3. /\ Len(Flat(f, m + 1)) = Len(Flat(f, m)) + Len(f[m + 1])
          /\ Len(Flat(f, m)) \in Nat /\ Len(f[m + 1]) \in Nat
      BY <2>1, <2>2, SeqCat, SeqHas
    <2>4. CASE k <= Len(Flat(f, m))
      <3>1. Found(m)
        BY <1>2, <2>4
      <3> QED
        BY <3>1
    <2>5. CASE k > Len(Flat(f, m))
      <3>1. PICK q \in Int : q = k - Len(Flat(f, m))
        BY <2>3
      <3>2. q \in 1 .. Len(f[m + 1]) /\ k = Len(Flat(f, (m + 1) - 1)) + q /\ m + 1 \in 1 .. m + 1
        BY <2>3, <2>5, <3>1
      <3> QED
        BY <3>2
    <2> QED
      BY <2>3, <2>4, <2>5
  <1>3. n \in Good
    <2> HIDE DEF Good
    <2> QED
      BY <1>1, <1>2, Induction
  <1> QED
    BY <1>3

-----------------------------------------------------------------------------
(* What a decoder finds between the tables.                                *)

DataOf(s) == [i \in Nat |-> IF IsTable(s[i]) THEN <<>> ELSE <<s[i]>>]

LEMMA DataIsSeqs == ASSUME NEW s, NEW i \in Nat PROVE IsSeq(DataOf(s)[i])
  BY SeqNone, SeqOne DEF DataOf

LEMMA DataIsFlat ==
    ASSUME NEW s, IsSeq(s)
    PROVE  Data(s) = Flat(DataOf(s), Len(s)) /\ IsSeq(Data(s))
  <1>1. Len(s) \in Nat /\ DOMAIN s = 1 .. Len(s)
    BY SeqHas
  <1>2. \A i \in 1 .. Len(s) : DataOf(s)[i] = IF IsTable(s[i]) THEN <<>> ELSE <<s[i]>>
    BY <1>1 DEF DataOf
  <1>3. [i \in 1 .. Len(s) |-> DataOf(s)[i]]
            = [i \in DOMAIN s |-> IF IsTable(s[i]) THEN <<>> ELSE <<s[i]>>]
    BY <1>1, <1>2
  <1>4. Data(s) = Flat(DataOf(s), Len(s))
    BY <1>3 DEF Data, Flat
  <1>5. \A i \in 1 .. Len(s) : IsSeq(DataOf(s)[i])
    BY <1>1, DataIsSeqs
  <1> QED
    BY <1>1, <1>4, <1>5, FlatIsSeq

LEMMA DataCat ==
    ASSUME NEW s, NEW t, IsSeq(s), IsSeq(t)
    PROVE  Data(s ++ t) = Data(s) ++ Data(t)
  <1>1. Len(s) \in Nat /\ Len(t) \in Nat
    BY SeqHas
  <1>2. /\ IsSeq(s ++ t) /\ Len(s ++ t) = Len(s) + Len(t)
        /\ \A i \in 1 .. Len(s) : (s ++ t)[i] = s[i]
        /\ \A i \in 1 .. Len(t) : (s ++ t)[Len(s) + i] = t[i]
    BY SeqCat
  <1> DEFINE f == DataOf(s ++ t)
             g == DataOf(t)
             h == DataOf(s)
  <1>3. Data(s ++ t) = Flat(f, Len(s) + Len(t)) /\ Data(s) = Flat(h, Len(s)) /\ Data(t) = Flat(g, Len(t))
    BY <1>2, DataIsFlat
  <1>4. \A i \in 1 .. Len(s) : f[i] = h[i]
    BY <1>1, <1>2 DEF DataOf
  <1>5. \A i \in 1 .. Len(t) : g[i] = f[Len(s) + i]
    BY <1>1, <1>2 DEF DataOf
  <1>6. \A i \in 1 .. Len(s) + Len(t) : IsSeq(f[i])
    BY <1>1, DataIsSeqs
  <1> HIDE DEF f, g, h
  <1>7. Flat(f, Len(s) + Len(t)) = Flat(f, Len(s)) ++ Flat(g, Len(t))
    BY <1>1, <1>5, <1>6, FlatCat
  <1>8. Flat(f, Len(s)) = Flat(h, Len(s))
    BY <1>1, <1>4, FlatSame
  <1> QED
    BY <1>3, <1>7, <1>8

(* Tables leave nothing, other tokens stay as they are.                    *)
LEMMA DataNone ==
    ASSUME NEW s, IsSeq(s), \A i \in 1 .. Len(s) : IsTable(s[i])
    PROVE  Data(s) = <<>>
  <1> DEFINE Good == {k \in Nat : k <= Len(s) => Flat(DataOf(s), k) = <<>>}
  <1>1. Len(s) \in Nat
    BY SeqHas
  <1>2. 0 \in Good
    BY FlatZero
  <1>3. ASSUME NEW k \in Nat, k \in Good
        PROVE  k + 1 \in Good
    <2> SUFFICES ASSUME k + 1 <= Len(s)
                 PROVE  Flat(DataOf(s), k + 1) = <<>>
      OBVIOUS
    <2>1. DataOf(s)[k + 1] = <<>> /\ IsSeq(<<>>)
      BY <1>1, SeqNone DEF DataOf
    <2>2. Flat(DataOf(s), k + 1) = Flat(DataOf(s), k) ++ <<>> /\ Flat(DataOf(s), k) = <<>>
      BY <1>1, <1>3, <2>1, FlatNext
    <2> QED
      BY <2>1, <2>2, CatEmpty
  <1>4. Len(s) \in Good
    <2> HIDE DEF Good
    <2> QED
      BY <1>1, <1>2, <1>3, Induction
  <1> QED
    BY <1>4, DataIsFlat

LEMMA DataAll ==
    ASSUME NEW s, IsSeq(s), \A i \in 1 .. Len(s) : ~IsTable(s[i])
    PROVE  Data(s) = s
  <1> DEFINE f == DataOf(s)
             Good == {k \in Nat : k <= Len(s) => /\ Len(Flat(f, k)) = k
                                                 /\ \A i \in 1 .. k : Flat(f, k)[i] = s[i]}
  <1>1. Len(s) \in Nat
    BY SeqHas
  <1>2. 0 \in Good
    BY FlatZero, SeqNone
  <1>3. ASSUME NEW k \in Nat, k \in Good
        PROVE  k + 1 \in Good
    <2> SUFFICES ASSUME k + 1 <= Len(s)
                 PROVE  /\ Len(Flat(f, k + 1)) = k + 1
                        /\ \A i \in 1 .. k + 1 : Flat(f, k + 1)[i] = s[i]
      OBVIOUS
    <2>1. f[k + 1] = <<s[k + 1]>>
      BY <1>1 DEF DataOf
    <2>2. /\ IsSeq(f[k + 1]) /\ Len(f[k + 1]) = 1 /\ f[k + 1][1] = s[k + 1]
          /\ \A i \in 1 .. k : IsSeq(f[i])
      BY <2>1, SeqOne, DataIsSeqs
    <2> HIDE DEF f
    <2>3. IsSeq(Flat(f, k)) /\ Flat(f, k + 1) = Flat(f, k) ++ f[k + 1]
      BY <2>2, FlatIsSeq, FlatNext
    <2>4. PICK a, b, c : a = Flat(f, k) /\ b = f[k + 1] /\ c = Flat(f, k + 1)
      OBVIOUS
    <2>5. /\ Len(c) = Len(a) + Len(b) /\ \A i \in 1 .. Len(a) : c[i] = a[i]
          /\ \A i \in 1 .. Len(b) : c[Len(a) + i] = b[i]
      <3>1. IsSeq(a) /\ IsSeq(b) /\ c = a ++ b
        BY <2>2, <2>3, <2>4
      <3> QED
        BY <3>1, CatLen, CatFirst, CatSecond
    <2>6. Len(a) = k /\ \A i \in 1 .. k : a[i] = s[i]
      BY <1>3, <2>4
    <2>7. Len(c) = k + 1 /\ \A i \in 1 .. k + 1 : c[i] = s[i]
      <3>1. Len(b) = 1 /\ b[1] = s[k + 1]
        BY <2>2, <2>4
      <3>2. Len(c) = k + 1 /\ c[k + 1] = s[k + 1]
        BY <2>5, <2>6, <3>1
      <3>3. \A i \in 1 .. k : c[i] = s[i]
        BY <2>5, <2>6
      <3> QED
        BY <3>2, <3>3
    <2> QED
      BY <2>4, <2>7
  <1>4. Len(s) \in Good
    <2> HIDE DEF Good
    <2> QED
      BY <1>1, <1>2, <1>3, Induction
  <1>5. Data(s) = Flat(f, Len(s)) /\ IsSeq(Data(s))
    BY DataIsFlat
  <1> HIDE DEF f
  <1> QED
    BY <1>1, <1>4, <1>5, SeqEq

LEMMA DataPrefix ==
    ASSUME NEW s, NEW t, IsSeq(s), IsSeq(t), IsPrefix(s, t)
    PROVE  IsPrefix(Data(s), Data(t))
  <1>1. PICK u : IsSeq(u) /\ t = s ++ u
    BY PrefixHasRest
  <1>2. Data(t) = Data(s) ++ Data(u)
    BY <1>1, DataCat
  <1>3. IsSeq(Data(s)) /\ IsSeq(Data(u))
    BY <1>1, DataIsFlat
  <1> QED
    BY <1>2, <1>3, PrefixOfCat

-----------------------------------------------------------------------------
(* The destination.                                                        *)

LEMMA ConfigSize ==
    ASSUME conf \in Configs
    PROVE  conf.size \in Nat /\ conf.size > 2
  <1>1. conf \in Config
    BY ConfigsAssumption
  <1>2. PICK n : n = conf.size
    OBVIOUS
  <1>3. n \in Nat \ (0 .. 2)
    BY <1>1, <1>2 DEF Config
  <1>4. n \in Nat /\ n > 2
    BY <1>3
  <1> QED
    BY <1>2, <1>4

Upto(s, k) == SubSeq(s, 1, k)
Beyond(s, k) == SubSeq(s, k + 1, Len(s))

LEMMA TwoParts ==
    ASSUME NEW s, IsSeq(s), NEW k \in 0 .. Len(s)
    PROVE  /\ IsSeq(Upto(s, k)) /\ IsSeq(Beyond(s, k)) /\ Len(Beyond(s, k)) = Len(s) - k
           /\ Upto(s, k) ++ Beyond(s, k) = s
  <1>1. Len(s) \in Nat
    BY SeqHas
  <1>2. IsSeq(SubSeq(s, 1, k))
    BY <1>1, SubSeqOf, 1 \in Nat \ {0}, k \in Nat, k <= Len(s)
  <1>3. IsSeq(SubSeq(s, k + 1, Len(s))) /\ Len(SubSeq(s, k + 1, Len(s))) = Len(s) - k
    BY SubSeqFrom
  <1>4. SubSeq(s, 1, k) ++ SubSeq(s, k + 1, Len(s)) = s
    BY SubSeqSplits DEF ++
  <1> QED
    BY <1>2, <1>3, <1>4 DEF Upto, Beyond

LEMMA BeyondCat ==
    ASSUME NEW s, NEW t, IsSeq(s), IsSeq(t), NEW b \in 0 .. Len(s)
    PROVE  Beyond(s ++ t, b) = Beyond(s, b) ++ t /\ b \in 0 .. Len(s ++ t)
  <1>1. Beyond(s ++ t, b) = Beyond(s, b) ++ t
    BY SubSeqCat DEF Beyond
  <1>2. Len(s ++ t) = Len(s) + Len(t) /\ Len(t) \in Nat /\ Len(s) \in Nat
    BY CatLen, SeqHas
  <1>3. b \in 0 .. Len(s ++ t)
    BY <1>2
  <1> QED
    BY <1>1, <1>3

(* Types; and the buffer is emptied as soon as it is full.                 *)
OutTypes == /\ IsSeq(buf) /\ IsSeq(file) /\ begun \in 0 .. Len(file) /\ conf \in Configs
            /\ Len(buf) < conf.size

LEMMA StreamIsSeq ==
    ASSUME OutTypes
    PROVE  /\ IsSeq(Beyond(file, begun)) /\ Stream = Beyond(file, begun) ++ buf /\ IsSeq(Stream)
  <1>1. IsSeq(Beyond(file, begun))
    BY TwoParts DEF OutTypes
  <1>2. Stream = Beyond(file, begun) ++ buf
    BY DEF Stream, Beyond, ++
  <1> QED
    BY <1>1, <1>2, CatLen DEF OutTypes

(* What is moved from the buffer to the file is still there.               *)
LEMMA Moves ==
    ASSUME OutTypes, begun' = begun, NEW b, IsSeq(b), NEW k \in 0 .. Len(b), file' = file ++ Upto(b, k)
    PROVE  /\ IsSeq(file') /\ begun' \in 0 .. Len(file')
           /\ Beyond(file', begun') = Beyond(file, begun) ++ Upto(b, k)
           /\ file' ++ Beyond(b, k) = file ++ b
           /\ (Beyond(file, begun) ++ Upto(b, k)) ++ Beyond(b, k) = Beyond(file, begun) ++ b
  <1>1. PICK p, r : p = Upto(b, k) /\ r = Beyond(b, k)
    OBVIOUS
  <1>2. IsSeq(p) /\ IsSeq(r) /\ p ++ r = b
    BY <1>1, TwoParts
  <1>3. IsSeq(file) /\ begun \in 0 .. Len(file)
    BY DEF OutTypes
  <1>4. PICK g : g = file ++ p
    OBVIOUS
  <1>5. IsSeq(g) /\ begun \in 0 .. Len(g) /\ Beyond(g, begun) = Beyond(file, begun) ++ p
    BY <1>2, <1>3, <1>4, CatLen, BeyondCat
  <1>6. g ++ r = file ++ b
    BY <1>2, <1>3, <1>4, CatAssoc
  <1>7. (Beyond(file, begun) ++ p) ++ r = Beyond(file, begun) ++ b
    BY <1>2, <1>3, StreamIsSeq, CatAssoc
  <1>8. file' = g
    BY <1>1, <1>4
  <1> QED
    BY <1>1, <1>5, <1>6, <1>7, <1>8

(* Full buffers, as many as there are.                                     *)
LEMMA DumpsAre ==
    ASSUME OutTypes, NEW tokens, IsSeq(tokens)
    PROVE  /\ IsSeq(buf ++ tokens) /\ Len(buf ++ tokens) = Len(buf) + Len(tokens)
           /\ Dumps(tokens) \in Nat /\ Dumps(tokens) * conf.size \in 0 .. Len(buf ++ tokens)
           /\ Len(buf ++ tokens) - Dumps(tokens) * conf.size < conf.size
           /\ Total(tokens) = buf ++ tokens
  <1>1. IsSeq(buf ++ tokens) /\ Len(buf ++ tokens) = Len(buf) + Len(tokens)
    BY CatLen DEF OutTypes
  <1>2. Total(tokens) = buf ++ tokens
    BY DEF Total, ++
  <1>3. PICK n : n = Len(buf ++ tokens)
    OBVIOUS
  <1>4. n \in Nat
    BY <1>1, <1>3, SeqHas
  <1>5. PICK z : z = conf.size
    OBVIOUS
  <1>6. z \in Nat /\ z > 0
    BY <1>5, ConfigSize DEF OutTypes
  <1>7. PICK q \in Int, r \in Int : q = n \div z /\ r = n % z
    BY <1>4, <1>6
  <1>8. r \in 0 .. z - 1 /\ n = z * q + r /\ q \in Nat
    BY <1>4, <1>6, <1>7
  <1>9. z * q = q * z /\ q * z \in Nat
    BY <1>6, <1>8
  <1>10. Dumps(tokens) = q
    BY <1>2, <1>3, <1>5, <1>7 DEF Dumps
  <1>11. q * z \in 0 .. n /\ n - q * z < z
    BY <1>4, <1>6, <1>8, <1>9
  <1> QED
    BY <1>1, <1>2, <1>3, <1>5, <1>8, <1>10, <1>11

LEMMA Emits ==
    ASSUME OutTypes, NEW tokens, IsSeq(tokens), Emit(tokens), begun' = begun, conf' = conf
    PROVE  /\ OutTypes' /\ Stream' = Stream ++ tokens /\ IsSeq(Stream')
           /\ file' ++ buf' = (file ++ buf) ++ tokens
  <1>1. PICK b, k : b = buf ++ tokens /\ k = Dumps(tokens) * conf.size
    OBVIOUS
  <1>2. IsSeq(b) /\ k \in 0 .. Len(b) /\ Len(b) - k < conf.size /\ Total(tokens) = b
    BY <1>1, DumpsAre
  <1>3. file' = file ++ Upto(b, k) /\ buf' = Beyond(b, k)
    BY <1>1, <1>2 DEF Emit, Written, ++, Upto, Beyond
  <1>4. IsSeq(file) /\ begun \in 0 .. Len(file) /\ IsSeq(buf)
    BY DEF OutTypes
  <1>5. /\ IsSeq(file') /\ begun' \in 0 .. Len(file')
        /\ Beyond(file', begun') = Beyond(file, begun) ++ Upto(b, k)
        /\ file' ++ Beyond(b, k) = file ++ b
        /\ (Beyond(file, begun) ++ Upto(b, k)) ++ Beyond(b, k) = Beyond(file, begun) ++ b
    BY <1>2, <1>3, Moves
  <1>6. IsSeq(buf') /\ Len(buf') = Len(b) - k
    BY <1>2, <1>3, TwoParts
  <1>7. OutTypes'
    BY <1>2, <1>5, <1>6 DEF OutTypes
  <1>8. Stream' = Beyond(file, begun) ++ b
    <2>1. Stream' = Beyond(file', begun') ++ buf'
      BY DEF Stream, Beyond, ++
    <2> QED
      BY <1>3, <1>5, <2>1
  <1>9. IsSeq(Beyond(file, begun)) /\ Stream = Beyond(file, begun) ++ buf /\ IsSeq(Stream)
    BY StreamIsSeq
  <1>10. Beyond(file, begun) ++ b = (Beyond(file, begun) ++ buf) ++ tokens /\ file ++ b = (file ++ buf) ++ tokens
    BY <1>1, <1>4, <1>9, CatAssoc
  <1>11. IsSeq(Stream ++ tokens)
    BY <1>9, CatLen
  <1> QED
    BY <1>3, <1>5, <1>7, <1>8, <1>9, <1>10, <1>11

(* After an error the file has a part of what was to be written.           *)
LEMMA Fails ==
    ASSUME OutTypes, NEW tokens, IsSeq(tokens), NEW n \in Nat, n <= Len(buf ++ tokens) + 1,
           FailsWithin(tokens, n)
    PROVE  OutTypes' /\ IsSeq(Stream') /\ IsPrefix(Stream', Stream ++ tokens)
  <1>1. begun' = begun /\ conf' = conf /\ buf' = <<>>
    BY DEF FailsWithin, Exits, historyVars, clientVars
  <1>2. PICK b : b = buf ++ tokens
    OBVIOUS
  <1>3. IsSeq(b) /\ Total(tokens) = b /\ Len(b) \in Nat
    BY <1>2, DumpsAre, SeqHas
  <1>4. PICK k \in 0 .. n - 1 : file' = file \o IF CanSuspend THEN <<>> ELSE SubSeq(Total(tokens), 1, k)
    BY DEF FailsWithin
  <1>5. \E l \in 0 .. Len(b) : file' = file ++ Upto(b, l)
    <2>1. CASE CanSuspend
      <3>1. SubSeq(b, 1, 0) = <<>>
        BY SubSeqEmpty
      <3> QED
        BY <1>3, <1>4, <2>1, <3>1, 0 \in 0 .. Len(b) DEF ++, Upto
    <2>2. CASE ~CanSuspend
      <3>1. k \in 0 .. Len(b)
        BY <1>2, <1>3, <1>4
      <3> QED
        BY <1>3, <1>4, <2>2, <3>1 DEF ++, Upto
    <2> QED
      BY <2>1, <2>2
  <1>6. PICK l \in 0 .. Len(b) : file' = file ++ Upto(b, l)
    BY <1>5
  <1>7. PICK p, r : p = Upto(b, l) /\ r = Beyond(b, l)
    OBVIOUS
  <1>8. /\ IsSeq(file') /\ begun' \in 0 .. Len(file')
        /\ Beyond(file', begun') = Beyond(file, begun) ++ p
        /\ (Beyond(file, begun) ++ p) ++ r = Beyond(file, begun) ++ b
    BY <1>1, <1>3, <1>6, <1>7, Moves
  <1>9. IsSeq(p) /\ IsSeq(r)
    BY <1>3, <1>7, TwoParts
  <1>10. IsSeq(Beyond(file, begun)) /\ Stream = Beyond(file, begun) ++ buf /\ IsSeq(Stream) /\ IsSeq(buf)
    BY StreamIsSeq DEF OutTypes
  <1>11. IsSeq(Beyond(file, begun) ++ p)
    BY <1>9, <1>10, CatLen
  <1>12. Stream' = Beyond(file, begun) ++ p
    <2>1. Stream' = Beyond(file', begun') ++ <<>>
      BY <1>1 DEF Stream, Beyond, ++
    <2> QED
      BY <2>1, <1>8, <1>11, CatEmpty
  <1>13. Stream ++ tokens = (Beyond(file, begun) ++ p) ++ r
    <2>1. Stream ++ tokens = Beyond(file, begun) ++ b
      BY <1>2, <1>10, CatAssoc
    <2> QED
      BY <1>8, <2>1
  <1>14. OutTypes'
    <2>1. Len(<<>>) < conf.size
      BY SeqNone, ConfigSize DEF OutTypes
    <2> QED
      BY <1>1, <1>8, <2>1, SeqNone DEF OutTypes
  <1> QED
    BY <1>9, <1>11, <1>12, <1>13, <1>14, PrefixOfCat

-----------------------------------------------------------------------------
(* Numbers that are rounded up.                                            *)

LEMMA Times ==
    ASSUME NEW a \in Int, NEW b \in Int, NEW m \in Nat
    PROVE  /\ a * m \in Int /\ a <= b => a * m <= b * m
           /\ a * m < b * m => a < b
  <1>1. ASSUME NEW k \in Nat
        PROVE  k * m >= 0
    OBVIOUS
  <1>2. a <= b => (b - a) * m >= 0
    BY <1>1, a <= b => b - a \in Nat
  <1>3. (b - a) * m = b * m - a * m
    OBVIOUS
  <1>4. a <= b => a * m <= b * m
    BY <1>2, <1>3
  <1>5. b <= a => (a - b) * m >= 0
    BY <1>1, b <= a => a - b \in Nat
  <1>6. (a - b) * m = a * m - b * m
    OBVIOUS
  <1> QED
    BY <1>4, <1>5, <1>6

LEMMA DivUpHas ==
    ASSUME NEW n \in Nat, NEW m \in Nat \ {0}
    PROVE  /\ DivUp(n, m) \in Nat /\ n <= DivUp(n, m) * m /\ (DivUp(n, m) - 1) * m < n
           /\ n > 0 => DivUp(n, m) > 0
  <1> DEFINE q == (n + m - 1) \div m
             r == (n + m - 1) % m
  <1>1. q \in Int /\ r \in 0 .. m - 1 /\ n + m - 1 = m * q + r
    OBVIOUS
  <1>2. q \in Nat
    BY n + m - 1 \in Nat
  <1>3. q * m \in Nat /\ m * q = q * m /\ (q - 1) * m = q * m - m
    BY <1>2
  <1>4. DivUp(n, m) = q
    BY DEF DivUp
  <1> HIDE DEF q, r
  <1>5. n <= q * m /\ q * m - m < n
    BY <1>1, <1>2, <1>3
  <1>6. n > 0 => q > 0
    BY <1>2, <1>5
  <1> QED
    BY <1>2, <1>3, <1>4, <1>5, <1>6

(* Quotient and remainder are found from any sum that looks like them.     *)
LEMMA DivMod ==
    ASSUME NEW q \in Int, NEW m \in Nat \ {0}, NEW r \in 0 .. m - 1
    PROVE  (q * m + r) \div m = q /\ (q * m + r) % m = r
  <1> DEFINE n == q * m + r
             p == n \div m
             s == n % m
  <1>1. n \in Int
    OBVIOUS
  <1>2. p \in Int /\ s \in 0 .. m - 1 /\ n = m * p + s
    <2> HIDE DEF n
    <2> QED
      BY <1>1
  <1>3. m * p = p * m /\ p * m \in Int /\ q * m \in Int
    BY <1>2
  <1>4. (p + 1) * m = p * m + m /\ (q + 1) * m = q * m + m
    BY <1>2
  <1>5. n = q * m + r
    OBVIOUS
  <1> HIDE DEF n, p, s
  <1>6. q * m < (p + 1) * m /\ p * m < (q + 1) * m
    BY <1>2, <1>3, <1>4, <1>5
  <1>7. q < p + 1 /\ p < q + 1
    BY <1>2, <1>6, Times
  <1>8. p = q
    BY <1>2, <1>7
  <1>9. s = r
    BY <1>2, <1>3, <1>5, <1>8
  <1> QED
    BY <1>8, <1>9 DEF n, p, s

LEMMA Swap ==
    ASSUME NEW a \in Int, NEW b \in Int, NEW c \in Int
    PROVE  (a * b) * c = (a * c) * b
  OBVIOUS

(* Blocks of which v make an MCU: the last MCU has at least one.           *)
LEMMA Blocks ==
    ASSUME NEW n \in Nat \ {0}, NEW m \in Nat \ {0}, NEW v \in Nat \ {0}
    PROVE  /\ DivUp(n, m) \in Nat \ {0} /\ DivUp(n * v, m) \in Nat \ {0}
           /\ (DivUp(n, m) - 1) * v < DivUp(n * v, m) /\ DivUp(n * v, m) <= DivUp(n, m) * v
           /\ Rest(DivUp(n * v, m), v) = DivUp(n * v, m) - (DivUp(n, m) - 1) * v
  <1>1. PICK t, b : t = DivUp(n, m) /\ b = DivUp(n * v, m)
    OBVIOUS
  <1>2. n * v \in Nat /\ n * v > 0
    OBVIOUS
  <1>3. t \in Nat \ {0} /\ n <= t * m /\ (t - 1) * m < n
    BY <1>1, DivUpHas
  <1>4. b \in Nat \ {0} /\ n * v <= b * m /\ (b - 1) * m < n * v
    BY <1>1, <1>2, DivUpHas
  <1>5. t * m \in Int /\ (t - 1) * m \in Int
    BY <1>3
  <1>6. n * v <= (t * m) * v
    BY <1>3, <1>5, Times
  <1>7. ((t - 1) * m) * v < n * v
    <2>1. (t - 1) * m + 1 <= n /\ (t - 1) * m + 1 \in Int
      BY <1>3, <1>5
    <2>2. ((t - 1) * m + 1) * v <= n * v
      BY <2>1, Times
    <2>3. ((t - 1) * m + 1) * v = ((t - 1) * m) * v + v
      BY <1>5
    <2>4. ((t - 1) * m) * v \in Int
      BY <1>5
    <2> QED
      BY <1>2, <2>2, <2>3, <2>4
  <1>8. (t * m) * v = (t * v) * m /\ ((t - 1) * m) * v = ((t - 1) * v) * m
    <2>1. t \in Int /\ t - 1 \in Int /\ m \in Int /\ v \in Int
      BY <1>3
    <2> QED
      BY <2>1, Swap
  <1>9. t * v \in Int /\ (t - 1) * v \in Int /\ t * v = (t - 1) * v + v
    <2>1. t \in Int
      BY <1>3
    <2>2. t * v \in Int /\ (t - 1) * v \in Int
      BY <2>1
    <2>3. t * v = (t - 1) * v + v
      BY <2>1
    <2> QED
      BY <2>2, <2>3
  <1>10. (b - 1) * m < (t * v) * m
    <2>1. (t * v) * m \in Int /\ (b - 1) * m \in Int
      BY <1>4, <1>9
    <2> QED
      BY <1>2, <1>4, <1>6, <1>8, <2>1
  <1>11. b - 1 < t * v
    BY <1>4, <1>9, <1>10, Times
  <1>12. ((t - 1) * v) * m < b * m
    <2>1. ((t - 1) * v) * m \in Int /\ b * m \in Int
      BY <1>4, <1>9
    <2> QED
      BY <1>2, <1>4, <1>7, <1>8, <2>1
  <1>13. (t - 1) * v < b
    BY <1>4, <1>9, <1>12, Times
  <1>14. b <= t * v
    BY <1>4, <1>9, <1>11
  <1>15. PICK r \in Int : r = b - (t - 1) * v
    BY <1>4, <1>9
  <1>16. r \in 1 .. v
    BY <1>4, <1>9, <1>13, <1>14, <1>15
  <1>17. Rest(b, v) = r
    <2>1. CASE r = v
      <3>1. b = t * v + 0
        BY <1>9, <1>15, <2>1, <1>4
      <3>2. b % v = 0
        BY <3>1, <1>3, DivMod, 0 \in 0 .. v - 1
      <3> QED
        BY <2>1, <3>2 DEF Rest
    <2>2. CASE r # v
      <3>1. b = (t - 1) * v + r /\ r \in 0 .. v - 1
        BY <1>4, <1>9, <1>15, <1>16, <2>2
      <3>2. t - 1 \in Int
        BY <1>3
      <3>3. ((t - 1) * v + r) % v = r
        BY <3>1, <3>2, DivMod
      <3>4. b % v = r
        BY <3>1, <3>3
      <3> QED
        BY <1>16, <2>2, <3>4, r # 0 DEF Rest
    <2> QED
      BY <2>1, <2>2
  <1> QED
    BY <1>1, <1>3, <1>4, <1>13, <1>14, <1>15, <1>17

-----------------------------------------------------------------------------
(* The geometry of an image and its scans.                                 *)

LEMMA ConfigIs ==
    ASSUME conf \in Configs
    PROVE  /\ conf.width \in Nat \ {0} /\ conf.height \in Nat \ {0}
           /\ conf.interval \in Nat /\ conf.inRows \in Nat
           /\ conf.optimize \in BOOLEAN /\ conf.raw \in BOOLEAN
  <1>1. conf \in Config
    BY ConfigsAssumption
  <1>2. conf.width \in Nat \ {0}
    BY <1>1 DEF Config
  <1>3. conf.height \in Nat \ {0}
    BY <1>1 DEF Config
  <1>4. conf.interval \in Nat
    <2>1. PICK n : n = conf.interval
      OBVIOUS
    <2>2. n \in 0 .. MaxInterval
      BY <1>1, <2>1 DEF Config
    <2>3. MaxInterval \in Nat
      BY DEF MaxInterval
    <2>4. n \in Nat
      BY <2>2, <2>3
    <2> QED
      BY <2>1, <2>4
  <1>5. conf.inRows \in Nat
    BY <1>1 DEF Config
  <1>6. conf.optimize \in BOOLEAN
    BY <1>1 DEF Config
  <1>7. conf.raw \in BOOLEAN
    BY <1>1 DEF Config
  <1> QED
    BY <1>2, <1>3, <1>4, <1>5, <1>6, <1>7

LEMMA CompsAre ==
    ASSUME conf \in Configs
    PROVE  /\ \E n \in Nat \ {0} : Comps = 1 .. n
           /\ \A c \in Comps : H(c) \in 1 .. 4 /\ V(c) \in 1 .. 4
  <1>1. conf \in Config
    BY ConfigsAssumption
  <1>2. PICK comps : comps = conf.comps
    OBVIOUS
  <1>3. comps \in Seq(Sampled) \ {<<>>}
    BY <1>1, <1>2 DEF Config
  <1>4. Len(comps) \in Nat \ {0} /\ DOMAIN comps = 1 .. Len(comps)
    BY <1>3, LenProperties, EmptySeq
  <1>5. \A c \in 1 .. Len(comps) : comps[c] \in Sampled
    BY <1>3, <1>4, ElementOfSeq
  <1>6. ASSUME NEW c \in 1 .. Len(comps)
        PROVE  comps[c].h \in 1 .. 4 /\ comps[c].v \in 1 .. 4
    <2>1. PICK e : e = comps[c]
      OBVIOUS
    <2>2. e \in Sampled
      BY <1>5, <2>1
    <2>3. e.h \in 1 .. 4 /\ e.v \in 1 .. 4
      BY <2>2 DEF Sampled
    <2> QED
      BY <2>1, <2>3
  <1> QED
    BY <1>2, <1>4, <1>6 DEF Comps, H, V

LEMMA MaxAre ==
    ASSUME conf \in Configs
    PROVE  MaxH \in 1 .. 4 /\ MaxV \in 1 .. 4
  <1>1. PICK n \in Nat \ {0} : Comps = 1 .. n
    BY CompsAre
  <1>2. \A c \in Comps : H(c) \in 1 .. 4 /\ V(c) \in 1 .. 4
    BY CompsAre
  <1> DEFINE hs == {H(c) : c \in Comps}
             vs == {V(c) : c \in Comps}
  <1>3. /\ hs \in SUBSET (0 .. 4) /\ vs \in SUBSET (0 .. 4)
        /\ hs \subseteq 1 .. 4 /\ vs \subseteq 1 .. 4
    BY <1>2
  <1>4. 1 \in Comps
    BY <1>1
  <1>5. H(1) \in hs /\ V(1) \in vs
    BY <1>4
  <1> HIDE DEF hs, vs
  <1>6. hs # {} /\ vs # {}
    BY <1>5
  <1>7. Max(hs) \in hs /\ Max(vs) \in vs
    BY <1>3, <1>6, MaxMin, 4 \in Nat
  <1>8. Max(hs) \in 1 .. 4 /\ Max(vs) \in 1 .. 4
    BY <1>3, <1>7
  <1> QED
    BY <1>8 DEF MaxH, MaxV, hs, vs

(* iMCU rows and columns, and blocks of a component in them.               *)
MCUsWide == DivUp(conf.width, MaxH * D)

LEMMA Product ==
    ASSUME NEW a \in Nat \ {0}, NEW b \in Nat \ {0}
    PROVE  a * b \in Nat \ {0}
  <1>1. a * b \in Nat
    OBVIOUS
  <1>2. 1 * b <= a * b
    BY Times, 1 \in Int, 1 <= a
  <1> QED
    BY <1>1, <1>2

LEMMA WidthIs ==
    ASSUME conf \in Configs, NEW c \in Comps
    PROVE  /\ MCUsWide \in Nat \ {0} /\ WidthInBlocks(c) \in Nat \ {0}
           /\ (MCUsWide - 1) * H(c) < WidthInBlocks(c) /\ WidthInBlocks(c) <= MCUsWide * H(c)
           /\ Rest(WidthInBlocks(c), H(c)) = WidthInBlocks(c) - (MCUsWide - 1) * H(c)
  <1>1. H(c) \in Nat \ {0} /\ MaxH \in Nat \ {0} /\ conf.width \in Nat \ {0}
    BY CompsAre, MaxAre, ConfigIs
  <1>2. MaxH * D \in Nat \ {0}
    BY <1>1, DAssumption, Product
  <1>3. PICK n, m, v : n = conf.width /\ m = MaxH * D /\ v = H(c)
    OBVIOUS
  <1>4. PICK t, b : t = DivUp(n, m) /\ b = DivUp(n * v, m)
    OBVIOUS
  <1>5. /\ t \in Nat \ {0} /\ b \in Nat \ {0}
        /\ (t - 1) * v < b /\ b <= t * v /\ Rest(b, v) = b - (t - 1) * v
    <2>1. n \in Nat \ {0} /\ m \in Nat \ {0} /\ v \in Nat \ {0}
      BY <1>1, <1>2, <1>3
    <2>2. /\ DivUp(n, m) \in Nat \ {0} /\ DivUp(n * v, m) \in Nat \ {0}
          /\ (DivUp(n, m) - 1) * v < DivUp(n * v, m) /\ DivUp(n * v, m) <= DivUp(n, m) * v
          /\ Rest(DivUp(n * v, m), v) = DivUp(n * v, m) - (DivUp(n, m) - 1) * v
      BY <2>1, Blocks
    <2> QED
      BY <1>4, <2>2, Zenon
  <1> QED
    BY <1>3, <1>4, <1>5 DEF MCUsWide, WidthInBlocks

LEMMA HeightIs ==
    ASSUME conf \in Configs, NEW c \in Comps
    PROVE  /\ TotalRows \in Nat \ {0} /\ HeightInBlocks(c) \in Nat \ {0}
           /\ (TotalRows - 1) * V(c) < HeightInBlocks(c) /\ HeightInBlocks(c) <= TotalRows * V(c)
           /\ LastRowHeight(c) = HeightInBlocks(c) - (TotalRows - 1) * V(c)
  <1>1. V(c) \in Nat \ {0} /\ MaxV \in Nat \ {0} /\ conf.height \in Nat \ {0}
    BY CompsAre, MaxAre, ConfigIs
  <1>2. MaxV * D \in Nat \ {0}
    BY <1>1, DAssumption, Product
  <1>3. PICK n, m, v : n = conf.height /\ m = MaxV * D /\ v = V(c)
    OBVIOUS
  <1>4. PICK t, b : t = DivUp(n, m) /\ b = DivUp(n * v, m)
    OBVIOUS
  <1>5. /\ t \in Nat \ {0} /\ b \in Nat \ {0}
        /\ (t - 1) * v < b /\ b <= t * v /\ Rest(b, v) = b - (t - 1) * v
    <2>1. n \in Nat \ {0} /\ m \in Nat \ {0} /\ v \in Nat \ {0}
      BY <1>1, <1>2, <1>3
    <2>2. /\ DivUp(n, m) \in Nat \ {0} /\ DivUp(n * v, m) \in Nat \ {0}
          /\ (DivUp(n, m) - 1) * v < DivUp(n * v, m) /\ DivUp(n * v, m) <= DivUp(n, m) * v
          /\ Rest(DivUp(n * v, m), v) = DivUp(n * v, m) - (DivUp(n, m) - 1) * v
      BY <2>1, Blocks
    <2> QED
      BY <1>4, <2>2, Zenon
  <1> QED
    BY <1>3, <1>4, <1>5 DEF TotalRows, HeightInBlocks, LastRowHeight

(* A scan: components of the image, none twice.                            *)
GoodScan(scan) ==
    /\ scan \in Seq(Comps) /\ Len(scan) \in Nat \ {0}
    /\ \A i, j \in 1 .. Len(scan) : scan[i] = scan[j] => i = j

LEMMA ScansAre ==
    ASSUME conf \in Configs, ScriptIsValid
    PROVE  /\ Len(Scans) \in Nat \ {0} /\ DOMAIN Scans = 1 .. Len(Scans)
           /\ \A s \in 1 .. Len(Scans) : GoodScan(Scans[s])
  <1>1. conf \in Config
    BY ConfigsAssumption
  <1>2. PICK script : script = conf.scans
    OBVIOUS
  <1>3. script \in Seq(Seq(Nat) \ {<<>>})
    <2>1. script \in ScanScripts
      BY <1>1, <1>2 DEF Config
    <2> QED
      BY <2>1 DEF ScanScripts
  <1>4. PICK n \in Nat \ {0} : Comps = 1 .. n
    BY CompsAre
  <1>5. Scans \in Seq(Seq(Nat) \ {<<>>}) /\ Scans # <<>>
    <2>1. CASE script = <<>>
      <3>1. PICK s : s = [c \in Comps |-> c]
        OBVIOUS
      <3>2. s \in Seq(Nat) /\ s # <<>>
        <4>1. s \in Seq(1 .. n) /\ Len(s) = n
          BY <1>4, <3>1
        <4> QED
          BY <1>4, <4>1, SeqMonotonic, SeqNone, 1 .. n \subseteq Nat
      <3>3. Scans = <<s>>
        BY <1>2, <2>1, <3>1 DEF Scans
      <3> QED
        BY <3>2, <3>3
    <2>2. CASE script # <<>>
      BY <1>2, <1>3, <2>2 DEF Scans
    <2> QED
      BY <2>1, <2>2
  <1>6. Len(Scans) \in Nat \ {0} /\ DOMAIN Scans = 1 .. Len(Scans)
    BY <1>5, LenProperties, EmptySeq
  <1>7. ASSUME NEW s \in 1 .. Len(Scans)
        PROVE  GoodScan(Scans[s])
    <2>1. PICK scan : scan = Scans[s]
      OBVIOUS
    <2>2. scan \in Seq(Nat) \ {<<>>}
      BY <1>5, <1>6, <2>1, ElementOfSeq
    <2>3. Len(scan) \in Nat \ {0} /\ DOMAIN scan = 1 .. Len(scan)
      BY <2>2, LenProperties, EmptySeq
    <2>4. \A i \in 1 .. Len(scan) : scan[i] \in Comps /\ \A j \in 1 .. i - 1 : scan[j] < scan[i]
      BY <1>6, <2>1, <2>3 DEF ScriptIsValid
    <2>5. scan = [i \in 1 .. Len(scan) |-> scan[i]]
      BY <2>2, LenProperties
    <2>6. scan \in Seq(Comps)
      <3>1. scan \in [1 .. Len(scan) -> Comps]
        BY <2>4, <2>5
      <3> QED
        BY <2>3, <3>1, SeqDef
    <2>7. ASSUME NEW i \in 1 .. Len(scan), NEW j \in 1 .. Len(scan), scan[i] = scan[j]
          PROVE  i = j
      <3>1. \A k \in 1 .. Len(scan) : scan[k] \in Int
        BY <1>4, <2>4
      <3>2. CASE i < j
        <4>1. i \in 1 .. j - 1
          BY <3>2
        <4> QED
          BY <2>4, <2>7, <3>1, <4>1
      <3>3. CASE j < i
        <4>1. j \in 1 .. i - 1
          BY <3>3
        <4> QED
          BY <2>4, <2>7, <3>1, <4>1
      <3> QED
        BY <3>2, <3>3
    <2> QED
      BY <2>1, <2>3, <2>6, <2>7 DEF GoodScan
  <1> QED
    BY <1>6, <1>7

(* An iMCU row of a scan begins at this row of MCUs of the scan.           *)
RowBase(scan, row) == IF Together(scan) THEN row ELSE row * V(scan[1])
RowCount(scan) == IF Together(scan) THEN TotalRows ELSE HeightInBlocks(scan[1])
Index(scan, row, vert, mcu) == (RowBase(scan, row) + vert) * McusPerRow(scan) + mcu

AtPlace(scan, row, vert, mcu) ==
    /\ row \in 0 .. TotalRows - 1 /\ vert \in 0 .. McuRows(scan, row) - 1
    /\ mcu \in 0 .. McusPerRow(scan) - 1

LEMMA ScanHas ==
    ASSUME conf \in Configs, NEW scan, GoodScan(scan)
    PROVE  /\ \A i \in 1 .. Len(scan) : scan[i] \in Comps
           /\ McusPerRow(scan) \in Nat \ {0} /\ RowCount(scan) \in Nat \ {0}
           /\ Mcus(scan) = RowCount(scan) * McusPerRow(scan) /\ Mcus(scan) \in Nat \ {0}
           /\ \A c \in Comps : McuW(scan, c) \in 1 .. 4 /\ McuH(scan, c) \in 1 .. 4
  <1>1. scan \in Seq(Comps) /\ Len(scan) \in Nat \ {0}
    BY DEF GoodScan
  <1>2. \A i \in 1 .. Len(scan) : scan[i] \in Comps
    BY <1>1, ElementOfSeq
  <1>3. scan[1] \in Comps
    BY <1>1, <1>2
  <1>4. McusPerRow(scan) \in Nat \ {0}
    BY <1>3, WidthIs DEF McusPerRow, MCUsWide
  <1>5. RowCount(scan) \in Nat \ {0}
    BY <1>3, HeightIs DEF RowCount
  <1>6. Mcus(scan) = RowCount(scan) * McusPerRow(scan)
    BY DEF Mcus, RowCount
  <1>7. \A c \in Comps : McuW(scan, c) \in 1 .. 4 /\ McuH(scan, c) \in 1 .. 4
    BY CompsAre DEF McuW, McuH
  <1> QED
    BY <1>2, <1>4, <1>5, <1>6, <1>7, Product

(* Its rows of MCUs are those of the scan, one behind the other.           *)
LEMMA RowsAre ==
    ASSUME conf \in Configs, NEW scan, GoodScan(scan), NEW row \in 0 .. TotalRows - 1
    PROVE  /\ McuRows(scan, row) \in Nat \ {0} /\ RowBase(scan, row) \in Nat
           /\ row < TotalRows - 1 => RowBase(scan, row) + McuRows(scan, row) = RowBase(scan, row + 1)
           /\ row = TotalRows - 1 => RowBase(scan, row) + McuRows(scan, row) = RowCount(scan)
           /\ RowBase(scan, row) + McuRows(scan, row) <= RowCount(scan)
           /\ Together(scan) => McuRows(scan, row) = 1 /\ RowBase(scan, row) = row
           /\ ~Together(scan) => McuRows(scan, row) <= V(scan[1]) /\ RowBase(scan, row) = row * V(scan[1])
  <1>1. scan[1] \in Comps
    BY ScanHas DEF GoodScan
  <1>2. PICK t, v, b, l : t = TotalRows /\ v = V(scan[1]) /\ b = HeightInBlocks(scan[1]) /\ l = LastRowHeight(scan[1])
    OBVIOUS
  <1>3. /\ t \in Nat \ {0} /\ b \in Nat \ {0} /\ (t - 1) * v < b /\ b <= t * v
        /\ l = b - (t - 1) * v /\ v \in 1 .. 4
    BY <1>1, <1>2, HeightIs, CompsAre
  <1>4. row \in 0 .. t - 1
    BY <1>2
  <1>5. /\ row * v \in Nat /\ (row + 1) * v = row * v + v /\ (t - 1) * v \in Int
        /\ t * v = (t - 1) * v + v
    <2>1. row \in Nat /\ v \in Nat /\ t \in Int
      BY <1>3, <1>4
    <2> QED
      BY <2>1
  <1>6. CASE Together(scan)
    BY <1>2, <1>3, <1>4, <1>6 DEF McuRows, RowBase, RowCount
  <1>7. CASE ~Together(scan)
    <2>1. RowBase(scan, row) = row * v /\ RowBase(scan, row + 1) = (row + 1) * v /\ RowCount(scan) = b
      BY <1>2, <1>7 DEF RowBase, RowCount
    <2>2. McuRows(scan, row) = IF row < t - 1 THEN v ELSE l
      BY <1>2, <1>7 DEF McuRows
    <2>3. l \in 1 .. v
      BY <1>3, <1>5
    <2>4. PICK base, rows : base = row * v /\ rows = McuRows(scan, row)
      OBVIOUS
    <2>5. CASE row < t - 1
      <3>1. row + 1 <= t - 1 /\ row + 1 \in Int /\ t - 1 \in Int /\ v \in Nat
        BY <1>3, <1>4, <2>5
      <3>2. (row + 1) * v <= (t - 1) * v
        BY <3>1, Times
      <3>3. rows = v /\ v \in Nat \ {0} /\ base \in Nat /\ base + v = (row + 1) * v
        BY <1>3, <1>5, <2>2, <2>4, <2>5
      <3>4. base + v <= b
        BY <1>3, <1>5, <3>2, <3>3
      <3> QED
        BY <1>2, <1>3, <1>4, <1>7, <2>1, <2>4, <2>5, <3>3, <3>4
    <2>6. CASE row = t - 1
      <3>1. rows = l /\ base \in Nat /\ base + l = b
        <4>1. rows = l
          BY <1>3, <2>2, <2>4, <2>6
        <4>2. base = (t - 1) * v /\ base \in Nat
          BY <1>5, <2>4, <2>6
        <4> QED
          BY <1>3, <4>1, <4>2
      <3>2. rows \in Nat \ {0} /\ rows <= v /\ base + rows = b /\ base + rows <= b
        BY <1>3, <2>3, <3>1
      <3>3. ~(row < t - 1)
        BY <1>3, <2>6
      <3> QED
        BY <1>2, <1>7, <2>1, <2>4, <2>6, <3>1, <3>2, <3>3
    <2> QED
      BY <1>3, <1>4, <2>5, <2>6
  <1> QED
    BY <1>6, <1>7

(* The number of an MCU tells its row and column.                          *)
LEMMA IndexIs ==
    ASSUME conf \in Configs, NEW scan, GoodScan(scan), NEW row, NEW vert, NEW mcu,
           AtPlace(scan, row, vert, mcu)
    PROVE  /\ Index(scan, row, vert, mcu) \in 0 .. Mcus(scan) - 1
           /\ Index(scan, row, vert, mcu) \div McusPerRow(scan) = RowBase(scan, row) + vert
           /\ Index(scan, row, vert, mcu) % McusPerRow(scan) = mcu
           /\ RowBase(scan, row) + vert \in 0 .. RowCount(scan) - 1
  <1>1. PICK w, n, y : w = McusPerRow(scan) /\ n = RowCount(scan) /\ y = RowBase(scan, row) + vert
    OBVIOUS
  <1>2. row \in 0 .. TotalRows - 1 /\ vert \in 0 .. McuRows(scan, row) - 1 /\ mcu \in 0 .. w - 1
    BY <1>1 DEF AtPlace
  <1>3. /\ McuRows(scan, row) \in Nat \ {0} /\ RowBase(scan, row) \in Nat
        /\ RowBase(scan, row) + McuRows(scan, row) <= n
    BY <1>1, <1>2, RowsAre
  <1>4. w \in Nat \ {0} /\ n \in Nat \ {0} /\ Mcus(scan) = n * w
    BY <1>1, ScanHas
  <1>5. y \in 0 .. n - 1
    BY <1>1, <1>2, <1>3, <1>4
  <1>6. Index(scan, row, vert, mcu) = y * w + mcu
    BY <1>1 DEF Index
  <1>7. (y * w + mcu) \div w = y /\ (y * w + mcu) % w = mcu
    <2>1. y \in Int
      BY <1>5
    <2> QED
      BY <1>2, <1>4, <2>1, DivMod
  <1>8. y * w + mcu \in 0 .. n * w - 1
    <2>1. y \in Nat /\ y + 1 <= n /\ y + 1 \in Int /\ n \in Int /\ w \in Nat
      BY <1>4, <1>5
    <2>2. (y + 1) * w <= n * w
      BY <2>1, Times
    <2>3. (y + 1) * w = y * w + w /\ y * w \in Nat /\ n * w \in Nat
      BY <1>4, <2>1
    <2> QED
      BY <1>2, <1>4, <2>2, <2>3
  <1> QED
    BY <1>1, <1>4, <1>5, <1>6, <1>7, <1>8

(* Where compress_data goes next is the next MCU of the scan.              *)
CoefTypes == coef = [row |-> coef.row, vert |-> coef.vert, mcu |-> coef.mcu]

LEMMA NextPlace ==
    ASSUME conf \in Configs, NEW scan, scan = Scan, GoodScan(scan), CoefTypes,
           AtPlace(scan, coef.row, coef.vert, coef.mcu), NEW after, after = CoefAfter
    PROVE  /\ after = [row |-> after.row, vert |-> after.vert, mcu |-> after.mcu]
           /\ \/ /\ AtPlace(scan, after.row, after.vert, after.mcu)
                 /\ after.row \in {coef.row, coef.row + 1}
                 /\ Index(scan, after.row, after.vert, after.mcu)
                        = Index(scan, coef.row, coef.vert, coef.mcu) + 1
              \/ /\ after = [row |-> TotalRows, vert |-> 0, mcu |-> 0] /\ coef.row = TotalRows - 1
                 /\ Mcus(scan) = Index(scan, coef.row, coef.vert, coef.mcu) + 1
  <1>1. PICK row, vert, mcu : row = coef.row /\ vert = coef.vert /\ mcu = coef.mcu
    OBVIOUS
  <1>2. PICK w, h, n, t : /\ w = McusPerRow(scan) /\ h = McuRows(scan, row) /\ n = RowCount(scan)
                          /\ t = TotalRows
    OBVIOUS
  <1>3. row \in 0 .. t - 1 /\ vert \in 0 .. h - 1 /\ mcu \in 0 .. w - 1
    BY <1>1, <1>2 DEF AtPlace
  <1>4. w \in Nat \ {0} /\ n \in Nat \ {0} /\ Mcus(scan) = n * w /\ t \in Nat \ {0}
    BY <1>2, ScanHas, HeightIs DEF GoodScan
  <1>5. /\ h \in Nat \ {0} /\ RowBase(scan, row) \in Nat
        /\ row < t - 1 => RowBase(scan, row) + h = RowBase(scan, row + 1)
        /\ row = t - 1 => RowBase(scan, row) + h = n
    BY <1>2, <1>3, RowsAre
  <1>6. Index(scan, row, vert, mcu) = (RowBase(scan, row) + vert) * w + mcu
    BY <1>2 DEF Index
  <1>7. PICK y : y = RowBase(scan, row) + vert
    OBVIOUS
  <1>8. y \in Nat /\ (y + 1) * w = y * w + w /\ y * w \in Nat
    <2>1. y \in Nat
      BY <1>3, <1>5, <1>7
    <2> QED
      BY <1>4, <2>1
  <1>9. coef = [row |-> row, vert |-> vert, mcu |-> mcu]
    BY <1>1 DEF CoefTypes
  <1>10. CASE mcu < w - 1
    <2>1. after = [row |-> row, vert |-> vert, mcu |-> mcu + 1]
      BY <1>1, <1>2, <1>9, <1>10 DEF CoefAfter
    <2>2. AtPlace(scan, row, vert, mcu + 1)
      <3>1. mcu + 1 \in 0 .. w - 1
        BY <1>3, <1>4, <1>10
      <3> QED
        BY <1>2, <1>3, <3>1 DEF AtPlace
    <2>3. Index(scan, row, vert, mcu + 1) = Index(scan, row, vert, mcu) + 1
      BY <1>2, <1>3, <1>7, <1>8 DEF Index
    <2> QED
      BY <1>1, <2>1, <2>2, <2>3
  <1>11. CASE mcu = w - 1 /\ vert < h - 1
    <2>1. ~(mcu < w - 1) /\ vert + 1 \in 0 .. h - 1 /\ 0 \in 0 .. w - 1
      BY <1>3, <1>4, <1>5, <1>11
    <2>2. after = [row |-> row, vert |-> vert + 1, mcu |-> 0]
      BY <1>1, <1>2, <1>9, <1>11, <2>1 DEF CoefAfter
    <2>3. AtPlace(scan, row, vert + 1, 0)
      BY <1>2, <1>3, <2>1 DEF AtPlace
    <2>4. RowBase(scan, row) + (vert + 1) = y + 1
      BY <1>3, <1>5, <1>7
    <2>5. Index(scan, row, vert + 1, 0) = Index(scan, row, vert, mcu) + 1
      BY <1>2, <1>3, <1>4, <1>7, <1>8, <1>11, <2>4 DEF Index
    <2> QED
      BY <1>1, <2>2, <2>3, <2>5
  <1>12. CASE mcu = w - 1 /\ vert = h - 1
    <2>1. after = [row |-> row + 1, vert |-> 0, mcu |-> 0]
      BY <1>1, <1>2, <1>4, <1>5, <1>9, <1>12 DEF CoefAfter
    <2>2. RowBase(scan, row) + h = y + 1
      BY <1>3, <1>5, <1>7, <1>12
    <2>3. (y + 1) * w = Index(scan, row, vert, mcu) + 1
      BY <1>4, <1>6, <1>7, <1>8, <1>12
    <2>4. CASE row < t - 1
      <3>1. row + 1 \in 0 .. t - 1
        BY <1>3, <1>4, <2>4
      <3>2. McuRows(scan, row + 1) \in Nat \ {0}
        BY <1>2, <3>1, RowsAre
      <3>3. AtPlace(scan, row + 1, 0, 0)
        BY <1>2, <1>4, <3>1, <3>2 DEF AtPlace
      <3>4. RowBase(scan, row + 1) + 0 = y + 1
        BY <1>5, <1>8, <2>2, <2>4
      <3>5. Index(scan, row + 1, 0, 0) = Index(scan, row, vert, mcu) + 1
        BY <1>2, <1>4, <1>8, <2>3, <3>4 DEF Index
      <3> QED
        BY <1>1, <2>1, <3>3, <3>5
    <2>5. CASE row = t - 1
      <3>1. after = [row |-> t, vert |-> 0, mcu |-> 0]
        BY <1>4, <2>1, <2>5
      <3> QED
        BY <1>1, <1>2, <1>4, <1>5, <2>2, <2>3, <2>5, <3>1
    <2> QED
      BY <1>3, <1>4, <2>4, <2>5
  <1> QED
    BY <1>3, <1>4, <1>5, <1>10, <1>11, <1>12

-----------------------------------------------------------------------------
(* The blocks of an MCU: those of a component follow each other, row by    *)
(* row.                                                                    *)

PlacesOf(scan) ==
    [i \in 1 .. Len(scan) |->
        [k \in 1 .. McuW(scan, scan[i]) * McuH(scan, scan[i]) |->
            [c |-> scan[i], y |-> (k - 1) \div McuW(scan, scan[i]), x |-> (k - 1) % McuW(scan, scan[i])]]]

(* The component of place k has the places behind base.                    *)
PlaceIs(scan, k, base, c, w, h) ==
    /\ c \in Comps /\ w = McuW(scan, c) /\ h = McuH(scan, c) /\ w \in 1 .. 4 /\ h \in 1 .. 4
    /\ base \in Nat /\ w * h \in Nat /\ base + w * h <= Len(Places(scan))
    /\ k \in base + 1 .. base + w * h
    /\ \A j \in 1 .. Len(Places(scan)) : Places(scan)[j].c = c <=> j \in base + 1 .. base + w * h
    /\ \A j \in base + 1 .. base + w * h :
           Places(scan)[j] = [c |-> c, y |-> (j - base - 1) \div w, x |-> (j - base - 1) % w]
    /\ \E i \in 1 .. Len(scan) : scan[i] = c

LEMMA PlacesFlat ==
    ASSUME conf \in Configs, NEW scan, GoodScan(scan)
    PROVE  /\ Places(scan) = Flat(PlacesOf(scan), Len(scan))
           /\ IsSeq(Places(scan))
           /\ \A i \in 1 .. Len(scan) :
                  /\ IsSeq(PlacesOf(scan)[i])
                  /\ Len(PlacesOf(scan)[i]) = McuW(scan, scan[i]) * McuH(scan, scan[i])
  <1>1. Len(scan) \in Nat \ {0} /\ DOMAIN scan = 1 .. Len(scan)
    BY LenProperties DEF GoodScan
  <1>2. Places(scan) = Flat(PlacesOf(scan), Len(scan))
    <2> DEFINE f == [i \in 1 .. Len(scan) |->
                        [k \in 1 .. McuW(scan, scan[i]) * McuH(scan, scan[i]) |->
                            [c |-> scan[i], y |-> (k - 1) \div McuW(scan, scan[i]), x |-> (k - 1) % McuW(scan, scan[i])]]]
    <2>1. Places(scan) = FlattenSeq(f)
      BY <1>1, Zenon DEF Places
    <2>2. f = [i \in 1 .. Len(scan) |-> f[i]]
      OBVIOUS
    <2>3. PlacesOf(scan) = f
      BY DEF PlacesOf
    <2> HIDE DEF f
    <2> QED
      BY <2>1, <2>2, <2>3, Zenon DEF Flat
  <1>3. ASSUME NEW i \in 1 .. Len(scan)
        PROVE  /\ IsSeq(PlacesOf(scan)[i])
               /\ Len(PlacesOf(scan)[i]) = McuW(scan, scan[i]) * McuH(scan, scan[i])
    <2>1. PICK n, p : n = McuW(scan, scan[i]) * McuH(scan, scan[i]) /\ p = PlacesOf(scan)[i]
      OBVIOUS
    <2>2. n \in Nat
      <3>1. scan[i] \in Comps
        BY ScanHas
      <3>2. McuW(scan, scan[i]) \in 1 .. 4 /\ McuH(scan, scan[i]) \in 1 .. 4
        BY <3>1, ScanHas
      <3>3. \A a, b \in 1 .. 4 : a * b \in Nat
        OBVIOUS
      <3> QED
        BY <2>1, <3>2, <3>3
    <2>3. p = [k \in 1 .. n |->
                  [c |-> scan[i], y |-> (k - 1) \div McuW(scan, scan[i]), x |-> (k - 1) % McuW(scan, scan[i])]]
      BY <2>1 DEF PlacesOf
    <2>4. p = [k \in 1 .. n |-> p[k]]
      BY <2>3
    <2>5. IsSeq(p) /\ Len(p) = n
      BY <2>2, <2>4, ListHas DEF IsList
    <2> QED
      BY <2>1, <2>5
  <1>4. IsSeq(Flat(PlacesOf(scan), Len(scan)))
    BY <1>1, <1>3, FlatIsSeq
  <1> QED
    BY <1>2, <1>3, <1>4

LEMMA PlacesAre ==
    ASSUME conf \in Configs, NEW scan, GoodScan(scan), NEW k \in 1 .. Len(Places(scan))
    PROVE  \E base, c, w, h : PlaceIs(scan, k, base, c, w, h)
  <1>1. PICK f, n : f = PlacesOf(scan) /\ n = Len(scan)
    OBVIOUS
  <1>2. /\ Places(scan) = Flat(f, n) /\ n \in Nat
        /\ \A i \in 1 .. n : IsSeq(f[i]) /\ Len(f[i]) = McuW(scan, scan[i]) * McuH(scan, scan[i])
    BY <1>1, PlacesFlat DEF GoodScan
  <1>3. \A i \in 1 .. n : \A q \in 1 .. Len(f[i]) :
            f[i][q] = [c |-> scan[i], y |-> (q - 1) \div McuW(scan, scan[i]), x |-> (q - 1) % McuW(scan, scan[i])]
    BY <1>1, <1>2 DEF PlacesOf
  <1>4. \A i \in 1 .. n : IsSeq(f[i])
    BY <1>2
  <1>5. ASSUME NEW j \in 1 .. Len(Places(scan))
        PROVE  \E r \in 1 .. n : \E q \in 1 .. Len(f[r]) : j = Len(Flat(f, r - 1)) + q
    <2>1. j \in 1 .. Len(Flat(f, n))
      BY <1>2
    <2> QED
      BY <1>2, <1>4, <2>1, FlatHas
  <1>6. PICK i \in 1 .. n : \E q \in 1 .. Len(f[i]) : k = Len(Flat(f, i - 1)) + q
    BY <1>5
  <1>7. PICK base, c, w, h : base = Len(Flat(f, i - 1)) /\ c = scan[i] /\ w = McuW(scan, c) /\ h = McuH(scan, c)
    OBVIOUS
  <1>8. c \in Comps /\ w \in 1 .. 4 /\ h \in 1 .. 4
    BY <1>1, <1>7, ScanHas
  <1>9. base \in Nat
    <2>1. IsSeq(Flat(f, i - 1))
      BY <1>2, FlatIsSeq, i - 1 \in Nat
    <2> QED
      BY <1>7, <2>1, SeqHas
  <1>10. w * h \in Nat \ {0} /\ Len(f[i]) = w * h
    <2>1. w \in Nat \ {0} /\ h \in Nat \ {0}
      BY <1>8
    <2> QED
      BY <1>2, <1>7, <2>1, Product
  <1>11. ASSUME NEW j \in base + 1 .. base + w * h
         PROVE  /\ j \in 1 .. Len(Places(scan))
                /\ Places(scan)[j] = [c |-> c, y |-> (j - base - 1) \div w, x |-> (j - base - 1) % w]
    <2>1. PICK q \in Int : q = j - base
      BY <1>9
    <2>2. q \in 1 .. Len(f[i]) /\ j = base + q /\ j - base - 1 = q - 1
      BY <1>9, <1>10, <2>1
    <2>3. base + q \in 1 .. Len(Flat(f, n)) /\ Flat(f, n)[base + q] = f[i][q]
      BY <1>2, <1>7, <2>2, FlatAt
    <2> QED
      BY <1>2, <1>3, <1>7, <2>2, <2>3
  <1>12. base + w * h <= Len(Places(scan))
    <2>1. base + w * h \in base + 1 .. base + w * h
      BY <1>9, <1>10
    <2>2. base + w * h \in 1 .. Len(Places(scan))
      BY <1>11, <2>1
    <2> QED
      BY <2>2
  <1>13. c = scan[i] /\ w = McuW(scan, scan[i]) /\ h = McuH(scan, scan[i])
    BY <1>7
  <1>14. ASSUME NEW j \in 1 .. Len(Places(scan)), Places(scan)[j].c = c
         PROVE  j \in base + 1 .. base + w * h
    <2>1. PICK r \in 1 .. n : \E q \in 1 .. Len(f[r]) : j = Len(Flat(f, r - 1)) + q
      BY <1>5
    <2>2. PICK q \in 1 .. Len(f[r]) : j = Len(Flat(f, r - 1)) + q
      BY <2>1
    <2>3. Flat(f, n)[Len(Flat(f, r - 1)) + q] = f[r][q]
      BY <1>2, <2>2, FlatAt
    <2>4. Places(scan)[j] = f[r][q]
      BY <1>2, <2>2, <2>3
    <2>5. f[r][q] = [c |-> scan[r], y |-> (q - 1) \div McuW(scan, scan[r]), x |-> (q - 1) % McuW(scan, scan[r])]
      BY <1>3
    <2>6. f[r][q].c = scan[r]
      BY <2>5
    <2>7. scan[r] = c
      BY <1>14, <2>4, <2>6
    <2>8. r = i
      BY <1>1, <1>7, <2>7 DEF GoodScan
    <2>9. q \in 1 .. w * h /\ j = base + q
      BY <1>7, <1>10, <2>2, <2>8
    <2> QED
      BY <1>9, <1>10, <2>9
  <1>15. \A j \in 1 .. Len(Places(scan)) : Places(scan)[j].c = c <=> j \in base + 1 .. base + w * h
    <2>1. ASSUME NEW j \in base + 1 .. base + w * h
          PROVE  Places(scan)[j].c = c
      <3>1. PICK p : p = Places(scan)[j]
        OBVIOUS
      <3>2. p = [c |-> c, y |-> (j - base - 1) \div w, x |-> (j - base - 1) % w]
        BY <1>11, <3>1
      <3> QED
        BY <3>1, <3>2
    <2> QED
      BY <1>14, <2>1
  <1>16. k \in base + 1 .. base + w * h
    <2>1. PICK q \in 1 .. Len(f[i]) : k = base + q
      BY <1>6, <1>7
    <2> QED
      BY <1>9, <1>10, <2>1
  <1>17. PlaceIs(scan, k, base, c, w, h)
    BY <1>1, <1>7, <1>8, <1>9, <1>10, <1>11, <1>12, <1>15, <1>16 DEF PlaceIs
  <1> QED
    BY <1>17

LEMMA RangeEnds ==
    ASSUME NEW a \in Int, NEW b \in Int, a <= b
    PROVE  Max(a .. b) = b /\ Min(a .. b) = a
  <1>1. \A x \in a .. b : (\A y \in a .. b : x >= y) <=> x = b
    OBVIOUS
  <1>2. \A x \in a .. b : (\A y \in a .. b : x =< y) <=> x = a
    OBVIOUS
  <1>3. a \in a .. b /\ b \in a .. b
    OBVIOUS
  <1>4. Max(a .. b) = b
    BY <1>1, <1>3 DEF Max
  <1>5. Min(a .. b) = a
    BY <1>2, <1>3 DEF Min
  <1> QED
    BY <1>4, <1>5

(* Each place but the first of its component follows another: to the left, *)
(* or at the end of the row above.                                         *)
LEMMA PlaceBefore ==
    ASSUME NEW scan, NEW k, NEW base, NEW c, NEW w, NEW h, PlaceIs(scan, k, base, c, w, h),
           NEW p, p = Places(scan)[k]
    PROVE  /\ k \in 1 .. Len(Places(scan)) /\ p.c = c /\ p.y \in 0 .. h - 1 /\ p.x \in 0 .. w - 1
           /\ k = base + 1 => p.x = 0 /\ p.y = 0
           /\ k # base + 1 =>
                /\ k - 1 \in base + 1 .. base + w * h /\ Places(scan)[k - 1].c = c
                /\ \/ p.x > 0 /\ Places(scan)[k - 1].y = p.y /\ Places(scan)[k - 1].x = p.x - 1
                   \/ /\ p.x = 0 /\ p.y > 0 /\ Places(scan)[k - 1].y = p.y - 1
                      /\ Places(scan)[k - 1].x = w - 1
  <1>1. /\ w \in 1 .. 4 /\ h \in 1 .. 4 /\ base \in Nat /\ w * h \in Nat
        /\ base + w * h <= Len(Places(scan)) /\ k \in base + 1 .. base + w * h
    BY DEF PlaceIs
  <1>2. ASSUME NEW i \in base + 1 .. base + w * h
        PROVE  /\ Places(scan)[i].c = c /\ Places(scan)[i].y = (i - base - 1) \div w
               /\ Places(scan)[i].x = (i - base - 1) % w
    <2>1. Places(scan)[i] = [c |-> c, y |-> (i - base - 1) \div w, x |-> (i - base - 1) % w]
      BY DEF PlaceIs
    <2> QED
      BY <2>1
  <1>3. PICK j \in Int : j = k - base - 1
    BY <1>1
  <1>4. j \in 0 .. w * h - 1
    BY <1>1, <1>3
  <1>5. PICK y \in Int, x \in Int : y = j \div w /\ x = j % w
    BY <1>1
  <1>6. x \in 0 .. w - 1 /\ j = w * y + x
    BY <1>1, <1>5
  <1>7. p.c = c /\ p.y = y /\ p.x = x
    BY <1>1, <1>2, <1>3, <1>5
  <1>8. w * y = y * w /\ y * w \in Int /\ h * w = w * h /\ (y + 1) * w = y * w + w
    <2>1. w \in Int /\ h \in Int
      BY <1>1
    <2> QED
      BY <2>1
  <1>9. y \in 0 .. h - 1
    <2>1. y * w < h * w
      BY <1>1, <1>4, <1>6, <1>8
    <2>2. 0 * w < (y + 1) * w
      BY <1>1, <1>4, <1>6, <1>8
    <2>3. w \in Nat /\ h \in Int /\ y + 1 \in Int /\ 0 \in Int
      BY <1>1
    <2>4. y < h /\ 0 < y + 1
      BY <2>1, <2>2, <2>3, Times
    <2> QED
      BY <2>3, <2>4
  <1>10. k = base + 1 => x = 0 /\ y = 0
    <2> SUFFICES ASSUME k = base + 1
                 PROVE  x = 0 /\ y = 0
      OBVIOUS
    <2>1. j = 0
      BY <1>1, <1>3
    <2>2. y = 0
      <3>1. (0 * w + 0) \div w = 0 /\ (0 * w + 0) % w = 0
        BY <1>1, DivMod, 0 \in 0 .. w - 1
      <3> QED
        BY <1>1, <1>5, <2>1, <3>1
    <2> QED
      BY <1>1, <1>6, <2>1, <2>2
  <1>11. ASSUME k # base + 1
         PROVE  /\ k - 1 \in base + 1 .. base + w * h /\ Places(scan)[k - 1].c = c
                /\ \/ x > 0 /\ Places(scan)[k - 1].y = y /\ Places(scan)[k - 1].x = x - 1
                   \/ /\ x = 0 /\ y > 0 /\ Places(scan)[k - 1].y = y - 1
                      /\ Places(scan)[k - 1].x = w - 1
    <2>1. k - 1 \in base + 1 .. base + w * h /\ (k - 1) - base - 1 = j - 1 /\ j > 0
      BY <1>1, <1>3, <1>11
    <2>2. /\ Places(scan)[k - 1].c = c /\ Places(scan)[k - 1].y = (j - 1) \div w
          /\ Places(scan)[k - 1].x = (j - 1) % w
      BY <1>2, <2>1
    <2>3. CASE x > 0
      <3>1. j - 1 = y * w + (x - 1) /\ x - 1 \in 0 .. w - 1
        BY <1>1, <1>6, <1>8, <2>3
      <3>2. (j - 1) \div w = y /\ (j - 1) % w = x - 1
        <4>1. w \in Nat \ {0}
          BY <1>1
        <4>2. (y * w + (x - 1)) \div w = y /\ (y * w + (x - 1)) % w = x - 1
          BY <3>1, <4>1, DivMod
        <4> QED
          BY <3>1, <4>2
      <3> QED
        BY <2>1, <2>2, <2>3, <3>2
    <2>4. CASE x = 0
      <3>1. y > 0
        <4>1. y * w > 0
          BY <1>6, <1>8, <2>1, <2>4
        <4>2. y = 0 => y * w = 0
          BY <1>1
        <4> QED
          BY <1>9, <1>1, <4>1, <4>2
      <3>2. (y - 1) * w = y * w - w
        <4>1. w \in Int
          BY <1>1
        <4> QED
          BY <4>1
      <3>3. j - 1 = (y - 1) * w + (w - 1) /\ w - 1 \in 0 .. w - 1 /\ y - 1 \in Int
        BY <1>1, <1>6, <1>8, <2>4, <3>2
      <3>4. (j - 1) \div w = y - 1 /\ (j - 1) % w = w - 1
        <4>1. w \in Nat \ {0}
          BY <1>1
        <4>2. ((y - 1) * w + (w - 1)) \div w = y - 1 /\ ((y - 1) * w + (w - 1)) % w = w - 1
          BY <3>3, <4>1, DivMod
        <4> QED
          BY <3>3, <4>2
      <3> QED
        BY <2>1, <2>2, <2>4, <3>1, <3>4
    <2> QED
      BY <1>6, <1>1, <2>3, <2>4
  <1>12. k \in 1 .. Len(Places(scan))
    <2>1. w * h \in Int /\ base \in Int /\ Len(Places(scan)) >= base + w * h
      BY <1>1
    <2>2. k \in 1 .. base + w * h
      BY <1>1
    <2> QED
      BY <1>1, <2>2
  <1> QED
    BY <1>6, <1>7, <1>9, <1>10, <1>11, <1>12

(* What is in the last of the blocks of which v make an MCU.               *)
LEMMA InBlocks ==
    ASSUME NEW t \in Nat \ {0}, NEW v \in Nat \ {0}, NEW b \in Nat \ {0},
           (t - 1) * v < b, b <= t * v, NEW a \in 0 .. t - 1, NEW y \in 0 .. v - 1
    PROVE  /\ a * v \in Nat /\ a * v < b
           /\ (a < t - 1 \/ y < b - (t - 1) * v) <=> a * v + y < b
  <1>1. a \in Nat /\ t - 1 \in Int /\ a <= t - 1
    OBVIOUS
  <1>2. a * v \in Nat /\ (t - 1) * v \in Int /\ a * v <= (t - 1) * v
    BY <1>1, Times
  <1>3. CASE a < t - 1
    <2>1. (a + 1) * v <= (t - 1) * v
      BY <1>1, <1>3, Times, a + 1 \in Int, a + 1 <= t - 1
    <2>2. (a + 1) * v = a * v + v
      BY <1>1
    <2> QED
      BY <1>2, <1>3, <2>1, <2>2
  <1>4. CASE a = t - 1
    BY <1>2, <1>4
  <1> QED
    BY <1>1, <1>3, <1>4

LEMMA PlaceInImage ==
    ASSUME conf \in Configs, NEW scan, GoodScan(scan),
           NEW row, NEW vert, NEW mcu, AtPlace(scan, row, vert, mcu),
           NEW m, m = Index(scan, row, vert, mcu),
           NEW k, NEW base, NEW c, NEW w, NEW h, PlaceIs(scan, k, base, c, w, h),
           NEW p, p = Places(scan)[k]
    PROVE  /\ vert + p.y \in 0 .. V(c) - 1 /\ V(c) \in 1 .. 4
           /\ row * V(c) \in Nat
           /\ ImageRowOf(scan, p, m) = row * V(c) + (vert + p.y)
           /\ ImageColOf(scan, p, m) = mcu * w + p.x
           /\ (row < TotalRows - 1 \/ vert + p.y < LastRowHeight(c))
                  <=> row * V(c) + (vert + p.y) < HeightInBlocks(c)
           /\ (mcu < McusPerRow(scan) - 1 \/ p.x < LastColWidth(scan, c))
                  <=> mcu * w + p.x < WidthInBlocks(c)
           /\ mcu * w \in Nat /\ mcu * w < WidthInBlocks(c)
           /\ Together(scan) => w = H(c) /\ vert = 0
           /\ ~Together(scan) => w = 1 /\ row * V(c) + (vert + p.y) < HeightInBlocks(c)
           /\ p.y = 0 => row * V(c) + (vert + p.y) < HeightInBlocks(c)
  <1>1. p.c = c /\ p.y \in 0 .. h - 1 /\ p.x \in 0 .. w - 1
    BY PlaceBefore
  <1>2. c \in Comps /\ w = McuW(scan, c) /\ h = McuH(scan, c) /\ w \in 1 .. 4 /\ h \in 1 .. 4
    BY DEF PlaceIs
  <1>3. PICK t, v, b, l : t = TotalRows /\ v = V(c) /\ b = HeightInBlocks(c) /\ l = LastRowHeight(c)
    OBVIOUS
  <1>4. /\ t \in Nat \ {0} /\ b \in Nat \ {0} /\ (t - 1) * v < b /\ b <= t * v
        /\ l = b - (t - 1) * v /\ v \in 1 .. 4
    BY <1>2, <1>3, HeightIs, CompsAre
  <1>5. row \in 0 .. t - 1 /\ vert \in 0 .. McuRows(scan, row) - 1 /\ mcu \in 0 .. McusPerRow(scan) - 1
    BY <1>3 DEF AtPlace
  <1>6. /\ Together(scan) => McuRows(scan, row) = 1 /\ RowBase(scan, row) = row
        /\ ~Together(scan) => McuRows(scan, row) <= V(scan[1]) /\ RowBase(scan, row) = row * V(scan[1])
        /\ McuRows(scan, row) \in Nat \ {0}
    BY <1>3, <1>5, RowsAre
  <1>7. ~Together(scan) => scan[1] = c /\ w = 1 /\ h = 1 /\ p.x = 0 /\ p.y = 0
    <2> SUFFICES ASSUME ~Together(scan)
                 PROVE  scan[1] = c /\ w = 1 /\ h = 1 /\ p.x = 0 /\ p.y = 0
      OBVIOUS
    <2>1. Len(scan) = 1
      <3>1. PICK n : n = Len(scan)
        OBVIOUS
      <3>2. n \in Nat \ {0} /\ ~(n > 1)
        BY <3>1 DEF Together, GoodScan
      <3>3. n = 1
        BY <3>2
      <3> QED
        BY <3>1, <3>3
    <2>2. PICK i \in 1 .. Len(scan) : scan[i] = c
      BY DEF PlaceIs
    <2>3. i = 1
      BY <2>1
    <2>4. w = 1 /\ h = 1
      BY <1>2 DEF McuW, McuH
    <2> QED
      BY <1>1, <2>2, <2>3, <2>4
  <1>8. Together(scan) => w = H(c) /\ h = v /\ vert = 0
    BY <1>2, <1>3, <1>5, <1>6 DEF McuW, McuH
  <1>9. vert + p.y \in 0 .. v - 1
    <2>1. CASE Together(scan)
      BY <1>1, <1>4, <1>8, <2>1
    <2>2. CASE ~Together(scan)
      BY <1>3, <1>4, <1>5, <1>6, <1>7, <2>2
    <2> QED
      BY <2>1, <2>2
  <1>10. /\ row * v \in Nat /\ row * v < b
         /\ (row < t - 1 \/ vert + p.y < l) <=> row * v + (vert + p.y) < b
    <2>1. v \in Nat \ {0}
      BY <1>4
    <2> QED
      BY <1>4, <1>5, <1>9, <2>1, InBlocks
  <1>11. /\ m \div McusPerRow(scan) = RowBase(scan, row) + vert
         /\ m % McusPerRow(scan) = mcu
    BY IndexIs
  <1>12. ImageRowOf(scan, p, m) = row * v + (vert + p.y)
    <2>1. ImageRowOf(scan, p, m) = (RowBase(scan, row) + vert) * h + p.y
      BY <1>1, <1>2, <1>11 DEF ImageRowOf
    <2>2. CASE Together(scan)
      BY <1>1, <1>4, <1>5, <1>6, <1>8, <2>1, <2>2
    <2>3. CASE ~Together(scan)
      <3>1. RowBase(scan, row) = row * v /\ h = 1 /\ p.y = 0
        BY <1>3, <1>6, <1>7, <2>3
      <3>2. vert \in Nat
        BY <1>5, <1>6
      <3>3. (row * v + vert) * 1 + 0 = row * v + (vert + 0)
        BY <1>10, <3>2
      <3> QED
        BY <2>1, <3>1, <3>3
    <2> QED
      BY <2>2, <2>3
  <1>13. ImageColOf(scan, p, m) = mcu * w + p.x
    BY <1>1, <1>2, <1>11 DEF ImageColOf
  <1>14. /\ mcu * w \in Nat /\ mcu * w < WidthInBlocks(c)
         /\ (mcu < McusPerRow(scan) - 1 \/ p.x < LastColWidth(scan, c)) <=> mcu * w + p.x < WidthInBlocks(c)
    <2>1. PICK u, s : u = McusPerRow(scan) /\ s = WidthInBlocks(c)
      OBVIOUS
    <2>2. /\ u \in Nat \ {0} /\ s \in Nat \ {0} /\ (u - 1) * w < s /\ s <= u * w
          /\ LastColWidth(scan, c) = s - (u - 1) * w
      <3>1. CASE Together(scan)
        <4>1. u = MCUsWide
          BY <2>1, <3>1 DEF McusPerRow, MCUsWide
        <4>2. LastColWidth(scan, c) = Rest(s, H(c)) /\ w = H(c)
          BY <1>2, <1>8, <2>1, <3>1 DEF LastColWidth
        <4> QED
          BY <1>2, <2>1, <4>1, <4>2, WidthIs
      <3>2. CASE ~Together(scan)
        <4>1. u = s /\ w = 1
          BY <1>7, <2>1, <3>2 DEF McusPerRow
        <4>2. s \in Nat \ {0}
          BY <1>2, <2>1, WidthIs
        <4>3. (s - 1) * 1 = s - 1 /\ s * 1 = s
          BY <4>2
        <4>4. s % 1 = 0
          BY <4>2, <4>3, DivMod, 0 \in 0 .. 1 - 1, s * 1 + 0 = s
        <4>5. LastColWidth(scan, c) = 1
          BY <1>2, <2>1, <4>1, <4>4 DEF LastColWidth, Rest
        <4> QED
          BY <4>1, <4>2, <4>3, <4>5
      <3> QED
        BY <3>1, <3>2
    <2>3. mcu \in 0 .. u - 1 /\ p.x \in 0 .. w - 1 /\ w \in Nat \ {0}
      BY <1>1, <1>2, <1>5, <2>1
    <2>4. /\ mcu * w \in Nat /\ mcu * w < s
          /\ (mcu < u - 1 \/ p.x < s - (u - 1) * w) <=> mcu * w + p.x < s
      BY <2>2, <2>3, InBlocks
    <2> QED
      BY <2>1, <2>2, <2>4
  <1>15. ~Together(scan) => row * v + (vert + p.y) < b
    <2> SUFFICES ASSUME ~Together(scan)
                 PROVE  row * v + (vert + p.y) < b
      OBVIOUS
    <2>1. /\ RowBase(scan, row) + vert \in 0 .. RowCount(scan) - 1
      BY IndexIs
    <2>2. RowBase(scan, row) = row * v /\ RowCount(scan) = b /\ p.y = 0
      BY <1>3, <1>6, <1>7 DEF RowCount
    <2> QED
      BY <1>4, <1>5, <1>6, <1>10, <2>1, <2>2
  <1>16. p.y = 0 => row * v + (vert + p.y) < b
    <2>1. CASE Together(scan)
      BY <1>8, <1>10, <2>1
    <2> QED
      BY <1>15, <2>1
  <1> QED
    BY <1>3, <1>4, <1>7, <1>8, <1>9, <1>10, <1>12, <1>13, <1>14, <1>15, <1>16

(* The DC of a place: its own, if it is in the image, or that of the place *)
(* before it.                                                              *)
LEMMA DCClosed ==
    ASSUME NEW scan, NEW c, NEW w, w = McuW(scan, c), w \in 1 .. 4, NEW row,
           NEW mcu \in Nat, NEW x \in 0 .. w - 1
    PROVE  DCOf(scan, c, row, mcu * w + x)
               = IF row < HeightInBlocks(c)
                 THEN <<c, row, AtMost(mcu * w + x, AtMost(mcu * w + w - 1, WidthInBlocks(c) - 1))>>
                 ELSE <<c, HeightInBlocks(c) - 1, AtMost(mcu * w + w - 1, WidthInBlocks(c) - 1)>>
  <1>1. (mcu * w + x) \div w = mcu
    <2>1. w \in Nat \ {0} /\ mcu \in Int
      OBVIOUS
    <2> QED
      BY <2>1, DivMod
  <1> QED
    BY <1>1 DEF DCOf

LEMMA DCIs ==
    ASSUME conf \in Configs, NEW scan, GoodScan(scan),
           NEW row, NEW vert, NEW mcu, AtPlace(scan, row, vert, mcu),
           NEW m, m = Index(scan, row, vert, mcu),
           NEW k, NEW base, NEW c, NEW w, NEW h, PlaceIs(scan, k, base, c, w, h),
           NEW p, p = Places(scan)[k],
           NEW r, r = row * V(c) + (vert + p.y), NEW col, col = mcu * w + p.x
    PROVE  IF r < HeightInBlocks(c) /\ col < WidthInBlocks(c)
           THEN ImageDC(scan, p, m) = <<c, r, col>>
           ELSE k # base + 1 /\ ImageDC(scan, p, m) = ImageDC(scan, Places(scan)[k - 1], m)
  <1>1. PICK q : q = Places(scan)[k - 1]
    OBVIOUS
  <1>2. /\ p.c = c /\ p.y \in 0 .. h - 1 /\ p.x \in 0 .. w - 1
        /\ k = base + 1 => p.x = 0 /\ p.y = 0
        /\ k # base + 1 =>
             /\ k - 1 \in base + 1 .. base + w * h /\ q.c = c
             /\ \/ p.x > 0 /\ q.y = p.y /\ q.x = p.x - 1
                \/ p.x = 0 /\ p.y > 0 /\ q.y = p.y - 1 /\ q.x = w - 1
    BY <1>1, PlaceBefore
  <1>3. c \in Comps /\ w = McuW(scan, c) /\ w \in 1 .. 4 /\ h \in 1 .. 4
    BY DEF PlaceIs
  <1>4. PICK b, s : b = HeightInBlocks(c) /\ s = WidthInBlocks(c)
    OBVIOUS
  <1>5. b \in Nat \ {0} /\ s \in Nat \ {0}
    BY <1>3, <1>4, HeightIs, WidthIs
  <1>6. /\ vert + p.y \in 0 .. V(c) - 1 /\ V(c) \in 1 .. 4 /\ row * V(c) \in Nat
        /\ ImageRowOf(scan, p, m) = r /\ ImageColOf(scan, p, m) = col
        /\ mcu * w \in Nat /\ mcu * w < s
        /\ p.y = 0 => r < b
    BY <1>4, PlaceInImage
  <1>7. PICK n : n = mcu * w
    OBVIOUS
  <1>8. PICK last : last = AtMost(n + w - 1, s - 1)
    OBVIOUS
  <1>9. n \in Nat /\ n < s /\ col = n + p.x /\ last \in Nat
        /\ last <= s - 1 /\ last <= n + w - 1 /\ (last = s - 1 \/ last = n + w - 1)
    BY <1>2, <1>3, <1>5, <1>6, <1>7, <1>8 DEF AtMost
  <1>10. r \in Nat
    BY <1>6
  <1>11. mcu \in Nat
    <2>1. McusPerRow(scan) \in Nat \ {0}
      BY ScanHas
    <2> QED
      BY <2>1 DEF AtPlace
  <1>12. ImageDC(scan, p, m) = IF r < b THEN <<c, r, AtMost(col, last)>> ELSE <<c, b - 1, last>>
    BY <1>2, <1>3, <1>4, <1>6, <1>7, <1>8, <1>9, <1>11, DCClosed DEF ImageDC
  <1>13. CASE r < b /\ col < s
    <2>1. AtMost(col, last) = col
      BY <1>2, <1>3, <1>5, <1>9, <1>13 DEF AtMost
    <2> QED
      BY <1>4, <1>12, <1>13, <2>1
  <1>14. CASE ~(r < b /\ col < s)
    <2>1. k # base + 1
      BY <1>2, <1>6, <1>9, <1>14
    <2>2. PlaceIs(scan, k - 1, base, c, w, h)
      BY <1>2, <2>1 DEF PlaceIs
    <2>3. PICK r1, col1 : r1 = row * V(c) + (vert + q.y) /\ col1 = mcu * w + q.x
      OBVIOUS
    <2>4. ImageRowOf(scan, q, m) = r1 /\ ImageColOf(scan, q, m) = col1
      BY <1>1, <2>2, <2>3, PlaceInImage
    <2>5. q.c = c /\ q.x \in 0 .. w - 1
      BY <1>2, <1>3, <2>1
    <2>6. ImageDC(scan, q, m) = IF r1 < b THEN <<c, r1, AtMost(col1, last)>> ELSE <<c, b - 1, last>>
      BY <1>3, <1>4, <1>7, <1>8, <1>11, <2>3, <2>4, <2>5, DCClosed DEF ImageDC
    <2>7. CASE p.x > 0 /\ q.y = p.y /\ q.x = p.x - 1
      <3>1. r1 = r /\ col1 = col - 1
        BY <1>2, <1>3, <1>7, <1>9, <2>3, <2>7
      <3>2. CASE r < b
        <4>1. col >= s
          BY <1>2, <1>3, <1>5, <1>9, <1>14, <3>2
        <4>2. last = s - 1
          BY <1>2, <1>3, <1>5, <1>9, <4>1
        <4>3. AtMost(col, last) = last /\ AtMost(col - 1, last) = last
          BY <1>2, <1>3, <1>5, <1>9, <4>1, <4>2 DEF AtMost
        <4> QED
          BY <1>1, <1>12, <2>1, <2>6, <3>1, <1>14, <1>4, <4>3
      <3>3. CASE ~(r < b)
        BY <1>1, <1>12, <2>1, <2>6, <3>1, <1>14, <1>4, <3>3
      <3> QED
        BY <3>2, <3>3
    <2>8. CASE p.x = 0 /\ p.y > 0 /\ q.y = p.y - 1 /\ q.x = w - 1
      <3>1. col = n /\ ~(r < b) /\ r1 = r - 1 /\ col1 = n + w - 1
        <4>1. vert + (p.y - 1) = (vert + p.y) - 1
          <5>1. vert \in Int
            <6>1. row \in 0 .. TotalRows - 1 /\ vert \in 0 .. McuRows(scan, row) - 1
              BY DEF AtPlace
            <6>2. McuRows(scan, row) \in Nat
              BY <6>1, RowsAre
            <6> QED
              BY <6>1, <6>2
          <5> QED
            BY <1>2, <1>3, <5>1
        <4>2. r1 = r - 1
          BY <1>6, <2>3, <2>8, <4>1
        <4>3. col1 = n + w - 1
          BY <1>3, <1>7, <1>9, <2>3, <2>8
        <4> QED
          BY <1>9, <1>14, <2>8, <4>2, <4>3
      <3>2. CASE r1 < b
        <4>1. r1 = b - 1
          BY <1>5, <1>10, <3>1, <3>2
        <4>2. AtMost(col1, last) = last
          BY <1>3, <1>9, <3>1 DEF AtMost
        <4> QED
          BY <1>1, <1>4, <1>12, <1>14, <2>1, <2>6, <3>1, <3>2, <4>1, <4>2
      <3>3. CASE ~(r1 < b)
        BY <1>1, <1>4, <1>12, <1>14, <2>1, <2>6, <3>1, <3>3
      <3> QED
        BY <3>2, <3>3
    <2> QED
      BY <1>2, <2>1, <2>7, <2>8
  <1> QED
    BY <1>13, <1>14

-----------------------------------------------------------------------------
(* The MCUs.  What MCU m of a scan should have, without predictions:       *)

McuAt(scan, m) ==
    [k \in 1 .. Len(Places(scan)) |->
        LET p == Places(scan)[k] IN
        [block |-> Content(p.c, ImageRowOf(scan, p, m), ImageColOf(scan, p, m)),
         dc |-> ImageDC(scan, p, m)]]

(* The input buffer has the rows of the image the iMCU row is made of.     *)
InputIs ==
    \A c \in Comps : \A y \in 0 .. V(c) * D - 1 : InputRow(c, y) = ImageRow(c, coef.row * V(c) * D + y)

LEMMA DctIs ==
    ASSUME conf \in Configs, InputIs, coef.row \in Nat, NEW c \in Comps, NEW y \in 0 .. V(c) - 1, NEW col,
           NEW r, r = coef.row * V(c) + y, r < HeightInBlocks(c), col < WidthInBlocks(c)
    PROVE  Dct(c, y, col) = [block |-> Content(c, r, col), dc |-> <<c, r, col>>]
  <1>1. D \in Nat \ {0} /\ V(c) \in 1 .. 4
    BY DAssumption, CompsAre
  <1>2. PICK a, v : a = coef.row * V(c) /\ v = V(c)
    OBVIOUS
  <1>3. a \in Nat /\ v \in Nat /\ y \in Nat /\ y + 1 <= v
    BY <1>1, <1>2
  <1>4. v * D \in Nat /\ y * D \in Nat /\ a * D \in Nat /\ r * D = a * D + y * D /\ (y + 1) * D = y * D + D
    BY <1>1, <1>2, <1>3
  <1>5. (y + 1) * D <= v * D
    BY <1>1, <1>3, Times, y + 1 \in Int
  <1>6. ASSUME NEW i \in 1 .. D
        PROVE  InputRow(c, y * D + i - 1) = ImageRow(c, r * D + i - 1)
    <2>1. PICK z : z = y * D + i - 1
      OBVIOUS
    <2>2. z \in 0 .. v * D - 1 /\ a * D + z = r * D + i - 1
      BY <1>1, <1>4, <1>5, <2>1
    <2>3. InputRow(c, z) = ImageRow(c, a * D + z)
      BY <1>2, <2>2 DEF InputIs
    <2> QED
      BY <2>1, <2>2, <2>3
  <1>7. [i \in 1 .. D |-> InputRow(c, y * D + i - 1)] = [i \in 1 .. D |-> ImageRow(c, r * D + i - 1)]
    BY <1>6
  <1> QED
    BY <1>7, Zenon DEF Dct, Block, Content

LEMMA McuOfInputIs ==
    ASSUME conf \in Configs, InputIs, GoodScan(Scan),
           AtPlace(Scan, coef.row, coef.vert, coef.mcu),
           NEW m, m = Index(Scan, coef.row, coef.vert, coef.mcu)
    PROVE  McuOfInput = McuAt(Scan, m)
  <1> DEFINE places == Places(Scan)
             n == Len(places)
             isReal(p) == /\ coef.mcu < McusPerRow(Scan) - 1 \/ p.x < LastColWidth(Scan, p.c)
                          /\ coef.row < TotalRows - 1 \/ coef.vert + p.y < LastRowHeight(p.c)
             next(b) == [k \in 1 .. n |->
                            LET p == places[k] IN
                            IF isReal(p) THEN Dct(p.c, coef.vert + p.y, coef.mcu * McuW(Scan, p.c) + p.x)
                            ELSE [block |-> Dummy, dc |-> b[k - 1].dc]]
             blocks == CHOOSE b : b = next(b)
             mcu == McuAt(Scan, m)
  <1>1. McuOfInput = [k \in 1 .. n |-> blocks[k]]
    BY Zenon DEF McuOfInput
  <1>2. n \in Nat
    BY PlacesFlat, SeqHas
  <1>3. ASSUME NEW k \in 1 .. n
        PROVE  LET p == places[k] IN
               /\ isReal(p) => mcu[k] = Dct(p.c, coef.vert + p.y, coef.mcu * McuW(Scan, p.c) + p.x)
               /\ ~isReal(p) => k - 1 \in 1 .. n /\ mcu[k] = [block |-> Dummy, dc |-> mcu[k - 1].dc]
    <2>1. PICK base, c, w, h : PlaceIs(Scan, k, base, c, w, h)
      BY PlacesAre
    <2>2. PICK p : p = places[k]
      OBVIOUS
    <2>3. c \in Comps /\ w = McuW(Scan, c) /\ base \in Nat /\ base + w * h <= n /\ w * h \in Nat
      BY <2>1 DEF PlaceIs
    <2>4. /\ p.c = c
          /\ k # base + 1 => k - 1 \in base + 1 .. base + w * h
      BY <2>1, <2>2, PlaceBefore
    <2>5. PICK r, col : r = coef.row * V(c) + (coef.vert + p.y) /\ col = coef.mcu * w + p.x
      OBVIOUS
    <2>6. /\ coef.vert + p.y \in 0 .. V(c) - 1
          /\ ImageRowOf(Scan, p, m) = r /\ ImageColOf(Scan, p, m) = col
          /\ (coef.row < TotalRows - 1 \/ coef.vert + p.y < LastRowHeight(c)) <=> r < HeightInBlocks(c)
          /\ (coef.mcu < McusPerRow(Scan) - 1 \/ p.x < LastColWidth(Scan, c)) <=> col < WidthInBlocks(c)
      BY <2>1, <2>2, <2>5, PlaceInImage
    <2>7. isReal(p) <=> r < HeightInBlocks(c) /\ col < WidthInBlocks(c)
      BY <2>4, <2>6
    <2>8. IF r < HeightInBlocks(c) /\ col < WidthInBlocks(c)
          THEN ImageDC(Scan, p, m) = <<c, r, col>>
          ELSE k # base + 1 /\ ImageDC(Scan, p, m) = ImageDC(Scan, places[k - 1], m)
      BY <2>1, <2>2, <2>5, DCIs
    <2>9. mcu[k] = [block |-> Content(c, r, col), dc |-> ImageDC(Scan, p, m)]
      BY <2>2, <2>4, <2>6 DEF McuAt
    <2>10. CASE isReal(p)
      <3>1. coef.row \in Nat
        BY DEF AtPlace
      <3>2. Dct(c, coef.vert + p.y, col) = [block |-> Content(c, r, col), dc |-> <<c, r, col>>]
        BY <2>3, <2>5, <2>6, <2>7, <2>10, <3>1, DctIs
      <3> HIDE DEF mcu, isReal
      <3> QED
        BY <2>2, <2>3, <2>4, <2>5, <2>7, <2>8, <2>9, <2>10, <3>2
    <2>11. CASE ~isReal(p)
      <3>1. k - 1 \in 1 .. n
        <4>1. k # base + 1
          BY <2>7, <2>8, <2>11
        <4> HIDE DEF n
        <4> QED
          BY <1>2, <2>3, <2>4, <4>1
      <3>2. Content(c, r, col) = Dummy
        BY <2>7, <2>11 DEF Content
      <3>3. mcu[k - 1].dc = ImageDC(Scan, places[k - 1], m)
        BY <3>1 DEF McuAt
      <3> HIDE DEF mcu, isReal
      <3> QED
        BY <2>2, <2>7, <2>8, <2>9, <2>11, <3>1, <3>2, <3>3
    <2> HIDE DEF isReal, mcu
    <2> QED
      BY <2>2, <2>10, <2>11
  <1>4. mcu = [k \in 1 .. n |-> mcu[k]]
    BY DEF McuAt
  <1> HIDE DEF isReal, mcu, places, n
  <1>5. mcu = next(mcu)
    BY <1>3, <1>4
  <1>6. blocks = next(blocks)
    <2> HIDE DEF next
    <2> QED
      BY <1>5, Zenon
  <1> HIDE DEF blocks
  <1>7. \A k \in 1 .. n : LET p == places[k] IN
            blocks[k] = IF isReal(p) THEN Dct(p.c, coef.vert + p.y, coef.mcu * McuW(Scan, p.c) + p.x)
                        ELSE [block |-> Dummy, dc |-> blocks[k - 1].dc]
    BY <1>6, Zenon
  <1> DEFINE Good == {k \in Nat : k \in 1 .. n => blocks[k] = mcu[k]}
  <1>8. 0 \in Good
    BY <1>2
  <1>9. ASSUME NEW k \in Nat, k \in Good
        PROVE  k + 1 \in Good
    <2> SUFFICES ASSUME k + 1 \in 1 .. n
                 PROVE  blocks[k + 1] = mcu[k + 1]
      OBVIOUS
    <2>1. (k + 1) - 1 = k
      OBVIOUS
    <2>2. PICK p : p = places[k + 1]
      OBVIOUS
    <2>3. CASE isReal(p)
      BY <1>3, <1>7, <2>2, <2>3
    <2>4. CASE ~isReal(p)
      <3>1. k \in 1 .. n /\ mcu[k + 1] = [block |-> Dummy, dc |-> mcu[k].dc]
        BY <1>3, <2>1, <2>2, <2>4
      <3>2. blocks[k + 1] = [block |-> Dummy, dc |-> blocks[k].dc]
        BY <1>7, <2>1, <2>2, <2>4
      <3>3. blocks[k] = mcu[k]
        BY <1>9, <3>1
      <3> QED
        BY <3>1, <3>2, <3>3
    <2> QED
      BY <2>3, <2>4
  <1>10. \A k \in 1 .. n : blocks[k] = mcu[k]
    <2>1. \A k \in Nat : k \in Good
      <3> HIDE DEF Good
      <3> QED
        BY <1>8, <1>9, Induction
    <2> QED
      BY <1>2, <2>1
  <1> QED
    BY <1>1, <1>4, <1>10 DEF mcu

-----------------------------------------------------------------------------
(* The whole image's blocks, kept between passes: MCUs of all components   *)
(* together or not, a block has the same DC.                               *)

Across(c) == DivUp(WidthInBlocks(c), H(c)) * H(c)
WholeDC(c, row, col) ==
    LET last == AtMost((col \div H(c)) * H(c) + H(c) - 1, WidthInBlocks(c) - 1)
    IN IF row < HeightInBlocks(c) THEN <<c, row, AtMost(col, last)>>
       ELSE <<c, HeightInBlocks(c) - 1, last>>
WholeRow(c, row) ==
    [x \in 1 .. Across(c) |-> [block |-> Content(c, row, x - 1), dc |-> WholeDC(c, row, x - 1)]]
Filled(n) ==
    \A c \in Comps : /\ IsSeq(whole[c]) /\ n * V(c) <= Len(whole[c])
                     /\ \A row \in 1 .. n * V(c) : whole[c][row] = WholeRow(c, row - 1)

LEMMA RowsOfInputIs ==
    ASSUME conf \in Configs, InputIs, coef.row \in 0 .. TotalRows - 1, NEW c \in Comps
    PROVE  RowsOfInput(c) = [y \in 1 .. V(c) |-> WholeRow(c, coef.row * V(c) + y - 1)]
  <1> DEFINE real == IF coef.row < TotalRows - 1 THEN V(c) ELSE LastRowHeight(c)
             across == DivUp(WidthInBlocks(c), H(c)) * H(c)
             realRow(y) == [x \in 1 .. across |->
                 IF x <= WidthInBlocks(c) THEN Dct(c, y, x - 1)
                 ELSE [block |-> Dummy, dc |-> Dct(c, y, WidthInBlocks(c) - 1).dc]]
             next(b) == [y \in 0 .. V(c) - 1 |->
                 IF y < real THEN realRow(y)
                 ELSE [x \in 1 .. across |->
                         [block |-> Dummy, dc |-> b[y - 1][((x - 1) \div H(c) + 1) * H(c)].dc]]]
             rows == CHOOSE b : b = next(b)
  <1>1. RowsOfInput(c) = [y \in 1 .. V(c) |-> rows[y - 1]]
    BY Zenon DEF RowsOfInput
  <1>2. PICK v, h, s, b : v = V(c) /\ h = H(c) /\ s = WidthInBlocks(c) /\ b = HeightInBlocks(c)
    OBVIOUS
  <1>3. /\ v \in 1 .. 4 /\ h \in 1 .. 4 /\ s \in Nat \ {0} /\ b \in Nat \ {0}
        /\ TotalRows \in Nat \ {0} /\ (TotalRows - 1) * v < b /\ b <= TotalRows * v
        /\ LastRowHeight(c) = b - (TotalRows - 1) * v
    BY <1>2, CompsAre, WidthIs, HeightIs
  <1>4. PICK a : a = coef.row * v
    OBVIOUS
  <1>5. a \in Nat /\ a < b /\ \A y \in 0 .. v - 1 : y < real <=> a + y < b
    <2>1. v \in Nat \ {0}
      BY <1>3
    <2>2. ASSUME NEW y \in 0 .. v - 1
          PROVE  /\ coef.row * v \in Nat /\ coef.row * v < b
                 /\ (coef.row < TotalRows - 1 \/ y < b - (TotalRows - 1) * v) <=> coef.row * v + y < b
      BY <1>3, <2>1, InBlocks
    <2>3. \A y \in 0 .. v - 1 : y < real <=> a + y < b
      <3> TAKE y \in 0 .. v - 1
      <3>1. (coef.row < TotalRows - 1 \/ y < b - (TotalRows - 1) * v) <=> a + y < b
        BY <1>4, <2>2
      <3>2. y < v
        BY <1>3
      <3> QED
        BY <1>2, <1>3, <3>1, <3>2
    <2>4. 0 \in 0 .. v - 1
      BY <1>3
    <2> QED
      BY <1>4, <2>2, <2>3, <2>4
  <1>6. PICK g : g = DivUp(s, h)
    OBVIOUS
  <1>7. g \in Nat \ {0} /\ s <= g * h /\ g * h \in Nat /\ across = g * h /\ Across(c) = g * h
    <2>1. h \in Nat \ {0} /\ s \in Nat /\ s > 0
      BY <1>3
    <2>2. g \in Nat /\ s <= g * h /\ g > 0
      BY <1>6, <2>1, DivUpHas
    <2>3. g * h \in Nat
      BY <2>1, <2>2
    <2> QED
      BY <1>2, <1>6, <2>2, <2>3 DEF Across
  (* Columns, by the MCU they are in. *)
  <1>8. ASSUME NEW x \in 1 .. g * h
        PROVE  \E q \in Nat : \E i \in 0 .. h - 1 :
                   /\ x - 1 = q * h + i /\ q * h \in Nat
                   /\ (x - 1) \div h = q /\ (q * h + h - 1) \div h = q
                   /\ (((x - 1) \div h) + 1) * h = q * h + h /\ q * h + h \in 1 .. g * h
    <2>1. PICK q \in Int, i \in Int : q = (x - 1) \div h /\ i = (x - 1) % h
      BY <1>3
    <2>2. h \in Nat \ {0} /\ h \in Int /\ x - 1 \in Nat /\ x - 1 < g * h
      BY <1>3, <1>7
    <2>3. i \in 0 .. h - 1 /\ x - 1 = h * q + i /\ q \in Nat
      BY <2>1, <2>2
    <2>4. h * q = q * h /\ q * h \in Nat /\ (q + 1) * h = q * h + h
      BY <2>2, <2>3
    <2>5. q < g
      <3>1. q * h < g * h
        BY <1>7, <2>2, <2>3, <2>4
      <3> QED
        BY <1>7, <2>2, <2>3, <3>1, Times
    <2>6. (q + 1) * h <= g * h
      BY <1>7, <2>2, <2>3, <2>5, Times, q + 1 \in Int, q + 1 <= g
    <2>7. (q * h + (h - 1)) \div h = q
      BY <2>2, <2>3, DivMod, h - 1 \in 0 .. h - 1
    <2>8. q * h + h - 1 = q * h + (h - 1)
      BY <2>2, <2>4
    <2>9. q * h + h \in 1 .. g * h
      <3>1. g * h \in Nat /\ q * h + h <= g * h
        BY <1>7, <2>4, <2>6
      <3> QED
        BY <2>2, <2>4, <3>1
    <2>10. x - 1 = q * h + i
      BY <2>3, <2>4
    <2>11. (x - 1) \div h = q /\ (q * h + h - 1) \div h = q
      BY <2>1, <2>7, <2>8
    <2>12. ((x - 1) \div h + 1) * h = q * h + h
      BY <2>1, <2>4
    <2> QED
      BY <2>3, <2>4, <2>9, <2>10, <2>11, <2>12
  <1>9. ASSUME NEW y \in 0 .. v - 1, NEW x \in 1 .. g * h
        PROVE  /\ y < real => WholeRow(c, a + y)[x] = realRow(y)[x]
               /\ ~(y < real) =>
                    /\ y - 1 \in 0 .. v - 1 /\ ((x - 1) \div h + 1) * h \in 1 .. g * h
                    /\ WholeRow(c, a + y)[x]
                          = [block |-> Dummy, dc |-> WholeRow(c, a + (y - 1))[((x - 1) \div h + 1) * h].dc]
    <2>1. PICK q \in Nat, i \in 0 .. h - 1 :
                   /\ x - 1 = q * h + i /\ q * h \in Nat
                   /\ (x - 1) \div h = q /\ (q * h + h - 1) \div h = q
                   /\ (((x - 1) \div h) + 1) * h = q * h + h /\ q * h + h \in 1 .. g * h
      BY <1>8
    <2>2. PICK n, col, last : n = q * h /\ col = x - 1 /\ last = AtMost(n + h - 1, s - 1)
      OBVIOUS
    <2>3. n \in Nat /\ col = n + i /\ last \in Int /\ last <= s - 1 /\ last <= n + h - 1
          /\ (last = s - 1 \/ last = n + h - 1)
      BY <1>3, <2>1, <2>2 DEF AtMost
    <2>4. WholeRow(c, a + y)[x] = [block |-> Content(c, a + y, col), dc |-> WholeDC(c, a + y, col)]
      BY <1>7, <2>2 DEF WholeRow
    <2>5. WholeDC(c, a + y, col) = IF a + y < b THEN <<c, a + y, AtMost(col, last)>> ELSE <<c, b - 1, last>>
      BY <1>2, <2>1, <2>2 DEF WholeDC
    <2>6. CASE y < real
      <3>1. a + y < b
        BY <1>5, <2>6
      <3>2. coef.row \in Nat /\ a + y = coef.row * V(c) + y /\ y \in 0 .. V(c) - 1
        BY <1>2, <1>3, <1>4
      <3>3. CASE col < s
        <4>1. Dct(c, y, col) = [block |-> Content(c, a + y, col), dc |-> <<c, a + y, col>>]
          BY <1>2, <3>1, <3>2, <3>3, DctIs
        <4>2. AtMost(col, last) = col
          BY <1>3, <2>3, <3>3 DEF AtMost
        <4>3. x <= s
          BY <1>3, <2>2, <2>3, <3>3
        <4>4. realRow(y)[x] = Dct(c, y, col)
          BY <1>2, <1>7, <2>2, <4>3
        <4> HIDE DEF real, realRow
        <4> QED
          BY <2>4, <2>5, <2>6, <3>1, <4>1, <4>2, <4>4
      <3>4. CASE ~(col < s)
        <4>1. s - 1 < s
          BY <1>3
        <4>2. Dct(c, y, s - 1) = [block |-> Content(c, a + y, s - 1), dc |-> <<c, a + y, s - 1>>]
          BY <1>2, <3>1, <3>2, <4>1, DctIs
        <4>3. last = s - 1 /\ AtMost(col, last) = s - 1
          BY <1>3, <2>3, <3>4 DEF AtMost
        <4>4. ~(x <= s)
          BY <1>3, <2>2, <2>3, <3>4
        <4>5. realRow(y)[x] = [block |-> Dummy, dc |-> Dct(c, y, s - 1).dc]
          BY <1>2, <1>7, <2>2, <4>4
        <4>6. Content(c, a + y, col) = Dummy
          BY <1>2, <3>4 DEF Content
        <4> HIDE DEF real, realRow
        <4> QED
          BY <2>4, <2>5, <2>6, <3>1, <4>2, <4>3, <4>5, <4>6
      <3> QED
        BY <2>6, <3>3, <3>4
    <2>7. CASE ~(y < real)
      <3>1. ~(a + y < b)
        BY <1>5, <2>7
      <3>2. y - 1 \in 0 .. v - 1 /\ a + (y - 1) \in Int
        BY <1>3, <1>5, <3>1
      <3>3. PICK z : z = n + h
        OBVIOUS
      <3>4. z \in 1 .. g * h /\ ((x - 1) \div h + 1) * h = z
        BY <2>1, <2>2, <3>3
      <3>5. WholeRow(c, a + (y - 1))[z] = [block |-> Content(c, a + (y - 1), z - 1), dc |-> WholeDC(c, a + (y - 1), z - 1)]
        BY <1>7, <3>4 DEF WholeRow
      <3>6. WholeDC(c, a + (y - 1), z - 1)
                = IF a + (y - 1) < b THEN <<c, a + (y - 1), AtMost(z - 1, last)>> ELSE <<c, b - 1, last>>
        <4>1. z - 1 = q * h + h - 1
          BY <1>3, <2>1, <2>2, <3>3
        <4> QED
          BY <1>2, <2>1, <2>2, <4>1 DEF WholeDC
      <3>7. Content(c, a + y, col) = Dummy
        BY <1>2, <3>1 DEF Content
      <3>8. WholeDC(c, a + (y - 1), z - 1) = <<c, b - 1, last>>
        <4>1. CASE a + (y - 1) < b
          <5>1. a + (y - 1) = b - 1
            BY <1>3, <1>5, <3>1, <4>1
          <5>2. AtMost(z - 1, last) = last
            BY <1>3, <2>3, <3>3 DEF AtMost
          <5> QED
            BY <3>6, <4>1, <5>1, <5>2
        <4> QED
          BY <3>6, <4>1
      <3> HIDE DEF real
      <3> QED
        BY <2>4, <2>5, <2>7, <3>1, <3>2, <3>4, <3>5, <3>7, <3>8
    <2> HIDE DEF real, realRow
    <2> QED
      BY <2>6, <2>7
  <1> DEFINE target == [y \in 0 .. v - 1 |-> WholeRow(c, a + y)]
  <1>10. ASSUME NEW y \in 0 .. v - 1
         PROVE  /\ y < real => target[y] = realRow(y)
                /\ ~(y < real) =>
                     /\ y - 1 \in 0 .. v - 1
                     /\ target[y] = [x \in 1 .. across |->
                            [block |-> Dummy, dc |-> target[y - 1][((x - 1) \div H(c) + 1) * H(c)].dc]]
    <2>1. WholeRow(c, a + y) = [x \in 1 .. g * h |-> WholeRow(c, a + y)[x]]
      BY <1>7 DEF WholeRow
    <2>2. realRow(y) = [x \in 1 .. g * h |-> realRow(y)[x]]
      BY <1>7
    <2>3. target[y] = WholeRow(c, a + y) /\ across = g * h /\ H(c) = h
      BY <1>2, <1>7
    <2>4. g * h >= 1
      BY <1>3, <1>7
    <2> HIDE DEF realRow, real, across
    <2>5. CASE y < real
      <3>1. [x \in 1 .. g * h |-> WholeRow(c, a + y)[x]] = [x \in 1 .. g * h |-> realRow(y)[x]]
        BY <1>9, <2>5
      <3> HIDE DEF target
      <3> QED
        BY <2>1, <2>2, <2>3, <2>5, <3>1
    <2>6. CASE ~(y < real)
      <3>1. y - 1 \in 0 .. v - 1
        BY <1>7, <1>9, <2>4, <2>6, 1 \in 1 .. g * h
      <3>2. target[y - 1] = WholeRow(c, a + (y - 1))
        BY <3>1
      <3>3. PICK up : up = WholeRow(c, a + (y - 1))
        OBVIOUS
      <3>4. \A x \in 1 .. g * h : WholeRow(c, a + y)[x] = [block |-> Dummy, dc |-> up[((x - 1) \div h + 1) * h].dc]
        BY <1>9, <2>6, <3>3
      <3>5. WholeRow(c, a + y) = [x \in 1 .. g * h |-> [block |-> Dummy, dc |-> up[((x - 1) \div h + 1) * h].dc]]
        BY <2>1, <3>4
      <3> HIDE DEF target
      <3> QED
        BY <2>3, <2>6, <3>1, <3>2, <3>3, <3>5
    <2> QED
      BY <2>5, <2>6
  <1>11. target = [y \in 0 .. V(c) - 1 |-> target[y]]
    BY <1>2
  <1> HIDE DEF target, realRow, real, across
  <1>12. target = next(target)
    BY <1>2, <1>10, <1>11
  <1>13. rows = next(rows)
    <2> HIDE DEF next
    <2> QED
      BY <1>12, Zenon
  <1> HIDE DEF rows
  <1>14. \A y \in 0 .. V(c) - 1 :
             rows[y] = IF y < real THEN realRow(y)
                       ELSE [x \in 1 .. across |->
                               [block |-> Dummy, dc |-> rows[y - 1][((x - 1) \div H(c) + 1) * H(c)].dc]]
    BY <1>13, Zenon
  <1> DEFINE Good == {y \in Nat : y \in 0 .. v - 1 => rows[y] = target[y]}
  <1>15. ASSUME NEW y \in 0 .. v - 1, ~(y < real) => rows[y - 1] = target[y - 1]
         PROVE  rows[y] = target[y]
    <2>1. CASE y < real
      BY <1>2, <1>10, <1>14, <2>1
    <2>2. CASE ~(y < real)
      <3>1. rows[y] = [x \in 1 .. across |->
                               [block |-> Dummy, dc |-> rows[y - 1][((x - 1) \div H(c) + 1) * H(c)].dc]]
        BY <1>2, <1>14, <2>2
      <3>2. rows[y - 1] = target[y - 1]
        BY <1>15, <2>2
      <3>3. target[y] = [x \in 1 .. across |->
                            [block |-> Dummy, dc |-> target[y - 1][((x - 1) \div H(c) + 1) * H(c)].dc]]
        BY <1>10, <2>2
      <3> QED
        BY <3>1, <3>2, <3>3
    <2> QED
      BY <2>1, <2>2
  <1>16. 0 \in Good
    <2>1. 0 \in 0 .. v - 1 /\ 0 - 1 \notin 0 .. v - 1
      BY <1>3
    <2>2. 0 < real
      BY <1>10, <2>1
    <2> QED
      BY <1>15, <2>1, <2>2
  <1>17. ASSUME NEW y \in Nat, y \in Good
         PROVE  y + 1 \in Good
    <2> SUFFICES ASSUME y + 1 \in 0 .. v - 1
                 PROVE  rows[y + 1] = target[y + 1]
      OBVIOUS
    <2>1. (y + 1) - 1 = y /\ y \in 0 .. v - 1
      BY <1>3
    <2>2. rows[y] = target[y]
      BY <1>17, <2>1
    <2> QED
      BY <1>15, <2>1, <2>2
  <1>18. \A y \in 0 .. v - 1 : rows[y] = target[y]
    <2>1. \A y \in Nat : y \in Good
      <3> HIDE DEF Good
      <3> QED
        BY <1>16, <1>17, Induction
    <2> QED
      BY <1>3, <2>1
  <1>19. \A y \in 1 .. v : rows[y - 1] = WholeRow(c, coef.row * V(c) + y - 1)
    <2> TAKE y \in 1 .. v
    <2>1. y - 1 \in 0 .. v - 1 /\ a + (y - 1) = coef.row * V(c) + y - 1
      BY <1>2, <1>3, <1>4, <1>5
    <2>2. target[y - 1] = WholeRow(c, a + (y - 1))
      BY <2>1 DEF target
    <2> QED
      BY <1>18, <2>1, <2>2
  <1> QED
    BY <1>1, <1>2, <1>19

LEMMA McuOfWholeIs ==
    ASSUME conf \in Configs, GoodScan(Scan), NEW n \in Nat, Filled(n), coef.row < n,
           AtPlace(Scan, coef.row, coef.vert, coef.mcu),
           NEW m, m = Index(Scan, coef.row, coef.vert, coef.mcu)
    PROVE  McuOfWhole = McuAt(Scan, m)
  <1> DEFINE places == Places(Scan)
             get(k) == LET p == places[k]
                           row == coef.row * V(p.c) + coef.vert + p.y
                       IN whole[p.c][row + 1][coef.mcu * McuW(Scan, p.c) + p.x + 1]
  <1>1. McuOfWhole = [k \in 1 .. Len(places) |-> get(k)]
    BY Zenon DEF McuOfWhole
  <1>2. ASSUME NEW k \in 1 .. Len(places)
        PROVE  get(k) = McuAt(Scan, m)[k]
    <2>1. PICK base, c, w, h : PlaceIs(Scan, k, base, c, w, h)
      BY PlacesAre
    <2>2. PICK p : p = places[k]
      OBVIOUS
    <2>3. c \in Comps /\ w = McuW(Scan, c) /\ w \in 1 .. 4
      BY <2>1 DEF PlaceIs
    <2>4. p.c = c /\ p.x \in 0 .. w - 1 /\ p.y \in Nat
      <3>1. p.c = c /\ p.x \in 0 .. w - 1 /\ p.y \in 0 .. h - 1
        BY <2>1, <2>2, PlaceBefore
      <3> QED
        BY <3>1
    <2>5. PICK r, col : r = coef.row * V(c) + (coef.vert + p.y) /\ col = coef.mcu * w + p.x
      OBVIOUS
    <2>6. /\ coef.vert + p.y \in 0 .. V(c) - 1 /\ V(c) \in 1 .. 4
          /\ coef.row * V(c) \in Nat
          /\ ImageRowOf(Scan, p, m) = r /\ ImageColOf(Scan, p, m) = col
          /\ coef.mcu * w \in Nat /\ coef.mcu * w < WidthInBlocks(c)
          /\ Together(Scan) => w = H(c)
          /\ ~Together(Scan) => w = 1 /\ r < HeightInBlocks(c)
      BY <2>1, <2>2, <2>5, PlaceInImage
    <2>7. coef.row \in Nat /\ coef.vert \in Int /\ coef.mcu \in Nat
      <3>1. /\ coef.row \in 0 .. TotalRows - 1 /\ coef.vert \in 0 .. McuRows(Scan, coef.row) - 1
            /\ coef.mcu \in 0 .. McusPerRow(Scan) - 1
        BY DEF AtPlace
      <3> QED
        BY <3>1
    <2>8. r \in Nat /\ col \in Nat
      BY <2>4, <2>5, <2>6
    <2>9. r + 1 \in 1 .. n * V(c)
      <3>1. V(c) \in Nat
        BY <2>6
      <3>2. (coef.row + 1) * V(c) <= n * V(c)
        BY <2>7, <3>1, Times, coef.row + 1 \in Int, coef.row + 1 <= n
      <3>3. (coef.row + 1) * V(c) = coef.row * V(c) + V(c) /\ n * V(c) \in Nat
        BY <2>7, <3>1
      <3>4. PICK a, b, y : a = coef.row * V(c) /\ b = n * V(c) /\ y = coef.vert + p.y
        OBVIOUS
      <3>5. a \in Nat /\ b \in Nat /\ y \in 0 .. V(c) - 1 /\ a + V(c) <= b /\ r = a + y
        BY <2>5, <2>6, <3>2, <3>3, <3>4
      <3>6. r + 1 \in 1 .. b
        BY <3>1, <3>5
      <3> QED
        BY <3>4, <3>6
    <2>10. PICK s, hh : s = WidthInBlocks(c) /\ hh = H(c)
      OBVIOUS
    <2>11. s \in Nat \ {0} /\ hh \in 1 .. 4
      BY <2>3, <2>10, WidthIs, CompsAre
    <2>12. PICK g : g = DivUp(s, hh)
      OBVIOUS
    <2>13. g \in Nat /\ s <= g * hh /\ g * hh \in Nat /\ Across(c) = g * hh
      <3>1. hh \in Nat \ {0} /\ s \in Nat
        BY <2>11
      <3>2. g \in Nat /\ s <= g * hh
        BY <2>12, <3>1, DivUpHas
      <3>3. g * hh \in Nat
        BY <3>1, <3>2
      <3> QED
        BY <2>10, <2>12, <3>2, <3>3 DEF Across
    <2>14. ~Together(Scan) => col < s
      BY <2>4, <2>5, <2>6, <2>10, <2>11
    <2>15. col + 1 \in 1 .. Across(c)
      <3>1. CASE Together(Scan)
        <4>1. w = hh /\ hh \in Nat /\ coef.mcu * hh < g * hh
          BY <2>6, <2>10, <2>11, <2>13, <3>1
        <4>2. coef.mcu < g
          BY <2>7, <2>13, <4>1, Times
        <4>3. (coef.mcu + 1) * hh <= g * hh
          BY <2>7, <2>13, <4>1, <4>2, Times, coef.mcu + 1 \in Int, coef.mcu + 1 <= g
        <4>4. (coef.mcu + 1) * hh = coef.mcu * hh + hh
          BY <2>7, <4>1
        <4> QED
          <5>1. PICK a : a = coef.mcu * hh
            OBVIOUS
          <5>2. a \in Nat /\ col = a + p.x /\ p.x \in 0 .. hh - 1 /\ a + hh <= g * hh
            BY <2>4, <2>5, <2>6, <4>1, <4>3, <4>4, <5>1
          <5>3. col + 1 \in 1 .. g * hh
            BY <2>8, <2>13, <4>1, <5>2
          <5> QED
            BY <2>13, <5>3
      <3>2. CASE ~Together(Scan)
        BY <2>8, <2>11, <2>13, <2>14, <3>2
      <3> QED
        BY <3>1, <3>2
    <2>16. WholeRow(c, r)[col + 1] = [block |-> Content(c, r, col), dc |-> WholeDC(c, r, col)]
      <3>1. (col + 1) - 1 = col
        BY <2>8
      <3> QED
        BY <2>15, <3>1 DEF WholeRow
    <2>17. WholeDC(c, r, col) = ImageDC(Scan, p, m)
      <3>1. CASE Together(Scan)
        BY <2>3, <2>4, <2>6, <3>1 DEF WholeDC, ImageDC, DCOf
      <3>2. CASE ~Together(Scan)
        <4>1. ImageDC(Scan, p, m) = <<c, r, col>>
          BY <2>1, <2>2, <2>5, <2>6, <2>10, <2>14, <3>2, DCIs
        <4>2. PICK q \in Int, i \in Int : q = col \div hh /\ i = col % hh
          <5>1. hh \in Nat \ {0} /\ col \in Int
            BY <2>8, <2>11
          <5>2. col \div hh \in Int /\ col % hh \in Int
            BY <5>1
          <5> QED
            BY <5>2
        <4>3. i \in 0 .. hh - 1 /\ col = hh * q + i /\ hh * q = q * hh /\ q * hh \in Int
          BY <2>8, <2>11, <4>2
        <4>4. AtMost(col, AtMost(q * hh + hh - 1, s - 1)) = col
          BY <2>8, <2>11, <2>14, <3>2, <4>3 DEF AtMost
        <4> QED
          BY <2>6, <2>10, <3>2, <4>1, <4>2, <4>4 DEF WholeDC
      <3> QED
        BY <3>1, <3>2
    <2>18. get(k) = whole[c][r + 1][col + 1]
      <3>1. coef.row * V(c) + coef.vert + p.y = r /\ coef.mcu * w + p.x + 1 = col + 1
        <4>1. PICK a, b : a = coef.row * V(c) /\ b = coef.mcu * w
          OBVIOUS
        <4>2. a \in Nat /\ b \in Nat /\ p.x \in Nat /\ p.y \in Nat /\ coef.vert \in Int
          BY <2>4, <2>6, <2>7, <4>1
        <4>3. a + coef.vert + p.y = a + (coef.vert + p.y) /\ b + p.x + 1 = (b + p.x) + 1
          BY <4>2
        <4> QED
          BY <2>5, <4>1, <4>3
      <3> QED
        BY <2>2, <2>3, <2>4, <3>1
    <2>19. whole[c][r + 1] = WholeRow(c, r)
      <3>1. (r + 1) - 1 = r
        BY <2>8
      <3>2. whole[c][r + 1] = WholeRow(c, (r + 1) - 1)
        BY <2>3, <2>9 DEF Filled
      <3> QED
        BY <3>1, <3>2
    <2>20. McuAt(Scan, m)[k] = [block |-> Content(c, r, col), dc |-> ImageDC(Scan, p, m)]
      BY <2>2, <2>4, <2>6 DEF McuAt
    <2> HIDE DEF get
    <2> QED
      BY <2>16, <2>17, <2>18, <2>19, <2>20
  <1>3. McuAt(Scan, m) = [k \in 1 .. Len(places) |-> McuAt(Scan, m)[k]]
    BY DEF McuAt
  <1> HIDE DEF get
  <1> QED
    BY <1>1, <1>2, <1>3

-----------------------------------------------------------------------------
(* The entropy coder before MCU m, with restarts every n MCUs.             *)

ToGoAt(n, m) == IF n = 0 THEN 0 ELSE IF m = 0 THEN n ELSE n - ((m - 1) % n) - 1
NextAt(n, m) == IF n = 0 \/ m = 0 THEN 0 ELSE ((m - 1) \div n) % 8

LEMMA Mod8 ==
    ASSUME NEW a \in Nat
    PROVE  a % 8 \in 0 .. 7 /\ ((a % 8) + 1) % 8 = (a + 1) % 8
  <1>1. PICK q \in Int, r \in Int : q = a \div 8 /\ r = a % 8
    OBVIOUS
  <1>2. r \in 0 .. 7 /\ a = 8 * q + r
    BY <1>1
  <1> QED
    BY <1>1, <1>2

LEMMA RestartsAre ==
    ASSUME NEW n \in Nat, NEW m \in Nat, interval = n, entropy.toGo = ToGoAt(n, m)
    PROVE  /\ ToGoAt(n, m) \in 0 .. n
           /\ Restarts <=> RestartsAt(n, m)
           /\ Counted = ToGoAt(n, m + 1)
           /\ NextAt(n, m) \in 0 .. 7
           /\ RestartsAt(n, m) => /\ NextAt(n, m) = (m \div n - 1) % 8
                                  /\ NextAt(n, m + 1) = (NextAt(n, m) + 1) % 8
           /\ ~RestartsAt(n, m) => NextAt(n, m + 1) = NextAt(n, m)
  <1>1. CASE n = 0
    BY <1>1 DEF ToGoAt, NextAt, RestartsAt, Restarts, Counted
  <1>2. CASE n # 0 /\ m = 0
    <2>1. 0 % n = 0 /\ 0 \div n = 0
      <3>1. (0 * n + 0) \div n = 0 /\ (0 * n + 0) % n = 0
        BY <1>2, DivMod, 0 \in 0 .. n - 1
      <3>2. 0 * n + 0 = 0
        OBVIOUS
      <3> QED
        BY <3>1, <3>2
    <2>2. (0 + 1) - 1 = 0 /\ 0 % 8 = 0
      OBVIOUS
    <2>3. ToGoAt(n, m) = n /\ ToGoAt(n, m + 1) = n - 1 /\ NextAt(n, m) = 0 /\ NextAt(n, m + 1) = 0
      BY <1>2, <2>1, <2>2 DEF ToGoAt, NextAt
    <2> QED
      BY <1>2, <2>3 DEF RestartsAt, Restarts, Counted
  <1>3. CASE n # 0 /\ m # 0
    <2>1. PICK q \in Int, r \in Int : q = (m - 1) \div n /\ r = (m - 1) % n
      BY <1>3
    <2>2. m - 1 \in Nat /\ n \in Nat \ {0}
      BY <1>3
    <2>3. r \in 0 .. n - 1 /\ m - 1 = n * q + r /\ q \in Nat
      BY <2>1, <2>2
    <2>4. n * q = q * n /\ q * n \in Nat /\ (q + 1) * n = q * n + n
      BY <2>3
    <2>5. ToGoAt(n, m) = n - r - 1 /\ NextAt(n, m) = q % 8
      BY <1>3, <2>1 DEF ToGoAt, NextAt
    <2>6. (m + 1) - 1 = m /\ m + 1 # 0
      OBVIOUS
    <2>7. ToGoAt(n, m + 1) = n - (m % n) - 1 /\ NextAt(n, m + 1) = (m \div n) % 8
      BY <1>3, <2>6 DEF ToGoAt, NextAt
    <2>8. CASE r + 1 < n
      <3>1. m = q * n + (r + 1) /\ r + 1 \in 0 .. n - 1
        BY <2>3, <2>4, <2>8
      <3>2. m \div n = q /\ m % n = r + 1
        BY <2>2, <2>3, <3>1, DivMod
      <3>3. ~RestartsAt(n, m)
        BY <2>3, <3>2 DEF RestartsAt
      <3>4. ~Restarts /\ n - r - 1 # 0
        BY <2>3, <2>5, <2>8 DEF Restarts
      <3>5. Counted = n - (r + 1) - 1
        BY <2>3, <2>5, <3>4, <1>3 DEF Counted
      <3> QED
        BY <2>3, <2>5, <2>7, <3>2, <3>3, <3>4, <3>5, Mod8
    <2>9. CASE r + 1 = n
      <3>1. m = (q + 1) * n + 0 /\ 0 \in 0 .. n - 1 /\ q + 1 \in Int
        BY <2>2, <2>3, <2>4, <2>9
      <3>2. m \div n = q + 1 /\ m % n = 0
        BY <2>2, <3>1, DivMod
      <3>3. RestartsAt(n, m)
        BY <1>3, <3>2 DEF RestartsAt
      <3>4. Restarts /\ n - r - 1 = 0
        BY <1>3, <2>3, <2>5, <2>9 DEF Restarts
      <3>5. Counted = n - 1
        BY <2>3, <2>5, <3>4, <1>3 DEF Counted
      <3>6. (m \div n - 1) % 8 = q % 8
        BY <2>3, <3>2
      <3>7. q % 8 \in 0 .. 7 /\ ((q % 8) + 1) % 8 = (q + 1) % 8
        BY <2>3, Mod8
      <3> QED
        BY <2>2, <2>3, <2>5, <2>7, <3>2, <3>3, <3>4, <3>5, <3>6, <3>7
    <2> QED
      BY <2>3, <2>8, <2>9
  <1> QED
    BY <1>1, <1>2, <1>3

(* The last place of a component in an MCU tells what the next MCU's first *)
(* is predicted from.                                                      *)
IsLast(scan, k) == \A j \in 1 .. Len(Places(scan)) : j > k => Places(scan)[j].c # Places(scan)[k].c
DCsAre(scan, m, dc) ==
    \A k \in 1 .. Len(Places(scan)) : IsLast(scan, k) =>
        dc[Places(scan)[k].c] = IF m = 0 THEN NoDC ELSE ImageDC(scan, Places(scan)[k], m - 1)

(* Which places are of the component of place k.                           *)
LEMMA Same ==
    ASSUME NEW scan, NEW k, NEW base, NEW c, NEW w, NEW h, PlaceIs(scan, k, base, c, w, h),
           IsSeq(Places(scan))
    PROVE  /\ DOMAIN Places(scan) = 1 .. Len(Places(scan)) /\ Places(scan)[k].c = c
           /\ k \in 1 .. Len(Places(scan))
           /\ {j \in DOMAIN Places(scan) : Places(scan)[j].c = Places(scan)[k].c} = base + 1 .. base + w * h
           /\ Min(base + 1 .. base + w * h) = base + 1 /\ Max(base + 1 .. base + w * h) = base + w * h
           /\ {j \in 1 .. k - 1 : Places(scan)[j].c = Places(scan)[k].c} = base + 1 .. k - 1
           /\ k = base + 1 => base + 1 .. k - 1 = {}
           /\ k # base + 1 => base + 1 .. k - 1 # {} /\ Max(base + 1 .. k - 1) = k - 1
           /\ base + w * h \in 1 .. Len(Places(scan)) /\ Places(scan)[base + w * h].c = c
           /\ IsLast(scan, base + w * h)
           /\ IsLast(scan, k) => k = base + w * h
  <1>1. DOMAIN Places(scan) = 1 .. Len(Places(scan)) /\ Len(Places(scan)) \in Nat
    BY SeqHas
  <1>2. PICK n, e : n = Len(Places(scan)) /\ e = base + w * h
    OBVIOUS
  <1>3. /\ base \in Nat /\ e \in Nat /\ e <= n /\ k \in base + 1 .. e /\ n \in Nat
        /\ \A j \in 1 .. n : Places(scan)[j].c = c <=> j \in base + 1 .. e
    <2>1. base \in Nat /\ w * h \in Nat
      BY DEF PlaceIs
    <2>2. e \in Nat
      BY <1>2, <2>1
    <2> QED
      BY <1>1, <1>2, <2>1, <2>2 DEF PlaceIs
  <1>4. Places(scan)[k].c = c /\ k \in 1 .. n
    <2>1. k \in 1 .. n
      BY <1>3
    <2> QED
      BY <1>3, <2>1
  <1>5. {j \in 1 .. n : Places(scan)[j].c = c} = base + 1 .. e
    <2>1. \A j \in base + 1 .. e : j \in 1 .. n
      BY <1>3
    <2> QED
      BY <1>3, <2>1
  <1>6. base + 1 <= e /\ base + 1 \in Int /\ e \in Int
    BY <1>3
  <1>7. Min(base + 1 .. e) = base + 1 /\ Max(base + 1 .. e) = e
    BY <1>6, RangeEnds
  <1>8. {j \in 1 .. k - 1 : Places(scan)[j].c = c} = base + 1 .. k - 1
    <2>1. \A j \in 1 .. k - 1 : j \in 1 .. n
      BY <1>3
    <2>2. \A j \in 1 .. k - 1 : Places(scan)[j].c = c <=> j \in base + 1 .. e
      BY <1>3, <2>1
    <2>3. \A j : (j \in 1 .. k - 1 /\ j \in base + 1 .. e) <=> j \in base + 1 .. k - 1
      BY <1>3
    <2> QED
      BY <2>2, <2>3
  <1>9. k = base + 1 => base + 1 .. k - 1 = {}
    BY <1>3
  <1>10. k # base + 1 => base + 1 .. k - 1 # {} /\ Max(base + 1 .. k - 1) = k - 1
    <2> SUFFICES ASSUME k # base + 1
                 PROVE  base + 1 .. k - 1 # {} /\ Max(base + 1 .. k - 1) = k - 1
      OBVIOUS
    <2>1. base + 1 \in Int /\ k - 1 \in Int /\ base + 1 <= k - 1
      BY <1>3
    <2>2. base + 1 \in base + 1 .. k - 1
      BY <2>1
    <2> QED
      BY <2>1, <2>2, RangeEnds
  <1>11. e \in 1 .. n /\ Places(scan)[e].c = c
    <2>1. e \in 1 .. n /\ e \in base + 1 .. e
      BY <1>3
    <2> QED
      BY <1>3, <2>1
  <1>12. IsLast(scan, e)
    <2>1. \A j \in 1 .. n : j > e => j \notin base + 1 .. e
      BY <1>3
    <2> QED
      BY <1>2, <1>3, <1>11, <2>1 DEF IsLast
  <1>13. IsLast(scan, k) => k = e
    <2>1. IsLast(scan, k) => ~(e > k)
      BY <1>2, <1>4, <1>11 DEF IsLast
    <2> QED
      BY <1>3, <2>1
  <1> QED
    BY <1>1, <1>2, <1>4, <1>5, <1>7, <1>8, <1>9, <1>10, <1>11, <1>12, <1>13

LEMMA CodedIs ==
    ASSUME conf \in Configs, GoodScan(Scan), NEW m \in Nat, NEW n \in Nat,
           Restarts <=> RestartsAt(n, m), DCsAre(Scan, m, entropy.dc),
           NEW mcu, mcu = McuAt(Scan, m)
    PROVE  /\ Coded(mcu) = ImageBlocks(Scan, n, m)
           /\ DCsAre(Scan, m + 1, After(mcu))
  <1> DEFINE places == Places(Scan)
             same(k) == {j \in DOMAIN places : places[j].c = places[k].c}
             before(k) == {j \in 1 .. k - 1 : places[j].c = places[k].c}
             first(k) == IF m = 0 \/ RestartsAt(n, m) THEN NoDC
                         ELSE ImageDC(Scan, places[Max(same(k))], m - 1)
             pred(k) == IF k # Min(same(k)) THEN ImageDC(Scan, places[k - 1], m) ELSE first(k)
  <1>1. IsSeq(places)
    BY PlacesFlat
  <1>2. DOMAIN mcu = 1 .. Len(places) /\ DOMAIN places = 1 .. Len(places)
    BY <1>1, SeqHas DEF McuAt
  <1>3. ASSUME NEW k \in 1 .. Len(places)
        PROVE  /\ mcu[k].dc = ImageDC(Scan, places[k], m)
               /\ mcu[k].block = Content(places[k].c, ImageRowOf(Scan, places[k], m), ImageColOf(Scan, places[k], m))
    BY DEF McuAt
  <1>4. ASSUME NEW k \in 1 .. Len(places)
        PROVE  IF before(k) = {} THEN Predictions[places[k].c] = pred(k)
               ELSE mcu[Max(before(k))].dc = pred(k)
    <2>1. PICK base, c, w, h : PlaceIs(Scan, k, base, c, w, h)
      BY PlacesAre
    <2>2. PICK e : e = base + w * h
      OBVIOUS
    <2>3. /\ places[k].c = c /\ same(k) = base + 1 .. e
          /\ Min(base + 1 .. e) = base + 1 /\ Max(base + 1 .. e) = e
          /\ before(k) = base + 1 .. k - 1
          /\ k = base + 1 => base + 1 .. k - 1 = {}
          /\ k # base + 1 => base + 1 .. k - 1 # {} /\ Max(base + 1 .. k - 1) = k - 1
          /\ e \in 1 .. Len(places) /\ places[e].c = c /\ IsLast(Scan, e)
      BY <1>1, <2>1, <2>2, Same
    <2>4. c \in Comps
      BY <2>1 DEF PlaceIs
    <2> HIDE DEF before, same
    <2>5. CASE k = base + 1
      <3>1. before(k) = {} /\ k = Min(same(k)) /\ Max(same(k)) = e
        BY <2>3, <2>5
      <3>2. pred(k) = IF m = 0 \/ RestartsAt(n, m) THEN NoDC ELSE ImageDC(Scan, places[e], m - 1)
        BY <3>1
      <3>3. entropy.dc[c] = IF m = 0 THEN NoDC ELSE ImageDC(Scan, places[e], m - 1)
        BY <2>3 DEF DCsAre
      <3>4. Predictions[c] = IF RestartsAt(n, m) THEN NoDC ELSE entropy.dc[c]
        BY <2>4 DEF Predictions, NoDCs
      <3> HIDE DEF pred
      <3> QED
        BY <2>3, <3>1, <3>2, <3>3, <3>4
    <2>6. CASE k # base + 1
      <3>1. before(k) # {} /\ k # Min(same(k)) /\ Max(before(k)) = k - 1
        BY <2>3, <2>6
      <3>2. pred(k) = ImageDC(Scan, places[k - 1], m)
        BY <3>1
      <3>3. k - 1 \in 1 .. Len(places)
        <4>1. k - 1 \in before(k)
          <5>1. k - 1 \in base + 1 .. base + w * h /\ base \in Nat
            BY <2>1, <2>6, PlaceBefore DEF PlaceIs
          <5>2. k - 1 \in base + 1 .. k - 1
            BY <5>1
          <5> QED
            BY <2>3, <5>2
        <4>2. k - 1 \in 1 .. k - 1
          BY <4>1 DEF before
        <4> QED
          BY <4>2
      <3> HIDE DEF pred
      <3> QED
        BY <1>3, <3>1, <3>2, <3>3
    <2> QED
      BY <2>5, <2>6
  <1>5. Coded(mcu) = [k \in DOMAIN mcu |->
             <<"block", mcu[k].block, mcu[k].dc,
               IF before(k) = {} THEN Predictions[places[k].c] ELSE mcu[Max(before(k))].dc>>]
    BY Zenon DEF Coded
  <1>6. ImageBlocks(Scan, n, m) = [k \in DOMAIN places |->
             <<"block", Content(places[k].c, ImageRowOf(Scan, places[k], m), ImageColOf(Scan, places[k], m)),
               ImageDC(Scan, places[k], m), pred(k)>>]
    BY Zenon DEF ImageBlocks
  <1>7. Coded(mcu) = ImageBlocks(Scan, n, m)
    <2> HIDE DEF before, pred
    <2>1. \A k \in 1 .. Len(places) :
             (IF before(k) = {} THEN Predictions[places[k].c] ELSE mcu[Max(before(k))].dc) = pred(k)
      BY <1>4
    <2> QED
      BY <1>2, <1>3, <1>5, <1>6, <2>1
  <1>8. ASSUME NEW k \in 1 .. Len(places), IsLast(Scan, k)
        PROVE  After(mcu)[places[k].c] = ImageDC(Scan, places[k], (m + 1) - 1)
    <2>1. PICK base, c, w, h : PlaceIs(Scan, k, base, c, w, h)
      BY PlacesAre
    <2>2. PICK e : e = base + w * h
      OBVIOUS
    <2>3. /\ places[k].c = c /\ same(k) = base + 1 .. e
          /\ Max(base + 1 .. e) = e /\ k = e
      BY <1>1, <1>8, <2>1, <2>2, Same
    <2>4. c \in Comps
      BY <2>1 DEF PlaceIs
    <2>5. {j \in DOMAIN mcu : places[j].c = c} = base + 1 .. e
      BY <1>2, <2>3
    <2>6. e \in base + 1 .. e
      BY <2>1, <2>2, <2>3 DEF PlaceIs
    <2>7. After(mcu)[c] = mcu[e].dc
      <3>1. After(mcu)[c] = IF {j \in DOMAIN mcu : places[j].c = c} = {} THEN Predictions[c]
                            ELSE mcu[Max({j \in DOMAIN mcu : places[j].c = c})].dc
        BY <2>4 DEF After
      <3> QED
        BY <2>3, <2>5, <2>6, <3>1
    <2>8. (m + 1) - 1 = m
      OBVIOUS
    <2> QED
      BY <1>3, <2>3, <2>7, <2>8
  <1>9. m + 1 # 0
    OBVIOUS
  <1> QED
    BY <1>7, <1>8, <1>9 DEF DCsAre

-----------------------------------------------------------------------------
(* What the client set up does not change, nor what follows from it.       *)

LEMMA SameSizes ==
    ASSUME conf' = conf, NEW c
    PROVE  /\ Comps' = Comps /\ H(c)' = H(c) /\ V(c)' = V(c) /\ MaxH' = MaxH /\ MaxV' = MaxV
           /\ WidthInBlocks(c)' = WidthInBlocks(c) /\ HeightInBlocks(c)' = HeightInBlocks(c)
           /\ TotalRows' = TotalRows /\ MCUsWide' = MCUsWide /\ LastRowHeight(c)' = LastRowHeight(c)
           /\ Across(c)' = Across(c)
  <1>1. Comps' = Comps
    BY DEF Comps
  <1>2. \A i : H(i)' = H(i) /\ V(i)' = V(i)
    BY DEF H, V
  <1>3. {H(i) : i \in Comps}' = {H(i) : i \in Comps} /\ {V(i) : i \in Comps}' = {V(i) : i \in Comps}
    BY <1>1, <1>2
  <1>4. MaxH' = MaxH /\ MaxV' = MaxV
    BY <1>3, Zenon DEF MaxH, MaxV
  <1>5. WidthInBlocks(c)' = WidthInBlocks(c) /\ HeightInBlocks(c)' = HeightInBlocks(c)
    BY <1>2, <1>4 DEF WidthInBlocks, HeightInBlocks
  <1>6. TotalRows' = TotalRows /\ MCUsWide' = MCUsWide
    BY <1>4 DEF TotalRows, MCUsWide
  <1>7. LastRowHeight(c)' = LastRowHeight(c) /\ Across(c)' = Across(c)
    BY <1>2, <1>5 DEF LastRowHeight, Across
  <1> QED
    BY <1>1, <1>2, <1>4, <1>5, <1>6, <1>7

LEMMA SameScans ==
    ASSUME conf' = conf
    PROVE  /\ Scans' = Scans /\ TotalPasses' = TotalPasses /\ FullBuffer' = FullBuffer
           /\ ScriptIsValid => ScriptIsValid'
  <1>1. Comps' = Comps
    BY DEF Comps
  <1>2. Scans' = Scans
    BY <1>1 DEF Scans
  <1>3. ScriptIsValid => ScriptIsValid'
    BY <1>1, <1>2 DEF ScriptIsValid
  <1> QED
    BY <1>2, <1>3 DEF TotalPasses, FullBuffer

LEMMA SameScan ==
    ASSUME conf' = conf, NEW scan
    PROVE  /\ McusPerRow(scan)' = McusPerRow(scan) /\ Mcus(scan)' = Mcus(scan)
           /\ Interval(scan)' = Interval(scan)
           /\ GoodScan(scan) => GoodScan(scan)'
           /\ Places(scan)' = Places(scan)
           /\ \A row : McuRows(scan, row)' = McuRows(scan, row) /\ RowBase(scan, row)' = RowBase(scan, row)
           /\ \A c : McuW(scan, c)' = McuW(scan, c) /\ McuH(scan, c)' = McuH(scan, c)
  <1>1. \A c : /\ H(c)' = H(c) /\ V(c)' = V(c) /\ WidthInBlocks(c)' = WidthInBlocks(c)
               /\ HeightInBlocks(c)' = HeightInBlocks(c) /\ LastRowHeight(c)' = LastRowHeight(c)
    BY SameSizes
  <1>2. TotalRows' = TotalRows /\ MaxH' = MaxH /\ Comps' = Comps
    BY SameSizes
  <1>3. McusPerRow(scan)' = McusPerRow(scan)
    BY <1>1, <1>2 DEF McusPerRow
  <1>4. Mcus(scan)' = Mcus(scan)
    BY <1>1, <1>2, <1>3 DEF Mcus
  <1>5. Interval(scan)' = Interval(scan)
    BY <1>3 DEF Interval
  <1>6. GoodScan(scan) => GoodScan(scan)'
    BY <1>2 DEF GoodScan
  <1>7. \A c : McuW(scan, c)' = McuW(scan, c) /\ McuH(scan, c)' = McuH(scan, c)
    BY <1>1 DEF McuW, McuH
  <1>8. Places(scan)' = Places(scan)
    BY DEF Places, McuW, McuH, Together, H, V
  <1>9. \A row : McuRows(scan, row)' = McuRows(scan, row) /\ RowBase(scan, row)' = RowBase(scan, row)
    BY <1>1, <1>2 DEF McuRows, RowBase
  <1> QED
    BY <1>3, <1>4, <1>5, <1>6, <1>7, <1>8, <1>9

LEMMA SameRows ==
    ASSUME conf' = conf, NEW c, NEW row
    PROVE  /\ ImageRow(c, row)' = ImageRow(c, row)
           /\ \A col : Content(c, row, col)' = Content(c, row, col)
           /\ WholeRow(c, row)' = WholeRow(c, row)
  <1>1. /\ MaxV' = MaxV /\ V(c)' = V(c) /\ H(c)' = H(c) /\ Across(c)' = Across(c)
        /\ WidthInBlocks(c)' = WidthInBlocks(c) /\ HeightInBlocks(c)' = HeightInBlocks(c)
    BY SameSizes
  <1>2. \A lines : Downsampled(c, lines)' = Downsampled(c, lines)
    BY <1>1 DEF Downsampled
  <1>3. \A y : ImageRow(c, y)' = ImageRow(c, y)
    <2> TAKE y
    <2>1. \A from : [i \in 1 .. MaxV |-> AtMost(from + i, conf.height)]' = [i \in 1 .. MaxV |-> AtMost(from + i, conf.height)]
      BY <1>1
    <2> QED
      BY <1>1, <1>2, <2>1, Zenon DEF ImageRow
  <1>4. \A r : [i \in 1 .. D |-> ImageRow(c, r * D + i - 1)]' = [i \in 1 .. D |-> ImageRow(c, r * D + i - 1)]
    BY <1>3
  <1>5. \A r, col : Content(c, r, col)' = Content(c, r, col)
    BY <1>1, <1>4, Zenon DEF Content
  <1>6. \A col : WholeDC(c, row, col)' = WholeDC(c, row, col)
    BY <1>1 DEF WholeDC
  <1>7. WholeRow(c, row)' = WholeRow(c, row)
    BY <1>1, <1>5, <1>6 DEF WholeRow
  <1> QED
    BY <1>3, <1>5, <1>7

LEMMA SamePlaces ==
    ASSUME conf' = conf, NEW scan
    PROVE  /\ \A row, vert, mcu : /\ AtPlace(scan, row, vert, mcu)' <=> AtPlace(scan, row, vert, mcu)
                                  /\ Index(scan, row, vert, mcu)' = Index(scan, row, vert, mcu)
           /\ \A k : IsLast(scan, k)' <=> IsLast(scan, k)
           /\ \A p, m : /\ ImageRowOf(scan, p, m)' = ImageRowOf(scan, p, m)
                        /\ ImageColOf(scan, p, m)' = ImageColOf(scan, p, m)
                        /\ ImageDC(scan, p, m)' = ImageDC(scan, p, m)
           /\ \A m, dc : DCsAre(scan, m, dc)' <=> DCsAre(scan, m, dc)
  <1>1. /\ McusPerRow(scan)' = McusPerRow(scan) /\ Places(scan)' = Places(scan)
        /\ \A row : McuRows(scan, row)' = McuRows(scan, row) /\ RowBase(scan, row)' = RowBase(scan, row)
        /\ \A c : McuW(scan, c)' = McuW(scan, c) /\ McuH(scan, c)' = McuH(scan, c)
    BY SameScan
  <1>2. TotalRows' = TotalRows
    BY SameSizes
  <1>3. \A c : WidthInBlocks(c)' = WidthInBlocks(c) /\ HeightInBlocks(c)' = HeightInBlocks(c)
    BY SameSizes
  <1>4. \A row, vert, mcu : /\ AtPlace(scan, row, vert, mcu)' <=> AtPlace(scan, row, vert, mcu)
                            /\ Index(scan, row, vert, mcu)' = Index(scan, row, vert, mcu)
    BY <1>1, <1>2 DEF AtPlace, Index
  <1>5. \A k : IsLast(scan, k)' <=> IsLast(scan, k)
    BY <1>1 DEF IsLast
  <1>6. \A p, m : /\ ImageRowOf(scan, p, m)' = ImageRowOf(scan, p, m)
                  /\ ImageColOf(scan, p, m)' = ImageColOf(scan, p, m)
    BY <1>1 DEF ImageRowOf, ImageColOf
  <1>7. \A c, row, col : DCOf(scan, c, row, col)' = DCOf(scan, c, row, col)
    BY <1>1, <1>3 DEF DCOf
  <1>8. \A p, m : ImageDC(scan, p, m)' = ImageDC(scan, p, m)
    BY <1>6, <1>7 DEF ImageDC
  <1>9. \A m, dc : DCsAre(scan, m, dc)' <=> DCsAre(scan, m, dc)
    BY <1>1, <1>5, <1>8 DEF DCsAre
  <1> QED
    BY <1>4, <1>5, <1>6, <1>8, <1>9

LEMMA SameBlocks ==
    ASSUME conf' = conf, NEW scan, NEW n, NEW m
    PROVE  ImageBlocks(scan, n, m)' = ImageBlocks(scan, n, m)
  <1> DEFINE places == Places(scan)
             same(k) == {j \in DOMAIN places : places[j].c = places[k].c}
             pred(k) == IF k # Min(same(k)) THEN ImageDC(scan, places[k - 1], m)
                        ELSE IF m = 0 \/ RestartsAt(n, m) THEN NoDC
                        ELSE ImageDC(scan, places[Max(same(k))], m - 1)
             block(k) == <<"block", Content(places[k].c, ImageRowOf(scan, places[k], m), ImageColOf(scan, places[k], m)),
                           ImageDC(scan, places[k], m), pred(k)>>
  <1>1. places' = places
    BY SameScan
  <1>2. \A k : same(k)' = same(k)
    BY <1>1
  <1>3. \A p, l : /\ ImageRowOf(scan, p, l)' = ImageRowOf(scan, p, l)
                  /\ ImageColOf(scan, p, l)' = ImageColOf(scan, p, l)
                  /\ ImageDC(scan, p, l)' = ImageDC(scan, p, l)
    BY SamePlaces
  <1>4. \A c, row, col : Content(c, row, col)' = Content(c, row, col)
    BY SameRows
  <1>5. ImageBlocks(scan, n, m) = [k \in DOMAIN places |-> block(k)]
    BY Zenon DEF ImageBlocks
  <1>6. ImageBlocks(scan, n, m)' = [k \in DOMAIN places |-> block(k)]'
    BY Zenon DEF ImageBlocks
  <1> HIDE DEF places, same
  <1>7. \A k : pred(k)' = pred(k)
    BY <1>1, <1>2, <1>3
  <1> HIDE DEF pred
  <1>8. \A k : block(k)' = block(k)
    BY <1>1, <1>3, <1>4, <1>7
  <1> HIDE DEF block
  <1>9. [k \in DOMAIN places |-> block(k)]' = [k \in DOMAIN places |-> block(k)]
    BY <1>1, <1>8
  <1> QED
    BY <1>5, <1>6, <1>9

LEMMA SameMcu ==
    ASSUME conf' = conf, NEW scan, NEW n, NEW m
    PROVE  ImageMcu(scan, n, m)' = ImageMcu(scan, n, m)
  BY SameBlocks DEF ImageMcu, RestartsAt

-----------------------------------------------------------------------------
(* The image, piece by piece.                                              *)

Opening == <<<<"SOI">>, <<"APP0">>>>
Closing == <<<<"EOI">>>>
FrameStart == <<<<"SOF">>>>
ScanStart(scan) == <<<<"SOS", scan>>>>
McusOf(scan) == [i \in Nat |-> ImageMcu(scan, Interval(scan), i - 1)]
ScansOf == [s \in Nat |-> ImageScan(Scans[s])]

(* The scans before scan s, and m MCUs of a scan.                          *)
Before(s) == (Opening ++ FrameStart) ++ Flat(ScansOf, s - 1)
Part(scan, m) == ScanStart(scan) ++ Flat(McusOf(scan), m)

(* The tokens of an MCU are no tables.                                     *)
LEMMA McuTokens ==
    ASSUME conf \in Configs, NEW scan, GoodScan(scan), NEW n, NEW m
    PROVE  /\ IsSeq(ImageMcu(scan, n, m)) /\ Data(ImageMcu(scan, n, m)) = ImageMcu(scan, n, m)
           /\ IsSeq(ImageBlocks(scan, n, m))
  <1>1. IsSeq(Places(scan))
    BY PlacesFlat
  <1>2. PICK l \in Nat : l = Len(Places(scan)) /\ DOMAIN Places(scan) = 1 .. l
    BY <1>1, SeqHas
  <1>3. PICK b : b = ImageBlocks(scan, n, m)
    OBVIOUS
  <1>4. IsList(b, l) /\ \A k \in 1 .. l : b[k][1] = "block"
    BY <1>2, <1>3 DEF ImageBlocks, IsList
  <1>5. IsSeq(b) /\ Len(b) = l
    BY <1>4, ListHas
  <1>6. \A k \in 1 .. Len(b) : ~IsTable(b[k])
    BY <1>4, <1>5 DEF IsTable
  <1>7. Data(b) = b
    BY <1>5, <1>6, DataAll
  <1>8. CASE RestartsAt(n, m)
    <2>1. PICK r : r = <<"RST", (m \div n - 1) % 8>>
      OBVIOUS
    <2>2. ImageMcu(scan, n, m) = <<r>> ++ b
      BY <1>3, <1>8, <2>1 DEF ImageMcu, ++
    <2>3. IsSeq(<<r>>) /\ Len(<<r>>) = 1 /\ <<r>>[1] = r
      BY SeqOne
    <2>4. \A k \in 1 .. Len(<<r>>) : ~IsTable(<<r>>[k])
      BY <2>1, <2>3 DEF IsTable
    <2>5. Data(<<r>>) = <<r>>
      BY <2>3, <2>4, DataAll
    <2> QED
      BY <1>3, <1>5, <1>7, <2>2, <2>3, <2>5, DataCat, CatLen
  <1>9. CASE ~RestartsAt(n, m)
    <2>1. ImageMcu(scan, n, m) = <<>> ++ b
      BY <1>3, <1>9 DEF ImageMcu, ++
    <2> QED
      BY <1>3, <1>5, <1>7, <2>1, CatEmpty
  <1> QED
    BY <1>8, <1>9

(* A scan is its header and its MCUs.                                      *)
LEMMA Parts ==
    ASSUME conf \in Configs, NEW scan, GoodScan(scan)
    PROVE  /\ \A m \in Nat : IsSeq(Flat(McusOf(scan), m)) /\ IsSeq(Part(scan, m))
           /\ \A m \in Nat : Part(scan, m + 1) = Part(scan, m) ++ ImageMcu(scan, Interval(scan), m)
           /\ \A m \in 0 .. Mcus(scan) : IsPrefix(Part(scan, m), Part(scan, Mcus(scan)))
           /\ Part(scan, 0) = ScanStart(scan)
           /\ ImageScan(scan) = Part(scan, Mcus(scan))
  <1>1. PICK f : f = McusOf(scan)
    OBVIOUS
  <1>2. PICK n : n = Interval(scan)
    OBVIOUS
  <1>3. \A i \in Nat : f[i] = ImageMcu(scan, n, i - 1)
    BY <1>1, <1>2 DEF McusOf
  <1>4. \A i \in Nat : IsSeq(f[i])
    BY <1>3, McuTokens
  <1>5. \A m \in Nat : IsSeq(Flat(f, m))
    <2> TAKE m \in Nat
    <2>1. \A i \in 1 .. m : IsSeq(f[i])
      BY <1>4
    <2> QED
      BY <2>1, FlatIsSeq
  <1>6. PICK h : h = ScanStart(scan) /\ IsSeq(h)
    BY SeqOne DEF ScanStart
  <1>7. \A m \in Nat : Part(scan, m) = h ++ Flat(f, m)
    BY <1>1, <1>6 DEF Part
  <1>8. \A m \in Nat : IsSeq(Part(scan, m))
    BY <1>5, <1>6, <1>7, CatLen
  <1>9. ASSUME NEW m \in Nat
        PROVE  Part(scan, m + 1) = Part(scan, m) ++ ImageMcu(scan, n, m)
    <2>1. m + 1 \in Nat /\ IsSeq(f[m + 1]) /\ f[m + 1] = ImageMcu(scan, n, m)
      BY <1>3, <1>4
    <2>2. Flat(f, m + 1) = Flat(f, m) ++ f[m + 1]
      BY <2>1, FlatNext
    <2> QED
      BY <1>5, <1>6, <1>7, <2>1, <2>2, CatAssoc
  <1>10. PICK t \in Nat : t = Mcus(scan)
    BY ScanHas
  <1>11. ASSUME NEW m \in 0 .. t
         PROVE  IsPrefix(Part(scan, m), Part(scan, t))
    <2>1. m \in Nat /\ m <= t /\ \A i \in 1 .. t : IsSeq(f[i])
      BY <1>4
    <2>2. IsPrefix(Flat(f, m), Flat(f, t))
      BY <2>1, FlatPrefix
    <2>3. PICK u : IsSeq(u) /\ Flat(f, t) = Flat(f, m) ++ u
      BY <1>5, <2>1, <2>2, PrefixHasRest
    <2>4. Part(scan, t) = Part(scan, m) ++ u
      BY <1>5, <1>6, <1>7, <2>1, <2>3, CatAssoc
    <2> QED
      BY <1>8, <2>1, <2>3, <2>4, PrefixOfCat
  <1>12. Part(scan, 0) = h
    BY <1>6, <1>7, FlatZero, CatEmpty
  <1>13. ImageScan(scan) = Part(scan, t)
    <2>1. \A i \in 1 .. t : f[i] = ImageMcu(scan, n, i - 1)
      BY <1>3
    <2>2. [i \in 1 .. t |-> f[i]] = [m \in 1 .. t |-> ImageMcu(scan, n, m - 1)]
      BY <2>1, Zenon
    <2>3. Flat(f, t) = FlattenSeq([m \in 1 .. t |-> ImageMcu(scan, n, m - 1)])
      BY <2>2, Zenon DEF Flat
    <2> QED
      BY <1>2, <1>6, <1>7, <1>10, <2>3 DEF ImageScan, ScanStart, ++
  <1> QED
    BY <1>1, <1>2, <1>5, <1>6, <1>8, <1>9, <1>10, <1>11, <1>12, <1>13

LEMMA PrefixCat ==
    ASSUME NEW s, NEW t, NEW u, IsSeq(s), IsSeq(t), IsSeq(u), IsPrefix(t, u)
    PROVE  IsPrefix(s ++ t, s ++ u)
  <1>1. PICK v : IsSeq(v) /\ u = t ++ v
    BY PrefixHasRest
  <1>2. s ++ u = (s ++ t) ++ v
    BY <1>1, CatAssoc
  <1>3. IsSeq(s ++ t)
    BY CatLen
  <1> QED
    BY <1>1, <1>2, <1>3, PrefixOfCat

LEMMA DataOfOne ==
    ASSUME NEW e, ~IsTable(e)
    PROVE  IsSeq(<<e>>) /\ Data(<<e>>) = <<e>>
  <1>1. IsSeq(<<e>>) /\ Len(<<e>>) = 1 /\ <<e>>[1] = e
    BY SeqOne
  <1>2. \A i \in 1 .. Len(<<e>>) : ~IsTable(<<e>>[i])
    BY <1>1
  <1> QED
    BY <1>1, <1>2, DataAll

(* The markers of the image are no tables.                                 *)
LEMMA Markers ==
    /\ IsSeq(Opening) /\ Data(Opening) = Opening
    /\ IsSeq(Closing) /\ Data(Closing) = Closing
    /\ IsSeq(FrameStart) /\ Data(FrameStart) = FrameStart
    /\ \A scan : IsSeq(ScanStart(scan)) /\ Data(ScanStart(scan)) = ScanStart(scan)
  <1>1. IsSeq(Opening) /\ Len(Opening) = 2 /\ Opening[1] = <<"SOI">> /\ Opening[2] = <<"APP0">>
    <2>1. Opening \in Seq({<<"SOI">>, <<"APP0">>})
      BY DEF Opening
    <2> QED
      BY <2>1 DEF Opening, IsSeq
  <1>2. \A i \in 1 .. Len(Opening) : ~IsTable(Opening[i])
    <2>1. \A i \in 1 .. Len(Opening) : i = 1 \/ i = 2
      BY <1>1
    <2>2. ~IsTable(<<"SOI">>) /\ ~IsTable(<<"APP0">>)
      BY DEF IsTable
    <2> QED
      BY <1>1, <2>1, <2>2
  <1>3. Data(Opening) = Opening
    BY <1>1, <1>2, DataAll
  <1>4. ~IsTable(<<"EOI">>) /\ ~IsTable(<<"SOF">>)
    BY DEF IsTable
  <1>5. \A scan : ~IsTable(<<"SOS", scan>>)
    BY DEF IsTable
  <1>6. /\ IsSeq(Closing) /\ Data(Closing) = Closing
        /\ IsSeq(FrameStart) /\ Data(FrameStart) = FrameStart
    BY <1>4, DataOfOne DEF Closing, FrameStart
  <1>7. \A scan : IsSeq(ScanStart(scan)) /\ Data(ScanStart(scan)) = ScanStart(scan)
    BY <1>5, DataOfOne DEF ScanStart
  <1> QED
    BY <1>1, <1>3, <1>6, <1>7

(* The image is its scans; what is written at any point is its beginning.  *)
LEMMA Pieces ==
    ASSUME conf \in Configs, ScriptIsValid
    PROVE  /\ \A s \in 1 .. Len(Scans) + 1 : IsSeq(Before(s)) /\ IsPrefix(Before(s), Image)
           /\ Before(1) = Opening ++ FrameStart
           /\ \A s \in 1 .. Len(Scans) : Before(s + 1) = Before(s) ++ Part(Scans[s], Mcus(Scans[s]))
           /\ Image = Before(Len(Scans) + 1) ++ Closing /\ IsSeq(Image)
           /\ IsPrefix(Opening, Image)
           /\ \A s \in 1 .. Len(Scans) : \A m \in 0 .. Mcus(Scans[s]) :
                  IsPrefix(Before(s) ++ Part(Scans[s], m), Image)
  <1>1. PICK n \in Nat \ {0} : n = Len(Scans) /\ DOMAIN Scans = 1 .. n
    BY ScansAre
  <1>2. \A s \in 1 .. n : GoodScan(Scans[s])
    BY <1>1, ScansAre
  <1>3. PICK f : f = ScansOf
    OBVIOUS
  <1>4. PICK P : P = [s \in 1 .. n |-> Part(Scans[s], Mcus(Scans[s]))]
    OBVIOUS
  <1>5. \A s \in 1 .. n : P[s] = Part(Scans[s], Mcus(Scans[s])) /\ Mcus(Scans[s]) \in Nat
    BY <1>2, <1>4, ScanHas
  <1>6. \A s \in 1 .. n : f[s] = P[s] /\ IsSeq(P[s])
    <2> TAKE s \in 1 .. n
    <2>1. f[s] = ImageScan(Scans[s])
      BY <1>3 DEF ScansOf
    <2>2. ImageScan(Scans[s]) = P[s]
      BY <1>2, <1>5, Parts
    <2> QED
      BY <1>2, <1>5, <2>1, <2>2, Parts
  <1>7. PICK h : h = Opening ++ FrameStart /\ IsSeq(h) /\ IsPrefix(Opening, h)
    BY Markers, CatLen, PrefixOfCat
  <1>8. \A s \in Nat : Before(s + 1) = h ++ Flat(f, s)
    <2> TAKE s \in Nat
    <2>1. (s + 1) - 1 = s
      OBVIOUS
    <2> QED
      BY <1>3, <1>7, <2>1 DEF Before
  <1>9. \A s \in 0 .. n : IsSeq(Flat(f, s))
    <2> TAKE s \in 0 .. n
    <2>1. s \in Nat /\ \A i \in 1 .. s : IsSeq(f[i])
      BY <1>6
    <2> QED
      BY <2>1, FlatIsSeq
  <1>10. \A s \in 0 .. n : IsSeq(Before(s + 1))
    <2> TAKE s \in 0 .. n
    <2>1. s \in Nat
      OBVIOUS
    <2> QED
      BY <1>7, <1>8, <1>9, <2>1, CatLen
  <1>11. \A s \in 1 .. n + 1 : s - 1 \in 0 .. n /\ (s - 1) + 1 = s
    OBVIOUS
  <1>12. \A s \in 1 .. n + 1 : IsSeq(Before(s))
    <2> TAKE s \in 1 .. n + 1
    <2>1. PICK r \in 0 .. n : r + 1 = s
      BY <1>11
    <2> QED
      BY <1>10, <2>1
  <1>13. Before(1) = h
    <2>1. Before(0 + 1) = h ++ Flat(f, 0)
      BY <1>8
    <2>2. 0 + 1 = 1
      OBVIOUS
    <2> QED
      BY <1>7, <2>1, <2>2, FlatZero, CatEmpty
  <1>14. \A s \in 1 .. n : Before(s + 1) = Before(s) ++ P[s]
    <2> TAKE s \in 1 .. n
    <2>1. PICK r \in 0 .. n : r = s - 1 /\ r + 1 = s /\ r \in Nat /\ s \in Nat /\ r + 1 \in 1 .. n
      OBVIOUS
    <2>2. Flat(f, r + 1) = Flat(f, r) ++ f[r + 1]
      BY <1>6, <2>1, FlatNext
    <2>3. Before(s + 1) = h ++ (Flat(f, r) ++ P[s]) /\ Before(r + 1) = h ++ Flat(f, r)
      BY <1>6, <1>8, <2>1, <2>2
    <2> QED
      BY <1>6, <1>7, <1>9, <2>1, <2>3, CatAssoc
  <1>15. \A r, s \in 0 .. n : r <= s => IsPrefix(Before(r + 1), Before(s + 1))
    <2> SUFFICES ASSUME NEW r \in 0 .. n, NEW s \in 0 .. n, r <= s
                 PROVE  IsPrefix(Before(r + 1), Before(s + 1))
      OBVIOUS
    <2>1. r \in Nat /\ s \in Nat /\ \A i \in 1 .. s : IsSeq(f[i])
      BY <1>6
    <2>2. IsPrefix(Flat(f, r), Flat(f, s))
      BY <2>1, FlatPrefix
    <2> QED
      BY <1>7, <1>8, <1>9, <2>1, <2>2, PrefixCat
  <1>16. Image = Before(n + 1) ++ Closing
    <2>1. [s \in 1 .. n |-> f[s]] = [s \in 1 .. n |-> ImageScan(Scans[s])]
      <3>1. \A s \in 1 .. n : f[s] = ImageScan(Scans[s])
        BY <1>3 DEF ScansOf
      <3> QED
        BY <3>1, Zenon
    <2>2. Flat(f, n) = FlattenSeq([s \in DOMAIN Scans |-> ImageScan(Scans[s])])
      BY <1>1, <2>1, Zenon DEF Flat
    <2>3. PICK g : g = Flat(f, n) /\ IsSeq(g)
      BY <1>9
    <2>4. <<<<"SOI">>, <<"APP0">>, <<"SOF">>>> = h
      BY <1>7 DEF Opening, FrameStart, ++
    <2>5. Image = (h \o g) \o Closing
      BY <2>2, <2>3, <2>4, Zenon DEF Image, Closing
    <2> QED
      BY <1>8, <2>3, <2>5, Zenon DEF ++
  <1>17. IsSeq(Image) /\ IsPrefix(Before(n + 1), Image)
    BY <1>1, <1>10, <1>16, Markers, CatLen, PrefixOfCat
  <1>18. \A s \in 1 .. n + 1 : IsPrefix(Before(s), Image)
    <2> TAKE s \in 1 .. n + 1
    <2>1. PICK r \in 0 .. n : r + 1 = s
      BY <1>11
    <2>2. n \in 0 .. n /\ r <= n
      OBVIOUS
    <2>3. IsPrefix(Before(s), Before(n + 1))
      BY <1>15, <2>1, <2>2
    <2> QED
      BY <1>10, <1>12, <1>17, <2>2, <2>3, PrefixPasses
  <1>19. IsPrefix(Opening, Image)
    <2>1. 1 \in 1 .. n + 1
      OBVIOUS
    <2>2. IsPrefix(h, Image)
      BY <1>13, <1>18, <2>1
    <2> QED
      BY <1>7, <1>17, <2>2, PrefixPasses, Markers
  <1>20. \A s \in 1 .. n : \A m \in 0 .. Mcus(Scans[s]) : IsPrefix(Before(s) ++ Part(Scans[s], m), Image)
    <2> SUFFICES ASSUME NEW s \in 1 .. n, NEW m \in 0 .. Mcus(Scans[s])
                 PROVE  IsPrefix(Before(s) ++ Part(Scans[s], m), Image)
      OBVIOUS
    <2>1. s \in 1 .. n + 1 /\ s + 1 \in 1 .. n + 1 /\ m \in Nat
      BY <1>5
    <2>2. IsPrefix(Part(Scans[s], m), P[s]) /\ IsSeq(Part(Scans[s], m))
      BY <1>2, <1>5, <2>1, Parts
    <2>3. IsPrefix(Before(s) ++ Part(Scans[s], m), Before(s + 1))
      BY <1>6, <1>12, <1>14, <2>1, <2>2, PrefixCat
    <2>4. IsSeq(Before(s) ++ Part(Scans[s], m))
      BY <1>12, <2>1, <2>2, CatLen
    <2> QED
      BY <1>12, <1>17, <1>18, <2>1, <2>3, <2>4, PrefixPasses
  <1> QED
    BY <1>1, <1>5, <1>7, <1>12, <1>13, <1>14, <1>16, <1>17, <1>18, <1>19, <1>20

LEMMA SameImage ==
    ASSUME conf' = conf
    PROVE  /\ \A scan, m : Part(scan, m)' = Part(scan, m)
           /\ \A s : Before(s)' = Before(s)
           /\ Image' = Image
  <1>1. \A scan : McusOf(scan)' = McusOf(scan)
    <2> TAKE scan
    <2>1. Interval(scan)' = Interval(scan)
      BY SameScan
    <2>2. \A n, m : ImageMcu(scan, n, m)' = ImageMcu(scan, n, m)
      BY SameMcu
    <2> QED
      BY <2>1, <2>2 DEF McusOf
  <1>2. \A scan, m : Part(scan, m)' = Part(scan, m)
    BY <1>1, Zenon DEF Part, Flat, ScanStart, ++
  <1>3. \A scan : ImageScan(scan)' = ImageScan(scan)
    <2> TAKE scan
    <2>1. Interval(scan)' = Interval(scan) /\ Mcus(scan)' = Mcus(scan)
      BY SameScan
    <2>2. \A n, m : ImageMcu(scan, n, m)' = ImageMcu(scan, n, m)
      BY SameMcu
    <2>3. [m \in 1 .. Mcus(scan) |-> ImageMcu(scan, Interval(scan), m - 1)]'
              = [m \in 1 .. Mcus(scan) |-> ImageMcu(scan, Interval(scan), m - 1)]
      BY <2>1, <2>2
    <2> QED
      BY <2>3, Zenon DEF ImageScan
  <1>4. Scans' = Scans
    BY SameScans
  <1>5. ScansOf' = ScansOf
    BY <1>3, <1>4 DEF ScansOf
  <1>6. \A s : Before(s)' = Before(s)
    BY <1>5, Zenon DEF Before, Flat, Opening, FrameStart, ++
  <1>7. [s \in DOMAIN Scans |-> ImageScan(Scans[s])]' = [s \in DOMAIN Scans |-> ImageScan(Scans[s])]
    BY <1>3, <1>4
  <1>8. Image' = Image
    BY <1>7, Zenon DEF Image
  <1> QED
    BY <1>2, <1>6, <1>8

-----------------------------------------------------------------------------
(* The inductive invariant.                                                *)

Busy == state \in {"RAW_OK", "SCANNING"}
InMain == call \in {"none", "main", "compress"}

(* What each variable ranges over, whatever a call is doing.               *)
Kinds ==
    /\ state \in {"START", "RAW_OK", "SCANNING", "exited"}
    /\ call \in {"none", "main", "compress", "passes", "pass"}
    /\ image \in Nat /\ line \in Int /\ interval \in Nat
    /\ master \in [type : {"main", "gather", "output"}, scan : Nat \ {0}, pass : 0 .. TotalPasses,
                   startup : BOOLEAN]
    /\ coef \in [row : 0 .. TotalRows, vert : Nat, mcu : Nat]
    /\ entropy = [toGo |-> entropy.toGo, next |-> entropy.next, dc |-> entropy.dc]
    /\ entropy.toGo \in 0 .. interval /\ entropy.next \in 0 .. 7

IoIs ==
    /\ io = [band |-> io.band, ctr |-> io.ctr, avail |-> io.avail, color |-> io.color,
             toGo |-> io.toGo, rows |-> io.rows, groups |-> io.groups, row |-> io.row,
             suspended |-> io.suspended]
    /\ io.band \in Nat /\ io.ctr \in Nat /\ io.avail \in Nat /\ io.toGo \in 0 .. conf.height
    /\ io.groups \in 0 .. D /\ io.row \in 0 .. TotalRows /\ io.suspended \in BOOLEAN
    /\ \A c \in Comps : IsList(io.rows[c], io.groups * V(c))

(* What a call is in follows from the pass.                                *)
Passes ==
    /\ ScriptIsValid /\ ~complete /\ image > 0
    /\ state = IF conf.raw THEN "RAW_OK" ELSE "SCANNING"
    /\ call = "main" => ~conf.raw
    /\ master.startup => call = "none" /\ ~conf.optimize /\ coef = CoefStart
    /\ InMain => master.type = "main" /\ master.scan = 1
    /\ ~InMain => master.type # "main" /\ master.pass > 0
    /\ call = "pass" => master.pass < TotalPasses
    /\ call = "compress" => coef.row < TotalRows
    /\ call = "passes" => coef.row = TotalRows
    /\ master.type = "gather" => conf.optimize
    /\ ~conf.optimize => master.pass = master.scan - 1
    /\ conf.optimize => master.pass = 2 * (master.scan - 1) + (IF master.type = "output" THEN 1 ELSE 0)

Control ==
    /\ ~Busy => call = "none"
    /\ state = "START" => buf = <<>>
    /\ Busy => Passes

Place ==
    Busy => IF coef.row < TotalRows THEN AtPlace(Scan, coef.row, coef.vert, coef.mcu)
            ELSE coef.vert = 0 /\ coef.mcu = 0

(* The lines of the color buffer.                                          *)
Color(n, from) == [i \in 1 .. n |-> from + i]

(* Each line is in the color buffer, in a row group of the main buffer, or *)
(* in the iMCU rows done; a call that was suspended reads its last again.  *)
Taken == conf.height - io.toGo

LinesRead ==
    /\ line + (IF io.suspended THEN 1 ELSE 0) + (IF call = "none" THEN 0 ELSE io.ctr) = Taken
    /\ call # "none" => line + io.avail <= conf.height /\ io.ctr <= io.avail
    /\ io.suspended => io.groups = D /\ (call # "none" => io.ctr < io.avail)
    /\ call = "none" /\ io.groups = D => io.suspended
    /\ call = "compress" => io.groups = D

LinesDone ==
    /\ io.row = coef.row
    /\ io.row = TotalRows => io.toGo = 0 /\ io.groups = 0
    /\ io.row < TotalRows /\ io.toGo = 0 => io.row = TotalRows - 1 /\ io.groups = D
    /\ io.toGo > 0 => \E n \in 0 .. MaxV - 1 : \E g \in Nat :
                         /\ g = io.row * D + io.groups
                         /\ Taken = g * MaxV + n /\ io.color = Color(n, g * MaxV)

RowsRight ==
    \A c \in Comps : \A y \in 0 .. io.groups * V(c) - 1 :
        io.rows[c][y + 1] = ImageRow(c, io.row * V(c) * D + y)

Lines ==
    Busy /\ InMain =>
        IF conf.raw THEN line = io.band * (MaxV * D) /\ io.band = coef.row
        ELSE LinesRead /\ LinesDone /\ RowsRight

WholeInv ==
    Busy /\ FullBuffer => Filled(IF ~InMain THEN TotalRows
                                 ELSE IF call = "compress" THEN coef.row + 1 ELSE coef.row)

(* The MCUs of the scan that are done.                                     *)
Done == IF coef.row = TotalRows THEN Mcus(Scan) ELSE Index(Scan, coef.row, coef.vert, coef.mcu)

Coder ==
    /\ Busy /\ call # "passes" =>
         /\ interval = Interval(Scan) /\ entropy.toGo = ToGoAt(interval, Done)
         /\ ~Gathering => entropy.next = NextAt(interval, Done)
         /\ DCsAre(Scan, Done, entropy.dc)
    /\ Busy /\ call = "passes" /\ conf.optimize /\ ~Gathering => interval = Interval(Scan)

HeaderOut == ~master.startup /\ ~Gathering /\ call # "passes"
Output ==
    Busy => Data(Stream) = IF HeaderOut THEN Before(master.scan) ++ Part(Scan, Done)
                           ELSE IF master.scan = 1 THEN Opening ELSE Before(master.scan)

Ended ==
    ~Busy /\ image > 0 => /\ IsPrefix(Data(Stream), Image)
                          /\ complete => Data(Stream) = Image

Inv == /\ OutTypes /\ Kinds /\ IoIs /\ Control /\ Place /\ Lines /\ WholeInv
       /\ Coder /\ Output /\ Ended

-----------------------------------------------------------------------------
(* What the invariant says in a pass, and what it needs to stay true.      *)

LEMMA RowsCount ==
    ASSUME conf \in Configs
    PROVE  TotalRows \in Nat \ {0}
  <1>1. PICK n \in Nat \ {0} : Comps = 1 .. n
    BY CompsAre
  <1>2. 1 \in Comps
    BY <1>1
  <1> QED
    BY <1>2, HeightIs

LEMMA ScanIs ==
    ASSUME conf \in Configs, Kinds, Passes
    PROVE  /\ master.scan \in 1 .. Len(Scans) + 1 /\ Len(Scans) \in Nat \ {0}
           /\ call # "passes" => master.pass < TotalPasses
           /\ master.pass < TotalPasses => master.scan \in 1 .. Len(Scans) /\ GoodScan(Scan)
           /\ master.pass = TotalPasses => master.scan = Len(Scans) + 1 /\ master.type # "main"
                                           /\ (conf.optimize => master.type = "gather")
  <1>1. PICK n \in Nat \ {0} : n = Len(Scans)
    BY ScansAre DEF Passes
  <1>2. TotalPasses = IF conf.optimize THEN 2 * n ELSE n
    BY <1>1 DEF TotalPasses
  <1>3. /\ master.scan \in Nat \ {0} /\ master.pass \in 0 .. TotalPasses
        /\ master.type \in {"main", "gather", "output"}
    BY DEF Kinds
  <1>4. conf.optimize \in BOOLEAN
    BY ConfigIs
  <1>5. master.scan \in 1 .. n + 1
    <2>1. CASE conf.optimize
      BY <1>2, <1>3, <2>1 DEF Passes
    <2>2. CASE ~conf.optimize
      BY <1>2, <1>3, <2>2 DEF Passes
    <2> QED
      BY <2>1, <2>2
  <1>6. InMain => master.pass = 0 /\ master.scan = 1
    BY DEF Passes
  <1>7. call # "passes" => master.pass < TotalPasses
    <2>1. call \in {"none", "main", "compress", "passes", "pass"}
      BY DEF Kinds
    <2>2. TotalPasses > 0
      BY <1>2, <1>4
    <2> QED
      BY <1>3, <1>6, <2>1, <2>2 DEF Passes, InMain
  <1>8. ASSUME master.pass < TotalPasses
        PROVE  master.scan \in 1 .. n
    <2>1. CASE conf.optimize
      BY <1>2, <1>3, <1>8, <2>1 DEF Passes
    <2>2. CASE ~conf.optimize
      BY <1>2, <1>3, <1>8, <2>2 DEF Passes
    <2> QED
      BY <2>1, <2>2
  <1>9. ASSUME master.scan \in 1 .. n
        PROVE  GoodScan(Scan)
    BY <1>1, <1>9, ScansAre DEF Scan, Passes
  <1>10. ASSUME master.pass = TotalPasses
         PROVE  /\ master.scan = n + 1 /\ master.type # "main"
                /\ conf.optimize => master.type = "gather"
    <2>1. CASE conf.optimize
      <3>1. master.pass = 2 * n
        BY <1>2, <1>10, <2>1
      <3>2. master.type # "output"
        BY <1>3, <2>1, <3>1 DEF Passes
      <3>3. master.scan = n + 1
        BY <1>3, <2>1, <3>1, <3>2 DEF Passes
      <3> QED
        BY <1>3, <1>6, <3>2, <3>3 DEF Passes
    <2>2. CASE ~conf.optimize
      <3>1. master.scan = n + 1
        BY <1>2, <1>3, <1>10, <2>2 DEF Passes
      <3> QED
        BY <1>6, <2>2, <3>1 DEF Passes
    <2> QED
      BY <2>1, <2>2
  <1> QED
    BY <1>1, <1>5, <1>7, <1>8, <1>9, <1>10

(* The MCU that is coded next, when one is.                                *)
LEMMA DoneIs ==
    ASSUME conf \in Configs, Kinds, Passes, Place, Busy, GoodScan(Scan)
    PROVE  /\ Done \in 0 .. Mcus(Scan) /\ Mcus(Scan) \in Nat \ {0}
           /\ coef.row < TotalRows => AtPlace(Scan, coef.row, coef.vert, coef.mcu)
           /\ coef.row < TotalRows => Done = Index(Scan, coef.row, coef.vert, coef.mcu)
           /\ coef.row < TotalRows => Done \in 0 .. Mcus(Scan) - 1
           /\ coef.row = TotalRows => Done = Mcus(Scan)
           /\ coef.row \in 0 .. TotalRows /\ TotalRows \in Nat \ {0}
           /\ CoefTypes
  <1>1. TotalRows \in Nat \ {0}
    BY RowsCount
  <1>2. coef.row \in 0 .. TotalRows /\ CoefTypes
    BY DEF Kinds, CoefTypes
  <1>3. coef.row < TotalRows \/ coef.row = TotalRows
    BY <1>1, <1>2
  <1>4. Mcus(Scan) \in Nat \ {0}
    BY ScanHas
  <1>5. ASSUME coef.row < TotalRows
        PROVE  /\ AtPlace(Scan, coef.row, coef.vert, coef.mcu)
               /\ Done = Index(Scan, coef.row, coef.vert, coef.mcu)
               /\ Done \in 0 .. Mcus(Scan) - 1
    <2>1. AtPlace(Scan, coef.row, coef.vert, coef.mcu)
      BY <1>5 DEF Place
    <2>2. Done = Index(Scan, coef.row, coef.vert, coef.mcu)
      BY <1>1, <1>2, <1>5 DEF Done
    <2> QED
      BY <2>1, <2>2, IndexIs
  <1>6. coef.row = TotalRows => Done = Mcus(Scan)
    BY DEF Done
  <1> QED
    BY <1>1, <1>2, <1>3, <1>4, <1>5, <1>6

(* At the start of a pass no MCU is done.                                  *)
LEMMA DoneNone ==
    ASSUME conf \in Configs, NEW scan, GoodScan(scan)
    PROVE  /\ AtPlace(scan, 0, 0, 0) /\ Index(scan, 0, 0, 0) = 0 /\ TotalRows \in Nat \ {0}
           /\ DCsAre(scan, 0, NoDCs)
           /\ \A n \in Nat : ToGoAt(n, 0) = n /\ NextAt(n, 0) = 0
  <1>1. PICK wide : wide = McusPerRow(scan) /\ wide \in Nat \ {0}
    BY ScanHas
  <1>2. TotalRows \in Nat \ {0}
    BY RowsCount
  <1>3. 0 \in 0 .. TotalRows - 1
    BY <1>2
  <1>4. McuRows(scan, 0) \in Nat \ {0}
    BY <1>3, RowsAre
  <1>5. AtPlace(scan, 0, 0, 0)
    BY <1>1, <1>3, <1>4 DEF AtPlace
  <1>6. RowBase(scan, 0) = 0
    <2>1. Len(scan) \in Nat \ {0} /\ \A i \in 1 .. Len(scan) : scan[i] \in Comps
      BY ScanHas DEF GoodScan
    <2>2. V(scan[1]) \in Nat
      BY <2>1, CompsAre
    <2> QED
      BY <2>2 DEF RowBase
  <1>7. Index(scan, 0, 0, 0) = 0
    BY <1>1, <1>6 DEF Index
  <1>8. DCsAre(scan, 0, NoDCs)
    <2>1. \A k \in 1 .. Len(Places(scan)) : Places(scan)[k].c \in Comps
      <3> TAKE k \in 1 .. Len(Places(scan))
      <3>1. PICK base, c, w, h : PlaceIs(scan, k, base, c, w, h)
        BY PlacesAre
      <3>2. PICK p : p = Places(scan)[k]
        OBVIOUS
      <3>3. p.c = c
        BY <3>1, <3>2, PlaceBefore
      <3> QED
        BY <3>1, <3>2, <3>3 DEF PlaceIs
    <2> QED
      BY <2>1 DEF DCsAre, NoDCs
  <1>9. \A n \in Nat : ToGoAt(n, 0) = n /\ NextAt(n, 0) = 0
    BY DEF ToGoAt, NextAt
  <1> QED
    BY <1>2, <1>5, <1>7, <1>8, <1>9

(* What is written is the beginning of the image.                          *)
LEMMA OutputIs ==
    ASSUME Inv, Busy
    PROVE  IsPrefix(Data(Stream), Image) /\ IsSeq(Data(Stream))
  <1>1. conf \in Configs /\ Kinds /\ Passes /\ ScriptIsValid /\ Place
    BY DEF Inv, OutTypes, Control, Passes
  <1>2. IsSeq(Data(Stream))
    BY StreamIsSeq, DataIsFlat DEF Inv
  <1>3. master.scan \in 1 .. Len(Scans) + 1
    BY <1>1, ScanIs
  <1>4. CASE HeaderOut
    <2>1. master.scan \in 1 .. Len(Scans) /\ GoodScan(Scan)
      BY <1>1, <1>4, ScanIs DEF HeaderOut
    <2>2. Done \in 0 .. Mcus(Scan)
      BY <1>1, <2>1, DoneIs
    <2>3. IsPrefix(Before(master.scan) ++ Part(Scans[master.scan], Done), Image)
      <3>1. \A s \in 1 .. Len(Scans) : \A m \in 0 .. Mcus(Scans[s]) :
                  IsPrefix(Before(s) ++ Part(Scans[s], m), Image)
        BY <1>1, Pieces
      <3>2. Done \in 0 .. Mcus(Scans[master.scan])
        BY <2>2 DEF Scan
      <3> QED
        BY <2>1, <3>1, <3>2
    <2>4. Data(Stream) = Before(master.scan) ++ Part(Scans[master.scan], Done)
      BY <1>4 DEF Inv, Output, Scan
    <2> QED
      BY <1>2, <2>3, <2>4
  <1>5. CASE ~HeaderOut
    <2>1. Data(Stream) \in {Opening, Before(master.scan)}
      BY <1>5 DEF Inv, Output
    <2>2. IsPrefix(Opening, Image) /\ IsPrefix(Before(master.scan), Image)
      BY <1>1, <1>3, Pieces
    <2> QED
      BY <1>2, <2>1, <2>2
  <1> QED
    BY <1>4, <1>5

(* When the image ends, what is written of it must be right.               *)
LEMMA EndKeeps ==
    ASSUME Inv, OutTypes', state' \in {"START", "exited"}, state' = "START" => buf' = <<>>, call' = "none",
           UNCHANGED <<clientVars, passVars>>,
           image > 0 => IsPrefix(Data(Stream'), Image) /\ (complete' => Data(Stream') = Image)
    PROVE  Inv'
  <1>1. /\ conf' = conf /\ image' = image /\ line' = line /\ io' = io /\ master' = master
        /\ coef' = coef /\ whole' = whole /\ entropy' = entropy /\ interval' = interval
    BY DEF clientVars, passVars
  <1>2. ~Busy'
    BY DEF Busy
  <1>3. TotalRows' = TotalRows /\ TotalPasses' = TotalPasses
    BY <1>1, SameSizes, SameScans
  <1>4. Kinds'
    BY <1>1, <1>3 DEF Inv, Kinds
  <1>5. IoIs'
    <2>1. \A c : Comps' = Comps /\ V(c)' = V(c)
      BY <1>1, SameSizes
    <2>2. \A c \in Comps : IsList(io.rows[c], io.groups * V(c))
      BY DEF Inv, IoIs
    <2>3. (\A c \in Comps : IsList(io.rows[c], io.groups * V(c)))'
      BY <1>1, <2>1, <2>2 DEF IsList
    <2> QED
      BY <1>1, <1>3, <2>3 DEF Inv, IoIs
  <1>6. Control' /\ Place' /\ Lines' /\ WholeInv' /\ Coder' /\ Output'
    BY <1>2 DEF Control, Place, Lines, WholeInv, Coder, Output
  <1>7. Ended'
    <2>1. Image' = Image
      BY <1>1, SameImage
    <2>2. Data(Stream)' = Data(Stream')
      BY DEF Data, IsTable
    <2> QED
      BY <1>1, <2>1, <2>2 DEF Ended, IsPrefix
  <1> QED
    BY <1>4, <1>5, <1>6, <1>7 DEF Inv

(* When the program exits it keeps what is in the file.                    *)
LEMMA ExitKeeps ==
    ASSUME Inv, OutTypes', state' = "exited", call' = "none",
           UNCHANGED <<clientVars, passVars, tableVars, historyVars>>,
           image > 0 => IsPrefix(Data(Stream'), Image) /\ (complete => Data(Stream') = Image)
    PROVE  Inv'
  <1>1. complete' = complete /\ UNCHANGED <<clientVars, passVars>> /\ state' # "START"
    BY DEF historyVars
  <1> QED
    BY <1>1, EndKeeps

(* Whatever of the tokens a failure leaves in the file.                    *)
LEMMA FailsKeeps ==
    ASSUME Inv, Busy, NEW tokens, IsSeq(tokens), NEW n \in Nat, n <= Len(buf ++ tokens) + 1,
           FailsWithin(tokens, n), IsPrefix(Data(Stream ++ tokens), Image), IsSeq(Image)
    PROVE  Inv'
  <1>1. OutTypes /\ ~complete
    BY DEF Inv, Control, Passes
  <1>2. OutTypes' /\ IsSeq(Stream') /\ IsPrefix(Stream', Stream ++ tokens)
    BY <1>1, Fails
  <1>3. PICK s, t : /\ s = Stream' /\ IsSeq(s) /\ t = Stream ++ tokens /\ IsSeq(t)
                    /\ IsPrefix(s, t)
    BY <1>1, <1>2, StreamIsSeq, CatLen
  <1>4. IsPrefix(Data(s), Data(t)) /\ IsSeq(Data(s)) /\ IsSeq(Data(t))
    BY <1>3, DataPrefix, DataIsFlat
  <1>5. IsPrefix(Data(t), Image)
    BY <1>3
  <1>6. IsPrefix(Data(s), Image)
    BY <1>4, <1>5, PrefixPasses
  <1>7. /\ state' = "exited" /\ call' = "none"
        /\ UNCHANGED <<clientVars, passVars, tableVars, historyVars>>
    BY DEF FailsWithin, Exits
  <1> QED
    BY <1>1, <1>2, <1>3, <1>6, <1>7, ExitKeeps

-----------------------------------------------------------------------------
(* Headers.                                                                *)

LEMMA OnceEachIs ==
    ASSUME NEW tables, IsSeq(tables)
    PROVE  IsSeq(OnceEach(tables))
  <1> DEFINE f == [i \in 1 .. Len(tables) |->
                      IF tables[i] \notin sent /\ \A j \in 1 .. i - 1 : tables[j] # tables[i]
                      THEN <<tables[i]>> ELSE <<>>]
  <1>1. DOMAIN tables = 1 .. Len(tables) /\ Len(tables) \in Nat
    BY SeqHas
  <1>2. \A i \in 1 .. Len(tables) : IsSeq(f[i])
    <2> TAKE i \in 1 .. Len(tables)
    <2>1. f[i] = <<tables[i]>> \/ f[i] = <<>>
      OBVIOUS
    <2> QED
      BY <2>1, SeqOne, SeqNone
  <1>3. OnceEach(tables) = FlattenSeq(f)
    BY <1>1, Zenon DEF OnceEach
  <1>4. PICK g : g = f
    OBVIOUS
  <1>5. [i \in 1 .. Len(tables) |-> g[i]] = f
    BY <1>4
  <1>6. OnceEach(tables) = Flat(g, Len(tables))
    BY <1>3, <1>5, Zenon DEF Flat
  <1> QED
    BY <1>1, <1>2, <1>4, <1>6, FlatIsSeq

LEMMA HuffTablesAre ==
    ASSUME NEW scan, GoodScan(scan)
    PROVE  IsSeq(HuffTables(scan))
  <1>1. Len(scan) \in Nat /\ DOMAIN scan = 1 .. Len(scan)
    BY DEF GoodScan
  <1>2. PICK g : g = [i \in 1 .. Len(scan) |-> <<<<"DC", conf.comps[scan[i]].dc>>,
                                               <<"AC", conf.comps[scan[i]].ac>>>>]
    OBVIOUS
  <1>3. \A i \in 1 .. Len(scan) : IsSeq(g[i])
    <2> TAKE i \in 1 .. Len(scan)
    <2>1. PICK a, b : a = <<"DC", conf.comps[scan[i]].dc>> /\ b = <<"AC", conf.comps[scan[i]].ac>>
      OBVIOUS
    <2>2. g[i] = <<a, b>>
      BY <1>2, <2>1
    <2>3. <<a, b>> \in Seq({a, b})
      OBVIOUS
    <2> QED
      BY <2>2, <2>3 DEF IsSeq
  <1>4. [i \in 1 .. Len(scan) |-> g[i]] = g
    BY <1>2
  <1>5. HuffTables(scan) = Flat(g, Len(scan))
    BY <1>1, <1>2, <1>4, Zenon DEF HuffTables, Flat
  <1> QED
    BY <1>1, <1>3, <1>5, FlatIsSeq

(* Of the headers, the tables and the interval are no data.                *)
LEMMA TablesAre ==
    ASSUME NEW q, IsSeq(q), NEW s, s = [i \in DOMAIN q |-> Dqt(q[i])] \/ s = [i \in DOMAIN q |-> Dht(q[i])]
    PROVE  IsSeq(s) /\ Data(s) = <<>>
  <1>1. DOMAIN q = 1 .. Len(q) /\ Len(q) \in Nat
    BY SeqHas
  <1>2. IsList(s, Len(q)) /\ \A i \in 1 .. Len(q) : s[i] = Dqt(q[i]) \/ s[i] = Dht(q[i])
    BY <1>1 DEF IsList
  <1>3. IsSeq(s) /\ Len(s) = Len(q)
    BY <1>1, <1>2, ListHas
  <1>4. \A t : IsTable(Dqt(t)) /\ IsTable(Dht(t))
    BY DEF IsTable, Dqt, Dht
  <1> QED
    BY <1>2, <1>3, <1>4, DataNone

LEMMA DriIs ==
    ASSUME NEW n
    PROVE  IsSeq(Dri(n)) /\ Data(Dri(n)) = <<>>
  <1>1. CASE n # lastDRI
    <2> DEFINE d == <<"DRI", n>>
    <2>1. IsTable(d)
      BY DEF IsTable
    <2>2. Dri(n) = <<d>>
      BY <1>1 DEF Dri
    <2> HIDE DEF d
    <2>3. IsSeq(<<d>>) /\ Len(<<d>>) = 1 /\ <<d>>[1] = d
      BY SeqOne
    <2>4. \A i \in 1 .. Len(<<d>>) : IsTable(<<d>>[i])
      BY <2>1, <2>3
    <2> QED
      BY <2>2, <2>3, <2>4, DataNone
  <1>2. CASE n = lastDRI
    <2>1. Dri(n) = <<>>
      BY <1>2 DEF Dri
    <2>2. \A i \in 1 .. Len(<<>>) : IsTable(<<>>[i])
      BY SeqNone
    <2> QED
      BY <2>1, <2>2, SeqNone, DataNone
  <1> QED
    BY <1>1, <1>2

LEMMA DataEmpty == Data(<<>>) = <<>>
  <1>1. \A i \in 1 .. Len(<<>>) : IsTable(<<>>[i])
    BY SeqNone
  <1> QED
    BY <1>1, SeqNone, DataNone

LEMMA HeaderIs ==
    ASSUME conf \in Configs, NEW scan, GoodScan(scan), NEW n
    PROVE  /\ IsSeq(Header(scan, n))
           /\ Data(Header(scan, n)) = (IF master.scan = 1 THEN FrameStart ELSE <<>>) ++ ScanStart(scan)
  <1>1. IsSeq(HuffHeader(scan)) /\ Data(HuffHeader(scan)) = <<>>
    <2>1. PICK q : q = OnceEach(HuffTables(scan)) /\ IsSeq(q)
      BY HuffTablesAre, OnceEachIs
    <2>2. HuffHeader(scan) = [i \in DOMAIN q |-> Dht(q[i])]
      BY <2>1 DEF HuffHeader
    <2> QED
      BY <2>1, <2>2, TablesAre
  <1>2. PICK a, b, c : /\ a = HuffHeader(scan) /\ IsSeq(a) /\ Data(a) = <<>>
                       /\ b = Dri(n) /\ IsSeq(b) /\ Data(b) = <<>>
                       /\ c = ScanStart(scan) /\ IsSeq(c) /\ Data(c) = c
    BY <1>1, DriIs, Markers
  <1>3. PICK h : h = (a ++ b) ++ c
    OBVIOUS
  <1>4. IsSeq(a ++ b) /\ Data(a ++ b) = <<>>
    <2>1. Data(a ++ b) = <<>> ++ <<>>
      BY <1>2, DataCat
    <2>2. <<>> ++ <<>> = <<>>
      BY SeqNone, CatEmpty
    <2> QED
      BY <1>2, <2>1, <2>2, CatLen
  <1>5. IsSeq(h) /\ Data(h) = c
    <2>1. Data(h) = <<>> ++ c
      BY <1>2, <1>3, <1>4, DataCat
    <2> QED
      BY <1>2, <1>3, <1>4, <2>1, CatLen, CatEmpty
  <1>6. ScanHeader(scan, n) = h
    BY <1>2, <1>3, Zenon DEF ScanHeader, ScanStart, ++
  <1>7. CASE master.scan = 1
    <2>1. PICK m \in Nat \ {0} : Comps = 1 .. m
      BY CompsAre
    <2>2. IsList(QuantTables, m)
      BY <2>1 DEF QuantTables, IsList
    <2>3. PICK q : q = OnceEach(QuantTables) /\ IsSeq(q)
      BY <2>1, <2>2, ListIsSeq, OnceEachIs
    <2>4. PICK s : s = [i \in DOMAIN q |-> Dqt(q[i])] /\ IsSeq(s) /\ Data(s) = <<>>
      BY <2>3, TablesAre
    <2>5. FrameHeader = s ++ FrameStart
      BY <2>3, <2>4, Zenon DEF FrameHeader, FrameStart, ++
    <2>6. IsSeq(s ++ FrameStart) /\ Data(s ++ FrameStart) = FrameStart
      <3>1. Data(s ++ FrameStart) = <<>> ++ FrameStart
        BY <2>4, Markers, DataCat
      <3> QED
        BY <2>4, <3>1, Markers, CatLen, CatEmpty
    <2>7. Header(scan, n) = (s ++ FrameStart) ++ h
      BY <1>6, <1>7, <2>5, Zenon DEF Header, ++
    <2>8. Data(Header(scan, n)) = FrameStart ++ c /\ IsSeq(Header(scan, n))
      BY <1>5, <2>6, <2>7, DataCat, CatLen
    <2> QED
      BY <1>2, <1>7, <2>8
  <1>8. CASE master.scan # 1
    <2>1. Header(scan, n) = <<>> ++ h
      BY <1>6, <1>8, Zenon DEF Header, ++
    <2>2. Header(scan, n) = h /\ <<>> ++ c = c
      BY <1>2, <1>5, <2>1, CatEmpty
    <2> QED
      BY <1>2, <1>5, <1>8, <2>2
  <1> QED
    BY <1>7, <1>8

(* The header that comes next is written.                                  *)
LEMMA HeaderNext ==
    ASSUME conf \in Configs, ScriptIsValid, master.scan \in 1 .. Len(Scans), IsSeq(Stream), NEW n,
           Data(Stream) = IF master.scan = 1 THEN Opening ELSE Before(master.scan)
    PROVE  /\ IsSeq(Header(Scan, n)) /\ GoodScan(Scan)
           /\ Data(Stream ++ Header(Scan, n)) = Before(master.scan) ++ Part(Scan, 0)
           /\ IsPrefix(Data(Stream ++ Header(Scan, n)), Image) /\ IsSeq(Image)
  <1>1. GoodScan(Scan)
    BY ScansAre DEF Scan
  <1>2. PICK h, u, b : /\ h = Header(Scan, n) /\ IsSeq(h)
                       /\ u = ScanStart(Scan) /\ IsSeq(u) /\ b = Before(master.scan)
                       /\ Data(h) = (IF master.scan = 1 THEN FrameStart ELSE <<>>) ++ u
    BY <1>1, HeaderIs, Markers
  <1>3. Data(Stream ++ h) = Data(Stream) ++ Data(h)
    BY <1>2, DataCat
  <1>4. Part(Scan, 0) = u
    BY <1>1, <1>2, Parts
  <1>5. Data(Stream ++ h) = b ++ u
    <2>1. CASE master.scan = 1
      <3>1. b = Opening ++ FrameStart
        BY <1>2, <2>1, Pieces
      <3> QED
        BY <1>2, <1>3, <2>1, <3>1, Markers, CatAssoc
    <2>2. CASE master.scan # 1
      BY <1>2, <1>3, <2>2, CatEmpty
    <2> QED
      BY <2>1, <2>2
  <1>6. 0 \in 0 .. Mcus(Scan)
    BY <1>1, ScanHas
  <1>7. IsPrefix(b ++ Part(Scan, 0), Image) /\ IsSeq(Image)
    <2>1. \A s \in 1 .. Len(Scans) : \A m \in 0 .. Mcus(Scans[s]) :
                  IsPrefix(Before(s) ++ Part(Scans[s], m), Image)
      BY Pieces
    <2>2. IsPrefix(Before(master.scan) ++ Part(Scans[master.scan], 0), Image)
      BY <1>6, <2>1 DEF Scan
    <2> QED
      BY <1>2, <2>2, Pieces DEF Scan
  <1> QED
    BY <1>1, <1>2, <1>4, <1>5, <1>7

-----------------------------------------------------------------------------
(* A call begins, and an iMCU row is ready.                                *)

LEMMA SameDone ==
    ASSUME conf' = conf, coef' = coef, master'.scan = master.scan
    PROVE  Scan' = Scan /\ Done' = Done
  <1>1. Scan' = Scan
    <2>1. Scans' = Scans
      BY SameScans
    <2> QED
      BY <2>1 DEF Scan
  <1>2. TotalRows' = TotalRows
    BY SameSizes
  <1>3. PICK scan : scan = Scan
    OBVIOUS
  <1>4. /\ Mcus(scan)' = Mcus(scan)
        /\ \A row, vert, mcu : Index(scan, row, vert, mcu)' = Index(scan, row, vert, mcu)
    BY SameScan, SamePlaces
  <1>5. Done' = Done
    BY <1>1, <1>2, <1>3, <1>4 DEF Done
  <1> QED
    BY <1>1, <1>5

(* A call for data goes on with the passes and the MCUs done as they are.  *)
LEMMA CallGoesOn ==
    ASSUME Inv, Busy, InMain, InMain', line' \in Int,
           call' = "main" => ~conf.raw, call' = "compress" => coef.row < TotalRows,
           UNCHANGED <<conf, state, image, coef, entropy, interval, historyVars>>,
           master' = [master EXCEPT !.startup = FALSE]
    PROVE  /\ Kinds' /\ Control' /\ Place' /\ Coder' /\ Ended'
           /\ master'.type = master.type /\ master'.scan = master.scan /\ master'.startup = FALSE
           /\ Scan' = Scan /\ Done' = Done /\ (Gathering' <=> Gathering)
  <1>1. conf \in Configs /\ Kinds /\ Passes /\ Place /\ Coder
    BY DEF Inv, OutTypes, Control, Passes
  <1>2. /\ Busy' /\ state' # "START" /\ complete' = complete
        /\ call # "passes" /\ call' # "passes" /\ call' # "pass"
    BY DEF InMain, Busy, historyVars
  <1>3. /\ master' \in [type : {"main", "gather", "output"}, scan : Nat \ {0}, pass : 0 .. TotalPasses,
                        startup : BOOLEAN]
        /\ master'.type = master.type /\ master'.scan = master.scan /\ master'.pass = master.pass
        /\ master'.startup = FALSE
    BY <1>1 DEF Kinds
  <1>4. TotalRows' = TotalRows /\ TotalPasses' = TotalPasses
    BY SameSizes, SameScans
  <1>5. Scan' = Scan /\ Done' = Done
    BY <1>3, SameDone
  <1>6. Kinds'
    <2>1. call' \in {"none", "main", "compress", "passes", "pass"}
      BY DEF InMain
    <2> QED
      BY <1>1, <1>3, <1>4, <2>1 DEF Kinds
  <1>7. Passes'
    <2>1. ScriptIsValid'
      BY <1>1, SameScans DEF Passes
    <2> QED
      BY <1>1, <1>2, <1>3, <1>4, <2>1 DEF Passes
  <1>8. Control' /\ Ended'
    BY <1>2, <1>7 DEF Control, Ended
  <1>9. PICK scan : scan = Scan
    OBVIOUS
  <1>10. Place'
    <2>1. \A row, vert, mcu : AtPlace(scan, row, vert, mcu)' <=> AtPlace(scan, row, vert, mcu)
      BY SamePlaces
    <2> QED
      BY <1>1, <1>4, <1>5, <1>9, <2>1 DEF Place
  <1>11. Gathering' <=> Gathering
    BY <1>3 DEF Gathering
  <1>12. Coder'
    <2>1. \A m, dc : DCsAre(scan, m, dc)' <=> DCsAre(scan, m, dc)
      BY SamePlaces
    <2>2. Interval(scan)' = Interval(scan)
      BY SameScan
    <2>3. /\ interval = Interval(scan) /\ entropy.toGo = ToGoAt(interval, Done)
          /\ ~Gathering => entropy.next = NextAt(interval, Done)
          /\ DCsAre(scan, Done, entropy.dc)
      BY <1>1, <1>2, <1>9 DEF Coder
    <2>4. interval' = interval /\ entropy' = entropy
      OBVIOUS
    <2>5. (DCsAre(Scan, Done, entropy.dc))'
      BY <1>5, <1>9, <2>1, <2>3, <2>4
    <2>6. interval' = Interval(Scan)'
      BY <1>5, <1>9, <2>2, <2>3, <2>4
    <2>7. /\ ToGoAt(interval, Done)' = ToGoAt(interval, Done)
          /\ NextAt(interval, Done)' = NextAt(interval, Done)
      BY <1>5, <2>4 DEF ToGoAt, NextAt
    <2> QED
      BY <1>2, <1>11, <2>3, <2>4, <2>5, <2>6, <2>7 DEF Coder
  <1> QED
    BY <1>3, <1>5, <1>6, <1>8, <1>10, <1>11, <1>12

LEMMA OutputKept ==
    ASSUME Inv, Busy, call' = "passes" <=> call = "passes", state' = state,
           UNCHANGED <<conf, master, coef>>, Stream' = Stream
    PROVE  Output'
  <1>1. Scan' = Scan /\ Done' = Done
    BY SameDone
  <1>2. /\ \A scan, m : Part(scan, m)' = Part(scan, m)
        /\ \A s : Before(s)' = Before(s)
    BY SameImage
  <1>3. Before(master.scan)' = Before(master.scan) /\ Part(Scan, Done)' = Part(Scan, Done)
    BY <1>1, <1>2
  <1>4. (HeaderOut' <=> HeaderOut) /\ Opening' = Opening
    BY DEF HeaderOut, Gathering, Opening
  <1>5. Data(Stream)' = Data(Stream)
    <2>1. Data(Stream)' = Data(Stream')
      BY DEF Data, IsTable
    <2> QED
      BY <2>1
  <1> QED
    BY <1>3, <1>4, <1>5 DEF Inv, Output, ++

(* The first call for data writes the headers, if they are not postponed.  *)
LEMMA CallBegins ==
    ASSUME Inv, Busy, call \in {"none", "main"}, call' \in {"main", "compress"},
           call' = "main" => ~conf.raw, call' = "compress" => coef.row < TotalRows,
           UNCHANGED <<conf, state, image, line, coef, entropy, interval, historyVars>>,
           \/ /\ master.startup /\ EmitHeader(Scan, interval)
              /\ master' = [master EXCEPT !.startup = FALSE]
           \/ ~master.startup /\ UNCHANGED <<master, outVars>>
    PROVE  OutTypes' /\ Kinds' /\ Control' /\ Place' /\ Coder' /\ Output' /\ Ended'
  <1>1. /\ conf \in Configs /\ OutTypes /\ Kinds /\ Passes /\ ScriptIsValid /\ IsSeq(Stream)
        /\ Output
    BY StreamIsSeq DEF Inv, OutTypes, Control, Passes
  <1>2. InMain /\ InMain' /\ call # "passes" /\ call' # "passes" /\ begun' = begun
    BY DEF InMain, historyVars
  <1>3. master.scan = 1 /\ master.scan \in 1 .. Len(Scans) /\ GoodScan(Scan)
    BY <1>1, <1>2, ScanIs DEF Passes
  <1>4. master' = [master EXCEPT !.startup = FALSE]
    BY <1>1 DEF Kinds
  <1>5. line' \in Int
    BY <1>1 DEF Kinds
  <1>6. /\ Kinds' /\ Control' /\ Place' /\ Coder' /\ Ended'
        /\ master'.type = master.type /\ master'.scan = master.scan /\ master'.startup = FALSE
        /\ Scan' = Scan /\ Done' = Done
    BY <1>2, <1>4, <1>5, CallGoesOn
  <1>7. ASSUME master.startup, EmitHeader(Scan, interval)
        PROVE  OutTypes' /\ Output'
    <2>1. ~conf.optimize /\ coef = CoefStart
      BY <1>1, <1>7 DEF Passes
    <2>2. Done = 0
      <3>1. coef.row = 0 /\ coef.vert = 0 /\ coef.mcu = 0
        BY <2>1 DEF CoefStart
      <3>2. Index(Scan, 0, 0, 0) = 0 /\ TotalRows # 0
        BY <1>1, <1>3, DoneNone
      <3> QED
        BY <3>1, <3>2 DEF Done
    <2>3. ~HeaderOut /\ HeaderOut'
      BY <1>2, <1>6, <1>7, <2>1 DEF HeaderOut, Gathering
    <2>4. Data(Stream) = Opening
      BY <1>1, <1>3, <2>3 DEF Output
    <2>5. PICK h : h = Header(Scan, interval)
      OBVIOUS
    <2>6. IsSeq(h) /\ Data(Stream ++ h) = Before(master.scan) ++ Part(Scan, 0)
      BY <1>1, <1>3, <2>4, <2>5, HeaderNext
    <2>7. Emit(h)
      BY <1>7, <2>5 DEF EmitHeader
    <2>8. OutTypes' /\ Stream' = Stream ++ h
      BY <1>1, <1>2, <2>6, <2>7, Emits
    <2>9. /\ \A scan, m : Part(scan, m)' = Part(scan, m)
          /\ \A s : Before(s)' = Before(s)
      BY SameImage
    <2>10. Before(master.scan)' = Before(master.scan) /\ Part(Scan, Done)' = Part(Scan, 0)
      BY <1>6, <2>2, <2>9
    <2>11. Data(Stream)' = Before(master.scan)' ++ Part(Scan, Done)'
      <3>1. Data(Stream)' = Data(Stream')
        BY DEF Data, IsTable
      <3> QED
        BY <2>6, <2>8, <2>10, <3>1
    <2> QED
      BY <2>3, <2>8, <2>11 DEF Output, ++
  <1>8. ASSUME ~master.startup, UNCHANGED <<master, outVars>>
        PROVE  OutTypes' /\ Output'
    <2>1. buf' = buf /\ file' = file
      BY <1>8 DEF outVars
    <2>2. OutTypes'
      BY <1>1, <1>2, <2>1 DEF OutTypes, IsSeq
    <2>3. Stream' = Stream
      BY <1>2, <2>1 DEF Stream
    <2> QED
      BY <1>2, <1>8, <2>2, <2>3, OutputKept
  <1> QED
    BY <1>6, <1>7, <1>8

LEMMA IoKept ==
    ASSUME IoIs, conf' = conf, io' = io
    PROVE  IoIs'
  <1>1. \A c : Comps' = Comps /\ V(c)' = V(c) /\ TotalRows' = TotalRows
    BY SameSizes
  <1>2. \A c \in Comps : IsList(io.rows[c], io.groups * V(c))
    BY DEF IoIs
  <1>3. (\A c \in Comps : IsList(io.rows[c], io.groups * V(c)))'
    BY <1>1, <1>2 DEF IsList
  <1> QED
    BY <1>1, <1>3 DEF IoIs

LEMMA RowsKept ==
    ASSUME RowsRight, conf' = conf, io'.rows = io.rows, io'.groups = io.groups, io'.row = io.row
    PROVE  RowsRight'
  <1>1. \A c : Comps' = Comps /\ V(c)' = V(c)
    BY SameSizes
  <1>2. \A c, row : ImageRow(c, row)' = ImageRow(c, row)
    BY SameRows
  <1> QED
    BY <1>1, <1>2 DEF RowsRight

LEMMA DoneKept ==
    ASSUME LinesDone, conf' = conf, coef'.row = coef.row, io'.row = io.row,
           io'.groups = io.groups, io'.toGo = io.toGo, io'.color = io.color
    PROVE  LinesDone'
  <1>1. MaxV' = MaxV /\ TotalRows' = TotalRows
    BY SameSizes
  <1>2. Taken' = Taken
    BY DEF Taken
  <1>3. \A n, g : Color(n, g * MaxV)' = Color(n, g * MaxV)
    BY <1>1 DEF Color
  <1> QED
    BY <1>1, <1>2, <1>3 DEF LinesDone

LEMMA FilledKept ==
    ASSUME conf \in Configs, NEW n \in Nat, NEW m \in Nat, Filled(n), m <= n, conf' = conf, whole' = whole
    PROVE  Filled(m)'
  <1>1. \A c : Comps' = Comps /\ V(c)' = V(c)
    BY SameSizes
  <1>2. \A c, row : WholeRow(c, row)' = WholeRow(c, row)
    BY SameRows
  <1>3. ASSUME NEW c \in Comps
        PROVE  /\ IsSeq(whole[c]) /\ m * V(c) <= Len(whole[c])
               /\ \A row \in 1 .. m * V(c) : whole[c][row] = WholeRow(c, row - 1)
    <2>1. V(c) \in Nat
      BY CompsAre
    <2>2. PICK a, b, l \in Nat : a = m * V(c) /\ b = n * V(c) /\ l = Len(whole[c]) /\ a <= b
      <3>1. m * V(c) \in Nat /\ n * V(c) \in Nat /\ m * V(c) <= n * V(c)
        BY <2>1, Times
      <3>2. Len(whole[c]) \in Nat
        BY SeqHas DEF Filled
      <3> QED
        BY <3>1, <3>2
    <2> QED
      BY <2>2 DEF Filled
  <1> QED
    BY <1>1, <1>2, <1>3 DEF Filled, IsSeq

(* The input buffer has the iMCU row's rows.                               *)
LEMMA InputRight ==
    ASSUME Inv, Busy, InMain, conf.raw \/ io.groups = D
    PROVE  InputIs
  <1>1. conf \in Configs /\ Lines
    BY DEF Inv, OutTypes
  <1>2. CASE conf.raw
    <2>1. io.band = coef.row
      BY <1>1, <1>2 DEF Lines
    <2> QED
      BY <1>2, <2>1 DEF InputIs, InputRow
  <1>3. CASE ~conf.raw
    <2>1. RowsRight /\ io.row = coef.row
      BY <1>1, <1>3 DEF Lines, LinesDone
    <2>2. \A c \in Comps : V(c) * D = io.groups * V(c)
      BY <1>1, <1>3, CompsAre, DAssumption
    <2> QED
      BY <1>3, <2>1, <2>2 DEF InputIs, InputRow, RowsRight
  <1> QED
    BY <1>2, <1>3

(* compress_first_pass adds an iMCU row to whole_image.                    *)
LEMMA WholeGrows ==
    ASSUME Inv, Busy, InMain, call # "compress", coef.row < TotalRows, InputIs, Compresses
    PROVE  WholeInv'
  <1> SUFFICES ASSUME FullBuffer'
               PROVE  Filled(coef.row + 1)'
    BY DEF WholeInv, Compresses, InMain
  <1>1. conf \in Configs /\ Kinds /\ conf' = conf /\ coef' = coef
    BY DEF Inv, OutTypes, Compresses
  <1>2. FullBuffer
    BY <1>1, SameScans
  <1>3. PICK r \in Nat : r = coef.row /\ r + 1 \in Nat /\ r \in 0 .. TotalRows - 1
    BY <1>1, RowsCount DEF Kinds
  <1>4. Filled(r)
    BY <1>2, <1>3 DEF Inv, WholeInv
  <1>5. ASSUME NEW c \in Comps
        PROVE  /\ IsSeq(whole'[c]) /\ (r + 1) * V(c) <= Len(whole'[c])
               /\ \A row \in 1 .. (r + 1) * V(c) : whole'[c][row] = WholeRow(c, row - 1)
    <2>1. PICK v : v = V(c) /\ v \in Nat
      BY <1>1, CompsAre
    <2>2. PICK a : a = r * v /\ a \in Nat /\ (r + 1) * v = a + v
      BY <2>1
    <2>3. PICK w : w = whole[c] /\ IsSeq(w) /\ a <= Len(w) /\ \A row \in 1 .. a : w[row] = WholeRow(c, row - 1)
      BY <1>4, <2>1, <2>2 DEF Filled
    <2>4. PICK s : s = SubSeq(w, 1, a)
      OBVIOUS
    <2>5. IsSeq(s) /\ Len(s) = a /\ \A i \in 1 .. a : s[i] = WholeRow(c, i - 1)
      <3>1. IsSeq(s) /\ Len(s) = a /\ \A i \in 1 .. a : s[i] = w[1 + i - 1]
        BY <2>2, <2>3, <2>4, SubSeqOf
      <3> QED
        BY <2>3, <3>1
    <2>6. PICK t : t = RowsOfInput(c)
      OBVIOUS
    <2>7. t = [y \in 1 .. v |-> WholeRow(c, a + y - 1)]
      BY <1>1, <1>3, <2>1, <2>2, <2>6, RowsOfInputIs
    <2>8. IsSeq(t) /\ Len(t) = v /\ \A y \in 1 .. v : t[y] = WholeRow(c, a + y - 1)
      <3>1. IsList(t, v)
        BY <2>7 DEF IsList
      <3> QED
        BY <2>1, <2>7, <3>1, ListHas
    <2>9. whole'[c] = s ++ t
      BY <1>2, <1>3, <2>1, <2>2, <2>3, <2>4, <2>6 DEF Compresses, ++
    <2>10. IsSeq(s ++ t) /\ Len(s ++ t) = a + v
      BY <2>5, <2>8, CatLen
    <2>11. ASSUME NEW row \in 1 .. a + v
           PROVE  (s ++ t)[row] = WholeRow(c, row - 1)
      <3>1. CASE row <= a
        <4>1. row \in 1 .. a
          BY <2>2, <3>1
        <4> QED
          BY <2>5, <2>8, <4>1, CatFirst
      <3>2. CASE row > a
        <4>1. PICK y \in 1 .. v : row = a + y
          <5>1. row - a \in 1 .. v
            BY <2>1, <2>2, <3>2
          <5> QED
            BY <2>2, <5>1
        <4>2. (s ++ t)[a + y] = t[y]
          <5>1. y \in 1 .. Len(t) /\ IsSeq(s) /\ IsSeq(t)
            BY <2>5, <2>8
          <5>2. (s ++ t)[Len(s) + y] = t[y]
            BY <5>1, CatSecond
          <5> QED
            BY <2>5, <5>2
        <4>3. (s ++ t)[row] = t[y]
          BY <4>1, <4>2, Zenon
        <4>4. t[y] = WholeRow(c, a + y - 1)
          BY <2>8
        <4>5. a + y - 1 = row - 1
          BY <2>2, <4>1
        <4> QED
          BY <4>3, <4>4, <4>5, Zenon
      <3> QED
        BY <2>2, <3>1, <3>2
    <2> QED
      BY <2>1, <2>2, <2>9, <2>10, <2>11
  <1>6. \A c : Comps' = Comps /\ V(c)' = V(c)
    BY <1>1, SameSizes
  <1>7. \A c, row : WholeRow(c, row)' = WholeRow(c, row)
    BY <1>1, SameRows
  <1>8. (coef.row + 1)' = r + 1
    BY <1>1, <1>3
  <1> QED
    BY <1>5, <1>6, <1>7, <1>8 DEF Filled, IsSeq

LEMMA WholeKept ==
    ASSUME Inv, Busy, state' = state, InMain, InMain', call # "compress",
           UNCHANGED <<conf, coef, whole>>, call' # "compress"
    PROVE  WholeInv'
  <1>1. FullBuffer' = FullBuffer
    BY SameScans
  <1>2. conf \in Configs /\ coef.row \in Nat
    BY RowsCount DEF Inv, OutTypes, Kinds
  <1>3. ASSUME FullBuffer
        PROVE  Filled(coef.row)'
    <2>1. Filled(coef.row)
      BY <1>3 DEF Inv, WholeInv
    <2>2. PICK r \in Nat : r = coef.row
      BY <1>2
    <2>3. Filled(r)'
      BY <1>2, <2>1, <2>2, FilledKept
    <2> QED
      BY <2>2, <2>3
  <1> QED
    BY <1>1, <1>3 DEF WholeInv

(* Between calls a line is missing just when an iMCU row is.               *)
LEMMA RowsMissing ==
    ASSUME Inv, Busy, call = "none"
    PROVE  line < conf.height <=> coef.row < TotalRows
  <1>1. /\ conf \in Configs /\ Kinds /\ IoIs /\ Lines /\ Passes /\ InMain
        /\ coef.row \in 0 .. TotalRows /\ TotalRows \in Nat \ {0}
    BY RowsCount DEF Inv, OutTypes, Kinds, Control, InMain
  <1>2. conf.height \in Nat \ {0} /\ line \in Int
    BY <1>1, ConfigIs DEF Kinds
  <1>3. CASE conf.raw
    <2>1. PICK b \in Nat \ {0} : b = MaxV * D
      BY <1>1, MaxAre, DAssumption, Product
    <2>2. PICK t \in Nat \ {0} : t = TotalRows /\ conf.height <= t * b /\ (t - 1) * b < conf.height
      BY <1>1, <1>2, <2>1, DivUpHas DEF TotalRows
    <2>3. line = coef.row * b
      BY <1>1, <1>3, <2>1 DEF Lines
    <2>4. PICK r \in 0 .. t : r = coef.row
      BY <1>1, <2>2
    <2>5. r < t => r <= t - 1 /\ r * b <= (t - 1) * b /\ r * b \in Int /\ (t - 1) * b \in Int
      BY <2>1, <2>2, <2>4, Times
    <2>6. r = t => ~(line < conf.height)
      BY <1>2, <2>2, <2>3, <2>4
    <2>7. r < t => line < conf.height
      <3> SUFFICES ASSUME r < t
                   PROVE  line < conf.height
        OBVIOUS
      <3>1. PICK x, y \in Int : x = r * b /\ y = (t - 1) * b
        BY <2>5
      <3> QED
        BY <1>2, <2>2, <2>3, <2>4, <2>5, <3>1
    <2> QED
      BY <2>2, <2>4, <2>6, <2>7
  <1>4. CASE ~conf.raw
    <2>1. LinesRead /\ LinesDone
      BY <1>1, <1>4 DEF Lines
    <2>2. line + (IF io.suspended THEN 1 ELSE 0) = conf.height - io.toGo
      BY <1>1, <1>2, <2>1 DEF LinesRead, Taken
    <2>3. io.toGo \in Nat /\ io.row = coef.row /\ io.suspended \in BOOLEAN
      BY <1>1, <2>1 DEF IoIs, LinesDone
    <2>4. coef.row = TotalRows => ~(line < conf.height)
      <3> SUFFICES ASSUME coef.row = TotalRows
                   PROVE  ~(line < conf.height)
        OBVIOUS
      <3>1. io.toGo = 0 /\ io.groups = 0
        BY <2>1, <2>3 DEF LinesDone
      <3>2. ~io.suspended
        BY <2>1, <3>1, DAssumption DEF LinesRead
      <3> QED
        BY <1>2, <2>2, <3>1, <3>2
    <2>5. coef.row < TotalRows => line < conf.height
      <3> SUFFICES ASSUME coef.row < TotalRows
                   PROVE  line < conf.height
        OBVIOUS
      <3>1. CASE io.toGo = 0
        <4>1. io.groups = D
          BY <2>1, <2>3, <3>1 DEF LinesDone
        <4>2. io.suspended
          BY <2>1, <4>1 DEF LinesRead
        <4> QED
          BY <1>2, <2>2, <3>1, <4>2
      <3>2. CASE io.toGo # 0
        BY <1>2, <2>2, <2>3, <3>2
      <3> QED
        BY <3>1, <3>2
    <2> QED
      BY <1>1, <2>4, <2>5
  <1> QED
    BY <1>3, <1>4

LEMMA HeaderFails ==
    ASSUME Inv, Busy, master.scan \in 1 .. Len(Scans), NEW n, EmitFails(Header(Scan, n)),
           Data(Stream) = IF master.scan = 1 THEN Opening ELSE Before(master.scan)
    PROVE  Inv'
  <1>1. conf \in Configs /\ ScriptIsValid /\ OutTypes /\ IsSeq(Stream)
    BY StreamIsSeq DEF Inv, OutTypes, Control, Passes
  <1>2. PICK h : h = Header(Scan, n)
    OBVIOUS
  <1>3. IsSeq(h) /\ IsPrefix(Data(Stream ++ h), Image) /\ IsSeq(Image)
    BY <1>1, <1>2, HeaderNext
  <1>4. /\ Dumps(h) * conf.size \in 0 .. Len(buf ++ h) /\ IsSeq(buf ++ h)
    BY <1>1, <1>3, DumpsAre
  <1>5. PICK k \in Nat : k = Dumps(h) * conf.size /\ k <= Len(buf ++ h) + 1
    <2>1. Len(buf ++ h) \in Nat
      BY <1>4, SeqHas
    <2> QED
      BY <1>4, <2>1
  <1>6. FailsWithin(h, k)
    BY <1>2, <1>5, Zenon DEF EmitFails
  <1> QED
    BY <1>3, <1>5, <1>6, FailsKeeps

LEMMA StartupFails ==
    ASSUME Inv, Busy, call = "none", master.startup, EmitFails(Header(Scan, interval))
    PROVE  Inv'
  <1>1. conf \in Configs /\ Kinds /\ Passes /\ InMain
    BY DEF Inv, OutTypes, Control, InMain
  <1>2. master.scan = 1 /\ master.scan \in 1 .. Len(Scans)
    BY <1>1, ScanIs DEF Passes
  <1>3. ~HeaderOut
    BY DEF HeaderOut
  <1>4. Data(Stream) = Opening
    BY <1>2, <1>3 DEF Inv, Output
  <1> QED
    BY <1>2, <1>4, HeaderFails

LEMMA WriteRawDataKeeps == ASSUME Inv, WriteRawData PROVE Inv'
  <1>1. Busy /\ InMain /\ call = "none" /\ line < conf.height
    BY DEF WriteRawData, Busy, InMain
  <1>2. CASE master.startup /\ EmitFails(Header(Scan, interval))
    BY <1>1, <1>2, StartupFails
  <1>3. CASE ~(master.startup /\ EmitFails(Header(Scan, interval)))
    <2>1. /\ Compresses
          /\ \/ /\ master.startup /\ EmitHeader(Scan, interval)
                /\ master' = [master EXCEPT !.startup = FALSE]
             \/ ~master.startup /\ UNCHANGED <<master, outVars>>
      BY <1>3 DEF WriteRawData, Startup
    <2>2. /\ call' = "compress" /\ UNCHANGED <<conf, state, image, line, io, coef, entropy, interval>>
          /\ UNCHANGED historyVars
      BY <2>1 DEF Compresses
    <2>3. coef.row < TotalRows
      BY <1>1, RowsMissing
    <2>4. OutTypes' /\ Kinds' /\ Control' /\ Place' /\ Coder' /\ Output' /\ Ended'
      BY <1>1, <2>1, <2>2, <2>3, CallBegins
    <2>5. IoIs'
      BY <2>2, IoKept DEF Inv
    <2>6. conf.raw
      BY <1>1 DEF Inv, Control, Passes, WriteRawData
    <2>7. Lines'
      <3>1. line = io.band * (MaxV * D) /\ io.band = coef.row
        BY <1>1, <2>6 DEF Inv, Lines
      <3>2. MaxV' = MaxV
        BY <2>2, SameSizes
      <3> QED
        BY <2>2, <2>6, <3>1, <3>2 DEF Lines
    <2>8. WholeInv'
      <3>1. InputIs
        BY <1>1, <2>6, InputRight
      <3> QED
        BY <1>1, <2>1, <2>3, <3>1, WholeGrows
    <2> QED
      BY <2>4, <2>5, <2>7, <2>8 DEF Inv
  <1> QED
    BY <1>2, <1>3

LEMMA WriteScanlinesKeeps == ASSUME Inv, WriteScanlines PROVE Inv'
  <1>1. Busy /\ InMain /\ call = "none" /\ line < conf.height /\ ~conf.raw
    BY DEF WriteScanlines, Busy, InMain, Inv, Control, Passes
  <1>2. CASE master.startup /\ EmitFails(Header(Scan, interval))
    BY <1>1, <1>2, StartupFails
  <1>3. CASE ~(master.startup /\ EmitFails(Header(Scan, interval)))
    <2>1. PICK n \in 1 .. MaxLines :
            /\ call' = "main"
            /\ io' = [io EXCEPT !.ctr = 0, !.avail = AtMost(n, conf.height - line)]
            /\ UNCHANGED <<conf, state, image, line, coef, whole, entropy, interval, historyVars>>
            /\ \/ /\ master.startup /\ EmitHeader(Scan, interval)
                  /\ master' = [master EXCEPT !.startup = FALSE]
               \/ ~master.startup /\ UNCHANGED <<master, outVars>>
      BY <1>3 DEF WriteScanlines, Startup
    <2>2. InMain' /\ call' \in {"main", "compress"} /\ call' # "compress"
      BY <2>1 DEF InMain
    <2>3. OutTypes' /\ Kinds' /\ Control' /\ Place' /\ Coder' /\ Output' /\ Ended'
      BY <1>1, <2>1, <2>2, CallBegins
    <2>4. /\ conf \in Configs /\ line \in Int /\ IoIs /\ conf.height \in Nat
      BY ConfigIs DEF Inv, OutTypes, Kinds
    <2>5. PICK a \in Nat \ {0} : a = AtMost(n, conf.height - line) /\ line + a <= conf.height
      BY <1>1, <2>4, MaxLinesAssumption DEF AtMost
    <2>6. /\ io' = [io EXCEPT !.ctr = 0, !.avail = a]
      BY <2>1, <2>5
    <2>7. /\ io'.ctr = 0 /\ io'.avail = a /\ io'.band = io.band /\ io'.color = io.color
          /\ io'.toGo = io.toGo /\ io'.rows = io.rows /\ io'.groups = io.groups
          /\ io'.row = io.row /\ io'.suspended = io.suspended
          /\ io' = [band |-> io'.band, ctr |-> io'.ctr, avail |-> io'.avail, color |-> io'.color,
                    toGo |-> io'.toGo, rows |-> io'.rows, groups |-> io'.groups, row |-> io'.row,
                    suspended |-> io'.suspended]
      BY <2>4, <2>6 DEF IoIs
    <2>8. IoIs'
      <3>1. \A c : Comps' = Comps /\ V(c)' = V(c) /\ TotalRows' = TotalRows
        BY <2>1, SameSizes
      <3>2. (\A c \in Comps : IsList(io.rows[c], io.groups * V(c)))'
        BY <2>4, <2>7, <3>1 DEF IoIs, IsList
      <3> QED
        BY <2>1, <2>4, <2>7, <3>1, <3>2 DEF IoIs
    <2>9. LinesRead /\ LinesDone /\ RowsRight
      BY <1>1 DEF Inv, Lines
    <2>10. LinesDone' /\ RowsRight'
      BY <2>1, <2>7, <2>9, DoneKept, RowsKept
    <2>11. LinesRead'
      <3>1. Taken' = Taken /\ Taken \in Int
        BY <2>1, <2>4, <2>7 DEF Taken, IoIs
      <3>2. line + (IF io.suspended THEN 1 ELSE 0) = Taken /\ (io.suspended => io.groups = D)
        BY <1>1, <2>4, <2>9, <3>1 DEF LinesRead
      <3> QED
        BY <2>1, <2>4, <2>5, <2>7, <3>1, <3>2 DEF LinesRead
    <2>12. Lines'
      BY <1>1, <2>1, <2>10, <2>11 DEF Lines
    <2>13. WholeInv'
      BY <1>1, <2>1, <2>2, WholeKept
    <2> QED
      BY <2>3, <2>8, <2>12, <2>13 DEF Inv
  <1> QED
    BY <1>2, <1>3

LEMMA MainCompressesKeeps == ASSUME Inv, MainCompresses PROVE Inv'
  <1>1. /\ call = "main" /\ io.row < TotalRows /\ io.groups = D /\ Compresses
        /\ UNCHANGED <<master, outVars>>
    BY DEF MainCompresses
  <1>2. /\ call' = "compress" /\ UNCHANGED <<conf, state, image, line, io, coef, entropy, interval>>
        /\ UNCHANGED historyVars
    BY <1>1 DEF Compresses
  <1>3. Busy /\ InMain /\ InMain' /\ ~conf.raw /\ ~master.startup
    BY <1>1, <1>2 DEF Inv, Control, Passes, InMain
  <1>4. LinesRead /\ LinesDone /\ RowsRight
    BY <1>3 DEF Inv, Lines
  <1>5. coef.row < TotalRows
    BY <1>1, <1>4 DEF LinesDone
  <1>6. OutTypes' /\ Kinds' /\ Control' /\ Place' /\ Coder' /\ Output' /\ Ended'
    BY <1>1, <1>2, <1>3, <1>5, CallBegins
  <1>7. IoIs'
    BY <1>2, IoKept DEF Inv
  <1>8. LinesDone' /\ RowsRight'
    BY <1>2, <1>4, DoneKept, RowsKept
  <1>9. LinesRead'
    <2>1. Taken' = Taken
      BY <1>2 DEF Taken
    <2> QED
      BY <1>1, <1>2, <1>4, <2>1 DEF LinesRead
  <1>10. Lines'
    BY <1>2, <1>3, <1>8, <1>9 DEF Lines
  <1>11. WholeInv'
    <2>1. InputIs
      BY <1>1, <1>3, InputRight
    <2> QED
      BY <1>1, <1>3, <1>5, <2>1, WholeGrows
  <1> QED
    BY <1>6, <1>7, <1>10, <1>11 DEF Inv

(* The call returns for more lines, or since the client's buffer is full.  *)
LEMMA MainReturnsKeeps == ASSUME Inv, MainReturns PROVE Inv'
  <1>1. /\ call = "main"
        /\ io.row = TotalRows \/ (io.groups < D /\ io.ctr = io.avail)
        /\ line' = line + io.ctr /\ call' = "none"
        /\ UNCHANGED <<conf, state, image, io, passVars, tableVars, outVars, historyVars>>
    BY DEF MainReturns
  <1>2. /\ UNCHANGED <<master, coef, whole, entropy, interval, buf, file, begun>>
        /\ UNCHANGED historyVars
    BY <1>1 DEF passVars, outVars, historyVars
  <1>3. /\ Busy /\ InMain /\ InMain' /\ ~conf.raw /\ ~master.startup
    BY <1>1 DEF Inv, Control, Passes, InMain
  <1>4. OutTypes /\ Kinds /\ IoIs
    BY DEF Inv
  <1>5. line' \in Int
    <2>1. PICK n : n = io.ctr /\ n \in Nat
      BY <1>4 DEF IoIs
    <2>2. line \in Int
      BY <1>4 DEF Kinds
    <2>3. line' = line \/ line' = line + n \/ line' = line + (n - 1)
      BY <1>1, <2>1, <2>2
    <2> QED
      BY <2>1, <2>2, <2>3
  <1>6. master' = [master EXCEPT !.startup = FALSE]
    <2>1. master \in [type : {"main", "gather", "output"}, scan : Nat \ {0}, pass : 0 .. TotalPasses,
                      startup : BOOLEAN]
      BY <1>4 DEF Kinds
    <2>2. master = [master EXCEPT !.startup = FALSE]
      BY <1>3, <2>1
    <2> QED
      BY <1>2, <2>2
  <1>7. Kinds' /\ Control' /\ Place' /\ Coder' /\ Ended'
    BY <1>1, <1>2, <1>3, <1>5, <1>6, CallGoesOn
  <1>8. OutTypes'
    BY <1>1, <1>2, <1>4 DEF OutTypes, IsSeq
  <1>9. Output'
    <2>1. Stream' = Stream
      BY <1>2 DEF Stream
    <2> QED
      BY <1>1, <1>2, <1>3, <2>1, OutputKept
  <1>10. IoIs' /\ WholeInv'
    BY <1>1, <1>2, <1>3, IoKept, WholeKept DEF Inv
  <1>11. LinesRead /\ LinesDone /\ RowsRight
    BY <1>3 DEF Inv, Lines
  <1>12. LinesDone' /\ RowsRight'
    BY <1>1, <1>2, <1>11, DoneKept, RowsKept
  <1>13. LinesRead'
    <2>1. Taken' = Taken
      BY <1>1 DEF Taken
    <2>2. io.groups # D
      BY <1>1, <1>4, <1>11, DAssumption DEF LinesDone, IoIs
    <2>3. ~io.suspended
      BY <1>11, <2>2 DEF LinesRead
    <2>4. line + 0 + io.ctr = Taken
      BY <1>1, <1>11, <2>3 DEF LinesRead
    <2>5. line' + 0 + 0 = Taken
      BY <1>1, <1>4, <2>4 DEF Kinds, IoIs
    <2> QED
      BY <1>1, <2>1, <2>2, <2>3, <2>5 DEF LinesRead
  <1>14. Lines'
    BY <1>1, <1>3, <1>12, <1>13 DEF Lines
  <1> QED
    BY <1>7, <1>8, <1>9, <1>10, <1>14 DEF Inv

(* What is in the buffer is taken.                                         *)
LEMMA BufferTaken ==
    ASSUME OutTypes, UNCHANGED <<conf, begun>>, file' = file \o buf, buf' = <<>>
    PROVE  OutTypes' /\ Stream' = Stream /\ file' ++ buf' = file ++ buf
  <1>1. PICK b : b = buf /\ IsSeq(b) /\ Len(b) \in 0 .. Len(b) /\ b = Upto(b, Len(b)) ++ Beyond(b, Len(b))
    <2>1. Len(buf) \in Nat /\ IsSeq(buf)
      BY SeqHas DEF OutTypes
    <2>2. Len(buf) \in 0 .. Len(buf)
      BY <2>1
    <2> QED
      BY <2>1, <2>2, TwoParts
  <1>2. Beyond(b, Len(b)) = <<>> /\ Upto(b, Len(b)) = b
    <2>1. Len(b) \in Nat
      BY <1>1
    <2>2. IsSeq(Beyond(b, Len(b))) /\ Len(Beyond(b, Len(b))) = 0 /\ IsSeq(Upto(b, Len(b)))
      BY <1>1, <2>1, TwoParts
    <2>3. Beyond(b, Len(b)) = <<>>
      BY <2>2, SeqEq, SeqNone
    <2> QED
      BY <1>1, <2>2, <2>3, CatEmpty
  <1>3. file' = file ++ Upto(b, Len(b))
    BY <1>1, <1>2 DEF ++
  <1>4. PICK k \in 0 .. Len(b) : k = Len(b)
    BY <1>1
  <1>5. /\ IsSeq(file') /\ begun' \in 0 .. Len(file')
        /\ Beyond(file', begun') = Beyond(file, begun) ++ Upto(b, k)
    BY <1>1, <1>3, <1>4, Moves
  <1>6. OutTypes'
    <2>1. conf' = conf /\ conf.size > 2 /\ conf.size \in Nat
      BY ConfigSize DEF OutTypes
    <2>2. Len(buf') < conf'.size /\ IsSeq(buf')
      BY <2>1, SeqNone
    <2> QED
      BY <1>5, <2>1, <2>2 DEF OutTypes, IsSeq
  <1>7. Stream = Beyond(file, begun) ++ b /\ IsSeq(Beyond(file, begun)) /\ IsSeq(Stream)
    BY <1>1, StreamIsSeq
  <1>8. Stream' = Stream
    <2>1. Stream' = Beyond(file', begun') ++ <<>>
      BY Zenon DEF Stream, Beyond, ++
    <2>2. Stream' = (Beyond(file, begun) ++ b) ++ <<>>
      BY <1>2, <1>4, <1>5, <2>1
    <2> QED
      BY <1>7, <2>2, CatEmpty
  <1>9. file' ++ buf' = file ++ buf
    <2>1. file' ++ <<>> = file'
      BY <1>5, CatEmpty
    <2> QED
      BY <1>1, <1>2, <1>3, <2>1
  <1> QED
    BY <1>6, <1>8, <1>9

LEMMA SuspendsKeeps == ASSUME Inv, Suspends PROVE Inv'
  <1>1. /\ call = "compress" /\ file' = file \o buf /\ buf' = <<>> /\ call' = "none"
        /\ IF conf.raw THEN UNCHANGED <<line, io>>
           ELSE /\ line' = line + IF io.suspended THEN io.ctr ELSE io.ctr - 1
                /\ io' = [io EXCEPT !.suspended = TRUE]
        /\ UNCHANGED <<conf, state, image, passVars, tableVars, historyVars>>
    BY DEF Suspends, Refused
  <1>2. /\ UNCHANGED <<master, coef, whole, entropy, interval, begun>> /\ UNCHANGED historyVars
    BY <1>1 DEF passVars, historyVars
  <1>3. /\ Busy /\ InMain /\ InMain' /\ ~master.startup
    BY <1>1 DEF Inv, Control, Passes, InMain
  <1>4. OutTypes /\ Kinds /\ IoIs /\ conf \in Configs /\ coef.row < TotalRows
    BY <1>1, <1>3 DEF Inv, OutTypes, Control, Passes
  <1>5. line' \in Int
    <2>1. PICK n : n = io.ctr /\ n \in Nat
      BY <1>4 DEF IoIs
    <2>2. line \in Int
      BY <1>4 DEF Kinds
    <2>3. line' = line \/ line' = line + n \/ line' = line + (n - 1)
      BY <1>1, <2>1, <2>2
    <2> QED
      BY <2>1, <2>2, <2>3
  <1>6. master' = [master EXCEPT !.startup = FALSE]
    <2>1. master \in [type : {"main", "gather", "output"}, scan : Nat \ {0}, pass : 0 .. TotalPasses,
                      startup : BOOLEAN]
      BY <1>4 DEF Kinds
    <2>2. master = [master EXCEPT !.startup = FALSE]
      BY <1>3, <2>1
    <2> QED
      BY <1>2, <2>2
  <1>7. Kinds' /\ Control' /\ Place' /\ Coder' /\ Ended'
    BY <1>1, <1>2, <1>3, <1>5, <1>6, CallGoesOn
  <1>8. OutTypes' /\ Stream' = Stream
    BY <1>1, <1>2, <1>4, BufferTaken
  <1>9. Output'
    BY <1>1, <1>2, <1>3, <1>8, OutputKept
  <1>10. WholeInv'
    <2>1. FullBuffer' = FullBuffer
      BY <1>1, SameScans
    <2>2. PICK r \in Nat : r = coef.row /\ r + 1 \in Nat /\ r <= r + 1
      BY <1>4, RowsCount DEF Kinds
    <2>3. ASSUME FullBuffer
          PROVE  Filled(coef.row)'
      <3>1. Filled(r + 1)
        BY <1>1, <1>3, <2>2, <2>3 DEF Inv, WholeInv
      <3>2. Filled(r)'
        BY <1>1, <1>2, <1>4, <2>2, <3>1, FilledKept
      <3> QED
        BY <1>2, <2>2, <3>2
    <2> QED
      BY <1>1, <1>3, <2>1, <2>3 DEF WholeInv
  <1>11. CASE conf.raw
    <2>1. io' = io /\ line' = line
      BY <1>1, <1>11
    <2>2. IoIs'
      BY <1>1, <1>4, <2>1, IoKept
    <2>3. Lines'
      <3>1. line = io.band * (MaxV * D) /\ io.band = coef.row
        BY <1>3, <1>11 DEF Inv, Lines
      <3>2. MaxV' = MaxV
        BY <1>1, SameSizes
      <3> QED
        BY <1>1, <1>2, <1>11, <2>1, <3>1, <3>2 DEF Lines
    <2> QED
      BY <1>7, <1>8, <1>9, <1>10, <2>2, <2>3 DEF Inv
  <1>12. CASE ~conf.raw
    <2>1. /\ io'.ctr = io.ctr /\ io'.avail = io.avail /\ io'.band = io.band /\ io'.color = io.color
          /\ io'.toGo = io.toGo /\ io'.rows = io.rows /\ io'.groups = io.groups
          /\ io'.row = io.row /\ io'.suspended = TRUE
          /\ io' = [band |-> io'.band, ctr |-> io'.ctr, avail |-> io'.avail, color |-> io'.color,
                    toGo |-> io'.toGo, rows |-> io'.rows, groups |-> io'.groups, row |-> io'.row,
                    suspended |-> io'.suspended]
      BY <1>1, <1>4, <1>12 DEF IoIs
    <2>2. IoIs'
      <3>1. \A c : Comps' = Comps /\ V(c)' = V(c) /\ TotalRows' = TotalRows
        BY <1>1, SameSizes
      <3>2. (\A c \in Comps : IsList(io.rows[c], io.groups * V(c)))'
        BY <1>4, <2>1, <3>1 DEF IoIs, IsList
      <3> QED
        BY <1>1, <1>4, <2>1, <3>1, <3>2 DEF IoIs
    <2>3. LinesRead /\ LinesDone /\ RowsRight
      BY <1>3, <1>12 DEF Inv, Lines
    <2>4. LinesDone' /\ RowsRight'
      BY <1>1, <1>2, <2>1, <2>3, DoneKept, RowsKept
    <2>5. LinesRead'
      <3>1. Taken' = Taken /\ io.groups = D
        BY <1>1, <2>1, <2>3 DEF Taken, LinesRead
      <3>2. line + (IF io.suspended THEN 1 ELSE 0) + io.ctr = Taken
        BY <1>1, <2>3 DEF LinesRead
      <3>3. line' + 1 + 0 = Taken
        <4>1. line' = line + IF io.suspended THEN io.ctr ELSE io.ctr - 1
          BY <1>1, <1>12
        <4>2. line \in Int /\ io.ctr \in Nat /\ io.suspended \in BOOLEAN
          BY <1>4 DEF Kinds, IoIs
        <4> QED
          BY <3>2, <4>1, <4>2
      <3> QED
        BY <1>1, <2>1, <3>1, <3>3 DEF LinesRead
    <2>6. Lines'
      BY <1>1, <1>3, <1>12, <2>4, <2>5 DEF Lines
    <2> QED
      BY <1>7, <1>8, <1>9, <1>10, <2>2, <2>6 DEF Inv
  <1> QED
    BY <1>11, <1>12

-----------------------------------------------------------------------------
(* Lines to row groups.                                                    *)

Groups == DivUp(conf.height, MaxV)
LinesOf(g) == [i \in 1 .. MaxV |-> AtMost(g * MaxV + i, conf.height)]

(* A row of the image is made from the lines of its row group.             *)
LEMMA ImageRowsAre ==
    ASSUME conf \in Configs, NEW c \in Comps
    PROVE  /\ Groups \in Nat \ {0} /\ V(c) \in Nat \ {0}
           /\ \A g \in 0 .. Groups - 1 : \A z \in 0 .. V(c) - 1 :
                  ImageRow(c, g * V(c) + z) = Downsampled(c, LinesOf(g))[z + 1]
           /\ \A y \in Nat : y >= Groups * V(c) - 1 => ImageRow(c, y) = ImageRow(c, Groups * V(c) - 1)
  <1>1. PICK v \in Nat \ {0} : v = V(c)
    BY CompsAre
  <1>2. PICK G \in Nat \ {0} : G = Groups
    <2>1. PICK h, m \in Nat \ {0} : h = conf.height /\ m = MaxV
      BY ConfigIs, MaxAre
    <2>2. DivUp(h, m) \in Nat \ {0}
      BY <2>1, DivUpHas
    <2> QED
      BY <2>1, <2>2 DEF Groups
  <1>3. PICK last \in Nat : last = G * v - 1
    BY Product
  <1>4. \A y : ImageRow(c, y) = Downsampled(c, LinesOf(AtMost(y, last) \div v))[(AtMost(y, last) % v) + 1]
    BY <1>1, <1>2, <1>3, Zenon DEF ImageRow, LinesOf, Groups
  <1>5. ASSUME NEW g \in 0 .. G - 1, NEW z \in 0 .. v - 1
        PROVE  ImageRow(c, g * v + z) = Downsampled(c, LinesOf(g))[z + 1]
    <2>1. PICK y : y = g * v + z
      OBVIOUS
    <2>2. y \div v = g /\ y % v = z
      BY <2>1, DivMod
    <2>3. AtMost(y, last) = y
      <3>1. g * v <= (G - 1) * v /\ g * v \in Int /\ (G - 1) * v \in Int
        BY Times
      <3>2. PICK a, b \in Int : a = g * v /\ b = (G - 1) * v /\ G * v = b + v
        BY <3>1
      <3> QED
        BY <1>3, <2>1, <3>1, <3>2 DEF AtMost
    <2> QED
      BY <1>4, <2>1, <2>2, <2>3
  <1>6. ASSUME NEW y \in Nat, y >= last
        PROVE  ImageRow(c, y) = ImageRow(c, last)
    <2>1. AtMost(y, last) = last /\ AtMost(last, last) = last
      BY <1>6 DEF AtMost
    <2> QED
      BY <1>4, <2>1
  <1> QED
    BY <1>1, <1>2, <1>3, <1>5, <1>6

LEMMA ColorIs ==
    ASSUME NEW n \in Nat, NEW b
    PROVE  /\ IsSeq(Color(n, b)) /\ Len(Color(n, b)) = n
           /\ \A i \in 1 .. n : Color(n, b)[i] = b + i
  <1>1. IsList(Color(n, b), n)
    BY DEF IsList, Color
  <1> QED
    BY <1>1, ListHas DEF Color

LEMMA ColorGrows ==
    ASSUME NEW n \in Nat, NEW k \in Nat, NEW b \in Int, NEW a, a = b + n,
           NEW more, more = [i \in 1 .. k |-> a + i]
    PROVE  Color(n, b) ++ more = Color(n + k, b)
  <1>1. PICK s : s = Color(n, b) /\ IsSeq(s) /\ Len(s) = n /\ \A i \in 1 .. n : s[i] = b + i
    BY ColorIs
  <1>2. PICK t : t = Color(n + k, b) /\ IsSeq(t) /\ Len(t) = n + k /\ \A i \in 1 .. n + k : t[i] = b + i
    <2>1. n + k \in Nat
      OBVIOUS
    <2> QED
      BY <2>1, ColorIs
  <1>3. IsSeq(more) /\ Len(more) = k /\ \A i \in 1 .. k : more[i] = a + i
    <2>1. IsList(more, k)
      BY DEF IsList
    <2> QED
      BY <2>1, ListHas
  <1>4. PICK u : u = s ++ more /\ IsSeq(u) /\ Len(u) = n + k
    BY <1>1, <1>3, CatLen
  <1>5. ASSUME NEW i \in 1 .. n + k
        PROVE  u[i] = t[i]
    <2>1. CASE i <= n
      <3>1. i \in 1 .. Len(s)
        BY <1>1, <2>1
      <3>2. (s ++ more)[i] = s[i]
        BY <1>1, <1>3, <3>1, CatFirst
      <3>3. s[i] = b + i
        BY <1>1, <2>1
      <3>4. t[i] = b + i
        BY <1>2
      <3> QED
        BY <1>4, <3>2, <3>3, <3>4, Zenon
    <2>2. CASE i > n
      <3>1. PICK j \in 1 .. k : i = n + j
        <4>1. i - n \in 1 .. k
          BY <2>2
        <4> QED
          BY <4>1
      <3>2. j \in 1 .. Len(more)
        BY <1>3
      <3>3. (s ++ more)[Len(s) + j] = more[j]
        <4>1. IsSeq(s) /\ IsSeq(more)
          BY <1>1, <1>3
        <4> QED
          BY <3>2, <4>1, CatSecond, Zenon
      <3>4. u[i] = a + j
        BY <1>1, <1>3, <1>4, <3>1, <3>3
      <3>5. t[i] = b + (n + j)
        BY <1>2, <3>1
      <3> QED
        BY <3>1, <3>4, <3>5
    <2> QED
      BY <2>1, <2>2
  <1> QED
    BY <1>1, <1>2, <1>4, <1>5, SeqEq

(* A color buffer that is full, or has the last line, gives its row group. *)
LEMMA PaddedIs ==
    ASSUME conf \in Configs, NEW g \in Nat, NEW n \in 1 .. MaxV, NEW color, color = Color(n, g * MaxV),
           g * MaxV + n <= conf.height, n = MaxV \/ g * MaxV + n = conf.height
    PROVE  Padded(color, MaxV) = LinesOf(g)
  <1>1. PICK v \in Nat \ {0} : v = MaxV
    BY MaxAre
  <1>2. PICK b \in Nat : b = g * v
    BY <1>1
  <1>3. PICK h \in Nat : h = conf.height
    BY ConfigIs
  <1>4. n \in Nat /\ n <= v /\ n > 0
    BY <1>1
  <1>5. Len(color) = n /\ \A i \in 1 .. n : color[i] = b + i
    BY <1>1, <1>2, <1>4, ColorIs
  <1>6. ASSUME NEW i \in 1 .. v
        PROVE  color[AtMost(i, n)] = AtMost(b + i, h)
    <2>1. CASE i <= n
      <3>1. i \in 1 .. n /\ AtMost(i, n) = i /\ AtMost(b + i, h) = b + i
        BY <1>1, <1>2, <1>3, <1>4, <2>1 DEF AtMost
      <3> QED
        BY <1>5, <3>1
    <2>2. CASE i > n
      <3>1. n \in 1 .. n /\ AtMost(i, n) = n /\ AtMost(b + i, h) = b + n
        BY <1>1, <1>2, <1>3, <1>4, <2>2 DEF AtMost
      <3> QED
        BY <1>5, <3>1
    <2> QED
      BY <2>1, <2>2
  <1>7. Padded(color, MaxV) = [i \in 1 .. v |-> color[AtMost(i, n)]]
    BY <1>1, <1>5 DEF Padded
  <1>8. LinesOf(g) = [i \in 1 .. v |-> AtMost(b + i, h)]
    BY <1>1, <1>2, <1>3 DEF LinesOf
  <1> QED
    BY <1>6, <1>7, <1>8

(* A row group more in the main buffer.                                    *)
LEMMA GroupAdded ==
    ASSUME conf \in Configs, IoIs, RowsRight, NEW c \in Comps, NEW g \in 0 .. Groups - 1,
           g = io.row * D + io.groups, NEW lines, lines = LinesOf(g),
           NEW group, group = io.rows[c] ++ Downsampled(c, lines)
    PROVE  /\ IsSeq(group) /\ Len(group) = (io.groups + 1) * V(c)
           /\ \A y \in 0 .. (io.groups + 1) * V(c) - 1 :
                  group[y + 1] = ImageRow(c, io.row * V(c) * D + y)
  <1>1. PICK v \in Nat \ {0} : v = V(c)
    BY CompsAre
  <1>2. PICK k, r, d \in Nat : k = io.groups /\ r = io.row /\ d = D
    BY RowsCount, DAssumption DEF IoIs
  <1>3. PICK a, b \in Nat : a = k * v /\ b = r * v * d /\ (k + 1) * v = a + v
    <2>1. k * v \in Nat /\ r * v \in Nat /\ r * v * d \in Nat /\ (k + 1) * v = k * v + v
      OBVIOUS
    <2> QED
      BY <2>1
  <1>4. g * v = b + a
    <2>1. (r * d) * v = (r * v) * d
      BY Swap
    <2>2. PICK e \in Nat : e = r * d
      OBVIOUS
    <2>3. (e + k) * v = e * v + k * v
      OBVIOUS
    <2> QED
      BY <1>2, <1>3, <2>1, <2>2, <2>3
  <1>5. PICK s : /\ s = io.rows[c] /\ IsSeq(s) /\ Len(s) = a
                 /\ \A y \in 0 .. a - 1 : s[y + 1] = ImageRow(c, b + y)
    <2>1. IsList(io.rows[c], a)
      BY <1>1, <1>2, <1>3 DEF IoIs
    <2>2. IsSeq(io.rows[c]) /\ Len(io.rows[c]) = a
      BY <2>1, ListHas
    <2>3. \A y \in 0 .. a - 1 : io.rows[c][y + 1] = ImageRow(c, b + y)
      BY <1>1, <1>2, <1>3 DEF RowsRight
    <2> QED
      BY <2>2, <2>3
  <1>6. PICK t : /\ t = Downsampled(c, lines) /\ IsSeq(t) /\ Len(t) = v
                 /\ \A z \in 0 .. v - 1 : t[z + 1] = ImageRow(c, b + a + z)
    <2>1. IsList(Downsampled(c, lines), v)
      BY <1>1 DEF Downsampled, IsList
    <2>2. IsSeq(Downsampled(c, lines)) /\ Len(Downsampled(c, lines)) = v
      BY <2>1, ListHas
    <2>3. \A z \in 0 .. v - 1 : Downsampled(c, lines)[z + 1] = ImageRow(c, b + a + z)
      <3>1. \A z \in 0 .. v - 1 : ImageRow(c, g * v + z) = Downsampled(c, lines)[z + 1]
        BY <1>1, ImageRowsAre
      <3> QED
        BY <1>4, <3>1
    <2> QED
      BY <2>2, <2>3
  <1>7. IsSeq(s ++ t) /\ Len(s ++ t) = a + v
    BY <1>5, <1>6, CatLen
  <1>8. ASSUME NEW y \in 0 .. a + v - 1
        PROVE  (s ++ t)[y + 1] = ImageRow(c, b + y)
    <2>1. CASE y < a
      <3>1. y + 1 \in 1 .. Len(s) /\ y \in 0 .. a - 1
        BY <1>5, <2>1
      <3>2. (s ++ t)[y + 1] = s[y + 1]
        BY <1>5, <1>6, <3>1, CatFirst
      <3> QED
        BY <1>5, <3>1, <3>2
    <2>2. CASE y >= a
      <3>1. PICK z \in 0 .. v - 1 : z = y - a /\ z + 1 \in 1 .. Len(t) /\ Len(s) + (z + 1) = y + 1
        <4>1. y - a \in 0 .. v - 1
          BY <2>2
        <4> QED
          BY <1>5, <1>6, <4>1
      <3>2. (s ++ t)[Len(s) + (z + 1)] = t[z + 1]
        <4>1. PICK i \in 1 .. Len(t) : i = z + 1
          BY <3>1
        <4>2. IsSeq(s) /\ IsSeq(t)
          BY <1>5, <1>6
        <4>3. (s ++ t)[Len(s) + i] = t[i]
          BY <4>2, CatSecond
        <4> QED
          BY <4>1, <4>3
      <3>3. t[z + 1] = ImageRow(c, b + a + z)
        BY <1>6
      <3>4. b + a + z = b + y
        BY <3>1
      <3> QED
        BY <3>1, <3>2, <3>3, <3>4, Zenon
    <2> QED
      BY <2>1, <2>2
  <1>9. group = s ++ t
    BY <1>5, <1>6
  <1>10. (io.groups + 1) * V(c) = a + v /\ io.row * V(c) * D = b
    BY <1>1, <1>2, <1>3
  <1> QED
    BY <1>7, <1>8, <1>9, <1>10

(* At the bottom the last row is repeated.                                 *)
LEMMA BottomIs ==
    ASSUME conf \in Configs, NEW c \in Comps, NEW k \in 0 .. D - 1, NEW row \in Nat,
           Groups = row * D + k + 1,
           NEW group, IsSeq(group), Len(group) = (k + 1) * V(c),
           \A y \in 0 .. (k + 1) * V(c) - 1 : group[y + 1] = ImageRow(c, row * V(c) * D + y)
    PROVE  /\ IsList(Padded(group, D * V(c)), D * V(c))
           /\ \A y \in 0 .. D * V(c) - 1 :
                  Padded(group, D * V(c))[y + 1] = ImageRow(c, row * V(c) * D + y)
  <1>1. PICK v \in Nat \ {0} : v = V(c)
    BY CompsAre
  <1>2. PICK d \in Nat \ {0} : d = D
    BY DAssumption
  <1>3. PICK a, b \in Nat, m \in Nat \ {0} : a = d * v /\ b = row * v * d /\ m = (k + 1) * v /\ m <= a
    <2>1. row * v \in Nat /\ row * v * d \in Nat /\ d * v \in Nat
      OBVIOUS
    <2>2. k + 1 \in Nat \ {0} /\ k + 1 <= d
      BY <1>2
    <2>3. (k + 1) * v \in Nat \ {0} /\ (k + 1) * v <= d * v
      BY <2>2, Product, Times
    <2> QED
      BY <2>1, <2>3
  <1>4. Groups * v = b + m
    <2>1. (row * d) * v = (row * v) * d
      BY Swap
    <2>2. PICK e \in Nat : e = row * d
      OBVIOUS
    <2>3. PICK f \in Nat : f = k + 1
      BY <1>2
    <2>4. (e + f) * v = e * v + f * v
      OBVIOUS
    <2>5. Groups = e + f
      BY <1>2, <2>2, <2>3
    <2> QED
      BY <1>3, <2>1, <2>2, <2>3, <2>4, <2>5
  <1>5. Padded(group, a) = [i \in 1 .. a |-> group[AtMost(i, m)]]
    BY <1>1, <1>3 DEF Padded
  <1>6. \A y \in 0 .. m - 1 : group[y + 1] = ImageRow(c, b + y)
    BY <1>1, <1>2, <1>3
  <1>7. ASSUME NEW y \in 0 .. a - 1
        PROVE  Padded(group, a)[y + 1] = ImageRow(c, b + y)
    <2>1. y + 1 \in 1 .. a
      OBVIOUS
    <2>2. Padded(group, a)[y + 1] = group[AtMost(y + 1, m)]
      BY <1>5, <2>1
    <2>3. CASE y < m
      <3>1. AtMost(y + 1, m) = y + 1 /\ y \in 0 .. m - 1
        BY <2>3 DEF AtMost
      <3> QED
        BY <1>6, <2>2, <3>1
    <2>4. CASE y >= m
      <3>1. AtMost(y + 1, m) = m /\ m - 1 \in 0 .. m - 1 /\ (m - 1) + 1 = m
        BY <2>4 DEF AtMost
      <3>2. group[m] = ImageRow(c, b + (m - 1))
        BY <1>6, <3>1
      <3>3. PICK p, q \in Nat : /\ p = b + (m - 1) /\ q = b + y
                                /\ p = Groups * v - 1 /\ q >= Groups * v - 1
        BY <1>4, <2>4
      <3>4. ImageRow(c, q) = ImageRow(c, p)
        BY <1>1, <3>3, ImageRowsAre
      <3> QED
        BY <2>2, <3>1, <3>2, <3>3, <3>4
    <2> QED
      BY <2>3, <2>4
  <1>8. IsList(Padded(group, a), a)
    BY <1>5 DEF IsList
  <1> QED
    BY <1>1, <1>2, <1>3, <1>7, <1>8

LEMMA PrepareKeeps == ASSUME Inv, Prepare PROVE Inv'
  <1> DEFINE taken == AtMost(MaxV - Len(io.color), io.avail - io.ctr)
             held == io.color \o [i \in 1 .. taken |-> line + io.ctr + i]
             made_(c) == io.rows[c] \o IF io.toGo = taken \/ Len(held) = MaxV
                                       THEN Downsampled(c, Padded(held, MaxV)) ELSE <<>>
  <1>1. /\ call = "main" /\ io.row < TotalRows /\ io.groups < D /\ io.ctr < io.avail
        /\ UNCHANGED <<conf, state, image, line, call, passVars, outVars, historyVars>>
    BY DEF Prepare
  <1>2. io' = [io EXCEPT !.ctr = @ + taken, !.toGo = @ - taken,
                         !.color = IF io.toGo = taken \/ Len(held) = MaxV THEN <<>> ELSE held,
                         !.groups = IF io.toGo = taken THEN D
                                    ELSE IF io.toGo = taken \/ Len(held) = MaxV THEN io.groups + 1
                                    ELSE io.groups,
                         !.rows = [c \in Comps |-> IF io.toGo = taken THEN Padded(made_(c), D * V(c))
                                                   ELSE made_(c)]]
    BY Zenon DEF Prepare
  <1> HIDE DEF taken, held, made_
  <1>3. /\ UNCHANGED <<master, coef, whole, entropy, interval, buf, file, begun>>
        /\ UNCHANGED historyVars
    BY <1>1 DEF passVars, outVars, historyVars
  <1>4. Busy /\ InMain /\ InMain' /\ ~conf.raw /\ ~master.startup
    BY <1>1 DEF Inv, Control, Passes, InMain
  <1>5. OutTypes /\ Kinds /\ IoIs /\ conf \in Configs
    BY DEF Inv, OutTypes
  <1>6. line' \in Int /\ master' = [master EXCEPT !.startup = FALSE]
    BY <1>1, <1>3, <1>4, <1>5 DEF Kinds
  <1>7. Kinds' /\ Control' /\ Place' /\ Coder' /\ Ended'
    BY <1>1, <1>3, <1>4, <1>6, CallGoesOn
  <1>8. OutTypes'
    BY <1>1, <1>3, <1>5 DEF OutTypes, IsSeq
  <1>9. Output'
    <2>1. Stream' = Stream
      BY <1>3 DEF Stream
    <2> QED
      BY <1>1, <1>3, <1>4, <2>1, OutputKept
  <1>10. WholeInv'
    BY <1>1, <1>3, <1>4, WholeKept
  <1>11. LinesRead /\ LinesDone /\ RowsRight
    BY <1>4 DEF Inv, Lines
  <1>12. PICK v \in Nat \ {0} : v = MaxV
    BY <1>5, MaxAre
  <1>13. PICK h \in Nat \ {0} : h = conf.height
    BY <1>5, ConfigIs
  <1>14. /\ io.ctr \in Nat /\ io.avail \in Nat /\ io.toGo \in 0 .. h /\ io.groups \in 0 .. D - 1
         /\ io.row \in 0 .. TotalRows - 1 /\ line \in Int /\ D \in Nat \ {0} /\ TotalRows \in Nat \ {0}
    BY <1>1, <1>5, <1>13, RowsCount, DAssumption DEF IoIs, Kinds
  <1>15. /\ ~io.suspended /\ line + io.ctr = h - io.toGo /\ line + io.avail <= h
         /\ io.ctr <= io.avail
    <2>1. ~io.suspended
      BY <1>11, <1>14 DEF LinesRead
    <2>2. line + 0 + io.ctr = h - io.toGo
      BY <1>1, <1>11, <1>13, <2>1 DEF LinesRead, Taken
    <2> QED
      BY <1>1, <1>11, <1>13, <1>14, <2>1, <2>2 DEF LinesRead
  <1>16. io.toGo > 0
    BY <1>1, <1>14, <1>15
  <1>17. PICK m \in 0 .. v - 1, g \in Nat :
           /\ g = io.row * D + io.groups /\ h - io.toGo = g * v + m
           /\ io.color = Color(m, g * v)
    BY <1>11, <1>12, <1>13, <1>16 DEF LinesDone, Taken
  <1>18. PICK n \in Nat \ {0} : n = taken /\ n <= v - m /\ n <= io.toGo /\ n <= io.avail - io.ctr
    <2>1. Len(io.color) = m
      BY <1>17, ColorIs
    <2>2. taken = AtMost(v - m, io.avail - io.ctr)
      BY <1>12, <2>1 DEF taken
    <2> QED
      BY <1>1, <1>14, <1>15, <2>2 DEF AtMost
  <1>19. PICK b \in Nat : b = g * v
    BY <1>17
  <1>20. PICK color : /\ color = held /\ color = Color(m + n, b) /\ Len(color) = m + n /\ IsSeq(color)
    <2>1. PICK a : a = line + io.ctr /\ a = b + m
      BY <1>14, <1>15, <1>17, <1>19
    <2>2. PICK more : more = [i \in 1 .. n |-> a + i]
      OBVIOUS
    <2>3. held = io.color ++ more
      BY <1>18, <2>1, <2>2 DEF held, ++
    <2>4. Color(m, b) ++ more = Color(m + n, b)
      BY <1>18, <1>19, <2>1, <2>2, ColorGrows
    <2>5. m + n \in Nat
      BY <1>17, <1>18
    <2> QED
      BY <1>17, <1>19, <2>3, <2>4, <2>5, ColorIs
  <1>21. /\ io'.ctr = io.ctr + n /\ io'.avail = io.avail /\ io'.band = io.band /\ io'.row = io.row
         /\ io'.toGo = io.toGo - n /\ io'.suspended = io.suspended
         /\ io' = [band |-> io'.band, ctr |-> io'.ctr, avail |-> io'.avail, color |-> io'.color,
                    toGo |-> io'.toGo, rows |-> io'.rows, groups |-> io'.groups, row |-> io'.row,
                    suspended |-> io'.suspended]
    BY <1>2, <1>5, <1>18 DEF IoIs
  <1>22. /\ io'.color = IF io.toGo = n \/ m + n = v THEN <<>> ELSE color
         /\ io'.groups = IF io.toGo = n THEN D
                         ELSE IF io.toGo = n \/ m + n = v THEN io.groups + 1 ELSE io.groups
         /\ io'.rows = [c \in Comps |-> IF io.toGo = n THEN Padded(made_(c), D * V(c)) ELSE made_(c)]
    <2>1. /\ io'.color = IF io.toGo = taken \/ Len(held) = MaxV THEN <<>> ELSE held
          /\ io'.groups = IF io.toGo = taken THEN D
                          ELSE IF io.toGo = taken \/ Len(held) = MaxV THEN io.groups + 1
                          ELSE io.groups
      BY <1>2, <1>5 DEF IoIs
    <2>2. io'.rows = [c \in Comps |-> IF io.toGo = taken THEN Padded(made_(c), D * V(c)) ELSE made_(c)]
      BY <1>2, <1>5 DEF IoIs
    <2> QED
      BY <1>12, <1>18, <1>20, <2>1, <2>2
  <1>22a. /\ m \in Nat /\ m + n \in Nat /\ m + n <= v /\ n <= io.toGo /\ h - io.toGo = b + m
         /\ io'.toGo = io.toGo - n /\ io'.toGo \in Nat /\ (io'.toGo = 0 <=> io.toGo = n)
    <2>3. m \in Nat /\ m < v /\ n <= v - m /\ n <= io.toGo /\ io.toGo \in Nat
      BY <1>14, <1>17, <1>18
    <2>4. h - io.toGo = b + m
      BY <1>17, <1>19
    <2>5. io'.toGo = io.toGo - n
      BY <1>21
    <2> QED
      BY <2>3, <2>4, <2>5
  <1>22b. PICK e \in Nat : e = io.row * D /\ g = e + io.groups
    BY <1>14, <1>17
  <1>23. LinesRead'
    <2>1. Taken' = Taken + n /\ Taken = h - io.toGo
      BY <1>1, <1>13, <1>14, <1>18, <1>21 DEF Taken
    <2>2. io'.ctr <= io'.avail /\ line + io'.avail <= conf'.height
      BY <1>1, <1>13, <1>14, <1>15, <1>18, <1>21
    <2>3. line' + 0 + io'.ctr = Taken'
      BY <1>1, <1>14, <1>15, <1>18, <1>21, <2>1
    <2> QED
      BY <1>1, <1>15, <1>21, <2>2, <2>3 DEF LinesRead
  <1>24. IoIs' /\ LinesDone' /\ RowsRight' => Inv'
    <2>1. LinesDone' /\ RowsRight' => Lines'
      BY <1>1, <1>4, <1>23 DEF Lines
    <2> QED
      BY <1>7, <1>8, <1>9, <1>10, <2>1 DEF Inv
  <1>25. /\ \A c : Comps' = Comps /\ V(c)' = V(c)
         /\ MaxV' = MaxV /\ TotalRows' = TotalRows /\ conf' = conf /\ coef' = coef
         /\ io.row = coef.row
    BY <1>1, <1>3, <1>11, SameSizes DEF LinesDone
  <1>26. \A c, row : ImageRow(c, row)' = ImageRow(c, row)
    BY <1>1, SameRows
  <1>27. IoIs' <=> /\ io'.groups \in 0 .. D
                   /\ \A c \in Comps : IsList(io'.rows[c], io'.groups * V(c))
    <2>1. IoIs' => /\ io'.groups \in 0 .. D
                   /\ \A c \in Comps : IsList(io'.rows[c], io'.groups * V(c))
      BY <1>25 DEF IoIs, IsList
    <2>2. /\ io'.band \in Nat /\ io'.ctr \in Nat /\ io'.avail \in Nat /\ io'.toGo \in 0 .. conf'.height
          /\ io'.row \in 0 .. TotalRows' /\ io'.suspended \in BOOLEAN
      BY <1>5, <1>13, <1>14, <1>18, <1>21, <1>25 DEF IoIs
    <2>3. (\A c \in Comps : IsList(io'.rows[c], io'.groups * V(c)))
            => (\A c \in Comps : IsList(io.rows[c], io.groups * V(c)))'
      BY <1>25 DEF IsList
    <2> QED
      BY <1>21, <2>1, <2>2, <2>3 DEF IoIs
  <1>28. RowsRight' <=> \A c \in Comps : \A y \in 0 .. io'.groups * V(c) - 1 :
                            io'.rows[c][y + 1] = ImageRow(c, io.row * V(c) * D + y)
    BY <1>21, <1>25, <1>26 DEF RowsRight
  <1>29. Taken' = b + m + n
    BY <1>13, <1>14, <1>17, <1>18, <1>19, <1>21, <1>25 DEF Taken
  <1>30. LinesDone' <=> /\ io'.toGo = 0 => io.row = TotalRows - 1 /\ io'.groups = D
                        /\ io'.toGo > 0 => \E i \in 0 .. v - 1 : \E j \in Nat :
                                             /\ j = io.row * D + io'.groups
                                             /\ Taken' = j * v + i /\ io'.color = Color(i, j * v)
    <2>1. \A i, j : Color(i, j * MaxV)' = Color(i, j * MaxV)
      BY <1>25 DEF Color
    <2> QED
      BY <1>12, <1>14, <1>21, <1>25, <2>1 DEF LinesDone
  <1>31. CASE io.toGo # n /\ m + n # v
    <2>1. io'.color = color /\ io'.groups = io.groups
      BY <1>22, <1>31
    <2>2. \A c \in Comps : io'.rows[c] = io.rows[c]
      <3> TAKE c \in Comps
      <3>1. IsSeq(io.rows[c])
        <4>1. PICK k \in Nat : k = io.groups * V(c)
          BY <1>5, <1>14, CompsAre
        <4> QED
          BY <1>5, <4>1, ListIsSeq DEF IoIs
      <3>2. io'.rows[c] = made_(c)
        BY <1>22, <1>31
      <3>3. made_(c) = io.rows[c] ++ <<>>
        BY <1>12, <1>18, <1>20, <1>31 DEF made_, ++
      <3> QED
        BY <3>1, <3>2, <3>3, CatEmpty
    <2>3. IoIs'
      BY <1>5, <1>27, <2>1, <2>2 DEF IoIs
    <2>4. RowsRight'
      BY <1>11, <1>28, <2>1, <2>2 DEF RowsRight
    <2>5. m + n \in 0 .. v - 1 /\ io'.toGo > 0
      BY <1>31, <1>22a
    <2>6. LinesDone'
      <3>1. /\ g = io.row * D + io'.groups /\ Taken' = g * v + (m + n)
            /\ io'.color = Color(m + n, g * v)
        BY <1>17, <1>18, <1>19, <1>20, <1>29, <2>1
      <3> QED
        BY <1>30, <2>5, <3>1
    <2> QED
      BY <1>24, <2>3, <2>4, <2>6
  <1>32. CASE io.toGo = n \/ m + n = v
    <2>1. b + m + n <= h /\ (m + n = v \/ b + m + n = h) /\ m + n \in 1 .. v
      BY <1>13, <1>14, <1>17, <1>18, <1>19, <1>32
    <2>2. Padded(color, MaxV) = LinesOf(g)
      <3>1. PICK l \in 1 .. MaxV : l = m + n
        BY <1>12, <2>1
      <3>2. /\ color = Color(l, g * MaxV) /\ g * MaxV + l <= conf.height
            /\ l = MaxV \/ g * MaxV + l = conf.height
        BY <1>12, <1>13, <1>17, <1>18, <1>19, <1>20, <2>1, <3>1
      <3> QED
        BY <1>5, <3>2, PaddedIs
    <2>3. PICK G \in Nat \ {0} : G = Groups /\ h <= G * v /\ (G - 1) * v < h
      <3>1. PICK G \in Nat \ {0} : G = DivUp(h, v) /\ h <= G * v /\ (G - 1) * v < h
        <4>1. /\ DivUp(h, v) \in Nat /\ h <= DivUp(h, v) * v /\ (DivUp(h, v) - 1) * v < h
              /\ DivUp(h, v) > 0
          BY DivUpHas
        <4> QED
          BY <4>1
      <3> QED
        BY <1>12, <1>13, <3>1 DEF Groups
    <2>4. g \in 0 .. G - 1
      <3>1. g * v < G * v
        BY <1>17, <1>18, <1>19, <2>1, <2>3
      <3>2. g < G
        BY <3>1, Times
      <3> QED
        BY <3>2
    <2>5. ASSUME NEW c \in Comps
          PROVE  /\ IsSeq(made_(c)) /\ Len(made_(c)) = (io.groups + 1) * V(c)
                 /\ \A y \in 0 .. (io.groups + 1) * V(c) - 1 :
                        made_(c)[y + 1] = ImageRow(c, io.row * V(c) * D + y)
      <3>1. PICK lines : lines = LinesOf(g)
        OBVIOUS
      <3>2. made_(c) = io.rows[c] ++ Downsampled(c, lines)
        BY <1>12, <1>18, <1>20, <1>32, <2>2, <3>1 DEF made_, ++
      <3>3. g \in 0 .. Groups - 1
        BY <2>3, <2>4
      <3> QED
        BY <1>5, <1>11, <1>17, <3>1, <3>2, <3>3, GroupAdded
    <2>6. CASE io.toGo = n
      <3>1. io'.groups = D /\ io'.toGo = 0 /\ b + m + n = h
        BY <1>22, <1>22a, <2>6
      <3>2. G = g + 1
        <4>1. (G - 1) * v < (g + 1) * v
          <5>1. (g + 1) * v = b + v
            BY <1>17, <1>19
          <5> QED
            BY <1>17, <1>18, <1>19, <2>1, <2>3, <3>1, <5>1
        <4>2. G - 1 < g + 1
          BY <4>1, Times
        <4> QED
          BY <2>4, <4>2
      <3>3. ASSUME NEW c \in Comps
            PROVE  /\ IsList(io'.rows[c], D * V(c))
                   /\ \A y \in 0 .. D * V(c) - 1 :
                          io'.rows[c][y + 1] = ImageRow(c, io.row * V(c) * D + y)
        <4>1. io'.rows[c] = Padded(made_(c), D * V(c))
          BY <1>22, <2>6
        <4>2. PICK r \in Nat, k \in 0 .. D - 1, group \in {made_(c)} :
                r = io.row /\ k = io.groups /\ group = made_(c)
          BY <1>14
        <4>3. Groups = r * D + k + 1
          BY <1>14, <1>17, <2>3, <3>2, <4>2
        <4>4. /\ IsSeq(group) /\ Len(group) = (k + 1) * V(c)
              /\ \A y \in 0 .. (k + 1) * V(c) - 1 : group[y + 1] = ImageRow(c, r * V(c) * D + y)
          BY <2>5, <4>2
        <4>5. /\ IsList(Padded(group, D * V(c)), D * V(c))
              /\ \A y \in 0 .. D * V(c) - 1 :
                     Padded(group, D * V(c))[y + 1] = ImageRow(c, r * V(c) * D + y)
          BY <1>5, <4>3, <4>4, BottomIs
        <4> QED
          BY <4>1, <4>2, <4>5
      <3>4. IoIs'
        <4>1. io'.groups \in 0 .. D
          BY <1>14, <3>1
        <4> QED
          BY <1>27, <3>1, <3>3, <4>1
      <3>5. RowsRight'
        BY <1>28, <3>1, <3>3
      <3>6. io.row = TotalRows - 1
        <4>1. PICK size \in Nat \ {0} : size = v * D
          BY <1>14, Product
        <4>2. PICK t \in Nat \ {0} : t = TotalRows /\ (t - 1) * size < h
          <5>1. /\ DivUp(h, size) \in Nat /\ (DivUp(h, size) - 1) * size < h /\ DivUp(h, size) > 0
            BY DivUpHas
          <5>2. TotalRows = DivUp(h, size)
            BY <1>12, <1>13, <4>1 DEF TotalRows
          <5> QED
            BY <5>1, <5>2
        <4>3. h <= (io.row + 1) * size
          <5>1. g + 1 <= (io.row + 1) * D
            BY <1>14, <1>17
          <5>2. PICK p \in Nat : p = (io.row + 1) * D
            BY <1>14
          <5>3. (g + 1) * v <= p * v /\ (g + 1) * v \in Int /\ p * v \in Int
            BY <1>17, <5>1, <5>2, Times
          <5>4. p * v = (io.row + 1) * size
            <6>1. PICK q \in Nat : q = io.row + 1
              BY <1>14
            <6>2. (q * D) * v = q * (v * D)
              BY <1>14
            <6> QED
              BY <4>1, <5>2, <6>1, <6>2
          <5>5. (g + 1) * v = b + v
            BY <1>17, <1>19
          <5>6. PICK x, y \in Int : x = (g + 1) * v /\ y = p * v
            BY <5>3
          <5> QED
            BY <1>17, <1>18, <1>19, <2>1, <3>1, <5>3, <5>4, <5>5, <5>6
        <4>4. (t - 1) * size < (io.row + 1) * size
          <5>1. (t - 1) * size \in Int /\ (io.row + 1) * size \in Int
            BY <1>14
          <5>2. PICK x, y \in Int : x = (t - 1) * size /\ y = (io.row + 1) * size
            BY <5>1
          <5> QED
            BY <4>2, <4>3, <5>2
        <4>5. t - 1 < io.row + 1
          <5>1. t - 1 \in Int /\ io.row + 1 \in Int
            BY <1>14
          <5> QED
            BY <4>4, <5>1, Times
        <4> QED
          BY <1>14, <4>2, <4>5
      <3>7. LinesDone'
        BY <1>30, <3>1, <3>6
      <3> QED
        BY <1>24, <3>4, <3>5, <3>7
    <2>7. CASE io.toGo # n
      <3>1. m + n = v /\ io'.color = <<>> /\ io'.groups = io.groups + 1 /\ io'.toGo > 0
        BY <1>22, <1>32, <1>22a, <2>7
      <3>2. \A c \in Comps : io'.rows[c] = made_(c)
        BY <1>22, <2>7
      <3>3. IoIs'
        <4>1. io'.groups \in 0 .. D
          <5>1. io.groups \in 0 .. D - 1 /\ D \in Nat
            BY <1>14
          <5>2. io'.groups = io.groups + 1
            BY <3>1
          <5> QED
            BY <5>1, <5>2
        <4>2. \A c \in Comps : IsList(io'.rows[c], io'.groups * V(c))
          <5> TAKE c \in Comps
          <5>1. IsSeq(made_(c)) /\ Len(made_(c)) = io'.groups * V(c)
            BY <2>5, <3>1
          <5>2. IsList(made_(c), io'.groups * V(c))
            BY <5>1, SeqHas DEF IsList
          <5> QED
            BY <3>2, <5>2
        <4> QED
          BY <1>27, <4>1, <4>2
      <3>4. RowsRight'
        BY <1>28, <2>5, <3>1, <3>2
      <3>5. LinesDone'
        <4>1. g + 1 \in Nat /\ g + 1 = io.row * D + io'.groups
          <5>1. io.groups \in Nat /\ g \in Nat /\ g = e + io.groups
            BY <1>14, <1>17, <1>22b
          <5>2. io'.groups = io.groups + 1 /\ e = io.row * D
            BY <1>22b, <3>1
          <5>3. g + 1 = e + io'.groups
            BY <5>1, <5>2
          <5> QED
            BY <5>1, <5>2, <5>3
        <4>2. Taken' = (g + 1) * v + 0
          <5>1. (g + 1) * v = b + v
            BY <1>17, <1>19
          <5> QED
            BY <1>29, <1>22a, <3>1, <5>1
        <4>3. Color(0, (g + 1) * v) = <<>>
          <5>1. 0 \in Nat
            OBVIOUS
          <5>2. IsSeq(Color(0, (g + 1) * v)) /\ Len(Color(0, (g + 1) * v)) = 0
            BY <5>1, ColorIs
          <5> QED
            BY <5>2, SeqEq, SeqNone
        <4>4. 0 \in 0 .. v - 1
          OBVIOUS
        <4> QED
          BY <1>30, <3>1, <4>1, <4>2, <4>3, <4>4
      <3> QED
        BY <1>24, <3>3, <3>4, <3>5
    <2> QED
      BY <2>6, <2>7
  <1> QED
    BY <1>31, <1>32

-----------------------------------------------------------------------------
(* MCUs.                                                                   *)

(* The next MCU is the image's next.                                       *)
LEMMA McuIs ==
    ASSUME Inv, Busy, InData
    PROVE  /\ GoodScan(Scan) /\ Done \in 0 .. Mcus(Scan) - 1 /\ Mcus(Scan) \in Nat
           /\ Mcu = McuAt(Scan, Done)
           /\ interval = Interval(Scan) /\ DCsAre(Scan, Done, entropy.dc)
           /\ entropy.toGo = ToGoAt(interval, Done)
           /\ ~Gathering => entropy.next = NextAt(interval, Done)
           /\ ~master.startup /\ master.pass < TotalPasses
  <1>1. /\ conf \in Configs /\ Kinds /\ Passes /\ Place /\ WholeInv /\ Coder
        /\ call \in {"compress", "pass"} /\ coef.row < TotalRows
    BY DEF Inv, OutTypes, Control, InData
  <1>2. ~master.startup /\ master.pass < TotalPasses /\ GoodScan(Scan)
    BY <1>1, ScanIs DEF Passes
  <1>3. /\ Done \in 0 .. Mcus(Scan) - 1 /\ Mcus(Scan) \in Nat
        /\ AtPlace(Scan, coef.row, coef.vert, coef.mcu)
        /\ Done = Index(Scan, coef.row, coef.vert, coef.mcu)
    BY <1>1, <1>2, DoneIs
  <1>4. PICK m : m = Done
    OBVIOUS
  <1>5. CASE FullBuffer
    <2>1. PICK n \in Nat : n = (IF ~InMain THEN TotalRows ELSE coef.row + 1) /\ coef.row < n
      BY <1>1, RowsCount DEF Kinds
    <2>2. Filled(n)
      BY <1>1, <1>5, <2>1 DEF WholeInv, InMain
    <2>3. McuOfWhole = McuAt(Scan, m)
      BY <1>1, <1>2, <1>3, <1>4, <2>1, <2>2, McuOfWholeIs
    <2>4. Mcu = McuAt(Scan, Done)
      BY <1>4, <1>5, <2>3 DEF Mcu
    <2> QED
      BY <1>1, <1>2, <1>3, <2>4 DEF Coder
  <1>6. CASE ~FullBuffer
    <2>1. Len(Scans) \in Nat \ {0} /\ ~(Len(Scans) > 1) /\ ~conf.optimize
      BY <1>1, <1>6, ScansAre DEF FullBuffer, Passes
    <2>2. TotalPasses = 1
      BY <2>1 DEF TotalPasses
    <2>3. InMain /\ call = "compress"
      BY <1>1, <1>2, <2>2 DEF Passes, InMain, Kinds
    <2>4. conf.raw \/ io.groups = D
      <3>1. ~conf.raw => LinesRead
        BY <2>3 DEF Inv, Lines
      <3> QED
        BY <2>3, <3>1 DEF LinesRead
    <2>5. InputIs
      BY <2>3, <2>4, InputRight
    <2>6. McuOfInput = McuAt(Scan, m)
      BY <1>1, <1>2, <1>3, <1>4, <2>5, McuOfInputIs
    <2>7. Mcu = McuAt(Scan, Done)
      BY <1>4, <1>6, <2>6 DEF Mcu
    <2> QED
      BY <1>1, <1>2, <1>3, <2>7 DEF Coder
  <1> QED
    BY <1>5, <1>6

(* After it, one more is done.                                             *)
LEMMA OneMore ==
    ASSUME Inv, Busy, InData, state' = state, conf' = conf, master' = master, coef' = CoefAfter
    PROVE  /\ Scan' = Scan /\ Done' = Done + 1 /\ Place'
           /\ coef' \in [row : 0 .. TotalRows, vert : Nat, mcu : Nat]
           /\ coef'.row \in {coef.row, coef.row + 1}
  <1>1. conf \in Configs /\ Kinds /\ Passes /\ Place /\ coef.row < TotalRows
    BY DEF Inv, OutTypes, Control, InData
  <1>2. PICK scan : scan = Scan /\ GoodScan(scan)
    BY McuIs
  <1>3. /\ AtPlace(scan, coef.row, coef.vert, coef.mcu) /\ CoefTypes
        /\ Done = Index(scan, coef.row, coef.vert, coef.mcu)
        /\ TotalRows \in Nat \ {0} /\ coef.row \in 0 .. TotalRows
    BY <1>1, <1>2, DoneIs
  <1>4. PICK after : after = CoefAfter
    OBVIOUS
  <1>5. /\ after = [row |-> after.row, vert |-> after.vert, mcu |-> after.mcu]
        /\ \/ /\ AtPlace(scan, after.row, after.vert, after.mcu)
              /\ after.row \in {coef.row, coef.row + 1}
              /\ Index(scan, after.row, after.vert, after.mcu)
                     = Index(scan, coef.row, coef.vert, coef.mcu) + 1
           \/ /\ after = [row |-> TotalRows, vert |-> 0, mcu |-> 0] /\ coef.row = TotalRows - 1
              /\ Mcus(scan) = Index(scan, coef.row, coef.vert, coef.mcu) + 1
    BY <1>1, <1>2, <1>3, <1>4, NextPlace
  <1>6. Scan' = scan /\ TotalRows' = TotalRows
    <2>1. Scans' = Scans /\ TotalRows' = TotalRows
      BY SameScans, SameSizes
    <2> QED
      BY <1>2, <2>1 DEF Scan
  <1>7. /\ Mcus(scan)' = Mcus(scan)
        /\ \A row, vert, mcu : /\ Index(scan, row, vert, mcu)' = Index(scan, row, vert, mcu)
                               /\ AtPlace(scan, row, vert, mcu)' <=> AtPlace(scan, row, vert, mcu)
    BY SameScan, SamePlaces
  <1>8. Done' = IF after.row = TotalRows THEN Mcus(scan) ELSE Index(scan, after.row, after.vert, after.mcu)
    BY <1>4, <1>6, <1>7 DEF Done
  <1>9. Place' <=> (Busy' => IF after.row < TotalRows THEN AtPlace(scan, after.row, after.vert, after.mcu)
                             ELSE after.vert = 0 /\ after.mcu = 0)
    BY <1>4, <1>6, <1>7 DEF Place
  <1>10. CASE AtPlace(scan, after.row, after.vert, after.mcu)
    <2>1. after.row \in 0 .. TotalRows - 1 /\ after.row < TotalRows /\ after.row # TotalRows
      BY <1>3, <1>10 DEF AtPlace
    <2>2. McuRows(scan, after.row) \in Nat /\ McusPerRow(scan) \in Nat
      BY <1>1, <1>2, <2>1, RowsAre, ScanHas
    <2>3. after.vert \in Nat /\ after.mcu \in Nat
      BY <1>10, <2>2 DEF AtPlace
    <2>4. after \in [row : 0 .. TotalRows, vert : Nat, mcu : Nat]
      BY <1>3, <1>5, <2>1, <2>3
    <2>5. after.row \in {coef.row, coef.row + 1} /\ Done' = Done + 1
      BY <1>3, <1>5, <1>8, <2>1
    <2> QED
      BY <1>2, <1>4, <1>6, <1>9, <1>10, <2>1, <2>4, <2>5
  <1>11. CASE ~AtPlace(scan, after.row, after.vert, after.mcu)
    <2>1. /\ after = [row |-> TotalRows, vert |-> 0, mcu |-> 0] /\ coef.row = TotalRows - 1
          /\ Mcus(scan) = Index(scan, coef.row, coef.vert, coef.mcu) + 1
      BY <1>5, <1>11
    <2>2. after.row = TotalRows /\ after.vert = 0 /\ after.mcu = 0
      BY <2>1
    <2>3. after \in [row : 0 .. TotalRows, vert : Nat, mcu : Nat]
      BY <1>3, <2>1
    <2> QED
      BY <1>2, <1>3, <1>4, <1>6, <1>8, <1>9, <2>1, <2>2, <2>3
  <1> QED
    BY <1>10, <1>11

(* It is coded as a decoder expects.                                       *)
LEMMA McuCoded ==
    ASSUME Inv, Busy, InData
    PROVE  /\ Coded(Mcu) = ImageBlocks(Scan, interval, Done)
           /\ DCsAre(Scan, Done + 1, After(Mcu))
           /\ Counted = ToGoAt(interval, Done + 1) /\ ToGoAt(interval, Done + 1) \in 0 .. interval
           /\ NextAt(interval, Done + 1) \in 0 .. 7
           /\ ~Gathering =>
                /\ RestartMarker \o Coded(Mcu) = ImageMcu(Scan, interval, Done)
                /\ (IF Restarts THEN (entropy.next + 1) % 8 ELSE entropy.next) = NextAt(interval, Done + 1)
  <1>1. /\ conf \in Configs /\ GoodScan(Scan) /\ Mcu = McuAt(Scan, Done) /\ DCsAre(Scan, Done, entropy.dc)
        /\ entropy.toGo = ToGoAt(interval, Done) /\ Done \in 0 .. Mcus(Scan) - 1 /\ Mcus(Scan) \in Nat
    BY McuIs DEF Inv, OutTypes
  <1>2. PICK n \in Nat : n = interval
    BY DEF Inv, Kinds
  <1>3. PICK m \in Nat : m = Done /\ m + 1 \in Nat
    BY <1>1
  <1>4. /\ Restarts <=> RestartsAt(n, m)
        /\ Counted = ToGoAt(n, m + 1)
        /\ RestartsAt(n, m) => /\ NextAt(n, m) = (m \div n - 1) % 8
                               /\ NextAt(n, m + 1) = (NextAt(n, m) + 1) % 8
        /\ ~RestartsAt(n, m) => NextAt(n, m + 1) = NextAt(n, m)
    BY <1>1, <1>2, <1>3, RestartsAre
  <1>5. ToGoAt(n, m + 1) \in 0 .. n /\ NextAt(n, m + 1) \in 0 .. 7
    <2>1. PICK k \in Nat : k = m + 1
      BY <1>3
    <2>2. CASE n = 0
      BY <2>1, <2>2 DEF ToGoAt, NextAt
    <2>3. CASE n > 0
      <3>1. PICK q \in Nat, r \in 0 .. n - 1 : q = m \div n /\ r = m % n
        BY <2>3
      <3>2. ToGoAt(n, m + 1) = n - r - 1 /\ NextAt(n, m + 1) = q % 8
        BY <1>3, <2>3, <3>1 DEF ToGoAt, NextAt
      <3> QED
        BY <2>3, <3>1, <3>2
    <2> QED
      BY <2>2, <2>3
  <1>6. PICK mcu : mcu = Mcu /\ mcu = McuAt(Scan, m)
    BY <1>1, <1>3
  <1>7. Coded(mcu) = ImageBlocks(Scan, n, m) /\ DCsAre(Scan, m + 1, After(mcu))
    BY <1>1, <1>3, <1>4, <1>6, CodedIs
  <1>8. ASSUME ~Gathering
        PROVE  /\ RestartMarker \o Coded(mcu) = ImageMcu(Scan, n, m)
               /\ (IF Restarts THEN (entropy.next + 1) % 8 ELSE entropy.next) = NextAt(n, m + 1)
    <2>1. entropy.next = NextAt(n, m)
      BY <1>2, <1>3, <1>8, McuIs
    <2>2. CASE RestartsAt(n, m)
      <3>1. RestartMarker = <<<<"RST", (m \div n - 1) % 8>>>>
        BY <1>4, <2>1, <2>2 DEF RestartMarker
      <3> QED
        BY <1>4, <1>7, <2>1, <2>2, <3>1 DEF ImageMcu
    <2>3. CASE ~RestartsAt(n, m)
      <3>1. RestartMarker = <<>>
        BY <1>4, <2>3 DEF RestartMarker
      <3> QED
        BY <1>4, <1>7, <2>1, <2>3, <3>1 DEF ImageMcu
    <2> QED
      BY <2>2, <2>3
  <1> QED
    BY <1>2, <1>3, <1>4, <1>5, <1>6, <1>7, <1>8

LEMMA CoderMoves ==
    ASSUME Inv, Busy, InData, state' = state, conf' = conf, master' = master, coef' = CoefAfter,
           interval' = interval, call' # "passes", NEW next \in 0 .. 7,
           entropy' = EntropyAfter(Mcu, next), ~Gathering => next = NextAt(interval, Done + 1)
    PROVE  /\ Coder'
           /\ entropy' = [toGo |-> entropy'.toGo, next |-> entropy'.next, dc |-> entropy'.dc]
           /\ entropy'.toGo \in 0 .. interval' /\ entropy'.next \in 0 .. 7
  <1>1. Scan' = Scan /\ Done' = Done + 1
    BY OneMore
  <1>2. /\ interval = Interval(Scan) /\ DCsAre(Scan, Done + 1, After(Mcu))
        /\ Counted = ToGoAt(interval, Done + 1) /\ ToGoAt(interval, Done + 1) \in 0 .. interval
    BY McuIs, McuCoded
  <1>3. PICK t, d : t = Counted /\ d = After(Mcu) /\ entropy' = [toGo |-> t, next |-> next, dc |-> d]
    BY DEF EntropyAfter
  <1>4. entropy'.toGo = t /\ entropy'.next = next /\ entropy'.dc = d
    BY <1>3
  <1>5. PICK scan, m : scan = Scan /\ m = Done + 1
    OBVIOUS
  <1>6. Interval(scan)' = Interval(scan) /\ (DCsAre(scan, m, d)' <=> DCsAre(scan, m, d))
    BY SameScan, SamePlaces
  <1>7. /\ ToGoAt(interval, Done)' = ToGoAt(interval, m) /\ NextAt(interval, Done)' = NextAt(interval, m)
    BY <1>1, <1>5 DEF ToGoAt, NextAt
  <1>8. Gathering' <=> Gathering
    BY DEF Gathering
  <1>9. (DCsAre(Scan, Done, entropy.dc))'
    BY <1>1, <1>2, <1>3, <1>4, <1>5, <1>6
  <1>10. interval' = Interval(Scan)'
    BY <1>1, <1>2, <1>5, <1>6
  <1>11. Coder'
    BY <1>2, <1>3, <1>4, <1>5, <1>7, <1>8, <1>9, <1>10 DEF Coder
  <1> QED
    BY <1>2, <1>3, <1>4, <1>11

(* After the last MCU of an iMCU row, its lines are done.                  *)
LEMMA RowDone ==
    ASSUME Inv, Busy, InData, call = "compress", state' = state, conf' = conf,
           coef' = CoefAfter, Returns, CoefAfter.row = coef.row + 1
    PROVE  /\ IoIs' /\ Lines' /\ call' # "compress" /\ InMain' /\ line' \in Int
           /\ call' = "main" => ~conf.raw
  <1>1. /\ conf \in Configs /\ Kinds /\ IoIs /\ InMain /\ coef.row < TotalRows /\ Busy'
        /\ coef'.row = coef.row + 1
    BY DEF Inv, OutTypes, InMain, InData, Busy
  <1>2. /\ conf.raw => /\ line' = line + MaxV * D /\ call' = "none"
                       /\ io' = [io EXCEPT !.band = @ + 1]
        /\ ~conf.raw => /\ io' = [io EXCEPT !.ctr = IF io.suspended THEN @ + 1 ELSE @,
                                            !.suspended = FALSE, !.groups = 0, !.rows = NoRows,
                                            !.row = @ + 1]
                        /\ call' = "main" /\ line' = line
    <2>1. CoefAfter.row # coef.row
      BY <1>1, RowsCount DEF Kinds
    <2> QED
      BY <2>1 DEF Returns
  <1>3. /\ \A c : Comps' = Comps /\ V(c)' = V(c)
        /\ MaxV' = MaxV /\ TotalRows' = TotalRows
    BY SameSizes
  <1>4. PICK v \in Nat \ {0}, h \in Nat \ {0} : v = MaxV /\ h = conf.height
    BY <1>1, MaxAre, ConfigIs
  <1>5. /\ D \in Nat \ {0} /\ TotalRows \in Nat \ {0} /\ coef.row \in 0 .. TotalRows - 1 /\ line \in Int
    BY <1>1, RowsCount, DAssumption DEF Kinds
  <1>6. CASE conf.raw
    <2>1. line = io.band * (MaxV * D) /\ io.band = coef.row
      BY <1>1, <1>6 DEF Inv, Lines
    <2>2. PICK b \in Nat \ {0} : b = MaxV * D
      BY <1>4, <1>5, Product
    <2>3. /\ io' = [band |-> io.band + 1, ctr |-> io.ctr, avail |-> io.avail, color |-> io.color,
                    toGo |-> io.toGo, rows |-> io.rows, groups |-> io.groups, row |-> io.row,
                    suspended |-> io.suspended]
      BY <1>1, <1>2, <1>6 DEF IoIs
    <2>4. IoIs'
      <3>1. (\A c \in Comps : IsList(io.rows[c], io.groups * V(c)))'
        BY <1>1, <1>3, <2>3 DEF IoIs, IsList
      <3>2. io.band + 1 \in Nat
        BY <1>1 DEF IoIs
      <3> QED
        BY <1>1, <1>3, <2>3, <3>1, <3>2 DEF IoIs
    <2>5. line' = (coef.row + 1) * b /\ line' \in Int
      BY <1>2, <1>5, <1>6, <2>1, <2>2
    <2>6. io'.band = coef'.row /\ line' = io'.band * (MaxV' * D)
      BY <1>1, <1>3, <2>1, <2>2, <2>3, <2>5
    <2>7. Lines'
      BY <1>6, <2>6 DEF Lines
    <2> QED
      BY <1>2, <1>6, <2>4, <2>5, <2>7 DEF InMain
  <1>7. CASE ~conf.raw
    <2>1. LinesRead /\ LinesDone
      BY <1>1, <1>7 DEF Inv, Lines
    <2>2. PICK s \in {0, 1} : s = IF io.suspended THEN 1 ELSE 0
      OBVIOUS
    <2>3. io' = [band |-> io.band, ctr |-> io.ctr + s, avail |-> io.avail, color |-> io.color,
                 toGo |-> io.toGo, rows |-> NoRows, groups |-> 0, row |-> io.row + 1,
                 suspended |-> FALSE]
      <3>1. io.ctr + 0 = io.ctr
        BY <1>1 DEF IoIs
      <3>2. io = [band |-> io.band, ctr |-> io.ctr, avail |-> io.avail, color |-> io.color,
                  toGo |-> io.toGo, rows |-> io.rows, groups |-> io.groups, row |-> io.row,
                  suspended |-> io.suspended]
        BY <1>1 DEF IoIs
      <3> QED
        BY <1>1, <1>2, <1>7, <2>2, <3>1, <3>2
    <2>4. /\ io.ctr \in Nat /\ io.avail \in Nat /\ io.toGo \in 0 .. h /\ io.row = coef.row
          /\ io.groups = D /\ io.suspended \in BOOLEAN /\ io.band \in Nat
      BY <1>1, <1>4, <2>1 DEF IoIs, LinesDone, LinesRead, InData
    <2>5. /\ line + s + io.ctr = h - io.toGo /\ line + io.avail <= h /\ io.ctr + s <= io.avail
      <3>1. line + (IF io.suspended THEN 1 ELSE 0) + io.ctr = h - io.toGo
        BY <1>4, <2>1 DEF LinesRead, Taken
      <3>2. line + io.avail <= h /\ io.ctr <= io.avail /\ (io.suspended => io.ctr < io.avail)
        BY <1>4, <2>1 DEF LinesRead
      <3> QED
        BY <1>5, <2>2, <2>4, <3>1, <3>2
    <2>6. LinesRead'
      <3>1. Taken' = h - io.toGo
        BY <1>4, <2>3 DEF Taken
      <3>2. line' + 0 + io'.ctr = Taken'
        BY <1>2, <1>5, <1>7, <2>2, <2>3, <2>4, <2>5, <3>1
      <3>3. line' + io'.avail <= conf'.height /\ io'.ctr <= io'.avail
        BY <1>2, <1>4, <1>7, <2>3, <2>5
      <3> QED
        BY <1>2, <1>7, <2>3, <3>2, <3>3 DEF LinesRead
    <2>7. IoIs'
      <3>1. ASSUME NEW c \in Comps
            PROVE  IsList(NoRows[c], 0)
        BY DEF NoRows, IsList
      <3>2. \A c \in Comps : IsList(NoRows[c], 0 * V(c))
        <4> TAKE c \in Comps
        <4>1. 0 * V(c) = 0
          BY <1>1, CompsAre
        <4> QED
          BY <3>1, <4>1
      <3>3. (\A c \in Comps : IsList(io.rows[c], io.groups * V(c)))'
        BY <1>3, <2>3, <3>2 DEF IsList
      <3>4. io.ctr + s \in Nat /\ io.row + 1 \in 0 .. TotalRows /\ 0 \in 0 .. D
        BY <1>5, <2>2, <2>4
      <3> QED
        BY <1>3, <1>4, <2>3, <2>4, <3>3, <3>4 DEF IoIs
    <2>8. RowsRight'
      <3>1. \A c \in Comps : 0 .. 0 * V(c) - 1 = {}
        BY <1>1, CompsAre
      <3> QED
        BY <1>3, <2>3, <3>1 DEF RowsRight
    <2>9. io.toGo > 0 => /\ io.row + 1 < TotalRows
                         /\ \E n \in 0 .. v - 1 : \E g \in Nat :
                              /\ g = (io.row + 1) * D + 0
                              /\ h - io.toGo = g * v + n /\ io.color = Color(n, g * v)
      <3> SUFFICES ASSUME io.toGo > 0
                   PROVE  /\ io.row + 1 < TotalRows
                          /\ \E n \in 0 .. v - 1 : \E g \in Nat :
                               /\ g = (io.row + 1) * D + 0
                               /\ h - io.toGo = g * v + n /\ io.color = Color(n, g * v)
        OBVIOUS
      <3>1. PICK n \in 0 .. v - 1, g \in Nat :
              /\ g = io.row * D + io.groups
              /\ h - io.toGo = g * v + n /\ io.color = Color(n, g * v)
        BY <1>4, <2>1 DEF LinesDone, Taken
      <3>2. g = (io.row + 1) * D + 0
        BY <1>5, <2>4, <3>1
      <3>3. io.row + 1 < TotalRows
        <4>1. PICK q \in Nat : q = io.row + 1 /\ g = q * D
          BY <1>5, <2>4, <3>2
        <4>2. PICK b \in Nat \ {0} : b = v * D
          BY <1>5, Product
        <4>3. g * v = q * b
          BY <1>5, <4>1, <4>2
        <4>4. h <= TotalRows * b
          <5>1. h <= DivUp(h, b) * b
            BY DivUpHas
          <5>2. TotalRows = DivUp(h, b)
            BY <1>4, <4>2 DEF TotalRows
          <5> QED
            BY <5>1, <5>2
        <4>5. q * b < TotalRows * b
          <5>1. PICK x, y \in Int : x = q * b /\ y = TotalRows * b
            BY <1>5, <4>1
          <5>2. h - io.toGo = x + n /\ h <= y
            BY <3>1, <4>3, <4>4, <5>1
          <5> QED
            BY <2>4, <5>1, <5>2
        <4> QED
          BY <1>5, <4>1, <4>5, Times
      <3> QED
        BY <3>1, <3>2, <3>3
    <2>10. io.toGo = 0 => io.row + 1 = TotalRows
      BY <1>5, <2>1, <2>4 DEF LinesDone
    <2>11. LinesDone'
      <3>1. \A n, g : Color(n, g * MaxV)' = Color(n, g * v)
        BY <1>3, <1>4 DEF Color
      <3>2. io'.toGo = io.toGo /\ io'.row = io.row + 1 /\ io'.groups = 0 /\ io'.color = io.color
        BY <2>3
      <3>3. Taken' = h - io.toGo
        BY <1>4, <2>3 DEF Taken
      <3>4. io'.toGo > 0 => \E n \in 0 .. MaxV' - 1 : \E g \in Nat :
                              /\ g = io'.row * D + io'.groups
                              /\ Taken' = g * MaxV' + n /\ io'.color = Color(n, g * MaxV)'
        <4> SUFFICES ASSUME io'.toGo > 0
                     PROVE  \E n \in 0 .. MaxV' - 1 : \E g \in Nat :
                              /\ g = io'.row * D + io'.groups
                              /\ Taken' = g * MaxV' + n /\ io'.color = Color(n, g * MaxV)'
          OBVIOUS
        <4>1. PICK n \in 0 .. v - 1, g \in Nat :
                /\ g = (io.row + 1) * D + 0
                /\ h - io.toGo = g * v + n /\ io.color = Color(n, g * v)
          BY <2>9, <3>2
        <4> QED
          BY <1>3, <1>4, <3>1, <3>2, <3>3, <4>1
      <3>5. io'.row = coef'.row
        BY <1>1, <2>4, <3>2
      <3>6. io'.row = TotalRows' => io'.toGo = 0 /\ io'.groups = 0
        BY <1>3, <1>5, <2>4, <2>9, <3>2
      <3>7. ~(io'.row < TotalRows' /\ io'.toGo = 0)
        BY <1>3, <1>5, <2>4, <2>10, <3>2
      <3> QED
        BY <3>4, <3>5, <3>6, <3>7 DEF LinesDone
    <2>12. Lines'
      BY <1>7, <2>6, <2>8, <2>11 DEF Lines
    <2> QED
      BY <1>2, <1>5, <1>7, <2>7, <2>12 DEF InMain
  <1> QED
    BY <1>6, <1>7

(* All but the output, after an MCU.                                       *)
LEMMA McuDone ==
    ASSUME Inv, Busy, InData, NEW next \in 0 .. 7, entropy' = EntropyAfter(Mcu, next),
           ~Gathering => next = NextAt(interval, Done + 1), coef' = CoefAfter, Returns,
           UNCHANGED <<conf, state, image, master, whole, interval, begun, complete>>
    PROVE  /\ Kinds' /\ IoIs' /\ Control' /\ Place' /\ Lines' /\ WholeInv' /\ Coder' /\ Ended'
           /\ Scan' = Scan /\ Done' = Done + 1 /\ call' # "passes"
  <1>1. /\ conf \in Configs /\ Kinds /\ IoIs /\ Passes /\ Lines /\ WholeInv /\ coef.row < TotalRows
        /\ call \in {"compress", "pass"} /\ ~master.startup /\ Busy' /\ state' # "START"
    BY McuIs DEF Inv, OutTypes, Control, InData, Busy
  <1>2. /\ Scan' = Scan /\ Done' = Done + 1 /\ Place' /\ coef'.row \in {coef.row, coef.row + 1}
        /\ coef' \in [row : 0 .. TotalRows, vert : Nat, mcu : Nat]
    BY OneMore
  <1>3. /\ TotalRows' = TotalRows /\ TotalPasses' = TotalPasses /\ FullBuffer' = FullBuffer
        /\ ScriptIsValid'
    BY <1>1, SameSizes, SameScans DEF Passes
  <1>4. coef.row \in 0 .. TotalRows - 1 /\ TotalRows \in Nat \ {0}
    BY <1>1, RowsCount DEF Kinds
  <1>5. Ended'
    BY <1>1 DEF Ended
  <1>6. /\ (InMain' <=> InMain) /\ line' \in Int /\ IoIs' /\ Lines' /\ call' # "passes"
        /\ call' \in {"none", "main", "compress", "pass"}
        /\ call' = "main" => ~conf.raw
        /\ call' = "pass" => call = "pass"
        /\ call' = "compress" => coef'.row = coef.row
        /\ InMain' /\ call' # "compress" => coef'.row = coef.row + 1
    <2>1. CASE call = "pass"
      <3>1. UNCHANGED <<line, call, io>>
        BY <2>1 DEF Returns
      <3>2. ~InMain' /\ ~InMain
        BY <2>1, <3>1 DEF InMain
      <3> QED
        BY <1>1, <2>1, <3>1, <3>2, IoKept DEF Kinds, Lines
    <2>2. CASE call = "compress" /\ coef'.row = coef.row
      <3>1. UNCHANGED <<line, call, io>>
        BY <2>2 DEF Returns
      <3>2. InMain' /\ InMain
        BY <2>2, <3>1 DEF InMain
      <3>3. IoIs' /\ line' \in Int
        BY <1>1, <3>1, IoKept DEF Kinds
      <3>4. Lines'
        <4>1. CASE conf.raw
          <5>1. MaxV' = MaxV
            BY SameSizes
          <5> QED
            BY <1>1, <2>2, <3>1, <3>2, <4>1, <5>1 DEF Lines
        <4>2. CASE ~conf.raw
          <5>1. LinesRead /\ LinesDone /\ RowsRight
            BY <1>1, <3>2, <4>2 DEF Lines
          <5>2. LinesDone' /\ RowsRight'
            BY <2>2, <3>1, <5>1, DoneKept, RowsKept
          <5>3. LinesRead'
            BY <3>1, <5>1 DEF LinesRead, Taken
          <5> QED
            BY <4>2, <5>2, <5>3 DEF Lines
        <4> QED
          BY <4>1, <4>2
      <3> QED
        BY <2>2, <3>1, <3>2, <3>3, <3>4
    <2>3. CASE call = "compress" /\ coef'.row = coef.row + 1
      <3>1. InMain
        BY <2>3 DEF InMain
      <3>2. /\ IoIs' /\ Lines' /\ call' # "compress" /\ InMain' /\ line' \in Int
            /\ call' = "main" => ~conf.raw
        BY <2>3, RowDone
      <3>3. call' \in {"none", "main"}
        BY <3>2 DEF InMain
      <3> QED
        BY <2>3, <3>1, <3>2, <3>3
    <2> QED
      BY <1>1, <1>2, <2>1, <2>2, <2>3
  <1>7. /\ Coder'
        /\ entropy' = [toGo |-> entropy'.toGo, next |-> entropy'.next, dc |-> entropy'.dc]
        /\ entropy'.toGo \in 0 .. interval' /\ entropy'.next \in 0 .. 7
    BY <1>6, CoderMoves
  <1>8. Kinds'
    BY <1>1, <1>2, <1>3, <1>6, <1>7 DEF Kinds
  <1>9. Control'
    <2>1. Passes'
      <3>1. call' = "compress" => coef'.row < TotalRows'
        BY <1>1, <1>3, <1>6
      <3> QED
        BY <1>1, <1>3, <1>6, <3>1 DEF Passes
    <2> QED
      BY <1>1, <2>1 DEF Control
  <1>10. WholeInv'
    <2>1. ASSUME FullBuffer
          PROVE  Filled(IF ~InMain THEN TotalRows ELSE IF call = "compress" THEN coef.row + 1 ELSE coef.row)'
      <3>1. PICK n \in Nat : n = IF ~InMain THEN TotalRows ELSE coef.row + 1
        BY <1>4
      <3>2. Filled(n)
        BY <1>1, <2>1, <3>1 DEF WholeInv, InMain
      <3>3. Filled(n)'
        <4>1. n <= n
          BY <3>1
        <4> QED
          BY <1>1, <3>2, <4>1, FilledKept
      <3>4. (IF ~InMain THEN TotalRows ELSE IF call = "compress" THEN coef.row + 1 ELSE coef.row)' = n
        BY <1>3, <1>6, <3>1
      <3> QED
        BY <3>3, <3>4
    <2> QED
      BY <1>3, <2>1 DEF WholeInv
  <1> QED
    BY <1>2, <1>5, <1>6, <1>7, <1>8, <1>9, <1>10

LEMMA GatherKeeps == ASSUME Inv, GatherMCU PROVE Inv'
  <1>1. /\ InData /\ Gathering /\ entropy' = EntropyAfter(Mcu, entropy.next)
        /\ coef' = CoefAfter /\ Returns
        /\ UNCHANGED <<conf, state, image, master, whole, interval, outVars, historyVars>>
    BY DEF GatherMCU
  <1>2. Busy
    BY <1>1 DEF Inv, Control, InData
  <1>3. UNCHANGED <<begun, complete, buf, file>> /\ OutTypes
    BY <1>1 DEF historyVars, outVars, Inv
  <1>4. PICK next \in 0 .. 7 : next = entropy.next
    BY DEF Inv, Kinds
  <1>5. /\ Kinds' /\ IoIs' /\ Control' /\ Place' /\ Lines' /\ WholeInv' /\ Coder' /\ Ended'
        /\ Scan' = Scan /\ Done' = Done + 1 /\ call' # "passes"
    BY <1>1, <1>2, <1>3, <1>4, McuDone
  <1>6. OutTypes'
    BY <1>1, <1>3 DEF OutTypes, IsSeq
  <1>7. Output'
    <2>1. Stream' = Stream
      BY <1>3 DEF Stream
    <2>2. Data(Stream)' = Data(Stream)
      <3>1. Data(Stream)' = Data(Stream')
        BY DEF Data, IsTable
      <3> QED
        BY <2>1, <3>1
    <2>3. ~HeaderOut' /\ ~HeaderOut /\ Opening' = Opening
      BY <1>1 DEF HeaderOut, Gathering, Opening
    <2>4. Before(master.scan)' = Before(master.scan)
      <3>1. \A s : Before(s)' = Before(s)
        BY <1>1, SameImage
      <3> QED
        BY <1>1, <3>1
    <2> QED
      BY <1>1, <1>2, <2>2, <2>3, <2>4 DEF Inv, Output
  <1> QED
    BY <1>5, <1>6, <1>7 DEF Inv

(* What an MCU adds.                                                       *)
LEMMA McuWritten ==
    ASSUME Inv, Busy, InData, ~Gathering, NEW tokens, tokens = RestartMarker \o Coded(Mcu)
    PROVE  /\ IsSeq(tokens) /\ IsSeq(Image)
           /\ Data(Stream ++ tokens) = Before(master.scan) ++ Part(Scan, Done + 1)
           /\ IsPrefix(Data(Stream ++ tokens), Image)
  <1>1. /\ conf \in Configs /\ Kinds /\ Passes /\ OutTypes /\ ScriptIsValid
        /\ call \in {"compress", "pass"}
    BY DEF Inv, OutTypes, Control, Passes, InData
  <1>2. /\ GoodScan(Scan) /\ Done \in 0 .. Mcus(Scan) - 1 /\ Mcus(Scan) \in Nat
        /\ interval = Interval(Scan) /\ ~master.startup /\ master.pass < TotalPasses
    BY McuIs
  <1>3. tokens = ImageMcu(Scan, interval, Done)
    BY McuCoded
  <1>4. IsSeq(tokens) /\ Data(tokens) = tokens
    BY <1>1, <1>2, <1>3, McuTokens
  <1>5. PICK m \in Nat : m = Done /\ m + 1 \in 0 .. Mcus(Scan)
    BY <1>2
  <1>6. PICK s \in 1 .. Len(Scans) : s = master.scan /\ Scan = Scans[s] /\ s \in 1 .. Len(Scans) + 1
    BY <1>1, <1>2, ScanIs DEF Scan
  <1>7. PICK b, p : b = Before(s) /\ IsSeq(b) /\ p = Part(Scan, m) /\ IsSeq(p)
    BY <1>1, <1>2, <1>6, Pieces, Parts
  <1>8. Data(Stream) = b ++ p
    <2>1. HeaderOut
      BY <1>1, <1>2 DEF HeaderOut
    <2> QED
      BY <1>5, <1>6, <1>7, <2>1 DEF Inv, Output
  <1>9. Part(Scan, m + 1) = p ++ tokens
    BY <1>1, <1>2, <1>3, <1>5, <1>7, Parts
  <1>10. Data(Stream ++ tokens) = b ++ Part(Scan, m + 1)
    <2>1. Data(Stream ++ tokens) = (b ++ p) ++ tokens
      <3>1. Data(Stream ++ tokens) = Data(Stream) ++ Data(tokens)
        BY <1>1, <1>4, StreamIsSeq, DataCat
      <3> QED
        BY <1>4, <1>8, <3>1, Zenon
    <2> QED
      BY <1>4, <1>7, <1>9, <2>1, CatAssoc
  <1>11. IsPrefix(b ++ Part(Scan, m + 1), Image) /\ IsSeq(Image)
    BY <1>1, <1>5, <1>6, <1>7, Pieces
  <1> QED
    BY <1>4, <1>5, <1>6, <1>7, <1>10, <1>11

LEMMA EncodeKeeps == ASSUME Inv, EncodeMCU PROVE Inv'
  <1>1. InData /\ ~Gathering /\ Busy /\ conf \in Configs /\ OutTypes
    BY DEF EncodeMCU, Inv, OutTypes, Control, InData
  <1>2. PICK tokens : tokens = RestartMarker \o Coded(Mcu)
    OBVIOUS
  <1>3. /\ IsSeq(tokens) /\ IsSeq(Image)
        /\ Data(Stream ++ tokens) = Before(master.scan) ++ Part(Scan, Done + 1)
        /\ IsPrefix(Data(Stream ++ tokens), Image)
    BY <1>1, <1>2, McuWritten
  <1>4. CASE EmitFails(tokens)
    <2>1. /\ Dumps(tokens) * conf.size \in 0 .. Len(buf ++ tokens) /\ IsSeq(buf ++ tokens)
      BY <1>1, <1>3, DumpsAre
    <2>2. PICK k \in Nat : k = Dumps(tokens) * conf.size /\ k <= Len(buf ++ tokens) + 1
      <3>1. Len(buf ++ tokens) \in Nat
        BY <2>1, SeqHas
      <3> QED
        BY <2>1, <3>1
    <2>3. FailsWithin(tokens, k)
      BY <1>4, <2>2, Zenon DEF EmitFails
    <2> QED
      BY <1>1, <1>3, <2>2, <2>3, FailsKeeps
  <1>5. CASE ~EmitFails(tokens)
    <2>1. /\ Emit(tokens)
          /\ entropy' = EntropyAfter(Mcu, IF Restarts THEN (entropy.next + 1) % 8 ELSE entropy.next)
          /\ coef' = CoefAfter /\ Returns
          /\ UNCHANGED <<conf, state, image, master, whole, interval, begun, complete>>
      BY <1>2, <1>5, Zenon DEF EncodeMCU
    <2>2. PICK next \in 0 .. 7 : /\ next = (IF Restarts THEN (entropy.next + 1) % 8 ELSE entropy.next)
                                 /\ next = NextAt(interval, Done + 1)
      BY <1>1, McuCoded
    <2>3. entropy' = EntropyAfter(Mcu, next)
      BY <2>1, <2>2
    <2>4. /\ Kinds' /\ IoIs' /\ Control' /\ Place' /\ Lines' /\ WholeInv' /\ Coder' /\ Ended'
          /\ Scan' = Scan /\ Done' = Done + 1 /\ call' # "passes"
      BY <1>1, <2>1, <2>2, <2>3, McuDone
    <2>5. OutTypes' /\ Stream' = Stream ++ tokens
      BY <1>1, <1>3, <2>1, Emits
    <2>6. Output'
      <3>1. HeaderOut'
        <4>1. ~master.startup
          BY <1>1, McuIs
        <4> QED
          BY <1>1, <2>1, <2>4, <4>1 DEF HeaderOut, Gathering
      <3>2. /\ \A scan, m : Part(scan, m)' = Part(scan, m)
            /\ \A s : Before(s)' = Before(s)
        BY <2>1, SameImage
      <3>3. Before(master.scan)' = Before(master.scan) /\ Part(Scan, Done)' = Part(Scan, Done + 1)
        BY <2>1, <2>4, <3>2
      <3>4. Data(Stream)' = Data(Stream ++ tokens)
        <4>1. Data(Stream)' = Data(Stream')
          BY DEF Data, IsTable
        <4> QED
          BY <2>5, <4>1
      <3>5. Data(Stream)' = Before(master.scan)' ++ Part(Scan, Done)'
        BY <1>3, <3>3, <3>4
      <3> QED
        BY <3>1, <3>5 DEF Output, ++
    <2> QED
      BY <2>4, <2>5, <2>6 DEF Inv
  <1> QED
    BY <1>4, <1>5

-----------------------------------------------------------------------------
(* The first state.                                                        *)

LEMMA PassCount ==
    ASSUME conf \in Configs
    PROVE  TotalPasses \in Nat
  <1>1. conf \in Config
    BY ConfigsAssumption
  <1>2. PICK script : script = conf.scans
    OBVIOUS
  <1>3. script \in ScanScripts
    BY <1>1, <1>2 DEF Config
  <1>4. Len(script) \in Nat
    BY <1>3 DEF ScanScripts
  <1>5. Len(Scans) \in Nat
    <2>1. CASE script = <<>>
      <3>1. PICK f : f = [c \in Comps |-> c]
        OBVIOUS
      <3>2. Scans = <<f>>
        BY <1>2, <2>1, <3>1 DEF Scans
      <3> QED
        BY <3>2
    <2>2. CASE script # <<>>
      BY <1>2, <1>4, <2>2 DEF Scans
    <2> QED
      BY <2>1, <2>2
  <1> QED
    BY <1>5 DEF TotalPasses

LEMMA EmptyRows ==
    ASSUME conf \in Configs
    PROVE  \A c \in Comps : NoRows[c] = <<>> /\ IsList(NoRows[c], 0 * V(c))
  <1>1. \A c \in Comps : NoRows[c] = <<>> /\ IsList(NoRows[c], 0)
    BY DEF NoRows, IsList
  <1>2. \A c \in Comps : 0 * V(c) = 0
    BY CompsAre
  <1> QED
    BY <1>1, <1>2

LEMMA InitHolds == ASSUME Init PROVE Inv
  <1>1. conf \in Configs /\ TotalPasses \in Nat /\ TotalRows \in Nat \ {0} /\ conf.height \in Nat \ {0}
    BY PassCount, RowsCount, ConfigIs DEF Init
  <1>2. ~Busy /\ state = "START" /\ call = "none" /\ buf = <<>> /\ image = 0
    BY DEF Init, Busy
  <1>3. OutTypes
    <2>1. conf.size \in Nat \ {0}
      BY <1>1, ConfigSize
    <2>2. file = <<>> /\ begun = 0
      BY DEF Init
    <2>3. IsSeq(<<>>) /\ Len(<<>>) = 0
      BY SeqNone
    <2>4. 0 \in 0 .. 0 /\ 0 < conf.size
      BY <2>1
    <2> QED
      BY <1>1, <1>2, <2>2, <2>3, <2>4 DEF OutTypes
  <1>4. Kinds
    <2>1. master = [type |-> "main", scan |-> 1, pass |-> 0, startup |-> FALSE]
      BY DEF Init
    <2>2. master \in [type : {"main", "gather", "output"}, scan : Nat \ {0}, pass : 0 .. TotalPasses,
                      startup : BOOLEAN]
      BY <1>1, <2>1
    <2>3. coef \in [row : 0 .. TotalRows, vert : Nat, mcu : Nat]
      BY <1>1 DEF Init
    <2>4. /\ entropy = [toGo |-> entropy.toGo, next |-> entropy.next, dc |-> entropy.dc]
          /\ entropy.toGo \in 0 .. interval /\ entropy.next \in 0 .. 7
      BY DEF Init
    <2>5. line \in Int /\ interval \in Nat
      BY DEF Init
    <2> QED
      BY <1>2, <2>2, <2>3, <2>4, <2>5 DEF Kinds
  <1>5. IoIs
    <2>1. io = [band |-> 0, ctr |-> 0, avail |-> 0, color |-> <<>>, toGo |-> 0, rows |-> NoRows,
                groups |-> 0, row |-> 0, suspended |-> FALSE]
      BY DEF Init
    <2>2. \A c \in Comps : IsList(io.rows[c], io.groups * V(c))
      BY <1>1, <2>1, EmptyRows
    <2> QED
      BY <1>1, <2>1, <2>2, DAssumption DEF IoIs
  <1> QED
    BY <1>2, <1>3, <1>4, <1>5 DEF Inv, Control, Place, Lines, WholeInv, Coder, Output, Ended

-----------------------------------------------------------------------------
(* An image is begun.                                                      *)

LEMMA IntervalIs ==
    ASSUME conf \in Configs, NEW scan, GoodScan(scan)
    PROVE  Interval(scan) \in Nat
  <1>1. conf.inRows \in Nat /\ conf.interval \in Nat
    BY ConfigIs
  <1>2. McusPerRow(scan) \in Nat
    BY ScanHas
  <1>3. PICK a : a = conf.inRows * McusPerRow(scan) /\ a \in Nat
    BY <1>1, <1>2
  <1>4. MaxInterval \in Nat
    BY DEF MaxInterval
  <1>5. AtMost(a, MaxInterval) \in Nat
    BY <1>3, <1>4 DEF AtMost
  <1> QED
    BY <1>1, <1>3, <1>5 DEF Interval

(* SOI and the markers after it leave the buffer not full.                 *)
LEMMA OpeningFits ==
    ASSUME OutTypes, buf = <<>>
    PROVE  /\ Dumps(Opening) = 0 /\ Total(Opening) = Opening /\ Len(Opening) = 2
           /\ Written(Opening, 0) = <<>> /\ Len(Opening) < conf.size
           /\ SubSeq(Opening, 0 * conf.size + 1, Len(Opening)) = Opening
  <1>1. IsSeq(Opening) /\ Len(Opening) = 2
    <2>1. Len(Opening) = 2
      BY DEF Opening
    <2> QED
      BY <2>1, Markers
  <1>2. PICK z \in Nat : z = conf.size /\ z > 2
    BY ConfigSize DEF OutTypes
  <1>3. Total(Opening) = Opening
    <2>1. <<>> ++ Opening = Opening
      BY <1>1, CatEmpty
    <2> QED
      BY <2>1 DEF Total, ++
  <1>4. Dumps(Opening) = 0
    <2>1. PICK q \in Int, r \in Int : q = 2 \div z /\ r = 2 % z
      BY <1>2
    <2>2. r \in 0 .. z - 1 /\ 2 = z * q + r /\ q \in Nat
      BY <1>2, <2>1
    <2>3. q = 0
      <3>1. CASE q >= 1
        <4>1. 1 * z <= q * z
          BY <1>2, <2>2, <3>1, Times
        <4>2. z * q = q * z /\ 1 * z = z
          BY <1>2, <2>2
        <4> QED
          BY <1>2, <2>2, <4>1, <4>2
      <3> QED
        BY <2>2, <3>1
    <2> QED
      BY <1>1, <1>2, <1>3, <2>1, <2>3 DEF Dumps
  <1>5. 0 * conf.size = 0
    BY <1>2
  <1>6. Written(Opening, 0) = <<>>
    <2>1. SubSeq(Opening, 1, 0) = <<>>
      BY SubSeqOf, SubSeqEmpty
    <2> QED
      BY <1>3, <1>5, <2>1 DEF Written
  <1>7. SubSeq(Opening, 1, Len(Opening)) = Opening
    <2>1. PICK s : s = SubSeq(Opening, 1, 2)
      OBVIOUS
    <2>2. PICK o, n : o = Opening /\ IsSeq(o) /\ n = 2 /\ n \in Nat /\ n <= Len(o)
      BY <1>1
    <2>3. /\ IsSeq(SubSeq(o, 1, n)) /\ Len(SubSeq(o, 1, n)) = IF 1 <= n THEN n - 1 + 1 ELSE 0
          /\ \A i \in 1 .. n - 1 + 1 : SubSeq(o, 1, n)[i] = o[1 + i - 1]
      BY <2>2, SubSeqOf
    <2>4. IsSeq(s) /\ Len(s) = 2 /\ \A i \in 1 .. 2 : s[i] = Opening[1 + i - 1]
      BY <2>1, <2>2, <2>3
    <2>5. \A i \in 1 .. 2 : s[i] = Opening[i]
      BY <2>4
    <2> QED
      BY <1>1, <2>1, <2>4, <2>5, SeqEq
  <1> QED
    BY <1>1, <1>2, <1>3, <1>4, <1>5, <1>6, <1>7

(* The opening of an image.                                                *)
LEMMA Opens ==
    ASSUME OutTypes, buf = <<>>, Emit(Opening), begun' = Len(file)
    PROVE  file' = file /\ buf' = Opening /\ Stream' = Opening
  <1>1. PICK l \in Nat : l = Len(file)
    BY SeqHas DEF OutTypes
  <1>2. file' = file /\ buf' = Opening
    <2>1. /\ Dumps(Opening) = 0 /\ Total(Opening) = Opening /\ Written(Opening, 0) = <<>>
          /\ SubSeq(Opening, 0 * conf.size + 1, Len(Opening)) = Opening
      BY OpeningFits
    <2>2. file' = file ++ <<>> /\ buf' = Opening
      BY <2>1 DEF Emit, ++
    <2>3. file ++ <<>> = file
      BY CatEmpty DEF OutTypes
    <2> QED
      BY <2>2, <2>3
  <1>3. Beyond(file, l) = <<>>
    <2>1. IsSeq(file) /\ l \in 0 .. Len(file)
      BY <1>1 DEF OutTypes
    <2>2. PICK s : s = Beyond(file, l)
      OBVIOUS
    <2>3. IsSeq(s) /\ Len(s) = 0
      BY <1>1, <2>1, <2>2, TwoParts
    <2> QED
      BY <2>2, <2>3, SeqNone, SeqEq
  <1>4. Stream' = <<>> ++ Opening
    BY <1>1, <1>2, <1>3 DEF Stream, Beyond, ++
  <1> QED
    BY <1>2, <1>4, CatEmpty, Markers

LEMMA StartKeeps == ASSUME Inv, StartCompress PROVE Inv'
  <1>1. /\ OutTypes /\ Kinds /\ IoIs /\ Control /\ Ended /\ ~Busy /\ buf = <<>> /\ call = "none"
        /\ state = "START" /\ conf \in Configs
    BY DEF Inv, StartCompress, Control, Busy, OutTypes
  <1>2. IsSeq(Opening) /\ Dumps(Opening) = 0 /\ Total(Opening) = Opening /\ Len(Opening) < conf.size
    BY <1>1, OpeningFits, Markers
  <1>3. ~EmitFails(Opening)
    <2>1. Dumps(Opening) * conf.size = 0
      BY <1>1, <1>2, ConfigSize
    <2> QED
      BY <2>1 DEF EmitFails, FailsWithin
  <1>4. CASE ~ScriptIsValid /\ Exits /\ UNCHANGED file
    <2>1. /\ buf' = buf /\ begun' = begun /\ conf' = conf /\ state' = "exited" /\ call' = "none"
          /\ UNCHANGED <<clientVars, passVars, tableVars, historyVars>> /\ file' = file
      BY <1>1, <1>4 DEF Exits, historyVars, clientVars
    <2>2. OutTypes'
      BY <1>1, <2>1 DEF OutTypes, IsSeq
    <2>3. Stream' = Stream
      BY <2>1 DEF Stream
    <2>4. image > 0 => IsPrefix(Data(Stream'), Image) /\ (complete => Data(Stream') = Image)
      BY <1>1, <2>3 DEF Ended
    <2> QED
      BY <2>1, <2>2, <2>4, ExitKeeps
  <1>5. CASE /\ ScriptIsValid /\ Emit(Opening)
             /\ image' = image + 1 /\ line' = 0
             /\ state' = IF conf.raw THEN "RAW_OK" ELSE "SCANNING"
             /\ io' = [band |-> 0, ctr |-> 0, avail |-> 0, color |-> <<>>, toGo |-> conf.height,
                       rows |-> NoRows, groups |-> 0, row |-> 0, suspended |-> FALSE]
             /\ master' = [type |-> "main", scan |-> 1, pass |-> 0, startup |-> ~conf.optimize]
             /\ coef' = CoefStart /\ whole' = NoRows
             /\ interval' = Interval(Scans[1]) /\ entropy' = EntropyStart(interval')
             /\ begun' = Len(file) /\ complete' = FALSE
             /\ UNCHANGED <<conf, call>>
    <2>1. conf' = conf /\ call' = "none" /\ conf.optimize \in BOOLEAN /\ conf.raw \in BOOLEAN
      BY <1>1, <1>5, ConfigIs
    <2>2. file' = file /\ buf' = Opening /\ Stream' = Opening
      BY <1>1, <1>5, Opens
    <2>3. OutTypes'
      <3>1. Len(file) \in Nat
        BY <1>1, SeqHas DEF OutTypes
      <3>2. IsSeq(file) /\ begun' \in 0 .. Len(file')
        BY <1>1, <1>5, <2>2, <3>1 DEF OutTypes
      <3> QED
        BY <1>1, <1>2, <2>1, <2>2, <3>2 DEF OutTypes, IsSeq
    <2>4. Data(Stream)' = Opening
      <3>1. Data(Stream)' = Data(Stream') /\ Data(Opening) = Opening
        BY Markers DEF Data, IsTable
      <3> QED
        BY <2>2, <3>1
    <2>5. /\ TotalRows' = TotalRows /\ TotalPasses' = TotalPasses /\ ScriptIsValid' /\ Scans' = Scans
          /\ TotalRows \in Nat \ {0} /\ TotalPasses \in Nat /\ conf.height \in Nat \ {0}
      BY <1>1, <1>5, <2>1, SameSizes, SameScans, RowsCount, PassCount, ConfigIs
    <2>6. /\ master'.type = "main" /\ master'.scan = 1 /\ master'.pass = 0
          /\ master'.startup = ~conf.optimize
          /\ coef'.row = 0 /\ coef'.vert = 0 /\ coef'.mcu = 0
      BY <1>5 DEF CoefStart
    <2>7. PICK scan : scan = Scans[1] /\ GoodScan(scan)
      BY <1>1, <1>5, ScansAre
    <2>8. Scan' = scan
      BY <2>5, <2>6, <2>7 DEF Scan
    <2>9. Interval(scan) \in Nat /\ interval' = Interval(scan) /\ Interval(scan)' = Interval(scan)
      BY <1>1, <1>5, <2>1, <2>7, IntervalIs, SameScan
    <2>10. entropy'.toGo = interval' /\ entropy'.next = 0 /\ entropy'.dc = NoDCs
      BY <1>5 DEF EntropyStart
    <2>11. Kinds'
      <3>1. master' \in [type : {"main", "gather", "output"}, scan : Nat \ {0}, pass : 0 .. TotalPasses,
                         startup : BOOLEAN]
        BY <1>5, <2>1, <2>5
      <3>2. coef' \in [row : 0 .. TotalRows, vert : Nat, mcu : Nat]
        BY <1>5, <2>5 DEF CoefStart
      <3>3. /\ entropy' = [toGo |-> entropy'.toGo, next |-> entropy'.next, dc |-> entropy'.dc]
            /\ entropy'.toGo \in 0 .. interval' /\ entropy'.next \in 0 .. 7
        BY <1>5, <2>9 DEF EntropyStart
      <3>4. state' \in {"START", "RAW_OK", "SCANNING", "exited"} /\ image' \in Nat /\ line' \in Int
        BY <1>1, <1>5 DEF Kinds
      <3> QED
        BY <2>1, <2>5, <2>9, <3>1, <3>2, <3>3, <3>4 DEF Kinds
    <2>12. /\ io'.band = 0 /\ io'.ctr = 0 /\ io'.avail = 0 /\ io'.color = <<>> /\ io'.toGo = conf.height
           /\ io'.rows = NoRows /\ io'.groups = 0 /\ io'.row = 0 /\ io'.suspended = FALSE
      BY <1>5
    <2>13. \A c \in Comps : NoRows[c] = <<>> /\ IsList(NoRows[c], 0 * V(c))
      BY <1>1, EmptyRows
    <2>14. \A c : Comps' = Comps /\ V(c)' = V(c) /\ MaxV' = MaxV
      BY <2>1, SameSizes
    <2>15. IoIs'
      <3>1. (\A c \in Comps : IsList(io.rows[c], io.groups * V(c)))'
        BY <2>12, <2>13, <2>14 DEF IsList
      <3> QED
        BY <1>5, <2>1, <2>5, <2>12, <3>1, DAssumption DEF IoIs
    <2>16. Control'
      <3>1. image' > 0
        BY <1>1, <1>5 DEF Kinds
      <3>2. state' = (IF conf.raw THEN "RAW_OK" ELSE "SCANNING") /\ ~complete'
        BY <1>5
      <3>3. InMain' /\ call' = "none"
        BY <2>1 DEF InMain
      <3>4. coef' = CoefStart' /\ master'.type = "main" /\ master'.pass = master'.scan - 1
        BY <1>5, <2>6 DEF CoefStart
      <3>5. Passes'
        <4>1. /\ ScriptIsValid' /\ ~complete' /\ image' > 0 /\ conf' = conf
              /\ state' = (IF conf.raw THEN "RAW_OK" ELSE "SCANNING")
          BY <2>1, <2>5, <3>1, <3>2
        <4>2. /\ call' = "none" /\ InMain' /\ coef' = CoefStart' /\ master'.startup = ~conf.optimize
              /\ master'.type = "main" /\ master'.scan = 1 /\ master'.pass = 0
          BY <2>6, <3>3, <3>4
        <4>3. master'.startup => ~conf.optimize
          BY <4>2, Zenon
        <4> QED
          BY <4>1, <4>2, <4>3 DEF Passes
      <3>6. Busy' /\ state' # "START"
        BY <2>1, <3>2 DEF Busy
      <3> QED
        BY <3>5, <3>6 DEF Control
    <2>17. AtPlace(scan, 0, 0, 0) /\ Index(scan, 0, 0, 0) = 0 /\ DCsAre(scan, 0, NoDCs)
           /\ \A n \in Nat : ToGoAt(n, 0) = n /\ NextAt(n, 0) = 0
      BY <1>1, <2>7, DoneNone
    <2>18. PICK dc : dc = NoDCs
      OBVIOUS
    <2>19. AtPlace(scan, 0, 0, 0)' /\ Index(scan, 0, 0, 0)' = 0 /\ DCsAre(scan, 0, dc)'
      <3>1. /\ AtPlace(scan, 0, 0, 0)' <=> AtPlace(scan, 0, 0, 0)
            /\ Index(scan, 0, 0, 0)' = Index(scan, 0, 0, 0)
            /\ DCsAre(scan, 0, dc)' <=> DCsAre(scan, 0, dc)
        BY <2>1, SamePlaces
      <3> QED
        BY <2>17, <2>18, <3>1
    <2>20. Place' /\ Done' = 0
      BY <2>5, <2>6, <2>8, <2>19 DEF Place, Done
    <2>21. Lines'
      <3>1. MaxV \in Nat \ {0} /\ MaxV * D \in Nat
        BY <1>1, MaxAre, DAssumption
      <3>2. CASE conf.raw
        BY <1>5, <2>1, <2>6, <2>12, <2>14, <3>1, <3>2 DEF Lines
      <3>3. CASE ~conf.raw
        <4>1. Taken' = 0
          BY <2>1, <2>5, <2>12 DEF Taken
        <4>2. LinesRead'
          BY <1>5, <2>1, <2>12, <4>1, DAssumption DEF LinesRead
        <4>3. Color(0, 0 * MaxV) = <<>>
          BY DEF Color
        <4>4. LinesDone'
          <5>1. 0 = io'.row * D + io'.groups /\ 0 = 0 * MaxV + 0 /\ 0 \in 0 .. MaxV - 1
            BY <2>12, <3>1, DAssumption
          <5>2. (\E n \in 0 .. MaxV - 1 : \E g \in Nat :
                     /\ g = io.row * D + io.groups
                     /\ Taken = g * MaxV + n /\ io.color = Color(n, g * MaxV))'
            BY <2>12, <2>14, <4>1, <4>3, <5>1 DEF Color
          <5> QED
            BY <2>5, <2>6, <2>12, <5>2 DEF LinesDone
        <4>5. RowsRight'
          <5>1. \A c \in Comps : 0 .. 0 * V(c) - 1 = {}
            BY <1>1, CompsAre
          <5> QED
            BY <2>12, <2>14, <5>1 DEF RowsRight
        <4> QED
          BY <2>1, <3>3, <4>2, <4>4, <4>5 DEF Lines
      <3> QED
        BY <3>2, <3>3
    <2>22. WholeInv'
      <3>1. Filled(0)'
        <4>1. \A c \in Comps : 0 * V(c) = 0
          BY <1>1, CompsAre
        <4>2. \A c \in Comps : whole'[c] = <<>>
          BY <1>5, <2>13
        <4>3. IsSeq(<<>>) /\ Len(<<>>) = 0 /\ 1 .. 0 = {}
          BY SeqNone
        <4>4. \A c \in Comps : /\ IsSeq(whole'[c]) /\ 0 * V(c) <= Len(whole'[c])
                              /\ \A row \in 1 .. 0 * V(c) : whole'[c][row] = WholeRow(c, row - 1)'
          BY <4>1, <4>2, <4>3
        <4> QED
          BY <2>14, <4>4 DEF Filled, IsSeq
      <3>2. InMain' /\ call' # "compress"
        BY <2>1 DEF InMain
      <3> QED
        BY <2>6, <3>1, <3>2 DEF WholeInv
    <2>23. Coder'
      <3>1. interval' = Interval(Scan)'
        BY <2>8, <2>9
      <3>2. entropy'.toGo = ToGoAt(interval, Done)' /\ entropy'.next = NextAt(interval, Done)'
        BY <2>9, <2>10, <2>20 DEF ToGoAt, NextAt
      <3>3. DCsAre(Scan, Done, entropy.dc)'
        BY <2>8, <2>10, <2>19, <2>20, <2>18
      <3>4. call' # "passes"
        BY <2>1
      <3> QED
        BY <3>1, <3>2, <3>3, <3>4 DEF Coder
    <2>24. Output'
      <3>1. ~HeaderOut'
        BY <2>1, <2>6 DEF HeaderOut, Gathering
      <3>2. Opening' = Opening
        BY DEF Opening
      <3> QED
        BY <2>4, <2>6, <3>1, <3>2 DEF Output
    <2>25. Ended'
      BY <1>5 DEF Ended, Busy
    <2> QED
      BY <2>3, <2>11, <2>15, <2>16, <2>20, <2>21, <2>22, <2>23, <2>24, <2>25 DEF Inv
  <1> QED
    BY <1>3, <1>4, <1>5 DEF StartCompress, Opening

-----------------------------------------------------------------------------
(* Passes.                                                                 *)

(* jpeg_finish_compress may end the pass.                                  *)
PassEnds ==
    \/ call = "none" /\ state \in {"RAW_OK", "SCANNING"} /\ line >= conf.height
    \/ call = "pass" /\ coef.row = TotalRows

LEMMA PassIsDone ==
    ASSUME Inv, PassEnds
    PROVE  /\ Busy /\ Passes /\ conf \in Configs /\ Kinds /\ coef.row = TotalRows /\ Done = Mcus(Scan)
           /\ master.pass < TotalPasses /\ master.scan \in 1 .. Len(Scans) /\ GoodScan(Scan)
           /\ ~master.startup /\ call # "passes" /\ call # "compress"
  <1>1. Busy /\ call \in {"none", "pass"}
    BY DEF Inv, Control, PassEnds, Busy
  <1>2. Passes /\ conf \in Configs /\ Kinds
    BY <1>1 DEF Inv, Control, OutTypes
  <1>3. TotalRows \in Nat \ {0} /\ coef.row \in 0 .. TotalRows /\ conf.height \in Nat /\ line \in Int
    BY <1>2, RowsCount, ConfigIs DEF Kinds
  <1>4. coef.row = TotalRows
    <2>1. CASE call = "none"
      <3>1. line < conf.height <=> coef.row < TotalRows
        BY <1>1, <2>1, RowsMissing
      <3> QED
        BY <1>3, <2>1, <3>1 DEF PassEnds
    <2>2. CASE call # "none"
      BY <2>2 DEF PassEnds
    <2> QED
      BY <2>1, <2>2
  <1>5. ~master.startup
    <2>1. coef # CoefStart
      BY <1>3, <1>4 DEF CoefStart
    <2> QED
      BY <1>2, <2>1 DEF Passes
  <1>6. master.pass < TotalPasses /\ master.scan \in 1 .. Len(Scans) /\ GoodScan(Scan)
    BY <1>1, <1>2, ScanIs
  <1>7. Done = Mcus(Scan)
    BY <1>4 DEF Done
  <1> QED
    BY <1>1, <1>2, <1>4, <1>5, <1>6, <1>7

LEMMA FlushFailsKeeps == ASSUME Inv, FlushFails PROVE Inv'
  <1>1. Busy /\ conf \in Configs /\ ScriptIsValid /\ OutTypes
    BY PassIsDone DEF FlushFails, PassEnds, Inv, Passes
  <1>2. IsPrefix(Data(Stream), Image) /\ IsSeq(Stream) /\ IsSeq(Image)
    BY <1>1, OutputIs, StreamIsSeq, Pieces
  <1>3. PICK none : none = <<>> /\ IsSeq(none)
    BY SeqNone
  <1>4. Stream ++ none = Stream /\ buf ++ none = buf
    BY <1>1, <1>2, <1>3, CatEmpty DEF OutTypes
  <1>5. PICK n \in Nat : n = Len(buf) + 1
    BY <1>1, SeqHas DEF OutTypes
  <1>6. FailsWithin(none, n) /\ n <= Len(buf ++ none) + 1
    BY <1>3, <1>4, <1>5 DEF FlushFails
  <1>7. IsPrefix(Data(Stream ++ none), Image)
    BY <1>2, <1>4
  <1> QED
    BY <1>1, <1>2, <1>3, <1>6, <1>7, FailsKeeps

(* The types of what a pass does not set.                                  *)
LEMMA FinishPassKeeps == ASSUME Inv, FinishPass PROVE Inv'
  <1>1. PassEnds
    BY DEF FinishPass, PassEnds
  <1>2. /\ Busy /\ Passes /\ conf \in Configs /\ Kinds /\ coef.row = TotalRows /\ Done = Mcus(Scan)
        /\ master.pass < TotalPasses /\ master.scan \in 1 .. Len(Scans) /\ GoodScan(Scan)
        /\ ~master.startup /\ call # "passes" /\ call # "compress"
    BY <1>1, PassIsDone
  <1>3. /\ conf' = conf /\ image' = image /\ line' = line /\ io' = io /\ state' = state
        /\ coef' = coef /\ whole' = whole /\ entropy' = entropy /\ interval' = interval
        /\ buf' = buf /\ file' = file /\ begun' = begun /\ complete' = complete
        /\ call' = "passes"
    BY DEF FinishPass, clientVars, outVars, historyVars
  <1>4. /\ master' = [type |-> IF master.type = "output" /\ conf.optimize THEN "gather" ELSE "output",
                      scan |-> IF Gathering THEN master.scan ELSE master.scan + 1,
                      pass |-> master.pass + 1, startup |-> FALSE]
    BY <1>2 DEF FinishPass, Kinds
  <1>5. /\ master'.type = (IF master.type = "output" /\ conf.optimize THEN "gather" ELSE "output")
        /\ master'.scan = (IF Gathering THEN master.scan ELSE master.scan + 1)
        /\ master'.pass = master.pass + 1 /\ master'.startup = FALSE
    BY <1>4
  <1>6. /\ TotalRows' = TotalRows /\ TotalPasses' = TotalPasses /\ FullBuffer' = FullBuffer
        /\ ScriptIsValid' /\ Scans' = Scans
    BY <1>2, <1>3, SameSizes, SameScans DEF Passes
  <1>7. /\ master.type \in {"main", "gather", "output"} /\ master.scan \in Nat \ {0}
        /\ master.pass \in 0 .. TotalPasses /\ TotalPasses \in Nat
        /\ TotalRows \in Nat \ {0} /\ conf.optimize \in BOOLEAN
    BY <1>2, PassCount, RowsCount, ConfigIs DEF Kinds
  <1>8. OutTypes'
    BY <1>3 DEF Inv, OutTypes, IsSeq
  <1>9. Kinds'
    <2>1. master' \in [type : {"main", "gather", "output"}, scan : Nat \ {0}, pass : 0 .. TotalPasses,
                       startup : BOOLEAN]
      <3>1. PICK t, s, p : /\ t = (IF master.type = "output" /\ conf.optimize THEN "gather" ELSE "output")
                           /\ s = (IF Gathering THEN master.scan ELSE master.scan + 1)
                           /\ p = master.pass + 1
        OBVIOUS
      <3>2. t \in {"main", "gather", "output"} /\ s \in Nat \ {0} /\ p \in 0 .. TotalPasses
        BY <1>2, <1>7, <3>1
      <3> QED
        BY <1>4, <3>1, <3>2
    <2> QED
      BY <1>2, <1>3, <1>6, <2>1 DEF Kinds
  <1>10. IoIs'
    BY <1>3, IoKept DEF Inv
  <1>11. Passes'
    <2>1. ~InMain' /\ master'.type # "main" /\ master'.pass > 0
      BY <1>3, <1>5, <1>7 DEF InMain
    <2>2. ~conf.optimize => master'.pass = master'.scan - 1 /\ master'.type # "gather"
      <3>1. ~conf.optimize => ~Gathering /\ master.pass = master.scan - 1
        BY <1>2 DEF Passes, Gathering
      <3> QED
        BY <1>5, <1>7, <3>1
    <2>3. conf.optimize => master'.pass = 2 * (master'.scan - 1) + (IF master'.type = "output" THEN 1 ELSE 0)
      <3> SUFFICES ASSUME conf.optimize
                   PROVE  master'.pass = 2 * (master'.scan - 1) + (IF master'.type = "output" THEN 1 ELSE 0)
        OBVIOUS
      <3>1. master.pass = 2 * (master.scan - 1) + (IF master.type = "output" THEN 1 ELSE 0)
        BY <1>2 DEF Passes
      <3>2. CASE master.type = "output"
        <4>1. ~Gathering
          BY <3>2 DEF Gathering
        <4> QED
          BY <1>5, <1>7, <3>1, <3>2, <4>1
      <3>3. CASE master.type # "output"
        <4>1. Gathering
          BY <3>3 DEF Gathering
        <4> QED
          BY <1>5, <1>7, <3>1, <3>3, <4>1
      <3> QED
        BY <3>2, <3>3
    <2>4. /\ ScriptIsValid' /\ ~complete' /\ image' > 0
          /\ state' = IF conf.raw THEN "RAW_OK" ELSE "SCANNING"
      BY <1>2, <1>3, <1>6 DEF Passes
    <2> QED
      BY <1>2, <1>3, <1>5, <1>6, <2>1, <2>2, <2>3, <2>4 DEF Passes
  <1>12. Control' /\ Ended'
    <2>1. Busy' /\ state' # "START"
      BY <1>2, <1>3 DEF Busy
    <2> QED
      BY <1>11, <2>1 DEF Control, Ended
  <1>13. Place'
    <2>1. coef.vert = 0 /\ coef.mcu = 0
      BY <1>2, <1>7 DEF Inv, Place
    <2> QED
      BY <1>2, <1>3, <1>6, <1>7, <2>1 DEF Place
  <1>14. Lines'
    BY <1>3 DEF Lines, InMain
  <1>15. WholeInv'
    <2>1. ASSUME FullBuffer
          PROVE  Filled(TotalRows)'
      <3>1. Filled(TotalRows)
        <4>1. Filled(IF ~InMain THEN TotalRows
                     ELSE IF call = "compress" THEN coef.row + 1 ELSE coef.row)
          BY <1>2, <2>1 DEF Inv, WholeInv
        <4> QED
          BY <1>2, <4>1
      <3>2. PICK n \in Nat : n = TotalRows
        BY <1>7
      <3>3. Filled(n)'
        BY <1>2, <1>3, <3>1, <3>2, FilledKept
      <3> QED
        BY <1>6, <3>2, <3>3
    <2>2. ~InMain'
      BY <1>3 DEF InMain
    <2> QED
      BY <1>6, <2>1, <2>2 DEF WholeInv
  <1>16. Coder'
    <2> SUFFICES ASSUME conf.optimize, ~Gathering'
                 PROVE  interval' = Interval(Scan)'
      BY <1>3 DEF Coder
    <2>1. Gathering
      BY <1>3, <1>5, <1>7 DEF Gathering
    <2>2. Scan' = Scan
      BY <1>5, <1>6, <2>1 DEF Scan
    <2>3. interval = Interval(Scan)
      BY <1>2 DEF Inv, Coder
    <2>4. PICK scan : scan = Scan
      OBVIOUS
    <2>5. Interval(scan)' = Interval(scan)
      BY <1>3, SameScan
    <2> QED
      BY <1>3, <2>2, <2>3, <2>4, <2>5
  <1>17. Output'
    <2>1. ~HeaderOut' /\ Opening' = Opening
      BY <1>3 DEF HeaderOut, Opening
    <2>2. Data(Stream)' = Data(Stream)
      <3>1. Stream' = Stream
        BY <1>3 DEF Stream
      <3>2. Data(Stream)' = Data(Stream')
        BY DEF Data, IsTable
      <3> QED
        BY <3>1, <3>2
    <2>3. \A s : Before(s)' = Before(s)
      BY <1>3, SameImage
    <2>4. Data(Stream) = IF master'.scan = 1 THEN Opening ELSE Before(master'.scan)
      <3>1. CASE Gathering
        <4>1. ~HeaderOut /\ master'.scan = master.scan
          BY <1>5, <3>1 DEF HeaderOut
        <4> QED
          BY <1>2, <4>1 DEF Inv, Output
      <3>2. CASE ~Gathering
        <4>1. HeaderOut /\ master'.scan = master.scan + 1 /\ master'.scan # 1
          BY <1>2, <1>5, <1>7, <3>2 DEF HeaderOut
        <4>2. Data(Stream) = Before(master.scan) ++ Part(Scan, Mcus(Scan))
          BY <1>2, <4>1 DEF Inv, Output
        <4>3. Before(master.scan + 1) = Before(master.scan) ++ Part(Scan, Mcus(Scan))
          BY <1>2, Pieces DEF Scan, Passes
        <4> QED
          BY <4>1, <4>2, <4>3
      <3> QED
        BY <3>1, <3>2
    <2>5. PICK s : s = master'.scan
      OBVIOUS
    <2>6. Before(master.scan)' = Before(s)
      BY <2>3, <2>5
    <2> QED
      BY <2>1, <2>2, <2>4, <2>5, <2>6 DEF Output
  <1> QED
    BY <1>8, <1>9, <1>10, <1>12, <1>13, <1>14, <1>15, <1>16, <1>17 DEF Inv

LEMMA PreparePassKeeps == ASSUME Inv, PreparePass PROVE Inv'
  <1>1. Busy /\ call = "passes" /\ master.pass < TotalPasses
    BY DEF PreparePass, Inv, Control
  <1>2. /\ Passes /\ conf \in Configs /\ Kinds /\ OutTypes /\ ScriptIsValid /\ coef.row = TotalRows
        /\ ~master.startup /\ ~InMain
    BY <1>1 DEF Inv, Control, OutTypes, Passes, InMain
  <1>3. master.scan \in 1 .. Len(Scans) /\ GoodScan(Scan) /\ IsSeq(Stream)
    BY <1>1, <1>2, ScanIs, StreamIsSeq
  <1>4. ~HeaderOut /\ Data(Stream) = IF master.scan = 1 THEN Opening ELSE Before(master.scan)
    BY <1>1 DEF HeaderOut, Inv, Output
  <1>5. PICK scan, n : scan = Scan /\ n = IF conf.optimize /\ ~Gathering THEN interval ELSE Interval(Scan)
    OBVIOUS
  <1>6. n = Interval(scan) /\ n \in Nat
    <2>1. n = Interval(scan)
      BY <1>1, <1>5 DEF Inv, Coder
    <2> QED
      BY <1>2, <1>3, <1>5, <2>1, IntervalIs
  <1>7. CASE ~Gathering /\ EmitFails(Header(Scan, n))
    BY <1>1, <1>3, <1>4, <1>7, HeaderFails
  <1>8. CASE /\ interval' = n /\ entropy' = EntropyStart(n) /\ coef' = CoefStart
             /\ IF Gathering THEN counted' = {} /\ UNCHANGED <<sent, lastDRI, outVars>>
                ELSE EmitHeader(Scan, n) /\ UNCHANGED counted
             /\ call' = "pass"
             /\ UNCHANGED <<clientVars, state, master, whole, made, historyVars>>
    <2>1. /\ conf' = conf /\ image' = image /\ line' = line /\ io' = io /\ state' = state
          /\ master' = master /\ whole' = whole /\ begun' = begun /\ complete' = complete
          /\ call' = "pass"
      BY <1>8 DEF clientVars, historyVars
    <2>2. /\ TotalRows' = TotalRows /\ TotalPasses' = TotalPasses /\ FullBuffer' = FullBuffer
          /\ ScriptIsValid' /\ Scans' = Scans /\ TotalRows \in Nat \ {0} /\ conf.optimize \in BOOLEAN
      BY <1>2, <2>1, SameSizes, SameScans, RowsCount, ConfigIs
    <2>3. Scan' = scan /\ Busy' /\ state' # "START" /\ ~InMain' /\ (Gathering' <=> Gathering)
      BY <1>1, <1>5, <2>1, <2>2 DEF Scan, Busy, InMain, Gathering
    <2>4. coef'.row = 0 /\ coef'.vert = 0 /\ coef'.mcu = 0
      BY <1>8 DEF CoefStart
    <2>5. entropy'.toGo = n /\ entropy'.next = 0 /\ entropy'.dc = NoDCs /\ interval' = n
      BY <1>8 DEF EntropyStart
    <2>6. PICK dc : dc = NoDCs
      OBVIOUS
    <2>7. /\ AtPlace(scan, 0, 0, 0) /\ Index(scan, 0, 0, 0) = 0 /\ DCsAre(scan, 0, dc)
          /\ \A i \in Nat : ToGoAt(i, 0) = i /\ NextAt(i, 0) = 0
      BY <1>2, <1>3, <1>5, <2>6, DoneNone
    <2>8. AtPlace(scan, 0, 0, 0)' /\ Index(scan, 0, 0, 0)' = 0 /\ DCsAre(scan, 0, dc)'
      <3>1. /\ AtPlace(scan, 0, 0, 0)' <=> AtPlace(scan, 0, 0, 0)
            /\ Index(scan, 0, 0, 0)' = Index(scan, 0, 0, 0)
            /\ DCsAre(scan, 0, dc)' <=> DCsAre(scan, 0, dc)
        BY <2>1, SamePlaces
      <3> QED
        BY <2>7, <3>1
    <2>9. Place' /\ Done' = 0
      BY <2>2, <2>3, <2>4, <2>8 DEF Place, Done
    <2>10. Interval(scan)' = n
      BY <1>6, <2>1, SameScan
    <2>11. OutTypes' /\ Data(Stream)' = IF Gathering THEN Data(Stream)
                                        ELSE Before(master.scan) ++ Part(scan, 0)
      <3>1. Data(Stream)' = Data(Stream')
        BY DEF Data, IsTable
      <3>2. CASE Gathering
        <4>1. buf' = buf /\ file' = file
          BY <1>8, <3>2 DEF outVars
        <4>2. Stream' = Stream
          BY <2>1, <4>1 DEF Stream
        <4> QED
          BY <1>2, <2>1, <3>1, <3>2, <4>1, <4>2 DEF OutTypes, IsSeq
      <3>3. CASE ~Gathering
        <4>1. PICK h : h = Header(Scan, n)
          OBVIOUS
        <4>2. Emit(h)
          BY <1>8, <3>3, <4>1 DEF EmitHeader
        <4>3. IsSeq(h) /\ Data(Stream ++ h) = Before(master.scan) ++ Part(Scan, 0)
          BY <1>2, <1>3, <1>4, <4>1, HeaderNext
        <4>4. OutTypes' /\ Stream' = Stream ++ h
          BY <1>2, <2>1, <4>2, <4>3, Emits
        <4> QED
          BY <1>5, <3>1, <3>3, <4>3, <4>4
      <3> QED
        BY <3>2, <3>3
    <2>12. Kinds'
      <3>1. coef' \in [row : 0 .. TotalRows, vert : Nat, mcu : Nat]
        BY <1>8, <2>2 DEF CoefStart
      <3>2. /\ entropy' = [toGo |-> entropy'.toGo, next |-> entropy'.next, dc |-> entropy'.dc]
            /\ entropy'.toGo \in 0 .. interval' /\ entropy'.next \in 0 .. 7
        BY <1>6, <1>8 DEF EntropyStart
      <3>3. interval' \in Nat
        BY <1>6, <2>5
      <3> QED
        BY <1>2, <2>1, <2>2, <3>1, <3>2, <3>3 DEF Kinds
    <2>13. IoIs'
      BY <2>1, IoKept DEF Inv
    <2>14. Passes'
      BY <1>1, <1>2, <2>1, <2>2, <2>3 DEF Passes
    <2>15. Control' /\ Ended' /\ Lines'
      BY <2>3, <2>14 DEF Control, Ended, Lines
    <2>16. WholeInv'
      <3>1. ASSUME FullBuffer
            PROVE  Filled(TotalRows)'
        <4>1. Filled(TotalRows)
          BY <1>1, <1>2, <3>1 DEF Inv, WholeInv
        <4>2. PICK m \in Nat : m = TotalRows
          BY <2>2
        <4>3. Filled(m)'
          BY <1>2, <2>1, <4>1, <4>2, FilledKept
        <4> QED
          BY <2>2, <4>2, <4>3
      <3> QED
        BY <2>2, <2>3, <3>1 DEF WholeInv
    <2>17. Coder'
      <3>1. interval' = Interval(Scan)'
        BY <2>3, <2>5, <2>10
      <3>2. entropy'.toGo = ToGoAt(interval, Done)' /\ entropy'.next = NextAt(interval, Done)'
        BY <2>5, <2>9 DEF ToGoAt, NextAt
      <3>3. DCsAre(Scan, Done, entropy.dc)'
        BY <2>3, <2>5, <2>6, <2>8, <2>9
      <3>4. call' # "passes"
        BY <2>1
      <3> QED
        BY <3>1, <3>2, <3>3, <3>4 DEF Coder
    <2>18. Output'
      <3>1. HeaderOut' <=> ~Gathering
        BY <1>2, <2>1, <2>3 DEF HeaderOut
      <3>2. /\ \A s, m : Part(s, m)' = Part(s, m)
            /\ \A s : Before(s)' = Before(s)
        BY <2>1, SameImage
      <3>3. Before(master.scan)' = Before(master.scan) /\ Part(Scan, Done)' = Part(scan, 0)
        BY <2>1, <2>3, <2>9, <3>2
      <3>4. Opening' = Opening
        BY DEF Opening
      <3>5. CASE Gathering
        <4>1. Data(Stream)' = Data(Stream) /\ ~HeaderOut'
          BY <2>11, <3>1, <3>5
        <4> QED
          BY <1>4, <2>1, <3>3, <3>4, <4>1 DEF Output
      <3>6. CASE ~Gathering
        <4>1. Data(Stream)' = Before(master.scan)' ++ Part(Scan, Done)' /\ HeaderOut'
          BY <2>11, <3>1, <3>3, <3>6
        <4> QED
          BY <4>1 DEF Output, ++
      <3> QED
        BY <3>5, <3>6
    <2> QED
      BY <2>9, <2>11, <2>12, <2>13, <2>15, <2>16, <2>17, <2>18 DEF Inv
  <1> QED
    BY <1>5, <1>7, <1>8 DEF PreparePass

LEMMA FinishKeeps == ASSUME Inv, Finish PROVE Inv'
  <1>1. Busy /\ call = "passes" /\ master.pass = TotalPasses
    BY DEF Finish, Inv, Control
  <1>2. /\ Passes /\ conf \in Configs /\ Kinds /\ OutTypes /\ ScriptIsValid /\ ~complete
    BY <1>1 DEF Inv, Control, OutTypes, Passes
  <1>3. PICK l \in Nat \ {0} : l = Len(Scans) /\ master.scan = l + 1
    BY <1>1, <1>2, ScanIs
  <1>4. Data(Stream) = Before(l + 1)
    <2>1. ~HeaderOut /\ master.scan # 1
      BY <1>1, <1>3 DEF HeaderOut
    <2> QED
      BY <1>1, <1>3, <2>1 DEF Inv, Output
  <1>5. IsSeq(Closing) /\ Data(Closing) = Closing /\ IsSeq(Stream) /\ IsSeq(Image)
    BY <1>2, Markers, StreamIsSeq, Pieces
  <1>6. Data(Stream ++ Closing) = Image
    <2>1. Data(Stream ++ Closing) = Data(Stream) ++ Data(Closing)
      BY <1>5, DataCat
    <2> QED
      BY <1>2, <1>3, <1>4, <1>5, <2>1, Pieces
  <1>7. IsPrefix(Image, Image)
    <2>1. PICK none : none = <<>> /\ IsSeq(none)
      BY SeqNone
    <2>2. Image ++ none = Image
      BY <1>5, <2>1, CatEmpty
    <2> QED
      BY <1>5, <2>1, <2>2, PrefixOfCat
  <1>8. /\ IsSeq(buf ++ Closing) /\ Dumps(Closing) * conf.size \in 0 .. Len(buf ++ Closing)
        /\ Total(Closing) = buf ++ Closing
    BY <1>2, <1>5, DumpsAre
  <1>9. PICK m \in Nat : m = Len(buf ++ Closing)
    BY <1>8, SeqHas
  <1>10. ASSUME EmitFails(Closing) \/ FailsWithin(Closing, Len(Total(Closing)))
         PROVE  Inv'
    <2>1. PICK k \in Nat : k <= m + 1 /\ FailsWithin(Closing, k)
      <3>1. CASE EmitFails(Closing)
        <4>1. PICK k \in Nat : k = Dumps(Closing) * conf.size /\ k <= m + 1
          BY <1>8, <1>9
        <4> QED
          BY <3>1, <4>1, Zenon DEF EmitFails
      <3>2. CASE FailsWithin(Closing, Len(Total(Closing)))
        <4>1. Len(Total(Closing)) = m
          BY <1>8, <1>9
        <4>2. FailsWithin(Closing, m)
          BY <3>2, <4>1, Zenon
        <4> QED
          BY <4>2
      <3> QED
        BY <1>10, <3>1, <3>2
    <2>2. k <= Len(buf ++ Closing) + 1 /\ IsPrefix(Data(Stream ++ Closing), Image)
      BY <1>6, <1>7, <1>9, <2>1
    <2> QED
      BY <1>1, <1>5, <2>1, <2>2, FailsKeeps
  <1>11. CASE /\ file' = file \o Total(Closing) /\ buf' = <<>>
              /\ state' = "START" /\ call' = "none" /\ complete' = TRUE
              /\ UNCHANGED <<clientVars, passVars, begun>>
    <2>1. PICK t, c : t = buf ++ Closing /\ IsSeq(t) /\ c = Closing /\ IsSeq(c)
      BY <1>5, <1>8
    <2>2. file' = file ++ t /\ begun' = begun /\ conf' = conf /\ buf' = <<>>
      BY <1>8, <1>11, <2>1 DEF ++, clientVars
    <2>3. IsSeq(file) /\ IsSeq(buf) /\ begun \in 0 .. Len(file) /\ IsSeq(Beyond(file, begun))
      BY <1>2, StreamIsSeq DEF OutTypes
    <2>4. /\ Beyond(file ++ t, begun) = Beyond(file, begun) ++ t
          /\ begun \in 0 .. Len(file ++ t) /\ IsSeq(file ++ t)
      BY <2>1, <2>3, BeyondCat, CatLen
    <2>5. OutTypes'
      <3>1. IsSeq(<<>>) /\ Len(<<>>) = 0 /\ conf.size > 0
        BY <1>2, SeqNone, ConfigSize
      <3> QED
        BY <1>2, <2>2, <2>4, <3>1 DEF OutTypes, IsSeq
    <2>6. Stream' = Stream ++ Closing
      <3>1. Stream' = Beyond(file', begun') ++ buf'
        BY DEF Stream, Beyond, ++
      <3>2. IsSeq(Beyond(file, begun) ++ t)
        BY <2>1, <2>3, CatLen
      <3>3. Stream' = Beyond(file, begun) ++ t
        BY <2>2, <2>4, <3>1, <3>2, CatEmpty
      <3>4. Stream = Beyond(file, begun) ++ buf
        BY <1>2, StreamIsSeq
      <3>5. (Beyond(file, begun) ++ buf) ++ c = Beyond(file, begun) ++ (buf ++ c)
        BY <2>1, <2>3, CatAssoc
      <3> QED
        BY <2>1, <3>3, <3>4, <3>5
    <2>7. IsPrefix(Data(Stream'), Image) /\ Data(Stream') = Image
      BY <1>6, <1>7, <2>6
    <2> QED
      BY <1>11, <2>5, <2>7, EndKeeps
  <1> QED
    BY <1>10, <1>11 DEF Finish, Closing

LEMMA AbortKeeps == ASSUME Inv, Abort PROVE Inv'
  <1>1. Busy /\ OutTypes /\ ~complete /\ conf \in Configs /\ ScriptIsValid
    BY DEF Abort, Busy, Inv, Control, Passes, OutTypes
  <1>2. /\ buf' = <<>> /\ file' = file /\ begun' = begun /\ conf' = conf /\ complete' = complete
        /\ state' = "START" /\ call' = "none" /\ UNCHANGED <<clientVars, passVars>>
    BY DEF Abort, clientVars
  <1>3. OutTypes'
    <2>1. IsSeq(<<>>) /\ Len(<<>>) = 0 /\ conf.size > 0
      BY <1>1, SeqNone, ConfigSize
    <2> QED
      BY <1>1, <1>2, <2>1 DEF OutTypes, IsSeq
  <1>4. PICK s, t : /\ s = Beyond(file, begun) /\ IsSeq(s) /\ t = Stream /\ IsSeq(t)
                    /\ t = s ++ buf /\ IsSeq(buf)
    BY <1>1, StreamIsSeq DEF OutTypes
  <1>5. Stream' = s
    <2>1. Stream' = Beyond(file', begun') ++ buf'
      BY DEF Stream, Beyond, ++
    <2> QED
      BY <1>2, <1>4, <2>1, CatEmpty
  <1>6. IsPrefix(s, t)
    BY <1>4, PrefixOfCat
  <1>7. IsPrefix(Data(s), Data(t)) /\ IsSeq(Data(s)) /\ IsSeq(Data(t))
    BY <1>4, <1>6, DataPrefix, DataIsFlat
  <1>8. IsPrefix(Data(t), Image) /\ IsSeq(Image)
    BY <1>1, <1>4, OutputIs, Pieces
  <1>9. IsPrefix(Data(s), Image)
    BY <1>7, <1>8, PrefixPasses
  <1> QED
    BY <1>1, <1>2, <1>3, <1>5, <1>9, EndKeeps

LEMMA StutterKeeps == ASSUME Inv, UNCHANGED vars PROVE Inv'
  <1>1. /\ conf' = conf /\ image' = image /\ line' = line /\ io' = io /\ state' = state /\ call' = call
        /\ master' = master /\ coef' = coef /\ whole' = whole /\ entropy' = entropy
        /\ interval' = interval /\ buf' = buf /\ file' = file /\ begun' = begun /\ complete' = complete
    BY DEF vars, clientVars, passVars, outVars, historyVars
  <1>2. OutTypes /\ Kinds /\ Control /\ conf \in Configs /\ Ended
    BY DEF Inv, OutTypes
  <1>3. OutTypes'
    BY <1>1, <1>2 DEF OutTypes, IsSeq
  <1>4. Stream' = Stream
    BY <1>1 DEF Stream
  <1>5. CASE ~Busy
    <2>1. state' \in {"START", "exited"} /\ (state' = "START" => buf' = <<>>) /\ call' = "none"
      BY <1>1, <1>2, <1>5 DEF Kinds, Control, Busy
    <2>2. image > 0 => IsPrefix(Data(Stream'), Image) /\ (complete' => Data(Stream') = Image)
      BY <1>1, <1>2, <1>4, <1>5 DEF Ended
    <2>3. UNCHANGED <<clientVars, passVars>>
      BY <1>1 DEF clientVars, passVars
    <2> QED
      BY <1>3, <2>1, <2>2, <2>3, EndKeeps
  <1>6. CASE Busy
    <2>1. /\ TotalRows' = TotalRows /\ TotalPasses' = TotalPasses /\ FullBuffer' = FullBuffer
          /\ MaxV' = MaxV /\ (ScriptIsValid => ScriptIsValid')
      BY <1>1, SameSizes, SameScans
    <2>2. Kinds'
      BY <1>1, <1>2, <2>1 DEF Kinds
    <2>3. Passes'
      BY <1>1, <1>2, <1>6, <2>1 DEF Control, Passes, InMain
    <2>4. Busy' /\ state' # "START"
      BY <1>1, <1>6 DEF Busy
    <2>5. Control' /\ Ended'
      BY <2>3, <2>4 DEF Control, Ended
    <2>6. Scan' = Scan /\ Done' = Done
      BY <1>1, SameDone
    <2>7. PICK scan : scan = Scan
      OBVIOUS
    <2>8. Place'
      <3>1. \A row, vert, mcu : AtPlace(scan, row, vert, mcu)' <=> AtPlace(scan, row, vert, mcu)
        BY <1>1, SamePlaces
      <3> QED
        BY <1>1, <1>6, <2>1, <2>6, <2>7, <3>1 DEF Inv, Place
    <2>9. Lines'
      <3>1. RowsRight => RowsRight'
        BY <1>1, RowsKept
      <3>2. LinesDone => LinesDone'
        BY <1>1, DoneKept
      <3>3. LinesRead => LinesRead'
        BY <1>1 DEF LinesRead, Taken
      <3>4. InMain' <=> InMain
        BY <1>1 DEF InMain
      <3>5. CASE conf.raw
        <4>1. InMain => line = io.band * (MaxV * D) /\ io.band = coef.row
          BY <1>6, <3>5 DEF Inv, Lines
        <4>2. MaxV' = MaxV
          BY <2>1
        <4>3. InMain => (line = io.band * (MaxV * D) /\ io.band = coef.row)'
          BY <1>1, <4>1, <4>2
        <4>4. conf'.raw
          BY <1>1, <3>5
        <4> QED
          BY <3>4, <4>3, <4>4 DEF Lines
      <3>6. CASE ~conf.raw
        <4>1. InMain => LinesRead /\ LinesDone /\ RowsRight
          BY <1>6, <3>6 DEF Inv, Lines
        <4> QED
          BY <1>1, <3>1, <3>2, <3>3, <3>4, <3>6, <4>1 DEF Lines
      <3> QED
        BY <3>5, <3>6
    <2>10. WholeInv'
      <3>1. coef.row \in Nat /\ TotalRows \in Nat
        BY <1>2, RowsCount DEF Kinds
      <3>2. PICK n \in Nat : n = IF ~InMain THEN TotalRows
                                ELSE IF call = "compress" THEN coef.row + 1 ELSE coef.row
        BY <3>1
      <3>3. FullBuffer => Filled(n)
        BY <1>6, <3>2 DEF Inv, WholeInv
      <3>4. FullBuffer => Filled(n)'
        BY <1>1, <1>2, <3>3, FilledKept
      <3>5. n = (IF ~InMain THEN TotalRows
                 ELSE IF call = "compress" THEN coef.row + 1 ELSE coef.row)'
        BY <1>1, <2>1, <3>2 DEF InMain
      <3> QED
        BY <2>1, <3>4, <3>5 DEF WholeInv
    <2>11. Coder'
      <3>1. PICK m, dc : m = Done /\ dc = entropy.dc
        OBVIOUS
      <3>2. (DCsAre(scan, m, dc)' <=> DCsAre(scan, m, dc)) /\ Interval(scan)' = Interval(scan)
        BY <1>1, SamePlaces, SameScan
      <3>3. Interval(Scan)' = Interval(Scan) /\ (DCsAre(Scan, Done, entropy.dc)' <=> DCsAre(Scan, Done, entropy.dc))
        BY <1>1, <2>6, <2>7, <3>1, <3>2
      <3>4. /\ ToGoAt(interval, Done)' = ToGoAt(interval, Done)
            /\ NextAt(interval, Done)' = NextAt(interval, Done)
        BY <1>1, <2>6 DEF ToGoAt, NextAt
      <3> QED
        BY <1>1, <1>6, <3>3, <3>4 DEF Inv, Coder, Gathering
    <2>12. IoIs' /\ Output'
      BY <1>1, <1>4, <1>6, IoKept, OutputKept DEF Inv
    <2> QED
      BY <1>3, <2>2, <2>5, <2>8, <2>9, <2>10, <2>11, <2>12 DEF Inv
  <1> QED
    BY <1>5, <1>6

-----------------------------------------------------------------------------
(* The theorems.                                                           *)

(* However a client cuts the image into calls, however often its           *)
(* destination refuses, through scans, restarts and passes, errors and     *)
(* images given up, the compressor's state is that of the image at the MCU *)
(* it has come to.                                                         *)
THEOREM StateIsImage == Spec => []Inv
  <1>1. Init => Inv
    BY InitHolds
  <1>2. Inv /\ [Next]_vars => Inv'
    <2> SUFFICES ASSUME Inv, [Next]_vars
                 PROVE  Inv'
      OBVIOUS
    <2>1. CASE StartCompress
      BY <2>1, StartKeeps
    <2>2. CASE WriteRawData
      BY <2>2, WriteRawDataKeeps
    <2>3. CASE WriteScanlines
      BY <2>3, WriteScanlinesKeeps
    <2>4. CASE Prepare
      BY <2>4, PrepareKeeps
    <2>5. CASE MainReturns
      BY <2>5, MainReturnsKeeps
    <2>6. CASE MainCompresses
      BY <2>6, MainCompressesKeeps
    <2>7. CASE GatherMCU
      BY <2>7, GatherKeeps
    <2>8. CASE EncodeMCU
      BY <2>8, EncodeKeeps
    <2>9. CASE Suspends
      BY <2>9, SuspendsKeeps
    <2>10. CASE FinishPass
      BY <2>10, FinishPassKeeps
    <2>11. CASE FlushFails
      BY <2>11, FlushFailsKeeps
    <2>12. CASE PreparePass
      BY <2>12, PreparePassKeeps
    <2>13. CASE Finish
      BY <2>13, FinishKeeps
    <2>14. CASE Abort
      BY <2>14, AbortKeeps
    <2>15. CASE UNCHANGED vars
      BY <2>15, StutterKeeps
    <2> QED
      BY <2>1, <2>2, <2>3, <2>4, <2>5, <2>6, <2>7, <2>8, <2>9, <2>10, <2>11, <2>12, <2>13, <2>14,
         <2>15 DEF Next, Step
  <1> QED
    BY <1>1, <1>2, PTL DEF Spec

(* Whatever the image, its components, scans, restarts, passes and buffer, *)
(* what is written is the image from its beginning, in a failure and in an *)
(* image given up too, and all of it when jpeg_finish_compress returns.    *)
THEOREM ImageIsWritten == Spec => []StreamIsImage
  <1>1. ASSUME Inv
        PROVE  StreamIsImage
    <2>1. CASE Busy
      <3>1. ~complete
        BY <1>1, <2>1 DEF Inv, Control, Passes
      <3>2. IsPrefix(Data(Stream), Image)
        BY <1>1, <2>1, OutputIs
      <3> QED
        BY <3>1, <3>2 DEF StreamIsImage
    <2>2. CASE ~Busy
      BY <1>1, <2>2 DEF Inv, Ended, StreamIsImage
    <2> QED
      BY <2>1, <2>2
  <1> QED
    BY <1>1, StateIsImage, PTL

(* The types; a row group's rows are counted by io.groups, the restart     *)
(* counter is within the interval and the buffer is never left full.       *)
THEOREM TypeCorrect == Spec => []TypeOK
  <1>1. ASSUME Inv
        PROVE  TypeOK
    <2>1. conf \in Configs /\ Kinds /\ IoIs /\ OutTypes
      BY <1>1 DEF Inv, OutTypes
    <2>2. ASSUME NEW c \in Comps
          PROVE  Len(io.rows[c]) = io.groups * V(c)
      <3>1. IsList(io.rows[c], io.groups * V(c))
        BY <2>1 DEF IoIs
      <3>2. PICK n : n = io.groups * V(c) /\ n \in Nat
        <4>1. io.groups \in Nat
          BY <2>1, DAssumption DEF IoIs
        <4>2. V(c) \in Nat
          BY <2>1, CompsAre
        <4> QED
          BY <4>1, <4>2
      <3> QED
        BY <3>1, <3>2, ListHas
    <2>3. Len(buf) < conf.size
      BY <2>1 DEF OutTypes
    <2> QED
      BY <2>1, <2>2, <2>3 DEF TypeOK, Kinds, IoIs
  <1> QED
    BY <1>1, StateIsImage, PTL

-----------------------------------------------------------------------------
(* What a decoder was told.                                                *)

LastIn(S) == Max({0} \cup S)
UpTo(S, n) == n \in Nat /\ S \in SUBSET (1 .. n)
Shifted(n, S) == {n + j : j \in S}
Tells(s, t) == {i \in DOMAIN s : s[i][1] \in {"DQT", "DHT"} /\ s[i][2] = t}
Dris(s) == {i \in DOMAIN s : s[i][1] = "DRI"}

(* The interval after s, and a table that is in s, as it was last made.    *)
DriOf(s) == IF Dris(s) = {} THEN 0 ELSE s[LastIn(Dris(s))][2]
KnownIn(s, t) == Tells(s, t) # {} /\ (t \in HuffNames => s[LastIn(Tells(s, t))] = Dht(t))

(* Each table of s is as it was last made.                                 *)
IsMade(token) ==
    token[1] \in {"DQT", "DHT"} /\ token[2] \in HuffNames => token = Dht(token[2])
AreMade(s) == \A i \in 1 .. Len(s) : IsMade(s[i])

LEMMA LastIs ==
    ASSUME NEW n, NEW S, UpTo(S, n), S # {}
    PROVE  LastIn(S) \in S /\ \A k \in S : k <= LastIn(S)
  <1> USE DEF UpTo
  <1> DEFINE T == {0} \cup S
  <1>1. T \in SUBSET (0 .. n) /\ T # {}
    OBVIOUS
  <1> HIDE DEF T
  <1>2. Max(T) \in T /\ \A k \in T : k <= Max(T)
    BY <1>1, MaxMin
  <1>3. PICK top : top = Max(T)
    OBVIOUS
  <1>4. PICK e : e \in S
    OBVIOUS
  <1>5. e \in T /\ e > 0 /\ \A k \in S : k \in T
    BY <1>4 DEF T
  <1>6. top \in T /\ top # 0
    BY <1>1, <1>2, <1>3, <1>5
  <1>7. top \in S
    BY <1>6 DEF T
  <1> QED
    BY <1>2, <1>3, <1>5, <1>7 DEF LastIn, T

(* The last one of two parts is in the second, if there is one.            *)
LEMMA LastOfTwo ==
    ASSUME NEW n, NEW m, NEW A, NEW B, UpTo(A, n), UpTo(B, m), B # {}
    PROVE  LastIn(B) \in B /\ LastIn(A \cup Shifted(n, B)) = n + LastIn(B)
  <1> USE DEF UpTo
  <1>1. PICK C : C = A \cup Shifted(n, B)
    OBVIOUS
  <1>2. C \in SUBSET (1 .. n + m) /\ C # {} /\ n + m \in Nat /\ UpTo(C, n + m)
    <2>1. \A i \in C : i \in 1 .. n + m
      <3> TAKE i \in C
      <3>1. i \in A \/ \E j \in B : i = n + j
        BY <1>1 DEF Shifted
      <3>2. CASE i \in A
        <4>1. i \in 1 .. n
          BY <3>2
        <4> QED
          BY <4>1
      <3>3. CASE i \notin A
        <4>1. PICK j \in B : i = n + j
          BY <3>1, <3>3
        <4>2. j \in 1 .. m
          OBVIOUS
        <4> QED
          BY <4>1, <4>2
      <3> QED
        BY <3>2, <3>3
    <2>2. PICK j : j \in B
      OBVIOUS
    <2>3. C # {}
      BY <1>1, <2>2 DEF Shifted
    <2>4. C \in SUBSET (1 .. n + m)
      BY <2>1
    <2>5. n + m \in Nat
      OBVIOUS
    <2> QED
      BY <2>3, <2>4, <2>5
  <1>3. PICK a, b : a = LastIn(C) /\ b = LastIn(B)
    OBVIOUS
  <1>4. a \in C /\ \A k \in C : k <= a
    BY <1>2, <1>3, LastIs DEF UpTo
  <1>5. b \in B /\ \A k \in B : k <= b
    BY <1>3, LastIs DEF UpTo
  <1>6. n + b \in C
    BY <1>1, <1>5 DEF Shifted
  <1>7. n + b <= a /\ b \in Nat \ {0}
    BY <1>4, <1>5, <1>6
  <1>8. a \notin A
    <2>1. a \in A => a \in 1 .. n
      OBVIOUS
    <2>2. a \in 1 .. n + m
      BY <1>2, <1>4
    <2> QED
      BY <1>7, <2>1, <2>2
  <1>9. PICK j \in B : a = n + j
    BY <1>1, <1>4, <1>8 DEF Shifted
  <1>10. j <= b /\ j \in Nat
    BY <1>5
  <1>11. a = n + b
    BY <1>7, <1>9, <1>10
  <1> QED
    BY <1>1, <1>3, <1>5, <1>11

LEMMA TellsCat ==
    ASSUME NEW s, NEW u, IsSeq(s), IsSeq(u), NEW t
    PROVE  /\ Len(s) \in Nat /\ Len(u) \in Nat
           /\ UpTo(Tells(s, t), Len(s)) /\ UpTo(Tells(u, t), Len(u))
           /\ Tells(s ++ u, t) = Tells(s, t) \cup Shifted(Len(s), Tells(u, t))
  <1>1. PICK v, n, m : v = s ++ u /\ n = Len(s) /\ m = Len(u)
    OBVIOUS
  <1>2. /\ n \in Nat /\ DOMAIN s = 1 .. n /\ m \in Nat /\ DOMAIN u = 1 .. m
    BY <1>1, SeqHas
  <1>3. IsSeq(v) /\ Len(v) = n + m /\ \A i \in 1 .. n : v[i] = s[i]
    BY <1>1, CatLen, CatFirst
  <1>4. \A i \in 1 .. m : v[n + i] = u[i]
    BY <1>1, CatSecond
  <1>5. DOMAIN v = 1 .. n + m
    BY <1>3, SeqHas
  <1> DEFINE Told(e) == e[1] \in {"DQT", "DHT"} /\ e[2] = t
  <1>6. /\ Tells(s, t) = {i \in 1 .. n : Told(s[i])} /\ Tells(u, t) = {i \in 1 .. m : Told(u[i])}
        /\ Tells(v, t) = {i \in 1 .. n + m : Told(v[i])}
    BY <1>2, <1>5 DEF Tells
  <1> HIDE DEF Told
  <1>7. ASSUME NEW i \in 1 .. n + m, Told(v[i])
        PROVE  i \in Tells(s, t) \cup {n + j : j \in Tells(u, t)}
    <2>1. CASE i <= n
      BY <1>2, <1>3, <1>6, <1>7, <2>1
    <2>2. CASE i > n
      <3>1. PICK j \in 1 .. m : i = n + j
        <4>1. i - n \in 1 .. m /\ i = n + (i - n)
          BY <1>2, <2>2
        <4> QED
          BY <4>1
      <3>2. v[i] = u[j]
        BY <1>4, <3>1
      <3>3. j \in Tells(u, t)
        BY <1>6, <1>7, <3>1, <3>2
      <3> QED
        BY <3>1, <3>3
    <2> QED
      BY <1>2, <2>1, <2>2
  <1>8. ASSUME NEW i \in Tells(s, t)
        PROVE  i \in Tells(v, t)
    BY <1>2, <1>3, <1>6, <1>8
  <1>9. ASSUME NEW j \in Tells(u, t)
        PROVE  n + j \in Tells(v, t)
    <2>1. j \in 1 .. m /\ Told(u[j])
      BY <1>6
    <2>2. v[n + j] = u[j] /\ n + j \in 1 .. n + m
      BY <1>2, <1>4, <2>1
    <2> QED
      BY <1>6, <2>1, <2>2
  <1>10. Tells(v, t) = Tells(s, t) \cup {n + j : j \in Tells(u, t)}
    <2>1. \A i \in Tells(v, t) : i \in Tells(s, t) \cup {n + j : j \in Tells(u, t)}
      BY <1>6, <1>7
    <2> QED
      BY <1>8, <1>9, <2>1
  <1>11. Tells(s, t) \in SUBSET (1 .. n) /\ Tells(u, t) \in SUBSET (1 .. m)
    BY <1>6
  <1> QED
    BY <1>1, <1>2, <1>10, <1>11 DEF Shifted, UpTo

LEMMA DrisCat ==
    ASSUME NEW s, NEW u, IsSeq(s), IsSeq(u)
    PROVE  /\ Len(s) \in Nat /\ Len(u) \in Nat
           /\ UpTo(Dris(s), Len(s)) /\ UpTo(Dris(u), Len(u))
           /\ Dris(s ++ u) = Dris(s) \cup Shifted(Len(s), Dris(u))
  <1>1. PICK v, n, m : v = s ++ u /\ n = Len(s) /\ m = Len(u)
    OBVIOUS
  <1>2. /\ n \in Nat /\ DOMAIN s = 1 .. n /\ m \in Nat /\ DOMAIN u = 1 .. m
    BY <1>1, SeqHas
  <1>3. IsSeq(v) /\ Len(v) = n + m /\ \A i \in 1 .. n : v[i] = s[i]
    BY <1>1, CatLen, CatFirst
  <1>4. \A i \in 1 .. m : v[n + i] = u[i]
    BY <1>1, CatSecond
  <1>5. DOMAIN v = 1 .. n + m
    BY <1>3, SeqHas
  <1> DEFINE Told(e) == e[1] = "DRI"
  <1>6. /\ Dris(s) = {i \in 1 .. n : Told(s[i])} /\ Dris(u) = {i \in 1 .. m : Told(u[i])}
        /\ Dris(v) = {i \in 1 .. n + m : Told(v[i])}
    BY <1>2, <1>5 DEF Dris
  <1> HIDE DEF Told
  <1>7. ASSUME NEW i \in 1 .. n + m, Told(v[i])
        PROVE  i \in Dris(s) \cup {n + j : j \in Dris(u)}
    <2>1. CASE i <= n
      BY <1>2, <1>3, <1>6, <1>7, <2>1
    <2>2. CASE i > n
      <3>1. PICK j \in 1 .. m : i = n + j
        <4>1. i - n \in 1 .. m /\ i = n + (i - n)
          BY <1>2, <2>2
        <4> QED
          BY <4>1
      <3>2. v[i] = u[j]
        BY <1>4, <3>1
      <3>3. j \in Dris(u)
        BY <1>6, <1>7, <3>1, <3>2
      <3> QED
        BY <3>1, <3>3
    <2> QED
      BY <1>2, <2>1, <2>2
  <1>8. ASSUME NEW i \in Dris(s)
        PROVE  i \in Dris(v)
    BY <1>2, <1>3, <1>6, <1>8
  <1>9. ASSUME NEW j \in Dris(u)
        PROVE  n + j \in Dris(v)
    <2>1. j \in 1 .. m /\ Told(u[j])
      BY <1>6
    <2>2. v[n + j] = u[j] /\ n + j \in 1 .. n + m
      BY <1>2, <1>4, <2>1
    <2> QED
      BY <1>6, <2>1, <2>2
  <1>10. Dris(v) = Dris(s) \cup {n + j : j \in Dris(u)}
    <2>1. \A i \in Dris(v) : i \in Dris(s) \cup {n + j : j \in Dris(u)}
      BY <1>6, <1>7
    <2> QED
      BY <1>8, <1>9, <2>1
  <1>11. Dris(s) \in SUBSET (1 .. n) /\ Dris(u) \in SUBSET (1 .. m)
    BY <1>6
  <1> QED
    BY <1>1, <1>2, <1>10, <1>11 DEF Shifted, UpTo

(* A table is known that was told before, or is told now, as it was made.  *)
LEMMA KnownGrows ==
    ASSUME NEW s, NEW u, IsSeq(s), IsSeq(u), NEW t, AreMade(u),
           KnownIn(s, t) \/ Tells(u, t) # {}
    PROVE  KnownIn(s ++ u, t)
  <1>1. PICK v, n, m, A, B, C : /\ v = s ++ u /\ n = Len(s) /\ m = Len(u)
                                /\ A = Tells(s, t) /\ B = Tells(u, t) /\ C = Tells(v, t)
    OBVIOUS
  <1>2. /\ n \in Nat /\ m \in Nat /\ UpTo(A, n) /\ UpTo(B, m)
        /\ C = A \cup Shifted(n, B)
    BY <1>1, TellsCat
  <1>3. CASE B = {}
    <2>1. C = A /\ A # {} /\ KnownIn(s, t)
      BY <1>1, <1>2, <1>3 DEF KnownIn, Shifted
    <2>2. PICK l : l = LastIn(A)
      OBVIOUS
    <2>3. l \in 1 .. n
      BY <1>2, <2>1, <2>2, LastIs DEF UpTo
    <2>4. v[l] = s[l]
      BY <1>1, <2>3, CatFirst
    <2> QED
      BY <1>1, <2>1, <2>2, <2>4 DEF KnownIn
  <1>4. CASE B # {}
    <2>1. PICK l : l = LastIn(B)
      OBVIOUS
    <2>2. l \in B /\ LastIn(C) = n + l /\ l \in 1 .. m
      <3>1. LastIn(B) \in B /\ LastIn(A \cup Shifted(n, B)) = n + LastIn(B)
        BY <1>2, <1>4, LastOfTwo
      <3> QED
        BY <1>2, <2>1, <3>1 DEF UpTo
    <2>3. v[n + l] = u[l]
      BY <1>1, <2>2, CatSecond
    <2>4. u[l][1] \in {"DQT", "DHT"} /\ u[l][2] = t
      BY <1>1, <2>2 DEF Tells
    <2>5. t \in HuffNames => u[l] = Dht(t)
      BY <1>1, <2>2, <2>4 DEF AreMade, IsMade
    <2>6. C # {}
      BY <1>2, <1>4 DEF Shifted
    <2> QED
      BY <1>1, <2>2, <2>3, <2>5, <2>6 DEF KnownIn
  <1> QED
    BY <1>3, <1>4

(* It is known without a part that does not tell it.                       *)
LEMMA KnownBefore ==
    ASSUME NEW s, NEW u, IsSeq(s), IsSeq(u), NEW t, KnownIn(s ++ u, t), Tells(u, t) = {}
    PROVE  KnownIn(s, t)
  <1>1. PICK v, n, A, C : v = s ++ u /\ n = Len(s) /\ A = Tells(s, t) /\ C = Tells(v, t)
    OBVIOUS
  <1>2. n \in Nat /\ UpTo(A, n) /\ C = A
    <2>1. /\ n \in Nat /\ UpTo(A, n)
          /\ C = A \cup Shifted(n, Tells(u, t))
      BY <1>1, TellsCat
    <2> QED
      BY <2>1 DEF Shifted
  <1>3. KnownIn(v, t) /\ A # {}
    BY <1>1, <1>2 DEF KnownIn
  <1>4. PICK l : l = LastIn(A)
    OBVIOUS
  <1>5. l \in 1 .. n
    BY <1>2, <1>3, <1>4, LastIs DEF UpTo
  <1>6. v[l] = s[l]
    BY <1>1, <1>5, CatFirst
  <1> QED
    BY <1>1, <1>2, <1>3, <1>4, <1>6 DEF KnownIn

LEMMA DriCat ==
    ASSUME NEW s, NEW u, IsSeq(s), IsSeq(u)
    PROVE  /\ DriOf(s ++ u) = IF Dris(u) = {} THEN DriOf(s) ELSE DriOf(u)
           /\ Dris(s ++ u) = {} <=> Dris(s) = {} /\ Dris(u) = {}
  <1>1. PICK v, n, m, A, B, C : /\ v = s ++ u /\ n = Len(s) /\ m = Len(u)
                                /\ A = Dris(s) /\ B = Dris(u) /\ C = Dris(v)
    OBVIOUS
  <1>2. /\ n \in Nat /\ m \in Nat /\ UpTo(A, n) /\ UpTo(B, m)
        /\ C = A \cup Shifted(n, B)
    BY <1>1, DrisCat
  <1>3. CASE B = {}
    <2>1. C = A
      BY <1>2, <1>3 DEF Shifted
    <2>2. CASE A = {}
      BY <1>1, <1>3, <2>1, <2>2 DEF DriOf
    <2>3. CASE A # {}
      <3>1. PICK l : l = LastIn(A)
        OBVIOUS
      <3>2. l \in 1 .. n
        BY <1>2, <2>3, <3>1, LastIs DEF UpTo
      <3>3. v[l] = s[l]
        BY <1>1, <3>2, CatFirst
      <3> QED
        BY <1>1, <1>3, <2>1, <2>3, <3>1, <3>3 DEF DriOf
    <2> QED
      BY <2>2, <2>3
  <1>4. CASE B # {}
    <2>1. PICK l : l = LastIn(B)
      OBVIOUS
    <2>2. l \in B /\ LastIn(C) = n + l /\ l \in 1 .. m
      <3>1. LastIn(B) \in B /\ LastIn(A \cup Shifted(n, B)) = n + LastIn(B)
        BY <1>2, <1>4, LastOfTwo
      <3> QED
        BY <1>2, <2>1, <3>1 DEF UpTo
    <2>3. v[n + l] = u[l]
      BY <1>1, <2>2, CatSecond
    <2>4. C # {}
      BY <1>2, <1>4 DEF Shifted
    <2> QED
      BY <1>1, <1>4, <2>1, <2>2, <2>3, <2>4 DEF DriOf
  <1> QED
    BY <1>3, <1>4

-----------------------------------------------------------------------------
(* Data tells nothing.                                                     *)

LEMMA DataIsClean ==
    ASSUME NEW s, IsSeq(s), Data(s) = s, NEW i \in 1 .. Len(s)
    PROVE  ~IsTable(s[i])
  <1>1. PICK n, f : n = Len(s) /\ f = DataOf(s)
    OBVIOUS
  <1>2. n \in Nat /\ Flat(f, n) = s
    BY <1>1, SeqHas, DataIsFlat
  <1>3. \A j \in 1 .. n : IsSeq(f[j])
    BY <1>1, <1>2, DataIsSeqs
  <1>4. PICK j \in 1 .. n : \E q \in 1 .. Len(f[j]) : i = Len(Flat(f, j - 1)) + q
    <2>1. i \in 1 .. Len(Flat(f, n))
      BY <1>2
    <2> QED
      BY <1>2, <1>3, <2>1, FlatHas
  <1>5. PICK q \in 1 .. Len(f[j]) : i = Len(Flat(f, j - 1)) + q
    BY <1>4
  <1>6. s[i] = f[j][q]
    <2>1. Flat(f, n)[Len(Flat(f, j - 1)) + q] = f[j][q]
      BY <1>2, <1>3, FlatAt
    <2> QED
      BY <1>2, <1>5, <2>1
  <1>7. f[j] = IF IsTable(s[j]) THEN <<>> ELSE <<s[j]>>
    BY <1>1, <1>2 DEF DataOf
  <1>8. ~IsTable(s[j])
    BY <1>5, <1>7, SeqNone
  <1>9. q \in 1 .. Len(<<s[j]>>)
    BY <1>5, <1>7, <1>8
  <1>10. q = 1 /\ <<s[j]>>[1] = s[j]
    BY <1>9, SeqOne
  <1> QED
    BY <1>6, <1>7, <1>8, <1>10

LEMMA CleanTells ==
    ASSUME NEW s, IsSeq(s), Data(s) = s
    PROVE  AreMade(s) /\ Dris(s) = {} /\ \A t : Tells(s, t) = {}
  <1>1. DOMAIN s = 1 .. Len(s)
    BY SeqHas
  <1>2. ASSUME NEW i \in 1 .. Len(s)
        PROVE  IsMade(s[i]) /\ s[i][1] \notin {"DQT", "DHT"} /\ s[i][1] # "DRI"
    <2>1. ~IsTable(s[i])
      BY DataIsClean
    <2> QED
      BY <2>1 DEF IsTable, IsMade
  <1> QED
    BY <1>1, <1>2 DEF AreMade, Dris, Tells

(* What follows tells nothing: tables and the interval are as known.       *)
LEMMA CleanKeeps ==
    ASSUME NEW s, NEW u, IsSeq(s), IsSeq(u), Data(u) = u
    PROVE  DriOf(s ++ u) = DriOf(s) /\ \A t : KnownIn(s, t) => KnownIn(s ++ u, t)
  <1>1. AreMade(u) /\ Dris(u) = {} /\ \A t : Tells(u, t) = {}
    BY CleanTells
  <1>2. DriOf(s ++ u) = DriOf(s)
    BY <1>1, DriCat
  <1>3. ASSUME NEW t, KnownIn(s, t)
        PROVE  KnownIn(s ++ u, t)
    BY <1>1, <1>3, KnownGrows
  <1> QED
    BY <1>2, <1>3

-----------------------------------------------------------------------------
(* The tables of a header.                                                 *)

(* A table is left out only if it is marked sent.                          *)
LEMMA OnceEachHas ==
    ASSUME NEW tables, IsSeq(tables)
    PROVE  /\ \A i \in 1 .. Len(OnceEach(tables)) :
                  \E j \in 1 .. Len(tables) : OnceEach(tables)[i] = tables[j]
           /\ \A t \in ToSet(tables) \ sent :
                  \E i \in 1 .. Len(OnceEach(tables)) : OnceEach(tables)[i] = t
  <1>1. PICK n : n = Len(tables) /\ n \in Nat /\ DOMAIN tables = 1 .. n
    BY SeqHas
  <1>2. PICK g : g = [i \in 1 .. n |-> IF tables[i] \notin sent /\ \A j \in 1 .. i - 1 : tables[j] # tables[i]
                                      THEN <<tables[i]>> ELSE <<>>]
    OBVIOUS
  <1>3. [i \in 1 .. n |-> g[i]] = g
    BY <1>2
  <1>4. OnceEach(tables) = FlattenSeq(g)
    BY <1>1, <1>2, Zenon DEF OnceEach
  <1>5. PICK o : o = OnceEach(tables)
    OBVIOUS
  <1>6. o = Flat(g, n)
    BY <1>3, <1>4, <1>5, Zenon DEF Flat
  <1>7. \A i \in 1 .. n : (g[i] = <<tables[i]>> \/ g[i] = <<>>) /\ IsSeq(g[i])
    <2> TAKE i \in 1 .. n
    <2>1. g[i] = <<tables[i]>> \/ g[i] = <<>>
      BY <1>2
    <2> QED
      BY <2>1, SeqOne, SeqNone
  <1>8. ASSUME NEW i \in 1 .. Len(o)
        PROVE  \E j \in 1 .. n : o[i] = tables[j]
    <2>1. \A k \in 1 .. n : IsSeq(g[k])
      BY <1>7
    <2>2. PICK j \in 1 .. n : \E q \in 1 .. Len(g[j]) : i = Len(Flat(g, j - 1)) + q
      BY <1>1, <1>6, <2>1, FlatHas
    <2>3. PICK q \in 1 .. Len(g[j]) : i = Len(Flat(g, j - 1)) + q
      BY <2>2
    <2>4. o[i] = g[j][q]
      <3>1. Flat(g, n)[Len(Flat(g, j - 1)) + q] = g[j][q]
        BY <1>1, <2>1, FlatAt
      <3> QED
        BY <1>6, <2>3, <3>1
    <2>5. g[j] = <<tables[j]>>
      BY <1>7, <2>3, SeqNone
    <2>6. q \in 1 .. Len(<<tables[j]>>)
      BY <2>3, <2>5
    <2>7. q = 1 /\ <<tables[j]>>[1] = tables[j]
      BY <2>6, SeqOne
    <2> QED
      BY <2>4, <2>5, <2>7
  <1>9. ASSUME NEW t \in ToSet(tables) \ sent
        PROVE  \E i \in 1 .. Len(o) : o[i] = t
    <2> DEFINE S == {i \in 1 .. n : tables[i] = t}
    <2>1. S \in SUBSET Nat /\ S # {}
      BY <1>1 DEF ToSet
    <2>2. PICK i \in S : \A k \in S : i <= k
      <3> HIDE DEF S
      <3> QED
        BY <2>1, LeastNat
    <2>3. i \in 1 .. n /\ tables[i] = t
      OBVIOUS
    <2>4. \A j \in 1 .. i - 1 : tables[j] # t
      <3> TAKE j \in 1 .. i - 1
      <3>1. j \in 1 .. n /\ ~(i <= j)
        BY <1>1, <2>3
      <3> QED
        BY <2>2, <3>1
    <2>5. g[i] = <<t>>
      BY <1>2, <2>3, <2>4
    <2>6. 1 \in 1 .. Len(g[i]) /\ g[i][1] = t
      BY <2>5, SeqOne
    <2>7. \A k \in 1 .. n : IsSeq(g[k])
      BY <1>7
    <2>8. PICK l : l = Len(Flat(g, i - 1)) + 1
      OBVIOUS
    <2>9. l \in 1 .. Len(Flat(g, n)) /\ Flat(g, n)[l] = g[i][1]
      BY <1>1, <2>3, <2>6, <2>7, <2>8, FlatAt
    <2> QED
      BY <1>6, <2>6, <2>9
  <1> QED
    BY <1>1, <1>5, <1>8, <1>9

(* A component's Huffman tables are of the four of each class; the         *)
(* quantization tables are other tables.                                   *)
LEMMA HuffTablesHas ==
    ASSUME conf \in Configs, NEW scan, GoodScan(scan)
    PROVE  ToSet(HuffTables(scan)) \subseteq HuffNames
  <1>1. Len(scan) \in Nat /\ DOMAIN scan = 1 .. Len(scan) /\ \A i \in 1 .. Len(scan) : scan[i] \in Comps
    BY ScanHas DEF GoodScan
  <1>2. \A c \in Comps : conf.comps[c].dc \in 0 .. 3 /\ conf.comps[c].ac \in 0 .. 3
    <2>1. conf \in Config
      BY ConfigsAssumption
    <2>2. PICK comps : comps = conf.comps
      OBVIOUS
    <2>3. comps \in Seq(Sampled) \ {<<>>}
      BY <2>1, <2>2 DEF Config
    <2>4. ASSUME NEW c \in DOMAIN comps
          PROVE  comps[c].dc \in 0 .. 3 /\ comps[c].ac \in 0 .. 3
      <3>1. PICK e : e = comps[c]
        OBVIOUS
      <3>2. e \in Sampled
        BY <2>3, <3>1, LenProperties, ElementOfSeq
      <3>3. e.dc \in 0 .. 3 /\ e.ac \in 0 .. 3
        BY <3>2 DEF Sampled
      <3> QED
        BY <3>1, <3>3
    <2> QED
      BY <2>2, <2>4 DEF Comps
  <1>3. PICK g : g = [i \in 1 .. Len(scan) |-> <<<<"DC", conf.comps[scan[i]].dc>>,
                                               <<"AC", conf.comps[scan[i]].ac>>>>]
    OBVIOUS
  <1>4. ASSUME NEW i \in 1 .. Len(scan)
        PROVE  IsSeq(g[i]) /\ \A q \in 1 .. Len(g[i]) : g[i][q] \in HuffNames
    <2>1. PICK a, b : a = <<"DC", conf.comps[scan[i]].dc>> /\ b = <<"AC", conf.comps[scan[i]].ac>>
      OBVIOUS
    <2>2. g[i] = <<a, b>>
      BY <1>3, <2>1
    <2>3. a \in HuffNames /\ b \in HuffNames
      BY <1>1, <1>2, <2>1 DEF HuffNames
    <2>4. <<a, b>> \in Seq(HuffNames)
      BY <2>3
    <2>5. Len(<<a, b>>) = 2 /\ <<a, b>>[1] = a /\ <<a, b>>[2] = b
      OBVIOUS
    <2> QED
      BY <2>2, <2>3, <2>4, <2>5 DEF IsSeq
  <1>5. [i \in 1 .. Len(scan) |-> g[i]] = g
    BY <1>3
  <1>6. PICK h : h = HuffTables(scan)
    OBVIOUS
  <1>7. h = Flat(g, Len(scan))
    BY <1>1, <1>3, <1>5, <1>6, Zenon DEF HuffTables, Flat
  <1>8. IsSeq(h)
    BY <1>6, HuffTablesAre
  <1>9. ASSUME NEW k \in 1 .. Len(h)
        PROVE  h[k] \in HuffNames
    <2>1. PICK n : n = Len(scan)
      OBVIOUS
    <2>2. n \in Nat /\ \A i \in 1 .. n : IsSeq(g[i])
      BY <1>1, <1>4, <2>1
    <2>3. PICK i \in 1 .. n : \E q \in 1 .. Len(g[i]) : k = Len(Flat(g, i - 1)) + q
      BY <1>7, <2>1, <2>2, FlatHas
    <2>4. PICK q \in 1 .. Len(g[i]) : k = Len(Flat(g, i - 1)) + q
      BY <2>3
    <2>5. Flat(g, n)[Len(Flat(g, i - 1)) + q] = g[i][q]
      BY <2>2, FlatAt
    <2> QED
      BY <1>4, <1>7, <2>1, <2>4, <2>5
  <1>10. DOMAIN h = 1 .. Len(h)
    BY <1>8, SeqHas
  <1> QED
    BY <1>6, <1>9, <1>10 DEF ToSet

LEMMA QuantTablesAre ==
    ASSUME conf \in Configs
    PROVE  /\ IsSeq(QuantTables) /\ \A t \in ToSet(QuantTables) : t \notin HuffNames
           /\ \A i \in 1 .. Len(QuantTables) : QuantTables[i] \notin HuffNames
  <1>1. PICK m \in Nat \ {0} : Comps = 1 .. m
    BY CompsAre
  <1>2. IsList(QuantTables, m) /\ \A c \in 1 .. m : QuantTables[c] = <<"Q", conf.comps[c].quant>>
    BY <1>1 DEF QuantTables, IsList
  <1>3. IsSeq(QuantTables) /\ Len(QuantTables) = m /\ DOMAIN QuantTables = 1 .. m
    BY <1>1, <1>2, ListHas
  <1>4. \A e : <<"Q", e>> \notin HuffNames
    BY DEF HuffNames
  <1>5. \A c \in 1 .. m : QuantTables[c] \notin HuffNames
    BY <1>2, <1>4
  <1> QED
    BY <1>3, <1>5 DEF ToSet

-----------------------------------------------------------------------------
(* What a header tells.                                                    *)

LEMMA TellsOfTwo ==
    ASSUME NEW s, NEW u, IsSeq(s), IsSeq(u), AreMade(s), AreMade(u)
    PROVE  /\ AreMade(s ++ u)
           /\ \A t : Tells(s ++ u, t) # {} <=> Tells(s, t) # {} \/ Tells(u, t) # {}
  <1>1. PICK v, n, m : v = s ++ u /\ n = Len(s) /\ m = Len(u)
    OBVIOUS
  <1>2. n \in Nat /\ m \in Nat
    BY <1>1, SeqHas
  <1>3. IsSeq(v) /\ Len(v) = n + m /\ \A i \in 1 .. n : v[i] = s[i]
    BY <1>1, CatLen, CatFirst
  <1>4. \A i \in 1 .. m : v[n + i] = u[i]
    BY <1>1, CatSecond
  <1>5. ASSUME NEW i \in 1 .. Len(v)
        PROVE  IsMade(v[i])
    <2>1. CASE i <= n
      BY <1>1, <1>2, <1>3, <2>1 DEF AreMade
    <2>2. CASE i > n
      <3>1. PICK j : j = i - n
        OBVIOUS
      <3>2. j \in 1 .. m /\ i = n + j
        BY <1>2, <1>3, <2>2, <3>1
      <3>3. v[i] = u[j] /\ IsMade(u[j])
        BY <1>1, <1>4, <3>2 DEF AreMade
      <3> QED
        BY <3>3
    <2> QED
      BY <1>2, <1>3, <2>1, <2>2
  <1>6. ASSUME NEW t
        PROVE  Tells(v, t) # {} <=> Tells(s, t) # {} \/ Tells(u, t) # {}
    <2>1. PICK A, B, C : A = Tells(s, t) /\ B = Tells(u, t) /\ C = Tells(v, t)
      OBVIOUS
    <2>2. C = A \cup Shifted(n, B)
      BY <1>1, <2>1, TellsCat
    <2>3. Shifted(n, B) # {} <=> B # {}
      BY DEF Shifted
    <2> QED
      BY <2>1, <2>2, <2>3
  <1> QED
    BY <1>1, <1>5, <1>6 DEF AreMade

LEMMA TablesTell ==
    ASSUME NEW q, IsSeq(q), NEW s,
           \/ s = [i \in DOMAIN q |-> Dht(q[i])]
           \/ /\ s = [i \in DOMAIN q |-> Dqt(q[i])]
              /\ \A i \in 1 .. Len(q) : q[i] \notin HuffNames
    PROVE  /\ IsSeq(s) /\ AreMade(s) /\ Dris(s) = {}
           /\ \A i \in 1 .. Len(q) : Tells(s, q[i]) # {}
  <1>1. PICK n : n = Len(q) /\ n \in Nat /\ DOMAIN q = 1 .. n
    BY SeqHas
  <1>2. IsList(s, n) /\ \A i \in 1 .. n : s[i] = Dht(q[i]) \/ (s[i] = Dqt(q[i]) /\ q[i] \notin HuffNames)
    BY <1>1 DEF IsList
  <1>3. IsSeq(s) /\ Len(s) = n /\ DOMAIN s = 1 .. n
    BY <1>1, <1>2, ListHas
  <1>4. ASSUME NEW i \in 1 .. n
        PROVE  IsMade(s[i]) /\ s[i][1] # "DRI" /\ s[i][1] \in {"DQT", "DHT"} /\ s[i][2] = q[i]
    <2>1. PICK e, t : e = s[i] /\ t = q[i]
      OBVIOUS
    <2>2. CASE e = Dht(t)
      <3>1. e[1] = "DHT" /\ e[2] = t
        BY <2>2 DEF Dht
      <3> QED
        BY <2>1, <2>2, <3>1 DEF IsMade
    <2>3. CASE e = Dqt(t) /\ t \notin HuffNames
      <3>1. e[1] = "DQT" /\ e[2] = t
        BY <2>3 DEF Dqt
      <3> QED
        BY <2>1, <2>3, <3>1 DEF IsMade
    <2> QED
      BY <1>2, <2>1, <2>2, <2>3
  <1>5. Dris(s) = {}
    BY <1>3, <1>4 DEF Dris
  <1>6. ASSUME NEW i \in 1 .. n
        PROVE  Tells(s, q[i]) # {}
    <2>1. i \in Tells(s, q[i])
      BY <1>3, <1>4 DEF Tells
    <2> QED
      BY <2>1
  <1> QED
    BY <1>1, <1>3, <1>4, <1>5, <1>6 DEF AreMade

LEMMA DriTells ==
    ASSUME NEW n
    PROVE  /\ AreMade(Dri(n)) /\ \A t : Tells(Dri(n), t) = {}
           /\ IF n # lastDRI THEN Dris(Dri(n)) # {} /\ DriOf(Dri(n)) = n ELSE Dris(Dri(n)) = {}
  <1>1. CASE n # lastDRI
    <2>1. PICK e : e = <<"DRI", n>>
      OBVIOUS
    <2>2. PICK s : s = <<e>>
      OBVIOUS
    <2>3. Dri(n) = s
      BY <1>1, <2>1, <2>2 DEF Dri
    <2>4. IsSeq(s) /\ Len(s) = 1 /\ s[1] = e
      BY <2>2, SeqOne
    <2>5. DOMAIN s = 1 .. 1
      BY <2>4, SeqHas
    <2>6. e[1] = "DRI" /\ e[2] = n
      BY <2>1
    <2>7. \A i \in 1 .. 1 : s[i] = e
      BY <2>4
    <2>8. Dris(s) = {1}
      BY <2>5, <2>6, <2>7 DEF Dris
    <2>9. UpTo(Dris(s), 1) /\ Dris(s) # {}
      BY <2>8 DEF UpTo
    <2>10. LastIn(Dris(s)) = 1
      <3>1. LastIn(Dris(s)) \in Dris(s)
        BY <2>9, LastIs
      <3> QED
        BY <2>8, <3>1
    <2>11. DriOf(s) = n
      BY <2>4, <2>6, <2>9, <2>10 DEF DriOf
    <2>12. AreMade(s) /\ \A t : Tells(s, t) = {}
      BY <2>4, <2>5, <2>6, <2>7 DEF AreMade, IsMade, Tells
    <2> QED
      BY <1>1, <2>3, <2>9, <2>11, <2>12
  <1>2. CASE n = lastDRI
    <2>1. Dri(n) = <<>>
      BY <1>2 DEF Dri
    <2>2. IsSeq(<<>>) /\ Data(<<>>) = <<>>
      BY SeqNone, DataEmpty
    <2>3. AreMade(<<>>) /\ Dris(<<>>) = {} /\ \A t : Tells(<<>>, t) = {}
      BY <2>2, CleanTells
    <2> QED
      BY <1>2, <2>1, <2>3
  <1> QED
    BY <1>1, <1>2

(* The tables a header is for are in it, unless marked sent, as last made; *)
(* and the interval, if it is another one.                                 *)
LEMMA HeaderTells ==
    ASSUME conf \in Configs, NEW scan, GoodScan(scan), NEW n, NEW header, header = Header(scan, n)
    PROVE  /\ IsSeq(header) /\ AreMade(header)
           /\ \A t \in ToSet(HuffTables(scan)) \ sent : Tells(header, t) # {}
           /\ master.scan = 1 => \A t \in ToSet(QuantTables) \ sent : Tells(header, t) # {}
           /\ IF n # lastDRI THEN Dris(header) # {} /\ DriOf(header) = n ELSE Dris(header) = {}
  <1>1. PICK a : /\ a = HuffHeader(scan) /\ IsSeq(a) /\ AreMade(a) /\ Dris(a) = {}
                 /\ \A t \in ToSet(HuffTables(scan)) \ sent : Tells(a, t) # {}
    <2>1. PICK q : q = OnceEach(HuffTables(scan)) /\ IsSeq(q)
      BY HuffTablesAre, OnceEachIs
    <2>2. PICK a : a = [i \in DOMAIN q |-> Dht(q[i])] /\ a = HuffHeader(scan)
      BY <2>1 DEF HuffHeader
    <2>3. IsSeq(a) /\ AreMade(a) /\ Dris(a) = {} /\ \A i \in 1 .. Len(q) : Tells(a, q[i]) # {}
      BY <2>1, <2>2, TablesTell
    <2>4. ASSUME NEW t \in ToSet(HuffTables(scan)) \ sent
          PROVE  Tells(a, t) # {}
      <3>1. \E i \in 1 .. Len(q) : q[i] = t
        BY <2>1, HuffTablesAre, OnceEachHas
      <3> QED
        BY <2>3, <3>1
    <2> QED
      BY <2>2, <2>3, <2>4
  <1>2. PICK b, c : /\ b = Dri(n) /\ IsSeq(b) /\ AreMade(b)
                    /\ IF n # lastDRI THEN Dris(b) # {} /\ DriOf(b) = n ELSE Dris(b) = {}
                    /\ c = ScanStart(scan) /\ IsSeq(c) /\ AreMade(c) /\ Dris(c) = {}
    BY DriIs, DriTells, Markers, CleanTells
  <1>3. PICK ab, h : ab = a ++ b /\ h = ab ++ c
    OBVIOUS
  <1>4. IsSeq(ab) /\ AreMade(ab) /\ \A t : Tells(a, t) # {} => Tells(ab, t) # {}
    BY <1>1, <1>2, <1>3, CatLen, TellsOfTwo
  <1>5. IsSeq(h) /\ AreMade(h) /\ \A t : Tells(ab, t) # {} => Tells(h, t) # {}
    BY <1>2, <1>3, <1>4, CatLen, TellsOfTwo
  <1>6. IF n # lastDRI THEN Dris(h) # {} /\ DriOf(h) = n ELSE Dris(h) = {}
    <2>1. /\ DriOf(ab) = IF Dris(b) = {} THEN DriOf(a) ELSE DriOf(b)
          /\ Dris(ab) = {} <=> Dris(a) = {} /\ Dris(b) = {}
      BY <1>1, <1>2, <1>3, DriCat
    <2>2. /\ DriOf(h) = IF Dris(c) = {} THEN DriOf(ab) ELSE DriOf(c)
          /\ Dris(h) = {} <=> Dris(ab) = {} /\ Dris(c) = {}
      BY <1>2, <1>3, <1>4, DriCat
    <2> QED
      BY <1>1, <1>2, <2>1, <2>2
  <1>7. ScanHeader(scan, n) = h
    BY <1>1, <1>2, <1>3, Zenon DEF ScanHeader, ScanStart, ++
  <1>8. CASE master.scan = 1
    <2>1. PICK q : q = OnceEach(QuantTables) /\ IsSeq(q)
      BY QuantTablesAre, OnceEachIs
    <2>2. \A i \in 1 .. Len(q) : q[i] \notin HuffNames
      BY <2>1, QuantTablesAre, OnceEachHas
    <2>3. PICK s : s = [i \in DOMAIN q |-> Dqt(q[i])]
      OBVIOUS
    <2>4. IsSeq(s) /\ AreMade(s) /\ Dris(s) = {} /\ \A i \in 1 .. Len(q) : Tells(s, q[i]) # {}
      BY <2>1, <2>2, <2>3, TablesTell
    <2>5. PICK f, k : f = FrameStart /\ k = s ++ f
      OBVIOUS
    <2>6. IsSeq(f) /\ AreMade(f) /\ Dris(f) = {}
      BY <2>5, Markers, CleanTells
    <2>7. FrameHeader = k
      BY <2>1, <2>3, <2>5, Zenon DEF FrameHeader, FrameStart, ++
    <2>8. header = k ++ h
      BY <1>7, <1>8, <2>7, Zenon DEF Header, ++
    <2>9. IsSeq(k) /\ AreMade(k) /\ \A t : Tells(s, t) # {} => Tells(k, t) # {}
      BY <2>4, <2>5, <2>6, CatLen, TellsOfTwo
    <2>10. Dris(k) = {}
      BY <2>4, <2>5, <2>6, DriCat
    <2>11. /\ IsSeq(header) /\ AreMade(header)
           /\ \A t : Tells(k, t) # {} \/ Tells(h, t) # {} => Tells(header, t) # {}
      BY <1>5, <2>8, <2>9, CatLen, TellsOfTwo
    <2>12. IF n # lastDRI THEN Dris(header) # {} /\ DriOf(header) = n ELSE Dris(header) = {}
      <3>1. /\ DriOf(header) = IF Dris(h) = {} THEN DriOf(k) ELSE DriOf(h)
            /\ Dris(header) = {} <=> Dris(k) = {} /\ Dris(h) = {}
        BY <1>5, <2>8, <2>9, DriCat
      <3> QED
        BY <1>6, <2>10, <3>1
    <2>13. ASSUME NEW t \in ToSet(QuantTables) \ sent
           PROVE  Tells(header, t) # {}
      <3>1. \E i \in 1 .. Len(q) : q[i] = t
        BY <2>1, QuantTablesAre, OnceEachHas
      <3> QED
        BY <2>4, <2>9, <2>11, <3>1
    <2> QED
      BY <1>1, <1>4, <1>5, <2>11, <2>12, <2>13
  <1>9. CASE master.scan # 1
    <2>1. header = <<>> ++ h
      BY <1>7, <1>9, Zenon DEF Header, ++
    <2>2. header = h
      BY <1>5, <2>1, CatEmpty
    <2> QED
      BY <1>1, <1>4, <1>5, <1>6, <1>9, <2>2
  <1> QED
    BY <1>8, <1>9

-----------------------------------------------------------------------------
(* What the invariant has of it.  A decoder has each table that is marked  *)
(* sent, but for the lost ones, as last made; those of the scan are marked *)
(* once its header is out; and the interval that is written last is        *)
(* last_restart_interval.                                                  *)

TablesTold == state # "exited" => \A t \in sent \ lost : KnownIn(file ++ buf, t)

TablesSent ==
    Busy => /\ HeaderOut => ToSet(HuffTables(Scan)) \subseteq sent
            /\ HeaderOut \/ master.scan > 1 => ToSet(QuantTables) \subseteq sent

IntervalTold == Busy => lastDRI = DriOf(Stream) /\ (HeaderOut => interval = lastDRI)

(* The symbols of an MCU, and the MCUs whose symbols are counted for the   *)
(* tables of the scan: those that were gathered.                           *)
SymbolsAt(scan, n, m) ==
    LET blocks == ImageBlocks(scan, n, m) places == Places(scan) IN
    {<<conf.comps[places[k].c].dc, conf.comps[places[k].c].ac, blocks[k]>> : k \in DOMAIN blocks}

Seen == IF ~Gathering THEN Mcus(Scan) ELSE IF call = "passes" THEN 0 ELSE Done

AllCounted ==
    Busy /\ conf.optimize => \A m \in 0 .. Seen - 1 : SymbolsAt(Scan, interval, m) \subseteq counted

Known == TablesTold /\ TablesSent /\ IntervalTold /\ AllCounted /\ ~uncounted

(* It follows what the invariant is for.                                   *)
LEMMA KnownIsTold == ASSUME Inv, Known PROVE DecoderIsTold
  <1>1. ASSUME InData, ~Gathering
        PROVE  IntervalIsKnown /\ TablesAreKnown
    <2>1. Busy /\ HeaderOut
      <3>1. Busy
        BY <1>1 DEF Inv, Control, InData
      <3>2. ~master.startup
        BY <1>1, <3>1, McuIs
      <3> QED
        BY <1>1, <3>1, <3>2 DEF HeaderOut, InData
    <2>2. PICK s : s = Stream /\ IsSeq(s) /\ DOMAIN s = 1 .. Len(s)
      BY StreamIsSeq, SeqHas DEF Inv
    <2>3. interval = DriOf(s) /\ LastIn(Dris(s)) = LastOf(s, LAMBDA token : token[1] = "DRI")
      BY <2>1, <2>2 DEF Known, IntervalTold, LastOf, LastIn, Dris
    <2>4. UpTo(Dris(s), Len(s))
      BY <2>2, SeqHas DEF UpTo, Dris
    <2>5. LastIn(Dris(s)) = 0 <=> Dris(s) = {}
      <3>1. CASE Dris(s) = {}
        <4>1. UpTo({1}, 1)
          BY DEF UpTo
        <4>2. Max({0}) = 0
          BY 0 \in Nat, MaxMin
        <4> QED
          BY <3>1, <4>2 DEF LastIn
      <3>2. CASE Dris(s) # {}
        <4>1. LastIn(Dris(s)) \in Dris(s)
          BY <2>4, <3>2, LastIs
        <4> QED
          BY <2>4, <3>2, <4>1 DEF UpTo
      <3> QED
        BY <3>1, <3>2
    <2>6. IntervalIsKnown
      BY <2>2, <2>3, <2>5 DEF IntervalIsKnown, DriOf
    <2>7. PICK all : all = file \o buf /\ all = file ++ buf /\ IsSeq(all) /\ DOMAIN all = 1 .. Len(all)
      <3>1. IsSeq(file ++ buf) /\ file ++ buf = file \o buf
        BY CatLen DEF Inv, OutTypes, ++
      <3> QED
        BY <3>1, SeqHas
    <2> DEFINE latest(t) == LastOf(all, LAMBDA token : token[1] \in {"DQT", "DHT"} /\ token[2] = t)
    <2>8. \A t : latest(t) = LastIn(Tells(all, t))
      BY DEF LastOf, LastIn, Tells
    <2>9. ASSUME NEW t \in sent \ lost
          PROVE  latest(t) # 0 /\ (t \in HuffNames => all[latest(t)] = Dht(t))
      <3>1. KnownIn(all, t)
        BY <2>1, <2>7 DEF Known, TablesTold, Busy
      <3>2. UpTo(Tells(all, t), Len(all))
        BY <2>7, SeqHas DEF UpTo, Tells
      <3>3. LastIn(Tells(all, t)) \in Tells(all, t)
        BY <3>1, <3>2, LastIs DEF KnownIn
      <3>4. LastIn(Tells(all, t)) # 0
        BY <3>2, <3>3 DEF UpTo
      <3> HIDE DEF latest
      <3> QED
        BY <2>8, <3>1, <3>4 DEF KnownIn
    <2>10. /\ ToSet(HuffTables(Scan)) \subseteq sent /\ ToSet(QuantTables) \subseteq sent
           /\ ToSet(HuffTables(Scan)) \subseteq HuffNames
      <3>1. conf \in Configs /\ GoodScan(Scan)
        BY <1>1, <2>1, McuIs DEF Inv, OutTypes
      <3> QED
        BY <2>1, <3>1, HuffTablesHas DEF Known, TablesSent
    <2>11. /\ \A t \in ToSet(HuffTables(Scan)) \ lost : latest(t) # 0 /\ all[latest(t)] = Dht(t)
           /\ \A t \in ToSet(QuantTables) \ lost : latest(t) # 0
      <3> HIDE DEF latest
      <3> QED
        BY <2>9, <2>10
    <2>12. TablesAreKnown
      BY <2>7, <2>11, Zenon DEF TablesAreKnown
    <2> QED
      BY <2>6, <2>12
  <1>2. ~uncounted
    BY DEF Known
  <1> QED
    BY <1>1, <1>2 DEF DecoderIsTold

-----------------------------------------------------------------------------
(* What keeps each part.                                                   *)

LEMMA SameSymbols ==
    ASSUME conf' = conf, NEW scan, NEW n, NEW m
    PROVE  SymbolsAt(scan, n, m)' = SymbolsAt(scan, n, m)
  <1>1. PICK b, p : b = ImageBlocks(scan, n, m) /\ p = Places(scan)
    OBVIOUS
  <1>2. ImageBlocks(scan, n, m)' = b /\ Places(scan)' = p
    BY <1>1, SameBlocks, SameScan
  <1>3. SymbolsAt(scan, n, m)
            = {<<conf.comps[p[k].c].dc, conf.comps[p[k].c].ac, b[k]>> : k \in DOMAIN b}
    BY <1>1 DEF SymbolsAt
  <1>4. SymbolsAt(scan, n, m)'
            = {<<conf'.comps[p[k].c].dc, conf'.comps[p[k].c].ac, b[k]>> : k \in DOMAIN b}
    BY <1>2 DEF SymbolsAt
  <1> QED
    BY <1>3, <1>4

LEMMA SameTables ==
    ASSUME conf' = conf
    PROVE  QuantTables' = QuantTables /\ \A scan : HuffTables(scan)' = HuffTables(scan)
  BY DEF QuantTables, HuffTables, Comps

LEMMA KnownAfter ==
    ASSUME NEW t, NEW v, v = file' ++ buf', KnownIn(v, t), t \in HuffNames => made'[t] = made[t]
    PROVE  KnownIn(file ++ buf, t)'
  <1>1. /\ Tells(v, t) # {}
        /\ t \in HuffNames => v[LastIn(Tells(v, t))] = <<"DHT", t, made'[t]>>
    BY DEF KnownIn, Dht
  <1>2. KnownIn(file ++ buf, t)' <=> /\ Tells(file' ++ buf', t) # {}
                                     /\ t \in HuffNames => (file' ++ buf')[LastIn(Tells(file' ++ buf', t))]
                                                              = <<"DHT", t, made'[t]>>
    BY DEF KnownIn, Tells, Dht, ++, LastIn, HuffNames
  <1> QED
    BY <1>1, <1>2

LEMMA TablesKept ==
    ASSUME TablesTold, state # "exited", NEW s, s = file ++ buf, IsSeq(s), NEW u, IsSeq(u), AreMade(u),
           NEW v, v = file' ++ buf', v = s ++ u,
           \A t \in sent' \ lost' : /\ t \in sent \ lost \/ Tells(u, t) # {}
                                    /\ t \in HuffNames => made'[t] = made[t]
    PROVE  TablesTold'
  <1>1. ASSUME NEW t \in sent' \ lost'
        PROVE  KnownIn(file ++ buf, t)'
    <2>1. KnownIn(s, t) \/ Tells(u, t) # {}
      BY DEF TablesTold
    <2>2. KnownIn(v, t)
      BY <2>1, KnownGrows
    <2> QED
      BY <2>2, KnownAfter
  <1> QED
    BY <1>1 DEF TablesTold

LEMMA SentKept ==
    ASSUME TablesSent, Busy, conf' = conf, sent' = sent, Scan' = Scan, master'.scan = master.scan,
           HeaderOut' => HeaderOut
    PROVE  TablesSent'
  <1>1. PICK scan : scan = Scan
    OBVIOUS
  <1>2. HuffTables(Scan)' = HuffTables(Scan) /\ QuantTables' = QuantTables
    BY <1>1, SameTables
  <1> QED
    BY <1>2 DEF TablesSent, ToSet

LEMMA IntervalKept ==
    ASSUME IntervalTold, Busy, lastDRI' = lastDRI, HeaderOut' => HeaderOut /\ interval' = interval,
           IsSeq(Stream), NEW u, IsSeq(u), Data(u) = u, Stream' = Stream ++ u
    PROVE  IntervalTold'
  <1>1. DriOf(Stream ++ u) = DriOf(Stream)
    BY CleanKeeps
  <1>2. DriOf(Stream)' = DriOf(Stream')
    BY DEF DriOf, Dris, LastIn
  <1> QED
    BY <1>1, <1>2 DEF IntervalTold

LEMMA CountedKept ==
    ASSUME AllCounted, Busy, UNCHANGED <<conf, interval, counted>>, Scan' = Scan, Seen' = Seen
    PROVE  AllCounted'
  <1>1. PICK scan, n : scan = Scan /\ n = interval
    OBVIOUS
  <1>2. \A m : SymbolsAt(Scan, interval, m)' = SymbolsAt(Scan, interval, m)
    BY <1>1, SameSymbols
  <1> QED
    BY <1>2 DEF AllCounted

LEMMA SameSeen ==
    ASSUME conf' = conf, coef' = coef, master'.type = master.type, master'.scan = master.scan,
           call' = "passes" <=> call = "passes"
    PROVE  Scan' = Scan /\ Seen' = Seen /\ (Gathering' <=> Gathering)
  <1>1. Scan' = Scan /\ Done' = Done
    BY SameDone
  <1>2. PICK scan : scan = Scan
    OBVIOUS
  <1>3. Mcus(Scan)' = Mcus(Scan)
    BY <1>1, <1>2, SameScan
  <1>4. Gathering' <=> Gathering
    BY DEF Gathering
  <1> QED
    BY <1>1, <1>3, <1>4 DEF Seen

(* What is written tells nothing, and the tables are the same.             *)
LEMMA DataKnown ==
    ASSUME Inv, Known, Busy, UNCHANGED <<conf, sent, made, lastDRI, lost>>, Scan' = Scan,
           master'.scan = master.scan, HeaderOut' => HeaderOut /\ interval' = interval,
           NEW u, IsSeq(u), Data(u) = u,
           file' ++ buf' = (file ++ buf) ++ u, Stream' = Stream ++ u
    PROVE  TablesTold' /\ TablesSent' /\ IntervalTold'
  <1>1. PICK s : s = file ++ buf /\ IsSeq(s) /\ IsSeq(Stream)
    <2>1. IsSeq(file ++ buf) /\ IsSeq(Stream)
      BY CatLen, StreamIsSeq DEF Inv, OutTypes
    <2> QED
      BY <2>1
  <1>2. TablesTold'
    <2>1. PICK v : v = file' ++ buf' /\ v = s ++ u
      BY <1>1
    <2>2. AreMade(u) /\ TablesTold /\ state # "exited"
      BY CleanTells DEF Known, Busy
    <2> QED
      BY <1>1, <2>1, <2>2, TablesKept
  <1>3. TablesSent' /\ IntervalTold'
    BY <1>1, SentKept, IntervalKept DEF Known
  <1> QED
    BY <1>2, <1>3

(* A step that writes nothing and leaves the pass alone.                   *)
LEMMA QuietKnown ==
    ASSUME Inv, Known, Busy, call' = "passes" <=> call = "passes",
           UNCHANGED <<conf, coef, master, interval, tableVars, lost, uncounted>>,
           file' ++ buf' = file ++ buf, Stream' = Stream
    PROVE  Known'
  <1>1. sent' = sent /\ made' = made /\ counted' = counted /\ lastDRI' = lastDRI
    BY DEF tableVars
  <1>2. Scan' = Scan /\ Seen' = Seen /\ (HeaderOut' <=> HeaderOut)
    BY SameSeen DEF HeaderOut
  <1>3. PICK u : /\ IsSeq(u) /\ Data(u) = u /\ Stream ++ u = Stream
                 /\ (file ++ buf) ++ u = file ++ buf
    <2>1. IsSeq(<<>>) /\ Data(<<>>) = <<>> /\ IsSeq(Stream) /\ IsSeq(file ++ buf)
      BY SeqNone, DataEmpty, StreamIsSeq, CatLen DEF Inv, OutTypes
    <2> QED
      BY <2>1, CatEmpty
  <1>4. TablesTold' /\ TablesSent' /\ IntervalTold'
    BY <1>1, <1>2, <1>3, DataKnown
  <1>5. AllCounted'
    BY <1>1, <1>2, CountedKept DEF Known
  <1> QED
    BY <1>4, <1>5 DEF Known

LEMMA ExitKnown ==
    ASSUME Known, state' = "exited", uncounted' = uncounted
    PROVE  Known'
  BY DEF Known, TablesTold, TablesSent, IntervalTold, AllCounted, Busy

(* A header is written.                                                    *)
LEMMA HeaderTold ==
    ASSUME Inv, Known, Busy, ~HeaderOut, GoodScan(Scan), master.scan \in Nat \ {0},
           NEW n, EmitHeader(Scan, n), UNCHANGED <<conf, begun, made, lost>>, state' = state,
           Scan' = Scan, master'.scan = master.scan, interval' = n
    PROVE  TablesTold' /\ TablesSent' /\ IntervalTold'
  <1>1. PICK scan, h : scan = Scan /\ h = Header(scan, n)
    OBVIOUS
  <1>2. /\ Emit(h) /\ lastDRI' = n
        /\ sent' = sent \cup ToSet(HuffTables(scan))
                        \cup (IF master.scan = 1 THEN ToSet(QuantTables) ELSE {})
    BY <1>1 DEF EmitHeader
  <1>3. /\ IsSeq(h) /\ AreMade(h)
        /\ \A t \in ToSet(HuffTables(scan)) \ sent : Tells(h, t) # {}
        /\ master.scan = 1 => \A t \in ToSet(QuantTables) \ sent : Tells(h, t) # {}
        /\ IF n # lastDRI THEN Dris(h) # {} /\ DriOf(h) = n ELSE Dris(h) = {}
    BY <1>1, HeaderTells DEF Inv, OutTypes
  <1>4. Stream' = Stream ++ h /\ file' ++ buf' = (file ++ buf) ++ h
    BY <1>2, <1>3, Emits DEF Inv
  <1>5. IsSeq(Stream) /\ IsSeq(file ++ buf)
    BY StreamIsSeq, CatLen DEF Inv, OutTypes
  <1>6. TablesTold'
    <2>1. PICK s : s = file ++ buf /\ IsSeq(s)
      BY <1>5
    <2>2. PICK v : v = file' ++ buf' /\ v = s ++ h
      BY <1>4, <2>1
    <2>3. \A t \in sent' \ lost' : t \in sent \ lost \/ Tells(h, t) # {}
      BY <1>2, <1>3
    <2>4. TablesTold /\ state # "exited"
      BY DEF Known, Busy
    <2> QED
      BY <1>3, <2>1, <2>2, <2>3, <2>4, TablesKept
  <1>7. TablesSent'
    <2>1. HuffTables(Scan)' = HuffTables(scan) /\ QuantTables' = QuantTables
      BY <1>1, SameTables
    <2>2. ToSet(HuffTables(scan)) \subseteq sent' /\ ToSet(QuantTables) \subseteq sent'
      <3>1. CASE master.scan = 1
        BY <1>2, <3>1
      <3>2. CASE master.scan # 1
        BY <1>2, <3>2 DEF Known, TablesSent
      <3> QED
        BY <3>1, <3>2
    <2> QED
      BY <2>1, <2>2 DEF TablesSent, ToSet
  <1>8. IntervalTold'
    <2>1. DriOf(Stream ++ h) = n
      <3>1. DriOf(Stream ++ h) = IF Dris(h) = {} THEN DriOf(Stream) ELSE DriOf(h)
        BY <1>3, <1>5, DriCat
      <3>2. lastDRI = DriOf(Stream)
        BY DEF Known, IntervalTold
      <3> QED
        BY <1>3, <3>1, <3>2
    <2>2. DriOf(Stream)' = DriOf(Stream')
      BY DEF DriOf, Dris, LastIn
    <2> QED
      BY <1>2, <1>4, <2>1, <2>2 DEF IntervalTold
  <1> QED
    BY <1>6, <1>7, <1>8

LEMMA FailsKnown ==
    ASSUME Known, NEW tokens, NEW n, FailsWithin(tokens, n)
    PROVE  Known'
  <1>1. state' = "exited" /\ uncounted' = uncounted
    BY DEF FailsWithin, Exits, historyVars
  <1> QED
    BY <1>1, ExitKnown

(* A call that begins writes the header, if it was not yet.                *)
LEMMA CallKnown ==
    ASSUME Inv, Known, Busy, call \in {"none", "main"}, call' \in {"main", "compress"},
           UNCHANGED <<conf, state, coef, interval, historyVars>>,
           \/ /\ master.startup /\ EmitHeader(Scan, interval)
              /\ master' = [master EXCEPT !.startup = FALSE]
              /\ UNCHANGED <<made, counted>>
           \/ ~master.startup /\ UNCHANGED <<master, tableVars, outVars>>
    PROVE  Known'
  <1>1. /\ begun' = begun /\ lost' = lost /\ uncounted' = uncounted /\ Kinds /\ conf \in Configs
        /\ conf' = conf /\ coef' = coef /\ Passes
    BY DEF historyVars, Inv, OutTypes, Control
  <1>2. CASE /\ master.startup /\ EmitHeader(Scan, interval)
             /\ master' = [master EXCEPT !.startup = FALSE]
             /\ UNCHANGED <<made, counted>>
    <2>1. ~conf.optimize /\ call # "passes" /\ ~HeaderOut
      BY <1>1, <1>2 DEF Passes, HeaderOut
    <2>2. GoodScan(Scan) /\ master.scan \in Nat \ {0}
      BY <1>1, <2>1, ScanIs DEF Kinds
    <2>3. master'.scan = master.scan
      BY <1>1, <1>2 DEF Kinds
    <2>4. Scan' = Scan
      BY <1>1, <2>3, SameDone
    <2>5. TablesTold' /\ TablesSent' /\ IntervalTold'
      BY <1>1, <1>2, <2>1, <2>2, <2>3, <2>4, HeaderTold
    <2>6. AllCounted'
      BY <2>1 DEF AllCounted
    <2> QED
      BY <1>1, <2>5, <2>6 DEF Known
  <1>3. CASE ~master.startup /\ UNCHANGED <<master, tableVars, outVars>>
    <2>1. file' = file /\ buf' = buf
      BY <1>3 DEF outVars
    <2>2. Stream' = Stream /\ file' ++ buf' = file ++ buf
      BY <1>1, <2>1 DEF Stream
    <2> QED
      BY <1>1, <1>3, <2>2, QuietKnown
  <1> QED
    BY <1>2, <1>3

LEMMA WriteRawDataKnown == ASSUME Inv, Known, WriteRawData PROVE Known'
  <1>1. Busy /\ call = "none"
    BY DEF WriteRawData, Busy
  <1>2. ASSUME EmitFails(Header(Scan, interval))
        PROVE  Known'
    BY <1>2, FailsKnown DEF EmitFails
  <1>3. ASSUME Compresses
        PROVE  call' = "compress" /\ UNCHANGED <<conf, state, coef, interval, historyVars>>
    BY <1>3 DEF Compresses
  <1>4. ASSUME master.startup, EmitHeader(Scan, interval), master' = [master EXCEPT !.startup = FALSE],
               Compresses, UNCHANGED <<made, counted>>
        PROVE  Known'
    BY <1>1, <1>3, <1>4, CallKnown
  <1>5. ASSUME ~master.startup, Compresses, UNCHANGED <<master, tableVars, outVars>>
        PROVE  Known'
    BY <1>1, <1>3, <1>5, CallKnown
  <1> QED
    BY <1>2, <1>4, <1>5 DEF WriteRawData, Startup

LEMMA WriteScanlinesKnown == ASSUME Inv, Known, WriteScanlines PROVE Known'
  <1> DEFINE Begins(n) == /\ call' = "main"
                          /\ io' = [io EXCEPT !.ctr = 0, !.avail = AtMost(n, conf.height - line)]
                          /\ UNCHANGED <<conf, state, image, line, coef, whole, entropy, interval,
                                         historyVars>>
  <1>1. Busy /\ call = "none"
    BY DEF WriteScanlines, Busy
  <1>2. PICK n \in 1 .. MaxLines : Startup(Begins(n))
    BY DEF WriteScanlines
  <1>3. Begins(n) => call' = "main" /\ UNCHANGED <<conf, state, coef, interval, historyVars>>
    OBVIOUS
  <1> HIDE DEF Begins
  <1>4. ASSUME EmitFails(Header(Scan, interval))
        PROVE  Known'
    BY <1>4, FailsKnown DEF EmitFails
  <1>5. ASSUME master.startup, EmitHeader(Scan, interval), master' = [master EXCEPT !.startup = FALSE],
               Begins(n), UNCHANGED <<made, counted>>
        PROVE  Known'
    BY <1>1, <1>3, <1>5, CallKnown
  <1>6. ASSUME ~master.startup, Begins(n), UNCHANGED <<master, tableVars, outVars>>
        PROVE  Known'
    BY <1>1, <1>3, <1>6, CallKnown
  <1> QED
    BY <1>2, <1>4, <1>5, <1>6 DEF Startup

LEMMA MainCompressesKnown == ASSUME Inv, Known, MainCompresses PROVE Known'
  <1>1. call = "main" /\ call' = "compress" /\ UNCHANGED <<master, tableVars, outVars>>
        /\ UNCHANGED <<conf, state, coef, interval, historyVars>>
    BY DEF MainCompresses, Compresses
  <1>2. Busy /\ ~master.startup
    BY <1>1 DEF Inv, Control, Passes
  <1> QED
    BY <1>1, <1>2, CallKnown

(* The lines of a call.                                                    *)
LEMMA LinesKnown == ASSUME Inv, Known, Prepare \/ MainReturns PROVE Known'
  <1>1. /\ call = "main" /\ call' # "passes"
        /\ UNCHANGED <<conf, state, passVars, tableVars, outVars, historyVars>>
    BY DEF Prepare, MainReturns
  <1>2. Busy
    BY <1>1 DEF Inv, Control
  <1>3. /\ UNCHANGED <<conf, coef, master, interval, tableVars, lost, uncounted>>
        /\ file' = file /\ buf' = buf /\ begun' = begun
    BY <1>1 DEF passVars, outVars, historyVars
  <1>4. Stream' = Stream /\ file' ++ buf' = file ++ buf
    BY <1>3 DEF Stream
  <1> QED
    BY <1>1, <1>2, <1>3, <1>4, QuietKnown

LEMMA SuspendsKnown == ASSUME Inv, Known, Suspends PROVE Known'
  <1>1. /\ call = "compress" /\ file' = file \o buf /\ buf' = <<>> /\ call' = "none"
        /\ UNCHANGED <<conf, state, passVars, tableVars, historyVars>>
    BY DEF Suspends, Refused
  <1>2. Busy
    BY <1>1 DEF Inv, Control
  <1>3. UNCHANGED <<conf, coef, master, interval, tableVars, lost, uncounted, begun>>
    BY <1>1 DEF passVars, historyVars
  <1>4. Stream' = Stream /\ file' ++ buf' = file ++ buf
    BY <1>1, <1>3, BufferTaken DEF Inv
  <1> QED
    BY <1>1, <1>2, <1>3, <1>4, QuietKnown

(* The symbols that are gathered, or coded, are the MCU's.                 *)
LEMMA McuSymbols ==
    ASSUME Inv, Busy, InData
    PROVE  Symbols(Mcu) = SymbolsAt(Scan, interval, Done)
  <1>1. PICK mcu, coded : mcu = Mcu /\ coded = Coded(mcu) /\ coded = ImageBlocks(Scan, interval, Done)
    BY McuCoded
  <1>2. DOMAIN coded = DOMAIN mcu
    BY <1>1 DEF Coded
  <1>3. PICK p : p = Places(Scan)
    OBVIOUS
  <1>4. Symbols(mcu) = {<<conf.comps[p[k].c].dc, conf.comps[p[k].c].ac, coded[k]>> : k \in DOMAIN mcu}
    BY <1>1, <1>3 DEF Symbols
  <1>5. SymbolsAt(Scan, interval, Done)
            = {<<conf.comps[p[k].c].dc, conf.comps[p[k].c].ac, coded[k]>> : k \in DOMAIN coded}
    BY <1>1, <1>3 DEF SymbolsAt
  <1> QED
    BY <1>1, <1>2, <1>4, <1>5

LEMMA GatherKnown == ASSUME Inv, Known, GatherMCU PROVE Known'
  <1>1. /\ InData /\ Gathering /\ entropy' = EntropyAfter(Mcu, entropy.next)
        /\ coef' = CoefAfter /\ Returns /\ counted' = counted \cup Symbols(Mcu)
        /\ UNCHANGED <<conf, state, image, master, whole, interval, sent, made, lastDRI, outVars,
                       historyVars>>
    BY DEF GatherMCU
  <1>2. Busy /\ call # "passes"
    BY <1>1 DEF Inv, Control, InData
  <1>3. UNCHANGED <<begun, complete, buf, file, lost, uncounted>>
    BY <1>1 DEF historyVars, outVars
  <1>4. PICK next \in 0 .. 7 : next = entropy.next
    BY DEF Inv, Kinds
  <1>5. Scan' = Scan /\ Done' = Done + 1 /\ call' # "passes"
    BY <1>1, <1>2, <1>3, <1>4, McuDone
  <1>6. TablesTold' /\ TablesSent' /\ IntervalTold'
    <2>1. ~HeaderOut'
      BY <1>1 DEF HeaderOut, Gathering
    <2>2. PICK u : /\ IsSeq(u) /\ Data(u) = u /\ Stream ++ u = Stream
                   /\ (file ++ buf) ++ u = file ++ buf
      <3>1. IsSeq(<<>>) /\ Data(<<>>) = <<>> /\ IsSeq(Stream) /\ IsSeq(file ++ buf)
        BY SeqNone, DataEmpty, StreamIsSeq, CatLen DEF Inv, OutTypes
      <3> QED
        BY <3>1, CatEmpty
    <2>3. Stream' = Stream /\ file' ++ buf' = file ++ buf
      BY <1>3 DEF Stream
    <2> QED
      BY <1>1, <1>2, <1>3, <1>5, <2>1, <2>2, <2>3, DataKnown
  <1>7. AllCounted'
    <2>1. Seen = Done /\ Seen' = Done + 1 /\ Gathering /\ conf.optimize
      BY <1>1, <1>2, <1>5 DEF Seen, Gathering
    <2>2. PICK scan, n, done : scan = Scan /\ n = interval /\ done = Done /\ done \in Nat
      BY <1>1, <1>2, McuIs
    <2>3. \A m : SymbolsAt(Scan, interval, m)' = SymbolsAt(scan, n, m)
      BY <1>1, <1>5, <2>2, SameSymbols
    <2>4. SymbolsAt(scan, n, done) \subseteq counted'
      BY <1>1, <1>2, <2>2, McuSymbols
    <2>5. \A m \in 0 .. done - 1 : SymbolsAt(scan, n, m) \subseteq counted'
      BY <1>1, <1>2, <2>1, <2>2 DEF Known, AllCounted
    <2>6. \A m \in 0 .. (done + 1) - 1 : m = done \/ m \in 0 .. done - 1
      BY <2>2
    <2> QED
      BY <2>1, <2>2, <2>3, <2>4, <2>5, <2>6 DEF AllCounted
  <1> QED
    BY <1>3, <1>6, <1>7 DEF Known

LEMMA EncodeKnown == ASSUME Inv, Known, EncodeMCU PROVE Known'
  <1>1. InData /\ ~Gathering /\ Busy /\ conf \in Configs /\ OutTypes /\ call # "passes"
    BY DEF EncodeMCU, Inv, OutTypes, Control, InData
  <1>2. PICK tokens : tokens = RestartMarker \o Coded(Mcu)
    OBVIOUS
  <1>3. CASE EmitFails(tokens)
    BY <1>3, FailsKnown DEF EmitFails
  <1>4. CASE ~EmitFails(tokens)
    <2>1. /\ Emit(tokens)
          /\ entropy' = EntropyAfter(Mcu, IF Restarts THEN (entropy.next + 1) % 8 ELSE entropy.next)
          /\ coef' = CoefAfter /\ Returns
          /\ uncounted' = (uncounted \/ (conf.optimize /\ ~(Symbols(Mcu) \subseteq counted)))
          /\ UNCHANGED <<conf, state, image, master, whole, interval, tableVars, begun, complete, lost>>
      BY <1>2, <1>4, Zenon DEF EncodeMCU
    <2>2. sent' = sent /\ made' = made /\ lastDRI' = lastDRI /\ counted' = counted
      BY <2>1 DEF tableVars
    <2>3. PICK next \in 0 .. 7 : /\ next = (IF Restarts THEN (entropy.next + 1) % 8 ELSE entropy.next)
                                 /\ next = NextAt(interval, Done + 1)
      BY <1>1, McuCoded
    <2>4. entropy' = EntropyAfter(Mcu, next)
      BY <2>1, <2>3
    <2>5. Scan' = Scan /\ Done' = Done + 1 /\ call' # "passes"
      BY <1>1, <2>1, <2>3, <2>4, McuDone
    <2>6. GoodScan(Scan) /\ ~master.startup /\ Done \in 0 .. Mcus(Scan) - 1
      BY <1>1, McuIs
    <2>7. IsSeq(tokens) /\ Data(tokens) = tokens
      <3>1. tokens = ImageMcu(Scan, interval, Done)
        BY <1>1, <1>2, McuCoded
      <3> QED
        BY <1>1, <2>6, <3>1, McuTokens
    <2>8. Stream' = Stream ++ tokens /\ file' ++ buf' = (file ++ buf) ++ tokens
      BY <1>1, <2>1, <2>7, Emits
    <2>9. HeaderOut
      BY <1>1, <2>6 DEF HeaderOut
    <2>10. TablesTold' /\ TablesSent' /\ IntervalTold'
      BY <1>1, <2>1, <2>2, <2>5, <2>7, <2>8, <2>9, DataKnown
    <2>11. AllCounted'
      <3>1. PICK scan : scan = Scan
        OBVIOUS
      <3>2. Mcus(Scan)' = Mcus(Scan)
        BY <2>1, <2>5, <3>1, SameScan
      <3>3. Seen' = Seen
        BY <1>1, <2>1, <3>2 DEF Seen, Gathering
      <3> QED
        BY <1>1, <2>1, <2>2, <2>5, <3>3, CountedKept DEF Known
    <2>12. ~uncounted'
      <3>1. conf.optimize => Symbols(Mcu) \subseteq counted
        <4>1. Seen = Mcus(Scan)
          BY <1>1 DEF Seen
        <4>2. conf.optimize => SymbolsAt(Scan, interval, Done) \subseteq counted
          BY <1>1, <2>6, <4>1 DEF Known, AllCounted
        <4> QED
          BY <1>1, <4>2, McuSymbols
      <3> QED
        BY <2>1, <3>1, Zenon DEF Known
    <2> QED
      BY <2>10, <2>11, <2>12 DEF Known
  <1> QED
    BY <1>3, <1>4

LEMMA FinishPassKnown == ASSUME Inv, Known, FinishPass PROVE Known'
  <1>1. PassEnds
    BY DEF FinishPass, PassEnds
  <1>2. /\ Busy /\ Passes /\ conf \in Configs /\ Kinds /\ Done = Mcus(Scan) /\ GoodScan(Scan)
        /\ ~master.startup /\ call # "passes"
    BY <1>1, PassIsDone
  <1>3. /\ conf' = conf /\ state' = state /\ interval' = interval /\ coef' = coef
        /\ counted' = counted /\ lastDRI' = lastDRI /\ call' = "passes"
        /\ buf' = buf /\ file' = file /\ begun' = begun /\ lost' = lost /\ uncounted' = uncounted
    BY DEF FinishPass, clientVars, outVars, historyVars
  <1>4. /\ master'.type = (IF master.type = "output" /\ conf.optimize THEN "gather" ELSE "output")
        /\ master'.scan = (IF Gathering THEN master.scan ELSE master.scan + 1)
    BY <1>2 DEF FinishPass, Kinds
  <1>5. PICK huff : huff = ToSet(HuffTables(Scan)) /\ huff \subseteq HuffNames
    BY <1>2, HuffTablesHas
  <1>6. /\ sent' = IF Gathering THEN sent \ huff ELSE sent
        /\ \A t \in HuffNames : ~(Gathering /\ t \in huff) => made'[t] = made[t]
    BY <1>5 DEF FinishPass, Marked
  <1>7. Stream' = Stream /\ ~HeaderOut'
    BY <1>3 DEF Stream, HeaderOut
  <1>8. TablesTold'
    <2>1. PICK s, u : s = file ++ buf /\ IsSeq(s) /\ u = <<>> /\ IsSeq(u) /\ AreMade(u)
      <3>1. IsSeq(file ++ buf) /\ IsSeq(<<>>) /\ Data(<<>>) = <<>>
        BY CatLen, SeqNone, DataEmpty DEF Inv, OutTypes
      <3> QED
        BY <3>1, CleanTells
    <2>2. PICK v : v = file' ++ buf' /\ v = s ++ u
      BY <1>3, <2>1, CatEmpty
    <2>3. \A t \in sent' \ lost' : t \in sent \ lost /\ (t \in HuffNames => made'[t] = made[t])
      BY <1>3, <1>6
    <2>4. TablesTold /\ state # "exited"
      BY <1>2 DEF Known, Busy
    <2> QED
      BY <2>1, <2>2, <2>3, <2>4, TablesKept
  <1>9. TablesSent'
    <2>1. PICK quant : quant = ToSet(QuantTables) /\ \A t \in quant : t \notin HuffNames
      BY <1>2, QuantTablesAre
    <2>2. ToSet(QuantTables)' = quant
      BY <1>3, <2>1, SameTables DEF ToSet
    <2>3. master'.scan > 1 => quant \subseteq sent
      <3>1. CASE Gathering
        BY <1>2, <1>4, <2>1, <3>1 DEF Known, TablesSent
      <3>2. CASE ~Gathering
        <4>1. HeaderOut
          BY <1>2, <3>2 DEF HeaderOut
        <4> QED
          BY <1>2, <2>1, <4>1 DEF Known, TablesSent
      <3> QED
        BY <3>1, <3>2
    <2>4. master'.scan > 1 => quant \subseteq sent'
      BY <1>5, <1>6, <2>1, <2>3
    <2> QED
      BY <1>7, <2>2, <2>4 DEF TablesSent
  <1>10. IntervalTold'
    <2>1. DriOf(Stream)' = DriOf(Stream')
      BY DEF DriOf, Dris, LastIn
    <2> QED
      BY <1>2, <1>3, <1>7, <2>1 DEF Known, IntervalTold
  <1>11. AllCounted'
    <2>1. CASE Gathering
      <3>1. ~Gathering'
        BY <1>3, <1>4, <2>1 DEF Gathering
      <3>2. Scan' = Scan
        BY <1>3, <1>4, <2>1, SameDone
      <3>3. PICK scan : scan = Scan
        OBVIOUS
      <3>4. Mcus(Scan)' = Mcus(Scan)
        BY <1>3, <3>2, <3>3, SameScan
      <3>5. Seen' = Seen
        BY <1>2, <2>1, <3>1, <3>4 DEF Seen
      <3> QED
        BY <1>2, <1>3, <3>2, <3>5, CountedKept DEF Known
    <2>2. CASE ~Gathering
      <3>1. conf.optimize => Gathering'
        BY <1>3, <1>4, <2>2 DEF Gathering
      <3>2. conf'.optimize => Seen' = 0
        BY <1>3, <3>1 DEF Seen
      <3>3. 0 .. 0 - 1 = {}
        OBVIOUS
      <3> QED
        BY <3>2, <3>3 DEF AllCounted
    <2> QED
      BY <2>1, <2>2
  <1> QED
    BY <1>3, <1>8, <1>9, <1>10, <1>11 DEF Known

LEMMA DoneAtStart ==
    ASSUME conf \in Configs, conf' = conf, coef' = CoefStart, NEW scan, GoodScan(scan), Scan' = scan
    PROVE  Done' = 0
  <1>1. coef'.row = 0 /\ coef'.vert = 0 /\ coef'.mcu = 0
    BY DEF CoefStart
  <1>2. Index(scan, 0, 0, 0) = 0 /\ TotalRows \in Nat \ {0}
    BY DoneNone
  <1>3. Index(scan, 0, 0, 0)' = Index(scan, 0, 0, 0)
    BY SamePlaces
  <1>4. TotalRows' = TotalRows
    BY SameSizes
  <1> QED
    BY <1>1, <1>2, <1>3, <1>4 DEF Done

LEMMA StartKnown == ASSUME Inv, Known, StartCompress PROVE Known'
  <1>1. /\ OutTypes /\ ~Busy /\ buf = <<>> /\ call = "none" /\ state = "START" /\ conf \in Configs
    BY DEF Inv, StartCompress, Control, Busy, OutTypes
  <1>2. CASE Exits
    BY <1>2, ExitKnown DEF Exits, historyVars
  <1>3. CASE EmitFails(Opening)
    BY <1>3, FailsKnown DEF EmitFails
  <1>4. CASE /\ ScriptIsValid /\ Emit(Opening)
             /\ sent' = (IF conf.all[image'] THEN {} ELSE sent)
             /\ lost' = (IF conf.all[image'] THEN {} ELSE lost)
             /\ master' = [type |-> "main", scan |-> 1, pass |-> 0, startup |-> ~conf.optimize]
             /\ coef' = CoefStart /\ lastDRI' = 0 /\ begun' = Len(file)
             /\ UNCHANGED <<conf, call, made, uncounted>>
    <2>1. file' = file /\ buf' = Opening /\ Stream' = Opening
      BY <1>1, <1>4, Opens
    <2>2. IsSeq(Opening) /\ AreMade(Opening) /\ Dris(Opening) = {}
      BY Markers, CleanTells
    <2>3. master'.type = "main" /\ master'.scan = 1 /\ master'.startup = ~conf.optimize
      BY <1>4
    <2>4. ~HeaderOut'
      BY <1>4, <2>3 DEF HeaderOut, Gathering
    <2>5. TablesTold'
      <3>1. PICK s, u : s = file ++ buf /\ IsSeq(s) /\ s = file /\ u = Opening
        <4>1. IsSeq(file ++ buf) /\ file ++ buf = file
          BY <1>1, CatEmpty DEF OutTypes
        <4> QED
          BY <4>1
      <3>2. PICK v : v = file' ++ buf' /\ v = s ++ u
        BY <2>1, <3>1
      <3>3. \A t \in sent' \ lost' : t \in sent \ lost /\ made'[t] = made[t]
        BY <1>4
      <3>4. TablesTold /\ state # "exited" /\ IsSeq(u) /\ AreMade(u)
        BY <1>1, <2>2, <3>1 DEF Known
      <3> QED
        BY <3>1, <3>2, <3>3, <3>4, TablesKept
    <2>6. TablesSent'
      BY <2>3, <2>4 DEF TablesSent
    <2>7. IntervalTold'
      <3>1. DriOf(Opening) = 0
        BY <2>2 DEF DriOf
      <3>2. DriOf(Stream)' = DriOf(Stream')
        BY DEF DriOf, Dris, LastIn
      <3> QED
        BY <1>4, <2>1, <2>4, <3>1, <3>2 DEF IntervalTold
    <2>8. AllCounted'
      <3>1. PICK scan : scan = Scans[1] /\ GoodScan(scan)
        BY <1>1, <1>4, ScansAre
      <3>2. Scan' = scan
        BY <1>4, <2>3, <3>1, SameScans DEF Scan
      <3>3. Done' = 0
        BY <1>1, <1>4, <3>1, <3>2, DoneAtStart
      <3>4. conf'.optimize => Seen' = 0
        BY <1>1, <1>4, <2>3, <3>3 DEF Seen, Gathering
      <3>5. 0 .. 0 - 1 = {}
        OBVIOUS
      <3> QED
        BY <3>4, <3>5 DEF AllCounted
    <2> QED
      BY <1>4, <2>5, <2>6, <2>7, <2>8 DEF Known
  <1> QED
    BY <1>2, <1>3, <1>4 DEF StartCompress, Opening

LEMMA PreparePassKnown == ASSUME Inv, Known, PreparePass PROVE Known'
  <1>1. Busy /\ call = "passes" /\ master.pass < TotalPasses
    BY DEF PreparePass, Inv, Control
  <1>2. /\ Passes /\ conf \in Configs /\ Kinds /\ OutTypes /\ ~HeaderOut
    BY <1>1 DEF Inv, Control, OutTypes, HeaderOut
  <1>3. master.scan \in Nat \ {0} /\ GoodScan(Scan)
    BY <1>1, <1>2, ScanIs DEF Kinds
  <1>4. PICK n : n = IF conf.optimize /\ ~Gathering THEN interval ELSE Interval(Scan)
    OBVIOUS
  <1>5. CASE EmitFails(Header(Scan, n))
    BY <1>5, FailsKnown DEF EmitFails
  <1>6. CASE /\ interval' = n /\ coef' = CoefStart
             /\ IF Gathering THEN counted' = {} /\ UNCHANGED <<sent, lastDRI, outVars>>
                ELSE EmitHeader(Scan, n) /\ UNCHANGED counted
             /\ call' = "pass"
             /\ UNCHANGED <<clientVars, state, master, made, historyVars>>
    <2>1. /\ conf' = conf /\ state' = state /\ master' = master /\ begun' = begun /\ made' = made
          /\ lost' = lost /\ uncounted' = uncounted /\ call' = "pass"
      BY <1>6 DEF clientVars, historyVars
    <2>2. Scan' = Scan /\ (Gathering' <=> Gathering)
      BY <2>1, SameScans DEF Scan, Gathering
    <2>3. PICK scan : scan = Scan
      OBVIOUS
    <2>4. CASE Gathering
      <3>1. /\ sent' = sent /\ lastDRI' = lastDRI /\ buf' = buf /\ file' = file /\ ~HeaderOut'
        BY <1>6, <2>2, <2>4 DEF outVars, HeaderOut
      <3>2. TablesTold' /\ TablesSent' /\ IntervalTold'
        <4>1. PICK u : /\ IsSeq(u) /\ Data(u) = u /\ Stream ++ u = Stream
                       /\ (file ++ buf) ++ u = file ++ buf
          <5>1. IsSeq(<<>>) /\ Data(<<>>) = <<>> /\ IsSeq(Stream) /\ IsSeq(file ++ buf)
            BY SeqNone, DataEmpty, StreamIsSeq, CatLen DEF Inv, OutTypes
          <5> QED
            BY <5>1, CatEmpty
        <4>2. Stream' = Stream /\ file' ++ buf' = file ++ buf
          BY <2>1, <3>1 DEF Stream
        <4> QED
          BY <1>1, <2>1, <2>2, <3>1, <4>1, <4>2, DataKnown
      <3>3. AllCounted'
        <4>1. Done' = 0
          BY <1>2, <1>3, <1>6, <2>1, <2>2, <2>3, DoneAtStart
        <4>2. Seen' = 0
          BY <2>1, <2>2, <2>4, <4>1 DEF Seen
        <4>3. 0 .. 0 - 1 = {}
          OBVIOUS
        <4> QED
          BY <4>2, <4>3 DEF AllCounted
      <3> QED
        BY <2>1, <3>2, <3>3 DEF Known
    <2>5. CASE ~Gathering
      <3>1. EmitHeader(Scan, n) /\ counted' = counted
        BY <1>6, <2>5
      <3>2. TablesTold' /\ TablesSent' /\ IntervalTold'
        BY <1>1, <1>2, <1>3, <1>6, <2>1, <2>2, <3>1, HeaderTold
      <3>3. AllCounted'
        <4>1. CASE conf.optimize
          <5>1. interval' = interval
            BY <1>4, <1>6, <2>5, <4>1
          <5>2. Mcus(Scan)' = Mcus(Scan)
            BY <2>1, <2>2, <2>3, SameScan
          <5>3. Seen' = Seen
            BY <2>2, <2>5, <5>2 DEF Seen
          <5> QED
            BY <1>1, <2>1, <2>2, <3>1, <5>1, <5>3, CountedKept DEF Known
        <4>2. CASE ~conf.optimize
          BY <2>1, <4>2 DEF AllCounted
        <4> QED
          BY <4>1, <4>2
      <3> QED
        BY <2>1, <3>2, <3>3 DEF Known
    <2> QED
      BY <2>4, <2>5
  <1> QED
    BY <1>4, <1>5, <1>6 DEF PreparePass

LEMMA FinishKnown == ASSUME Inv, Known, Finish PROVE Known'
  <1>1. Busy /\ OutTypes
    BY DEF Finish, Inv, Control
  <1>2. CASE EmitFails(Closing) \/ FailsWithin(Closing, Len(Total(Closing)))
    BY <1>2, FailsKnown DEF EmitFails
  <1>3. CASE /\ file' = file \o Total(Closing) /\ buf' = <<>> /\ state' = "START"
             /\ UNCHANGED <<tableVars, uncounted, lost>>
    <2>1. PICK f, b, c : f = file /\ b = buf /\ c = Closing /\ IsSeq(f) /\ IsSeq(b) /\ IsSeq(c) /\ AreMade(c)
      <3>1. IsSeq(file) /\ IsSeq(buf) /\ IsSeq(Closing) /\ AreMade(Closing)
        BY <1>1, Markers, CleanTells DEF OutTypes
      <3> QED
        BY <3>1
    <2>2. file' = f ++ (b ++ c)
      BY <1>3, <2>1 DEF Total, ++
    <2>3. PICK s, v : s = f ++ b /\ IsSeq(s) /\ v = file' ++ buf' /\ v = s ++ c
      <3>1. IsSeq(f ++ b) /\ IsSeq(b ++ c) /\ IsSeq(f ++ (b ++ c))
        BY <2>1, CatLen
      <3>2. file' ++ buf' = f ++ (b ++ c)
        BY <1>3, <2>2, <3>1, CatEmpty
      <3>3. f ++ (b ++ c) = (f ++ b) ++ c
        BY <2>1, CatAssoc
      <3> QED
        BY <3>1, <3>2, <3>3
    <2>4. \A t \in sent' \ lost' : t \in sent \ lost /\ made'[t] = made[t]
      BY <1>3 DEF tableVars
    <2>5. TablesTold /\ state # "exited"
      BY <1>1 DEF Known, Busy
    <2>6. TablesTold'
      BY <2>1, <2>3, <2>4, <2>5, TablesKept
    <2>7. ~Busy'
      BY <1>3 DEF Busy
    <2> QED
      BY <1>3, <2>6, <2>7 DEF Known, TablesSent, IntervalTold, AllCounted
  <1> QED
    BY <1>2, <1>3 DEF Finish, Closing

(* What is lost with the buffer is remembered as lost.                     *)
LEMMA AbortKnown == ASSUME Inv, Known, Abort PROVE Known'
  <1>1. /\ buf' = <<>> /\ file' = file /\ state' = "START" /\ lost' = lost \cup Buffered
        /\ sent' = sent /\ made' = made /\ uncounted' = uncounted /\ state # "exited"
    BY DEF Abort, tableVars
  <1>2. PICK f, b : f = file /\ b = buf /\ IsSeq(f) /\ IsSeq(b)
    BY DEF Inv, OutTypes
  <1>3. PICK v : v = file' ++ buf' /\ v = f
    BY <1>1, <1>2, CatEmpty
  <1>4. ASSUME NEW t \in sent' \ lost'
        PROVE  KnownIn(file ++ buf, t)'
    <2>1. t \in sent \ lost /\ t \notin Buffered
      BY <1>1
    <2>2. KnownIn(f ++ b, t)
      BY <1>1, <1>2, <2>1 DEF Known, TablesTold
    <2>3. Tells(b, t) = {}
      BY <1>2, <2>1 DEF Buffered, Tells
    <2>4. KnownIn(v, t)
      BY <1>2, <1>3, <2>2, <2>3, KnownBefore
    <2> QED
      BY <1>1, <1>3, <2>4, KnownAfter
  <1>5. ~Busy'
    BY <1>1 DEF Busy
  <1> QED
    BY <1>1, <1>4, <1>5 DEF Known, TablesTold, TablesSent, IntervalTold, AllCounted

LEMMA StutterKnown == ASSUME Inv, Known, UNCHANGED vars PROVE Known'
  <1>1. /\ state' = state /\ call' = call /\ conf' = conf /\ coef' = coef /\ master' = master
        /\ interval' = interval /\ UNCHANGED tableVars /\ lost' = lost /\ uncounted' = uncounted
        /\ file' = file /\ buf' = buf /\ begun' = begun
    BY DEF vars, clientVars, passVars, outVars, historyVars
  <1>2. Stream' = Stream /\ file' ++ buf' = file ++ buf
    BY <1>1 DEF Stream
  <1>3. CASE Busy
    BY <1>1, <1>2, <1>3, QuietKnown
  <1>4. CASE ~Busy
    <2>1. ASSUME state' # "exited", NEW t \in sent' \ lost'
          PROVE  KnownIn(file ++ buf, t)'
      <3>1. PICK v : v = file' ++ buf' /\ v = file ++ buf
        BY <1>2
      <3>2. KnownIn(v, t) /\ made' = made
        BY <1>1, <2>1, <3>1 DEF Known, TablesTold, tableVars
      <3> QED
        BY <3>1, <3>2, KnownAfter
    <2>2. ~Busy'
      BY <1>1, <1>4 DEF Busy
    <2> QED
      BY <1>1, <2>1, <2>2 DEF Known, TablesTold, TablesSent, IntervalTold, AllCounted
  <1> QED
    BY <1>3, <1>4

(* While a scan is written, a decoder knows its restart interval and has   *)
(* its tables as last made, whatever was given up before, and each symbol  *)
(* was counted for the table it is coded with.                             *)
THEOREM DecoderKnows == Spec => []DecoderIsTold
  <1>1. Init => Known
    BY DEF Init, Known, TablesTold, TablesSent, IntervalTold, AllCounted, Busy
  <1>2. Inv /\ Known /\ [Next]_vars => Known'
    <2> SUFFICES ASSUME Inv, Known, [Next]_vars
                 PROVE  Known'
      OBVIOUS
    <2>1. CASE StartCompress
      BY <2>1, StartKnown
    <2>2. CASE WriteRawData
      BY <2>2, WriteRawDataKnown
    <2>3. CASE WriteScanlines
      BY <2>3, WriteScanlinesKnown
    <2>4. CASE Prepare \/ MainReturns
      BY <2>4, LinesKnown
    <2>5. CASE MainCompresses
      BY <2>5, MainCompressesKnown
    <2>6. CASE GatherMCU
      BY <2>6, GatherKnown
    <2>7. CASE EncodeMCU
      BY <2>7, EncodeKnown
    <2>8. CASE Suspends
      BY <2>8, SuspendsKnown
    <2>9. CASE FinishPass
      BY <2>9, FinishPassKnown
    <2>10. CASE FlushFails
      BY <2>10, FailsKnown DEF FlushFails
    <2>11. CASE PreparePass
      BY <2>11, PreparePassKnown
    <2>12. CASE Finish
      BY <2>12, FinishKnown
    <2>13. CASE Abort
      BY <2>13, AbortKnown
    <2>14. CASE UNCHANGED vars
      BY <2>14, StutterKnown
    <2> QED
      BY <2>1, <2>2, <2>3, <2>4, <2>5, <2>6, <2>7, <2>8, <2>9, <2>10, <2>11, <2>12, <2>13, <2>14
      DEF Next, Step
  <1>3. Inv /\ Known => DecoderIsTold
    BY KnownIsTold
  <1> QED
    BY <1>1, <1>2, <1>3, StateIsImage, PTL DEF Spec

=============================================================================
