------------------------- MODULE JpegDecompressProofs -------------------------
(***************************************************************************)
(* Theorems about JpegDecompress and the JpegInput below it, for any image *)
(* and file, any damage to it, and any loads of the client.                *)
(***************************************************************************)
EXTENDS JpegDecompress, SequenceTheorems, FiniteSetTheorems, NaturalsInduction,
        WellFoundedInduction, TLAPS

-----------------------------------------------------------------------------
(* Induction.  No prover instantiates the library's theorems with a        *)
(* predicate, so it is on the set of the numbers it holds of.              *)

(* A set of natural numbers has a least element.                           *)
LEMMA LeastNat ==
    ASSUME NEW X \in SUBSET Nat, X # {}
    PROVE  \E n \in X : \A k \in X : n <= k
  <1> DEFINE R == OpToRel(<, Nat)
  <1>1. IsWellFoundedOn(R, Nat)
    BY NatLessThanWellFounded
  <1>2. \A x, y \in Nat : x < y => <<x, y>> \in R
    BY DEF OpToRel
  <1> HIDE DEF R
  <1>3. PICK n \in X : \A k \in X : <<k, n>> \notin R
    BY <1>1, WFMin, Zenon
  <1>4. \A k \in X : ~(k < n)
    BY <1>2, <1>3
  <1>5. \A k \in X : k \in Nat /\ n \in Nat
    OBVIOUS
  <1> QED
    BY <1>4, <1>5

(* What holds of 0 and of the next number holds of all.                    *)
LEMMA Induction ==
    ASSUME NEW Good, 0 \in Good, \A n \in Nat : n \in Good => n + 1 \in Good
    PROVE  \A n \in Nat : n \in Good
  <1> SUFFICES ASSUME Nat \ Good # {}
               PROVE  FALSE
    OBVIOUS
  <1>1. PICK n \in Nat \ Good : \A k \in Nat \ Good : n <= k
    BY LeastNat
  <1>2. n # 0 /\ n - 1 \in Nat /\ n - 1 \in Good
    BY <1>1
  <1>3. (n - 1) + 1 \in Good
    BY <1>2
  <1> QED
    BY <1>1, <1>3

(* A set of numbers up to a bound has a largest and a least element.       *)
LEMMA MaxMin ==
    ASSUME NEW n \in Nat, NEW X \in SUBSET (0 .. n), X # {}
    PROVE  /\ Max(X) \in X /\ \A k \in X : k <= Max(X)
           /\ Min(X) \in X /\ \A k \in X : Min(X) <= k
  <1>1. PICK low \in X : \A k \in X : low <= k
    BY LeastNat
  <1> DEFINE T == {n - k : k \in X}
  <1>2. T \in SUBSET Nat /\ T # {}
    OBVIOUS
  <1>3. PICK t \in T : \A k \in T : t <= k
    <2> HIDE DEF T
    <2> QED
      BY <1>2, LeastNat
  <1>4. PICK high \in X : t = n - high
    OBVIOUS
  <1>5. \A k \in X : n - high <= n - k
    BY <1>3, <1>4
  <1>6. \A k \in X : high >= k
    BY <1>5
  <1>7. Max(X) \in X /\ \A k \in X : Max(X) >= k
    BY <1>6 DEF Max
  <1>8. Min(X) \in X /\ \A k \in X : Min(X) <= k
    BY <1>1 DEF Min
  <1> QED
    BY <1>7, <1>8

-----------------------------------------------------------------------------
(* Sequences of anything.                                                  *)

IsSeq(s) == \E X : s \in Seq(X)

(* A function on the numbers from 1 is one.                                *)
IsList(s, n) == s = [i \in 1 .. n |-> s[i]]

(* Joined, as an operator of its own: the provers need not know of what.   *)
s ++ t == s \o t

LEMMA SeqHas ==
    ASSUME NEW s, IsSeq(s)
    PROVE  /\ Len(s) \in Nat /\ DOMAIN s = 1 .. Len(s)
           /\ s = [i \in 1 .. Len(s) |-> s[i]]
  BY LenProperties DEF IsSeq

LEMMA ListIsSeq ==
    ASSUME NEW n \in Nat, NEW s, IsList(s, n)
    PROVE  IsSeq(s)
  <1>1. \E f : s = [i \in 1 .. n |-> f[i]]
    BY Zenon DEF IsList
  <1>2. PICK f : s = [i \in 1 .. n |-> f[i]]
    BY <1>1, Zenon
  <1>3. s \in Seq({f[i] : i \in 1 .. n})
    BY <1>2
  <1> QED
    BY <1>3 DEF IsSeq

LEMMA ListHas ==
    ASSUME NEW n \in Nat, NEW s, IsList(s, n)
    PROVE  IsSeq(s) /\ Len(s) = n /\ DOMAIN s = 1 .. n
  <1>1. Len(s) = n /\ DOMAIN s = 1 .. n
    BY DEF IsList
  <1>2. IsSeq(s)
    BY ListIsSeq
  <1> QED
    BY <1>1, <1>2

LEMMA SeqOne ==
    ASSUME NEW e
    PROVE  IsSeq(<<e>>) /\ Len(<<e>>) = 1 /\ <<e>>[1] = e
  <1>1. <<e>> \in Seq({e})
    OBVIOUS
  <1> QED
    BY <1>1 DEF IsSeq

LEMMA SeqNone == IsSeq(<<>>) /\ Len(<<>>) = 0
  <1>1. <<>> \in Seq({})
    OBVIOUS
  <1> QED
    BY <1>1 DEF IsSeq

LEMMA TwoSeqs ==
    ASSUME NEW s, NEW t, IsSeq(s), IsSeq(t)
    PROVE  \E X : s \in Seq(X) /\ t \in Seq(X)
  <1>1. PICK X : s \in Seq(X)
    BY DEF IsSeq
  <1>2. PICK T : t \in Seq(T)
    BY DEF IsSeq
  <1>3. s \in Seq(X \cup T) /\ t \in Seq(X \cup T)
    BY <1>1, <1>2, SeqMonotonic
  <1> QED
    BY <1>3

LEMMA SeqCat ==
    ASSUME NEW s, NEW t, IsSeq(s), IsSeq(t)
    PROVE  /\ IsSeq(s ++ t) /\ Len(s ++ t) = Len(s) + Len(t)
           /\ \A i \in 1 .. Len(s) : (s ++ t)[i] = s[i]
           /\ \A i \in 1 .. Len(t) : (s ++ t)[Len(s) + i] = t[i]
  <1>1. PICK X : s \in Seq(X) /\ t \in Seq(X)
    BY TwoSeqs
  <1>2. /\ s ++ t \in Seq(X) /\ Len(s ++ t) = Len(s) + Len(t)
        /\ \A i \in 1 .. Len(s) + Len(t) :
               (s ++ t)[i] = IF i <= Len(s) THEN s[i] ELSE t[i - Len(s)]
    BY <1>1, ConcatProperties DEF ++
  <1>3. Len(s) \in Nat /\ Len(t) \in Nat
    BY SeqHas
  <1>4. IsSeq(s ++ t)
    BY <1>2 DEF IsSeq
  <1> QED
    BY <1>2, <1>3, <1>4

LEMMA CatLen ==
    ASSUME NEW s, NEW t, IsSeq(s), IsSeq(t)
    PROVE  IsSeq(s ++ t) /\ Len(s ++ t) = Len(s) + Len(t)
  BY SeqCat

LEMMA CatEmpty ==
    ASSUME NEW s, IsSeq(s)
    PROVE  s ++ <<>> = s /\ <<>> ++ s = s
  BY ConcatEmptySeq DEF IsSeq, ++

LEMMA SubSeqOf ==
    ASSUME NEW s, IsSeq(s), NEW m \in Nat \ {0}, NEW n \in Nat, n <= Len(s)
    PROVE  /\ IsSeq(SubSeq(s, m, n)) /\ Len(SubSeq(s, m, n)) = IF m <= n THEN n - m + 1 ELSE 0
           /\ \A i \in 1 .. n - m + 1 : SubSeq(s, m, n)[i] = s[m + i - 1]
  <1>1. PICK X : s \in Seq(X)
    BY DEF IsSeq
  <1>2. Len(s) \in Nat /\ \A i \in m .. n : s[i] \in X
    BY <1>1, LenProperties
  <1>3. /\ SubSeq(s, m, n) \in Seq(X)
        /\ Len(SubSeq(s, m, n)) = IF m <= n THEN n - m + 1 ELSE 0
        /\ \A i \in 1 .. n - m + 1 : SubSeq(s, m, n)[i] = s[m + i - 1]
    BY <1>2, SubSeqProperties
  <1> QED
    BY <1>3 DEF IsSeq

-----------------------------------------------------------------------------
(* Sequences of sequences, one behind the other.                           *)

Flat(f, n) == FlattenSeq([i \in 1 .. n |-> f[i]])

(* FlattenSeq is a recursion; there is a function that satisfies it.       *)
LEMMA FlattenIs ==
    ASSUME NEW n \in Nat \ {0}, NEW s, IsList(s, n)
    PROVE  \E g : /\ FlattenSeq(s) = g[n] /\ g[1] = s[1]
                  /\ \A i \in 2 .. n : g[i] = g[i - 1] ++ s[i]
  <1> DEFINE UpTo(m, g) == g[1] = s[1] /\ \A i \in 2 .. m : g[i] = g[i - 1] ++ s[i]
             Good == {m \in Nat : \E g : UpTo(m, g)}
  <1>1. Len(s) = n
    BY ListHas
  <1>2. 0 \in Good
    <2>1. UpTo(0, [i \in {1} |-> s[1]])
      OBVIOUS
    <2> QED
      BY <2>1
  <1>3. ASSUME NEW m \in Nat, m \in Good
        PROVE  m + 1 \in Good
    <2>1. PICK g : UpTo(m, g)
      BY <1>3
    <2> DEFINE h == [i \in 1 .. m + 1 |->
                       IF i = 1 THEN s[1] ELSE IF i <= m THEN g[i] ELSE g[m] ++ s[m + 1]]
    <2>2. ASSUME NEW i \in 2 .. m + 1
          PROVE  h[i] = h[i - 1] ++ s[i]
      <3>1. CASE i <= m
        BY <2>1, <3>1
      <3>2. CASE i = m + 1
        <4>1. m # 0 /\ h[m] = g[m]
          BY <2>1, <3>2
        <4> QED
          BY <3>2, <4>1
      <3> QED
        BY <3>1, <3>2
    <2>3. h[1] = s[1]
      OBVIOUS
    <2> HIDE DEF h
    <2>4. UpTo(m + 1, h)
      BY <2>2, <2>3
    <2> QED
      BY <2>4
  <1>4. n \in Good
    <2> HIDE DEF Good
    <2> QED
      BY <1>2, <1>3, Induction
  <1>5. PICK g : UpTo(n, g)
    BY <1>4
  <1> DEFINE Flats(h) == [i \in 1 .. n |-> IF i = 1 THEN s[i] ELSE h[i - 1] ++ s[i]]
             h == [i \in 1 .. n |-> g[i]]
             chosen == CHOOSE k : k = Flats(k)
  <1>6. h = Flats(h)
    BY <1>5
  <1> HIDE DEF h
  <1>7. chosen = Flats(chosen)
    BY <1>6, Zenon
  <1>8. FlattenSeq(s) = chosen[n]
    BY <1>1, Zenon DEF FlattenSeq, ++
  <1> HIDE DEF chosen
  <1>9. \A i \in 1 .. n : chosen[i] = IF i = 1 THEN s[i] ELSE chosen[i - 1] ++ s[i]
    BY <1>7, Zenon
  <1>10. chosen[1] = s[1] /\ \A i \in 2 .. n : chosen[i] = chosen[i - 1] ++ s[i]
    BY <1>9
  <1> QED
    BY <1>8, <1>10

LEMMA FlatList ==
    ASSUME NEW f, NEW n \in Nat
    PROVE  /\ IsList([i \in 1 .. n |-> f[i]], n)
           /\ \A i \in 1 .. n : [j \in 1 .. n |-> f[j]][i] = f[i]
  BY DEF IsList

LEMMA FlatZero == ASSUME NEW f PROVE Flat(f, 0) = <<>>
  <1>1. [i \in 1 .. 0 |-> f[i]] = <<>> /\ Len(<<>>) = 0
    OBVIOUS
  <1> QED
    BY <1>1, Zenon DEF Flat, FlattenSeq

LEMMA FlatNext ==
    ASSUME NEW f, NEW n \in Nat, IsSeq(f[n + 1])
    PROVE  Flat(f, n + 1) = Flat(f, n) ++ f[n + 1]
  <1>1. PICK s : s = [i \in 1 .. n + 1 |-> f[i]]
    OBVIOUS
  <1>2. IsList(s, n + 1) /\ \A i \in 1 .. n + 1 : s[i] = f[i]
    BY <1>1, FlatList
  <1>3. PICK g : /\ FlattenSeq(s) = g[n + 1] /\ g[1] = s[1]
                 /\ \A i \in 2 .. n + 1 : g[i] = g[i - 1] ++ s[i]
    BY <1>2, FlattenIs, n + 1 \in Nat \ {0}
  <1>4. CASE n = 0
    <2>1. FlattenSeq(s) = f[n + 1]
      BY <1>2, <1>3, <1>4
    <2> QED
      BY <1>1, <1>4, <2>1, FlatZero, CatEmpty DEF Flat
  <1>5. CASE n # 0
    <2>1. PICK t : t = [i \in 1 .. n |-> f[i]]
      OBVIOUS
    <2>2. IsList(t, n) /\ \A i \in 1 .. n : t[i] = f[i]
      BY <2>1, FlatList
    <2>3. PICK h : /\ FlattenSeq(t) = h[n] /\ h[1] = t[1]
                   /\ \A i \in 2 .. n : h[i] = h[i - 1] ++ t[i]
      BY <1>5, <2>2, FlattenIs
    <2> DEFINE Good == {i \in Nat : i + 1 \in 1 .. n => g[i + 1] = h[i + 1]}
    <2>4. 0 \in Good
      BY <1>2, <1>3, <1>5, <2>2, <2>3
    <2>5. ASSUME NEW i \in Nat, i \in Good
          PROVE  i + 1 \in Good
      <3> SUFFICES ASSUME (i + 1) + 1 \in 1 .. n
                   PROVE  g[(i + 1) + 1] = h[(i + 1) + 1]
        OBVIOUS
      <3>1. /\ (i + 1) + 1 \in 2 .. n + 1 /\ (i + 1) + 1 \in 2 .. n
            /\ ((i + 1) + 1) - 1 = i + 1 /\ i + 1 \in 1 .. n
        OBVIOUS
      <3>2. g[i + 1] = h[i + 1]
        BY <2>5, <3>1
      <3> QED
        BY <1>2, <1>3, <2>2, <2>3, <3>1, <3>2
    <2>6. n - 1 \in Good
      <3> HIDE DEF Good
      <3> QED
        BY <1>5, <2>4, <2>5, Induction, n - 1 \in Nat
    <2>7. g[n] = h[n]
      BY <1>5, <2>6
    <2>8. FlattenSeq(s) = FlattenSeq(t) ++ f[n + 1]
      BY <1>2, <1>3, <1>5, <2>3, <2>7
    <2> QED
      BY <1>1, <2>1, <2>8 DEF Flat
  <1> QED
    BY <1>4, <1>5

LEMMA FlatIsSeq ==
    ASSUME NEW f, NEW n \in Nat, \A i \in 1 .. n : IsSeq(f[i])
    PROVE  IsSeq(Flat(f, n))
  <1> DEFINE Good == {m \in Nat : m <= n => IsSeq(Flat(f, m))}
  <1>1. 0 \in Good
    BY FlatZero, SeqNone
  <1>2. ASSUME NEW m \in Nat, m \in Good
        PROVE  m + 1 \in Good
    <2> SUFFICES ASSUME m + 1 <= n
                 PROVE  IsSeq(Flat(f, m + 1))
      OBVIOUS
    <2>1. IsSeq(f[m + 1]) /\ IsSeq(Flat(f, m))
      BY <1>2
    <2> QED
      BY <2>1, FlatNext, SeqCat
  <1>3. n \in Good
    <2> HIDE DEF Good
    <2> QED
      BY <1>1, <1>2, Induction
  <1> QED
    BY <1>3

(* The larger of two.                                                      *)
LEMMA MaxOfTwo ==
    ASSUME NEW n \in Nat, NEW m \in Nat
    PROVE  /\ Max({n, m}) \in Nat /\ Max({n, m}) >= n /\ Max({n, m}) >= m
           /\ Max({n, m}) \in {n, m}
  <1>1. PICK b \in Nat : n <= b /\ m <= b
    <2>1. n + m \in Nat /\ n <= n + m /\ m <= n + m
      OBVIOUS
    <2> QED
      BY <2>1
  <1>2. {n, m} \in SUBSET (0 .. b) /\ {n, m} # {}
    BY <1>1
  <1> DEFINE both == {n, m}
  <1> HIDE DEF both
  <1>3. Max(both) \in both /\ \A k \in both : k <= Max(both)
    BY <1>2, MaxMin DEF both
  <1> QED
    BY <1>3 DEF both

LEMMA FlatLong ==
    ASSUME NEW f, NEW n \in Nat \ {0}, \A i \in 1 .. n : IsSeq(f[i]) /\ Len(f[i]) > 0
    PROVE  Len(Flat(f, n)) > 0
  <1>1. n - 1 \in Nat /\ (n - 1) + 1 = n /\ n \in 1 .. n /\ \A i \in 1 .. n - 1 : IsSeq(f[i])
    OBVIOUS
  <1>2. IsSeq(f[n]) /\ Len(f[n]) > 0 /\ IsSeq(Flat(f, n - 1))
    BY <1>1, FlatIsSeq
  <1>3. Flat(f, (n - 1) + 1) = Flat(f, n - 1) ++ f[(n - 1) + 1]
    BY <1>1, <1>2, FlatNext
  <1>4. Flat(f, n) = Flat(f, n - 1) ++ f[n]
    BY <1>1, <1>3
  <1>5. Len(Flat(f, n)) = Len(Flat(f, n - 1)) + Len(f[n])
    BY <1>2, <1>4, CatLen
  <1>6. PICK a, b, c : a = Len(Flat(f, n - 1)) /\ b = Len(f[n]) /\ c = Len(Flat(f, n))
    OBVIOUS
  <1>7. a \in Nat /\ b \in Nat /\ b > 0 /\ c = a + b
    BY <1>2, <1>5, <1>6, SeqHas
  <1>8. c > 0
    BY <1>7
  <1> QED
    BY <1>6, <1>8

-----------------------------------------------------------------------------
(* Tokens.  A clean sequence has no comment, and n scans at most.          *)

IsCom(token) == token[1] = "M" /\ token[2] = "COM"
IsSos(token) == token[1] = "M" /\ token[2] = "SOS"

Shifted(n, set) == {n + j : j \in set}
SosIn(s) == {i \in 1 .. Len(s) : IsSos(s[i])}
Soses(s) == Cardinality(SosIn(s))

Clean(s, n) ==
    /\ IsSeq(s) /\ \A i \in 1 .. Len(s) : ~IsCom(s[i])
    /\ Soses(s) <= n

LEMMA SosesAre ==
    ASSUME NEW s, IsSeq(s)
    PROVE  IsFiniteSet(SosIn(s)) /\ Soses(s) \in Nat
  <1>1. Len(s) \in Nat
    BY SeqHas
  <1>2. IsFiniteSet(1 .. Len(s))
    BY <1>1, FS_Interval
  <1>3. SosIn(s) \in SUBSET (1 .. Len(s))
    BY DEF SosIn
  <1>4. IsFiniteSet(SosIn(s))
    BY <1>2, <1>3, FS_Subset
  <1> QED
    BY <1>4, FS_CardinalityType DEF Soses

LEMMA ShiftedAre ==
    ASSUME NEW n \in Nat, NEW set \in SUBSET Nat, IsFiniteSet(set)
    PROVE  IsFiniteSet(Shifted(n, set)) /\ Cardinality(Shifted(n, set)) <= Cardinality(set)
  <1> DEFINE f == [j \in set |-> n + j]
  <1>1. f \in Surjection(set, Shifted(n, set))
    BY DEF Surjection, Shifted
  <1> HIDE DEF f
  <1> QED
    BY <1>1, FS_Surjection

LEMMA SosesCat ==
    ASSUME NEW s, NEW t, IsSeq(s), IsSeq(t)
    PROVE  Soses(s ++ t) <= Soses(s) + Soses(t)
  <1>1. PICK v : v = s ++ t
    OBVIOUS
  <1>2. /\ Len(s) \in Nat /\ Len(t) \in Nat /\ Len(v) = Len(s) + Len(t) /\ IsSeq(v)
        /\ \A i \in 1 .. Len(s) : v[i] = s[i]
        /\ \A i \in 1 .. Len(t) : v[Len(s) + i] = t[i]
    BY <1>1, SeqCat, SeqHas
  <1>3. PICK a, b : a = SosIn(s) /\ b = Shifted(Len(s), SosIn(t))
    OBVIOUS
  <1>4. SosIn(v) \subseteq a \cup b
    <2> SUFFICES ASSUME NEW i \in SosIn(v)
                 PROVE  i \in a \cup b
      OBVIOUS
    <2>1. i \in 1 .. Len(s) + Len(t) /\ IsSos(v[i])
      BY <1>2 DEF SosIn
    <2>2. CASE i <= Len(s)
      <3>1. i \in 1 .. Len(s)
        BY <1>2, <2>1, <2>2
      <3>2. v[i] = s[i]
        BY <1>2, <3>1
      <3> QED
        BY <1>3, <2>1, <3>1, <3>2 DEF SosIn
    <2>3. CASE i > Len(s)
      <3>1. PICK j \in 1 .. Len(t) : i = Len(s) + j
        <4>1. i - Len(s) \in 1 .. Len(t) /\ i = Len(s) + (i - Len(s))
          BY <1>2, <2>1, <2>3
        <4> QED
          BY <4>1
      <3>2. v[i] = t[j] /\ IsSos(t[j])
        <4>1. v[i] = t[j]
          BY <1>2, <3>1
        <4> QED
          BY <2>1, <4>1
      <3>3. j \in SosIn(t)
        BY <3>2 DEF SosIn
      <3> QED
        BY <1>3, <3>1, <3>3 DEF Shifted
    <2> QED
      BY <1>2, <2>1, <2>2, <2>3
  <1>5. /\ IsFiniteSet(a) /\ Cardinality(a) = Soses(s) /\ Soses(s) \in Nat
        /\ IsFiniteSet(SosIn(t)) /\ Soses(t) \in Nat
    BY <1>3, SosesAre DEF Soses
  <1>6. SosIn(t) \in SUBSET Nat
    BY <1>2 DEF SosIn
  <1>7. IsFiniteSet(b) /\ Cardinality(b) <= Soses(t)
    BY <1>2, <1>3, <1>5, <1>6, ShiftedAre DEF Soses
  <1>8. /\ IsFiniteSet(a \cup b)
        /\ Cardinality(a \cup b) = Cardinality(a) + Cardinality(b) - Cardinality(a \cap b)
    BY <1>5, <1>7, FS_Union
  <1>9. IsFiniteSet(a \cap b)
    BY <1>5, FS_Subset, a \cap b \in SUBSET a
  <1>10. Cardinality(a \cap b) \in Nat /\ Cardinality(b) \in Nat
    BY <1>7, <1>9, FS_CardinalityType
  <1>11. Cardinality(SosIn(v)) <= Cardinality(a \cup b) /\ Cardinality(SosIn(v)) \in Nat
    BY <1>4, <1>8, FS_Subset, FS_CardinalityType
  <1> QED
    BY <1>1, <1>5, <1>7, <1>8, <1>10, <1>11 DEF Soses

LEMMA CleanNone ==
    ASSUME NEW s, IsSeq(s), \A i \in 1 .. Len(s) : ~IsCom(s[i]) /\ ~IsSos(s[i])
    PROVE  Clean(s, 0)
  <1>1. SosIn(s) = {}
    BY DEF SosIn
  <1> QED
    BY <1>1, FS_EmptySet DEF Clean, Soses

LEMMA CleanCat ==
    ASSUME NEW s, NEW t, NEW n \in Nat, NEW m \in Nat, Clean(s, n), Clean(t, m)
    PROVE  Clean(s ++ t, n + m)
  <1>1. IsSeq(s) /\ IsSeq(t)
    BY DEF Clean
  <1>2. /\ Len(s) \in Nat /\ Len(t) \in Nat /\ Len(s ++ t) = Len(s) + Len(t) /\ IsSeq(s ++ t)
        /\ \A i \in 1 .. Len(s) : (s ++ t)[i] = s[i]
        /\ \A i \in 1 .. Len(t) : (s ++ t)[Len(s) + i] = t[i]
    BY <1>1, SeqCat, SeqHas
  <1>3. ASSUME NEW i \in 1 .. Len(s ++ t)
        PROVE  ~IsCom((s ++ t)[i])
    <2>1. CASE i <= Len(s)
      <3>1. i \in 1 .. Len(s)
        BY <1>2, <2>1
      <3> QED
        BY <1>2, <3>1 DEF Clean
    <2>2. CASE i > Len(s)
      <3>1. i - Len(s) \in 1 .. Len(t) /\ i = Len(s) + (i - Len(s))
        BY <1>2, <2>2
      <3>2. (s ++ t)[i] = t[i - Len(s)]
        BY <1>2, <3>1
      <3> QED
        BY <3>1, <3>2 DEF Clean
    <2> QED
      BY <1>2, <2>1, <2>2
  <1>4. Soses(s ++ t) <= n + m
    <2>1. Soses(s) \in Nat /\ Soses(t) \in Nat /\ Soses(s ++ t) \in Nat
      BY <1>1, <1>2, SosesAre
    <2>2. Soses(s) <= n /\ Soses(t) <= m
      BY DEF Clean
    <2>3. Soses(s ++ t) <= Soses(s) + Soses(t)
      BY <1>1, SosesCat
    <2> QED
      BY <2>1, <2>2, <2>3
  <1> QED
    BY <1>2, <1>3, <1>4 DEF Clean

(* With no scan in each, or with one in each.                              *)
LEMMA CleanFlat ==
    ASSUME NEW f, NEW n \in Nat, NEW b \in {0, 1}, \A i \in 1 .. n : Clean(f[i], b)
    PROVE  Clean(Flat(f, n), IF b = 0 THEN 0 ELSE n)
  <1> DEFINE Good == {m \in Nat : m <= n => Clean(Flat(f, m), IF b = 0 THEN 0 ELSE m)}
  <1>1. 0 \in Good
    <2>1. Clean(<<>>, 0)
      BY SeqNone, CleanNone
    <2> QED
      BY <2>1, FlatZero
  <1>2. ASSUME NEW m \in Nat, m \in Good
        PROVE  m + 1 \in Good
    <2> SUFFICES ASSUME m + 1 <= n
                 PROVE  Clean(Flat(f, m + 1), IF b = 0 THEN 0 ELSE m + 1)
      OBVIOUS
    <2>1. m + 1 \in 1 .. n /\ m <= n
      OBVIOUS
    <2>2. PICK k \in Nat : k = IF b = 0 THEN 0 ELSE m
      OBVIOUS
    <2>3. Clean(f[m + 1], b) /\ Clean(Flat(f, m), k)
      BY <1>2, <2>1, <2>2
    <2>4. Flat(f, m + 1) = Flat(f, m) ++ f[m + 1]
      BY <2>3, FlatNext DEF Clean
    <2>5. Clean(Flat(f, m) ++ f[m + 1], k + b)
      BY <2>3, CleanCat, b \in Nat
    <2>6. k + b = IF b = 0 THEN 0 ELSE m + 1
      BY <2>2
    <2> QED
      BY <2>4, <2>5, <2>6
  <1>3. n \in Good
    <2> HIDE DEF Good
    <2> QED
      BY <1>1, <1>2, Induction
  <1> QED
    BY <1>3

(* A clean one may be said to have more.                                   *)
LEMMA CleanMore ==
    ASSUME NEW s, NEW n \in Nat, NEW m \in Nat, n <= m, Clean(s, n)
    PROVE  Clean(s, m)
  <1>1. Soses(s) \in Nat
    BY SosesAre DEF Clean
  <1> QED
    BY <1>1 DEF Clean

LEMMA SegmentIs ==
    ASSUME NEW name, NEW param
    PROVE  /\ IsSeq(Segment(name, param)) /\ Len(Segment(name, param)) = 2
           /\ Segment(name, param)[1] = Code(name) /\ Segment(name, param)[2] = <<"P", param>>
  <1>1. Segment(name, param) \in Seq({Code(name), <<"P", param>>})
    BY DEF Segment
  <1> QED
    BY <1>1 DEF IsSeq, Segment

LEMMA SegmentIsClean ==
    ASSUME NEW name, NEW param, name # "COM"
    PROVE  Clean(Segment(name, param), IF name = "SOS" THEN 1 ELSE 0)
  <1>1. PICK s : s = Segment(name, param)
    OBVIOUS
  <1>2. IsSeq(s) /\ Len(s) = 2 /\ s[1] = Code(name) /\ s[2] = <<"P", param>>
    BY <1>1, SegmentIs
  <1>3. \A i \in 1 .. 2 : i = 1 \/ i = 2
    OBVIOUS
  <1>4. \A i \in 1 .. 2 : ~IsCom(s[i]) /\ (IsSos(s[i]) => i = 1 /\ name = "SOS")
    <2>1. ~IsCom(s[1]) /\ (IsSos(s[1]) => name = "SOS")
      BY <1>2 DEF IsCom, IsSos, Code
    <2>2. ~IsCom(s[2]) /\ ~IsSos(s[2])
      BY <1>2 DEF IsCom, IsSos
    <2> QED
      BY <1>3, <2>1, <2>2
  <1>5. CASE name = "SOS"
    <2>1. SosIn(s) \in SUBSET {1}
      BY <1>2, <1>4 DEF SosIn
    <2>2. IsFiniteSet({1}) /\ Cardinality({1}) = 1
      BY FS_Singleton, Zenon
    <2>3. Soses(s) <= 1
      BY <2>1, <2>2, FS_Subset DEF Soses
    <2> QED
      BY <1>1, <1>2, <1>4, <1>5, <2>3 DEF Clean
  <1>6. CASE name # "SOS"
    BY <1>1, <1>2, <1>4, <1>6, CleanNone
  <1> QED
    BY <1>5, <1>6

-----------------------------------------------------------------------------
(* The image.                                                              *)

ImageIs ==
    /\ conf \in Configs
    /\ info.maxH \in 1 .. 4 /\ info.maxV \in 1 .. 4
    /\ \A s \in DOMAIN conf.scans : IsSeq(info.places[s]) /\ Len(info.places[s]) > 0

LEMMA ConfIs ==
    ASSUME conf \in Configs
    PROVE  /\ Comps # {} /\ \A c \in Comps : H(c) \in 1 .. 4 /\ V(c) \in 1 .. 4
           /\ conf.width \in Nat \ {0} /\ conf.height \in Nat \ {0}
           /\ conf.comment \in Nat /\ conf.limit \in Nat /\ conf.damage.n \in Nat
           /\ Len(conf.scans) \in Nat /\ DOMAIN conf.scans = 1 .. Len(conf.scans)
           /\ \A s \in DOMAIN conf.scans :
                  /\ conf.scans[s] \in Seq(Comps) /\ Len(conf.scans[s]) \in Nat \ {0}
                  /\ DOMAIN conf.scans[s] = 1 .. Len(conf.scans[s])
  <1>1. PICK comps, scans : comps = conf.comps /\ scans = conf.scans
    OBVIOUS
  <1>2. /\ comps \in Seq([h : 1 .. 4, v : 1 .. 4]) /\ comps # <<>>
        /\ scans \in Seq(Seq(DOMAIN comps) \ {<<>>})
    BY <1>1, ConfigsAssumption
  <1>3. Comps # {} /\ \A c \in Comps : H(c) \in 1 .. 4 /\ V(c) \in 1 .. 4
    <2>1. DOMAIN comps = 1 .. Len(comps) /\ Len(comps) \in Nat
          /\ \A c \in DOMAIN comps : comps[c] \in [h : 1 .. 4, v : 1 .. 4]
      BY <1>2, LenProperties
    <2>2. Len(comps) # 0
      BY <1>2, EmptySeq
    <2>3. Comps = 1 .. Len(comps) /\ \A c \in Comps : H(c) = comps[c].h /\ V(c) = comps[c].v
      BY <1>1, <2>1 DEF Comps, H, V
    <2>4. ASSUME NEW c \in Comps
          PROVE  H(c) \in 1 .. 4 /\ V(c) \in 1 .. 4
      <3>1. comps[c] \in [h : 1 .. 4, v : 1 .. 4]
        BY <2>1, <2>3
      <3>2. comps[c].h \in 1 .. 4 /\ comps[c].v \in 1 .. 4
        BY <3>1
      <3> QED
        BY <2>3, <3>2
    <2>5. 1 \in Comps
      BY <2>1, <2>2, <2>3
    <2> QED
      BY <2>4, <2>5
  <1>4. Len(scans) \in Nat /\ DOMAIN scans = 1 .. Len(scans)
    BY <1>2, LenProperties
  <1>5. ASSUME NEW s \in DOMAIN scans
        PROVE  /\ scans[s] \in Seq(Comps) /\ Len(scans[s]) \in Nat \ {0}
               /\ DOMAIN scans[s] = 1 .. Len(scans[s])
    <2>1. PICK scan : scan = scans[s]
      OBVIOUS
    <2>2. scan \in Seq(Comps) /\ scan # <<>>
      BY <1>1, <1>2, <2>1 DEF Comps
    <2>3. Len(scan) \in Nat /\ DOMAIN scan = 1 .. Len(scan) /\ Len(scan) # 0
      BY <2>2, LenProperties, EmptySeq
    <2> QED
      BY <2>1, <2>2, <2>3
  <1>6. /\ conf.width \in Nat \ {0} /\ conf.height \in Nat \ {0}
        /\ conf.comment \in Nat /\ conf.limit \in Nat /\ conf.damage.n \in Nat
    BY ConfigsAssumption
  <1> QED
    BY <1>1, <1>3, <1>4, <1>5, <1>6

LEMMA DivUpIs ==
    ASSUME NEW n \in Nat, NEW m \in Nat \ {0}
    PROVE  DivUp(n, m) \in Nat
  BY DEF DivUp

LEMMA Products ==
    ASSUME NEW n \in Nat, NEW m \in Nat
    PROVE  n * m \in Nat /\ (n # 0 /\ m # 0 => n * m # 0)
  OBVIOUS

LEMMA McusAre ==
    ASSUME ImageIs, NEW s \in DOMAIN conf.scans
    PROVE  McusOf(conf.scans[s]) \in Nat
  <1>1. PICK scan, c : scan = conf.scans[s] /\ c = scan[1]
    OBVIOUS
  <1>2. c \in Comps
    <2>1. scan \in Seq(Comps) /\ 1 \in DOMAIN scan
      BY <1>1, ConfIs DEF ImageIs
    <2> QED
      BY <1>1, <2>1
  <1>3. PICK h, v : h = H(c) /\ v = V(c)
    OBVIOUS
  <1>4. /\ h \in Nat /\ v \in Nat /\ conf.width \in Nat /\ conf.height \in Nat
        /\ MaxH \in Nat \ {0} /\ MaxV \in Nat \ {0}
    BY <1>2, <1>3, ConfIs DEF ImageIs, MaxH, MaxV
  <1>5. /\ MaxH * D \in Nat \ {0} /\ MaxV * D \in Nat \ {0}
        /\ conf.width * h \in Nat /\ conf.height * v \in Nat
    BY <1>4, Products, DAssumption
  <1>6. /\ WidthInBlocks(c) \in Nat /\ HeightInBlocks(c) \in Nat /\ TotalRows \in Nat
        /\ DivUp(conf.width, MaxH * D) \in Nat
    BY <1>3, <1>4, <1>5, DivUpIs DEF WidthInBlocks, HeightInBlocks, TotalRows
  <1>7. RowsOf(scan) \in Nat /\ McusPerRow(scan) \in Nat
    BY <1>1, <1>6 DEF RowsOf, McusPerRow
  <1> QED
    BY <1>1, <1>7, Products DEF McusOf

(* The places of an MCU.                                                   *)
LEMMA PlacesAre ==
    ASSUME conf \in Configs, NEW s \in DOMAIN conf.scans
    PROVE  IsSeq(PlacesOf(conf.scans[s])) /\ Len(PlacesOf(conf.scans[s])) > 0
  <1>1. PICK scan, n : scan = conf.scans[s] /\ n = Len(scan)
    OBVIOUS
  <1>2. scan \in Seq(Comps) /\ n \in Nat \ {0} /\ DOMAIN scan = 1 .. n
    BY <1>1, ConfIs
  <1> DEFINE block(c, k) ==
                 [c |-> c, y |-> (k - 1) \div McuW(scan, c), x |-> (k - 1) % McuW(scan, c)]
             places(c) == [k \in 1 .. McuW(scan, c) * McuH(scan, c) |-> block(c, k)]
             f == [i \in DOMAIN scan |-> places(scan[i])]
  <1>3. PlacesOf(scan) = FlattenSeq(f)
    BY Zenon DEF PlacesOf
  <1>4. ASSUME NEW i \in 1 .. n
        PROVE  IsSeq(f[i]) /\ Len(f[i]) > 0
    <2>1. PICK c : c = scan[i]
      OBVIOUS
    <2>2. c \in Comps
      BY <1>2, <2>1
    <2>3. McuW(scan, c) \in Nat \ {0} /\ McuH(scan, c) \in Nat \ {0}
      BY <2>2, ConfIs DEF McuW, McuH
    <2>4. PICK m : m = McuW(scan, c) * McuH(scan, c)
      OBVIOUS
    <2>5. m \in Nat \ {0}
      BY <2>3, <2>4, Products
    <2>6. PICK t : t = f[i]
      OBVIOUS
    <2>7. t = [k \in 1 .. m |-> block(c, k)]
      BY <1>2, <2>1, <2>4, <2>6, Zenon
    <2> HIDE DEF f, block
    <2>8. IsList(t, m)
      BY <2>7 DEF IsList
    <2>9. IsSeq(t) /\ Len(t) = m
      BY <2>5, <2>8, ListHas
    <2> QED
      BY <2>5, <2>6, <2>9
  <1>5. f = [i \in 1 .. n |-> f[i]]
    BY <1>2
  <1> HIDE DEF f
  <1>6. FlattenSeq(f) = Flat(f, n)
    BY <1>5, Zenon DEF Flat
  <1>7. IsSeq(Flat(f, n)) /\ Len(Flat(f, n)) > 0
    BY <1>2, <1>4, FlatIsSeq, FlatLong
  <1> QED
    BY <1>1, <1>3, <1>6, <1>7

(* initial_setup and per_scan_setup.                                       *)
LEMMA InitImage == ASSUME conf \in Configs, info = Measured PROVE ImageIs
  <1> DEFINE maxH == Max({H(c) : c \in Comps})
             maxV == Max({V(c) : c \in Comps})
  <1>1. maxH \in 1 .. 4 /\ maxV \in 1 .. 4
    <2> DEFINE hs == {H(c) : c \in Comps}
               vs == {V(c) : c \in Comps}
    <2>1. hs \in SUBSET (0 .. 4) /\ hs # {} /\ 0 \notin hs
      BY ConfIs
    <2>2. vs \in SUBSET (0 .. 4) /\ vs # {} /\ 0 \notin vs
      BY ConfIs
    <2> HIDE DEF hs, vs
    <2>3. Max(hs) \in hs /\ Max(vs) \in vs
      BY <2>1, <2>2, MaxMin
    <2> QED
      BY <2>1, <2>2, <2>3 DEF hs, vs
  <1>2. /\ info.maxH = maxH /\ info.maxV = maxV
        /\ info.places = [s \in DOMAIN conf.scans |-> PlacesOf(conf.scans[s])]
    BY DEF Measured
  <1> HIDE DEF maxH, maxV
  <1>3. \A s \in DOMAIN conf.scans : info.places[s] = PlacesOf(conf.scans[s])
    BY <1>2
  <1> QED
    BY <1>1, <1>2, <1>3, PlacesAre DEF ImageIs

-----------------------------------------------------------------------------
(* The file.                                                               *)

LEMMA BlocksAre ==
    ASSUME ImageIs, NEW s \in DOMAIN conf.scans, NEW m
    PROVE  /\ IsSeq(Blocks(s, m)) /\ Len(Blocks(s, m)) > 0
           /\ \A i \in 1 .. Len(Blocks(s, m)) : Blocks(s, m)[i][1] = "B"
  <1>1. PICK places : places = info.places[s]
    OBVIOUS
  <1>2. IsSeq(places) /\ Len(places) > 0
    BY <1>1 DEF ImageIs
  <1>3. PICK n : n = Len(places)
    OBVIOUS
  <1>4. n \in Nat /\ n > 0 /\ DOMAIN places = 1 .. n
    BY <1>2, <1>3, SeqHas
  <1>5. PICK blocks, spots : blocks = Blocks(s, m) /\ spots = Spots(s, m)
    OBVIOUS
  <1>6. DOMAIN spots = 1 .. n
    BY <1>1, <1>4, <1>5 DEF Spots
  <1>7. \E pred : blocks = [k \in 1 .. n |-> <<"B", spots[k], pred[k]>>]
    <2> DEFINE prior == Spots(s, m - 1)
               last(c) == prior[Max({j \in DOMAIN spots : spots[j][1] = c})]
               first == m = 0 \/ (conf.interval > 0 /\ m % conf.interval = 0)
               before(k) == IF k > 1 /\ spots[k - 1][1] = spots[k][1] THEN spots[k - 1]
                            ELSE IF first THEN NoDC ELSE last(spots[k][1])
    <2>1. blocks = [k \in DOMAIN spots |-> <<"B", spots[k], before(k)>>]
      BY <1>5, Zenon DEF Blocks
    <2> HIDE DEF before
    <2>2. PICK pred : pred = [k \in 1 .. n |-> before(k)]
      OBVIOUS
    <2>3. \A k \in 1 .. n : pred[k] = before(k)
      BY <2>2
    <2>4. blocks = [k \in 1 .. n |-> <<"B", spots[k], pred[k]>>]
      BY <1>6, <2>1, <2>3
    <2> QED
      BY <2>4, Zenon
  <1>8. PICK pred : blocks = [k \in 1 .. n |-> <<"B", spots[k], pred[k]>>]
    BY <1>7
  <1>9. IsList(blocks, n) /\ \A i \in 1 .. n : blocks[i][1] = "B"
    BY <1>8 DEF IsList
  <1>10. IsSeq(blocks) /\ Len(blocks) = n
    BY <1>4, <1>9, ListHas
  <1> QED
    BY <1>4, <1>5, <1>9, <1>10

LEMMA CleanOne ==
    ASSUME NEW e, ~IsCom(e), ~IsSos(e)
    PROVE  Clean(<<e>>, 0)
  <1>1. PICK s : s = <<e>>
    OBVIOUS
  <1>2. IsSeq(s) /\ Len(s) = 1 /\ s[1] = e
    BY <1>1, SeqOne
  <1>3. \A i \in 1 .. 1 : i = 1
    OBVIOUS
  <1>4. \A i \in 1 .. Len(s) : ~IsCom(s[i]) /\ ~IsSos(s[i])
    BY <1>2, <1>3
  <1> QED
    BY <1>1, <1>2, <1>4, CleanNone

LEMMA CleanEmpty == Clean(<<>>, 0)
  BY SeqNone, CleanNone

LEMMA RestartIsClean == ASSUME NEW s, NEW i PROVE Clean(Restart(s, i), 0)
  <1>1. \A n : ~IsCom(RST(n)) /\ ~IsSos(RST(n))
    BY DEF RST, IsCom, IsSos
  <1>2. \A n : Clean(<<RST(n)>>, 0)
    BY <1>1, CleanOne
  <1>3. \A n : Clean(<<RST(n), RST(n)>>, 0)
    <2> TAKE n
    <2>1. <<RST(n), RST(n)>> = <<RST(n)>> ++ <<RST(n)>>
      BY DEF ++
    <2>2. Clean(<<RST(n)>> ++ <<RST(n)>>, 0 + 0)
      BY <1>2, CleanCat
    <2> QED
      BY <2>1, <2>2
  <1> QED
    BY <1>2, <1>3, CleanEmpty DEF Restart

(* encode_mcu_huff, and what the damage made of it.                        *)
LEMMA McuIsClean ==
    ASSUME ImageIs, NEW s \in DOMAIN conf.scans, NEW m
    PROVE  Clean(McuTokens(s, m), 0)
  <1>1. PICK blocks : blocks = Blocks(s, m)
    OBVIOUS
  <1>2. IsSeq(blocks) /\ Len(blocks) > 0 /\ \A i \in 1 .. Len(blocks) : blocks[i][1] = "B"
    BY <1>1, BlocksAre
  <1>3. \A i \in 1 .. Len(blocks) : ~IsCom(blocks[i]) /\ ~IsSos(blocks[i])
    BY <1>2 DEF IsCom, IsSos
  <1>4. Clean(blocks, 0)
    BY <1>2, <1>3, CleanNone
  <1>5. Clean(Tail(blocks), 0)
    <2>1. PICK X : blocks \in Seq(X)
      BY <1>2 DEF IsSeq
    <2>2. blocks # <<>> /\ Len(blocks) \in Nat
      BY <1>2, SeqHas, SeqNone
    <2>3. /\ Tail(blocks) \in Seq(X) /\ Len(Tail(blocks)) = Len(blocks) - 1
          /\ \A i \in 1 .. Len(Tail(blocks)) : Tail(blocks)[i] = blocks[i + 1]
      BY <2>1, <2>2, HeadTailProperties
    <2>4. \A i \in 1 .. Len(Tail(blocks)) : i + 1 \in 1 .. Len(blocks)
      BY <2>2, <2>3
    <2>5. \A i \in 1 .. Len(Tail(blocks)) : ~IsCom(Tail(blocks)[i]) /\ ~IsSos(Tail(blocks)[i])
      BY <1>3, <2>3, <2>4
    <2>6. IsSeq(Tail(blocks))
      BY <2>3 DEF IsSeq
    <2> QED
      BY <2>5, <2>6, CleanNone
  <1>6. Clean(<<blocks[1]>> ++ blocks, 0)
    <2>1. 1 \in 1 .. Len(blocks)
      BY <1>2, SeqHas
    <2>2. Clean(<<blocks[1]>>, 0)
      BY <1>3, <2>1, CleanOne
    <2>3. Clean(<<blocks[1]>> ++ blocks, 0 + 0)
      BY <1>4, <2>2, CleanCat
    <2> QED
      BY <2>3
  <1> DEFINE begins == conf.interval > 0 /\ m > 0 /\ m % conf.interval = 0
             first == IF begins THEN Restart(s, Interval(m)) ELSE <<>>
             rest == IF Harm = "less" /\ Hurt(s, m) THEN Tail(blocks)
                     ELSE IF Harm = "more" /\ Hurt(s, m) THEN <<blocks[1]>> ++ blocks ELSE blocks
  <1>7. McuTokens(s, m) = first ++ rest
    BY <1>1, Zenon DEF McuTokens, ++
  <1>8. Clean(first, 0)
    BY RestartIsClean, CleanEmpty
  <1>9. Clean(rest, 0)
    BY <1>4, <1>5, <1>6
  <1> HIDE DEF first, rest
  <1>10. Clean(first ++ rest, 0 + 0)
    BY <1>8, <1>9, CleanCat
  <1> QED
    BY <1>7, <1>10

(* write_scan_header, and the scan's data.                                 *)
LEMMA ScanIsClean ==
    ASSUME ImageIs, NEW s \in DOMAIN conf.scans
    PROVE  Clean(ScanTokens(s), 1)
  <1> DEFINE scan == conf.scans[s]
             cut == Harm = "cut"
             mcus == IF cut /\ conf.damage.scan = s THEN AtMost(conf.damage.n, McusOf(scan))
                     ELSE McusOf(scan)
             tables == IF s = 1 \/ conf.requant THEN Segment("DQT", s) ELSE <<>>
             f == [m \in 1 .. mcus |-> McuTokens(s, m - 1)]
  <1>1. mcus \in Nat
    <2>1. McusOf(scan) \in Nat
      BY McusAre
    <2>2. conf.damage.n \in Nat
      BY ConfIs DEF ImageIs
    <2> HIDE DEF scan
    <2> QED
      BY <2>1, <2>2 DEF AtMost
  <1>2. ScanTokens(s) = IF cut /\ conf.damage.scan < s THEN <<>>
                        ELSE (tables ++ Segment("SOS", s)) ++ FlattenSeq(f)
    BY Zenon DEF ScanTokens, ++
  <1>3. Clean(<<>>, 1)
    BY CleanEmpty, CleanMore
  <1> HIDE DEF mcus, cut
  <1>4. f = [m \in 1 .. mcus |-> f[m]] /\ \A m \in 1 .. mcus : f[m] = McuTokens(s, m - 1)
    OBVIOUS
  <1> HIDE DEF f
  <1>5. FlattenSeq(f) = Flat(f, mcus)
    BY <1>4, Zenon DEF Flat
  <1>6. Clean(Flat(f, mcus), 0)
    <2>1. \A m \in 1 .. mcus : Clean(f[m], 0)
      BY <1>4, McuIsClean
    <2>2. Clean(Flat(f, mcus), IF 0 = 0 THEN 0 ELSE mcus)
      BY <1>1, <2>1, CleanFlat
    <2> QED
      BY <2>2
  <1>7. Clean(tables, 0)
    <2>1. Clean(Segment("DQT", s), 0)
      BY SegmentIsClean
    <2> QED
      BY <2>1, CleanEmpty
  <1>8. Clean(Segment("SOS", s), 1)
    BY SegmentIsClean
  <1> HIDE DEF tables
  <1>9. Clean(tables ++ Segment("SOS", s), 0 + 1)
    BY <1>7, <1>8, CleanCat
  <1>10. Clean(tables ++ Segment("SOS", s), 1)
    BY <1>9
  <1>11. Clean((tables ++ Segment("SOS", s)) ++ Flat(f, mcus), 1 + 0)
    BY <1>6, <1>10, CleanCat
  <1> QED
    BY <1>2, <1>3, <1>5, <1>11

(* How the file begins: with the comment, if there is one, and no other    *)
(* after it.                                                               *)
Begins(s) ==
    /\ IsSeq(s) /\ Len(s) > 0 /\ s[1] = Code("SOI")
    /\ conf.comment > 0 =>
           /\ Len(s) >= 3 + conf.comment
           /\ s[2] = Code("COM") /\ s[3] = <<"P", conf.comment>>
           /\ \A i \in 1 .. conf.comment : s[3 + i] = <<"C", i>>
    /\ \A i \in 1 .. Len(s) : IsCom(s[i]) => conf.comment > 0 /\ i = 2

FileIs == Begins(stream) /\ Soses(stream) <= Len(conf.scans)

LEMMA BeginsCat ==
    ASSUME NEW s, NEW t, NEW n \in Nat, NEW m \in Nat, conf.comment \in Nat,
           Begins(s), Soses(s) <= n, Clean(t, m)
    PROVE  Begins(s ++ t) /\ Soses(s ++ t) <= n + m
  <1>1. PICK v, a, b, k : v = s ++ t /\ a = Len(s) /\ b = Len(t) /\ k = conf.comment
    OBVIOUS
  <1>2. IsSeq(s) /\ IsSeq(t)
    BY DEF Begins, Clean
  <1>3. /\ a \in Nat /\ b \in Nat /\ Len(v) = a + b /\ IsSeq(v)
        /\ \A i \in 1 .. a : v[i] = s[i]
        /\ \A i \in 1 .. b : v[a + i] = t[i]
    BY <1>1, <1>2, SeqCat, SeqHas
  <1>4. a > 0 /\ s[1] = Code("SOI") /\ k \in Nat
    BY <1>1 DEF Begins
  <1>5. v[1] = Code("SOI")
    BY <1>3, <1>4
  <1>6. ASSUME k > 0
        PROVE  /\ Len(v) >= 3 + k /\ v[2] = Code("COM") /\ v[3] = <<"P", k>>
               /\ \A i \in 1 .. k : v[3 + i] = <<"C", i>>
    <2>1. /\ a >= 3 + k /\ s[2] = Code("COM") /\ s[3] = <<"P", k>>
          /\ \A i \in 1 .. k : s[3 + i] = <<"C", i>>
      BY <1>1, <1>6 DEF Begins
    <2>2. 2 \in 1 .. a /\ 3 \in 1 .. a /\ \A i \in 1 .. k : 3 + i \in 1 .. a
      BY <1>3, <1>4, <2>1
    <2>3. \A i \in 1 .. k : v[3 + i] = s[3 + i]
      BY <1>3, <2>2
    <2> QED
      BY <1>3, <1>4, <2>1, <2>2, <2>3
  <1>7. ASSUME NEW i \in 1 .. a + b, IsCom(v[i])
        PROVE  k > 0 /\ i = 2
    <2>1. CASE i <= a
      <3>1. i \in 1 .. a
        BY <1>3, <2>1
      <3>2. v[i] = s[i]
        BY <1>3, <3>1
      <3> QED
        BY <1>1, <1>7, <3>1, <3>2 DEF Begins
    <2>2. CASE i > a
      <3>1. i - a \in 1 .. b /\ i = a + (i - a)
        BY <1>3, <2>2
      <3>2. v[i] = t[i - a]
        BY <1>3, <3>1
      <3> QED
        BY <1>1, <1>7, <3>1, <3>2 DEF Clean
    <2> QED
      BY <1>3, <2>1, <2>2
  <1>8. Soses(v) <= n + m
    <2>1. Soses(s) \in Nat /\ Soses(t) \in Nat /\ Soses(v) \in Nat
      BY <1>2, <1>3, SosesAre
    <2>2. Soses(v) <= Soses(s) + Soses(t) /\ Soses(t) <= m
      BY <1>1, <1>2, SosesCat DEF Clean
    <2> QED
      BY <2>1, <2>2
  <1>9. Begins(v)
    BY <1>1, <1>3, <1>4, <1>5, <1>6, <1>7 DEF Begins
  <1> QED
    BY <1>1, <1>8, <1>9

(* SOI and the comment.                                                    *)
LEMMA HeadBegins ==
    ASSUME conf.comment \in Nat
    PROVE  Begins(<<Code("SOI")>> ++ Comment) /\ Soses(<<Code("SOI")>> ++ Comment) <= 0
  <1>1. PICK soi, k : soi = <<Code("SOI")>> /\ k = conf.comment
    OBVIOUS
  <1>2. IsSeq(soi) /\ Len(soi) = 1 /\ soi[1] = Code("SOI")
    BY <1>1, SeqOne
  <1>3. ~IsCom(Code("SOI")) /\ ~IsSos(Code("SOI"))
    BY DEF Code, IsCom, IsSos
  <1>4. CASE k = 0
    <2>1. soi ++ Comment = soi
      BY <1>1, <1>2, <1>4, CatEmpty DEF Comment
    <2>2. Clean(soi, 0)
      BY <1>1, <1>3, CleanOne
    <2>3. \A i \in 1 .. Len(soi) : ~IsCom(soi[i])
      BY <2>2 DEF Clean
    <2>4. Begins(soi)
      BY <1>1, <1>2, <1>4, <2>3 DEF Begins
    <2> QED
      BY <1>1, <2>1, <2>2, <2>4 DEF Clean
  <1>5. CASE k # 0
    <2> DEFINE bytes == [i \in 1 .. k |-> <<"C", i>>]
               com == Segment("COM", k)
    <2>1. Comment = com ++ bytes
      BY <1>1, <1>5 DEF Comment, ++
    <2>2. /\ IsSeq(com) /\ Len(com) = 2 /\ com[1] = Code("COM") /\ com[2] = <<"P", k>>
      BY SegmentIs
    <2>3. IsList(bytes, k)
      BY DEF IsList
    <2>4. IsSeq(bytes) /\ Len(bytes) = k
      BY <1>1, <2>3, ListHas
    <2>5. \A i \in 1 .. k : bytes[i] = <<"C", i>>
      OBVIOUS
    <2> HIDE DEF com, bytes
    <2>6. PICK c, v : c = com ++ bytes /\ v = soi ++ c
      OBVIOUS
    <2>7. /\ IsSeq(c) /\ Len(c) = 2 + k
          /\ \A i \in 1 .. 2 : c[i] = com[i]
          /\ \A i \in 1 .. k : c[2 + i] = bytes[i]
      <3>1. IsSeq(com) /\ IsSeq(bytes)
        BY <2>2, <2>4
      <3>2. /\ IsSeq(c) /\ Len(c) = Len(com) + Len(bytes)
            /\ \A i \in 1 .. Len(com) : c[i] = com[i]
            /\ \A i \in 1 .. Len(bytes) : c[Len(com) + i] = bytes[i]
        BY <2>6, <3>1, SeqCat
      <3> QED
        BY <2>2, <2>4, <2>6, <3>2
    <2>8. /\ IsSeq(v) /\ Len(v) = 1 + (2 + k)
          /\ \A i \in 1 .. 1 : v[i] = soi[i]
          /\ \A i \in 1 .. 2 + k : v[1 + i] = c[i]
      <3>1. IsSeq(soi) /\ IsSeq(c)
        BY <1>2, <2>7
      <3>2. /\ IsSeq(v) /\ Len(v) = Len(soi) + Len(c)
            /\ \A i \in 1 .. Len(soi) : v[i] = soi[i]
            /\ \A i \in 1 .. Len(c) : v[Len(soi) + i] = c[i]
        BY <2>6, <3>1, SeqCat
      <3> QED
        BY <1>2, <2>6, <2>7, <3>2
    <2>9. v[1] = Code("SOI") /\ v[2] = Code("COM") /\ v[3] = <<"P", k>>
      <3>1. 1 \in 1 .. 1 /\ 1 \in 1 .. 2 /\ 2 \in 1 .. 2 /\ 1 \in 1 .. 2 + k /\ 2 \in 1 .. 2 + k
            /\ 1 + 1 = 2 /\ 1 + 2 = 3
        BY <1>1
      <3>2. v[1] = soi[1] /\ v[1 + 1] = c[1] /\ v[1 + 2] = c[2] /\ c[1] = com[1] /\ c[2] = com[2]
        BY <2>7, <2>8, <3>1
      <3> QED
        BY <1>2, <2>2, <3>1, <3>2
    <2>10. \A i \in 1 .. k : v[3 + i] = <<"C", i>>
      <3> TAKE i \in 1 .. k
      <3>1. 2 + i \in 1 .. 2 + k /\ 1 + (2 + i) = 3 + i
        BY <1>1
      <3>2. v[1 + (2 + i)] = c[2 + i] /\ c[2 + i] = bytes[i]
        BY <2>7, <2>8, <3>1
      <3> QED
        BY <2>5, <3>1, <3>2
    <2>11. \A i \in 1 .. Len(v) : i = 1 \/ i = 2 \/ i = 3 \/ \E j \in 1 .. k : i = 3 + j
      <3> TAKE i \in 1 .. Len(v)
      <3>1. i > 3 => i - 3 \in 1 .. k /\ i = 3 + (i - 3)
        BY <1>1, <2>8
      <3> QED
        BY <1>1, <2>8, <3>1
    <2>12. \A i \in 1 .. Len(v) : ~IsSos(v[i]) /\ (IsCom(v[i]) => i = 2)
      <3>1. ~IsSos(v[2])
        BY <2>9 DEF Code, IsSos
      <3>2. ~IsSos(v[3]) /\ ~IsCom(v[3])
        BY <2>9 DEF IsSos, IsCom
      <3>3. \A j \in 1 .. k : ~IsSos(v[3 + j]) /\ ~IsCom(v[3 + j])
        BY <2>10 DEF IsSos, IsCom
      <3> QED
        BY <1>3, <2>9, <2>11, <3>1, <3>2, <3>3
    <2>13. k > 0 /\ k \in Nat
      BY <1>1, <1>5
    <2>14. Len(v) >= 3 + k /\ Len(v) > 0
      BY <2>8, <2>13
    <2>15. Begins(v)
      BY <1>1, <2>8, <2>9, <2>10, <2>12, <2>13, <2>14 DEF Begins
    <2>16. SosIn(v) = {}
      BY <2>12 DEF SosIn
    <2>17. Soses(v) <= 0
      BY <2>16, FS_EmptySet DEF Soses
    <2> QED
      BY <1>1, <2>1, <2>6, <2>15, <2>17
  <1> QED
    BY <1>4, <1>5

(* The whole file.                                                         *)
LEMMA InitFile == ASSUME ImageIs, stream = File PROVE FileIs
  <1> DEFINE head == <<Code("SOI")>> ++ Comment
             dri == IF conf.interval > 0 THEN Segment("DRI", conf.interval) ELSE <<>>
             sof == Segment("SOF", Len(conf.comps))
             f == [s \in DOMAIN conf.scans |-> ScanTokens(s)]
             eoi == IF Harm = "cut" THEN <<>> ELSE <<Code("EOI")>>
  <1>1. File = (((head ++ dri) ++ sof) ++ FlattenSeq(f)) ++ eoi
    BY Zenon DEF File, ++
  <1>2. PICK n : n = Len(conf.scans)
    OBVIOUS
  <1>3. conf.comment \in Nat /\ n \in Nat /\ DOMAIN conf.scans = 1 .. n
    BY <1>2, ConfIs DEF ImageIs
  <1>4. Begins(head) /\ Soses(head) <= 0
    BY <1>3, HeadBegins
  <1>5. Clean(dri, 0) /\ Clean(sof, 0) /\ Clean(eoi, 0)
    <2>1. Clean(Segment("DRI", conf.interval), 0)
      BY SegmentIsClean
    <2>2. Clean(sof, 0)
      BY SegmentIsClean
    <2>3. ~IsCom(Code("EOI")) /\ ~IsSos(Code("EOI"))
      BY DEF Code, IsCom, IsSos
    <2>4. Clean(<<Code("EOI")>>, 0)
      BY <2>3, CleanOne
    <2> QED
      BY <2>1, <2>2, <2>4, CleanEmpty
  <1>6. f = [s \in 1 .. n |-> f[s]] /\ \A s \in 1 .. n : f[s] = ScanTokens(s)
    BY <1>3
  <1>7. Clean(FlattenSeq(f), n)
    <2> HIDE DEF f
    <2>1. FlattenSeq(f) = Flat(f, n)
      BY <1>6, Zenon DEF Flat
    <2>2. \A s \in 1 .. n : Clean(f[s], 1)
      BY <1>3, <1>6, ScanIsClean
    <2>3. Clean(Flat(f, n), IF 1 = 0 THEN 0 ELSE n)
      BY <1>3, <2>2, CleanFlat
    <2> QED
      BY <2>1, <2>3
  <1> HIDE DEF head, dri, sof, f, eoi
  <1>8. PICK a, b, c : a = head ++ dri /\ b = a ++ sof /\ c = b ++ FlattenSeq(f)
    OBVIOUS
  <1>9. Begins(a) /\ Soses(a) <= 0
    <2>1. Begins(head ++ dri) /\ Soses(head ++ dri) <= 0 + 0
      BY <1>3, <1>4, <1>5, BeginsCat
    <2> QED
      BY <1>8, <2>1
  <1>10. Begins(b) /\ Soses(b) <= 0
    <2>1. Begins(a ++ sof) /\ Soses(a ++ sof) <= 0 + 0
      BY <1>3, <1>5, <1>9, BeginsCat
    <2> QED
      BY <1>8, <2>1
  <1>11. Begins(c) /\ Soses(c) <= n
    <2>1. Begins(b ++ FlattenSeq(f)) /\ Soses(b ++ FlattenSeq(f)) <= 0 + n
      BY <1>3, <1>7, <1>10, BeginsCat
    <2> QED
      BY <1>3, <1>8, <2>1
  <1>12. Begins(c ++ eoi) /\ Soses(c ++ eoi) <= n + 0
    BY <1>3, <1>5, <1>11, BeginsCat
  <1> QED
    BY <1>1, <1>2, <1>3, <1>8, <1>12 DEF FileIs


-----------------------------------------------------------------------------
(* Markers.                                                                *)

(* next_marker finds one, for behind the end there are EOIs.               *)
LEMMA NextCodeIs ==
    ASSUME pos \in Nat, IsSeq(stream)
    PROVE  /\ NextCode \in Nat /\ NextCode >= pos /\ IsCode(Token(NextCode))
           /\ \A j \in pos .. NextCode - 1 : ~IsCode(Token(j))
  <1>1. PICK b, l : b = Max({Len(stream), pos}) /\ l = Len(stream)
    OBVIOUS
  <1>2. b \in Nat /\ l \in Nat /\ l <= b /\ pos <= b
    <2>1. l \in Nat
      BY <1>1, SeqHas
    <2> QED
      BY <1>1, <2>1, MaxOfTwo
  <1> DEFINE X == {i \in pos .. b + 1 : IsCode(Token(i))}
  <1>3. b + 1 \in X
    <2>1. Token(b + 1) = Code("EOI")
      BY <1>1, <1>2 DEF Token
    <2>2. IsCode(Code("EOI"))
      BY DEF IsCode, Code
    <2> QED
      BY <1>2, <2>1, <2>2
  <1>4. X \in SUBSET Nat /\ X # {}
    BY <1>2, <1>3
  <1>5. PICK n \in X : \A k \in X : n <= k
    <2> HIDE DEF X
    <2> QED
      BY <1>4, LeastNat
  <1>6. n \in pos .. b + 1 /\ IsCode(Token(n)) /\ n \in Nat
    BY <1>2
  <1>7. ASSUME NEW j \in pos .. n - 1
        PROVE  ~IsCode(Token(j))
    <2>1. j \in pos .. b + 1 /\ ~(n <= j)
      BY <1>2, <1>6
    <2> QED
      BY <1>5, <2>1
  <1> HIDE DEF X
  <1> DEFINE First(i) == IsCode(Token(i)) /\ \A j \in pos .. i - 1 : ~IsCode(Token(j))
  <1>8. First(n)
    BY <1>6, <1>7
  <1>9. NextCode = CHOOSE i \in pos .. b + 1 : First(i)
    BY <1>1 DEF NextCode
  <1> HIDE DEF First
  <1>10. NextCode \in pos .. b + 1 /\ First(NextCode)
    BY <1>6, <1>8, <1>9, Zenon
  <1>11. NextCode \in Nat /\ NextCode >= pos
    BY <1>2, <1>10
  <1> QED
    BY <1>10, <1>11 DEF First

(* A code where the data ends is found there.                              *)
LEMMA CodeIsHere ==
    ASSUME pos \in Nat, IsSeq(stream), IsCode(Token(pos))
    PROVE  NextCode = pos
  <1>1. /\ NextCode \in Nat /\ NextCode >= pos
        /\ \A j \in pos .. NextCode - 1 : ~IsCode(Token(j))
    BY NextCodeIs
  <1>2. NextCode > pos => pos \in pos .. NextCode - 1
    BY <1>1
  <1> QED
    BY <1>1, <1>2

-----------------------------------------------------------------------------
(* How many scans the file has come to.                                    *)

SosBefore(p) == Cardinality({i \in SosIn(stream) : i < p})

LEMMA SosBounds ==
    ASSUME IsSeq(stream), NEW p \in Nat
    PROVE  /\ SosBefore(p) \in Nat /\ SosBefore(p) <= Soses(stream)
           /\ IsFiniteSet({i \in SosIn(stream) : i < p})
  <1>1. IsFiniteSet(SosIn(stream)) /\ Soses(stream) \in Nat
    BY SosesAre
  <1>2. {i \in SosIn(stream) : i < p} \in SUBSET SosIn(stream)
    OBVIOUS
  <1> QED
    BY <1>1, <1>2, FS_Subset, FS_CardinalityType DEF SosBefore, Soses

LEMMA SosGrows ==
    ASSUME IsSeq(stream), NEW p \in Nat, NEW q \in Nat, p <= q
    PROVE  SosBefore(p) <= SosBefore(q)
  <1>1. IsFiniteSet({i \in SosIn(stream) : i < q})
    BY SosBounds
  <1>2. {i \in SosIn(stream) : i < p} \in SUBSET {i \in SosIn(stream) : i < q}
    <2>1. \A i \in SosIn(stream) : i \in Nat
      <3>1. Len(stream) \in Nat
        BY SeqHas
      <3> QED
        BY <3>1 DEF SosIn
    <2> QED
      BY <2>1
  <1> QED
    BY <1>1, <1>2, FS_Subset DEF SosBefore

LEMMA SosStep ==
    ASSUME IsSeq(stream), NEW p \in Nat, NEW q \in Nat,
           NEW i \in SosIn(stream), p <= i, i < q
    PROVE  SosBefore(p) + 1 <= SosBefore(q)
  <1> DEFINE before == {j \in SosIn(stream) : j < p}
             then == {j \in SosIn(stream) : j < q}
  <1>1. IsFiniteSet(before) /\ IsFiniteSet(then) /\ SosBefore(p) \in Nat /\ SosBefore(q) \in Nat
    BY SosBounds
  <1>2. \A j \in SosIn(stream) : j \in Nat
    <2>1. Len(stream) \in Nat
      BY SeqHas
    <2> QED
      BY <2>1 DEF SosIn
  <1>3. i \notin before /\ before \cup {i} \in SUBSET then
    BY <1>2
  <1>4. Cardinality(before) = SosBefore(p) /\ Cardinality(then) = SosBefore(q)
    BY DEF SosBefore
  <1> HIDE DEF before, then
  <1>5. IsFiniteSet(before \cup {i}) /\ Cardinality(before \cup {i}) = Cardinality(before) + 1
    BY <1>1, <1>3, FS_AddElement
  <1>6. Cardinality(before \cup {i}) <= Cardinality(then)
    BY <1>1, <1>3, FS_Subset
  <1> QED
    BY <1>4, <1>5, <1>6

-----------------------------------------------------------------------------
(* The invariant: how far the header has been read, and which scan the     *)
(* file has come to.                                                       *)

Wanted == AtMost(conf.comment, conf.limit)
Bytes(n) == [i \in 1 .. n |-> <<"C", i>>]
AllSaved == IF conf.comment = 0 \/ conf.limit = 0 THEN <<>> ELSE <<Bytes(Wanted)>>

(* Before the comment has been read: behind token p - 1, with that code.   *)
At(p, code) == pos = p /\ marker.unread = code /\ ~marker.open /\ saved = <<>>

(* Some of it has been, and where the next byte is.                        *)
Saving ==
    /\ conf.limit > 0 /\ marker.unread = Code("COM") /\ marker.open /\ saved = <<>>
    /\ marker.length = conf.comment
    /\ \E n \in 0 .. Wanted : marker.read = Bytes(n) /\ pos = 4 + n

Heading ==
    /\ conf.comment > 0 /\ ~control.data
    /\ \/ At(1, None) \/ At(2, Code("SOI")) \/ At(2, None) \/ At(3, Code("COM"))
       \/ Saving

(* After it, or where there is none.                                       *)
Past ==
    /\ conf.comment > 0 => pos > 2
    /\ ~marker.open /\ ~Is("COM") /\ saved = AllSaved

(* Each scan that was begun has its SOS in what was read.                  *)
Pending == IF Is("SOS") THEN 1 ELSE 0
ScansCounted ==
    /\ control.scan \in Nat /\ (control.data => control.scan > 0)
    /\ control.scan + Pending <= SosBefore(pos)

IsMarker(m) ==
    m = [unread |-> m.unread, soi |-> m.soi, sof |-> m.sof, next |-> m.next, open |-> m.open,
         read |-> m.read, length |-> m.length]
IsControl(k) ==
    k = [headers |-> k.headers, eoi |-> k.eoi, many |-> k.many, data |-> k.data, scan |-> k.scan]
IsEntropy(e) ==
    e = [toGo |-> e.toGo, dc |-> e.dc, dry |-> e.dry, ahead |-> e.ahead] /\ Len(e.ahead) \in {0, 1}

Kinds ==
    /\ pos \in Nat \ {0} /\ avail \in Nat
    /\ IsMarker(marker) /\ IsControl(control)
    /\ IsEntropy(entropy)

InputInv == ImageIs /\ FileIs /\ Kinds /\ ScansCounted

(* What the calls have to do with it.                                      *)
Calls ==
    /\ state = "START" => call = "none" /\ saved = <<>>
    /\ state = "INHEADER" => call \in {"none", "header"}
    /\ call = "header" => state = "INHEADER"
    /\ state # "START" => Heading \/ Past
    /\ state \notin {"START", "INHEADER"} => Past /\ control.scan > 0

Inv == InputInv /\ Calls

-----------------------------------------------------------------------------
(* Steps of the input.                                                     *)

LEMMA FileStays == ASSUME ImageIs, FileIs, UNCHANGED fileVars PROVE ImageIs' /\ FileIs'
  <1>1. conf' = conf /\ info' = info /\ stream' = stream
    BY DEF fileVars
  <1>2. ImageIs'
    BY <1>1 DEF ImageIs, IsSeq
  <1>3. FileIs'
    BY <1>1 DEF FileIs, Begins, IsSeq, Soses, SosIn, IsSos, IsCom, Code
  <1> QED
    BY <1>2, <1>3

LEMMA UnreadIs ==
    ASSUME NEW m, IsMarker(m), NEW code
    PROVE  LET n == [m EXCEPT !.unread = code] IN
           IsMarker(n) /\ n.unread = code /\ n.open = m.open /\ n.read = m.read
             /\ n.length = m.length
  BY DEF IsMarker

(* What is read is a code of the file, or an EOI behind it.                *)
LEMMA TokenIs ==
    ASSUME IsSeq(stream), NEW i \in Nat \ {0}, IsCode(Token(i)), Token(i)[2] \in {"COM", "SOS"}
    PROVE  /\ i \in 1 .. Len(stream)
           /\ Token(i)[2] = "COM" => IsCom(stream[i])
           /\ Token(i)[2] = "SOS" => i \in SosIn(stream)
  <1>1. Len(stream) \in Nat
    BY SeqHas
  <1>2. i <= Len(stream)
    <2>1. Code("EOI")[2] = "EOI"
      BY DEF Code
    <2> QED
      BY <2>1, <1>1 DEF Token
  <1>3. i \in 1 .. Len(stream) /\ Token(i) = stream[i]
    BY <1>1, <1>2 DEF Token
  <1> QED
    BY <1>3 DEF IsCode, IsCom, IsSos, SosIn

(* A step that reads on and, if no SOS was waiting, may have found a code. *)
Advances ==
    /\ UNCHANGED fileVars
    /\ pos' \in Nat /\ pos' >= pos /\ control'.scan = control.scan
    /\ \/ marker'.unread = marker.unread
       \/ marker'.unread = None
       \/ /\ Pending = 0
          /\ \E i \in Nat : /\ pos <= i /\ i < pos'
                           /\ marker'.unread = Token(i) /\ IsCode(Token(i))

(* One that is not about the comment.                                      *)
Moves == Advances /\ saved' = saved /\ marker'.open = marker.open

LEMMA AdvancesKeep ==
    ASSUME InputInv, Advances
    PROVE  /\ control'.scan \in Nat /\ control'.scan + Pending' <= SosBefore(pos)'
           /\ Past /\ Moves => Past'
  <1>1. /\ IsSeq(stream) /\ pos \in Nat \ {0} /\ control.scan \in Nat
        /\ control.scan + Pending <= SosBefore(pos)
    BY DEF InputInv, FileIs, Begins, Kinds, ScansCounted
  <1>2. /\ pos' \in Nat /\ pos <= pos' /\ control'.scan = control.scan
        /\ conf' = conf /\ stream' = stream
    BY DEF Advances, fileVars
  <1>3. SosBefore(pos)' = SosBefore(pos')
    BY <1>2 DEF SosBefore, SosIn, IsSos
  <1>4. /\ SosBefore(pos) \in Nat /\ SosBefore(pos') \in Nat
        /\ SosBefore(pos) <= SosBefore(pos')
    BY <1>1, <1>2, SosBounds, SosGrows
  <1>5. Pending \in {0, 1} /\ Pending' \in {0, 1}
    BY DEF Pending
  <1>6. ASSUME Past, Moves, ~Is("COM")'
        PROVE  Past'
    <2>1. (conf.comment > 0 => pos > 2) /\ conf.comment \in Nat
      BY <1>6, ConfIs DEF Past, InputInv, ImageIs
    <2>2. conf.comment > 0 => pos' > 2
      BY <1>1, <1>2, <2>1
    <2>3. AllSaved' = AllSaved
      BY <1>2 DEF AllSaved, Bytes, Wanted, AtMost
    <2> QED
      BY <1>2, <1>6, <2>2, <2>3 DEF Past, Moves
  <1>7. CASE marker'.unread = marker.unread
    <2>1. Is("COM")' = Is("COM") /\ Pending' = Pending
      BY <1>7 DEF Is, Pending, None
    <2> QED
      BY <1>1, <1>2, <1>3, <1>4, <1>5, <1>6, <2>1 DEF Past
  <1>8. CASE marker'.unread = None
    <2>1. ~Is("COM")' /\ Pending' = 0
      BY <1>8 DEF Is, Pending, None
    <2> QED
      BY <1>1, <1>2, <1>3, <1>4, <1>5, <1>6, <2>1
  <1>9. CASE /\ Pending = 0
             /\ \E i \in Nat : /\ pos <= i /\ i < pos'
                              /\ marker'.unread = Token(i) /\ IsCode(Token(i))
    <2>1. PICK i \in Nat : pos <= i /\ i < pos' /\ marker'.unread = Token(i) /\ IsCode(Token(i))
      BY <1>9
    <2>2. i \in Nat \ {0} /\ pos <= i /\ i < pos'
      BY <1>1, <2>1
    <2>3. Past => ~Is("COM")'
      <3> SUFFICES ASSUME Past, Is("COM")'
                   PROVE  FALSE
        OBVIOUS
      <3>1. Token(i)[2] = "COM"
        BY <2>1 DEF Is
      <3>2. i \in 1 .. Len(stream) /\ IsCom(stream[i])
        BY <1>1, <2>1, <2>2, <3>1, TokenIs
      <3>3. conf.comment > 0 /\ i = 2
        BY <3>2 DEF InputInv, FileIs, Begins
      <3> QED
        BY <1>1, <2>2, <3>3 DEF Past
    <2>4. control.scan + Pending' <= SosBefore(pos')
      <3>1. CASE Pending' = 0
        BY <1>1, <1>4, <1>5, <3>1
      <3>2. CASE Pending' = 1
        <4>1. Token(i)[2] = "SOS"
          BY <2>1, <3>2 DEF Is, Pending
        <4>2. i \in SosIn(stream)
          BY <1>1, <2>1, <2>2, <4>1, TokenIs
        <4>3. SosBefore(pos) + 1 <= SosBefore(pos')
          BY <1>1, <1>2, <2>2, <4>2, SosStep
        <4> QED
          BY <1>1, <1>4, <1>9, <3>2, <4>3
      <3> QED
        BY <1>5, <3>1, <3>2
    <2> QED
      BY <1>1, <1>2, <1>3, <1>6, <2>3, <2>4
  <1> QED
    BY <1>7, <1>8, <1>9 DEF Advances

(* What is left to show of a step that advances.                           *)
LEMMA InputAdvances ==
    ASSUME InputInv, Advances, avail' \in Nat, IsMarker(marker)', IsControl(control)',
           control'.data => control.scan > 0, IsEntropy(entropy')
    PROVE  InputInv'
  <1>1. ImageIs' /\ FileIs'
    BY FileStays DEF InputInv, Advances
  <1>2. pos' \in Nat \ {0}
    BY DEF InputInv, Kinds, Advances
  <1>3. Kinds'
    BY <1>2 DEF Kinds, IsEntropy
  <1>4. control'.scan \in Nat /\ control'.scan + Pending' <= SosBefore(pos)'
    BY AdvancesKeep
  <1>5. control'.data => control'.scan > 0
    BY DEF Advances
  <1> QED
    BY <1>1, <1>3, <1>4, <1>5 DEF InputInv, ScansCounted

LEMMA InputMoves ==
    ASSUME InputInv, Moves, avail' \in Nat, IsMarker(marker)', IsControl(control)',
           control'.data => control.scan > 0, IsEntropy(entropy')
    PROVE  InputInv' /\ (Past => Past')
  <1>1. Advances
    BY DEF Moves
  <1> QED
    BY <1>1, InputAdvances, AdvancesKeep

(* The same where nothing is read. *)
LEMMA InputStays ==
    ASSUME InputInv, UNCHANGED inputVars
    PROVE  InputInv' /\ (Past => Past') /\ (Heading => Heading') /\ control' = control
  <1>1. /\ UNCHANGED <<fileVars, saved>> /\ pos' = pos /\ avail' = avail /\ marker' = marker
        /\ control' = control /\ entropy' = entropy
    BY DEF inputVars, markerVars, scanVars, dataVars
  <1>2. pos \in Nat /\ avail \in Nat /\ IsMarker(marker) /\ IsControl(control)
        /\ (control.data => control.scan > 0) /\ IsEntropy(entropy)
    BY DEF InputInv, Kinds, ScansCounted
  <1>3. Moves
    BY <1>1, <1>2 DEF Moves, Advances
  <1>4. IsMarker(marker)' /\ IsControl(control)'
    BY <1>1, <1>2 DEF IsMarker, IsControl
  <1>5. InputInv' /\ (Past => Past')
    BY <1>1, <1>2, <1>3, <1>4, InputMoves
  <1>6. conf' = conf /\ saved' = saved
    BY <1>1 DEF fileVars
  <1>7. Heading => Heading'
    BY <1>1, <1>6 DEF Heading, At, Saving, Wanted, Bytes, AtMost
  <1> QED
    BY <1>1, <1>5, <1>7

(* next_marker.                                                            *)
LEMMA NextMarkerMoves ==
    ASSUME InputInv, NEW event, NextMarker(event), Pending = 0,
           UNCHANGED <<fileVars, avail, saved, control>>
    PROVE  Moves /\ IsMarker(marker)'
  <1>1. IsSeq(stream) /\ pos \in Nat \ {0} /\ avail \in Nat /\ IsMarker(marker)
    BY DEF InputInv, FileIs, Begins, Kinds
  <1>2. NextCode \in Nat /\ NextCode >= pos /\ IsCode(Token(NextCode))
    BY <1>1, NextCodeIs
  <1>3. CASE There(NextCode)
    <2>1. pos' = NextCode + 1 /\ marker' = [marker EXCEPT !.unread = Token(NextCode)]
      BY <1>3 DEF NextMarker
    <2>2. /\ IsMarker(marker') /\ marker'.unread = Token(NextCode)
          /\ marker'.open = marker.open
      BY <1>1, <2>1, UnreadIs
    <2>3. pos' \in Nat /\ pos' >= pos /\ NextCode < pos'
      BY <1>1, <1>2, <2>1
    <2> QED
      BY <1>2, <2>2, <2>3 DEF Moves, Advances, IsMarker
  <1>4. CASE ~There(NextCode)
    <2>1. pos' = Max({avail + 1, pos}) /\ marker' = marker
      BY <1>4 DEF NextMarker
    <2>2. pos' \in Nat /\ pos' >= pos
      <3>1. avail + 1 \in Nat /\ pos \in Nat
        BY <1>1
      <3> QED
        BY <2>1, <3>1, MaxOfTwo
    <2> QED
      BY <1>1, <2>1, <2>2 DEF Moves, Advances, IsMarker
  <1> QED
    BY <1>3, <1>4

(* A step that takes a marker or none and reads on.                        *)
LEMMA Reads ==
    ASSUME InputInv, UNCHANGED <<fileVars, avail, saved, control, entropy>>,
           pos' \in {pos, pos + 1}, IsMarker(marker)', marker'.open = marker.open,
           marker'.unread \in {marker.unread, None}
    PROVE  InputInv' /\ (Past => Past')
  <1>1. pos \in Nat /\ avail \in Nat /\ IsControl(control) /\ IsEntropy(entropy)
        /\ (control.data => control.scan > 0)
    BY DEF InputInv, Kinds, ScansCounted
  <1>2. pos' \in Nat /\ pos' >= pos
    BY <1>1
  <1>3. Moves
    BY <1>2 DEF Moves, Advances
  <1>4. IsControl(control)'
    BY <1>1 DEF IsControl
  <1> QED
    BY <1>1, <1>3, <1>4, InputMoves

-----------------------------------------------------------------------------
(* consume_markers, with the comment behind.                               *)
LEMMA FindsMarker ==
    ASSUME InputInv, NEW event, FindMarker(event)
    PROVE  InputInv' /\ (Past => Past') /\ event # "sos" /\ control' = control
  <1>1. /\ marker.unread = None /\ NextMarker(event)
        /\ UNCHANGED <<fileVars, avail, saved, control, entropy>>
    BY DEF FindMarker, scanVars, dataVars
  <1>2. Pending = 0
    BY <1>1 DEF Pending, Is
  <1>3. Moves /\ IsMarker(marker)'
    BY <1>1, <1>2, NextMarkerMoves
  <1>4. avail \in Nat /\ IsControl(control) /\ IsEntropy(entropy)
        /\ (control.data => control.scan > 0)
    BY DEF InputInv, Kinds, ScansCounted
  <1>5. IsControl(control)' /\ avail' \in Nat /\ IsEntropy(entropy')
        /\ (control'.data => control.scan > 0)
    BY <1>1, <1>4 DEF IsControl
  <1>6. event # "sos"
    BY <1>1 DEF NextMarker
  <1> QED
    BY <1>1, <1>3, <1>5, <1>6, InputMoves

LEMMA ReadsSOS ==
    ASSUME InputInv, NEW event, ReadSOS(event)
    PROVE  InputInv' /\ (Past => Past') /\ control'.scan > 0
  <1>1. /\ Is("SOS") /\ pos' = pos + 1 /\ marker' = [Processed EXCEPT !.next = 0]
        /\ UNCHANGED <<fileVars, avail, saved>>
    BY DEF ReadSOS
  <1>2. \E data, headers, many :
            control' = [control EXCEPT !.scan = control.scan + 1, !.data = data,
                          !.headers = headers, !.many = many]
    BY DEF ReadSOS
  <1>3. entropy' = entropy \/ entropy' = EntropyStart
    BY DEF ReadSOS, dataVars
  <1>4. /\ IsSeq(stream) /\ pos \in Nat \ {0} /\ avail \in Nat /\ IsMarker(marker)
        /\ IsControl(control) /\ IsEntropy(entropy)
        /\ control.scan \in Nat /\ control.scan + Pending <= SosBefore(pos)
    BY DEF InputInv, FileIs, Begins, Kinds, ScansCounted
  <1>5. /\ IsMarker(marker') /\ marker'.unread = None /\ marker'.open = marker.open
    BY <1>1, <1>4 DEF IsMarker, Processed
  <1>6. IsControl(control') /\ control'.scan = control.scan + 1
    BY <1>2, <1>4 DEF IsControl
  <1>7. IsEntropy(entropy')
    <2>1. IsEntropy(EntropyStart)
      BY DEF EntropyStart, IsEntropy
    <2> QED
      BY <1>3, <1>4, <2>1
  <1>8. ImageIs' /\ FileIs'
    BY <1>1, FileStays DEF InputInv
  <1>9. Kinds'
    <2>1. pos' \in Nat \ {0} /\ avail' \in Nat
      BY <1>1, <1>4
    <2> QED
      BY <1>5, <1>6, <1>7, <2>1 DEF Kinds, IsMarker, IsControl, IsEntropy
  <1>10. ScansCounted'
    <2>1. Pending = 1 /\ Pending' = 0
      BY <1>1, <1>5 DEF Pending, Is
    <2>2. SosBefore(pos)' = SosBefore(pos')
      BY <1>1 DEF fileVars, SosBefore, SosIn, IsSos
    <2>3. pos \in Nat /\ pos' \in Nat /\ pos <= pos'
      BY <1>1, <1>4
    <2>4. /\ SosBefore(pos) \in Nat /\ SosBefore(pos') \in Nat
          /\ SosBefore(pos) <= SosBefore(pos')
      BY <1>4, <2>3, SosBounds, SosGrows
    <2>5. control'.scan \in Nat /\ control'.scan > 0 /\ control'.scan + 0 <= SosBefore(pos')
      BY <1>4, <1>6, <2>1, <2>4
    <2> QED
      BY <2>1, <2>2, <2>5 DEF ScansCounted
  <1>11. Past => Past'
    <2>1. ~Is("COM")'
      BY <1>5 DEF Is
    <2>2. conf' = conf /\ saved' = saved
      BY <1>1 DEF fileVars
    <2>3. AllSaved' = AllSaved
      BY <2>2 DEF AllSaved, Bytes, Wanted, AtMost
    <2>4. pos > 2 => pos' > 2
      BY <1>1, <1>4
    <2> QED
      BY <1>5, <2>1, <2>2, <2>3, <2>4 DEF Past
  <1>12. control'.scan > 0
    BY <1>4, <1>6
  <1> QED
    BY <1>8, <1>9, <1>10, <1>11, <1>12 DEF InputInv

LEMMA MarkersStep ==
    ASSUME InputInv, Past, NEW event, ConsumeMarkers(event)
    PROVE  /\ InputInv' /\ Past'
           /\ control'.scan >= control.scan /\ (event = "sos" => control'.scan > 0)
  <1>1. IsMarker(marker) /\ IsControl(control) /\ control.scan \in Nat /\ pos \in Nat
    BY DEF InputInv, Kinds, ScansCounted
  <1>2. ~Is("COM")
    BY DEF Past
  <1>3. CASE FindMarker(event)
    BY <1>1, <1>3, FindsMarker
  <1>4. CASE MarkerSuspends(event)
    <2>1. UNCHANGED inputVars /\ event # "sos"
      BY <1>4 DEF MarkerSuspends
    <2> QED
      BY <1>1, <2>1, InputStays
  <1>5. CASE Parameterless(event) \/ Parameters(event)
    <2>1. /\ UNCHANGED <<fileVars, avail, saved, control, entropy>> /\ event # "sos"
          /\ pos' \in {pos, pos + 1}
      BY <1>5 DEF Parameterless, Parameters, scanVars, dataVars
    <2>2. marker' \in {Processed, [Processed EXCEPT !.soi = TRUE], [Processed EXCEPT !.sof = TRUE]}
      BY <1>5 DEF Parameterless, Parameters
    <2>3. IsMarker(marker') /\ marker'.open = marker.open /\ marker'.unread = None
      BY <1>1, <2>2 DEF IsMarker, Processed
    <2>4. IsMarker(marker)'
      BY <2>3 DEF IsMarker
    <2> QED
      BY <1>1, <2>1, <2>3, <2>4, Reads
  <1>6. CASE ReadSOS(event)
    <2>1. control'.scan = control.scan + 1
      BY <1>1, <1>6 DEF ReadSOS, IsControl
    <2> QED
      BY <1>1, <1>6, <2>1, ReadsSOS
  <1>7. CASE ReadEOI(event)
    <2>1. /\ UNCHANGED <<fileVars, avail, saved, entropy>> /\ pos' = pos /\ event # "sos"
          /\ marker' = Processed /\ control' = [control EXCEPT !.eoi = TRUE]
      BY <1>7 DEF ReadEOI, dataVars
    <2>2. /\ IsMarker(marker') /\ marker'.open = marker.open /\ marker'.unread = None
      BY <1>1, <2>1 DEF IsMarker, Processed
    <2>3. IsControl(control') /\ control'.scan = control.scan /\ control'.data = control.data
      BY <1>1, <2>1 DEF IsControl
    <2>4. Moves
      BY <1>1, <2>1, <2>2, <2>3 DEF Moves, Advances
    <2>5. avail \in Nat /\ (control.data => control.scan > 0) /\ IsEntropy(entropy)
      BY DEF InputInv, Kinds, ScansCounted
    <2>6. IsMarker(marker)' /\ IsControl(control)'
      BY <2>2, <2>3 DEF IsMarker, IsControl
    <2>7. InputInv' /\ Past'
      BY <2>1, <2>3, <2>4, <2>5, <2>6, InputMoves
    <2> QED
      BY <1>1, <2>1, <2>3, <2>7
  <1>8. CASE SkipMarker(event) \/ BeginSaving(event) \/ SaveBytes(event) \/ EndSaving(event)
    BY <1>2, <1>8 DEF SkipMarker, BeginSaving, SaveBytes, EndSaving
  <1> QED
    BY <1>3, <1>4, <1>5, <1>6, <1>7, <1>8 DEF ConsumeMarkers

-----------------------------------------------------------------------------
(* consume_markers, up to the comment and in it.                           *)

(* What the file has there.                                                *)
LEMMA HeadIs ==
    ASSUME FileIs, ImageIs, conf.comment > 0
    PROVE  /\ Token(1) = Code("SOI") /\ Token(2) = Code("COM")
           /\ Token(3) = <<"P", conf.comment>>
           /\ conf.comment \in Nat /\ conf.limit \in Nat
           /\ Len(stream) \in Nat /\ Len(stream) >= 3 + conf.comment
           /\ \A i \in 1 .. conf.comment : stream[3 + i] = <<"C", i>>
  <1>1. conf.comment \in Nat /\ conf.limit \in Nat
    BY ConfIs DEF ImageIs
  <1>2. Len(stream) \in Nat /\ Len(stream) >= 3 + conf.comment
    BY SeqHas DEF FileIs, Begins
  <1>3. 1 <= Len(stream) /\ 2 <= Len(stream) /\ 3 <= Len(stream)
    BY <1>1, <1>2
  <1> QED
    BY <1>1, <1>2, <1>3 DEF FileIs, Begins, Token

(* The next bytes of the comment.  (save_marker.)                          *)
LEMMA NextBytes ==
    ASSUME FileIs, ImageIs, conf.comment > 0, NEW n \in Nat, NEW m \in Nat,
           n + m <= conf.comment
    PROVE  Bytes(n) \o SubSeq(stream, 4 + n, 4 + n + m - 1) = Bytes(n + m)
  <1>1. PICK b, l : b = conf.comment /\ l = Len(stream)
    OBVIOUS
  <1>2. /\ b \in Nat /\ l \in Nat /\ l >= 3 + b /\ IsSeq(stream)
        /\ \A i \in 1 .. b : stream[3 + i] = <<"C", i>>
    BY <1>1, HeadIs DEF FileIs, Begins
  <1>3. PICK sub : sub = SubSeq(stream, 4 + n, 4 + n + m - 1)
    OBVIOUS
  <1>4. /\ IsSeq(sub) /\ Len(sub) = m
        /\ \A i \in 1 .. m : sub[i] = <<"C", n + i>>
    <2>1. PICK X : stream \in Seq(X)
      BY <1>2 DEF IsSeq
    <2>2. PICK p, q : p = 4 + n /\ q = 4 + n + m - 1
      OBVIOUS
    <2>3. /\ p \in 1 .. l + 1 /\ q \in p - 1 .. l /\ q - p + 1 = m
          /\ \A i \in 1 .. m : p + i - 1 = 3 + (n + i) /\ n + i \in 1 .. b
      BY <1>1, <1>2, <2>2
    <2>4. sub \in Seq(X) /\ Len(sub) = m /\ \A i \in 1 .. m : sub[i] = stream[p + i - 1]
      BY <1>1, <1>3, <2>1, <2>2, <2>3, SubSeqProperties
    <2>5. \A i \in 1 .. m : sub[i] = <<"C", n + i>>
      BY <1>2, <2>3, <2>4
    <2> QED
      BY <2>4, <2>5 DEF IsSeq
  <1>5. PICK head : head = Bytes(n)
    OBVIOUS
  <1>6. IsSeq(head) /\ Len(head) = n /\ \A i \in 1 .. n : head[i] = <<"C", i>>
    <2>1. IsList(head, n)
      BY <1>5 DEF IsList, Bytes
    <2>2. IsSeq(head) /\ Len(head) = n
      BY <2>1, ListHas
    <2> QED
      BY <1>5, <2>2 DEF Bytes
  <1>7. PICK v : v = head ++ sub
    OBVIOUS
  <1>8. /\ IsSeq(v) /\ Len(v) = n + m
        /\ \A i \in 1 .. n : v[i] = head[i]
        /\ \A i \in 1 .. m : v[n + i] = sub[i]
    <2>1. IsSeq(head) /\ IsSeq(sub)
      BY <1>4, <1>6
    <2>2. /\ IsSeq(v) /\ Len(v) = Len(head) + Len(sub)
          /\ \A i \in 1 .. Len(head) : v[i] = head[i]
          /\ \A i \in 1 .. Len(sub) : v[Len(head) + i] = sub[i]
      BY <1>7, <2>1, SeqCat
    <2> QED
      BY <1>4, <1>6, <2>2
  <1>9. ASSUME NEW i \in 1 .. n + m
        PROVE  v[i] = <<"C", i>>
    <2>1. CASE i <= n
      BY <1>6, <1>8, <2>1
    <2>2. CASE i > n
      <3>1. i - n \in 1 .. m /\ n + (i - n) = i
        BY <2>2
      <3> QED
        BY <1>4, <1>8, <3>1
    <2> QED
      BY <2>1, <2>2
  <1>10. v = [i \in 1 .. n + m |-> v[i]]
    BY <1>8, SeqHas
  <1>11. v = Bytes(n + m)
    BY <1>9, <1>10 DEF Bytes
  <1> QED
    BY <1>3, <1>5, <1>7, <1>11 DEF ++

(* What a suspending source has of it, if it is not behind already.        *)
LEMMA NoneNegative == ASSUME NEW k \in Int PROVE Max({k, 0}) \in Nat
  <1> DEFINE Largest(x) == \A y \in {k, 0} : x >= y
  <1>1. \E x \in {k, 0} : Largest(x)
    <2>1. CASE k >= 0
      BY <2>1
    <2>2. CASE k < 0
      BY <2>2
    <2> QED
      BY <2>1, <2>2
  <1>2. Max({k, 0}) = CHOOSE x \in {k, 0} : Largest(x)
    BY DEF Max
  <1> HIDE DEF Largest
  <1>3. Max({k, 0}) \in {k, 0} /\ Largest(Max({k, 0}))
    BY <1>1, <1>2, Zenon
  <1> QED
    BY <1>3 DEF Largest

LEMMA HeadingStep ==
    ASSUME InputInv, Heading, NEW event, ConsumeMarkers(event)
    PROVE  InputInv' /\ (Heading' \/ Past') /\ event # "sos" /\ control' = control
  <1>1. /\ IsMarker(marker) /\ IsControl(control) /\ avail \in Nat /\ pos \in Nat \ {0}
        /\ IsEntropy(entropy) /\ IsSeq(stream) /\ (control.data => control.scan > 0)
    BY DEF InputInv, Kinds, FileIs, Begins, ScansCounted
  <1>2. /\ conf.comment > 0 /\ ~control.data /\ saved = <<>>
    BY DEF Heading, At, Saving
  <1>3. /\ Token(1) = Code("SOI") /\ Token(2) = Code("COM") /\ Token(3) = <<"P", conf.comment>>
        /\ conf.comment \in Nat /\ conf.limit \in Nat
    BY <1>2, HeadIs DEF InputInv
  <1>4. Wanted \in Nat /\ Wanted <= conf.comment
    BY <1>3 DEF Wanted, AtMost
  <1>5. CASE At(1, None) \/ At(2, None)
    <2>1. FindMarker(event) /\ pos \in {1, 2} /\ marker.unread = None /\ ~marker.open
      BY <1>5 DEF At, ConsumeMarkers, MarkerSuspends, Parameterless, Parameters, SkipMarker,
                  BeginSaving, SaveBytes, EndSaving, ReadSOS, ReadEOI, Is
    <2>2. InputInv' /\ event # "sos" /\ control' = control
      BY <2>1, FindsMarker
    <2>3. IsCode(Token(pos))
      BY <1>3, <2>1 DEF IsCode, Code
    <2>4. NextCode = pos
      BY <1>1, <2>3, CodeIsHere
    <2>5. NextMarker(event) /\ conf' = conf /\ saved' = saved
      BY <2>1 DEF FindMarker, fileVars
    <2>6. CASE There(NextCode)
      <3>1. pos' = pos + 1 /\ marker' = [marker EXCEPT !.unread = Token(pos)]
        BY <2>4, <2>5, <2>6 DEF NextMarker
      <3>2. marker'.unread = Token(pos) /\ marker'.open = marker.open
        BY <1>1, <3>1 DEF IsMarker
      <3>3. At(2, Code("SOI"))' \/ At(3, Code("COM"))'
        BY <1>2, <1>3, <2>1, <2>5, <3>1, <3>2 DEF At, Code
      <3>4. Heading'
        BY <1>2, <2>2, <2>5, <3>3 DEF Heading, Code
      <3> QED
        BY <2>2, <3>4
    <2>7. CASE ~There(NextCode)
      <3>1. pos' = Max({avail + 1, pos}) /\ marker' = marker /\ ~(pos <= avail)
        BY <2>4, <2>5, <2>7 DEF NextMarker, There
      <3>2. Max({avail + 1, pos}) \in {avail + 1, pos} /\ Max({avail + 1, pos}) >= pos
        <4>1. avail + 1 \in Nat /\ pos \in Nat
          BY <1>1
        <4> QED
          BY <4>1, MaxOfTwo
      <3>3. pos' = pos
        BY <1>1, <3>1, <3>2
      <3>4. At(1, None)' \/ At(2, None)'
        BY <1>5, <2>5, <3>1, <3>3 DEF At, None
      <3>5. Heading'
        BY <1>2, <2>2, <2>5, <3>4 DEF Heading, None
      <3> QED
        BY <2>2, <3>5
    <2> QED
      BY <2>6, <2>7
  <1>6. CASE At(2, Code("SOI"))
    <2>1. marker.unread = Code("SOI") /\ marker.unread # None /\ marker.unread[2] = "SOI"
          /\ pos = 2 /\ ~marker.open
      BY <1>6 DEF At, Code, None
    <2>2. Parameterless(event) /\ Is("SOI") /\ ~Is("RST")
      BY <2>1 DEF ConsumeMarkers, FindMarker, MarkerSuspends, Parameterless, Parameters, SkipMarker,
                  BeginSaving, SaveBytes, EndSaving, ReadSOS, ReadEOI, Is
    <2>3. /\ UNCHANGED <<fileVars, pos, avail, saved, control, entropy>> /\ event = "more"
          /\ marker' = [Processed EXCEPT !.soi = TRUE]
      BY <2>2 DEF Parameterless, scanVars, dataVars
    <2>4. IsMarker(marker') /\ marker'.unread = None /\ marker'.open = marker.open
      BY <1>1, <2>3 DEF IsMarker, Processed
    <2>5. InputInv'
      BY <1>1, <2>3, <2>4, Reads DEF IsMarker
    <2>6. At(2, None)'
      BY <1>2, <2>1, <2>3, <2>4 DEF At, None
    <2>7. Heading'
      BY <1>2, <2>3, <2>6 DEF Heading, fileVars, None
    <2> QED
      BY <2>3, <2>5, <2>7
  <1>7. CASE At(3, Code("COM"))
    <2>1. marker.unread = Code("COM") /\ marker.unread # None /\ marker.unread[2] = "COM"
          /\ pos = 3 /\ ~marker.open
      BY <1>7 DEF At, Code, None
    <2>2. MarkerSuspends(event) \/ SkipMarker(event) \/ BeginSaving(event)
      BY <2>1 DEF ConsumeMarkers, FindMarker, MarkerSuspends, Parameterless, Parameters, SkipMarker,
                  BeginSaving, SaveBytes, EndSaving, ReadSOS, ReadEOI, Is
    <2>3. CASE MarkerSuspends(event)
      <3>1. UNCHANGED inputVars /\ event # "sos"
        BY <2>3 DEF MarkerSuspends
      <3> QED
        BY <3>1, InputStays
    <2>4. CASE SkipMarker(event) \/ BeginSaving(event)
      <3>1. /\ UNCHANGED <<fileVars, avail, saved, control, entropy>> /\ event = "more"
        BY <2>4 DEF SkipMarker, BeginSaving, scanVars, dataVars
      <3>2. Token(pos)[2] = conf.comment
        BY <1>3, <2>1
      <3>3. CASE SkipMarker(event)
        <4>1. conf.limit = 0 /\ pos' = 3 + 1 + conf.comment /\ marker' = Processed
          BY <2>1, <3>2, <3>3 DEF SkipMarker
        <4>2. IsMarker(marker') /\ marker'.unread = None /\ marker'.open = marker.open
          BY <1>1, <4>1 DEF IsMarker, Processed
        <4>3. Advances
          BY <1>3, <2>1, <3>1, <4>1, <4>2 DEF Advances
        <4>4. InputInv'
          BY <1>1, <3>1, <4>2, <4>3, InputAdvances DEF IsMarker, IsControl
        <4>5. Past'
          <5>1. ~Is("COM")' /\ ~marker'.open
            BY <2>1, <4>2 DEF Is
          <5>2. saved' = AllSaved'
            BY <1>2, <3>1, <4>1 DEF AllSaved, fileVars
          <5>3. pos' > 2
            BY <1>3, <4>1
          <5> QED
            BY <5>1, <5>2, <5>3 DEF Past
        <4> QED
          BY <3>1, <4>4, <4>5
      <3>4. CASE BeginSaving(event)
        <4>1. /\ conf.limit > 0 /\ pos' = 4
              /\ marker' = [marker EXCEPT !.open = TRUE, !.read = <<>>, !.length = conf.comment]
          BY <2>1, <3>2, <3>4 DEF BeginSaving
        <4>2. /\ IsMarker(marker') /\ marker'.unread = marker.unread /\ marker'.open
              /\ marker'.read = <<>> /\ marker'.length = conf.comment
          BY <1>1, <4>1 DEF IsMarker
        <4>3. Advances
          BY <2>1, <3>1, <4>1, <4>2 DEF Advances
        <4>4. InputInv'
          BY <1>1, <3>1, <4>2, <4>3, InputAdvances DEF IsMarker, IsControl
        <4>5. Saving'
          <5>1. Bytes(0) = <<>>
            BY DEF Bytes
          <5>2. conf' = conf /\ saved' = <<>>
            BY <1>2, <3>1 DEF fileVars
          <5>3. Wanted' = Wanted /\ Bytes(0)' = Bytes(0) /\ 0 \in 0 .. Wanted
            BY <1>4, <5>2 DEF Wanted, AtMost, Bytes
          <5>4. marker'.read = Bytes(0)' /\ pos' = 4 + 0
            BY <4>1, <4>2, <5>1, <5>3
          <5>5. marker'.unread = Code("COM")'
            BY <2>1, <4>2 DEF Code
          <5> QED
            BY <4>1, <4>2, <5>2, <5>3, <5>4, <5>5 DEF Saving
        <4>6. Heading'
          BY <1>2, <3>1, <4>5 DEF Heading, fileVars
        <4> QED
          BY <3>1, <4>4, <4>6
      <3> QED
        BY <2>4, <3>3, <3>4
    <2> QED
      BY <2>2, <2>3, <2>4
  <1>8. CASE Saving
    <2>1. marker.unread = Code("COM") /\ marker.unread # None /\ marker.unread[2] = "COM"
          /\ marker.open /\ marker.length = conf.comment /\ conf.limit > 0
      BY <1>8 DEF Saving, Code, None
    <2>2. PICK n \in 0 .. Wanted : marker.read = Bytes(n) /\ pos = 4 + n
      BY <1>8 DEF Saving
    <2>3. SaveBytes(event) \/ EndSaving(event)
      <3>1. marker.unread # None /\ \A name : Is(name) => name = "COM"
        BY <2>1 DEF Is
      <3>2. ~FindMarker(event) /\ ~MarkerSuspends(event) /\ ~Parameterless(event)
        BY <2>1, <3>1 DEF FindMarker, MarkerSuspends, Parameterless
      <3>3. ~Parameters(event) /\ ~ReadSOS(event) /\ ~ReadEOI(event)
        BY <3>1 DEF Parameters, ReadSOS, ReadEOI
      <3>4. ~SkipMarker(event) /\ ~BeginSaving(event)
        BY <2>1 DEF SkipMarker, BeginSaving
      <3> QED
        BY <3>2, <3>3, <3>4 DEF ConsumeMarkers
    <2>4. n \in Nat /\ n <= Wanted /\ IsSeq(Bytes(n)) /\ Len(Bytes(n)) = n
      <3>1. n \in Nat /\ n <= Wanted
        BY <1>4, <2>2
      <3>2. IsList(Bytes(n), n)
        BY DEF IsList, Bytes
      <3> QED
        BY <3>1, <3>2, ListHas
    <2>5. DataLength = Wanted /\ ToSave = Wanted - n
      BY <2>1, <2>2, <2>4 DEF DataLength, ToSave, Wanted
    <2>6. CASE SaveBytes(event)
      <3>1. PICK m : m = IF CanSuspend THEN AtMost(ToSave, Max({avail + 1 - pos, 0})) ELSE ToSave
        OBVIOUS
      <3>2. /\ UNCHANGED <<fileVars, avail, saved, control, entropy>> /\ event # "sos"
            /\ pos' = pos + m
            /\ marker' = [marker EXCEPT !.read =
                             marker.read \o SubSeq(stream, pos, pos + m - 1)]
        BY <2>6, <3>1 DEF SaveBytes, scanVars, dataVars
      <3>3. m \in Nat /\ m <= ToSave
        <4>1. Max({avail + 1 - pos, 0}) \in Nat
          <5>1. avail + 1 - pos \in Int
            BY <1>1
          <5> QED
            BY <5>1, NoneNegative
        <4>2. ToSave \in Nat
          BY <1>4, <2>4, <2>5
        <4> QED
          BY <3>1, <4>1, <4>2 DEF AtMost
      <3>4. n + m \in 0 .. Wanted /\ n + m <= conf.comment /\ pos' = 4 + (n + m)
        BY <1>3, <1>4, <2>2, <2>4, <2>5, <3>2, <3>3
      <3>5. marker.read \o SubSeq(stream, pos, pos + m - 1) = Bytes(n + m)
        <4>1. Bytes(n) \o SubSeq(stream, 4 + n, 4 + n + m - 1) = Bytes(n + m)
          BY <1>2, <2>4, <3>3, <3>4, NextBytes DEF InputInv
        <4> QED
          BY <2>2, <4>1
      <3>6. /\ IsMarker(marker') /\ marker'.unread = marker.unread /\ marker'.open
            /\ marker'.read = Bytes(n + m) /\ marker'.length = conf.comment
        BY <1>1, <2>1, <3>2, <3>5 DEF IsMarker
      <3>7. Advances
        BY <1>1, <3>2, <3>3, <3>6 DEF Advances
      <3>8. InputInv'
        BY <1>1, <3>2, <3>6, <3>7, InputAdvances DEF IsMarker, IsControl
      <3>9. Saving'
        <4>1. conf' = conf /\ saved' = <<>>
          BY <1>2, <3>2 DEF fileVars
        <4>2. Wanted' = Wanted /\ Bytes(n + m)' = Bytes(n + m)
          BY <4>1 DEF Wanted, AtMost, Bytes
        <4>3. marker'.unread = Code("COM")'
          BY <2>1, <3>6 DEF Code
        <4>4. \E k \in 0 .. Wanted' : marker'.read = Bytes(k) /\ pos' = 4 + k
          BY <3>4, <3>6, <4>2
        <4> QED
          BY <2>1, <3>6, <4>1, <4>2, <4>3, <4>4 DEF Saving, Bytes
      <3>10. Heading'
        BY <1>2, <3>2, <3>9 DEF Heading, fileVars
      <3> QED
        BY <3>2, <3>8, <3>10
    <2>7. CASE EndSaving(event)
      <3>1. /\ UNCHANGED <<fileVars, avail, control, entropy>> /\ event # "sos" /\ ToSave = 0
            /\ saved' = Append(saved, marker.read)
            /\ pos' = pos + marker.length - DataLength
            /\ marker' = [Processed EXCEPT !.open = FALSE, !.read = <<>>, !.length = 0]
        BY <2>7 DEF EndSaving, scanVars, dataVars
      <3>2. n = Wanted /\ pos' = 4 + Wanted + conf.comment - Wanted /\ pos = 4 + Wanted
        BY <1>4, <2>1, <2>2, <2>4, <2>5, <3>1
      <3>3. pos' \in Nat /\ pos' >= pos /\ pos' > 2
        BY <1>3, <1>4, <3>2
      <3>4. IsMarker(marker') /\ marker'.unread = None /\ ~marker'.open
        BY <1>1, <3>1 DEF IsMarker, Processed
      <3>5. Advances
        BY <3>1, <3>3, <3>4 DEF Advances
      <3>6. InputInv'
        BY <1>1, <3>1, <3>4, <3>5, InputAdvances DEF IsMarker, IsControl
      <3>7. saved' = AllSaved'
        <4>1. saved' = <<Bytes(Wanted)>>
          BY <1>2, <2>2, <3>1, <3>2
        <4>2. AllSaved = <<Bytes(Wanted)>>
          BY <1>2, <2>1, <1>3 DEF AllSaved
        <4>3. AllSaved' = AllSaved
          BY <3>1 DEF fileVars, AllSaved, Bytes, Wanted, AtMost
        <4> QED
          BY <4>1, <4>2, <4>3
      <3>8. Past'
        BY <3>3, <3>4, <3>7 DEF Past, Is
      <3> QED
        BY <3>1, <3>6, <3>8
    <2> QED
      BY <2>3, <2>6, <2>7
  <1> QED
    BY <1>5, <1>6, <1>7, <1>8 DEF Heading

-----------------------------------------------------------------------------
(* consume_data.                                                           *)

LEMMA FindsRestart ==
    ASSUME InputInv, NEW event, FindRestart(event)
    PROVE  InputInv' /\ (Past => Past') /\ event # "sos" /\ control' = control
  <1>1. /\ marker.unread = None \/ SkipsMarker
        /\ NextMarker(event) /\ entropy' = [entropy EXCEPT !.ahead = <<>>]
        /\ UNCHANGED <<fileVars, avail, saved, control>>
    BY DEF FindRestart, scanVars
  <1>2. Pending = 0
    <2>1. SkipsMarker => marker.unread[2] = "RST"
      BY DEF SkipsMarker, Behind, RST
    <2> QED
      BY <1>1, <2>1 DEF Pending, Is
  <1>3. Moves /\ IsMarker(marker)'
    BY <1>1, <1>2, NextMarkerMoves
  <1>4. avail \in Nat /\ IsControl(control) /\ IsEntropy(entropy)
        /\ (control.data => control.scan > 0)
    BY DEF InputInv, Kinds, ScansCounted
  <1>5. IsEntropy(entropy')
    BY <1>1, <1>4 DEF IsEntropy
  <1>6. IsControl(control)' /\ avail' \in Nat /\ (control'.data => control.scan > 0)
    BY <1>1, <1>4 DEF IsControl
  <1>7. event # "sos"
    BY <1>1 DEF NextMarker
  <1> QED
    BY <1>1, <1>3, <1>5, <1>6, <1>7, InputMoves

LEMMA RestartsAre ==
    ASSUME InputInv, NEW event, Restarts(event)
    PROVE  InputInv' /\ (Past => Past') /\ event # "sos" /\ control' = control
  <1>1. /\ event = "more" /\ pos' = pos
        /\ \E code \in {marker.unread, None} : \E next :
               marker' = [marker EXCEPT !.unread = code, !.next = next]
        /\ \E dry : entropy' = [toGo |-> restart, dc |-> NoDCs, ahead |-> <<>>, dry |-> dry]
        /\ UNCHANGED <<fileVars, avail, saved, control>>
    BY DEF Restarts, scanVars
  <1>2. /\ pos \in Nat /\ avail \in Nat /\ IsControl(control) /\ IsMarker(marker)
        /\ (control.data => control.scan > 0)
    BY DEF InputInv, Kinds, ScansCounted
  <1>3. /\ IsMarker(marker') /\ marker'.open = marker.open
        /\ marker'.unread \in {marker.unread, None}
    BY <1>1, <1>2 DEF IsMarker
  <1>4. IsEntropy(entropy')
    BY <1>1 DEF IsEntropy
  <1>5. Moves
    BY <1>1, <1>2, <1>3 DEF Moves, Advances
  <1>6. IsControl(control)' /\ IsMarker(marker)' /\ avail' \in Nat
    BY <1>1, <1>2, <1>3 DEF IsControl, IsMarker
  <1> QED
    BY <1>1, <1>2, <1>4, <1>5, <1>6, InputMoves

(* The scan that is decoded is one of the image's, for its SOS was read.   *)
LEMMA ScanIs ==
    ASSUME InputInv, control.data
    PROVE  control.scan \in DOMAIN conf.scans
  <1>1. /\ control.scan \in Nat /\ control.scan > 0 /\ control.scan + Pending <= SosBefore(pos)
        /\ IsSeq(stream) /\ pos \in Nat /\ Soses(stream) <= Len(conf.scans)
    BY DEF InputInv, ScansCounted, FileIs, Begins, Kinds
  <1>2. SosBefore(pos) \in Nat /\ SosBefore(pos) <= Soses(stream) /\ Soses(stream) \in Nat
    BY <1>1, SosBounds, SosesAre
  <1>3. Len(conf.scans) \in Nat /\ DOMAIN conf.scans = 1 .. Len(conf.scans)
    BY ConfIs DEF InputInv, ImageIs
  <1>4. Pending \in {0, 1}
    BY DEF Pending
  <1> QED
    BY <1>1, <1>2, <1>3, <1>4

(* What was read ahead is not more than an MCU.                            *)
LEMMA NeededIs ==
    ASSUME InputInv, control.data
    PROVE  Needed \in Nat
  <1>1. IsSeq(Places) /\ Len(Places) > 0
    BY ScanIs DEF Places, InputInv, ImageIs
  <1>2. PICK a, b : a = Len(Places) /\ b = Len(entropy.ahead)
    OBVIOUS
  <1>3. a \in Nat /\ a > 0 /\ b \in {0, 1}
    BY <1>1, <1>2, SeqHas DEF InputInv, Kinds, IsEntropy
  <1>4. a - b \in Nat
    BY <1>3
  <1> QED
    BY <1>2, <1>4 DEF Needed

LEMMA Takes ==
    ASSUME InputInv, NEW blocks, NEW n \in Nat, NEW ahead, Len(ahead) \in {0, 1}, NEW code,
           Take(blocks, n, ahead, code), UNCHANGED <<fileVars, avail, saved>>,
           IsControl(control)', control'.scan = control.scan, control'.data => control.scan > 0,
           code = None \/ (/\ marker.unread = None
                           /\ \E i \in Nat : /\ pos <= i /\ i < pos + n
                                             /\ code = Token(i) /\ IsCode(Token(i)))
    PROVE  InputInv' /\ (Past => Past')
  <1>1. /\ pos' = pos + n
        /\ marker' = IF code = None THEN marker ELSE [marker EXCEPT !.unread = code]
        /\ entropy' = [toGo |-> Counted, dc |-> DCsAfter(blocks), dry |-> ~Enough, ahead |-> ahead]
    BY DEF Take
  <1>2. pos \in Nat /\ avail \in Nat /\ IsMarker(marker)
    BY DEF InputInv, Kinds
  <1>3. IsEntropy(entropy')
    BY <1>1 DEF IsEntropy
  <1>4. /\ IsMarker(marker') /\ marker'.open = marker.open
        /\ marker'.unread = IF code = None THEN marker.unread ELSE code
    BY <1>1, <1>2 DEF IsMarker
  <1>5. pos' \in Nat /\ pos' >= pos
    BY <1>1, <1>2
  <1>6. Moves
    <2>1. CASE code = None
      BY <1>4, <1>5, <2>1 DEF Moves, Advances
    <2>2. CASE code # None
      <3>1. marker.unread = None
            /\ \E i \in Nat : pos <= i /\ i < pos' /\ code = Token(i) /\ IsCode(Token(i))
        BY <1>1, <2>2
      <3>2. Pending = 0
        BY <3>1 DEF Pending, Is
      <3> QED
        BY <1>4, <1>5, <2>2, <3>1, <3>2 DEF Moves, Advances
    <2> QED
      BY <2>1, <2>2
  <1>7. IsMarker(marker)' /\ avail' \in Nat
    BY <1>2, <1>4 DEF IsMarker
  <1> QED
    BY <1>3, <1>6, <1>7, InputMoves

LEMMA Decodes ==
    ASSUME InputInv, NEW blocks, NEW event, DecodeMCU(blocks, event)
    PROVE  InputInv' /\ (Past => Past') /\ event # "sos" /\ control'.scan = control.scan
  <1>1. /\ control.data /\ McuDone(event) /\ UNCHANGED <<fileVars, avail, saved>>
    BY DEF DecodeMCU
  <1>2. event # "sos"
    BY <1>1 DEF McuDone, McuEvent
  <1>3. /\ IsControl(control) /\ IsMarker(marker) /\ IsEntropy(entropy) /\ control.scan > 0
        /\ pos \in Nat /\ avail \in Nat /\ IsSeq(stream)
    BY <1>1 DEF InputInv, Kinds, ScansCounted, FileIs, Begins
  <1>4. /\ IsControl(control') /\ control'.scan = control.scan
    BY <1>1, <1>3 DEF McuDone, IsControl
  <1>5. IsControl(control)'
    BY <1>4 DEF IsControl
  <1>6. Needed \in Nat
    BY <1>1, NeededIs
  <1>7. Len(<<>>) \in {0, 1} /\ \A token : Len(<<token>>) \in {0, 1}
    OBVIOUS
  <1>8. CASE entropy.dry
    <2>1. /\ pos' = pos /\ marker' = marker /\ entropy' = [entropy EXCEPT !.toGo = Counted]
      BY <1>8 DEF DecodeMCU
    <2>2. IsEntropy(entropy')
      BY <1>3, <2>1 DEF IsEntropy
    <2>3. Moves
      BY <1>1, <1>3, <1>4, <2>1 DEF Moves, Advances
    <2>4. IsMarker(marker)'
      BY <1>3, <2>1 DEF IsMarker
    <2>5. InputInv' /\ (Past => Past')
      BY <1>1, <1>3, <1>5, <2>2, <2>3, <2>4, InputMoves
    <2> QED
      BY <1>2, <1>4, <2>5
  <1>9. CASE ~entropy.dry
    <2>1. \/ Take(blocks, Needed, <<>>, None)
          \/ /\ marker.unread = None
             /\ LET token == Token(pos + Needed) IN
                IF IsCode(token) THEN Take(blocks, Needed + 1, <<>>, token)
                ELSE Take(blocks, Needed + 1, <<token>>, None)
          \/ Take(blocks, 0, <<>>, None)
          \/ /\ marker.unread = None
             /\ Take(blocks, NextCode + 1 - pos, <<>>, Token(NextCode))
      BY <1>9 DEF DecodeMCU
    <2>2. CASE Take(blocks, Needed, <<>>, None) \/ Take(blocks, 0, <<>>, None)
      <3>1. PICK n \in Nat : Take(blocks, n, <<>>, None)
        BY <1>6, <2>2
      <3>2. InputInv' /\ (Past => Past')
        BY <1>1, <1>3, <1>4, <1>5, <1>7, <3>1, Takes
      <3> QED
        BY <1>2, <1>4, <3>2
    <2>3. CASE /\ marker.unread = None
               /\ LET token == Token(pos + Needed) IN
                  IF IsCode(token) THEN Take(blocks, Needed + 1, <<>>, token)
                  ELSE Take(blocks, Needed + 1, <<token>>, None)
      <3>1. PICK token, n, i : token = Token(i) /\ n = Needed + 1 /\ i = pos + Needed
        OBVIOUS
      <3>2. n \in Nat /\ i \in Nat /\ pos <= i /\ i < pos + n
        BY <1>3, <1>6, <3>1
      <3>3. CASE IsCode(token)
        <4>1. Take(blocks, n, <<>>, token)
          BY <2>3, <3>1, <3>3
        <4>2. InputInv' /\ (Past => Past')
          BY <1>1, <1>3, <1>4, <1>5, <1>7, <2>3, <3>1, <3>2, <3>3, <4>1, Takes
        <4> QED
          BY <1>2, <1>4, <4>2
      <3>4. CASE ~IsCode(token)
        <4>1. Take(blocks, n, <<token>>, None)
          BY <2>3, <3>1, <3>4
        <4>2. InputInv' /\ (Past => Past')
          BY <1>1, <1>3, <1>4, <1>5, <1>7, <3>2, <4>1, Takes
        <4> QED
          BY <1>2, <1>4, <4>2
      <3> QED
        BY <3>3, <3>4
    <2>4. CASE marker.unread = None /\ Take(blocks, NextCode + 1 - pos, <<>>, Token(NextCode))
      <3>1. PICK n, i : n = NextCode + 1 - pos /\ i = NextCode
        OBVIOUS
      <3>2. i \in Nat /\ pos <= i /\ IsCode(Token(i))
        BY <1>3, <3>1, NextCodeIs
      <3>3. n \in Nat /\ i < pos + n
        BY <1>3, <3>1, <3>2
      <3>4. Take(blocks, n, <<>>, Token(i))
        BY <2>4, <3>1
      <3>5. InputInv' /\ (Past => Past')
        BY <1>1, <1>3, <1>4, <1>5, <1>7, <2>4, <3>2, <3>3, <3>4, Takes
      <3> QED
        BY <1>2, <1>4, <3>5
    <2> QED
      BY <2>1, <2>2, <2>3, <2>4
  <1> QED
    BY <1>8, <1>9

(* consume_input: where the call is in the header, and where it is not.    *)
LEMMA ConsumeStep ==
    ASSUME InputInv, Heading \/ Past, NEW event, Consume(event)
    PROVE  /\ InputInv' /\ (Heading' \/ Past') /\ (Past => Past')
           /\ event = "sos" => Past' /\ control'.scan > 0
           /\ control.scan > 0 => control'.scan > 0
  <1>1. control.scan \in Nat
    BY DEF InputInv, ScansCounted
  <1>2. CASE ConsumeMarkers(event) /\ Past
    <2>1. /\ InputInv' /\ Past' /\ control'.scan >= control.scan
          /\ event = "sos" => control'.scan > 0
      BY <1>2, MarkersStep
    <2>2. control'.scan \in Nat
      BY <2>1 DEF InputInv, ScansCounted
    <2> QED
      BY <1>1, <2>1, <2>2
  <1>3. CASE ConsumeMarkers(event) /\ ~Past
    BY <1>3, HeadingStep
  <1>4. CASE ConsumeData(event)
    <2>1. Past
      BY <1>4 DEF ConsumeData, Heading
    <2>2. FindRestart(event) \/ Restarts(event) \/ McuSuspends(event)
          \/ \E blocks : DecodeMCU(blocks, event)
      BY <1>4 DEF ConsumeData
    <2>3. CASE McuSuspends(event)
      <3>1. UNCHANGED inputVars /\ event # "sos"
        BY <2>3 DEF McuSuspends
      <3> QED
        BY <2>1, <3>1, InputStays
    <2> QED
      BY <2>1, <2>2, <2>3, FindsRestart, RestartsAre, Decodes
  <1> QED
    BY <1>2, <1>3, <1>4 DEF Consume

-----------------------------------------------------------------------------
(* The calls.                                                              *)

LEMMA InitInv == Init => Inv
  <1> SUFFICES ASSUME Init
               PROVE  Inv
    OBVIOUS
  <1>1. /\ conf \in Configs /\ info = Measured /\ stream = File /\ pos = 1 /\ avail = 0
        /\ marker = NoMarker /\ saved = <<>> /\ control = NoScan /\ entropy = EntropyStart
        /\ state = "START" /\ call = "none"
    BY DEF Init, InputInit
  <1>2. ImageIs
    BY <1>1, InitImage
  <1>3. FileIs
    BY <1>1, <1>2, InitFile
  <1>4. Kinds
    BY <1>1 DEF Kinds, NoMarker, NoScan, EntropyStart, IsMarker, IsControl, IsEntropy
  <1>5. ScansCounted
    <2>1. control.scan = 0 /\ ~control.data /\ Pending = 0
      BY <1>1 DEF NoScan, NoMarker, Pending, Is
    <2>2. SosBefore(pos) \in Nat
      BY <1>1, <1>3, SosBounds DEF FileIs, Begins
    <2> QED
      BY <2>1, <2>2 DEF ScansCounted
  <1>6. Calls
    BY <1>1 DEF Calls
  <1> QED
    BY <1>2, <1>3, <1>4, <1>5, <1>6 DEF Inv, InputInv

(* jpeg_read_header for a new image: from the start of the file.           *)
LEMMA ResetStep ==
    ASSUME InputInv, saved = <<>>, ResetInput
    PROVE  InputInv' /\ (Heading' \/ Past')
  <1>1. /\ UNCHANGED <<fileVars, saved, entropy>> /\ pos' = 1 /\ avail' = 0
        /\ marker' = NoMarker /\ control' = NoScan
    BY DEF ResetInput, dataVars
  <1>2. ImageIs' /\ FileIs'
    BY <1>1, FileStays DEF InputInv
  <1>3. Kinds'
    <2>1. IsEntropy(entropy)
      BY DEF InputInv, Kinds
    <2>2. IsEntropy(entropy)'
      BY <1>1, <2>1 DEF IsEntropy
    <2> QED
      BY <1>1, <2>2 DEF Kinds, NoMarker, NoScan, IsMarker, IsControl
  <1>4. ScansCounted'
    <2>1. control'.scan = 0 /\ ~control'.data /\ Pending' = 0
      BY <1>1 DEF NoScan, NoMarker, Pending, Is, None
    <2>2. SosBefore(1) \in Nat
      BY SosBounds DEF InputInv, FileIs, Begins
    <2>3. SosBefore(pos)' = SosBefore(1)
      BY <1>1 DEF SosBefore, SosIn, IsSos, fileVars
    <2> QED
      BY <2>1, <2>2, <2>3 DEF ScansCounted
  <1>5. CASE conf.comment > 0
    <2>1. At(1, None)' /\ ~control'.data /\ conf'.comment > 0
      BY <1>1, <1>5 DEF At, NoMarker, NoScan, fileVars, None
    <2>2. Heading'
      BY <2>1 DEF Heading, None
    <2> QED
      BY <1>2, <1>3, <1>4, <2>2 DEF InputInv
  <1>6. CASE ~(conf.comment > 0)
    <2>1. conf.comment = 0
      BY <1>6, ConfIs DEF InputInv, ImageIs
    <2>2. conf'.comment = 0 /\ saved' = <<>> /\ marker' = NoMarker
      BY <1>1, <2>1 DEF fileVars
    <2>3. Past'
      BY <2>2 DEF Past, AllSaved, NoMarker, Is, None
    <2> QED
      BY <1>2, <1>3, <1>4, <2>3 DEF InputInv
  <1> QED
    BY <1>5, <1>6

(* start_input_pass for the first scan.                                    *)
LEMMA FirstPassStep ==
    ASSUME InputInv, control.scan > 0, FirstPass
    PROVE  InputInv' /\ (Past => Past') /\ control'.scan = control.scan
  <1>1. /\ UNCHANGED <<fileVars, pos, avail, marker, saved>> /\ entropy' = EntropyStart
        /\ control' = [control EXCEPT !.data = TRUE]
    BY DEF FirstPass, markerVars
  <1>2. pos \in Nat /\ avail \in Nat /\ IsMarker(marker) /\ IsControl(control)
    BY DEF InputInv, Kinds
  <1>3. IsControl(control') /\ control'.scan = control.scan
    BY <1>1, <1>2 DEF IsControl
  <1>4. IsEntropy(entropy')
    BY <1>1 DEF IsEntropy, EntropyStart
  <1>5. Moves
    BY <1>1, <1>2, <1>3 DEF Moves, Advances
  <1>6. IsMarker(marker)' /\ IsControl(control)' /\ avail' \in Nat
    BY <1>1, <1>2, <1>3 DEF IsMarker, IsControl
  <1> QED
    BY <1>3, <1>4, <1>5, <1>6, InputMoves

(* jpeg_abort: the image is released, and what it had saved.               *)
LEMMA ReleaseStep == ASSUME Inv, Release PROVE Inv'
  <1>1. /\ UNCHANGED <<fileVars, pos, avail, marker, control, entropy>> /\ saved' = <<>>
        /\ state' = "START" /\ call' = "none"
    BY DEF Release, scanVars, dataVars
  <1>2. pos \in Nat /\ avail \in Nat /\ IsMarker(marker) /\ IsControl(control)
        /\ IsEntropy(entropy) /\ (control.data => control.scan > 0)
    BY DEF Inv, InputInv, Kinds, ScansCounted
  <1>3. Advances
    BY <1>1, <1>2 DEF Advances
  <1>4. IsMarker(marker)' /\ IsControl(control)' /\ IsEntropy(entropy')
    BY <1>1, <1>2 DEF IsMarker, IsControl
  <1>5. InputInv'
    BY <1>1, <1>2, <1>3, <1>4, InputAdvances DEF Inv
  <1>6. Calls'
    BY <1>1 DEF Calls
  <1> QED
    BY <1>5, <1>6 DEF Inv

(* The client loads more of the file.                                      *)
LEMMA LoadStep == ASSUME InputInv, NEW n \in Nat, Load(n)
                  PROVE  InputInv' /\ (Past => Past') /\ (Heading => Heading') /\ control' = control
  <1>1. /\ UNCHANGED <<fileVars, pos, marker, saved, control, entropy>>
        /\ avail' = Max({avail + n, pos})
    BY DEF Load, markerVars, scanVars, dataVars
  <1>2. pos \in Nat /\ avail \in Nat /\ IsMarker(marker) /\ IsControl(control)
        /\ IsEntropy(entropy) /\ (control.data => control.scan > 0)
    BY DEF InputInv, Kinds, ScansCounted
  <1>3. avail' \in Nat
    <2>1. avail + n \in Nat /\ pos \in Nat
      BY <1>2
    <2> QED
      BY <1>1, <2>1, MaxOfTwo
  <1>4. Moves
    BY <1>1, <1>2 DEF Moves, Advances
  <1>5. IsMarker(marker)' /\ IsControl(control)' /\ IsEntropy(entropy')
    BY <1>1, <1>2 DEF IsMarker, IsControl
  <1>6. InputInv' /\ (Past => Past')
    BY <1>1, <1>2, <1>3, <1>4, <1>5, InputMoves
  <1>7. Heading => Heading'
    BY <1>1 DEF Heading, At, Saving, Wanted, Bytes, AtMost, None, Code, fileVars
  <1> QED
    BY <1>1, <1>6, <1>7

(* A step of a call after the header.                                      *)
LEMMA LaterStep ==
    ASSUME Inv, InputInv', Past => Past', control.scan > 0 => control'.scan > 0,
           state \notin {"START", "INHEADER"}, state' \notin {"START", "INHEADER"},
           call' # "header"
    PROVE  Inv'
  BY DEF Inv, Calls

(* A step of the output alone, in a call after the header.                 *)
LEMMA OutputStep ==
    ASSUME Inv, UNCHANGED inputVars, state \notin {"START", "INHEADER"},
           state' \notin {"START", "INHEADER"}, call' # "header"
    PROVE  Inv'
  <1>1. InputInv' /\ (Past => Past') /\ control' = control
    BY InputStays DEF Inv
  <1> QED
    BY <1>1, LaterStep

(* jpeg_read_header.                                                       *)
LEMMA HeaderStep == ASSUME Inv, ReadHeader PROVE Inv'
  <1>1. state \in {"START", "INHEADER"} /\ state' = "INHEADER" /\ call' = "header"
    BY DEF ReadHeader
  <1>2. CASE state = "START"
    <2>1. ResetInput /\ saved = <<>>
      BY <1>2 DEF ReadHeader, Inv, Calls
    <2>2. InputInv' /\ (Heading' \/ Past')
      BY <2>1, ResetStep DEF Inv
    <2> QED
      BY <1>1, <2>2 DEF Inv, Calls
  <1>3. CASE state = "INHEADER"
    <2>1. UNCHANGED inputVars
      BY <1>3 DEF ReadHeader
    <2>2. InputInv' /\ (Heading' \/ Past')
      BY <1>3, <2>1, InputStays DEF Inv, Calls
    <2> QED
      BY <1>1, <2>2 DEF Inv, Calls
  <1> QED
    BY <1>1, <1>2, <1>3

(* The loops over consume_input.                                           *)
LEMMA LoopStep == ASSUME Inv, Loop PROVE Inv'
  <1>1. call \in {"header", "consume", "preload", "post", "finish", "fill"}
    BY DEF Loop, LoopsOn
  <1>2. PICK event : /\ Consume(event)
                     /\ state' = IF call = "header" /\ event = "sos" THEN "READY" ELSE state
                     /\ call' \in {"none", call}
                     /\ call = "header" /\ event = "sos" => call' = "none"
    BY DEF Loop
  <1>3. state # "START" /\ (Heading \/ Past)
    BY <1>1 DEF Inv, Calls
  <1>4. /\ InputInv' /\ (Heading' \/ Past') /\ (Past => Past')
        /\ event = "sos" => Past' /\ control'.scan > 0
        /\ control.scan > 0 => control'.scan > 0
    BY <1>2, <1>3, ConsumeStep DEF Inv
  <1>5. CASE call = "header"
    <2>1. state = "INHEADER"
      BY <1>5 DEF Inv, Calls
    <2> QED
      BY <1>2, <1>4, <1>5, <2>1 DEF Inv, Calls
  <1>6. CASE call # "header"
    <2>1. state \notin {"START", "INHEADER"}
      BY <1>1, <1>3, <1>6 DEF Inv, Calls
    <2>2. state' = state /\ call' # "header"
      BY <1>2, <1>6
    <2> QED
      BY <1>4, <2>1, <2>2, LaterStep
  <1> QED
    BY <1>5, <1>6

(* decompress_onepass.                                                     *)
LEMMA OnepassStep == ASSUME Inv, DecompressMCU \/ OnepassWaits PROVE Inv'
  <1>1. call = "fill" /\ state' = state
    BY DEF DecompressMCU, OnepassWaits
  <1>2. state \notin {"START", "INHEADER"}
    BY <1>1 DEF Inv, Calls
  <1>3. call' # "header"
    BY <1>1 DEF DecompressMCU, OnepassWaits, RowDone
  <1>4. (\E event : FindRestart(event) \/ Restarts(event) \/ McuSuspends(event))
        \/ (\E blocks, event : DecodeMCU(blocks, event))
    BY DEF DecompressMCU, OnepassWaits
  <1>5. InputInv
    BY DEF Inv
  <1>6. InputInv' /\ (Past => Past') /\ control'.scan = control.scan
    <2>1. CASE \E event : FindRestart(event)
      BY <1>5, <2>1, FindsRestart
    <2>2. CASE \E event : Restarts(event)
      BY <1>5, <2>2, RestartsAre
    <2>3. CASE \E event : McuSuspends(event)
      <3>1. UNCHANGED inputVars
        BY <2>3 DEF McuSuspends
      <3> QED
        BY <1>5, <3>1, InputStays
    <2>4. CASE \E blocks, event : DecodeMCU(blocks, event)
      BY <1>5, <2>4, Decodes
    <2> QED
      BY <1>4, <2>1, <2>2, <2>3, <2>4
  <1> QED
    BY <1>1, <1>2, <1>3, <1>6, LaterStep

(* jpeg_start_decompress.                                                  *)
LEMMA StartStep == ASSUME Inv, StartDecompress PROVE Inv'
  <1>1. CASE state = "READY" /\ FirstPass
    <2>1. control.scan > 0
      BY <1>1 DEF Inv, Calls
    <2>2. InputInv' /\ (Past => Past') /\ control'.scan = control.scan
      BY <1>1, <2>1, FirstPassStep DEF Inv
    <2>3. state' \in {"BUFIMAGE", "PRELOAD"} /\ call' \in {"none", "preload"}
      BY <1>1 DEF StartDecompress
    <2> QED
      BY <1>1, <2>2, <2>3, LaterStep
  <1>2. CASE state \in {"PRELOAD", "PRESCAN"} /\ UNCHANGED <<inputVars, state>>
    <2>1. call' \in {"preload", "dummy"}
      BY <1>2 DEF StartDecompress
    <2> QED
      BY <1>2, <2>1, OutputStep
  <1> QED
    BY <1>1, <1>2 DEF StartDecompress

(* The other calls, and their loops, after the header.                     *)
LEMMA PassStep ==
    ASSUME Inv,
           \/ Preloaded \/ StartOutput \/ DummyPass \/ ReadScanlines \/ ReadRawData
           \/ FinishOutput \/ FinishDecompress \/ FinishedOutput \/ ConsumeInput
    PROVE  Inv'
  <1>1. UNCHANGED inputVars
    BY DEF Preloaded, StartOutput, DummyPass, ReadScanlines, ReadRawData, FinishOutput,
           FinishDecompress, FinishedOutput, ConsumeInput
  <1>2. /\ state \notin {"START", "INHEADER"}
    <2>1. \/ call \in {"preload", "dummy", "post"}
          \/ state \in {"BUFIMAGE", "SCANNING", "RAW_OK", "BUFPOST", "STOPPING"}
      BY DEF Preloaded, StartOutput, DummyPass, ReadScanlines, ReadRawData, FinishOutput,
             FinishDecompress, FinishedOutput, ConsumeInput
    <2> QED
      BY <2>1 DEF Inv, Calls
  <1>3. /\ \/ state' = state
           \/ state' \in {"PRESCAN", "RAW_OK", "SCANNING", "BUFPOST", "STOPPING", "BUFIMAGE"}
        /\ call' # "header"
    <2>1. CASE Preloaded \/ StartOutput
      BY <2>1 DEF Preloaded, StartOutput, PreparePass
    <2>2. CASE DummyPass
      <3>1. call = "dummy" /\ Reading # "header"
        BY <2>2 DEF DummyPass, Reading
      <3> QED
        BY <2>2, <3>1 DEF DummyPass
    <2>3. CASE ReadScanlines \/ ReadRawData \/ FinishOutput
      BY <2>3 DEF ReadScanlines, ReadRawData, FinishOutput, Reading
    <2>4. CASE FinishDecompress \/ FinishedOutput \/ ConsumeInput
      BY <2>4 DEF FinishDecompress, FinishedOutput, ConsumeInput
    <2> QED
      BY <2>1, <2>2, <2>3, <2>4
  <1> QED
    BY <1>1, <1>2, <1>3, OutputStep

(* Lines from what was decoded.                                            *)
LEMMA LinesStep ==
    ASSUME Inv,
           \/ DecompressData \/ ProcessSimple \/ ProcessPostponed \/ Prepare \/ ProcessContext
           \/ Crank
    PROVE  Inv'
  <1>1. UNCHANGED inputVars /\ state' = state /\ call \in {"fill", "main", "crank"}
    BY DEF DecompressData, ProcessSimple, ProcessPostponed, Prepare, ProcessContext, Crank
  <1>2. state \notin {"START", "INHEADER"}
    BY <1>1 DEF Inv, Calls
  <1>3. call' # "header"
    <2>1. CASE DecompressData
      BY <2>1 DEF DecompressData, RowDone
    <2>2. CASE ProcessSimple
      BY <2>2 DEF ProcessSimple, Returns
    <2>3. CASE ProcessPostponed
      BY <1>1, <2>3 DEF ProcessPostponed, Returns
    <2>4. CASE Prepare
      BY <1>1, <2>4 DEF Prepare
    <2>5. CASE ProcessContext
      BY <2>5 DEF ProcessContext, Returns
    <2>6. CASE Crank
      BY <2>6 DEF Crank, Returns
    <2> QED
      BY <2>1, <2>2, <2>3, <2>4, <2>5, <2>6
  <1> QED
    BY <1>1, <1>2, <1>3, OutputStep

LEMMA LoadMoreStep == ASSUME Inv, LoadMore PROVE Inv'
  <1>1. PICK n \in Loads : Load(n)
    BY DEF LoadMore
  <1>2. n \in Nat
    BY <1>1, LoadsAssumption
  <1>3. /\ InputInv' /\ (Past => Past') /\ (Heading => Heading') /\ control' = control
    BY <1>1, <1>2, LoadStep DEF Inv
  <1>4. saved' = saved /\ state' = state /\ call' = call
    BY <1>1 DEF LoadMore, Load, markerVars
  <1> QED
    BY <1>3, <1>4 DEF Inv, Calls

LEMMA NextInv == ASSUME Inv, [Next]_vars PROVE Inv'
  <1>1. CASE UNCHANGED vars
    <2>1. UNCHANGED inputVars /\ state' = state /\ call' = call
      BY <1>1 DEF vars, outputVars
    <2>2. /\ InputInv' /\ (Past => Past') /\ (Heading => Heading') /\ control' = control
      BY <2>1, InputStays DEF Inv
    <2>3. saved' = saved
      BY <2>1 DEF inputVars, markerVars
    <2> QED
      BY <2>1, <2>2, <2>3 DEF Inv, Calls
  <1>2. CASE Finished \/ Abort
    BY <1>2, ReleaseStep DEF Finished, Abort
  <1> QED
    BY <1>1, <1>2, HeaderStep, StartStep, PassStep, LinesStep, LoopStep, OnepassStep,
       LoadMoreStep DEF Next, Step

-----------------------------------------------------------------------------
(* The invariant holds in every reachable state.                           *)
THEOREM Invariance == Spec => []Inv
  BY InitInv, NextInv, PTL DEF Spec

(* When a header was read the comment is there, whole or up to the         *)
(* client's limit: for a comment and a limit of any length, whatever       *)
(* pieces the source gives, and whatever else is in the file.              *)
(* (save_marker.)                                                          *)
THEOREM CommentIsSaved == Spec => []SavedIsWhole
  <1>1. Inv => SavedIsWhole
    BY DEF Inv, Calls, Past, AllSaved, Bytes, Wanted, SavedIsWhole
  <1> QED
    BY <1>1, Invariance, PTL

(* However a file is damaged, what is decoded is a scan the image has, and *)
(* the data read ahead of it is not more than its next MCU.                *)
(* (consume_markers, start_input_pass, jpeg_fill_bit_buffer.)              *)
THEOREM ScanIsOfImage ==
    Spec => [](control.data => control.scan \in DOMAIN conf.scans /\ Needed \in Nat)
  <1>1. Inv => (control.data => control.scan \in DOMAIN conf.scans /\ Needed \in Nat)
    BY ScanIs, NeededIs DEF Inv
  <1> QED
    BY <1>1, Invariance, PTL
=============================================================================
