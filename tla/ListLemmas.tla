---------------------------- MODULE ListLemmas ----------------------------
(***************************************************************************)
(* Facts about sequences and natural numbers that the proofs of several     *)
(* modules rest on: kernel stacks and the List class are both sequences.    *)
(***************************************************************************)
EXTENDS Integers, SequencesExt, SequenceTheorems, WellFoundedInduction, TLAPS

-----------------------------------------------------------------------------
(* Sequences. *)

\* What Front and Last are of a non-empty stack.
LEMMA FrontLast ==
  ASSUME NEW S, NEW s \in Seq(S), s # <<>>
  PROVE  /\ Len(s) \in Nat \ {0}
         /\ Front(s) \in Seq(S)
         /\ Len(Front(s)) = Len(s) - 1
         /\ \A i \in 1..(Len(s) - 1) : Front(s)[i] = s[i]
         /\ Last(s) \in S
         /\ Last(s) = s[Len(s)]
<1>1. Len(s) \in Nat \ {0}
  BY EmptySeq
<1>2. \A i \in 1..(Len(s) - 1) : s[i] \in S
  BY ElementOfSeq, <1>1
<1>3. /\ SubSeq(s, 1, Len(s) - 1) \in Seq(S)
      /\ Len(SubSeq(s, 1, Len(s) - 1)) = Len(s) - 1
      /\ \A i \in 1..(Len(s) - 1) : SubSeq(s, 1, Len(s) - 1)[i] = s[i]
  <2> DEFINE n == Len(s) - 1
  <2>1. n \in Int /\ 1 \in Int /\ \A i \in 1..n : s[i] \in S
    BY <1>1, <1>2
  <2> HIDE DEF n
  <2>2. /\ SubSeq(s, 1, n) \in Seq(S)
        /\ Len(SubSeq(s, 1, n)) = IF 1 <= n THEN n - 1 + 1 ELSE 0
        /\ \A i \in 1..(n - 1 + 1) : SubSeq(s, 1, n)[i] = s[1 + i - 1]
    BY <2>1, SubSeqProperties
  <2>3. n \in Nat
    BY <1>1 DEF n
  <2>4. /\ Len(SubSeq(s, 1, n)) = n
        /\ \A i \in 1..n : SubSeq(s, 1, n)[i] = s[i]
    BY <2>2, <2>3
  <2> QED
    BY <2>2, <2>4 DEF n
<1> QED
  BY <1>1, <1>3, ElementOfSeq DEF Front, Last

\* Replacing the last element.
LEMMA ReplaceLast ==
  ASSUME NEW S, NEW s \in Seq(S), s # <<>>, NEW f \in S
  PROVE  /\ Append(Front(s), f) \in Seq(S)
         /\ Len(Append(Front(s), f)) = Len(s)
         /\ \A i \in 1..(Len(s) - 1) : Append(Front(s), f)[i] = s[i]
         /\ Append(Front(s), f)[Len(s)] = f
BY FrontLast, AppendProperties

\* Sequences of one and of two elements.
LEMMA Tuples ==
  ASSUME NEW S, NEW f \in S, NEW g \in S
  PROVE  /\ <<f, g>> \in Seq(S) /\ Len(<<f, g>>) = 2
         /\ <<f, g>>[1] = f /\ <<f, g>>[2] = g
         /\ <<f>> \in Seq(S) /\ Len(<<f>>) = 1 /\ <<f>>[1] = f
OBVIOUS

\* Adding one or two elements.
LEMMA PushOne ==
  ASSUME NEW S, NEW s \in Seq(S), NEW f \in S
  PROVE  /\ s \o <<f>> \in Seq(S)
         /\ Len(s \o <<f>>) = Len(s) + 1
         /\ \A i \in 1..Len(s) : (s \o <<f>>)[i] = s[i]
         /\ (s \o <<f>>)[Len(s) + 1] = f
BY LenProperties, ConcatProperties, Tuples

\* Two elements appended one after the other.
LEMMA PushTwo ==
  ASSUME NEW S, NEW s \in Seq(S), NEW f \in S, NEW g \in S
  PROVE  /\ s \o <<f, g>> \in Seq(S)
         /\ Len(s \o <<f, g>>) = Len(s) + 2
         /\ \A i \in 1..Len(s) : (s \o <<f, g>>)[i] = s[i]
         /\ (s \o <<f, g>>)[Len(s) + 1] = f
         /\ (s \o <<f, g>>)[Len(s) + 2] = g
BY LenProperties, ConcatProperties, Tuples

\* Replacing the last element by two.
LEMMA ReplaceLastByTwo ==
  ASSUME NEW S, NEW s \in Seq(S), s # <<>>, NEW f \in S, NEW g \in S
  PROVE  /\ Front(s) \o <<f, g>> \in Seq(S)
         /\ Len(Front(s) \o <<f, g>>) = Len(s) + 1
         /\ \A i \in 1..(Len(s) - 1) : (Front(s) \o <<f, g>>)[i] = s[i]
         /\ (Front(s) \o <<f, g>>)[Len(s)] = f
         /\ (Front(s) \o <<f, g>>)[Len(s) + 1] = g
<1>1. /\ Front(s) \in Seq(S) /\ Len(Front(s)) = Len(s) - 1 /\ Len(s) \in Nat \ {0}
      /\ \A i \in 1..(Len(s) - 1) : Front(s)[i] = s[i]
  BY FrontLast
<1>2. /\ Front(s) \o <<f, g>> \in Seq(S)
      /\ Len(Front(s) \o <<f, g>>) = Len(Front(s)) + 2
      /\ \A i \in 1..Len(Front(s)) : (Front(s) \o <<f, g>>)[i] = Front(s)[i]
      /\ (Front(s) \o <<f, g>>)[Len(Front(s)) + 1] = f
      /\ (Front(s) \o <<f, g>>)[Len(Front(s)) + 2] = g
  BY <1>1, PushTwo
<1> QED
  BY <1>1, <1>2

\* Every non-empty set of natural numbers has a least element.
LEMMA LeastElement ==
  ASSUME NEW T, T \subseteq Nat, T # {}
  PROVE  \E x \in T : \A y \in T : x <= y
<1>1. \E x \in T : \A y \in T : ~(<<y, x>> \in OpToRel(<, Nat))
  BY NatLessThanWellFounded, WFMin
<1>2. PICK x \in T : \A y \in T : ~(<<y, x>> \in OpToRel(<, Nat))
  BY <1>1
<1>3. \A y \in T : <<y, x>> \in OpToRel(<, Nat) <=> y < x
  BY <1>2 DEF OpToRel
<1>4. \A y \in T : ~(y < x)
  BY <1>2, <1>3, Zenon
<1>5. \A y \in T : x <= y
  BY <1>4
<1> QED
  BY <1>5

\* RemoveAt, at a position of the sequence.
LEMMA RemoveAtType ==
  ASSUME NEW S, NEW s \in Seq(S), NEW k \in 1..Len(s)
  PROVE  /\ RemoveAt(s, k) \in Seq(S)
         /\ Len(RemoveAt(s, k)) = Len(s) - 1
         /\ \A i \in 1..(k - 1) : RemoveAt(s, k)[i] = s[i]
         /\ \A i \in k..(Len(s) - 1) : RemoveAt(s, k)[i] = s[i + 1]
<1> DEFINE m == k - 1
           p == k + 1
           n == Len(s)
<1>1. /\ m \in Nat /\ p \in Nat /\ n \in Nat /\ m < n /\ p <= n + 1 /\ p = m + 2 /\ k = m + 1
      /\ \A i \in 1..n : s[i] \in S
  BY LenProperties, ElementOfSeq
<1> HIDE DEF m, p, n
<1>2. /\ SubSeq(s, 1, m) \in Seq(S)
      /\ Len(SubSeq(s, 1, m)) = IF 1 <= m THEN m - 1 + 1 ELSE 0
      /\ \A i \in 1..(m - 1 + 1) : SubSeq(s, 1, m)[i] = s[1 + i - 1]
  BY <1>1, SubSeqProperties
<1>3. /\ SubSeq(s, p, n) \in Seq(S)
      /\ Len(SubSeq(s, p, n)) = IF p <= n THEN n - p + 1 ELSE 0
      /\ \A i \in 1..(n - p + 1) : SubSeq(s, p, n)[i] = s[p + i - 1]
  BY <1>1, SubSeqProperties
<1>4. /\ Len(SubSeq(s, 1, m)) = m
      /\ \A i \in 1..m : SubSeq(s, 1, m)[i] = s[i]
  BY <1>1, <1>2
<1>5. /\ Len(SubSeq(s, p, n)) = n - m - 1
      /\ \A i \in 1..(n - m - 1) : SubSeq(s, p, n)[i] = s[m + 1 + i]
  BY <1>1, <1>3
<1> DEFINE u == SubSeq(s, 1, m)
           v == SubSeq(s, p, n)
           r == u \o v
<1>6. /\ u \in Seq(S) /\ Len(u) = m /\ \A i \in 1..m : u[i] = s[i]
      /\ v \in Seq(S) /\ Len(v) = n - m - 1
      /\ \A i \in 1..(n - m - 1) : v[i] = s[m + 1 + i]
  BY <1>2, <1>3, <1>4, <1>5
<1> HIDE DEF u, v
<1>7. /\ r \in Seq(S)
      /\ Len(r) = Len(u) + Len(v)
      /\ \A i \in 1..(Len(u) + Len(v)) :
           r[i] = IF i <= Len(u) THEN u[i] ELSE v[i - Len(u)]
  BY <1>6, ConcatProperties
<1> HIDE DEF r
<1>8. Len(r) = n - 1
  BY <1>1, <1>6, <1>7
<1>9. \A i \in 1..m : r[i] = s[i]
  BY <1>1, <1>6, <1>7
<1>10. ASSUME NEW i \in k..(n - 1) PROVE r[i] = s[i + 1]
  <2>1. i \in 1..(Len(u) + Len(v)) /\ ~(i <= Len(u)) /\ i - m \in 1..(n - m - 1)
    BY <1>1, <1>6
  <2>2. r[i] = v[i - m]
    BY <2>1, <1>6, <1>7
  <2>3. v[i - m] = s[m + 1 + (i - m)]
    BY <2>1, <1>6
  <2>4. m + 1 + (i - m) = i + 1
    BY <1>1
  <2> QED
    BY <2>2, <2>3, <2>4
<1>11. RemoveAt(s, k) = r
  BY DEF RemoveAt, r, u, v, m, p, n
<1> QED
  BY <1>7, <1>8, <1>9, <1>10, <1>11 DEF m, n

\* RemoveFirst, the model of List::remove, removes one element if it is there.
LEMMA RemoveFirstType ==
  ASSUME NEW S, NEW s \in Seq(S), NEW e
  PROVE  /\ RemoveFirst(s, e) \in Seq(S)
         /\ ~Contains(s, e) => RemoveFirst(s, e) = s
         /\ Contains(s, e) => \E k \in 1..Len(s) :
              /\ s[k] = e
              /\ RemoveFirst(s, e) = RemoveAt(s, k)
<1>1. CASE ~Contains(s, e)
  BY <1>1 DEF RemoveFirst, Contains
<1>2. CASE Contains(s, e)
  <2> DEFINE I == {i \in 1..Len(s) : s[i] = e}
  <2>1. I \subseteq Nat /\ I # {}
    BY <1>2, LenProperties DEF Contains
  <2>2. PICK k \in I : \A y \in I : k <= y
    BY <2>1, LeastElement
  <2>3. Min(I) \in I
    BY <2>2 DEF Min
  <2>4. SelectInSeq(s, LAMBDA v : v = e) = Min(I)
    BY <2>1 DEF SelectInSeq
  <2>5. RemoveFirst(s, e) = RemoveAt(s, Min(I))
    BY <1>2, <2>4 DEF RemoveFirst, Contains
  <2>6. RemoveAt(s, Min(I)) \in Seq(S)
    BY <2>3, RemoveAtType
  <2> QED
    BY <1>2, <2>3, <2>5, <2>6
<1> QED
  BY <1>1, <1>2

-----------------------------------------------------------------------------
(* Lists without repetitions, as sets. *)

Distinct(s) == \A i, j \in 1..Len(s) : s[i] = s[j] => i = j

\* The elements of a list.
LEMMA Elements ==
  ASSUME NEW S, NEW s \in Seq(S)
  PROVE  /\ ToSet(s) \subseteq S
         /\ \A e : e \in ToSet(s) <=> Contains(s, e)
         /\ s = <<>> <=> ToSet(s) = {}
<1>1. Len(s) \in Nat /\ DOMAIN s = 1..Len(s) /\ \A i \in 1..Len(s) : s[i] \in S
  BY LenProperties, ElementOfSeq
<1>2. s # <<>> => 1 \in 1..Len(s)
  BY <1>1, EmptySeq
<1>3. s = <<>> => 1..Len(s) = {}
  BY <1>1
<1> QED
  BY <1>1, <1>2, <1>3 DEF ToSet, Contains

\* Appending a new element, the model of List::append.
LEMMA AppendDistinct ==
  ASSUME NEW S, NEW s \in Seq(S), NEW e \in S, Distinct(s), ~Contains(s, e)
  PROVE  /\ Append(s, e) \in Seq(S)
         /\ Distinct(Append(s, e))
         /\ ToSet(Append(s, e)) = ToSet(s) \cup {e}
<1> DEFINE r == Append(s, e)
<1>1. /\ r \in Seq(S) /\ Len(s) \in Nat /\ Len(r) = Len(s) + 1
      /\ \A i \in 1..Len(s) : r[i] = s[i]
      /\ r[Len(s) + 1] = e
      /\ DOMAIN r = 1..Len(r) /\ DOMAIN s = 1..Len(s)
  BY AppendProperties, LenProperties
<1>2. \A i \in 1..Len(s) : s[i] # e
  BY DEF Contains
<1> HIDE DEF r
<1>3. Distinct(r)
  BY <1>1, <1>2 DEF Distinct
<1>4. ToSet(r) = ToSet(s) \cup {e}
  BY <1>1 DEF ToSet
<1> QED
  BY <1>1, <1>3, <1>4 DEF r

\* Removing an element, the model of List::remove.
LEMMA RemoveDistinct ==
  ASSUME NEW S, NEW s \in Seq(S), NEW e, Distinct(s), Contains(s, e)
  PROVE  /\ RemoveFirst(s, e) \in Seq(S)
         /\ Distinct(RemoveFirst(s, e))
         /\ ToSet(RemoveFirst(s, e)) = ToSet(s) \ {e}
<1>1. PICK k \in 1..Len(s) : s[k] = e /\ RemoveFirst(s, e) = RemoveAt(s, k)
  BY RemoveFirstType
<1> DEFINE r == RemoveFirst(s, e)
           n == Len(s)
<1>2. /\ r \in Seq(S) /\ Len(r) = n - 1
      /\ \A i \in 1..(k - 1) : r[i] = s[i]
      /\ \A i \in k..(n - 1) : r[i] = s[i + 1]
  BY <1>1, RemoveAtType
<1>3. /\ n \in Nat /\ DOMAIN s = 1..n /\ DOMAIN r = 1..Len(r)
      /\ \A i, j \in 1..n : s[i] = s[j] => i = j
  BY <1>2, LenProperties DEF Distinct
<1> HIDE DEF r, n
<1>4. \A i \in 1..(n - 1) : r[i] = s[IF i < k THEN i ELSE i + 1]
  BY <1>2, <1>3
<1>5. k \in 1..n
  BY <1>1 DEF n
<1>6. \A i, j \in 1..Len(r) : r[i] = r[j] => i = j
  <2> SUFFICES ASSUME NEW i \in 1..(n - 1), NEW j \in 1..(n - 1), r[i] = r[j] PROVE i = j
    BY <1>2
  <2> DEFINE i2 == IF i < k THEN i ELSE i + 1
             j2 == IF j < k THEN j ELSE j + 1
  <2>1. i2 \in 1..n /\ j2 \in 1..n /\ s[i2] = s[j2]
    BY <1>3, <1>4, <1>5
  <2>2. i2 = j2
    BY <2>1, <1>3
  <2> QED
    BY <2>2, <1>5
<1>7. ASSUME NEW x \in ToSet(r) PROVE x \in ToSet(s) \ {e}
  <2>1. PICK i \in 1..(n - 1) : x = r[i]
    BY <1>2, <1>3 DEF ToSet
  <2> DEFINE i2 == IF i < k THEN i ELSE i + 1
  <2>2. i2 \in 1..n /\ i2 # k /\ x = s[i2]
    BY <2>1, <1>3, <1>4, <1>5
  <2> QED
    BY <2>2, <1>1, <1>3, <1>5 DEF ToSet
<1>8. ASSUME NEW x \in ToSet(s) \ {e} PROVE x \in ToSet(r)
  <2>1. PICK i \in 1..n : x = s[i]
    BY <1>3 DEF ToSet
  <2>2. i # k
    BY <1>1, <2>1
  <2> DEFINE i2 == IF i < k THEN i ELSE i - 1
  <2>3. i2 \in 1..(n - 1) /\ (IF i2 < k THEN i2 ELSE i2 + 1) = i
    BY <1>3, <1>5, <2>2
  <2>4. x = r[i2]
    BY <1>4, <2>1, <2>3
  <2> QED
    BY <1>2, <1>3, <2>3, <2>4 DEF ToSet
<1> QED
  BY <1>2, <1>6, <1>7, <1>8 DEF r, Distinct

=============================================================================
