---------------------------- MODULE CommonLemmas -----------------------------
(***************************************************************************)
(* What the proofs of several components rest on.                          *)
(*                                                                         *)
(* First numbers and sequences: least and greatest elements, what is left  *)
(* of a sequence without one of its elements or with one more, how long a  *)
(* sequence without repetitions is, what a traversal of linked nodes finds *)
(* and what Among keeps of a sequence.                                     *)
(*                                                                         *)
(* Then what down(), up() and a cancelled wait do to a semaphore, for any  *)
(* set P of processes.  Units counts the units of a semaphore that exist,  *)
(* in the count or in the hands of a process of T: the quantity on which   *)
(* the proofs about the drivers rest.                                      *)
(***************************************************************************)
EXTENDS Semaphore, Selection, LinkedList, FiniteSetTheorems, SequenceTheorems,
        WellFoundedInduction, TLAPS

(* A non-empty set of naturals has a least element. *)
LEMMA LeastNatural ==
    ASSUME NEW S \in SUBSET Nat, S # {}
    PROVE  \E m \in S : \A k \in S : m <= k
<1> DEFINE R == OpToRel(<, Nat)
<1>1. \A x, y \in Nat : x < y => <<x, y>> \in R
  BY DEF OpToRel
<1>2. PICK m \in S : \A k \in S : ~ (<<k, m>> \in R)
  <2>1. IsWellFoundedOn(R, Nat)
    BY NatLessThanWellFounded
  <2> HIDE DEF R
  <2> QED BY <2>1, WFMin
<1>3. ASSUME NEW k \in S PROVE m <= k
  <2>1. m \in Nat /\ k \in Nat
    OBVIOUS
  <2>2. ~ (k < m)
    <3> HIDE DEF R
    <3> QED BY <1>1, <1>2, <2>1
  <2> QED BY <2>1, <2>2
<1> QED BY <1>3

(* A non-empty set of positions has a last one. *)
LEMMA GreatestPosition ==
    ASSUME NEW n \in Nat, NEW S \in SUBSET (1..n), S # {}
    PROVE  \E m \in S : \A k \in S : k <= m
<1> DEFINE D == {d \in Nat : n - d \in S}
<1>1. D # {}
  <2>1. PICK s \in S : TRUE
    OBVIOUS
  <2>2. n - s \in Nat /\ n - (n - s) = s
    BY <2>1
  <2> QED BY <2>2
<1>2. PICK d \in D : \A e \in D : d <= e
  BY <1>1, LeastNatural
<1>3. \A k \in S : k <= n - d
  <2> TAKE k \in S
  <2>1. n - k \in Nat /\ n - (n - k) = k
    OBVIOUS
  <2> QED BY <1>2, <2>1
<1> QED BY <1>2, <1>3

(* A function on 1..n is a sequence of length n. *)
LEMMA IsSequence ==
    ASSUME NEW S, NEW n \in Nat, NEW f \in [1..n -> S]
    PROVE  f \in Seq(S) /\ Len(f) = n
<1>1. f \in Seq(S)
  BY SeqDef
<1>2. Len(f) \in Nat /\ 1..Len(f) = 1..n
  BY <1>1, LenProperties
<1>3. Len(f) = n
  BY <1>2
<1> QED BY <1>1, <1>3

(* The remainder of a division is the only one there can be. *)
LEMMA RemainderIs ==
    ASSUME NEW m \in Nat \ {0}, NEW q \in Int, NEW r \in 0..(m - 1),
           NEW a \in Int, a = m * q + r
    PROVE  a % m = r
  OBVIOUS

(* A whole turn of a counter leads back to the same value. *)
LEMMA WholeTurn ==
    ASSUME NEW m \in Nat \ {0}, NEW a \in Int
    PROVE  (a + m) % m = a % m
<1> DEFINE q == a \div m
           r == a % m
<1>1. q \in Int /\ r \in 0..(m - 1) /\ a = m * q + r
  OBVIOUS
<1> HIDE DEF q, r
<1>2. m * (q + 1) = m * q + m
  BY <1>1
<1>3. a + m = m * (q + 1) + r /\ q + 1 \in Int /\ a + m \in Int
  BY <1>1, <1>2
<1>4. (a + m) % m = r
  BY <1>1, <1>3, RemainderIs
<1> QED BY <1>4 DEF r

(* One more or one less on a counter that wraps. *)
LEMMA CounterWraps ==
    ASSUME NEW m \in Nat \ {0}, NEW a \in Int
    PROVE  /\ ((a % m) + 1) % m = (a + 1) % m
           /\ ((a % m) + m - 1) % m = (a - 1) % m
<1> DEFINE q == a \div m
           r == a % m
<1>1. q \in Int /\ r \in 0..(m - 1) /\ a = m * q + r
  OBVIOUS
<1> HIDE DEF q, r
<1>2. m * (q + 1) = m * q + m /\ m * (q - 1) = m * q - m
  BY <1>1
<1>3. (r + 1) % m = (a + 1) % m
  <2>1. CASE r + 1 < m
    <3>1. r + 1 \in 0..(m - 1) /\ a + 1 = m * q + (r + 1) /\ r + 1 = m * 0 + (r + 1)
      BY <2>1, <1>1
    <3> QED BY <3>1, <1>1, RemainderIs
  <2>2. CASE r + 1 = m
    <3>1. 0 \in 0..(m - 1) /\ a + 1 = m * (q + 1) + 0 /\ r + 1 = m * 1 + 0
      BY <2>2, <1>1, <1>2
    <3> QED BY <3>1, <1>1, RemainderIs
  <2> QED BY <2>1, <2>2, <1>1
<1>4. (r + m - 1) % m = (a - 1) % m
  <2>1. CASE r > 0
    <3>1. r - 1 \in 0..(m - 1) /\ a - 1 = m * q + (r - 1)
          /\ r + m - 1 = m * 1 + (r - 1)
      BY <2>1, <1>1
    <3> QED BY <3>1, <1>1, RemainderIs
  <2>2. CASE r = 0
    <3>1. m - 1 \in 0..(m - 1) /\ a - 1 = m * (q - 1) + (m - 1)
          /\ r + m - 1 = m * 0 + (m - 1)
      BY <2>2, <1>1, <1>2
    <3> QED BY <3>1, <1>1, RemainderIs
  <2> QED BY <2>1, <2>2, <1>1
<1> QED BY <1>3, <1>4 DEF r

\* The elements of a sequence; that it has no repetitions; that r is q without
\* its k-th element.
Elements(q) == {q[i] : i \in 1..Len(q)}
Distinct(q) == \A i, j \in 1..Len(q) : q[i] = q[j] => i = j
Skips(r, q, k) ==
    /\ Len(r) = Len(q) - 1
    /\ \A i \in 1..Len(r) : r[i] = IF i < k THEN q[i] ELSE q[i + 1]

(* The two ends of a sequence around its k-th element, put together. *)
LEMMA AroundPosition ==
    ASSUME NEW P, NEW q \in Seq(P), NEW k \in 1..Len(q)
    PROVE  LET r == SubSeq(q, 1, k - 1) \o SubSeq(q, k + 1, Len(q))
           IN  r \in Seq(P) /\ Skips(r, q, k)
<1>1. Len(q) \in Nat
  OBVIOUS
<1> DEFINE a == SubSeq(q, 1, k - 1)
           b == SubSeq(q, k + 1, Len(q))
<1>2. /\ a \in Seq(P) /\ Len(a) = k - 1
      /\ \A i \in 1..(k - 1) : a[i] = q[i]
  BY <1>1
<1>3. /\ b \in Seq(P) /\ Len(b) = Len(q) - k
      /\ \A i \in 1..(Len(q) - k) : b[i] = q[i + k]
  BY <1>1
<1> SUFFICES a \o b \in Seq(P) /\ Skips(a \o b, q, k)
  OBVIOUS
<1> HIDE DEF a, b
<1>4. /\ a \o b \in Seq(P) /\ Len(a \o b) = Len(a) + Len(b)
      /\ \A i \in 1..(Len(a) + Len(b)) :
            (a \o b)[i] = IF i <= Len(a) THEN a[i] ELSE b[i - Len(a)]
  BY <1>2, <1>3, ConcatProperties
<1>5. ASSUME NEW i \in 1..(Len(q) - 1)
      PROVE  (a \o b)[i] = IF i < k THEN q[i] ELSE q[i + 1]
  <2>1. CASE i < k
    BY <2>1, <1>1, <1>2, <1>3, <1>4
  <2>2. CASE ~(i < k)
    <3>1. i - (k - 1) \in 1..(Len(q) - k) /\ i - (k - 1) + k = i + 1
      BY <2>2, <1>1
    <3>2. (a \o b)[i] = b[i - (k - 1)]
      BY <2>2, <1>1, <1>2, <1>3, <1>4
    <3> QED BY <2>2, <3>1, <3>2, <1>3
  <2> QED BY <2>1, <2>2
<1>6. Len(a \o b) = Len(q) - 1
  BY <1>1, <1>2, <1>3, <1>4
<1> QED BY <1>4, <1>5, <1>6 DEF Skips

(* A sequence without its k-th element has the others, and has each of them
   once if the sequence had no repetitions. *)
LEMMA TakenOut ==
    ASSUME NEW P, NEW q \in Seq(P), NEW k \in 1..Len(q),
           Distinct(q), NEW r \in Seq(P), Skips(r, q, k)
    PROVE  Distinct(r) /\ Elements(r) = Elements(q) \ {q[k]}
<1> USE DEF Distinct, Elements, Skips
<1>1. Len(q) \in Nat
  OBVIOUS
<1>2. \A i, j \in 1..Len(r) : r[i] = r[j] => i = j
  <2> SUFFICES ASSUME NEW i \in 1..Len(r), NEW j \in 1..Len(r), r[i] = r[j]
               PROVE  i = j
    OBVIOUS
  <2> DEFINE s(x) == IF x < k THEN x ELSE x + 1
  <2>1. s(i) \in 1..Len(q) /\ s(j) \in 1..Len(q)
    BY <1>1
  <2>2. q[s(i)] = q[s(j)]
    OBVIOUS
  <2>3. s(i) = s(j)
    BY <2>1, <2>2
  <2> QED BY <2>3, <1>1
<1>3. {r[i] : i \in 1..Len(r)} = {q[i] : i \in 1..Len(q)} \ {q[k]}
  <2>1. ASSUME NEW x \in {r[i] : i \in 1..Len(r)}
        PROVE  x \in {q[i] : i \in 1..Len(q)} \ {q[k]}
    <3>1. PICK i \in 1..Len(r) : x = r[i]
      OBVIOUS
    <3>2. PICK j \in 1..Len(q) : j # k /\ x = q[j]
      BY <3>1, <1>1
    <3>3. q[j] # q[k]
      BY <3>2
    <3> QED BY <3>2, <3>3
  <2>2. ASSUME NEW x \in {q[i] : i \in 1..Len(q)} \ {q[k]}
        PROVE  x \in {r[i] : i \in 1..Len(r)}
    <3>1. PICK j \in 1..Len(q) : x = q[j] /\ j # k
      OBVIOUS
    <3>2. PICK i \in 1..Len(r) : x = r[i]
      <4>1. CASE j < k
        BY <4>1, <3>1, <1>1
      <4>2. CASE j > k
        <5>1. j - 1 \in 1..Len(r) /\ ~(j - 1 < k)
          BY <4>2, <3>1, <1>1
        <5>2. r[j - 1] = q[j]
          BY <5>1, <1>1
        <5> QED BY <5>1, <5>2, <3>1
      <4> QED BY <4>1, <4>2, <3>1, <1>1
    <3> QED BY <3>2
  <2> QED BY <2>1, <2>2
<1> QED BY <1>2, <1>3

(* A new element put first leaves a sequence without repetitions. *)
LEMMA PutFirst ==
    ASSUME NEW P, NEW q \in Seq(P), Distinct(q), NEW n \in P \ Elements(q)
    PROVE  LET r == <<n>> \o q
           IN  /\ r \in Seq(P) /\ Len(r) = Len(q) + 1
               /\ Distinct(r) /\ Elements(r) = Elements(q) \cup {n}
<1> DEFINE r == <<n>> \o q
<1> SUFFICES /\ r \in Seq(P) /\ Len(r) = Len(q) + 1
             /\ Distinct(r) /\ Elements(r) = Elements(q) \cup {n}
  OBVIOUS
<1>1. Len(q) \in Nat /\ \A i \in 1..Len(q) : q[i] # n
  BY DEF Elements
<1>2. /\ r \in Seq(P) /\ Len(r) = Len(q) + 1 /\ r[1] = n
      /\ \A i \in 1..Len(q) : r[i + 1] = q[i]
  <2>1. /\ <<n>> \in Seq(P) /\ Len(<<n>>) = 1 /\ <<n>>[1] = n
    OBVIOUS
  <2>2. /\ r \in Seq(P) /\ Len(r) = 1 + Len(q)
        /\ \A i \in 1..(1 + Len(q)) :
              r[i] = IF i <= 1 THEN <<n>>[i] ELSE q[i - 1]
    BY <2>1, ConcatProperties
  <2>3. ASSUME NEW i \in 1..Len(q)
        PROVE  r[i + 1] = q[i]
    <3>1. i + 1 \in 1..(1 + Len(q)) /\ ~(i + 1 <= 1) /\ (i + 1) - 1 = i
      BY <1>1
    <3> HIDE DEF r
    <3> QED BY <2>2, <3>1
  <2>4. r[1] = n
    <3>1. 1 \in 1..(1 + Len(q))
      BY <1>1
    <3> HIDE DEF r
    <3> QED BY <2>1, <2>2, <3>1
  <2> QED BY <1>1, <2>2, <2>3, <2>4
<1> HIDE DEF r
<1>3. \A i \in 1..Len(r) : IF i = 1 THEN r[i] = n
                                    ELSE i - 1 \in 1..Len(q) /\ r[i] = q[i - 1]
  <2> SUFFICES ASSUME NEW i \in 1..Len(r), i # 1
               PROVE  i - 1 \in 1..Len(q) /\ r[i] = q[i - 1]
    BY <1>2
  <2>1. i - 1 \in 1..Len(q) /\ (i - 1) + 1 = i
    BY <1>1, <1>2
  <2> QED BY <1>2, <2>1
<1>4. Distinct(r)
  <2> SUFFICES ASSUME NEW i \in 1..Len(r), NEW j \in 1..Len(r), r[i] = r[j]
               PROVE  i = j
    BY DEF Distinct
  <2>1. CASE i = 1 \/ j = 1
    BY <2>1, <1>1, <1>3
  <2>2. CASE i # 1 /\ j # 1
    <3>1. i - 1 = j - 1
      BY <2>2, <1>3 DEF Distinct
    <3> QED BY <3>1, <1>1, <1>2
  <2> QED BY <2>1, <2>2
<1>5. Elements(r) \subseteq Elements(q) \cup {n}
  BY <1>3 DEF Elements
<1>6. Elements(q) \cup {n} \subseteq Elements(r)
  <2>1. 1 \in 1..Len(r) /\ \A i \in 1..Len(q) : i + 1 \in 1..Len(r)
    BY <1>1, <1>2
  <2>2. n \in Elements(r)
    BY <1>2, <2>1 DEF Elements
  <2>3. ASSUME NEW i \in 1..Len(q)
        PROVE  q[i] \in Elements(r)
    <3>1. i + 1 \in 1..Len(r) /\ r[i + 1] = q[i]
      BY <1>2, <2>1
    <3> QED BY <3>1 DEF Elements
  <2> QED BY <2>2, <2>3 DEF Elements
<1> QED BY <1>2, <1>4, <1>5, <1>6

(* A sequence without repetitions is as long as the set of its elements. *)
LEMMA LengthIsNumber ==
    ASSUME NEW P, NEW q \in Seq(P), Distinct(q)
    PROVE  IsFiniteSet(Elements(q)) /\ Cardinality(Elements(q)) = Len(q)
<1>1. Len(q) \in Nat
  OBVIOUS
<1>2. IsFiniteSet(1..Len(q)) /\ Cardinality(1..Len(q)) = Len(q)
  BY <1>1, FS_Interval
<1> DEFINE f == [i \in 1..Len(q) |-> q[i]]
<1>3. f \in [1..Len(q) -> Elements(q)]
  BY DEF Elements
<1>4. f \in Surjection(1..Len(q), Elements(q))
  BY <1>3 DEF Elements, Surjection
<1>5. f \in Injection(1..Len(q), Elements(q))
  BY <1>3 DEF Distinct, Injection, IsInjective
<1> QED BY <1>2, <1>4, <1>5, FS_Surjection
-----------------------------------------------------------------------------
(* What is linked                                                          *)

\* The k-th node of the list s from its head; the head itself before and after.
Around(s, head, k) == IF k \in 1..Len(s) THEN s[k] ELSE head

\* From the head and back to it, the links go through the list s.
Follows(links, head, s) ==
    \A k \in 0..Len(s) : links[Around(s, head, k)] = Around(s, head, k + 1)

(* The places of a list, 1 to n, are n. *)
LEMMA PlacesCounted ==
    ASSUME NEW n \in Nat
    PROVE  IsFiniteSet(1..n) /\ Cardinality(1..n) = n
<1>1. 1 \in Int /\ n \in Int /\ (IF 1 > n THEN 0 ELSE n - 1 + 1) = n
  OBVIOUS
<1>2. IsFiniteSet(1..n) /\ Cardinality(1..n) = IF 1 > n THEN 0 ELSE n - 1 + 1
  BY <1>1, FS_Interval, Zenon
<1> QED BY <1>1, <1>2

\* What the recursive function of Walk satisfies.
WalkIn(links, head, S, f) ==
    f = [k \in 0..(Cardinality(S) + 1) |->
            IF k = 0 THEN head
            ELSE IF k = 1 \/ f[k - 1] \in S THEN links[f[k - 1]]
            ELSE f[k - 1]]

(* The recursive function that follows the links finds the nodes of s. *)
LEMMA WalkFinds ==
    ASSUME NEW S, IsFiniteSet(S), NEW head, head \notin S, NEW links,
           NEW s \in Seq(S), Follows(links, head, s)
    PROVE  Walk(links, head, S)
             = [k \in 0..(Cardinality(S) + 1) |-> Around(s, head, k)]
<1> DEFINE D == 0..(Cardinality(S) + 1)
           h == [k \in D |-> Around(s, head, k)]
           nth == CHOOSE f : WalkIn(links, head, S, f)
<1>0. Cardinality(S) \in Nat /\ Len(s) \in Nat
  BY FS_CardinalityType
<1>1. \A k \in D : h[k] = IF k = 0 THEN head
                          ELSE IF k = 1 \/ h[k - 1] \in S THEN links[h[k - 1]]
                          ELSE h[k - 1]
  <2> SUFFICES ASSUME NEW k \in D
               PROVE  h[k] = IF k = 0 THEN head
                             ELSE IF k = 1 \/ h[k - 1] \in S THEN links[h[k - 1]]
                             ELSE h[k - 1]
    OBVIOUS
  <2>1. k # 0 => k - 1 \in D /\ h[k - 1] = Around(s, head, k - 1)
    BY <1>0
  <2>2. CASE k = 0
    BY <2>2 DEF Around
  <2>3. CASE k \in 1..(Len(s) + 1)
    <3>1. links[Around(s, head, k - 1)] = Around(s, head, k)
      BY <2>3, <1>0 DEF Follows
    <3>2. k # 1 => Around(s, head, k - 1) \in S
      BY <2>3, <1>0 DEF Around
    <3> QED BY <2>1, <2>3, <3>1, <3>2
  <2>4. CASE k > Len(s) + 1
    <3>1. Around(s, head, k - 1) = head /\ Around(s, head, k) = head /\ k # 1
      BY <2>4, <1>0 DEF Around
    <3> QED BY <2>1, <2>4, <3>1
  <2> QED BY <1>0, <2>2, <2>3, <2>4
<1>2. h = [k \in D |-> IF k = 0 THEN head
                       ELSE IF k = 1 \/ h[k - 1] \in S THEN links[h[k - 1]]
                       ELSE h[k - 1]]
  BY <1>1
<1> HIDE DEF h
<1>3. WalkIn(links, head, S, h)
  BY <1>2 DEF WalkIn
<1>4. WalkIn(links, head, S, nth)
  BY <1>3
<1>5. Walk(links, head, S) = nth
  BY DEF Walk, WalkIn
<1> HIDE DEF nth
<1>6. DOMAIN nth = D /\ DOMAIN h = D
  BY <1>2, <1>4 DEF WalkIn
<1>7. \A k \in D : nth[k] = IF k = 0 THEN head
                            ELSE IF k = 1 \/ nth[k - 1] \in S THEN links[nth[k - 1]]
                            ELSE nth[k - 1]
  BY <1>4 DEF WalkIn
<1> DEFINE Wrong == {k \in D : nth[k] # h[k]}
<1>8. Wrong = {}
  <2> SUFFICES ASSUME Wrong # {}
               PROVE  FALSE
    OBVIOUS
  <2>1. Wrong \subseteq Nat
    BY <1>0
  <2>2. PICK m \in Wrong : \A k \in Wrong : m <= k
    BY <2>1, LeastNatural
  <2>3. m \in D /\ nth[m] # h[m]
    OBVIOUS
  <2>4. m # 0
    BY <2>3, <1>1, <1>7
  <2>5. m - 1 \in D /\ ~ (m <= m - 1)
    BY <2>3, <2>4, <1>0
  <2>6. m - 1 \notin Wrong
    BY <2>2, <2>5
  <2>7. nth[m - 1] = h[m - 1]
    BY <2>5, <2>6
  <2> QED BY <2>3, <2>7, <1>1, <1>7
<1>9. \A k \in D : nth[k] = h[k]
  BY <1>8
<1>10. nth = [k \in D |-> nth[k]]
  BY <1>4 DEF WalkIn
<1>11. h = [k \in D |-> h[k]]
  BY DEF h
<1>12. nth = h
  BY <1>9, <1>10, <1>11
<1> QED BY <1>5, <1>12 DEF h

(* The list as a traversal finds it is the one that is linked. *)
LEMMA NodesAre ==
    ASSUME NEW S, IsFiniteSet(S), NEW head, head \notin S, NEW links,
           NEW s \in Seq(S), Distinct(s), Follows(links, head, s)
    PROVE  /\ Nodes(links, head, S) = s
           /\ Len(s) + 1 \in 1..(Cardinality(S) + 1)
<1> DEFINE nth == Walk(links, head, S)
           n == Cardinality({k \in DOMAIN nth : nth[k] \in S})
<1>0. Cardinality(S) \in Nat /\ Len(s) \in Nat
  BY FS_CardinalityType
<1>1. Len(s) <= Cardinality(S)
  <2>1. Elements(s) \subseteq S
    BY DEF Elements
  <2>2. Cardinality(Elements(s)) = Len(s)
    BY LengthIsNumber
  <2> QED BY <2>1, <2>2, FS_Subset
<1>2. nth = [k \in 0..(Cardinality(S) + 1) |-> Around(s, head, k)]
  BY WalkFinds
<1>3. Nodes(links, head, S) = [k \in 1..n |-> nth[k]]
  BY DEF Nodes
<1> HIDE DEF nth
<1>4. {k \in DOMAIN nth : nth[k] \in S} = 1..Len(s)
  <2>1. \A k \in 0..(Cardinality(S) + 1) : nth[k] \in S <=> k \in 1..Len(s)
    BY <1>0, <1>2 DEF Around
  <2>2. 1..Len(s) \subseteq 0..(Cardinality(S) + 1)
    BY <1>0, <1>1
  <2> QED BY <2>1, <2>2, <1>2
<1>5. n = Len(s)
  BY <1>0, <1>4, PlacesCounted
<1> HIDE DEF n
<1>6. \A k \in 1..Len(s) : nth[k] = s[k]
  BY <1>0, <1>1, <1>2 DEF Around
<1>7. s = [k \in 1..Len(s) |-> s[k]]
  OBVIOUS
<1> QED BY <1>0, <1>1, <1>3, <1>5, <1>6, <1>7
-----------------------------------------------------------------------------
(* What is kept of a sequence                                              *)

(* An element put last in the last of two parts is put last in the whole. *)
LEMMA LastOfLast ==
    ASSUME NEW S, NEW s \in Seq(S), NEW t \in Seq(S), NEW c \in S
    PROVE  s \o Append(t, c) = Append(s \o t, c)
<1>1. s \o t \in Seq(S) /\ <<c>> \in Seq(S)
  BY ConcatProperties
<1>2. Append(t, c) = t \o <<c>> /\ Append(s \o t, c) = (s \o t) \o <<c>>
  BY <1>1, AppendIsConcat
<1> QED BY <1>1, <1>2, ConcatAssociative

(* What holds of 0 and is passed on holds up to n. *)
LEMMA UpTo ==
    ASSUME NEW n \in Nat, NEW T, 0 \in T, \A k \in 0..(n - 1) : k \in T => k + 1 \in T
    PROVE  0..n \subseteq T
<1> SUFFICES ASSUME (0..n) \ T # {}
             PROVE  FALSE
  OBVIOUS
<1>1. (0..n) \ T \in SUBSET Nat
  OBVIOUS
<1>2. PICK m \in (0..n) \ T : \A k \in (0..n) \ T : m <= k
  BY <1>1, LeastNatural
<1>3. m # 0
  OBVIOUS
<1>4. m - 1 \in 0..(n - 1) /\ m - 1 \in 0..n /\ ~(m <= m - 1) /\ (m - 1) + 1 = m
  BY <1>3
<1> QED BY <1>2, <1>4

\* One element after those that were kept, and the function that Among defines.
Keep(kept, c, T) == IF c \in T THEN Append(kept, c) ELSE kept
KeptIn(s, T, f) ==
    f = [n \in 0..Len(s) |->
            IF n = 0 THEN <<>>
            ELSE IF s[n] \in T THEN Append(f[n - 1], s[n]) ELSE f[n - 1]]

(* The recursion of Among has a solution. *)
LEMMA KeptExists ==
    ASSUME NEW S, NEW s \in Seq(S), NEW T
    PROVE  \E f : KeptIn(s, T, f)
<1>0. Len(s) \in Nat
  BY LenProperties
<1> DEFINE I == {n \in Nat : \E f : /\ f = [k \in 0..n |-> f[k]]
                                    /\ f[0] = <<>>
                                    /\ \A k \in 1..n : f[k] = Keep(f[k - 1], s[k], T)}
<1>1. 0 \in I
  <2> DEFINE f == [k \in 0..0 |-> <<>>]
  <2>1. f = [k \in 0..0 |-> f[k]] /\ f[0] = <<>> /\ 1..0 = {}
    OBVIOUS
  <2> QED BY <2>1
<1>2. ASSUME NEW n \in 0..(Len(s) - 1), n \in I
      PROVE  n + 1 \in I
  <2>0. n \in Nat
    BY <1>0
  <2>1. PICK f : /\ f = [k \in 0..n |-> f[k]]
                 /\ f[0] = <<>>
                 /\ \A k \in 1..n : f[k] = Keep(f[k - 1], s[k], T)
    BY <1>2
  <2> DEFINE g == [k \in 0..(n + 1) |->
                      IF k <= n THEN f[k] ELSE Keep(f[n], s[n + 1], T)]
  <2>2. /\ g = [k \in 0..(n + 1) |-> g[k]]
        /\ \A k \in 0..n : g[k] = f[k]
        /\ g[n + 1] = Keep(f[n], s[n + 1], T)
    BY <2>0
  <2> HIDE DEF g
  <2>3. g[0] = <<>>
    BY <2>0, <2>1, <2>2
  <2>4. ASSUME NEW k \in 1..(n + 1)
        PROVE  g[k] = Keep(g[k - 1], s[k], T)
    <3>1. CASE k <= n
      <4>1. k \in 1..n /\ k - 1 \in 0..n /\ k \in 0..n
        BY <2>0, <3>1
      <4> QED BY <2>1, <2>2, <4>1
    <3>2. CASE k = n + 1
      <4>1. k - 1 = n /\ n \in 0..n
        BY <2>0, <3>2
      <4> QED BY <2>2, <3>2, <4>1
    <3> QED BY <2>0, <3>1, <3>2
  <2>5. \E h : /\ h = [k \in 0..(n + 1) |-> h[k]]
               /\ h[0] = <<>>
               /\ \A k \in 1..(n + 1) : h[k] = Keep(h[k - 1], s[k], T)
    BY <2>2, <2>3, <2>4
  <2>6. n + 1 \in Nat
    BY <2>0
  <2> QED BY <2>5, <2>6
<1>3. Len(s) \in I
  <2> HIDE DEF I
  <2>1. 0..Len(s) \subseteq I
    BY <1>0, <1>1, <1>2, UpTo
  <2> QED BY <1>0, <2>1
<1>4. PICK f : /\ f = [k \in 0..Len(s) |-> f[k]]
               /\ f[0] = <<>>
               /\ \A k \in 1..Len(s) : f[k] = Keep(f[k - 1], s[k], T)
  BY <1>3
<1>5. \A n \in 0..Len(s) : f[n] =
          IF n = 0 THEN <<>>
          ELSE IF s[n] \in T THEN Append(f[n - 1], s[n]) ELSE f[n - 1]
  <2> SUFFICES ASSUME NEW n \in 0..Len(s), n # 0
               PROVE  f[n] = Keep(f[n - 1], s[n], T)
    BY <1>4 DEF Keep
  <2>1. n \in 1..Len(s)
    BY <1>0
  <2> QED BY <1>4, <2>1
<1>6. KeptIn(s, T, f)
  BY <1>4, <1>5 DEF KeptIn
<1> QED BY <1>6

\* The function that Among uses.
Kept(s, T) == CHOOSE f : KeptIn(s, T, f)

(* Among takes the elements one by one, from the first on. *)
LEMMA KeptIs ==
    ASSUME NEW S, NEW s \in Seq(S), NEW T
    PROVE  /\ Among(s, T) = Kept(s, T)[Len(s)]
           /\ Kept(s, T)[0] = <<>>
           /\ \A k \in 1..Len(s) :
                 Kept(s, T)[k] = Keep(Kept(s, T)[k - 1], s[k], T)
<1>1. Among(s, T) = Kept(s, T)[Len(s)]
  BY DEF Among, Kept, KeptIn
<1>2. KeptIn(s, T, Kept(s, T))
  BY KeptExists DEF Kept
<1>3. Len(s) \in Nat
  BY LenProperties
<1> DEFINE f == Kept(s, T)
<1>4. f = [n \in 0..Len(s) |->
            IF n = 0 THEN <<>>
            ELSE IF s[n] \in T THEN Append(f[n - 1], s[n]) ELSE f[n - 1]]
  BY <1>2 DEF KeptIn
<1> HIDE DEF f
<1>5. f[0] = <<>> /\ \A k \in 1..Len(s) : f[k] = Keep(f[k - 1], s[k], T)
  <2>1. \A n \in 0..Len(s) : f[n] =
            IF n = 0 THEN <<>>
            ELSE IF s[n] \in T THEN Append(f[n - 1], s[n]) ELSE f[n - 1]
    BY <1>4
  <2>2. 0 \in 0..Len(s) /\ \A k \in 1..Len(s) : k \in 0..Len(s) /\ k # 0
    BY <1>3
  <2> QED BY <2>1, <2>2 DEF Keep
<1> QED BY <1>1, <1>5 DEF f

(* What is kept are elements of the sequence, and no more than there were. *)
LEMMA AmongType ==
    ASSUME NEW S, NEW s \in Seq(S), NEW T
    PROVE  Among(s, T) \in Seq(S) /\ Len(Among(s, T)) <= Len(s)
<1> DEFINE f == Kept(s, T)
           I == {n \in Nat : f[n] \in Seq(S) /\ Len(f[n]) <= n}
<1>1. Len(s) \in Nat /\ \A k \in 1..Len(s) : s[k] \in S
  BY LenProperties, ElementOfSeq
<1>2. /\ Among(s, T) = f[Len(s)] /\ f[0] = <<>>
      /\ \A k \in 1..Len(s) : f[k] = Keep(f[k - 1], s[k], T)
  BY KeptIs
<1> HIDE DEF f
<1>3. 0 \in I
  <2>1. <<>> \in Seq(S) /\ Len(<<>>) = 0
    BY EmptySeq
  <2>2. f[0] \in Seq(S) /\ Len(f[0]) <= 0
    BY <1>2, <2>1
  <2> QED BY <2>2
<1>4. ASSUME NEW k \in 0..(Len(s) - 1), k \in I
      PROVE  k + 1 \in I
  <2>1. k + 1 \in 1..Len(s) /\ (k + 1) - 1 = k /\ k + 1 \in Nat
    BY <1>1
  <2>2. f[k + 1] = Keep(f[k], s[k + 1], T)
    BY <1>2, <2>1
  <2>3. /\ Keep(f[k], s[k + 1], T) \in Seq(S)
        /\ Len(Keep(f[k], s[k + 1], T)) <= k + 1
    <3>1. /\ f[k] \in Seq(S) /\ Len(f[k]) <= k /\ Len(f[k]) \in Nat /\ k \in Nat
          /\ s[k + 1] \in S
      BY <1>1, <1>4, <2>1, LenProperties
    <3> QED BY <3>1, AppendProperties DEF Keep
  <2> QED BY <2>1, <2>2, <2>3
<1>5. 0..Len(s) \subseteq I
  <2> HIDE DEF I
  <2> QED BY <1>1, <1>3, <1>4, UpTo
<1>6. Len(s) \in I
  BY <1>1, <1>5
<1> QED BY <1>2, <1>6

(* Nothing is kept of nothing. *)
LEMMA AmongEmpty ==
    ASSUME NEW T
    PROVE  Among(<<>>, T) = <<>>
<1>1. <<>> \in Seq(Nat) /\ Len(<<>>) = 0
  BY EmptySeq
<1> QED BY <1>1, KeptIs

(* An element put last is kept last, or not. *)
LEMMA AmongAppend ==
    ASSUME NEW S, NEW s \in Seq(S), NEW c \in S, NEW T
    PROVE  Among(Append(s, c), T) = Keep(Among(s, T), c, T)
<1> DEFINE longer == Append(s, c)
           f == Kept(s, T)
           g == Kept(longer, T)
           N == Len(s)
           I == {n \in Nat : g[n] = f[n]}
<1>1. /\ N \in Nat /\ longer \in Seq(S) /\ Len(longer) = N + 1 /\ longer[N + 1] = c
      /\ \A k \in 1..N : longer[k] = s[k]
  BY LenProperties, AppendProperties
<1>2. /\ Among(s, T) = f[N] /\ f[0] = <<>>
      /\ \A k \in 1..N : f[k] = Keep(f[k - 1], s[k], T)
  BY KeptIs
<1>3. /\ Among(longer, T) = g[N + 1] /\ g[0] = <<>>
      /\ \A k \in 1..(N + 1) : g[k] = Keep(g[k - 1], longer[k], T)
  <2> HIDE DEF longer
  <2> QED BY <1>1, KeptIs
<1> HIDE DEF f, g, longer, N
<1>4. 0 \in I
  BY <1>2, <1>3
<1>5. ASSUME NEW k \in 0..(N - 1), k \in I
      PROVE  k + 1 \in I
  <2>1. k + 1 \in 1..N /\ k + 1 \in 1..(N + 1) /\ (k + 1) - 1 = k /\ k + 1 \in Nat
    BY <1>1
  <2>2. f[k + 1] = Keep(f[k], s[k + 1], T) /\ g[k + 1] = Keep(g[k], longer[k + 1], T)
    BY <1>2, <1>3, <2>1
  <2> QED BY <1>1, <1>5, <2>1, <2>2
<1>6. 0..N \subseteq I
  <2> HIDE DEF I
  <2> QED BY <1>1, <1>4, <1>5, UpTo
<1>7. g[N] = f[N]
  BY <1>1, <1>6
<1>8. g[N + 1] = Keep(g[N], c, T)
  <2>1. N + 1 \in 1..(N + 1) /\ (N + 1) - 1 = N
    BY <1>1
  <2> QED BY <1>1, <1>3, <2>1
<1> QED BY <1>2, <1>3, <1>7, <1>8 DEF longer

(* The first element is kept first, or not. *)
LEMMA AmongHead ==
    ASSUME NEW S, NEW s \in Seq(S), s # <<>>, NEW T
    PROVE  Among(s, T) = Keep(<<>>, Head(s), T) \o Among(Tail(s), T)
<1> DEFINE rest == Tail(s)
           first == Keep(<<>>, Head(s), T)
           f == Kept(s, T)
           g == Kept(rest, T)
           N == Len(rest)
           I == {n \in Nat : g[n] \in Seq(S) /\ f[n + 1] = first \o g[n]}
<1>1. /\ N \in Nat /\ rest \in Seq(S) /\ Len(s) = N + 1 /\ Head(s) = s[1]
      /\ Head(s) \in S /\ \A k \in 1..N : rest[k] = s[k + 1] /\ rest[k] \in S
  <2>1. /\ rest \in Seq(S) /\ Len(rest) = Len(s) - 1 /\ Head(s) \in S
        /\ Head(s) = s[1] /\ Len(s) \in Nat
        /\ \A k \in 1..Len(rest) : rest[k] = s[k + 1]
    BY HeadTailProperties, LenProperties
  <2> HIDE DEF rest
  <2>2. Len(rest) \in Nat /\ \A k \in 1..Len(rest) : rest[k] \in S
    BY <2>1, LenProperties, ElementOfSeq
  <2> QED BY <2>1, <2>2
<1>2. /\ Among(s, T) = f[N + 1] /\ f[0] = <<>>
      /\ \A k \in 1..(N + 1) : f[k] = Keep(f[k - 1], s[k], T)
  <2>1. Len(s) = N + 1
    BY <1>1
  <2> HIDE DEF N
  <2> QED BY <2>1, KeptIs
<1>3. /\ Among(rest, T) = g[N] /\ g[0] = <<>>
      /\ \A k \in 1..N : g[k] = Keep(g[k - 1], rest[k], T)
  <2> HIDE DEF rest
  <2> QED BY <1>1, KeptIs
<1> HIDE DEF f, g, rest, N
<1>4. first \in Seq(S)
  BY <1>1, EmptySeq, AppendProperties DEF Keep
<1>5. 0 \in I
  <2>1. f[1] = first
    <3>1. 1 \in 1..(N + 1) /\ 1 - 1 = 0
      BY <1>1
    <3> QED BY <1>1, <1>2, <3>1
  <2>2. first \o <<>> = first
    <3> HIDE DEF first
    <3> QED BY <1>4, ConcatEmptySeq
  <2>3. g[0] \in Seq(S) /\ f[0 + 1] = first \o g[0]
    <3> HIDE DEF first
    <3> QED BY <1>3, <2>1, <2>2, EmptySeq
  <2> QED BY <2>3
<1> HIDE DEF first
<1>6. ASSUME NEW k \in 0..(N - 1), k \in I
      PROVE  k + 1 \in I
  <2>1. /\ k \in Nat /\ k + 1 \in 1..N /\ k + 2 \in 1..(N + 1) /\ (k + 1) - 1 = k
        /\ (k + 2) - 1 = k + 1 /\ k + 1 \in Nat /\ (k + 1) + 1 = k + 2
    BY <1>1
  <2>2. f[k + 2] = Keep(f[k + 1], s[k + 2], T) /\ g[k + 1] = Keep(g[k], rest[k + 1], T)
    BY <1>2, <1>3, <2>1
  <2>3. rest[k + 1] = s[k + 2] /\ rest[k + 1] \in S
    BY <1>1, <2>1
  <2>4. g[k] \in Seq(S) /\ f[k + 1] = first \o g[k]
    BY <1>6
  <2>5. g[k + 1] \in Seq(S)
    BY <2>2, <2>3, <2>4, AppendProperties DEF Keep
  <2>6. Append(first \o g[k], rest[k + 1]) = first \o Append(g[k], rest[k + 1])
    <3>1. \A t \in Seq(S), u \in Seq(S), c \in S : t \o Append(u, c) = Append(t \o u, c)
      BY LastOfLast
    <3> HIDE DEF I
    <3> QED BY <1>4, <2>3, <2>4, <3>1, Zenon
  <2>7. f[k + 2] = first \o g[k + 1]
    BY <2>2, <2>3, <2>4, <2>6 DEF Keep
  <2> QED BY <2>1, <2>5, <2>7
<1>7. 0..N \subseteq I
  <2> HIDE DEF I
  <2> QED BY <1>1, <1>5, <1>6, UpTo
<1>8. f[N + 1] = first \o g[N]
  BY <1>1, <1>7
<1> QED BY <1>2, <1>3, <1>8 DEF first, rest

(* If every element is in T all are kept ... *)
LEMMA AmongAll ==
    ASSUME NEW S, NEW s \in Seq(S), NEW T,
           \A k \in 1..Len(s) : s[k] \in T
    PROVE  Among(s, T) = s
<1> DEFINE f == Kept(s, T)
           N == Len(s)
           I == {n \in Nat : f[n] = SubSeq(s, 1, n)}
<1>1. N \in Nat /\ \A k \in 1..N : s[k] \in S
  BY LenProperties, ElementOfSeq
<1>2. /\ Among(s, T) = f[N] /\ f[0] = <<>>
      /\ \A k \in 1..N : f[k] = Keep(f[k - 1], s[k], T)
  BY KeptIs
<1> HIDE DEF f
<1>3. 0 \in I
  <2>1. SubSeq(s, 1, 0) = <<>>
    BY SubSeqEmpty
  <2> QED BY <1>2, <2>1
<1>4. ASSUME NEW k \in 0..(N - 1), k \in I
      PROVE  k + 1 \in I
  <2>1. k + 1 \in 1..N /\ (k + 1) - 1 = k /\ k + 1 \in Nat /\ k \in Nat
    BY <1>1
  <2>2. f[k + 1] = Keep(f[k], s[k + 1], T) /\ s[k + 1] \in T
    BY <1>2, <2>1
  <2>3. SubSeq(s, 1, k + 1) = Append(SubSeq(s, 1, k), s[k + 1])
    <3>1. /\ SubSeq(s, 1, k) \in Seq(S) /\ Len(SubSeq(s, 1, k)) = k
          /\ \A n \in 1..k : SubSeq(s, 1, k)[n] = s[n]
      BY <1>1, <2>1
    <3>2. /\ SubSeq(s, 1, k + 1) \in Seq(S) /\ Len(SubSeq(s, 1, k + 1)) = k + 1
          /\ \A n \in 1..(k + 1) : SubSeq(s, 1, k + 1)[n] = s[n]
      BY <1>1, <2>1
    <3> DEFINE a == SubSeq(s, 1, k)
               b == SubSeq(s, 1, k + 1)
    <3> HIDE DEF a, b
    <3>3. /\ a \in Seq(S) /\ Len(a) = k /\ \A n \in 1..k : a[n] = s[n]
          /\ b \in Seq(S) /\ Len(b) = k + 1 /\ \A n \in 1..(k + 1) : b[n] = s[n]
      BY <3>1, <3>2 DEF a, b
    <3>4. /\ Append(a, s[k + 1]) \in Seq(S) /\ Len(Append(a, s[k + 1])) = k + 1
          /\ \A n \in 1..k : Append(a, s[k + 1])[n] = a[n]
          /\ Append(a, s[k + 1])[k + 1] = s[k + 1]
      BY <1>1, <2>1, <3>3, AppendProperties
    <3>5. \A n \in 1..(k + 1) : b[n] = Append(a, s[k + 1])[n]
      <4> TAKE n \in 1..(k + 1)
      <4>1. n \in 1..k \/ n = k + 1
        BY <2>1
      <4> QED BY <3>3, <3>4, <4>1
    <3> QED BY <3>3, <3>4, <3>5, SeqEqual DEF a, b
  <2> QED BY <1>4, <2>1, <2>2, <2>3 DEF Keep
<1>5. 0..N \subseteq I
  <2> HIDE DEF I, N
  <2> QED BY <1>1, <1>3, <1>4, UpTo
<1>6. f[N] = SubSeq(s, 1, N)
  BY <1>1, <1>5
<1>7. SubSeq(s, 1, N) = s
  BY SubSeqFull
<1> QED BY <1>2, <1>6, <1>7

(* ... and none if no element is. *)
LEMMA AmongNone ==
    ASSUME NEW S, NEW s \in Seq(S), NEW T,
           \A k \in 1..Len(s) : s[k] \notin T
    PROVE  Among(s, T) = <<>>
<1> DEFINE f == Kept(s, T)
           N == Len(s)
           I == {n \in Nat : f[n] = <<>>}
<1>1. N \in Nat
  BY LenProperties
<1>2. /\ Among(s, T) = f[N] /\ f[0] = <<>>
      /\ \A k \in 1..N : f[k] = Keep(f[k - 1], s[k], T)
  BY KeptIs
<1> HIDE DEF f
<1>3. 0 \in I
  BY <1>2
<1>4. ASSUME NEW k \in 0..(N - 1), k \in I
      PROVE  k + 1 \in I
  <2>1. k + 1 \in 1..N /\ (k + 1) - 1 = k /\ k + 1 \in Nat
    BY <1>1
  <2>2. f[k + 1] = Keep(f[k], s[k + 1], T) /\ s[k + 1] \notin T
    BY <1>2, <2>1
  <2> QED BY <1>4, <2>1, <2>2 DEF Keep
<1>5. 0..N \subseteq I
  <2> HIDE DEF I, N
  <2> QED BY <1>1, <1>3, <1>4, UpTo
<1> QED BY <1>1, <1>2, <1>5
-----------------------------------------------------------------------------
\* The free units of sem, and those held by the processes of T, the ones that
\* called down() and have not given their unit back.
Units(sem, T) == sem.count + Cardinality(T \ Waiting(sem))

(* sema_init gives a well-formed semaphore on which nobody waits. *)
LEMMA NewSemaphoreIsOne ==
    ASSUME NEW P, NEW n \in Nat
    PROVE  /\ IsSemaphore(NewSemaphore(n), P)
           /\ Waiting(NewSemaphore(n)) = {}
           /\ NewSemaphore(n).count = n
  BY DEF IsSemaphore, NewSemaphore, Waiting

(* down() takes a free unit, or leaves the count at zero and queues p. *)
LEMMA DownEffect ==
    ASSUME NEW P, NEW p \in P, NEW sem, IsSemaphore(sem, P), Granted(sem, p)
    PROVE  /\ IsSemaphore(Down(sem, p), P)
           /\ sem.count > 0 => /\ Down(sem, p).count = sem.count - 1
                               /\ Waiting(Down(sem, p)) = Waiting(sem)
           /\ sem.count = 0 => /\ Down(sem, p).count = 0
                               /\ Waiting(Down(sem, p)) = Waiting(sem) \cup {p}
<1>1. CASE sem.count > 0
  <2>1. Down(sem, p) = [sem EXCEPT !.count = @ - 1]
    BY <1>1 DEF Down
  <2>2. Down(sem, p).queue = sem.queue /\ Down(sem, p).count = sem.count - 1
    BY <2>1 DEF IsSemaphore
  <2>3. Down(sem, p) \in [count : Nat, queue : Seq(P)]
    BY <2>1, <1>1 DEF IsSemaphore
  <2> QED BY <2>2, <2>3, <1>1 DEF IsSemaphore, Waiting
<1>2. CASE sem.count = 0
  <2> DEFINE q == sem.queue
             r == Append(q, p)
  <2>1. q \in Seq(P) /\ r \in Seq(P) /\ Len(q) \in Nat
    BY DEF IsSemaphore
  <2>2. Down(sem, p) = [sem EXCEPT !.queue = r]
    BY <1>2 DEF Down
  <2>3. Down(sem, p).queue = r /\ Down(sem, p).count = 0
    BY <2>2, <1>2 DEF IsSemaphore
  <2>4. /\ Len(r) = Len(q) + 1
        /\ \A i \in 1..Len(q) : r[i] = q[i]
        /\ r[Len(q) + 1] = p
    BY <2>1
  <2>5. \A i \in 1..Len(q) : q[i] # p
    BY DEF Granted, Waiting
  <2>6. \A i, j \in 1..Len(r) : r[i] = r[j] => i = j
    BY <2>1, <2>4, <2>5 DEF IsSemaphore
  <2>7. Down(sem, p) \in [count : Nat, queue : Seq(P)]
    BY <2>1, <2>2, <1>2 DEF IsSemaphore
  <2>8. IsSemaphore(Down(sem, p), P)
    BY <2>3, <2>6, <2>7 DEF IsSemaphore
  <2>9. Waiting(Down(sem, p)) = {r[i] : i \in 1..Len(r)}
    BY <2>3 DEF Waiting
  <2>10. {r[i] : i \in 1..Len(r)} = {q[i] : i \in 1..Len(q)} \cup {p}
    <3>1. ASSUME NEW x \in {r[i] : i \in 1..Len(r)}
          PROVE  x \in {q[i] : i \in 1..Len(q)} \cup {p}
      BY <2>1, <2>4
    <3>2. ASSUME NEW x \in {q[i] : i \in 1..Len(q)}
          PROVE  x \in {r[i] : i \in 1..Len(r)}
      <4>1. PICK i \in 1..Len(q) : x = q[i]
        OBVIOUS
      <4>2. i \in 1..Len(r) /\ x = r[i]
        BY <4>1, <2>1, <2>4
      <4> QED BY <4>2
    <3>3. p \in {r[i] : i \in 1..Len(r)}
      <4>1. Len(q) + 1 \in 1..Len(r)
        BY <2>1, <2>4
      <4> QED BY <4>1, <2>4
    <3> QED BY <3>1, <3>2, <3>3
  <2> QED BY <1>2, <2>3, <2>8, <2>9, <2>10 DEF Waiting
<1> QED BY <1>1, <1>2 DEF IsSemaphore

(* up() adds a unit to the count if nobody waits, else it lets one waiter go. *)
LEMMA UpEffect ==
    ASSUME NEW P, NEW sem, IsSemaphore(sem, P)
    PROVE  /\ IsSemaphore(Up(sem), P)
           /\ Waiting(sem) = {} => /\ Up(sem).count = sem.count + 1
                                   /\ Waiting(Up(sem)) = {}
           /\ Waiting(sem) # {} =>
                /\ sem.count = 0 /\ Up(sem).count = 0
                /\ \E h \in Waiting(sem) : Waiting(Up(sem)) = Waiting(sem) \ {h}
<1> DEFINE q == sem.queue
<1>0. q \in Seq(P) /\ Len(q) \in Nat /\ sem.count \in Nat
  BY DEF IsSemaphore
<1>1. CASE q = <<>>
  <2>1. Up(sem) = [sem EXCEPT !.count = @ + 1]
    BY <1>1 DEF Up
  <2>2. Up(sem).count = sem.count + 1 /\ Up(sem).queue = <<>>
    BY <2>1, <1>1 DEF IsSemaphore
  <2>3. Waiting(sem) = {} /\ Waiting(Up(sem)) = {}
    BY <2>2, <1>1 DEF Waiting
  <2>4. Up(sem) \in [count : Nat, queue : Seq(P)]
    BY <2>1 DEF IsSemaphore
  <2> QED BY <2>2, <2>3, <2>4 DEF IsSemaphore
<1>2. CASE q # <<>>
  <2> DEFINE t == Tail(q)
  <2>1. Up(sem) = [sem EXCEPT !.queue = t]
    BY <1>2 DEF Up
  <2>2. /\ t \in Seq(P) /\ Len(q) > 0 /\ Len(t) = Len(q) - 1
        /\ \A i \in 1..Len(t) : t[i] = q[i + 1]
    BY <1>0, <1>2
  <2>3. sem.count = 0
    BY <1>0, <1>2 DEF IsSemaphore
  <2>4. Up(sem).count = 0 /\ Up(sem).queue = t
    BY <2>1, <2>3 DEF IsSemaphore
  <2>5. \A i, j \in 1..Len(t) : t[i] = t[j] => i = j
    <3> SUFFICES ASSUME NEW i \in 1..Len(t), NEW j \in 1..Len(t), t[i] = t[j]
                 PROVE  i = j
      OBVIOUS
    <3>1. i + 1 \in 1..Len(q) /\ j + 1 \in 1..Len(q) /\ q[i + 1] = q[j + 1]
      BY <1>0, <2>2
    <3> QED BY <3>1 DEF IsSemaphore
  <2>6. Up(sem) \in [count : Nat, queue : Seq(P)]
    BY <2>1, <2>2 DEF IsSemaphore
  <2>7. IsSemaphore(Up(sem), P)
    <3> HIDE DEF t
    <3>1. \A i, j \in 1..Len(Up(sem).queue) :
             Up(sem).queue[i] = Up(sem).queue[j] => i = j
      BY <2>4, <2>5
    <3> QED BY <2>4, <2>6, <3>1 DEF IsSemaphore
  <2>8. 1 \in 1..Len(q) /\ q[1] \in Waiting(sem)
    <3>1. 1 \in 1..Len(q)
      BY <1>0, <2>2
    <3> QED BY <3>1 DEF Waiting
  <2>9. {t[i] : i \in 1..Len(t)} = {q[i] : i \in 1..Len(q)} \ {q[1]}
    <3>1. ASSUME NEW x \in {t[i] : i \in 1..Len(t)}
          PROVE  x \in {q[i] : i \in 1..Len(q)} \ {q[1]}
      <4>1. PICK i \in 1..Len(t) : x = t[i]
        OBVIOUS
      <4>2. i + 1 \in 1..Len(q) /\ x = q[i + 1] /\ i + 1 # 1
        BY <4>1, <1>0, <2>2
      <4>3. q[i + 1] # q[1]
        BY <4>2, <2>8 DEF IsSemaphore
      <4> QED BY <4>2, <4>3
    <3>2. ASSUME NEW x \in {q[i] : i \in 1..Len(q)} \ {q[1]}
          PROVE  x \in {t[i] : i \in 1..Len(t)}
      <4>1. PICK i \in 1..Len(q) : x = q[i] /\ i # 1
        OBVIOUS
      <4>2. i - 1 \in 1..Len(t) /\ x = t[i - 1]
        BY <4>1, <1>0, <2>2
      <4> QED BY <4>2
    <3> QED BY <3>1, <3>2
  <2>10. Waiting(Up(sem)) = Waiting(sem) \ {q[1]}
    BY <2>4, <2>9 DEF Waiting
  <2> QED BY <2>3, <2>4, <2>7, <2>8, <2>10
<1> QED BY <1>1, <1>2

(* A cancelled wait takes p out of the queue and changes nothing else. *)
LEMMA CancelEffect ==
    ASSUME NEW P, NEW sem, IsSemaphore(sem, P), NEW p \in Waiting(sem)
    PROVE  /\ IsSemaphore(Cancel(sem, p), P)
           /\ Cancel(sem, p).count = sem.count
           /\ Waiting(Cancel(sem, p)) = Waiting(sem) \ {p}
<1> DEFINE q == sem.queue
           k == Place(sem, p)
           r == SubSeq(q, 1, k - 1) \o SubSeq(q, k + 1, Len(q))
<1>1. q \in Seq(P) /\ Len(q) \in Nat /\ sem.count \in Nat
  BY DEF IsSemaphore
<1>2. k \in 1..Len(q) /\ q[k] = p
  <2>1. \E i \in 1..Len(q) : q[i] = p
    BY DEF Waiting
  <2> QED BY <2>1 DEF Place
<1>3. sem.count = 0
  BY <1>1, <1>2 DEF IsSemaphore
<1>4. Cancel(sem, p) = [sem EXCEPT !.queue = r]
  BY DEF Cancel
<1> HIDE DEF k
<1>5. Distinct(q)
  BY DEF IsSemaphore, Distinct
<1> HIDE DEF q
<1>6. r \in Seq(P) /\ Skips(r, q, k)
  BY <1>1, <1>2, AroundPosition
<1> HIDE DEF r
<1>7. Distinct(r) /\ Elements(r) = Elements(q) \ {p}
  BY <1>1, <1>2, <1>5, <1>6, TakenOut
<1> USE DEF q
<1>8. Cancel(sem, p).queue = r /\ Cancel(sem, p).count = 0
  BY <1>3, <1>4 DEF IsSemaphore
<1>9. Cancel(sem, p) \in [count : Nat, queue : Seq(P)]
  BY <1>4, <1>6 DEF IsSemaphore
<1>10. IsSemaphore(Cancel(sem, p), P)
  <2>1. \A i, j \in 1..Len(Cancel(sem, p).queue) :
           Cancel(sem, p).queue[i] = Cancel(sem, p).queue[j] => i = j
    BY <1>8, <1>7 DEF Distinct
  <2> QED BY <2>1, <1>8, <1>9 DEF IsSemaphore
<1> QED BY <1>3, <1>8, <1>7, <1>10 DEF Waiting, Elements

-----------------------------------------------------------------------------
(* The number of units is a natural number. *)
LEMMA UnitsType ==
    ASSUME NEW P, NEW sem, IsSemaphore(sem, P), NEW T, IsFiniteSet(T)
    PROVE  Units(sem, T) \in Nat
<1>1. IsFiniteSet(T \ Waiting(sem)) /\ sem.count \in Nat
  BY FS_Difference DEF IsSemaphore
<1> QED BY <1>1, FS_CardinalityType DEF Units

(* down() moves a unit from the count to the hands of p, now or later. *)
LEMMA UnitsDown ==
    ASSUME NEW P, NEW p \in P, NEW sem, IsSemaphore(sem, P), Granted(sem, p),
           NEW T, IsFiniteSet(T), p \notin T
    PROVE  Units(Down(sem, p), T \cup {p}) = Units(sem, T)
<1> DEFINE W == Waiting(sem)
<1>1. p \notin W /\ sem.count \in Nat
  BY DEF Granted, IsSemaphore
<1>2. IsFiniteSet(T \ W) /\ Cardinality(T \ W) \in Nat
  BY FS_Difference, FS_CardinalityType
<1>3. CASE sem.count > 0
  <2>1. (T \cup {p}) \ W = (T \ W) \cup {p}
    BY <1>1
  <2>2. Cardinality((T \ W) \cup {p}) = Cardinality(T \ W) + 1
    BY <1>2, FS_AddElement
  <2>3. Down(sem, p).count = sem.count - 1 /\ Waiting(Down(sem, p)) = W
    BY <1>3, DownEffect
  <2> QED BY <2>1, <2>2, <2>3, <1>1, <1>2 DEF Units
<1>4. CASE sem.count = 0
  <2>1. (T \cup {p}) \ (W \cup {p}) = T \ W
    BY <1>1
  <2>2. Down(sem, p).count = 0 /\ Waiting(Down(sem, p)) = W \cup {p}
    BY <1>4, DownEffect
  <2> QED BY <2>1, <2>2, <1>4 DEF Units
<1> QED BY <1>1, <1>3, <1>4

(* up() makes one unit, free or in the hands of the first waiter. *)
LEMMA UnitsUp ==
    ASSUME NEW P, NEW sem, IsSemaphore(sem, P),
           NEW T, IsFiniteSet(T), Waiting(sem) \subseteq T
    PROVE  Units(Up(sem), T) = Units(sem, T) + 1
<1> DEFINE W == Waiting(sem)
<1>1. sem.count \in Nat
  BY DEF IsSemaphore
<1>2. IsFiniteSet(T \ W) /\ Cardinality(T \ W) \in Nat
  BY FS_Difference, FS_CardinalityType
<1>3. CASE W = {}
  <2>1. Up(sem).count = sem.count + 1 /\ Waiting(Up(sem)) = W
    BY <1>3, UpEffect
  <2> QED BY <2>1, <1>1, <1>2 DEF Units
<1>4. CASE W # {}
  <2>1. sem.count = 0 /\ Up(sem).count = 0
    BY <1>4, UpEffect
  <2>2. PICK h \in W : Waiting(Up(sem)) = W \ {h}
    BY <1>4, UpEffect
  <2>3. T \ (W \ {h}) = (T \ W) \cup {h} /\ h \notin T \ W
    BY <2>2
  <2>4. Cardinality((T \ W) \cup {h}) = Cardinality(T \ W) + 1
    BY <2>3, <1>2, FS_AddElement
  <2> QED BY <2>1, <2>2, <2>3, <2>4, <1>2 DEF Units
<1> QED BY <1>3, <1>4

(* A cancelled wait neither makes nor loses a unit. *)
LEMMA UnitsCancel ==
    ASSUME NEW P, NEW sem, IsSemaphore(sem, P), NEW p \in Waiting(sem), NEW T
    PROVE  Units(Cancel(sem, p), T \ {p}) = Units(sem, T)
<1>1. Cancel(sem, p).count = sem.count
      /\ Waiting(Cancel(sem, p)) = Waiting(sem) \ {p}
  BY CancelEffect
<1>2. (T \ {p}) \ (Waiting(sem) \ {p}) = T \ Waiting(sem)
  OBVIOUS
<1> QED BY <1>1, <1>2 DEF Units

(* A process that parts with its unit without calling up(). *)
LEMMA UnitsLeave ==
    ASSUME NEW sem, NEW T, IsFiniteSet(T), NEW p \in T, Granted(sem, p),
           sem.count \in Nat
    PROVE  Units(sem, T \ {p}) = Units(sem, T) - 1
<1> DEFINE S == T \ Waiting(sem)
<1>1. IsFiniteSet(S) /\ Cardinality(S) \in Nat
  BY FS_Difference, FS_CardinalityType
<1>2. (T \ {p}) \ Waiting(sem) = S \ {p} /\ p \in S
  BY DEF Granted
<1>3. Cardinality(S \ {p}) = Cardinality(S) - 1
  BY <1>1, <1>2, FS_RemoveElement
<1>4. /\ Units(sem, T) = sem.count + Cardinality(S)
      /\ Units(sem, T \ {p}) = sem.count + Cardinality(S \ {p})
  BY <1>2 DEF Units
<1> QED BY <1>1, <1>3, <1>4

(* A process that comes by a unit without calling down(). *)
LEMMA UnitsEnter ==
    ASSUME NEW sem, NEW T, IsFiniteSet(T), NEW p, p \notin T,
           Granted(sem, p), sem.count \in Nat
    PROVE  Units(sem, T \cup {p}) = Units(sem, T) + 1
<1> DEFINE S == T \ Waiting(sem)
<1>1. IsFiniteSet(S) /\ Cardinality(S) \in Nat
  BY FS_Difference, FS_CardinalityType
<1>2. (T \cup {p}) \ Waiting(sem) = S \cup {p} /\ p \notin S
  BY DEF Granted
<1>3. Cardinality(S \cup {p}) = Cardinality(S) + 1
  BY <1>1, <1>2, FS_AddElement
<1> QED BY <1>1, <1>2, <1>3 DEF Units

-----------------------------------------------------------------------------
\* The books of one semaphore: the processes of W may be blocked in a call of
\* down(), those of T called down() and owe it an up(), and n units exist.
Ledger(sem, P, W, T, n) ==
    /\ IsSemaphore(sem, P)
    /\ Waiting(sem) \subseteq W
    /\ W \subseteq T /\ T \subseteq P
    /\ Units(sem, T) = n

(* A process outside T calls down(). *)
LEMMA LedgerDown ==
    ASSUME NEW P, IsFiniteSet(P), NEW sem, NEW W, NEW T, NEW n,
           Ledger(sem, P, W, T, n), NEW p \in P, p \notin T
    PROVE  Ledger(Down(sem, p), P, W \cup {p}, T \cup {p}, n)
<1>1. IsSemaphore(sem, P) /\ Granted(sem, p)
  BY DEF Ledger, Granted
<1>2. IsFiniteSet(T)
  BY FS_Subset DEF Ledger
<1>3. IsSemaphore(Down(sem, p), P)
  BY <1>1, DownEffect
<1>4. Waiting(Down(sem, p)) \subseteq W \cup {p}
  <2>1. sem.count > 0 \/ sem.count = 0
    BY <1>1 DEF IsSemaphore
  <2> QED BY <1>1, <2>1, DownEffect DEF Ledger
<1>5. Units(Down(sem, p), T \cup {p}) = n
  BY <1>1, <1>2, UnitsDown DEF Ledger
<1> QED BY <1>3, <1>4, <1>5 DEF Ledger

(* A process goes past its call of down(). *)
LEMMA LedgerPass ==
    ASSUME NEW P, NEW sem, NEW W, NEW T, NEW n,
           Ledger(sem, P, W, T, n), NEW p, Granted(sem, p)
    PROVE  Ledger(sem, P, W \ {p}, T, n)
  BY DEF Ledger, Granted

(* A process gives its unit back with up(). *)
LEMMA LedgerUp ==
    ASSUME NEW P, IsFiniteSet(P), NEW sem, NEW W, NEW T, NEW n,
           Ledger(sem, P, W, T, n), NEW p \in T, p \notin W
    PROVE  Ledger(Up(sem), P, W, T \ {p}, n)
<1>1. IsSemaphore(sem, P) /\ Granted(sem, p) /\ sem.count \in Nat
  BY DEF Ledger, Granted, IsSemaphore
<1>2. IsFiniteSet(T) /\ IsFiniteSet(T \ {p})
  BY FS_Subset, FS_RemoveElement DEF Ledger
<1>3. IsSemaphore(Up(sem), P) /\ Waiting(Up(sem)) \subseteq Waiting(sem)
  BY <1>1, UpEffect
<1>4. Units(Up(sem), T \ {p}) = Units(sem, T \ {p}) + 1
  BY <1>1, <1>2, UnitsUp DEF Ledger
<1>5. Units(sem, T \ {p}) = Units(sem, T) - 1
  BY <1>1, <1>2, UnitsLeave
<1>6. Units(sem, T) \in Nat
  BY <1>1, <1>2, UnitsType
<1>7. Units(Up(sem), T \ {p}) = n
  BY <1>4, <1>5, <1>6 DEF Ledger
<1> QED BY <1>3, <1>7 DEF Ledger

(* A process that owes nothing calls up(). *)
LEMMA LedgerMore ==
    ASSUME NEW P, IsFiniteSet(P), NEW sem, NEW W, NEW T, NEW n,
           Ledger(sem, P, W, T, n)
    PROVE  Ledger(Up(sem), P, W, T, n + 1)
<1>1. IsSemaphore(sem, P) /\ IsFiniteSet(T) /\ Waiting(sem) \subseteq T
  BY FS_Subset DEF Ledger
<1>2. IsSemaphore(Up(sem), P) /\ Waiting(Up(sem)) \subseteq Waiting(sem)
  <2>1. CASE Waiting(sem) = {}
    BY <1>1, <2>1, UpEffect
  <2>2. CASE Waiting(sem) # {}
    BY <1>1, <2>2, UpEffect
  <2> QED BY <2>1, <2>2
<1>3. Units(Up(sem), T) = n + 1
  BY <1>1, UnitsUp DEF Ledger
<1> QED BY <1>2, <1>3 DEF Ledger

(* The wait of a process is cancelled by a signal. *)
LEMMA LedgerCancel ==
    ASSUME NEW P, NEW sem, NEW W, NEW T, NEW n,
           Ledger(sem, P, W, T, n), NEW p, ~Granted(sem, p)
    PROVE  Ledger(Cancel(sem, p), P, W \ {p}, T \ {p}, n)
<1>1. IsSemaphore(sem, P) /\ p \in Waiting(sem)
  BY DEF Ledger, Granted
<1>2. /\ IsSemaphore(Cancel(sem, p), P)
      /\ Waiting(Cancel(sem, p)) = Waiting(sem) \ {p}
  BY <1>1, CancelEffect
<1>3. Units(Cancel(sem, p), T \ {p}) = n
  BY <1>1, UnitsCancel DEF Ledger
<1> QED BY <1>2, <1>3 DEF Ledger

(* The unit of a process turns into something else. *)
LEMMA LedgerLeave ==
    ASSUME NEW P, IsFiniteSet(P), NEW sem, NEW W, NEW T, NEW n,
           Ledger(sem, P, W, T, n), NEW p \in T, p \notin W
    PROVE  Ledger(sem, P, W, T \ {p}, n - 1)
<1>1. Granted(sem, p) /\ sem.count \in Nat /\ IsFiniteSet(T)
  BY FS_Subset DEF Ledger, Granted, IsSemaphore
<1>2. Units(sem, T \ {p}) = n - 1
  BY <1>1, UnitsLeave DEF Ledger
<1> QED BY <1>2 DEF Ledger

(* Something else turns into a unit in the hands of a process. *)
LEMMA LedgerEnter ==
    ASSUME NEW P, IsFiniteSet(P), NEW sem, NEW W, NEW T, NEW n,
           Ledger(sem, P, W, T, n), NEW p \in P, p \notin T
    PROVE  Ledger(sem, P, W, T \cup {p}, n + 1)
<1>1. Granted(sem, p) /\ sem.count \in Nat /\ IsFiniteSet(T)
  BY FS_Subset DEF Ledger, Granted, IsSemaphore
<1>2. Units(sem, T \cup {p}) = n + 1
  BY <1>1, UnitsEnter DEF Ledger
<1> QED BY <1>2 DEF Ledger

(* Whoever holds a unit proves that there is one. *)
LEMMA LedgerHolder ==
    ASSUME NEW P, IsFiniteSet(P), NEW sem, NEW W, NEW T, NEW n,
           Ledger(sem, P, W, T, n), NEW p \in T, Granted(sem, p)
    PROVE  n \in Nat /\ n > 0
<1> DEFINE S == T \ Waiting(sem)
<1>1. IsFiniteSet(T) /\ IsFiniteSet(S) /\ sem.count \in Nat
  BY FS_Subset, FS_Difference DEF Ledger, IsSemaphore
<1>2. Cardinality(S) \in Nat /\ Cardinality(S) # 0
  <2>1. p \in S
    BY DEF Granted
  <2> QED BY <2>1, <1>1, FS_CardinalityType, FS_EmptySet
<1>3. n = sem.count + Cardinality(S)
  BY DEF Ledger, Units
<1> QED BY <1>1, <1>2, <1>3

(* A semaphore of one unit is held by one process at most. *)
LEMMA LedgerExclusive ==
    ASSUME NEW P, IsFiniteSet(P), NEW sem, NEW W, NEW T,
           Ledger(sem, P, W, T, 1),
           NEW p \in T, Granted(sem, p), NEW q \in T, Granted(sem, q)
    PROVE  p = q
<1> SUFFICES ASSUME p # q PROVE FALSE
  OBVIOUS
<1>1. Ledger(sem, P, W \ {p}, T, 1)
  BY LedgerPass
<1>2. Ledger(sem, P, W \ {p}, T \ {p}, 1 - 1)
  BY <1>1, LedgerLeave
<1>3. q \in T \ {p}
  OBVIOUS
<1> QED BY <1>2, <1>3, LedgerHolder
=============================================================================
