---------------------------- MODULE ModListProofs ----------------------------
(***************************************************************************)
(* Proofs about ModList, for all sets of processes, numbers and nodes, and *)
(* about ModSeq, for all sets of readers, numbers and sizes of buffer.     *)
(*                                                                         *)
(* The inductive invariant names the list: some sequence s of nodes,       *)
(* without repetitions, is what next goes through from the head (Forward), *)
(* and what is allocated is in s or in one process's hands (Heap).  Task   *)
(* says how far the only writer can be: which link back is still missing,  *)
(* and, for a traversal that deletes, that s holds the items it has kept,  *)
(* in their order, and then those it has not reached (Sifted).  Nothing of *)
(* this outlives the first refused number, so the invariant is claimed     *)
(* until then; the types hold for ever.                                    *)
(*                                                                         *)
(* The first section relates s to the functions by which the model reads   *)
(* the links; then come a traversal that deletes, the size of the text,    *)
(* the invariant, one lemma per action, and the theorems.  The last        *)
(* section is about ModSeq, the list that is read through seq_file.        *)
(***************************************************************************)
EXTENDS ModList, CommonLemmas

\* The k-th node of the list s from the head; the head itself before and after.
At(s, k) == IF k \in 1..Len(s) THEN s[k] ELSE mylist

Forward(s) == \A k \in 0..Len(s) : next[At(s, k)] = At(s, k + 1)
Data(s) == [k \in 1..Len(s) |-> data[s[k]]]

(* The list as the traversal finds it is the one that is linked. *)
LEMMA ListedIs ==
    ASSUME NEW s \in Seq(Node), Distinct(s), Forward(s)
    PROVE  Ends /\ Listed = s /\ Numbers = Data(s)
<1>1. Follows(next, mylist, s)
  BY DEF Forward, At, Follows, Around
<1>2. /\ IsFiniteSet(Node) /\ mylist \notin Node
      /\ Len(s) \in Nat
  BY ListAssumption
<1>3. Listed = s /\ Len(s) + 1 \in 1..(Cardinality(Node) + 1)
  BY <1>1, <1>2, NodesAre DEF Listed
<1>4. Nth[Len(s) + 1] = mylist
  <2>1. Nth = [k \in 0..(Cardinality(Node) + 1) |-> Around(s, mylist, k)]
    BY <1>1, <1>2, WalkFinds DEF Nth
  <2>2. Len(s) + 1 \in 0..(Cardinality(Node) + 1) /\ Len(s) + 1 \notin 1..Len(s)
    BY <1>2, <1>3
  <2> QED BY <2>1, <2>2 DEF Around
<1>5. Numbers = Data(s)
  <2>1. DOMAIN s = 1..Len(s)
    OBVIOUS
  <2> QED BY <1>3, <2>1 DEF Numbers, Data
<1> QED BY <1>3, <1>4, <1>5 DEF Ends

-----------------------------------------------------------------------------
(* What a traversal that deletes leaves                                    *)

\* A traversal that deletes a leaves x.
Keeps(a, x) == a # All /\ x # a

\* t is the list c as a traversal that deletes a has left it, after it has kept
\* i items: those that f names, of the first j; the rest is as it was.
Sift(c, t, i, a, j, f) ==
    /\ j \in 0..Len(c) /\ i \in 0..Len(t) /\ Len(t) - i = Len(c) - j
    /\ \A k \in 1..(Len(t) - i) : t[i + k] = c[j + k]
    /\ f \in [1..i -> 1..j]
    /\ \A m \in 1..j : Keeps(a, c[m]) <=> \E n \in 1..i : f[n] = m
    /\ \A m, n \in 1..i : m < n => f[m] < f[n]
    /\ \A m \in 1..i : t[m] = c[f[m]]
Sifted(c, t, i, a) == \E j, f : Sift(c, t, i, a, j, f)

(* Before it has deleted anything. *)
LEMMA SiftBegins ==
    ASSUME NEW c \in Seq(Number), NEW a
    PROVE  Sifted(c, c, 0, a)
<1> DEFINE f == [m \in 1..0 |-> m]
<1>1. Sift(c, c, 0, a, 0, f)
  BY DEF Sift
<1> QED BY <1>1 DEF Sifted

(* It goes past an item that it keeps. *)
LEMMA SiftKeeps ==
    ASSUME NEW c \in Seq(Number), NEW t \in Seq(Number), NEW a, NEW i \in Nat,
           Sifted(c, t, i, a), i < Len(t), Keeps(a, t[i + 1])
    PROVE  Sifted(c, t, i + 1, a)
<1>1. PICK j, f : Sift(c, t, i, a, j, f)
  BY DEF Sifted
<1> DEFINE g == [m \in 1..(i + 1) |-> IF m <= i THEN f[m] ELSE j + 1]
<1>2. j \in Nat /\ j < Len(c) /\ t[i + 1] = c[j + 1] /\ Len(c) \in Nat /\ Len(t) \in Nat
  BY <1>1 DEF Sift
<1>3. g \in [1..(i + 1) -> 1..(j + 1)]
  BY <1>1, <1>2 DEF Sift
<1>4. \A m \in 1..i : g[m] = f[m] /\ f[m] \in 1..j
  BY <1>1 DEF Sift
<1>5. g[i + 1] = j + 1 /\ i + 1 \in 1..(i + 1)
  OBVIOUS
<1> HIDE DEF g
<1>6. \A k \in 1..(Len(t) - (i + 1)) : t[i + 1 + k] = c[j + 1 + k]
  <2> SUFFICES ASSUME NEW k \in 1..(Len(t) - (i + 1))
               PROVE  t[i + 1 + k] = c[j + 1 + k]
    OBVIOUS
  <2>1. k + 1 \in 1..(Len(t) - i) /\ i + (k + 1) = i + 1 + k /\ j + (k + 1) = j + 1 + k
    BY <1>2
  <2>2. t[i + (k + 1)] = c[j + (k + 1)]
    BY <2>1, <1>1 DEF Sift
  <2> QED BY <2>1, <2>2
<1>7. \A m \in 1..(j + 1) : Keeps(a, c[m]) <=> \E n \in 1..(i + 1) : g[n] = m
  <2> SUFFICES ASSUME NEW m \in 1..(j + 1)
               PROVE  Keeps(a, c[m]) <=> \E n \in 1..(i + 1) : g[n] = m
    OBVIOUS
  <2>1. CASE m = j + 1
    BY <2>1, <1>2, <1>5
  <2>2. CASE m \in 1..j
    <3>1. Keeps(a, c[m]) <=> \E n \in 1..i : f[n] = m
      BY <2>2, <1>1 DEF Sift
    <3>2. \A n \in 1..(i + 1) : n \in 1..i \/ n = i + 1
      OBVIOUS
    <3>3. m # j + 1 /\ 1..i \subseteq 1..(i + 1)
      BY <2>2, <1>2
    <3> QED BY <3>1, <3>2, <3>3, <1>4, <1>5
  <2> QED BY <2>1, <2>2, <1>2
<1>8. \A m, n \in 1..(i + 1) : m < n => g[m] < g[n]
  <2> SUFFICES ASSUME NEW m \in 1..(i + 1), NEW n \in 1..(i + 1), m < n
               PROVE  g[m] < g[n]
    OBVIOUS
  <2>1. m \in 1..i /\ f[m] \in 1..j /\ g[m] = f[m]
    BY <1>4
  <2>2. CASE n = i + 1
    BY <2>1, <2>2, <1>2, <1>5
  <2>3. CASE n \in 1..i
    BY <2>1, <2>3, <1>1, <1>4 DEF Sift
  <2> QED BY <2>2, <2>3
<1>9. \A m \in 1..(i + 1) : t[m] = c[g[m]]
  <2> SUFFICES ASSUME NEW m \in 1..(i + 1)
               PROVE  t[m] = c[g[m]]
    OBVIOUS
  <2>1. CASE m = i + 1
    BY <2>1, <1>2, <1>5
  <2>2. CASE m \in 1..i
    BY <2>2, <1>1, <1>4 DEF Sift
  <2> QED BY <2>1, <2>2
<1>10. j + 1 \in 0..Len(c) /\ i + 1 \in 0..Len(t) /\ Len(t) - (i + 1) = Len(c) - (j + 1)
  BY <1>1, <1>2 DEF Sift
<1>11. Sift(c, t, i + 1, a, j + 1, g)
  BY <1>3, <1>6, <1>7, <1>8, <1>9, <1>10 DEF Sift
<1> QED BY <1>11 DEF Sifted

(* It deletes an item. *)
LEMMA SiftDrops ==
    ASSUME NEW c \in Seq(Number), NEW t \in Seq(Number), NEW a, NEW i \in Nat,
           Sifted(c, t, i, a), i < Len(t), ~ Keeps(a, t[i + 1]),
           NEW r \in Seq(Number), Skips(r, t, i + 1)
    PROVE  Sifted(c, r, i, a)
<1>1. PICK j, f : Sift(c, t, i, a, j, f)
  BY DEF Sifted
<1>2. /\ j \in Nat /\ j < Len(c) /\ t[i + 1] = c[j + 1]
      /\ Len(c) \in Nat /\ Len(t) \in Nat /\ Len(r) = Len(t) - 1
  <2>1. /\ j \in Nat /\ j < Len(c) /\ 1 \in 1..(Len(t) - i)
        /\ \A k \in 1..(Len(t) - i) : t[i + k] = c[j + k]
    BY <1>1 DEF Sift
  <2> QED BY <2>1 DEF Skips
<1>3. \A m \in 1..i : r[m] = t[m] /\ f[m] \in 1..j
  <2>1. \A m \in 1..i : f[m] \in 1..j
    BY <1>1 DEF Sift
  <2>2. \A m \in 1..i : m \in 1..Len(r) /\ m < i + 1
    BY <1>2
  <2> QED BY <2>1, <2>2 DEF Skips
<1>4. f \in [1..i -> 1..(j + 1)]
  BY <1>1, <1>2 DEF Sift
<1>5. \A k \in 1..(Len(r) - i) : r[i + k] = c[j + 1 + k]
  <2> SUFFICES ASSUME NEW k \in 1..(Len(r) - i)
               PROVE  r[i + k] = c[j + 1 + k]
    OBVIOUS
  <2>1. k + 1 \in 1..(Len(t) - i) /\ i + (k + 1) = i + k + 1 /\ j + (k + 1) = j + 1 + k
    BY <1>2
  <2>2. t[i + (k + 1)] = c[j + (k + 1)]
    BY <2>1, <1>1 DEF Sift
  <2>3. r[i + k] = t[i + k + 1]
    <3>1. i + k \in 1..Len(r) /\ ~ (i + k < i + 1)
      BY <1>2
    <3>2. \A m \in 1..Len(r) : ~ (m < i + 1) => r[m] = t[m + 1]
      BY DEF Skips
    <3> QED BY <3>1, <3>2
  <2> QED BY <2>1, <2>2, <2>3
<1>6. \A m \in 1..(j + 1) : Keeps(a, c[m]) <=> \E n \in 1..i : f[n] = m
  <2> SUFFICES ASSUME NEW m \in 1..(j + 1)
               PROVE  Keeps(a, c[m]) <=> \E n \in 1..i : f[n] = m
    OBVIOUS
  <2>1. CASE m = j + 1
    <3>1. \A x \in 1..j : x # j + 1
      BY <1>2
    <3>2. \A n \in 1..i : f[n] \in 1..j
      BY <1>3
    <3>3. ~ \E n \in 1..i : f[n] = j + 1
      BY <3>1, <3>2, Zenon
    <3> QED BY <2>1, <3>3, <1>2
  <2>2. CASE m \in 1..j
    BY <2>2, <1>1 DEF Sift
  <2> QED BY <2>1, <2>2, <1>2
<1>7. \A m, n \in 1..i : m < n => f[m] < f[n]
  BY <1>1 DEF Sift
<1>8. \A m \in 1..i : r[m] = c[f[m]]
  BY <1>1, <1>3 DEF Sift
<1>9. j + 1 \in 0..Len(c) /\ i \in 0..Len(r) /\ Len(r) - i = Len(c) - (j + 1)
  BY <1>1, <1>2 DEF Sift
<1>10. Sift(c, r, i, a, j + 1, f)
  BY <1>4, <1>5, <1>6, <1>7, <1>8, <1>9 DEF Sift
<1> QED BY <1>10 DEF Sifted

\* The items of s that take a second digit.
Long(s) == {k \in 1..Len(s) : s[k] > 9}

(* The size of a text is a natural number. *)
LEMMA SizeType ==
    ASSUME NEW s \in Seq(Number)
    PROVE  /\ Size(s) = 2 * Len(s) + Cardinality(Long(s))
           /\ IsFiniteSet(Long(s)) /\ Cardinality(Long(s)) \in Nat /\ Size(s) \in Nat
<1>1. Len(s) \in Nat /\ DOMAIN s = 1..Len(s)
  OBVIOUS
<1>2. IsFiniteSet(1..Len(s)) /\ Long(s) \subseteq 1..Len(s)
  BY <1>1, PlacesCounted DEF Long
<1>3. IsFiniteSet(Long(s)) /\ Cardinality(Long(s)) \in Nat
  BY <1>2, FS_Subset, FS_CardinalityType
<1>4. Size(s) = 2 * Len(s) + Cardinality(Long(s))
  BY <1>1 DEF Size, Long
<1> QED BY <1>1, <1>3, <1>4

(* The text of a list with one more number is that number's longer. *)
LEMMA SizeAppend ==
    ASSUME NEW s \in Seq(Number), NEW v \in Number
    PROVE  Size(Append(s, v)) = Size(s) + Size(<<v>>)
<1> DEFINE t == Append(s, v)
           n == Len(s)
           w == <<v>>
<1>1. /\ t \in Seq(Number) /\ Len(t) = n + 1 /\ t[n + 1] = v /\ n \in Nat
      /\ \A k \in 1..n : t[k] = s[k]
  BY AppendProperties
<1>2. w \in Seq(Number) /\ Len(w) = 1 /\ w[1] = v
  OBVIOUS
<1> HIDE DEF t, n, w
<1>3. /\ n = Len(s)
      /\ Size(s) = 2 * Len(s) + Cardinality(Long(s)) /\ Cardinality(Long(s)) \in Nat
      /\ Size(t) = 2 * Len(t) + Cardinality(Long(t))
      /\ Size(w) = 2 * Len(w) + Cardinality(Long(w))
  BY <1>1, <1>2, SizeType DEF n
<1>4. CASE v > 9
  <2>1. Long(t) = Long(s) \cup {n + 1}
    BY <1>1, <1>3, <1>4 DEF Long
  <2>2. n + 1 \notin Long(s)
    BY <1>1, <1>3 DEF Long
  <2>3. Cardinality(Long(t)) = Cardinality(Long(s)) + 1
    BY <2>1, <2>2, SizeType, FS_AddElement
  <2>4. Long(w) = {1}
    BY <1>2, <1>4 DEF Long
  <2>5. Cardinality(Long(w)) = 1
    BY <2>4, FS_Singleton
  <2> QED BY <2>3, <2>5, <1>1, <1>2, <1>3 DEF t, w
<1>5. CASE ~ (v > 9)
  <2>1. Long(t) = Long(s)
    BY <1>1, <1>3, <1>5 DEF Long
  <2>4. Long(w) = {}
    BY <1>2, <1>5 DEF Long
  <2>5. Cardinality(Long(w)) = 0
    BY <2>4, FS_EmptySet
  <2> QED BY <2>1, <2>5, <1>1, <1>2, <1>3 DEF t, w
<1> QED BY <1>4, <1>5

(* At its end the traversal has deleted every item it was to delete and no
   other, and the text of what is left is not longer. *)
LEMMA SiftEnds ==
    ASSUME NEW c \in Seq(Number), NEW t \in Seq(Number),
           NEW a \in Number \cup {All}, Sifted(c, t, Len(t), a)
    PROVE  /\ a = All => t = << >>
           /\ a # All => Atomic!IsWithout(t, c, a)
           /\ Size(t) <= Size(c)
<1> DEFINE n == Len(t)
<1>1. PICK j, f : Sift(c, t, n, a, j, f)
  BY DEF Sifted
<1>2. n \in Nat /\ Len(c) \in Nat /\ DOMAIN t = 1..n /\ DOMAIN c = 1..Len(c)
  OBVIOUS
<1>3. j = Len(c)
  BY <1>1, <1>2 DEF Sift
<1>4. f \in [1..n -> 1..Len(c)]
  BY <1>1, <1>3 DEF Sift
<1>5. /\ \A m \in 1..Len(c) : Keeps(a, c[m]) <=> \E k \in 1..n : f[k] = m
      /\ \A m, k \in 1..n : m < k => f[m] < f[k]
      /\ \A m \in 1..n : t[m] = c[f[m]]
  BY <1>1, <1>3 DEF Sift
<1> HIDE DEF n
<1>6. a = All => t = << >>
  <2> SUFFICES ASSUME a = All
               PROVE  t = << >>
    OBVIOUS
  <2>1. \A m \in 1..Len(c) : ~ Keeps(a, c[m])
    BY DEF Keeps
  <2>2. n = 0
    <3> SUFFICES ASSUME n # 0
                 PROVE  FALSE
      OBVIOUS
    <3>1. 1 \in 1..n
      BY <1>2
    <3>2. f[1] \in 1..Len(c)
      BY <3>1, <1>4
    <3> QED BY <3>1, <3>2, <2>1, <1>5
  <2> QED BY <2>2, EmptySeq DEF n
<1>7. a # All => Atomic!IsWithout(t, c, a)
  <2> SUFFICES ASSUME a # All
               PROVE  Atomic!IsWithout(t, c, a)
    OBVIOUS
  <2>1. \A m \in 1..Len(c) : c[m] # a <=> \E k \in 1..n : f[k] = m
    BY <1>5 DEF Keeps
  <2>2. Range(f) = {m \in 1..Len(c) : c[m] # a}
    BY <2>1, <1>4 DEF Range
  <2>3. t = [m \in 1..n |-> c[f[m]]]
    BY <1>2, <1>5
  <2>4. Atomic!Picks(t, c, f)
    BY <2>3, <1>4, <1>5 DEF Atomic!Picks
  <2>5. f \in [1..Len(t) -> DOMAIN c] /\ DOMAIN c = 1..Len(c)
    BY <1>2, <1>4 DEF n
  <2>6. Range(f) = {m \in DOMAIN c : c[m] # a}
    BY <2>2, <2>5
  <2>7. Range(f) = Atomic!Range(f)
    BY DEF Range, Atomic!Range
  <2> QED BY <2>4, <2>5, <2>6, <2>7 DEF Atomic!IsWithout
<1>8. Size(t) <= Size(c)
  <2>1. \A k, m \in 1..n : f[k] = f[m] => k = m
    <3> SUFFICES ASSUME NEW k \in 1..n, NEW m \in 1..n, k < m
                 PROVE  f[k] # f[m]
      BY <1>2
    <3> QED BY <1>4, <1>5
  <2>2. n <= Len(c)
    <3>1. f \in Injection(1..n, 1..Len(c))
      BY <2>1, <1>4 DEF Injection, IsInjective
    <3>2. Cardinality(1..n) <= Cardinality(1..Len(c))
      <4>1. IsFiniteSet(1..n) /\ IsFiniteSet(1..Len(c))
        BY <1>2, PlacesCounted
      <4> QED BY <4>1, <3>1, FS_Injection
    <3>3. Cardinality(1..n) = n
      BY <1>2, PlacesCounted
    <3>4. Cardinality(1..Len(c)) = Len(c)
      BY <1>2, PlacesCounted
    <3> QED BY <3>2, <3>3, <3>4
  <2>3. Cardinality(Long(t)) <= Cardinality(Long(c))
    <3> DEFINE g == [k \in Long(t) |-> f[k]]
    <3>1. Long(t) \subseteq 1..n /\ \A k \in Long(t) : f[k] \in Long(c)
      BY <1>4, <1>5 DEF Long, n
    <3>2. g \in Injection(Long(t), Long(c))
      BY <3>1, <2>1 DEF Injection, IsInjective
    <3> HIDE DEF g
    <3> QED BY <3>2, SizeType, FS_Injection
  <2>4. /\ Size(t) = 2 * n + Cardinality(Long(t)) /\ Cardinality(Long(t)) \in Nat
        /\ Size(c) = 2 * Len(c) + Cardinality(Long(c)) /\ Cardinality(Long(c)) \in Nat
    BY SizeType DEF n
  <2> QED BY <2>2, <2>3, <2>4, <1>2
<1> QED BY <1>6, <1>7, <1>8

-----------------------------------------------------------------------------
(* The invariant                                                           *)

\* The labels before which a process has rwl for writing, those before which
\* node[p] is allocated and in no list, and those of add.
Writing == {"measure", "link", "linknew", "linklast", "walk", "unlink", "free", "unlock"}
Handy == {"add", "measure", "link", "linknew", "linklast", "free"}
Adding == Handy \ {"free"}

Inside(L) == {p \in Proc : pc[p] \in L}

Counted ==
    /\ rwl \in [writer : BOOLEAN, readers : Nat]
    /\ rwl.readers = Cardinality(Inside({"read"}))

Plain ==
    /\ pc \in [Proc -> {"idle", "add", "measure", "link", "linknew", "linklast",
                        "remove", "walk", "unlink", "free", "unlock", "read"}]
    /\ arg \in [Proc -> Number \cup {All}]
    /\ node \in [Proc -> Link \cup {Poison}]
    /\ after \in [Proc -> Link \cup {Poison}]
    /\ out \in [Proc -> Seq(Number)]
    /\ next \in [Link -> Link \cup {Poison}]
    /\ prev \in [Link -> Link \cup {Poison}]
    /\ data \in [Node -> Number]
    /\ used \subseteq Node
    /\ refused \in BOOLEAN
    /\ committed \in Seq(Number)
    /\ \A p \in Proc :
          /\ pc[p] \in Handy \cup {"unlink"} => node[p] \in Node
          /\ pc[p] = "walk" => node[p] \in Link
          /\ pc[p] \in Adding => arg[p] \in Number
          /\ pc[p] # "read" => out[p] = << >>

Types == Plain /\ Counted

\* rwl lets one writer in, or readers.
Exclusive ==
    /\ rwl.writer <=> Inside(Writing) # {}
    /\ \A p, q \in Inside(Writing) : p = q
    /\ rwl.writer => Inside({"read"}) = {}

Unpoisoned == \A p \in Proc : node[p] # Poison /\ after[p] # Poison

\* What is allocated is in the list s or in one process's hands.
Heap(s) ==
    /\ used = Elements(s) \cup {node[p] : p \in Inside(Handy)}
    /\ \A p \in Inside(Handy) : node[p] \notin Elements(s)
    /\ \A p, q \in Inside(Handy) : node[p] = node[q] => p = q
    /\ \A p \in Inside(Adding) : data[node[p]] = arg[p]

\* The links back through s, but for those to the positions K.
Backward(s, K) == \A k \in (0..Len(s)) \ K : prev[At(s, k + 1)] = At(s, k)

Undisturbed(s) == Backward(s, {}) /\ committed = Data(s)

Fits(p) == Size(committed) + Size(<<arg[p]>>) < PROCFS_MAX_SIZE

\* p has begun to append its node.
Appending(p, s) ==
    /\ committed = Data(s) /\ Fits(p)
    /\ Backward(s, {Len(s)})
    /\ prev[mylist] = node[p]
    /\ after[p] = At(s, Len(s))

\* p deletes, has kept i items and has w ahead of it.
Deleting(p, s, i, w) ==
    /\ i \in 0..Len(s)
    /\ Sifted(committed, Data(s), i, arg[p])
    /\ w = At(s, i + 1)

\* t is what a command makes of c.
Answers(c, t, a) ==
    \/ a \in Number /\ (t = Append(c, a) \/ Atomic!IsWithout(t, c, a))
    \/ t = << >>

\* How far the writer p has come.
Task(p, s) ==
    /\ pc[p] = "measure" => Undisturbed(s)
    /\ pc[p] = "link" => Undisturbed(s) /\ Fits(p)
    /\ pc[p] = "linknew" => Appending(p, s)
    /\ pc[p] = "linklast" =>
          Appending(p, s) /\ next[node[p]] = mylist /\ prev[node[p]] = after[p]
    /\ pc[p] = "walk" =>
          Backward(s, {}) /\ \E i \in Nat : /\ Deleting(p, s, i, node[p])
                                            /\ after[p] = At(s, i + 2)
    /\ pc[p] = "unlink" =>
          \E i \in Nat : /\ Deleting(p, s, i, node[p]) /\ i < Len(s)
                         /\ ~ Keeps(arg[p], data[node[p]])
                         /\ after[p] = At(s, i + 2)
                         /\ Backward(s, {i + 1}) /\ prev[At(s, i + 2)] = At(s, i)
    /\ pc[p] = "free" =>
          Backward(s, {}) /\ \E i \in Nat : Deleting(p, s, i, after[p])
    /\ pc[p] = "unlock" =>
          /\ Backward(s, {}) /\ Size(Data(s)) < PROCFS_MAX_SIZE
          /\ Answers(committed, Data(s), arg[p])

\* What p has read is the list up to where it stands.
Reading(p, s) ==
    LET n == Len(out[p])
    IN  /\ n <= Len(s) /\ node[p] = At(s, n + 1)
        /\ \A k \in 1..n : out[p][k] = data[s[k]]

\* s is the list, as far as the writer has come.
Shape(s) ==
    /\ Distinct(s) /\ Forward(s)
    /\ Heap(s)
    /\ \A p \in Inside(Writing) : Task(p, s)
    /\ ~rwl.writer => Undisturbed(s)
    /\ \A p \in Inside({"read"}) : Reading(p, s)

\* What holds until a number is refused.
Good ==
    /\ Exclusive /\ Unpoisoned
    /\ Size(committed) < PROCFS_MAX_SIZE
    /\ \E s \in Seq(Node) : Shape(s)

\* The inductive invariant.
Inv == Types /\ (refused \/ Good)
-----------------------------------------------------------------------------
(* Types and the lock                                                      *)

\* A step of p.
StepOf(p) ==
    \/ BeginAdd(p)        \/ LockToAdd(p)    \/ Measure(p)   \/ Refuse(p)
    \/ LinkHead(p)        \/ LinkNew(p)      \/ LinkLast(p)
    \/ RemoveFromEmpty(p) \/ BeginRemove(p)  \/ LockToRemove(p)
    \/ Skip(p)            \/ EndWalk(p)      \/ UnlinkBack(p)
    \/ UnlinkForward(p)   \/ FreeNode(p)     \/ Unlock(p)
    \/ LockToRead(p)      \/ ReadItem(p)     \/ EndRead(p)

(* What the operations of the lock do to rwl. *)
LEMMA LockEffect ==
    ASSUME rwl \in [writer : BOOLEAN, readers : Nat]
    PROVE  /\ WriteLock => /\ rwl' \in [writer : BOOLEAN, readers : Int] /\ rwl'.writer
                           /\ rwl'.readers = rwl.readers
                           /\ ~rwl.writer /\ rwl.readers = 0
           /\ WriteUnlock => /\ rwl' \in [writer : BOOLEAN, readers : Int] /\ ~rwl'.writer
                             /\ rwl'.readers = rwl.readers
           /\ ReadLock => /\ rwl' \in [writer : BOOLEAN, readers : Int]
                          /\ ~rwl'.writer /\ ~rwl.writer
                          /\ rwl'.readers = rwl.readers + 1
           /\ ReadUnlock => /\ rwl' \in [writer : BOOLEAN, readers : Int]
                            /\ rwl'.writer = rwl.writer
                            /\ rwl'.readers = rwl.readers - 1
<1>1. ASSUME NEW b \in BOOLEAN
      PROVE  LET r == [rwl EXCEPT !.writer = b]
             IN  r \in [writer : BOOLEAN, readers : Int] /\ r.writer = b
                 /\ r.readers = rwl.readers
  OBVIOUS
<1>2. ASSUME NEW i \in Int
      PROVE  LET r == [rwl EXCEPT !.readers = i]
             IN  r \in [writer : BOOLEAN, readers : Int] /\ r.writer = rwl.writer
                 /\ r.readers = i
  OBVIOUS
<1>3. rwl.readers + 1 \in Int /\ rwl.readers - 1 \in Int
  OBVIOUS
<1>4. WriteLock => /\ rwl' \in [writer : BOOLEAN, readers : Int] /\ rwl'.writer
                   /\ rwl'.readers = rwl.readers
                   /\ ~rwl.writer /\ rwl.readers = 0
  BY <1>1, Zenon DEF WriteLock
<1>5. WriteUnlock => /\ rwl' \in [writer : BOOLEAN, readers : Int] /\ ~rwl'.writer
                     /\ rwl'.readers = rwl.readers
  BY <1>1, Zenon DEF WriteUnlock
<1>6. ReadLock => /\ rwl' \in [writer : BOOLEAN, readers : Int]
                  /\ ~rwl'.writer /\ ~rwl.writer
                  /\ rwl'.readers = rwl.readers + 1
  BY <1>2, <1>3, Zenon DEF ReadLock
<1>7. ReadUnlock => /\ rwl' \in [writer : BOOLEAN, readers : Int]
                    /\ rwl'.writer = rwl.writer
                    /\ rwl'.readers = rwl.readers - 1
  BY <1>2, <1>3, Zenon DEF ReadUnlock
<1> QED BY <1>4, <1>5, <1>6, <1>7

(* rwl counts its readers. *)
LEMMA ReadersCounted ==
    ASSUME Types, NEW p \in Proc, NEW to, pc' = [pc EXCEPT ![p] = to],
           rwl' \in [writer : BOOLEAN, readers : Int],
           rwl'.readers = IF pc[p] # "read" /\ to = "read" THEN rwl.readers + 1
                          ELSE IF pc[p] = "read" /\ to # "read" THEN rwl.readers - 1
                          ELSE rwl.readers
    PROVE  Counted'
<1> DEFINE R == Inside({"read"})
           S == {q \in Proc : pc'[q] \in {"read"}}
<1>1. IsFiniteSet(R) /\ rwl.readers = Cardinality(R) /\ rwl.readers \in Nat
  <2>1. R \subseteq Proc
    BY DEF Inside
  <2> QED BY <2>1, ListAssumption, FS_Subset DEF Types, Counted
<1>2. \A q \in Proc : pc'[q] = IF q = p THEN to ELSE pc[q]
  BY DEF Types, Plain
<1>3. S = IF to = "read" THEN R \cup {p} ELSE R \ {p}
  BY <1>2 DEF Inside
<1>4. p \in R <=> pc[p] = "read"
  BY DEF Inside
<1> HIDE DEF R, S
<1>5. IsFiniteSet(S) /\ Cardinality(S) \in Nat
  BY <1>1, <1>3, FS_AddElement, FS_RemoveElement, FS_CardinalityType
<1>6. rwl'.readers = Cardinality(S)
  <2>1. CASE to = "read"
    <3>1. Cardinality(R \cup {p}) = IF p \in R THEN Cardinality(R) ELSE Cardinality(R) + 1
      BY <1>1, FS_AddElement
    <3> QED BY <2>1, <3>1, <1>1, <1>3, <1>4
  <2>2. CASE to # "read"
    <3>1. Cardinality(R \ {p}) = IF p \in R THEN Cardinality(R) - 1 ELSE Cardinality(R)
      BY <1>1, FS_RemoveElement
    <3> QED BY <2>2, <3>1, <1>1, <1>3, <1>4
  <2> QED BY <2>1, <2>2
<1> QED BY <1>5, <1>6 DEF Counted, S, Inside

(* Every step keeps the types; the last writer leaves a list of numbers. *)
LEMMA StepPlain ==
    ASSUME Types, NEW p \in Proc, StepOf(p),
           Unlock(p) => refused \/ Numbers \in Seq(Number)
    PROVE  Plain'
<1> USE DEF Types, Plain, Goto, Begin, links, history, Handy, Adding, Link
<1>1. CASE BeginAdd(p)
  BY <1>1, ListAssumption DEF BeginAdd
<1>2. CASE LockToAdd(p)
  BY <1>2, ListAssumption DEF LockToAdd
<1>3. CASE Measure(p)
  BY <1>3, ListAssumption DEF Measure
<1>4. CASE Refuse(p)
  BY <1>4, ListAssumption DEF Refuse
<1>5. CASE LinkHead(p)
  BY <1>5, ListAssumption DEF LinkHead
<1>6. CASE LinkNew(p)
  BY <1>6, ListAssumption DEF LinkNew
<1>7. CASE LinkLast(p)
  BY <1>7, ListAssumption DEF LinkLast
<1>8. CASE RemoveFromEmpty(p)
  BY <1>8, ListAssumption DEF RemoveFromEmpty, vars
<1>9. CASE BeginRemove(p)
  BY <1>9, ListAssumption DEF BeginRemove
<1>10. CASE LockToRemove(p)
  BY <1>10, ListAssumption DEF LockToRemove, Visit
<1>11. CASE Skip(p)
  BY <1>11, ListAssumption DEF Skip, Visit
<1>12. CASE EndWalk(p)
  BY <1>12, ListAssumption DEF EndWalk
<1>13. CASE UnlinkBack(p)
  BY <1>13, ListAssumption DEF UnlinkBack
<1>14. CASE UnlinkForward(p)
  BY <1>14, ListAssumption DEF UnlinkForward
<1>15. CASE FreeNode(p)
  BY <1>15, ListAssumption DEF FreeNode, Visit
<1>16. CASE Unlock(p)
  BY <1>16, ListAssumption DEF Unlock
<1>17. CASE LockToRead(p)
  BY <1>17, ListAssumption DEF LockToRead
<1>18. CASE ReadItem(p)
  BY <1>18, ListAssumption DEF ReadItem
<1>19. CASE EndRead(p)
  BY <1>19, ListAssumption DEF EndRead
<1> QED BY <1>1, <1>2, <1>3, <1>4, <1>5, <1>6, <1>7, <1>8, <1>9,
           <1>10, <1>11, <1>12, <1>13, <1>14, <1>15, <1>16, <1>17, <1>18, <1>19 DEF StepOf

(* Every step keeps the types and the count of the readers. *)
LEMMA StepTypes ==
    ASSUME Types, NEW p \in Proc, StepOf(p),
           Unlock(p) => refused \/ Numbers \in Seq(Number)
    PROVE  Types'
<1>0. Plain' /\ rwl \in [writer : BOOLEAN, readers : Nat]
  BY StepPlain DEF Types, Counted
<1>1. CASE BeginAdd(p)
  <2>1. /\ pc[p] # "read" /\ pc' = [pc EXCEPT ![p] = "add"]
        /\ rwl' \in [writer : BOOLEAN, readers : Int]
        /\ rwl'.readers = rwl.readers
    BY <1>0, <1>1 DEF BeginAdd, Goto, Begin
  <2>2. Counted'
    BY <2>1, ReadersCounted
  <2> QED BY <1>0, <2>2 DEF Types
<1>2. CASE LockToAdd(p)
  <2>1. /\ pc[p] # "read" /\ pc' = [pc EXCEPT ![p] = "measure"]
        /\ rwl' \in [writer : BOOLEAN, readers : Int]
        /\ rwl'.readers = rwl.readers
    BY <1>0, <1>2, LockEffect DEF LockToAdd, Goto
  <2>2. Counted'
    BY <2>1, ReadersCounted
  <2> QED BY <1>0, <2>2 DEF Types
<1>3. CASE Measure(p)
  <2>1. /\ pc[p] # "read" /\ pc' = [pc EXCEPT ![p] = "link"]
        /\ rwl' \in [writer : BOOLEAN, readers : Int]
        /\ rwl'.readers = rwl.readers
    BY <1>0, <1>3 DEF Measure, Goto
  <2>2. Counted'
    BY <2>1, ReadersCounted
  <2> QED BY <1>0, <2>2 DEF Types
<1>4. CASE Refuse(p)
  <2>1. /\ pc[p] # "read" /\ pc' = [pc EXCEPT ![p] = "link"]
        /\ rwl' \in [writer : BOOLEAN, readers : Int]
        /\ rwl'.readers = rwl.readers
    BY <1>0, <1>4, LockEffect DEF Refuse, Goto
  <2>2. Counted'
    BY <2>1, ReadersCounted
  <2> QED BY <1>0, <2>2 DEF Types
<1>5. CASE LinkHead(p)
  <2>1. /\ pc[p] # "read" /\ pc' = [pc EXCEPT ![p] = "linknew"]
        /\ rwl' \in [writer : BOOLEAN, readers : Int]
        /\ rwl'.readers = rwl.readers
    BY <1>0, <1>5 DEF LinkHead, Goto
  <2>2. Counted'
    BY <2>1, ReadersCounted
  <2> QED BY <1>0, <2>2 DEF Types
<1>6. CASE LinkNew(p)
  <2>1. /\ pc[p] # "read" /\ pc' = [pc EXCEPT ![p] = "linklast"]
        /\ rwl' \in [writer : BOOLEAN, readers : Int]
        /\ rwl'.readers = rwl.readers
    BY <1>0, <1>6 DEF LinkNew, Goto
  <2>2. Counted'
    BY <2>1, ReadersCounted
  <2> QED BY <1>0, <2>2 DEF Types
<1>7. CASE LinkLast(p)
  <2>1. /\ pc[p] # "read" /\ pc' = [pc EXCEPT ![p] = "unlock"]
        /\ rwl' \in [writer : BOOLEAN, readers : Int]
        /\ rwl'.readers = rwl.readers
    BY <1>0, <1>7 DEF LinkLast, Goto
  <2>2. Counted'
    BY <2>1, ReadersCounted
  <2> QED BY <1>0, <2>2 DEF Types
<1>8. CASE RemoveFromEmpty(p)
  <2>1. pc' = pc /\ rwl' = rwl
    BY <1>8 DEF RemoveFromEmpty, vars
  <2>2. Counted'
    BY <2>1 DEF Types, Counted, Inside
  <2> QED BY <1>0, <2>2 DEF Types
<1>9. CASE BeginRemove(p)
  <2>1. /\ pc[p] # "read" /\ pc' = [pc EXCEPT ![p] = "remove"]
        /\ rwl' \in [writer : BOOLEAN, readers : Int]
        /\ rwl'.readers = rwl.readers
    BY <1>0, <1>9 DEF BeginRemove, Goto, Begin
  <2>2. Counted'
    BY <2>1, ReadersCounted
  <2> QED BY <1>0, <2>2 DEF Types
<1>10. CASE LockToRemove(p)
  <2>1. /\ pc[p] # "read" /\ pc' = [pc EXCEPT ![p] = "walk"]
        /\ rwl' \in [writer : BOOLEAN, readers : Int]
        /\ rwl'.readers = rwl.readers
    BY <1>0, <1>10, LockEffect DEF LockToRemove, Goto
  <2>2. Counted'
    BY <2>1, ReadersCounted
  <2> QED BY <1>0, <2>2 DEF Types
<1>11. CASE Skip(p)
  <2>1. pc' = pc /\ rwl' = rwl
    BY <1>11 DEF Skip
  <2>2. Counted'
    BY <2>1 DEF Types, Counted, Inside
  <2> QED BY <1>0, <2>2 DEF Types
<1>12. CASE EndWalk(p)
  <2>1. /\ pc[p] # "read" /\ pc' = [pc EXCEPT ![p] = "unlock"]
        /\ rwl' \in [writer : BOOLEAN, readers : Int]
        /\ rwl'.readers = rwl.readers
    BY <1>0, <1>12 DEF EndWalk, Goto
  <2>2. Counted'
    BY <2>1, ReadersCounted
  <2> QED BY <1>0, <2>2 DEF Types
<1>13. CASE UnlinkBack(p)
  <2>1. /\ pc[p] # "read" /\ pc' = [pc EXCEPT ![p] = "unlink"]
        /\ rwl' \in [writer : BOOLEAN, readers : Int]
        /\ rwl'.readers = rwl.readers
    BY <1>0, <1>13 DEF UnlinkBack, Goto
  <2>2. Counted'
    BY <2>1, ReadersCounted
  <2> QED BY <1>0, <2>2 DEF Types
<1>14. CASE UnlinkForward(p)
  <2>1. /\ pc[p] # "read" /\ pc' = [pc EXCEPT ![p] = "free"]
        /\ rwl' \in [writer : BOOLEAN, readers : Int]
        /\ rwl'.readers = rwl.readers
    BY <1>0, <1>14 DEF UnlinkForward, Goto
  <2>2. Counted'
    BY <2>1, ReadersCounted
  <2> QED BY <1>0, <2>2 DEF Types
<1>15. CASE FreeNode(p)
  <2>1. /\ pc[p] # "read" /\ pc' = [pc EXCEPT ![p] = "walk"]
        /\ rwl' \in [writer : BOOLEAN, readers : Int]
        /\ rwl'.readers = rwl.readers
    BY <1>0, <1>15 DEF FreeNode, Goto
  <2>2. Counted'
    BY <2>1, ReadersCounted
  <2> QED BY <1>0, <2>2 DEF Types
<1>16. CASE Unlock(p)
  <2>1. /\ pc[p] # "read" /\ pc' = [pc EXCEPT ![p] = "idle"]
        /\ rwl' \in [writer : BOOLEAN, readers : Int]
        /\ rwl'.readers = rwl.readers
    BY <1>0, <1>16, LockEffect DEF Unlock, Goto
  <2>2. Counted'
    BY <2>1, ReadersCounted
  <2> QED BY <1>0, <2>2 DEF Types
<1>17. CASE LockToRead(p)
  <2>1. /\ pc[p] # "read" /\ pc' = [pc EXCEPT ![p] = "read"]
        /\ rwl' \in [writer : BOOLEAN, readers : Int]
        /\ rwl'.readers = rwl.readers + 1
    BY <1>0, <1>17, LockEffect DEF LockToRead, Goto, Begin
  <2>2. Counted'
    BY <2>1, ReadersCounted
  <2> QED BY <1>0, <2>2 DEF Types
<1>18. CASE ReadItem(p)
  <2>1. pc' = pc /\ rwl' = rwl
    BY <1>18 DEF ReadItem
  <2>2. Counted'
    BY <2>1 DEF Types, Counted, Inside
  <2> QED BY <1>0, <2>2 DEF Types
<1>19. CASE EndRead(p)
  <2>1. /\ pc[p] = "read" /\ pc' = [pc EXCEPT ![p] = "idle"]
        /\ rwl' \in [writer : BOOLEAN, readers : Int]
        /\ rwl'.readers = rwl.readers - 1
    BY <1>0, <1>19, LockEffect DEF EndRead, Goto
  <2>2. Counted'
    BY <2>1, ReadersCounted
  <2> QED BY <1>0, <2>2 DEF Types
<1> QED BY <1>1, <1>2, <1>3, <1>4, <1>5, <1>6, <1>7, <1>8, <1>9,
           <1>10, <1>11, <1>12, <1>13, <1>14, <1>15, <1>16, <1>17, <1>18, <1>19 DEF StepOf

-----------------------------------------------------------------------------
(* What the other processes see of a step                                  *)

(* The positions of a list and the head. *)
LEMMA AtPlaces ==
    ASSUME NEW s \in Seq(Node), Distinct(s)
    PROVE  /\ Len(s) \in Nat
           /\ \A k \in Nat : At(s, k) \in Link
           /\ \A k \in 1..Len(s) : At(s, k) = s[k] /\ s[k] \in Elements(s) /\ s[k] \in Node
           /\ \A k \in Nat : At(s, k) # mylist <=> k \in 1..Len(s)
           /\ \A k, l \in 0..Len(s) : At(s, k) = At(s, l) => k = l
           /\ \A k, l \in 1..(Len(s) + 1) : At(s, k) = At(s, l) => k = l
  BY ListAssumption DEF At, Distinct, Elements, Link

(* A writer moves on, or comes in: nobody else is inside. *)
LEMMA WriterAlone ==
    ASSUME Types, Exclusive, NEW p \in Proc, NEW to \in Writing,
           pc' = [pc EXCEPT ![p] = to], rwl'.writer,
           pc[p] \in Writing \/ (~rwl.writer /\ rwl.readers = 0),
           NEW s \in Seq(Node), Distinct(s), Forward(s)', Heap(s)', Task(p, s)'
    PROVE  Exclusive' /\ Shape(s)'
<1>1. \A q \in Proc : pc'[q] = IF q = p THEN to ELSE pc[q]
  BY DEF Types, Plain
<1>2. Inside({"read"}) = {} /\ Inside(Writing) \subseteq {p}
  <2>1. CASE pc[p] \in Writing
    BY <2>1 DEF Exclusive, Inside
  <2>2. CASE ~rwl.writer /\ rwl.readers = 0
    <3>1. Cardinality(Inside({"read"})) = 0
      BY <2>2 DEF Types, Counted
    <3>2. IsFiniteSet(Inside({"read"}))
      BY ListAssumption, FS_Subset DEF Inside
    <3> QED BY <2>2, <3>1, <3>2, FS_EmptySet DEF Exclusive
  <2> QED BY <2>1, <2>2
<1>3. "read" \notin Writing
  BY DEF Writing
<1>4. \A q \in Proc : (pc'[q] \in Writing <=> q = p) /\ pc'[q] # "read"
  BY <1>1, <1>2, <1>3 DEF Inside
<1>5. Inside(Writing)' = {p} /\ Inside({"read"})' = {}
  BY <1>4 DEF Inside
<1>6. Exclusive'
  BY <1>5 DEF Exclusive
<1>7. Shape(s)'
  BY <1>5 DEF Shape
<1> QED BY <1>6, <1>7

(* A writer moves on. *)
LEMMA WriterStays ==
    ASSUME Types, Exclusive, NEW p \in Proc, NEW to \in Writing,
           pc' = [pc EXCEPT ![p] = to], rwl' = rwl, pc[p] \in Writing,
           NEW s \in Seq(Node), Distinct(s), Forward(s)', Heap(s)', Task(p, s)'
    PROVE  Exclusive' /\ Shape(s)'
<1>1. rwl'.writer
  BY DEF Exclusive, Inside
<1> QED BY <1>1, WriterAlone

(* A writer leaves: nobody is inside. *)
LEMMA WriterGone ==
    ASSUME Types, Exclusive, NEW p \in Proc, pc[p] \in Writing,
           pc' = [pc EXCEPT ![p] = "idle"], ~rwl'.writer,
           NEW s \in Seq(Node), Distinct(s), Forward(s)', Heap(s)', Undisturbed(s)'
    PROVE  Exclusive' /\ Shape(s)'
<1>1. \A q \in Proc : pc'[q] = IF q = p THEN "idle" ELSE pc[q]
  BY DEF Types, Plain
<1>2. Inside({"read"}) = {} /\ Inside(Writing) = {p}
  BY DEF Exclusive, Inside
<1>3. \A q \in Proc : pc'[q] \notin Writing /\ pc'[q] # "read"
  BY <1>1, <1>2 DEF Inside, Writing
<1>4. Inside(Writing)' = {} /\ Inside({"read"})' = {}
  BY <1>3 DEF Inside
<1>5. Exclusive'
  BY <1>4 DEF Exclusive
<1>6. Shape(s)'
  BY <1>4 DEF Shape
<1> QED BY <1>5, <1>6

(* The step of a process that is no writer disturbs none. *)
LEMMA NoWriter ==
    ASSUME Types, Exclusive, NEW p \in Proc, NEW to, NEW s \in Seq(Node), Shape(s),
           pc[p] \notin Writing, to \notin Writing, pc' = [pc EXCEPT ![p] = to],
           rwl'.writer = rwl.writer, to = "read" => ~rwl.writer,
           next' = next, prev' = prev, committed' = committed,
           \A n \in Elements(s) : data'[n] = data[n],
           \A q \in Proc \ {p} : /\ arg'[q] = arg[q] /\ node'[q] = node[q]
                                 /\ after'[q] = after[q] /\ out'[q] = out[q],
           Heap(s)', to = "read" => Reading(p, s)'
    PROVE  Exclusive' /\ Shape(s)'
<1>1. \A q \in Proc : pc'[q] = IF q = p THEN to ELSE pc[q]
  BY DEF Types, Plain
<1>2. Inside(Writing)' = Inside(Writing) /\ p \notin Inside(Writing)
  BY <1>1 DEF Inside
<1>3. \A q \in Inside({"read"})' : q = p \/ q \in Inside({"read"})
  BY <1>1 DEF Inside
<1>4. p \in Inside({"read"})' => to = "read"
  BY <1>1 DEF Inside
<1>5. Exclusive'
  BY <1>2, <1>3, <1>4 DEF Exclusive
<1>6. Distinct(s) /\ Forward(s)'
  BY DEF Shape, Forward
<1>7. \A k \in 1..Len(s) : data'[s[k]] = data[s[k]]
  BY DEF Elements
<1>8. Data(s)' = Data(s)
  BY <1>7 DEF Data
<1>9. \A K : Backward(s, K)' <=> Backward(s, K)
  BY DEF Backward
<1>10. Undisturbed(s)' <=> Undisturbed(s)
  BY <1>8, <1>9 DEF Undisturbed
<1>11. ASSUME NEW q \in Inside(Writing)
       PROVE  Task(q, s)'
  <2>1. q \in Proc \ {p} /\ Task(q, s) /\ pc'[q] = pc[q]
    BY <1>1, <1>2 DEF Shape, Inside
  <2>2. arg'[q] = arg[q] /\ node'[q] = node[q] /\ after'[q] = after[q]
    BY <2>1
  <2>3. (Fits(q)' <=> Fits(q)) /\ (Appending(q, s)' <=> Appending(q, s))
    BY <1>8, <1>9, <2>2 DEF Fits, Appending
  <2>4. \A i, w : Deleting(q, s, i, w) => (Deleting(q, s, i, w))'
    BY <1>8, <2>2 DEF Deleting
  <2>5. \A i \in Nat : Deleting(q, s, i, node[q]) /\ i < Len(s) => data'[node[q]] = data[node[q]]
    BY <1>6, <1>7, AtPlaces DEF Deleting
  <2> QED BY <1>8, <1>9, <1>10, <2>1, <2>2, <2>3, <2>4, <2>5 DEF Task
<1>12. ASSUME NEW q \in Inside({"read"}), q # p
       PROVE  Reading(q, s)'
  <2>1. q \in Proc \ {p} /\ Reading(q, s)
    BY <1>12 DEF Shape, Inside
  <2>2. Len(out[q]) \in Nat /\ Len(s) \in Nat
    BY <2>1 DEF Types, Plain
  <2>3. \A k \in 1..Len(out[q]) : k \in 1..Len(s)
    BY <2>1, <2>2 DEF Reading
  <2> QED BY <1>7, <2>1, <2>3 DEF Reading
<1>13. ~rwl'.writer => Undisturbed(s)'
  BY <1>10 DEF Shape
<1> QED BY <1>2, <1>3, <1>4, <1>5, <1>6, <1>11, <1>12, <1>13 DEF Shape

(* The heap after a step that allocates and frees nothing. *)
LEMMA HeapSame ==
    ASSUME Types, NEW p \in Proc, NEW to, pc' = [pc EXCEPT ![p] = to],
           NEW s, Heap(s), used' = used, data' = data,
           pc[p] \in Handy <=> to \in Handy, to \in Adding => pc[p] \in Adding,
           \A q \in Proc : q # p \/ to \in Handy => node'[q] = node[q] /\ arg'[q] = arg[q]
    PROVE  Heap(s)'
<1>1. \A q \in Proc : pc'[q] = IF q = p THEN to ELSE pc[q]
  BY DEF Types, Plain
<1>2. Inside(Handy)' = Inside(Handy) /\ Inside(Adding)' \subseteq Inside(Adding)
  BY <1>1 DEF Inside
<1>3. \A q \in Inside(Handy) : node'[q] = node[q] /\ arg'[q] = arg[q]
  BY <1>1, <1>2 DEF Inside
<1>4. Inside(Adding) \subseteq Inside(Handy)
  BY DEF Inside, Adding
<1>5. {node'[q] : q \in Inside(Handy)'} = {node[q] : q \in Inside(Handy)}
  BY <1>2, <1>3
<1> QED BY <1>2, <1>3, <1>4, <1>5 DEF Heap

(* The numbers of a list of nodes. *)
LEMMA DataType ==
    ASSUME Types, NEW s \in Seq(Node)
    PROVE  /\ Data(s) \in Seq(Number) /\ Len(Data(s)) = Len(s)
           /\ \A k \in 1..Len(s) : Data(s)[k] = data[s[k]]
<1>1. PICK m \in Nat : m = Len(s)
  OBVIOUS
<1>2. Data(s) \in [1..m -> Number]
  BY <1>1 DEF Data, Types, Plain
<1> QED BY <1>1, <1>2, IsSequence DEF Data

-----------------------------------------------------------------------------
(* add                                                                     *)

(* A node is allocated: it was in nobody's hands and in no list. *)
LEMMA BeginAddGood ==
    ASSUME Types, Good, NEW p \in Proc, BeginAdd(p)
    PROVE  Good'
<1> USE DEF Goto, Begin, links, history
<1>1. PICK s \in Seq(Node) : Shape(s)
  BY DEF Good
<1>2. PICK v \in Number, n \in Node \ used :
            /\ used' = used \cup {n} /\ data' = [data EXCEPT ![n] = v]
            /\ node' = [node EXCEPT ![p] = n] /\ arg' = [arg EXCEPT ![p] = v]
  BY DEF BeginAdd
<1>3. /\ pc[p] = "idle" /\ pc' = [pc EXCEPT ![p] = "add"]
      /\ UNCHANGED <<after, out, next, prev, rwl, refused, committed>>
  BY DEF BeginAdd
<1>4. /\ \A q \in Proc : pc'[q] = IF q = p THEN "add" ELSE pc[q]
      /\ \A q \in Proc : node'[q] = IF q = p THEN n ELSE node[q]
      /\ \A q \in Proc : arg'[q] = IF q = p THEN v ELSE arg[q]
      /\ \A m \in Node : data'[m] = IF m = n THEN v ELSE data[m]
  BY <1>2, <1>3 DEF Types, Plain
<1>5. Heap(s) /\ Elements(s) \subseteq used /\ Elements(s) \subseteq Node
  BY <1>1 DEF Shape, Heap, Elements
<1>6. /\ Inside(Handy)' = Inside(Handy) \cup {p} /\ p \notin Inside(Handy)
      /\ Inside(Adding)' = Inside(Adding) \cup {p} /\ Inside(Adding) \subseteq Inside(Handy)
  BY <1>3, <1>4 DEF Inside, Handy, Adding
<1>7. \A q \in Inside(Handy) : q # p /\ node[q] \in used /\ node[q] # n /\ node[q] \in Node
  BY <1>2, <1>5, <1>6 DEF Heap, Types, Plain, Inside
<1>8. Heap(s)'
  <2>1. used' = Elements(s) \cup {node'[q] : q \in Inside(Handy)'}
    BY <1>2, <1>4, <1>5, <1>6, <1>7 DEF Heap
  <2>2. \A q \in Inside(Handy)' : node'[q] \notin Elements(s)
    BY <1>2, <1>4, <1>5, <1>6, <1>7 DEF Heap, Inside
  <2>3. \A q, r \in Inside(Handy)' : node'[q] = node'[r] => q = r
    BY <1>2, <1>4, <1>5, <1>6, <1>7 DEF Heap, Inside
  <2>4. \A q \in Inside(Adding)' : data'[node'[q]] = arg'[q]
    BY <1>2, <1>4, <1>5, <1>6, <1>7 DEF Heap, Inside
  <2> QED BY <2>1, <2>2, <2>3, <2>4 DEF Heap
<1>9. \A m \in Elements(s) : data'[m] = data[m]
  BY <1>2, <1>4, <1>5
<1>10. Exclusive' /\ Shape(s)'
  <2>1. \A q \in Proc \ {p} : /\ arg'[q] = arg[q] /\ node'[q] = node[q]
                              /\ after'[q] = after[q] /\ out'[q] = out[q]
    BY <1>3, <1>4
  <2>2. pc[p] \notin Writing /\ "add" \notin Writing /\ Exclusive
    BY <1>3 DEF Writing, Good
  <2>3. rwl'.writer = rwl.writer
    BY <1>3
  <2>4. next' = next /\ prev' = prev /\ committed' = committed
    BY <1>3
  <2>5. pc' = [pc EXCEPT ![p] = "add"]
    BY <1>3
  <2>6. "add" # "read"
    OBVIOUS
  <2> QED BY <1>1, <1>8, <1>9, <2>1, <2>2, <2>3, <2>4, <2>5, <2>6, NoWriter
<1>11. Unpoisoned'
  BY <1>3, <1>4, ListAssumption DEF Good, Unpoisoned
<1> QED BY <1>3, <1>10, <1>11 DEF Good

(* An add comes in when nobody is inside. *)
LEMMA LockToAddGood ==
    ASSUME Types, Good, NEW p \in Proc, LockToAdd(p)
    PROVE  Good'
<1> USE DEF Goto, links, history
<1>1. PICK s \in Seq(Node) : Shape(s)
  BY DEF Good
<1>2. /\ pc[p] = "add" /\ pc' = [pc EXCEPT ![p] = "measure"] /\ WriteLock
      /\ UNCHANGED <<arg, node, after, out, next, prev, data, used, refused, committed>>
  BY DEF LockToAdd
<1>3. rwl'.writer /\ ~rwl.writer /\ rwl.readers = 0
  BY <1>2, LockEffect DEF Types, Counted
<1>4. Distinct(s) /\ Forward(s)' /\ Heap(s) /\ Undisturbed(s)
  BY <1>1, <1>2, <1>3 DEF Shape, Forward
<1>5. Heap(s)'
  BY <1>2, <1>4, HeapSame DEF Handy, Adding
<1>6. pc'[p] = "measure"
  BY <1>2 DEF Types, Plain
<1>7. Undisturbed(s)'
  BY <1>2, <1>4 DEF Undisturbed, Backward, Data
<1>8. Task(p, s)'
  BY <1>6, <1>7 DEF Task
<1>9. "measure" \in Writing
  BY DEF Writing
<1>10. Exclusive' /\ Shape(s)'
  BY <1>2, <1>3, <1>4, <1>5, <1>8, <1>9, WriterAlone DEF Good
<1> QED BY <1>2, <1>10 DEF Good, Unpoisoned

(* What add_number measures is the list its last writer left. *)
LEMMA MeasureGood ==
    ASSUME Types, Good, NEW p \in Proc, Measure(p)
    PROVE  Good'
<1> USE DEF Goto, links, history
<1>1. PICK s \in Seq(Node) : Shape(s)
  BY DEF Good
<1>2. /\ pc[p] = "measure" /\ pc' = [pc EXCEPT ![p] = "link"] /\ ~TooLong(arg[p])
      /\ UNCHANGED <<arg, node, after, out, next, prev, data, used, rwl, refused, committed>>
  BY DEF Measure
<1>3. /\ p \in Inside(Writing) /\ pc[p] \in Writing /\ "link" \in Writing
      /\ rwl.writer /\ rwl'.writer
  BY <1>2 DEF Good, Exclusive, Inside, Writing
<1>4. Distinct(s) /\ Forward(s) /\ Heap(s) /\ Undisturbed(s)
  BY <1>1, <1>2, <1>3 DEF Shape, Task
<1>5. Heap(s)' /\ Forward(s)'
  BY <1>2, <1>4, HeapSame DEF Handy, Adding, Forward
<1>6. Fits(p)
  <2>1. Numbers = committed
    BY <1>4, ListedIs DEF Undisturbed
  <2>2. arg[p] \in Number /\ committed \in Seq(Number) /\ <<arg[p]>> \in Seq(Number)
    BY <1>2 DEF Types, Plain, Adding, Handy
  <2>3. Size(committed) \in Nat /\ Size(<<arg[p]>>) \in Nat
    BY <2>2, SizeType
  <2> QED BY <1>2, <2>1, <2>3, ListAssumption DEF TooLong, Fits
<1>7. pc'[p] = "link"
  BY <1>2 DEF Types, Plain
<1>8. Undisturbed(s)' /\ Fits(p)'
  BY <1>2, <1>4, <1>6 DEF Undisturbed, Backward, Data, Fits
<1>9. Task(p, s)'
  BY <1>7, <1>8 DEF Task
<1>10. Exclusive' /\ Shape(s)'
  <2>1. Exclusive
    BY DEF Good
  <2> QED BY <2>1, <1>2, <1>3, <1>4, <1>5, <1>9, WriterStays
<1> QED BY <1>2, <1>10 DEF Good, Unpoisoned

(* The head's link back to the last node is the first to go. *)
LEMMA LinkHeadGood ==
    ASSUME Types, Good, NEW p \in Proc, LinkHead(p)
    PROVE  Good'
<1> USE DEF Goto, links, history
<1>1. PICK s \in Seq(Node) : Shape(s)
  BY DEF Good
<1>2. /\ pc[p] = "link" /\ pc' = [pc EXCEPT ![p] = "linknew"]
      /\ after' = [after EXCEPT ![p] = prev[mylist]]
      /\ prev' = [prev EXCEPT ![mylist] = node[p]]
      /\ UNCHANGED <<arg, node, out, next, data, used, rwl, refused, committed>>
  BY DEF LinkHead
<1>3. /\ p \in Inside(Writing) /\ pc[p] \in Writing /\ "linknew" \in Writing
      /\ rwl.writer /\ rwl'.writer
  BY <1>2 DEF Good, Exclusive, Inside, Writing
<1>4. Distinct(s) /\ Forward(s) /\ Heap(s) /\ Undisturbed(s) /\ Fits(p)
  BY <1>1, <1>2, <1>3 DEF Shape, Task
<1>5. Heap(s)' /\ Forward(s)'
  BY <1>2, <1>4, HeapSame DEF Handy, Adding, Forward
<1>6. /\ Len(s) \in Nat /\ At(s, Len(s) + 1) = mylist
      /\ \A k \in 0..Len(s) : k # Len(s) => At(s, k + 1) # mylist
  BY <1>4, AtPlaces
<1>7. prev[mylist] = At(s, Len(s))
  BY <1>4, <1>6 DEF Undisturbed, Backward
<1>8. after'[p] = At(s, Len(s)) /\ pc'[p] = "linknew"
  BY <1>2, <1>7 DEF Types, Plain
<1>9. prev'[mylist] = node[p] /\ \A n \in Link : n # mylist => prev'[n] = prev[n]
  BY <1>2 DEF Types, Plain, Link
<1>10. Backward(s, {Len(s)})'
  BY <1>4, <1>6, <1>9, AtPlaces DEF Undisturbed, Backward
<1>11. Appending(p, s)'
  BY <1>2, <1>4, <1>8, <1>9, <1>10 DEF Appending, Undisturbed, Data, Fits
<1>12. Task(p, s)'
  BY <1>8, <1>11 DEF Task
<1>13. Exclusive' /\ Shape(s)'
  <2>1. Exclusive
    BY DEF Good
  <2> QED BY <2>1, <1>2, <1>3, <1>4, <1>5, <1>12, WriterStays
<1>14. Unpoisoned'
  <2>1. At(s, Len(s)) # Poison
    BY <1>4, <1>6, AtPlaces, ListAssumption DEF Link
  <2> QED BY <1>2, <1>8, <2>1 DEF Good, Unpoisoned, Types, Plain
<1> QED BY <1>2, <1>13, <1>14 DEF Good

(* The links of the new node are not yet part of the list. *)
LEMMA LinkNewGood ==
    ASSUME Types, Good, NEW p \in Proc, LinkNew(p)
    PROVE  Good'
<1> USE DEF Goto, links, history
<1>1. PICK s \in Seq(Node) : Shape(s)
  BY DEF Good
<1>2. /\ pc[p] = "linknew" /\ pc' = [pc EXCEPT ![p] = "linklast"]
      /\ next' = [next EXCEPT ![node[p]] = mylist]
      /\ prev' = [prev EXCEPT ![node[p]] = after[p]]
      /\ UNCHANGED <<arg, node, after, out, data, used, rwl, refused, committed>>
  BY DEF LinkNew
<1>3. p \in Inside(Writing) /\ pc[p] \in Writing /\ "linklast" \in Writing
  BY <1>2 DEF Inside, Writing
<1>4. Distinct(s) /\ Forward(s) /\ Heap(s) /\ Appending(p, s)
  BY <1>1, <1>2, <1>3 DEF Shape, Task
<1>5. node[p] \in Node /\ node[p] \notin Elements(s) /\ node[p] \in Link
  BY <1>2, <1>4 DEF Heap, Inside, Handy, Types, Plain, Link
<1>6. /\ next'[node[p]] = mylist /\ prev'[node[p]] = after[p]
      /\ \A n \in Link : n # node[p] => next'[n] = next[n] /\ prev'[n] = prev[n]
      /\ pc'[p] = "linklast"
  BY <1>2, <1>5 DEF Types, Plain
<1>7. Len(s) \in Nat /\ \A k \in Nat : At(s, k) \in Link /\ At(s, k) # node[p]
  BY <1>4, <1>5, AtPlaces, ListAssumption DEF At
<1>8. Forward(s)'
  BY <1>4, <1>6, <1>7 DEF Forward
<1>9. Heap(s)'
  BY <1>2, <1>4, HeapSame DEF Handy, Adding
<1>10. Backward(s, {Len(s)})'
  BY <1>4, <1>6, <1>7 DEF Appending, Backward
<1>11. prev'[mylist] = node[p]
  BY <1>4, <1>5, <1>6, ListAssumption DEF Appending, Link
<1>12. Appending(p, s)'
  BY <1>2, <1>4, <1>10, <1>11 DEF Appending, Data, Fits
<1>13. Task(p, s)'
  BY <1>2, <1>6, <1>12 DEF Task
<1>14. Exclusive' /\ Shape(s)'
  <2>1. Exclusive
    BY DEF Good
  <2> QED BY <2>1, <1>2, <1>3, <1>4, <1>8, <1>9, <1>13, WriterStays
<1> QED BY <1>2, <1>14 DEF Good, Unpoisoned

(* The last link makes the list one node longer. *)
LEMMA LinkLastGood ==
    ASSUME Types, Good, NEW p \in Proc, LinkLast(p)
    PROVE  Good'
<1> USE DEF Goto, links, history
<1>1. PICK s \in Seq(Node) : Shape(s)
  BY DEF Good
<1> DEFINE n == node[p]
           t == Append(s, n)
<1>2. /\ pc[p] = "linklast" /\ pc' = [pc EXCEPT ![p] = "unlock"]
      /\ next' = [next EXCEPT ![after[p]] = n]
      /\ UNCHANGED <<arg, node, after, out, prev, data, used, rwl, refused, committed>>
  BY DEF LinkLast
<1>3. p \in Inside(Writing) /\ pc[p] \in Writing /\ "unlock" \in Writing
  BY <1>2 DEF Inside, Writing
<1>4. /\ Distinct(s) /\ Forward(s) /\ Heap(s) /\ Appending(p, s)
      /\ next[n] = mylist /\ prev[n] = after[p]
  BY <1>1, <1>2, <1>3 DEF Shape, Task
<1>5. n \in Node /\ n \notin Elements(s) /\ n \in Link /\ n # mylist
  BY <1>2, <1>4, ListAssumption DEF Heap, Inside, Handy, Types, Plain, Link
<1>6. /\ Len(s) \in Nat /\ t \in Seq(Node) /\ Len(t) = Len(s) + 1
      /\ t[Len(s) + 1] = n /\ \A k \in 1..Len(s) : t[k] = s[k]
  BY <1>5, AppendProperties
<1>7. PICK m \in Nat : m = Len(s)
  BY <1>6
<1>8. PICK u \in Seq(Node) : u = t
  BY <1>6
<1>9. /\ Len(u) = m + 1 /\ u[m + 1] = n /\ \A k \in 1..m : u[k] = s[k]
  BY <1>6, <1>7, <1>8
<1> HIDE DEF t
<1>10. /\ \A k \in 0..m : At(u, k) = At(s, k)
       /\ At(u, m + 1) = n /\ At(u, m + 2) = mylist
  BY <1>7, <1>9 DEF At
<1>11. pc'[p] = "unlock" /\ next'[At(s, m)] = n
       /\ \A l \in Link : l # At(s, m) => next'[l] = next[l]
  <2>1. after[p] = At(s, m) /\ At(s, m) \in Link
    BY <1>4, <1>7, AtPlaces DEF Appending
  <2> QED BY <1>2, <2>1 DEF Types, Plain
<1>12. \A k \in 0..m : At(s, k) \in Link /\ At(s, k) # n
  BY <1>4, <1>5, <1>7, AtPlaces DEF At
<1>13. Distinct(u)
  <2>1. \A k \in 1..m : s[k] # n
    BY <1>5, <1>7 DEF Elements
  <2> QED BY <1>4, <1>7, <1>9, <2>1 DEF Distinct
<1>14. Forward(u)'
  <2> SUFFICES ASSUME NEW k \in 0..(m + 1)
               PROVE  next'[At(u, k)] = At(u, k + 1)
    BY <1>9 DEF Forward
  <2>1. CASE k < m
    <3>1. At(s, k) # At(s, m) /\ At(s, k) \in Link /\ k \in 0..m /\ k + 1 \in 0..m
      BY <2>1, <1>4, <1>7, AtPlaces
    <3> QED BY <3>1, <1>4, <1>7, <1>10, <1>11 DEF Forward
  <2>2. CASE k = m
    BY <2>2, <1>10, <1>11
  <2>3. CASE k = m + 1
    <3>1. next'[n] = next[n]
      BY <1>5, <1>7, <1>11, <1>12
    <3> QED BY <2>3, <3>1, <1>4, <1>10
  <2> QED BY <2>1, <2>2, <2>3
<1>15. Backward(u, {})'
  <2> SUFFICES ASSUME NEW k \in 0..(m + 1)
               PROVE  prev[At(u, k + 1)] = At(u, k)
    BY <1>2, <1>9 DEF Backward
  <2>1. CASE k < m
    <3>1. k \in (0..m) \ {m} /\ k \in 0..m /\ k + 1 \in 0..m
      BY <2>1
    <3>2. prev[At(s, k + 1)] = At(s, k)
      BY <3>1, <1>4, <1>7 DEF Appending, Backward
    <3> QED BY <3>1, <3>2, <1>10
  <2>2. CASE k = m
    BY <2>2, <1>4, <1>7, <1>10 DEF Appending
  <2>3. CASE k = m + 1
    BY <2>3, <1>4, <1>10 DEF Appending
  <2> QED BY <2>1, <2>2, <2>3
<1>16. \A q \in Proc : pc'[q] = IF q = p THEN "unlock" ELSE pc[q]
  BY <1>2 DEF Types, Plain
<1>17. /\ Inside(Handy)' = Inside(Handy) \ {p} /\ p \in Inside(Handy)
       /\ Inside(Adding)' \subseteq Inside(Adding)
  BY <1>2, <1>16 DEF Inside, Handy, Adding
<1>18. Elements(u) = Elements(s) \cup {n}
  BY <1>7, <1>9 DEF Elements
<1>19. Heap(u)'
  <2>1. used' = Elements(u) \cup {node'[q] : q \in Inside(Handy)'}
    BY <1>2, <1>4, <1>17, <1>18 DEF Heap
  <2>2. \A q \in Inside(Handy)' : node'[q] \notin Elements(u)
    BY <1>2, <1>4, <1>17, <1>18 DEF Heap
  <2>3. /\ \A q, r \in Inside(Handy)' : node'[q] = node'[r] => q = r
        /\ \A q \in Inside(Adding)' : data'[node'[q]] = arg'[q]
    BY <1>2, <1>4, <1>17 DEF Heap
  <2> QED BY <2>1, <2>2, <2>3 DEF Heap
<1>20. data[n] = arg[p] /\ arg[p] \in Number
  BY <1>2, <1>4 DEF Heap, Inside, Adding, Handy, Types, Plain
<1>21. Data(u) = Append(Data(s), arg[p]) /\ Data(s) \in Seq(Number)
  <2>1. \A k \in 1..m : Data(s)[k] = data[s[k]]
    BY <1>7, DataType
  <2>2. Data(s) \in Seq(Number) /\ Len(Data(s)) = m
    BY <1>7, DataType
  <2> DEFINE a == Append(Data(s), arg[p])
  <2>3. a \in Seq(Number) /\ Len(a) = m + 1 /\ a[m + 1] = arg[p]
        /\ \A k \in 1..m : a[k] = Data(s)[k]
    BY <2>2, <1>20, AppendProperties
  <2> HIDE DEF a
  <2>4. a = [k \in 1..(m + 1) |-> a[k]]
    BY <2>3
  <2>5. \A k \in 1..(m + 1) : a[k] = data[u[k]]
    <3> SUFFICES ASSUME NEW k \in 1..(m + 1)
                 PROVE  a[k] = data[u[k]]
      OBVIOUS
    <3>1. CASE k = m + 1
      BY <3>1, <2>3, <1>9, <1>20
    <3>2. CASE k \in 1..m
      BY <3>2, <2>1, <2>3, <1>9
    <3> QED BY <3>1, <3>2
  <2>6. Data(u) = a
    BY <2>4, <2>5, <1>9 DEF Data
  <2> QED BY <2>2, <2>6 DEF a
<1>22. Size(Data(u)) < PROCFS_MAX_SIZE /\ Answers(committed, Data(u), arg[p])
  BY <1>4, <1>20, <1>21, SizeAppend DEF Appending, Fits, Answers
<1>23. Data(u)' = Data(u)
  BY <1>2 DEF Data
<1>24. Task(p, u)'
  BY <1>2, <1>11, <1>15, <1>22, <1>23 DEF Task, Answers
<1>25. Exclusive' /\ Shape(u)'
  <2>1. Exclusive
    BY DEF Good
  <2> QED BY <2>1, <1>2, <1>3, <1>13, <1>14, <1>19, <1>24, WriterStays
<1> QED BY <1>2, <1>25 DEF Good, Unpoisoned

-----------------------------------------------------------------------------
(* remove and cleanup                                                      *)

(* A command that deletes disturbs nobody before it has the lock. *)
LEMMA BeginRemoveGood ==
    ASSUME Types, Good, NEW p \in Proc, BeginRemove(p)
    PROVE  Good'
<1> USE DEF Goto, Begin, links, history
<1>1. PICK s \in Seq(Node) : Shape(s)
  BY DEF Good
<1>2. /\ pc[p] = "idle" /\ pc' = [pc EXCEPT ![p] = "remove"]
      /\ \E v \in Number \cup {All} : arg' = [arg EXCEPT ![p] = v]
      /\ UNCHANGED <<node, after, out, next, prev, data, used, rwl, refused, committed>>
  BY DEF BeginRemove
<1>3. \A q \in Proc : q # p => arg'[q] = arg[q]
  BY <1>2 DEF Types, Plain
<1>4. Heap(s)'
  <2>1. Heap(s) /\ used' = used /\ data' = data /\ pc' = [pc EXCEPT ![p] = "remove"]
    BY <1>1, <1>2 DEF Shape
  <2>2. pc[p] \notin Handy /\ "remove" \notin Handy /\ "remove" \notin Adding
    BY <1>2 DEF Handy, Adding
  <2>3. \A q \in Proc : q # p => node'[q] = node[q] /\ arg'[q] = arg[q]
    BY <1>2, <1>3
  <2> QED BY <2>1, <2>2, <2>3, HeapSame
<1>5. \A q \in Proc \ {p} : /\ arg'[q] = arg[q] /\ node'[q] = node[q]
                            /\ after'[q] = after[q] /\ out'[q] = out[q]
  BY <1>2, <1>3
<1>6. pc[p] \notin Writing /\ "remove" \notin Writing /\ "remove" # "read" /\ Exclusive
  BY <1>2 DEF Writing, Good
<1>7. \A n \in Elements(s) : data'[n] = data[n]
  BY <1>2
<1>8. Exclusive' /\ Shape(s)'
  BY <1>1, <1>2, <1>4, <1>5, <1>6, <1>7, NoWriter
<1> QED BY <1>2, <1>8 DEF Good, Unpoisoned

(* Where a traversal goes on. *)
LEMMA VisitEffect ==
    ASSUME Types, NEW p \in Proc, NEW s \in Seq(Node), Distinct(s), Forward(s),
           NEW k \in Nat, Visit(p, At(s, k + 1))
    PROVE  /\ node'[p] = At(s, k + 1) /\ after'[p] = At(s, k + 2)
           /\ \A q \in Proc : q # p => node'[q] = node[q] /\ after'[q] = after[q]
           /\ Unpoisoned => Unpoisoned'
<1>1. PICK m \in Nat : m = Len(s)
  OBVIOUS
<1>2. /\ At(s, k + 1) \in Link /\ At(s, k + 2) \in Link
      /\ At(s, k + 1) # mylist <=> k + 1 \in 1..m
  BY <1>1, AtPlaces
<1>3. (IF At(s, k + 1) = mylist THEN mylist ELSE next[At(s, k + 1)]) = At(s, k + 2)
  <2>1. CASE At(s, k + 1) = mylist
    <3>1. k + 2 \notin 1..m
      BY <1>1, <1>2, <2>1
    <3> QED BY <2>1, <3>1, <1>1 DEF At
  <2>2. CASE At(s, k + 1) # mylist
    <3>1. k + 1 \in 0..m /\ k + 1 + 1 = k + 2
      BY <1>1, <1>2, <2>2
    <3> QED BY <2>2, <3>1, <1>1 DEF Forward
  <2> QED BY <2>1, <2>2
<1>4. /\ node' = [node EXCEPT ![p] = At(s, k + 1)]
      /\ after' = [after EXCEPT ![p] = At(s, k + 2)]
  BY <1>3 DEF Visit
<1>5. Poison \notin Link
  BY ListAssumption DEF Link
<1> QED BY <1>2, <1>4, <1>5 DEF Types, Plain, Unpoisoned

(* A traversal that deletes comes in when nobody is inside. *)
LEMMA LockToRemoveGood ==
    ASSUME Types, Good, NEW p \in Proc, LockToRemove(p)
    PROVE  Good'
<1> USE DEF Goto, links, history
<1>1. PICK s \in Seq(Node) : Shape(s)
  BY DEF Good
<1>2. /\ pc[p] = "remove" /\ pc' = [pc EXCEPT ![p] = "walk"] /\ WriteLock
      /\ Visit(p, next[mylist])
      /\ UNCHANGED <<arg, out, next, prev, data, used, refused, committed>>
  BY DEF LockToRemove
<1>3. rwl'.writer /\ ~rwl.writer /\ rwl.readers = 0
  BY <1>2, LockEffect DEF Types, Counted
<1>4. Distinct(s) /\ Forward(s) /\ Heap(s) /\ Undisturbed(s)
  BY <1>1, <1>3 DEF Shape
<1>5. next[mylist] = At(s, 0 + 1)
  <2>1. At(s, 0) = mylist /\ 0 \in 0..Len(s)
    BY DEF At
  <2> QED BY <1>4, <2>1 DEF Forward
<1>6. /\ node'[p] = At(s, 0 + 1) /\ after'[p] = At(s, 0 + 2)
      /\ \A q \in Proc : q # p => node'[q] = node[q] /\ after'[q] = after[q]
      /\ Unpoisoned'
  BY <1>2, <1>4, <1>5, VisitEffect DEF Good
<1>7. Heap(s)'
  <2>1. pc[p] \notin Handy /\ "walk" \notin Handy /\ "walk" \notin Adding
    BY <1>2 DEF Handy, Adding
  <2>2. \A q \in Proc : q # p => node'[q] = node[q] /\ arg'[q] = arg[q]
    BY <1>2, <1>6
  <2>3. used' = used /\ data' = data /\ pc' = [pc EXCEPT ![p] = "walk"]
    BY <1>2
  <2> QED BY <1>4, <2>1, <2>2, <2>3, HeapSame
<1>8. Forward(s)' /\ Backward(s, {})' /\ Data(s)' = Data(s)
  BY <1>2, <1>4 DEF Forward, Undisturbed, Backward, Data
<1>9. pc'[p] = "walk"
  BY <1>2 DEF Types, Plain
<1>10. Deleting(p, s, 0, node[p])'
  <2>1. Sifted(committed, Data(s), 0, arg[p])
    BY <1>4, DataType, SiftBegins DEF Undisturbed
  <2> QED BY <2>1, <1>2, <1>6, <1>8 DEF Deleting
<1>11. Task(p, s)'
  BY <1>6, <1>8, <1>9, <1>10 DEF Task
<1>12. "walk" \in Writing
  BY DEF Writing
<1>13. Exclusive' /\ Shape(s)'
  BY <1>2, <1>3, <1>4, <1>7, <1>8, <1>11, <1>12, WriterAlone DEF Good
<1> QED BY <1>2, <1>6, <1>13 DEF Good

\* What a process that deletes knows at the loop's head.
Walking(p, s, i) ==
    /\ Distinct(s) /\ Forward(s) /\ Heap(s) /\ Backward(s, {})
    /\ i \in Nat /\ Deleting(p, s, i, node[p]) /\ after[p] = At(s, i + 2)

(* It knows the list it goes through. *)
LEMMA AtLoopHead ==
    ASSUME Good, NEW p \in Proc, pc[p] = "walk"
    PROVE  \E s \in Seq(Node), i \in Nat : Walking(p, s, i)
<1>1. PICK s \in Seq(Node) : Shape(s)
  BY DEF Good
<1>2. Task(p, s)
  BY <1>1 DEF Shape, Inside, Writing
<1>3. PICK i \in Nat : Deleting(p, s, i, node[p]) /\ after[p] = At(s, i + 2)
  BY <1>2 DEF Task
<1>4. Walking(p, s, i)
  BY <1>1, <1>2, <1>3 DEF Walking, Shape, Task
<1> QED BY <1>4

(* It keeps an item. *)
LEMMA SkipGood ==
    ASSUME Types, Good, NEW p \in Proc, Skip(p)
    PROVE  Good'
<1> USE DEF links, history
<1>1. /\ pc[p] = "walk" /\ node[p] # mylist /\ ~Matches(p) /\ Visit(p, after[p])
      /\ UNCHANGED <<pc, arg, out, next, prev, data, used, rwl, refused, committed>>
  BY DEF Skip
<1>2. PICK s \in Seq(Node), i \in Nat : Walking(p, s, i)
  BY <1>1, AtLoopHead
<1>3. Distinct(s) /\ Forward(s) /\ Heap(s) /\ Backward(s, {})
  BY <1>2 DEF Walking
<1>4. PICK m \in Nat : m = Len(s)
  OBVIOUS
<1>5. /\ i + 1 \in 1..m /\ i < m /\ node[p] = s[i + 1]
      /\ Sifted(committed, Data(s), i, arg[p])
  BY <1>1, <1>2, <1>3, <1>4, AtPlaces DEF Walking, Deleting
<1>6. after[p] = At(s, (i + 1) + 1)
  BY <1>2 DEF Walking
<1>7. /\ node'[p] = At(s, (i + 1) + 1) /\ after'[p] = At(s, (i + 1) + 2)
      /\ \A q \in Proc : q # p => node'[q] = node[q] /\ after'[q] = after[q]
      /\ Unpoisoned'
  <2>1. i + 1 \in Nat /\ Visit(p, At(s, (i + 1) + 1)) /\ Unpoisoned
    BY <1>1, <1>6 DEF Good
  <2>2. PICK k \in Nat : k = i + 1
    BY <2>1
  <2>3. Visit(p, At(s, k + 1))
    BY <2>1, <2>2
  <2>4. /\ node'[p] = At(s, k + 1) /\ after'[p] = At(s, k + 2)
        /\ \A q \in Proc : q # p => node'[q] = node[q] /\ after'[q] = after[q]
        /\ Unpoisoned'
    BY <1>3, <2>1, <2>3, VisitEffect
  <2> QED BY <2>2, <2>4
<1>8. pc' = [pc EXCEPT ![p] = "walk"] /\ pc'[p] = "walk"
  BY <1>1 DEF Types, Plain
<1>9. Heap(s)'
  BY <1>1, <1>3, <1>7, <1>8, HeapSame DEF Handy, Adding
<1>10. Forward(s)' /\ Backward(s, {})' /\ Data(s)' = Data(s)
  BY <1>1, <1>3 DEF Forward, Backward, Data
<1>11. Sifted(committed, Data(s), i + 1, arg[p])
  <2>1. Data(s) \in Seq(Number) /\ Len(Data(s)) = m /\ Data(s)[i + 1] = data[node[p]]
    BY <1>4, <1>5, DataType
  <2>2. Keeps(arg[p], Data(s)[i + 1])
    BY <1>1, <2>1 DEF Matches, Keeps
  <2>3. committed \in Seq(Number)
    BY DEF Types, Plain
  <2> QED BY <1>5, <2>1, <2>2, <2>3, SiftKeeps
<1>12. Deleting(p, s, i + 1, node[p])'
  BY <1>1, <1>4, <1>5, <1>7, <1>10, <1>11 DEF Deleting
<1>13. Task(p, s)'
  <2>1. i + 1 \in Nat
    OBVIOUS
  <2> QED BY <2>1, <1>7, <1>8, <1>10, <1>12 DEF Task
<1>14. Exclusive' /\ Shape(s)'
  <2>1. Exclusive /\ pc[p] \in Writing /\ "walk" \in Writing
    BY <1>1 DEF Good, Writing
  <2> QED BY <2>1, <1>1, <1>3, <1>8, <1>9, <1>10, <1>13, WriterStays
<1> QED BY <1>1, <1>7, <1>14 DEF Good

(* It is back at the head: it has gone through the whole list. *)
LEMMA EndWalkGood ==
    ASSUME Types, Good, NEW p \in Proc, EndWalk(p)
    PROVE  Good'
<1> USE DEF Goto, links, history
<1>1. /\ pc[p] = "walk" /\ pc' = [pc EXCEPT ![p] = "unlock"] /\ node[p] = mylist
      /\ UNCHANGED <<arg, node, after, out, next, prev, data, used, rwl, refused, committed>>
  BY DEF EndWalk
<1>2. PICK s \in Seq(Node), i \in Nat : Walking(p, s, i)
  BY <1>1, AtLoopHead
<1>3. Distinct(s) /\ Forward(s) /\ Heap(s) /\ Backward(s, {})
  BY <1>2 DEF Walking
<1>4. PICK m \in Nat : m = Len(s)
  OBVIOUS
<1>5. Sifted(committed, Data(s), Len(Data(s)), arg[p])
  <2>1. i \in 0..m /\ Sifted(committed, Data(s), i, arg[p]) /\ ~ (i + 1 \in 1..m)
    BY <1>1, <1>2, <1>3, <1>4, AtPlaces DEF Walking, Deleting
  <2>2. i = m /\ Len(Data(s)) = m
    BY <2>1, <1>4, DataType
  <2> QED BY <2>1, <2>2
<1>6. Answers(committed, Data(s), arg[p]) /\ Size(Data(s)) <= Size(committed)
  <2>1. arg[p] \in Number \cup {All} /\ committed \in Seq(Number)
    BY DEF Types, Plain
  <2> QED BY <2>1, <1>5, DataType, SiftEnds, ListAssumption DEF Answers
<1>7. Size(Data(s)) < PROCFS_MAX_SIZE
  <2>1. Size(Data(s)) \in Nat /\ Size(committed) \in Nat
    BY DataType, SizeType DEF Types, Plain
  <2> QED BY <2>1, <1>6, ListAssumption DEF Good
<1>8. Heap(s)'
  BY <1>1, <1>3, HeapSame DEF Handy, Adding
<1>9. Forward(s)' /\ Backward(s, {})' /\ Data(s)' = Data(s)
  BY <1>1, <1>3 DEF Forward, Backward, Data
<1>10. pc'[p] = "unlock"
  BY <1>1 DEF Types, Plain
<1>11. Task(p, s)'
  BY <1>1, <1>6, <1>7, <1>9, <1>10 DEF Task, Answers
<1>12. Exclusive' /\ Shape(s)'
  <2>1. Exclusive /\ pc[p] \in Writing /\ "unlock" \in Writing
    BY <1>1 DEF Good, Writing
  <2> QED BY <2>1, <1>1, <1>3, <1>8, <1>9, <1>11, WriterStays
<1> QED BY <1>1, <1>12 DEF Good, Unpoisoned

(* The node after the deleted one is linked to the one before. *)
LEMMA UnlinkBackGood ==
    ASSUME Types, Good, NEW p \in Proc, UnlinkBack(p)
    PROVE  Good'
<1> USE DEF Goto, links, history
<1>1. /\ pc[p] = "walk" /\ pc' = [pc EXCEPT ![p] = "unlink"]
      /\ node[p] # mylist /\ Matches(p)
      /\ prev' = [prev EXCEPT ![next[node[p]]] = prev[node[p]]]
      /\ UNCHANGED <<arg, node, after, out, next, data, used, rwl, refused, committed>>
  BY DEF UnlinkBack
<1>2. PICK s \in Seq(Node), i \in Nat : Walking(p, s, i)
  BY <1>1, AtLoopHead
<1>3. Distinct(s) /\ Forward(s) /\ Heap(s) /\ Backward(s, {})
  BY <1>2 DEF Walking
<1>4. PICK m \in Nat : m = Len(s)
  OBVIOUS
<1>5. /\ i + 1 \in 1..m /\ i < m /\ node[p] = At(s, i + 1)
      /\ Deleting(p, s, i, node[p]) /\ after[p] = At(s, i + 2)
  BY <1>1, <1>2, <1>3, <1>4, AtPlaces DEF Walking, Deleting
<1>6. next[node[p]] = At(s, i + 2)
  <2>1. i + 1 \in 0..m /\ (i + 1) + 1 = i + 2
    BY <1>5
  <2> QED BY <2>1, <1>3, <1>4, <1>5 DEF Forward
<1>7. prev[node[p]] = At(s, i)
  <2>1. i \in (0..m) \ {}
    BY <1>5
  <2> QED BY <2>1, <1>3, <1>4, <1>5 DEF Backward
<1>8. /\ prev'[At(s, i + 2)] = At(s, i)
      /\ \A n \in Link : n # At(s, i + 2) => prev'[n] = prev[n]
  <2>1. At(s, i + 2) \in Link
    BY <1>3, AtPlaces
  <2> QED BY <2>1, <1>1, <1>6, <1>7 DEF Types, Plain
<1>9. Backward(s, {i + 1})'
  <2> SUFFICES ASSUME NEW k \in (0..m) \ {i + 1}
               PROVE  prev'[At(s, k + 1)] = At(s, k)
    BY <1>4 DEF Backward
  <2>1. k + 1 \in 1..(m + 1) /\ i + 2 \in 1..(m + 1) /\ k + 1 # i + 2 /\ k \in (0..m) \ {}
    BY <1>5
  <2>2. At(s, k + 1) \in Link /\ At(s, k + 1) # At(s, i + 2)
    BY <2>1, <1>3, <1>4, AtPlaces
  <2> QED BY <2>1, <2>2, <1>3, <1>4, <1>8 DEF Backward
<1>10. Forward(s)' /\ Data(s)' = Data(s)
  BY <1>1, <1>3 DEF Forward, Data
<1>11. Heap(s)'
  BY <1>1, <1>3, HeapSame DEF Handy, Adding
<1>12. pc'[p] = "unlink"
  BY <1>1 DEF Types, Plain
<1>13. Deleting(p, s, i, node[p])' /\ (~ Keeps(arg[p], data[node[p]]))'
  BY <1>1, <1>5, <1>10 DEF Deleting, Matches, Keeps
<1>14. Task(p, s)'
  BY <1>1, <1>4, <1>5, <1>8, <1>9, <1>12, <1>13 DEF Task
<1>15. Exclusive' /\ Shape(s)'
  <2>1. Exclusive /\ pc[p] \in Writing /\ "unlink" \in Writing
    BY <1>1 DEF Good, Writing
  <2> QED BY <2>1, <1>1, <1>3, <1>10, <1>11, <1>14, WriterStays
<1> QED BY <1>1, <1>15 DEF Good, Unpoisoned

(* Where the nodes stand when one is taken out of the list. *)
LEMMA AtWithout ==
    ASSUME NEW s \in Seq(Node), NEW i \in Nat, i < Len(s),
           NEW u \in Seq(Node), Skips(u, s, i + 1)
    PROVE  /\ \A k \in 0..i : At(u, k) = At(s, k)
           /\ \A k \in Nat : k > i => At(u, k) = At(s, k + 1)
<1>1. PICK m \in Nat : m = Len(s)
  OBVIOUS
<1>2. i < m /\ Len(u) = m - 1 /\ \A k \in 1..(m - 1) : u[k] = IF k < i + 1 THEN s[k] ELSE s[k + 1]
  BY <1>1 DEF Skips
<1>3. ASSUME NEW k \in 0..i
      PROVE  At(u, k) = At(s, k)
  BY <1>1, <1>2 DEF At
<1>4. ASSUME NEW k \in Nat, k > i
      PROVE  At(u, k) = At(s, k + 1)
  <2>1. k \in 1..(m - 1) <=> k + 1 \in 1..m
    BY <1>4
  <2>2. k \in 1..(m - 1) => u[k] = s[k + 1]
    BY <1>2, <1>4
  <2> QED BY <1>1, <1>2, <2>1, <2>2 DEF At
<1> QED BY <1>3, <1>4

(* The list is one node shorter, and the node is in the writer's hands. *)
LEMMA UnlinkForwardGood ==
    ASSUME Types, Good, NEW p \in Proc, UnlinkForward(p)
    PROVE  Good'
<1> USE DEF Goto, links, history
<1>1. /\ pc[p] = "unlink" /\ pc' = [pc EXCEPT ![p] = "free"]
      /\ next' = [next EXCEPT ![prev[node[p]]] = next[node[p]]]
      /\ UNCHANGED <<arg, node, after, out, prev, data, used, rwl, refused, committed>>
  BY DEF UnlinkForward
<1>2. PICK s \in Seq(Node) : Shape(s)
  BY DEF Good
<1>3. Distinct(s) /\ Forward(s) /\ Heap(s) /\ Task(p, s)
  BY <1>1, <1>2 DEF Shape, Inside, Writing
<1>4. PICK m \in Nat : m = Len(s)
  OBVIOUS
<1>5. PICK i \in Nat :
        /\ Deleting(p, s, i, node[p]) /\ i < m
        /\ ~ Keeps(arg[p], data[node[p]])
        /\ after[p] = At(s, i + 2)
        /\ Backward(s, {i + 1}) /\ prev[At(s, i + 2)] = At(s, i)
  BY <1>1, <1>3, <1>4 DEF Task
<1>6. i + 1 \in 1..m /\ node[p] = At(s, i + 1) /\ node[p] = s[i + 1]
  BY <1>4, <1>5 DEF Deleting, At
<1> DEFINE w == SubSeq(s, 1, (i + 1) - 1) \o SubSeq(s, (i + 1) + 1, Len(s))
<1>7. w \in Seq(Node) /\ Skips(w, s, i + 1)
  BY <1>4, <1>6, AroundPosition
<1> HIDE DEF w
<1>8. PICK u \in Seq(Node) : u = w
  BY <1>7
<1>9. Skips(u, s, i + 1)
  BY <1>7, <1>8
<1>10. Len(u) = m - 1
  BY <1>4, <1>9 DEF Skips
<1>11. Distinct(u) /\ Elements(u) = Elements(s) \ {node[p]}
  BY <1>3, <1>4, <1>6, <1>9, TakenOut
<1>12. /\ \A k \in 0..i : At(u, k) = At(s, k)
       /\ \A k \in Nat : k > i => At(u, k) = At(s, k + 1)
  BY <1>4, <1>5, <1>9, AtWithout
<1>13. next[node[p]] = At(s, i + 2)
  <2>1. i + 1 \in 0..m /\ (i + 1) + 1 = i + 2
    BY <1>6
  <2> QED BY <2>1, <1>3, <1>4, <1>6 DEF Forward
<1>14. prev[node[p]] = At(s, i)
  <2>1. i \in (0..m) \ {i + 1}
    BY <1>6
  <2> QED BY <2>1, <1>4, <1>5, <1>6 DEF Backward
<1>15. /\ next'[At(s, i)] = At(s, i + 2)
       /\ \A n \in Link : n # At(s, i) => next'[n] = next[n]
  <2>1. At(s, i) \in Link
    BY <1>3, AtPlaces
  <2> QED BY <2>1, <1>1, <1>13, <1>14 DEF Types, Plain
<1>16. Forward(u)'
  <2> SUFFICES ASSUME NEW k \in 0..(m - 1)
               PROVE  next'[At(u, k)] = At(u, k + 1)
    BY <1>10 DEF Forward
  <2>1. CASE k < i
    <3>1. k \in 0..m /\ i \in 0..m /\ k \in 0..i /\ k + 1 \in 0..i /\ k # i
      BY <2>1, <1>5
    <3>2. At(s, k) # At(s, i) /\ At(s, k) \in Link
      BY <3>1, <1>3, <1>4, AtPlaces
    <3> QED BY <3>1, <3>2, <1>3, <1>4, <1>12, <1>15 DEF Forward
  <2>2. CASE k = i
    <3>1. At(u, i + 1) = At(s, (i + 1) + 1) /\ At(u, i) = At(s, i)
      BY <1>12
    <3> QED BY <2>2, <3>1, <1>15
  <2>3. CASE k > i
    <3>1. /\ k + 1 \in 0..m /\ i \in 0..m /\ k + 1 # i /\ (k + 1) + 1 \in Nat
          /\ k + 1 \in Nat /\ k + 1 > i /\ k \in Nat
      BY <2>3, <1>5
    <3>2. At(s, k + 1) # At(s, i) /\ At(s, k + 1) \in Link
      BY <3>1, <1>3, <1>4, AtPlaces
    <3>3. At(u, k) = At(s, k + 1) /\ At(u, k + 1) = At(s, (k + 1) + 1)
      BY <2>3, <3>1, <1>12
    <3>4. next[At(s, k + 1)] = At(s, (k + 1) + 1)
      BY <3>1, <1>3, <1>4 DEF Forward
    <3> QED BY <3>2, <3>3, <3>4, <1>15
  <2> QED BY <2>1, <2>2, <2>3
<1>17. Backward(u, {})'
  <2> SUFFICES ASSUME NEW k \in 0..(m - 1)
               PROVE  prev[At(u, k + 1)] = At(u, k)
    BY <1>1, <1>10 DEF Backward
  <2>1. CASE k < i
    <3>1. k \in (0..m) \ {i + 1} /\ k \in 0..i /\ k + 1 \in 0..i
      BY <2>1, <1>5
    <3> QED BY <3>1, <1>4, <1>5, <1>12 DEF Backward
  <2>2. CASE k = i
    <3>1. At(u, i + 1) = At(s, (i + 1) + 1) /\ At(u, i) = At(s, i)
      BY <1>12
    <3> QED BY <2>2, <3>1, <1>5
  <2>3. CASE k > i
    <3>1. k + 1 \in (0..m) \ {i + 1} /\ k + 1 \in Nat /\ k + 1 > i /\ k \in Nat
      BY <2>3
    <3>2. At(u, k) = At(s, k + 1) /\ At(u, k + 1) = At(s, (k + 1) + 1)
      BY <2>3, <3>1, <1>12
    <3>3. prev[At(s, (k + 1) + 1)] = At(s, k + 1)
      BY <3>1, <1>4, <1>5 DEF Backward
    <3> QED BY <3>2, <3>3
  <2> QED BY <2>1, <2>2, <2>3
<1>18. Data(u)' = Data(u)
  BY <1>1 DEF Data
<1>19. Sifted(committed, Data(u), i, arg[p])
  <2>1. /\ Data(s) \in Seq(Number) /\ Len(Data(s)) = m
        /\ \A k \in 1..m : Data(s)[k] = data[s[k]]
    BY <1>4, DataType
  <2>2. /\ Data(u) \in Seq(Number) /\ Len(Data(u)) = m - 1
        /\ \A k \in 1..(m - 1) : Data(u)[k] = data[u[k]]
    BY <1>10, DataType
  <2>3. Skips(Data(u), Data(s), i + 1)
    <3> SUFFICES ASSUME NEW k \in 1..(m - 1)
                 PROVE  Data(u)[k] = IF k < i + 1 THEN Data(s)[k] ELSE Data(s)[k + 1]
      BY <2>1, <2>2 DEF Skips
    <3>1. u[k] = IF k < i + 1 THEN s[k] ELSE s[k + 1]
      BY <1>9, <1>10 DEF Skips
    <3>2. k \in 1..m /\ k + 1 \in 1..m
      OBVIOUS
    <3> QED BY <3>1, <3>2, <2>1, <2>2
  <2>4. ~ Keeps(arg[p], Data(s)[i + 1]) /\ i < Len(Data(s))
    BY <2>1, <1>5, <1>6
  <2>5. Sifted(committed, Data(s), i, arg[p]) /\ committed \in Seq(Number)
    BY <1>5 DEF Deleting, Types, Plain
  <2> QED BY <2>1, <2>2, <2>3, <2>4, <2>5, SiftDrops
<1>20. Deleting(p, u, i, after[p])'
  <2>1. after[p] = At(u, i + 1) /\ i \in 0..Len(u)
    <3>1. At(u, i + 1) = At(s, (i + 1) + 1)
      BY <1>12
    <3> QED BY <3>1, <1>5, <1>10
  <2> QED BY <2>1, <1>1, <1>18, <1>19 DEF Deleting
<1>21. \A q \in Proc : pc'[q] = IF q = p THEN "free" ELSE pc[q]
  BY <1>1 DEF Types, Plain
<1>22. Heap(u)'
  <2>1. /\ Inside(Handy)' = Inside(Handy) \cup {p} /\ p \notin Inside(Handy)
        /\ Inside(Adding)' = Inside(Adding)
    BY <1>1, <1>21 DEF Inside, Handy, Adding
  <2>2. node[p] \in Elements(s)
    BY <1>4, <1>6 DEF Elements
  <2>3. used' = Elements(u) \cup {node'[q] : q \in Inside(Handy)'}
    BY <1>1, <1>3, <1>11, <2>1, <2>2 DEF Heap
  <2>4. \A q \in Inside(Handy)' : node'[q] \notin Elements(u)
    BY <1>1, <1>3, <1>11, <2>1 DEF Heap
  <2>5. \A q, r \in Inside(Handy)' : node'[q] = node'[r] => q = r
    BY <1>1, <1>3, <2>1, <2>2 DEF Heap
  <2>6. \A q \in Inside(Adding)' : data'[node'[q]] = arg'[q]
    BY <1>1, <1>3, <2>1 DEF Heap
  <2> QED BY <2>3, <2>4, <2>5, <2>6 DEF Heap
<1>23. Task(p, u)'
  BY <1>17, <1>20, <1>21 DEF Task
<1>24. Exclusive' /\ Shape(u)'
  <2>1. Exclusive /\ pc[p] \in Writing /\ "free" \in Writing
    BY <1>1 DEF Good, Writing
  <2> QED BY <2>1, <1>1, <1>11, <1>16, <1>22, <1>23, WriterStays
<1> QED BY <1>1, <1>24 DEF Good, Unpoisoned

(* The node is freed, and what the traversal goes on to is in the list. *)
LEMMA FreeNodeGood ==
    ASSUME Types, Good, NEW p \in Proc, FreeNode(p)
    PROVE  Good'
<1> USE DEF Goto, links, history
<1>1. /\ pc[p] = "free" /\ pc' = [pc EXCEPT ![p] = "walk"]
      /\ next' = [next EXCEPT ![node[p]] = Poison]
      /\ prev' = [prev EXCEPT ![node[p]] = Poison]
      /\ used' = used \ {node[p]} /\ Visit(p, after[p])
      /\ UNCHANGED <<arg, out, data, rwl, refused, committed>>
  BY DEF FreeNode
<1>2. PICK s \in Seq(Node) : Shape(s)
  BY DEF Good
<1>3. Distinct(s) /\ Forward(s) /\ Heap(s) /\ Task(p, s) /\ Backward(s, {})
  BY <1>1, <1>2 DEF Shape, Inside, Writing, Task
<1>4. PICK i \in Nat : Deleting(p, s, i, after[p])
  BY <1>1, <1>3 DEF Task
<1>5. node[p] \in Node /\ node[p] \notin Elements(s)
  BY <1>1, <1>3 DEF Heap, Inside, Handy, Types, Plain
<1>6. \A n \in Link : n # node[p] => next'[n] = next[n] /\ prev'[n] = prev[n]
  BY <1>1 DEF Types, Plain
<1>7. Len(s) \in Nat /\ \A k \in Nat : At(s, k) \in Link /\ At(s, k) # node[p]
  BY <1>3, <1>5, AtPlaces, ListAssumption DEF At
<1>8. Forward(s)' /\ Backward(s, {})'
  <2>1. ASSUME NEW k \in 0..Len(s)
        PROVE  next'[At(s, k)] = At(s, k + 1) /\ prev'[At(s, k + 1)] = At(s, k)
    <3>1. k \in Nat /\ k + 1 \in Nat /\ k \in (0..Len(s)) \ {}
      BY <1>7
    <3>2. next[At(s, k)] = At(s, k + 1) /\ prev[At(s, k + 1)] = At(s, k)
      BY <3>1, <1>3 DEF Forward, Backward
    <3> QED BY <3>1, <3>2, <1>6, <1>7
  <2> QED BY <2>1 DEF Forward, Backward
<1>9. after[p] = At(s, i + 1)
  BY <1>4 DEF Deleting
<1>10. /\ node'[p] = At(s, i + 1) /\ after'[p] = At(s, i + 2)
       /\ \A q \in Proc : q # p => node'[q] = node[q] /\ after'[q] = after[q]
       /\ Unpoisoned'
  BY <1>1, <1>3, <1>9, VisitEffect DEF Good
<1>11. \A q \in Proc : pc'[q] = IF q = p THEN "walk" ELSE pc[q]
  BY <1>1 DEF Types, Plain
<1>12. Heap(s)'
  <2>1. /\ Inside(Handy)' = Inside(Handy) \ {p} /\ p \in Inside(Handy)
        /\ Inside(Adding)' = Inside(Adding) /\ p \notin Inside(Adding)
        /\ Inside(Handy) \subseteq Proc /\ Inside(Adding) \subseteq Inside(Handy)
    BY <1>1, <1>11 DEF Inside, Handy, Adding
  <2>2. \A q \in Inside(Handy)' : node'[q] = node[q] /\ node[q] # node[p]
    BY <1>3, <1>10, <2>1 DEF Heap
  <2>3. used' = Elements(s) \cup {node'[q] : q \in Inside(Handy)'}
    BY <1>1, <1>3, <1>5, <2>1, <2>2 DEF Heap
  <2>4. \A q \in Inside(Handy)' : node'[q] \notin Elements(s)
    BY <1>3, <2>1, <2>2 DEF Heap
  <2>5. \A q, r \in Inside(Handy)' : node'[q] = node'[r] => q = r
    BY <1>3, <2>1, <2>2 DEF Heap
  <2>6. \A q \in Inside(Adding)' : data'[node'[q]] = arg'[q]
    BY <1>1, <1>3, <2>1, <2>2 DEF Heap
  <2> QED BY <2>3, <2>4, <2>5, <2>6 DEF Heap
<1>13. Deleting(p, s, i, node[p])'
  <2>1. Data(s)' = Data(s)
    BY <1>1 DEF Data
  <2> QED BY <2>1, <1>1, <1>4, <1>10 DEF Deleting
<1>14. Task(p, s)'
  BY <1>8, <1>10, <1>11, <1>13 DEF Task
<1>15. Exclusive' /\ Shape(s)'
  <2>1. Exclusive /\ pc[p] \in Writing /\ "walk" \in Writing
    BY <1>1 DEF Good, Writing
  <2> QED BY <2>1, <1>1, <1>3, <1>8, <1>12, <1>14, WriterStays
<1> QED BY <1>1, <1>10, <1>15 DEF Good

(* What a writer leaves is what its command makes of the list. *)
LEMMA UnlockGood ==
    ASSUME Types, Good, NEW p \in Proc, Unlock(p), ~refused
    PROVE  /\ Good' /\ Numbers \in Seq(Number)
           /\ arg[p] \in Number \cup {All} /\ Answers(committed, committed', arg[p])
<1> USE DEF Goto, links, history
<1>1. /\ pc[p] = "unlock" /\ pc' = [pc EXCEPT ![p] = "idle"] /\ WriteUnlock
      /\ committed' = Numbers
      /\ arg' = [arg EXCEPT ![p] = All]
      /\ node' = [node EXCEPT ![p] = mylist]
      /\ after' = [after EXCEPT ![p] = mylist]
      /\ UNCHANGED <<out, next, prev, data, used, refused>>
  BY DEF Unlock
<1>2. PICK s \in Seq(Node) : Shape(s)
  BY DEF Good
<1>3. Distinct(s) /\ Forward(s) /\ Heap(s) /\ Task(p, s)
  BY <1>1, <1>2 DEF Shape, Inside, Writing
<1>4. /\ Backward(s, {}) /\ Size(Data(s)) < PROCFS_MAX_SIZE
      /\ Answers(committed, Data(s), arg[p])
  BY <1>1, <1>3 DEF Task
<1>5. Numbers = Data(s) /\ Data(s) \in Seq(Number) /\ committed' = Data(s)
  BY <1>1, <1>3, ListedIs, DataType
<1>6. Forward(s)' /\ Undisturbed(s)'
  <2>1. Data(s)' = Data(s)
    BY <1>1 DEF Data
  <2> QED BY <2>1, <1>1, <1>3, <1>4, <1>5 DEF Forward, Backward, Undisturbed
<1>7. \A q \in Proc : q # p => node'[q] = node[q] /\ arg'[q] = arg[q] /\ after'[q] = after[q]
  BY <1>1 DEF Types, Plain
<1>8. Heap(s)'
  <2>1. pc[p] \notin Handy /\ "idle" \notin Handy /\ "idle" \notin Adding
    BY <1>1 DEF Handy, Adding
  <2>2. used' = used /\ data' = data /\ pc' = [pc EXCEPT ![p] = "idle"]
    BY <1>1
  <2> QED BY <1>3, <1>7, <2>1, <2>2, HeapSame
<1>9. Exclusive' /\ Shape(s)'
  <2>1. Exclusive /\ pc[p] \in Writing
    BY <1>1 DEF Good, Writing
  <2>2. ~rwl'.writer
    BY <1>1, LockEffect DEF Types, Counted
  <2> QED BY <2>1, <2>2, <1>1, <1>3, <1>6, <1>8, WriterGone
<1>10. Unpoisoned'
  <2>1. node'[p] = mylist /\ after'[p] = mylist /\ mylist # Poison
    BY <1>1, ListAssumption DEF Types, Plain
  <2> QED BY <2>1, <1>7 DEF Good, Unpoisoned
<1>11. Size(committed)' < PROCFS_MAX_SIZE
  <2>1. Size(committed)' = Size(committed')
    BY DEF Size
  <2> QED BY <2>1, <1>4, <1>5
<1>12. arg[p] \in Number \cup {All} /\ Answers(committed, committed', arg[p])
  BY <1>4, <1>5 DEF Types, Plain
<1> QED BY <1>5, <1>9, <1>10, <1>11, <1>12 DEF Good

-----------------------------------------------------------------------------
(* read                                                                    *)

(* A reader comes in when no writer is inside. *)
LEMMA LockToReadGood ==
    ASSUME Types, Good, NEW p \in Proc, LockToRead(p)
    PROVE  Good'
<1> USE DEF Goto, Begin, links, history
<1>1. /\ pc[p] = "idle" /\ pc' = [pc EXCEPT ![p] = "read"] /\ ReadLock
      /\ node' = [node EXCEPT ![p] = next[mylist]]
      /\ UNCHANGED <<arg, after, out, next, prev, data, used, refused, committed>>
  BY DEF LockToRead
<1>2. PICK s \in Seq(Node) : Shape(s)
  BY DEF Good
<1>3. Distinct(s) /\ Forward(s) /\ Heap(s)
  BY <1>2 DEF Shape
<1>4. next[mylist] = At(s, 0 + 1)
  <2>1. At(s, 0) = mylist /\ 0 \in 0..Len(s)
    BY DEF At
  <2> QED BY <1>3, <2>1 DEF Forward
<1>5. /\ node'[p] = At(s, 0 + 1)
      /\ \A q \in Proc : q # p => node'[q] = node[q]
  BY <1>1, <1>4 DEF Types, Plain
<1>6. out'[p] = << >>
  BY <1>1 DEF Types, Plain
<1>7. Reading(p, s)'
  BY <1>5, <1>6 DEF Reading
<1>8. pc[p] \notin Handy /\ "read" \notin Handy /\ "read" \notin Adding
  BY <1>1 DEF Handy, Adding
<1>9. Heap(s)'
  <2>1. \A q \in Proc : q # p => node'[q] = node[q] /\ arg'[q] = arg[q]
    BY <1>1, <1>5
  <2>2. used' = used /\ data' = data /\ pc' = [pc EXCEPT ![p] = "read"]
    BY <1>1
  <2> QED BY <1>3, <1>8, <2>1, <2>2, HeapSame
<1>10. Exclusive' /\ Shape(s)'
  <2>1. \A q \in Proc \ {p} : /\ arg'[q] = arg[q] /\ node'[q] = node[q]
                              /\ after'[q] = after[q] /\ out'[q] = out[q]
    BY <1>1, <1>5
  <2>2. pc[p] \notin Writing /\ "read" \notin Writing /\ Exclusive
    BY <1>1 DEF Writing, Good
  <2>3. rwl'.writer = rwl.writer /\ ~rwl.writer
    BY <1>1, LockEffect DEF Types, Counted
  <2>4. next' = next /\ prev' = prev /\ committed' = committed
    BY <1>1
  <2>5. pc' = [pc EXCEPT ![p] = "read"]
    BY <1>1
  <2>6. \A n \in Elements(s) : data'[n] = data[n]
    BY <1>1
  <2> QED BY <1>2, <1>7, <1>9, <2>1, <2>2, <2>3, <2>4, <2>5, <2>6, NoWriter
<1>11. Unpoisoned'
  <2>1. node'[p] # Poison
    <3>1. 0 + 1 \in Nat
      OBVIOUS
    <3> QED BY <3>1, <1>3, <1>5, AtPlaces, ListAssumption DEF Link
  <2> QED BY <2>1, <1>1, <1>5 DEF Good, Unpoisoned
<1> QED BY <1>1, <1>10, <1>11 DEF Good

\* What a reader knows at the loop's head.
(* While it is inside nobody changes the list. *)
LEMMA AtItem ==
    ASSUME Types, Good, NEW p \in Proc, pc[p] = "read"
    PROVE  \E s \in Seq(Node) : Shape(s) /\ Reading(p, s) /\ Undisturbed(s) /\ ~rwl.writer
<1>1. PICK s \in Seq(Node) : Shape(s)
  BY DEF Good
<1>2. p \in Inside({"read"})
  BY DEF Inside
<1>3. ~rwl.writer
  BY <1>2 DEF Good, Exclusive
<1> QED BY <1>1, <1>2, <1>3 DEF Shape

(* It writes the number of the node where it stands. *)
LEMMA ReadItemGood ==
    ASSUME Types, Good, NEW p \in Proc, ReadItem(p)
    PROVE  Good'
<1> USE DEF links, history
<1>1. /\ pc[p] = "read" /\ node[p] \in Node
      /\ out' = [out EXCEPT ![p] = Append(@, data[node[p]])]
      /\ node' = [node EXCEPT ![p] = next[node[p]]]
      /\ UNCHANGED <<pc, arg, after, next, prev, data, used, rwl, refused, committed>>
  BY DEF ReadItem
<1>2. PICK s \in Seq(Node) : Shape(s) /\ Reading(p, s) /\ ~rwl.writer
  BY <1>1, AtItem
<1>3. Distinct(s) /\ Forward(s) /\ Heap(s)
  BY <1>2 DEF Shape
<1>4. PICK m \in Nat : m = Len(s)
  OBVIOUS
<1>5. out[p] \in Seq(Number) /\ data[node[p]] \in Number
  BY <1>1 DEF Types, Plain
<1>6. PICK n \in Nat : n = Len(out[p])
  BY <1>5
<1>7. n <= m /\ node[p] = At(s, n + 1) /\ \A k \in 1..n : out[p][k] = data[s[k]]
  BY <1>2, <1>4, <1>6 DEF Reading
<1>8. n + 1 \in 1..m /\ node[p] = s[n + 1]
  BY <1>1, <1>4, <1>7, ListAssumption DEF At
<1>9. next[node[p]] = At(s, (n + 1) + 1)
  BY <1>3, <1>4, <1>7, <1>8 DEF Forward
<1>10. /\ node'[p] = At(s, (n + 1) + 1) /\ out'[p] = Append(out[p], data[node[p]])
       /\ \A q \in Proc : q # p => node'[q] = node[q] /\ out'[q] = out[q]
  BY <1>1, <1>9 DEF Types, Plain
<1>11. PICK o \in Seq(Number) : o = Append(out[p], data[node[p]])
  <2>1. Append(out[p], data[node[p]]) \in Seq(Number)
    BY <1>5, AppendProperties
  <2> QED BY <2>1
<1>12. /\ Len(o) = n + 1 /\ o[n + 1] = data[node[p]]
       /\ \A k \in 1..n : o[k] = out[p][k]
  BY <1>5, <1>6, <1>11, AppendProperties
<1>13. \A k \in 1..(n + 1) : o[k] = data[s[k]]
  BY <1>7, <1>8, <1>12
<1>14. Reading(p, s)'
  <2>1. out'[p] = o /\ Len(out'[p]) = n + 1 /\ n + 1 <= Len(s)
    BY <1>4, <1>8, <1>10, <1>11, <1>12
  <2> QED BY <2>1, <1>1, <1>10, <1>13 DEF Reading
<1>15. pc[p] \notin Handy /\ "read" \notin Handy /\ "read" \notin Adding
  BY <1>1 DEF Handy, Adding
<1>16. pc' = [pc EXCEPT ![p] = "read"]
  BY <1>1 DEF Types, Plain
<1>17. Heap(s)'
  <2>1. \A q \in Proc : q # p => node'[q] = node[q] /\ arg'[q] = arg[q]
    BY <1>1, <1>10
  <2>2. used' = used /\ data' = data
    BY <1>1
  <2> QED BY <1>3, <1>15, <1>16, <2>1, <2>2, HeapSame
<1>18. Exclusive' /\ Shape(s)'
  <2>1. \A q \in Proc \ {p} : /\ arg'[q] = arg[q] /\ node'[q] = node[q]
                              /\ after'[q] = after[q] /\ out'[q] = out[q]
    BY <1>1, <1>10
  <2>2. pc[p] \notin Writing /\ "read" \notin Writing /\ Exclusive
    BY <1>1 DEF Writing, Good
  <2>3. rwl'.writer = rwl.writer /\ ~rwl.writer
    BY <1>1, <1>2
  <2>4. next' = next /\ prev' = prev /\ committed' = committed
    BY <1>1
  <2>6. \A l \in Elements(s) : data'[l] = data[l]
    BY <1>1
  <2> QED BY <1>2, <1>14, <1>16, <1>17, <2>1, <2>2, <2>3, <2>4, <2>6, NoWriter
<1>19. Unpoisoned'
  <2>1. node'[p] # Poison
    <3>1. (n + 1) + 1 \in Nat
      OBVIOUS
    <3> QED BY <3>1, <1>3, <1>10, AtPlaces, ListAssumption DEF Link
  <2> QED BY <2>1, <1>1, <1>10 DEF Good, Unpoisoned
<1> QED BY <1>1, <1>18, <1>19 DEF Good

(* A reader leaves. *)
LEMMA EndReadGood ==
    ASSUME Types, Good, NEW p \in Proc, EndRead(p)
    PROVE  Good'
<1> USE DEF Goto, links, history
<1>1. /\ pc[p] = "read" /\ pc' = [pc EXCEPT ![p] = "idle"] /\ ReadUnlock
      /\ out' = [out EXCEPT ![p] = << >>]
      /\ UNCHANGED <<arg, node, after, next, prev, data, used, refused, committed>>
  BY DEF EndRead
<1>2. PICK s \in Seq(Node) : Shape(s)
  BY DEF Good
<1>3. Heap(s)
  BY <1>2 DEF Shape
<1>4. pc[p] \notin Handy /\ "idle" \notin Handy /\ "idle" \notin Adding
  BY <1>1 DEF Handy, Adding
<1>5. Heap(s)'
  <2>1. \A q \in Proc : q # p => node'[q] = node[q] /\ arg'[q] = arg[q]
    BY <1>1
  <2>2. used' = used /\ data' = data /\ pc' = [pc EXCEPT ![p] = "idle"]
    BY <1>1
  <2> QED BY <1>3, <1>4, <2>1, <2>2, HeapSame
<1>6. Exclusive' /\ Shape(s)'
  <2>1. \A q \in Proc \ {p} : /\ arg'[q] = arg[q] /\ node'[q] = node[q]
                              /\ after'[q] = after[q] /\ out'[q] = out[q]
    BY <1>1 DEF Types, Plain
  <2>2. pc[p] \notin Writing /\ "idle" \notin Writing /\ Exclusive
    BY <1>1 DEF Writing, Good
  <2>3. rwl'.writer = rwl.writer
    BY <1>1, LockEffect DEF Types, Counted
  <2>4. next' = next /\ prev' = prev /\ committed' = committed
    BY <1>1
  <2>5. pc' = [pc EXCEPT ![p] = "idle"] /\ "idle" # "read"
    BY <1>1
  <2>6. \A n \in Elements(s) : data'[n] = data[n]
    BY <1>1
  <2> QED BY <1>2, <1>5, <2>1, <2>2, <2>3, <2>4, <2>5, <2>6, NoWriter
<1> QED BY <1>1, <1>6 DEF Good, Unpoisoned

-----------------------------------------------------------------------------
(* The theorems                                                            *)

(* The invariant holds at first: the list is empty. *)
LEMMA InitInv == Init => Inv
<1> SUFFICES ASSUME Init PROVE Inv
  OBVIOUS
<1> USE DEF Init
<1>1. Inside({"read"}) = {} /\ Inside(Writing) = {}
      /\ Inside(Handy) = {} /\ Inside(Adding) = {}
  BY DEF Inside, Writing, Handy, Adding
<1>2. Types
  <2>1. Plain
    <3>1. data \in [Node -> Number]
      <4>1. (CHOOSE v \in Number : TRUE) \in Number
        BY ListAssumption
      <4> QED BY <4>1
    <3>2. next \in [Link -> Link \cup {Poison}] /\ prev \in [Link -> Link \cup {Poison}]
      BY DEF Link
    <3>3. /\ pc \in [Proc -> {"idle"}] /\ arg \in [Proc -> {All}]
          /\ node \in [Proc -> {mylist}] /\ after \in [Proc -> {mylist}]
          /\ out \in [Proc -> {<< >>}]
      OBVIOUS
    <3>4. << >> \in Seq(Number)
      OBVIOUS
    <3>5. used \subseteq Node /\ refused \in BOOLEAN /\ committed \in Seq(Number)
      BY <3>4
    <3> HIDE DEF Init
    <3>6. \A p \in Proc : pc[p] = "idle" /\ out[p] = << >>
      BY <3>3
    <3>7. out \in [Proc -> Seq(Number)]
      BY <3>3, <3>4
    <3>8. pc \in [Proc -> {"idle", "add", "measure", "link", "linknew", "linklast",
                           "remove", "walk", "unlink", "free", "unlock", "read"}]
      BY <3>3
    <3>9. /\ arg \in [Proc -> Number \cup {All}] /\ node \in [Proc -> Link \cup {Poison}]
          /\ after \in [Proc -> Link \cup {Poison}]
      BY <3>3 DEF Link
    <3>10. "idle" \notin Handy \cup {"unlink"} /\ "idle" \notin Adding
      BY DEF Handy, Adding
    <3> QED BY <3>1, <3>2, <3>5, <3>6, <3>7, <3>8, <3>9, <3>10 DEF Plain
  <2>2. Counted
    BY <1>1, FS_EmptySet DEF Counted
  <2> QED BY <2>1, <2>2 DEF Types
<1>3. Exclusive /\ Unpoisoned
  BY <1>1, ListAssumption DEF Exclusive, Unpoisoned
<1>4. Size(committed) < PROCFS_MAX_SIZE
  <2>1. Long(committed) = {} /\ committed \in Seq(Number) /\ Len(committed) = 0
    BY DEF Long
  <2> HIDE DEF Init
  <2>2. Size(committed) = 0
    <3>1. Size(committed) = 2 * Len(committed) + Cardinality(Long(committed))
      BY <2>1, SizeType
    <3>2. Cardinality(Long(committed)) = 0
      BY <2>1, FS_EmptySet
    <3> QED BY <2>1, <3>1, <3>2
  <2> QED BY <2>2, ListAssumption
<1>5. PICK s \in Seq(Node) : s = << >>
  <2>1. << >> \in Seq(Node)
    OBVIOUS
  <2> QED BY <2>1
<1>6. Len(s) = 0 /\ Elements(s) = {} /\ Distinct(s) /\ \A k \in Nat : At(s, k) = mylist
  BY <1>5 DEF Elements, Distinct, At
<1>7. Forward(s)
  BY <1>6 DEF Forward, Link
<1>8. Undisturbed(s)
  <2>1. Data(s) = << >>
    BY <1>6, DataType, <1>2, EmptySeq
  <2>2. Backward(s, {})
    BY <1>6 DEF Backward, Link
  <2> QED BY <2>1, <2>2 DEF Undisturbed
<1>9. Shape(s)
  BY <1>1, <1>6, <1>7, <1>8 DEF Shape, Heap
<1> QED BY <1>2, <1>3, <1>4, <1>5, <1>9 DEF Inv, Good

(* Every step keeps the invariant. *)
LEMMA NextInv == Inv /\ [Next]_vars => Inv'
<1> SUFFICES ASSUME Inv, [Next]_vars PROVE Inv'
  OBVIOUS
<1>0. Types /\ (refused \/ Good)
  BY DEF Inv, Good
<1>1. CASE UNCHANGED vars
  <2>1. UNCHANGED <<pc, arg, node, after, out, next, prev, data, used, rwl, refused, committed>>
    BY <1>1 DEF vars, links, history
  <2>2. \A L : Inside(L)' = Inside(L)
    BY <2>1 DEF Inside
  <2>3. Types'
    BY <1>0, <2>1, <2>2 DEF Types, Plain, Counted
  <2>4. ASSUME Good
        PROVE  Good'
    <3>1. PICK s \in Seq(Node) : Shape(s)
      BY <2>4 DEF Good
    <3>2. Exclusive' /\ Unpoisoned' /\ Size(committed)' < PROCFS_MAX_SIZE
      BY <2>1, <2>2, <2>4 DEF Good, Exclusive, Unpoisoned, Size
    <3>3. Forward(s)' /\ Heap(s)' /\ Data(s)' = Data(s)
      BY <2>1, <2>2, <3>1 DEF Shape, Forward, Heap, Data
    <3>4. \A K : Backward(s, K)' = Backward(s, K)
      BY <2>1 DEF Backward
    <3>5. Undisturbed(s)' <=> Undisturbed(s)
      BY <2>1, <3>3, <3>4 DEF Undisturbed
    <3>6. ASSUME NEW p \in Inside(Writing)
          PROVE  Task(p, s)'
      <4>1. Task(p, s)
        BY <3>1 DEF Shape
      <4>2. (Fits(p)' <=> Fits(p)) /\ (Appending(p, s)' <=> Appending(p, s))
        BY <2>1, <3>3, <3>4 DEF Fits, Appending
      <4>3. \A i, w : Deleting(p, s, i, w)' <=> Deleting(p, s, i, w)
        BY <2>1, <3>3 DEF Deleting
      <4> QED BY <2>1, <3>3, <3>4, <3>5, <4>1, <4>2, <4>3 DEF Task
    <3>7. \A p \in Inside({"read"}) : Reading(p, s)'
      BY <2>1, <3>1 DEF Shape, Reading
    <3>8. ~rwl'.writer => Undisturbed(s)'
      BY <2>1, <3>1, <3>5 DEF Shape
    <3>9. Shape(s)'
      BY <2>2, <3>1, <3>3, <3>6, <3>7, <3>8 DEF Shape
    <3> QED BY <3>2, <3>9 DEF Good
  <2> QED BY <1>0, <2>1, <2>3, <2>4 DEF Inv, Good
<1>2. ASSUME NEW p \in Proc, StepOf(p)
      PROVE  Inv'
  <2>1. Unlock(p) => refused \/ Numbers \in Seq(Number)
    BY <1>0, UnlockGood
  <2>2. Types'
    BY <1>0, <1>2, <2>1, StepTypes
  <2>3. refused' \/ Good'
    <3>1. CASE refused
      BY <1>2, <3>1 DEF StepOf, BeginAdd, LockToAdd, Measure, Refuse, LinkHead, LinkNew,
         LinkLast, RemoveFromEmpty, BeginRemove, LockToRemove, Skip, EndWalk, UnlinkBack,
         UnlinkForward, FreeNode, Unlock, LockToRead, ReadItem, EndRead, vars, history
    <3>2. CASE ~refused
      <4>1. Good
        BY <1>0, <3>2
      <4>2. Refuse(p) => refused'
        BY DEF Refuse
      <4>3. RemoveFromEmpty(p) => UNCHANGED vars
        BY DEF RemoveFromEmpty
      <4>4. UNCHANGED vars => Inv'
        BY <1>1
      <4>5. Inv' => refused' \/ Good'
        BY DEF Inv, Good
      <4> QED BY <1>0, <1>2, <3>2, <4>1, <4>2, <4>3, <4>4, <4>5, BeginAddGood, LockToAddGood,
              MeasureGood, LinkHeadGood, LinkNewGood, LinkLastGood, BeginRemoveGood,
              LockToRemoveGood, SkipGood, EndWalkGood, UnlinkBackGood, UnlinkForwardGood,
              FreeNodeGood, UnlockGood, LockToReadGood, ReadItemGood, EndReadGood DEF StepOf
    <3> QED BY <3>1, <3>2
  <2> QED BY <2>2, <2>3 DEF Inv, Good
<1> QED BY <1>1, <1>2 DEF Next, StepOf

(* The invariant holds in every reachable state. *)
THEOREM InvHolds == Spec => []Inv
<1>1. Init => Inv
  BY InitInv
<1>2. Inv /\ [Next]_vars => Inv'
  BY NextInv
<1> QED BY <1>1, <1>2, PTL DEF Spec

(* modlist.c keeps its types, and follows no poisoned link before a number is
   refused. *)
THEOREM TypeCorrect == Spec => []TypeOK
<1>1. ASSUME Inv
      PROVE  TypeOK
  <2>1. Types /\ (refused \/ Unpoisoned)
    BY <1>1 DEF Inv, Good
  <2>2. rwl \in [writer : BOOLEAN, readers : 0..Cardinality(Proc)]
    <3>1. Inside({"read"}) \subseteq Proc
      BY DEF Inside
    <3>2. Cardinality(Inside({"read"})) <= Cardinality(Proc)
      BY <3>1, ListAssumption, FS_Subset
    <3>3. Cardinality(Proc) \in Nat
      BY ListAssumption, FS_CardinalityType
    <3>4. rwl \in [writer : BOOLEAN, readers : Nat] /\ rwl.readers \in 0..Cardinality(Proc)
      BY <2>1, <3>2, <3>3 DEF Types, Counted
    <3> QED BY <3>4
  <2>3. refused \/ \A p \in Proc : Poison \notin {node[p], after[p]}
    BY <2>1 DEF Unpoisoned
  <2> QED BY <2>1, <2>2, <2>3 DEF TypeOK, Types, Plain
<1>2. Inv => TypeOK
  BY <1>1
<1> QED BY <1>2, InvHolds, PTL

(* Until a number is refused, whenever no writer is inside the links close a
   ring in both directions, and what is allocated is what the ring holds and
   what an add has at hand. *)
THEOREM ListIsSound == Spec => []ListSound
<1>1. ASSUME Inv, ~refused, ~rwl.writer
      PROVE  LET nodes == <<mylist>> \o Listed \o <<mylist>>
             IN  /\ Ends
                 /\ \A k \in 1..(Len(nodes) - 1) : prev[nodes[k + 1]] = nodes[k]
                 /\ Range(Listed) \cap AtHand = {}
                 /\ used = Range(Listed) \cup AtHand
  <2>1. PICK s \in Seq(Node) : Shape(s)
    BY <1>1 DEF Inv, Good
  <2>2. Distinct(s) /\ Forward(s) /\ Heap(s) /\ Backward(s, {})
    BY <1>1, <2>1 DEF Shape, Undisturbed
  <2>3. Ends /\ Listed = s
    BY <2>2, ListedIs
  <2>4. PICK m \in Nat : m = Len(s)
    OBVIOUS
  <2> DEFINE a == <<mylist>> \o s
             b == a \o <<mylist>>
  <2>5. <<mylist>> \in Seq(Link) /\ Len(<<mylist>>) = 1 /\ <<mylist>>[1] = mylist
        /\ s \in Seq(Link)
    BY DEF Link
  <2>6. /\ a \in Seq(Link) /\ Len(a) = m + 1
        /\ \A k \in 1..(m + 1) : a[k] = At(s, k - 1)
    <3>1. /\ a \in Seq(Link) /\ Len(a) = 1 + m
          /\ \A k \in 1..(1 + m) : a[k] = IF k <= 1 THEN <<mylist>>[k] ELSE s[k - 1]
      BY <2>4, <2>5, ConcatProperties
    <3> HIDE DEF a
    <3>2. ASSUME NEW k \in 1..(m + 1)
          PROVE  a[k] = At(s, k - 1)
      BY <3>1, <2>4, <2>5 DEF At
    <3> QED BY <3>1, <3>2
  <2> HIDE DEF a
  <2>7. /\ Len(b) = m + 2
        /\ \A k \in 1..(m + 2) : b[k] = At(s, k - 1)
    <3>1. /\ Len(b) = (m + 1) + 1
          /\ \A k \in 1..((m + 1) + 1) :
                b[k] = IF k <= m + 1 THEN a[k] ELSE <<mylist>>[k - (m + 1)]
      BY <2>5, <2>6, ConcatProperties
    <3> HIDE DEF b
    <3>2. ASSUME NEW k \in 1..(m + 2)
          PROVE  b[k] = At(s, k - 1)
      <4>1. CASE k <= m + 1
        BY <4>1, <3>1, <2>6
      <4>2. CASE k = m + 2
        BY <4>2, <3>1, <2>4, <2>5 DEF At
      <4> QED BY <4>1, <4>2
    <3> QED BY <3>1, <3>2
  <2> HIDE DEF b
  <2>8. \A k \in 1..(Len(b) - 1) : prev[b[k + 1]] = b[k]
    <3>0. Len(b) - 1 = m + 1
      BY <2>7
    <3> SUFFICES ASSUME NEW k \in 1..(m + 1)
                 PROVE  prev[b[k + 1]] = b[k]
      BY <3>0
    <3>1. /\ k \in 1..(m + 2) /\ k + 1 \in 1..(m + 2)
          /\ k - 1 \in (0..m) \ {} /\ (k + 1) - 1 = (k - 1) + 1
      OBVIOUS
    <3>2. b[k] = At(s, k - 1) /\ b[k + 1] = At(s, (k - 1) + 1)
      BY <3>1, <2>7
    <3>3. prev[At(s, (k - 1) + 1)] = At(s, k - 1)
      BY <3>1, <2>2, <2>4 DEF Backward
    <3> QED BY <3>2, <3>3
  <2>9. Range(Listed) = Elements(s)
    BY <2>3 DEF Range, Elements
  <2>10. AtHand = {node[p] : p \in Inside(Handy)}
    <3>1. Inside(Writing) = {}
      BY <1>1 DEF Inv, Good, Exclusive
    <3>2. \A p \in Proc : pc[p] \in {"add", "measure", "link"} <=> pc[p] \in Handy
      BY <3>1 DEF Inside, Writing, Handy
    <3>3. {q \in Proc : pc[q] \in {"add", "measure", "link"}} = Inside(Handy)
      BY <3>2 DEF Inside
    <3> QED BY <3>3 DEF AtHand
  <2>11. Range(Listed) \cap AtHand = {} /\ used = Range(Listed) \cup AtHand
    BY <2>2, <2>9, <2>10 DEF Heap
  <2> QED BY <2>3, <2>8, <2>11 DEF a, b
<1>2. Inv => ListSound
  BY <1>1 DEF ListSound
<1> QED BY <1>2, InvHolds, PTL

(* Until a number is refused, what a reader has written when it reaches the end
   is the list as its last writer left it. *)
THEOREM ReadsAreWhole == Spec => []ReadsWhole
<1>1. ASSUME Inv, ~refused, NEW p \in Proc, pc[p] = "read", node[p] = mylist
      PROVE  out[p] = committed
  <2>1. Types /\ Good
    BY <1>1 DEF Inv, Good
  <2>2. PICK s \in Seq(Node) : Shape(s) /\ Reading(p, s) /\ Undisturbed(s)
    BY <1>1, <2>1, AtItem
  <2>3. PICK m \in Nat : m = Len(s)
    OBVIOUS
  <2>4. out[p] \in Seq(Number) /\ Distinct(s)
    BY <2>1, <2>2 DEF Types, Plain, Shape
  <2>5. PICK n \in Nat : n = Len(out[p])
    BY <2>4
  <2>6. n <= m /\ At(s, n + 1) = mylist /\ \A k \in 1..n : out[p][k] = data[s[k]]
    BY <1>1, <2>2, <2>3, <2>5 DEF Reading
  <2>7. n = m
    <3>1. n + 1 \in Nat /\ ~ (n + 1 \in 1..m)
      BY <2>3, <2>4, <2>6, AtPlaces
    <3> QED BY <3>1, <2>6
  <2>8. out[p] = [k \in 1..m |-> out[p][k]]
    <3>1. PICK o \in Seq(Number) : o = out[p]
      BY <2>4
    <3>2. o = [k \in 1..Len(o) |-> o[k]]
      OBVIOUS
    <3> QED BY <2>5, <2>7, <3>1, <3>2
  <2>9. out[p] = Data(s)
    BY <2>3, <2>6, <2>7, <2>8 DEF Data
  <2> QED BY <2>2, <2>9 DEF Undisturbed
<1>2. Inv => ReadsWhole
  BY <1>1 DEF ReadsWhole
<1> QED BY <1>2, InvHolds, PTL

(* Until a number is refused, the text of the list and its null byte fit in the
   buffer that read_list fills without a test. *)
THEOREM TextFits == Spec => []BufferFits
<1>1. ASSUME Inv
      PROVE  BufferFits
  <2>1. Size(committed) \in Nat /\ PROCFS_MAX_SIZE \in Nat
    BY <1>1, SizeType, ListAssumption DEF Inv, Types, Plain
  <2> QED BY <1>1, <2>1 DEF Inv, Good, BufferFits
<1>2. Inv => BufferFits
  BY <1>1
<1> QED BY <1>2, InvHolds, PTL

(* Each command of modlist.c takes effect at once or not at all, whatever the
   others are doing to the links. *)
THEOREM ListIsImplemented == Spec => ImplementsList
<1>1. Init => Atomic!Init
  BY DEF Init, Atomic!Init
<1>2. ASSUME Inv, [Next]_vars
      PROVE  Atomic!Next \/ committed' = committed
  <2>1. CASE UNCHANGED vars
    BY <2>1 DEF vars, history
  <2>2. ASSUME NEW p \in Proc, StepOf(p)
        PROVE  Atomic!Next \/ committed' = committed
    <3>1. CASE Unlock(p)
      <4>1. CASE refused
        BY <3>1, <4>1 DEF Unlock
      <4>2. CASE ~refused
        <5>1. arg[p] \in Number \cup {All} /\ Answers(committed, committed', arg[p])
          BY <1>2, <3>1, <4>2, UnlockGood DEF Inv, Good
        <5> QED BY <5>1 DEF Answers, Atomic!Next, Atomic!Add, Atomic!Remove, Atomic!Cleanup
      <4> QED BY <4>1, <4>2
    <3>2. CASE ~ Unlock(p)
      BY <2>2, <3>2 DEF StepOf, BeginAdd, LockToAdd, Measure, Refuse, LinkHead, LinkNew,
         LinkLast, RemoveFromEmpty, BeginRemove, LockToRemove, Skip, EndWalk, UnlinkBack,
         UnlinkForward, FreeNode, LockToRead, ReadItem, EndRead, vars, history
    <3> QED BY <3>1, <3>2
  <2> QED BY <1>2, <2>1, <2>2 DEF Next, StepOf
<1>3. Inv /\ [Next]_vars => [Atomic!Next]_committed
  BY <1>2
<1> QED BY <1>1, <1>3, InvHolds, PTL DEF Spec, ImplementsList, Atomic!Spec
-----------------------------------------------------------------------------
(* The list read through seq_file                                          *)

\* The variables and constants of ModSeq that ModList does not have.
VARIABLES numbers, contador, pos, state, given, undisturbed
CONSTANTS Reader, Garbage, Rooms, MaxAdds, MaxPos

Seqs == INSTANCE ModSeq WITH mylist <- numbers, out <- given

\* An undisturbed reader r stands where its records end, and was given the
\* whole list once, or several times if something was ever removed.
Whole(r) ==
    /\ state[r] # "closed"
    /\ pos[r] = Len(given[r])
    /\ Seqs!OnlyAdded => given[r] \in {<<>>, numbers}
    /\ ~Seqs!OnlyAdded /\ numbers # <<>> => Seqs!Turns(given[r], numbers)
    /\ state[r] = "eof" => contador = pos[r]

SeqInv ==
    /\ Seqs!TypeOK
    /\ given = [r \in Reader |-> given[r]]
    /\ \A r \in Reader : undisturbed[r] => Whole(r)

(* The types of the numbers, when a command has changed them. *)
LEMMA CommandTypes ==
    ASSUME Seqs!SeqAssumption, SeqInv, Seqs!Add \/ Seqs!Remove \/ Seqs!Cleanup
    PROVE  numbers' \in Seq(Number) /\ contador' \in Len(numbers')..MaxAdds
<1>1. /\ numbers \in Seq(Number) /\ Len(numbers) \in Nat /\ contador \in Nat
      /\ Len(numbers) <= contador /\ contador <= MaxAdds /\ MaxAdds \in Nat
  BY LenProperties DEF SeqInv, Seqs!TypeOK, Seqs!SeqAssumption
<1>2. CASE Seqs!Add
  <2>1. PICK v \in Number : numbers' = Append(numbers, v)
    BY <1>2 DEF Seqs!Add, Seqs!Change
  <2>2. numbers' \in Seq(Number) /\ Len(numbers') = Len(numbers) + 1
    BY <1>1, <2>1, AppendProperties
  <2> QED BY <1>1, <1>2, <2>2 DEF Seqs!Add
<1>3. CASE Seqs!Remove
  <2>1. PICK v \in Number : numbers' = Seqs!Among(numbers, Number \ {v})
    BY <1>3 DEF Seqs!Remove, Seqs!Change
  <2>2. numbers' = Among(numbers, Number \ {v})
    BY <2>1 DEF Seqs!Among, Among
  <2>3. numbers' \in Seq(Number) /\ Len(numbers') <= Len(numbers) /\ Len(numbers') \in Nat
    BY <1>1, <2>2, AmongType, LenProperties
  <2> QED BY <1>1, <1>3, <2>3 DEF Seqs!Remove
<1>4. CASE Seqs!Cleanup
  <2>1. numbers' = <<>> /\ contador' = contador /\ Len(<<>>) = 0
    BY <1>4, EmptySeq DEF Seqs!Cleanup, Seqs!Change
  <2> QED BY <1>1, <2>1, EmptySeq
<1> QED BY <1>2, <1>3, <1>4

(* A command leaves undisturbed only those who saw no change. *)
LEMMA CommandKeeps ==
    ASSUME Seqs!SeqAssumption, SeqInv, Seqs!Add \/ Seqs!Remove \/ Seqs!Cleanup
    PROVE  SeqInv'
<1>1. /\ UNCHANGED <<pos, state, given>>
      /\ undisturbed' = [r \in Reader |-> undisturbed[r] /\ numbers' = numbers]
  BY DEF Seqs!Add, Seqs!Remove, Seqs!Cleanup, Seqs!Change
<1>2. numbers' = numbers => contador' = contador
  <2>1. CASE Seqs!Add
    <3>1. PICK v \in Number : numbers' = Append(numbers, v)
      BY <2>1 DEF Seqs!Add, Seqs!Change
    <3>2. Len(numbers') = Len(numbers) + 1 /\ Len(numbers) \in Nat
      BY <3>1, AppendProperties, LenProperties DEF SeqInv, Seqs!TypeOK
    <3> QED BY <3>2
  <2> QED BY <2>1 DEF Seqs!Remove, Seqs!Cleanup
<1>3. \A r \in Reader : undisturbed'[r] \in BOOLEAN
                        /\ (undisturbed'[r] => undisturbed[r] /\ numbers' = numbers)
  BY <1>1
<1>4. undisturbed' \in [Reader -> BOOLEAN]
  BY <1>1, <1>3
<1>5. Seqs!TypeOK'
  BY <1>1, <1>4, CommandTypes DEF SeqInv, Seqs!TypeOK
<1>6. ASSUME NEW r \in Reader, undisturbed'[r]
      PROVE  Whole(r)'
  BY <1>1, <1>2, <1>3, <1>6 DEF SeqInv, Whole, Seqs!OnlyAdded
<1> QED BY <1>1, <1>5, <1>6 DEF SeqInv

(* What one call of read is given: all of the items if there is room. *)
LEMMA ShownIs ==
    ASSUME Seqs!SeqAssumption, numbers \in Seq(Number), NEW room \in Rooms
    PROVE  /\ Seqs!Shown(room) \in Seq(Number \cup {Garbage})
           /\ Len(Seqs!Shown(room)) \in Nat
           /\ numbers # <<>> /\ room >= Len(numbers) => Seqs!Shown(room) = numbers
<1> DEFINE items == Seqs!Items
           n == IF room < Len(items) THEN room ELSE Len(items)
<1>1. room \in Nat /\ items \in Seq(Number \cup {Garbage}) /\ Len(items) \in Nat
  <2>1. <<Garbage>> \in Seq(Number \cup {Garbage})
    OBVIOUS
  <2>2. numbers \in Seq(Number \cup {Garbage})
    BY SeqMonotonic
  <2>3. items \in Seq(Number \cup {Garbage})
    BY <2>1, <2>2 DEF Seqs!Items
  <2> QED BY <2>3, LenProperties DEF Seqs!SeqAssumption
<1>2. numbers # <<>> => items = numbers
  BY DEF Seqs!Items
<1>3. Seqs!Shown(room) = SubSeq(items, 1, n)
  BY DEF Seqs!Shown
<1> HIDE DEF items
<1>4. n \in 0..Len(items) /\ (room >= Len(items) => n = Len(items))
  BY <1>1
<1> HIDE DEF n
<1>5. SubSeq(items, 1, n) \in Seq(Number \cup {Garbage})
  <2>1. \A k \in 1..n : items[k] \in Number \cup {Garbage}
    BY <1>1, <1>4, ElementOfSeq
  <2> QED BY <1>1, <1>4, <2>1, SubSeqProperties
<1>6. n = Len(items) => SubSeq(items, 1, n) = items
  BY <1>1, SubSeqFull
<1> QED BY <1>2, <1>3, <1>4, <1>5, <1>6, LenProperties

(* A read with room for the whole list adds one turn to what was given. *)
LEMMA OneMoreTurn ==
    ASSUME NEW t \in Seq(Number), t # <<>>,
           NEW s \in Seq(Number \cup {Garbage}), Seqs!Turns(s, t)
    PROVE  Seqs!Turns(s \o t, t)
<1> DEFINE m == Len(t)
           q == Len(s) \div m
<1>1. m \in Nat \ {0} /\ Len(s) \in Nat
  BY EmptySeq, LenProperties
<1>2. q \in Int /\ Len(s) = m * q + 0
  BY <1>1 DEF Seqs!Turns
<1> HIDE DEF q
<1>3. t \in Seq(Number \cup {Garbage})
  BY SeqMonotonic
<1>4. /\ Len(s \o t) = Len(s) + m
      /\ \A k \in 1..(Len(s) + m) : (s \o t)[k] = IF k <= Len(s) THEN s[k] ELSE t[k - Len(s)]
  BY <1>3, ConcatProperties
<1>5. (Len(s) + m) % m = 0
  BY <1>1, WholeTurn DEF Seqs!Turns
<1>6. ASSUME NEW k \in 1..(Len(s) + m)
      PROVE  (s \o t)[k] = t[((k - 1) % m) + 1]
  <2>1. CASE k <= Len(s)
    BY <1>1, <1>4, <2>1 DEF Seqs!Turns
  <2>2. CASE ~ (k <= Len(s))
    <3> DEFINE j == k - Len(s) - 1
    <3>1. j \in 0..(m - 1) /\ k - 1 = m * q + j /\ k - 1 \in Int /\ j + 1 = k - Len(s)
      BY <1>1, <1>2, <2>2
    <3> HIDE DEF j
    <3>2. (k - 1) % m = j
      <4>1. ASSUME NEW n \in Nat \ {0}, NEW a \in Int, a = n * q + j, j \in 0..(n - 1)
            PROVE  a % n = j
        BY <1>2, <4>1, RemainderIs
      <4> QED BY <1>1, <3>1, <4>1, Zenon
    <3> QED BY <1>4, <2>2, <3>1, <3>2
  <2> QED BY <2>1, <2>2
<1> QED BY <1>4, <1>5, <1>6 DEF Seqs!Turns

(* A call of read that gives something. *)
LEMMA ReadKeeps ==
    ASSUME Seqs!SeqAssumption, SeqInv, NEW r \in Reader, Seqs!Read(r)
    PROVE  SeqInv'
<1>1. PICK room \in Rooms :
         /\ pos[r] + Len(Seqs!Shown(room)) <= MaxPos
         /\ pos' = [pos EXCEPT ![r] = pos[r] + Len(Seqs!Shown(room))]
         /\ given' = [given EXCEPT ![r] = given[r] \o Seqs!Shown(room)]
         /\ undisturbed' = [undisturbed EXCEPT ![r] = undisturbed[r] /\ room >= Len(numbers)]
  BY DEF Seqs!Read, Seqs!Advance
<1>2. state[r] = "open" /\ contador # pos[r] /\ UNCHANGED <<numbers, contador, state>>
  BY DEF Seqs!Read, Seqs!AtEnd
<1> DEFINE shown == Seqs!Shown(room)
<1>3. /\ numbers \in Seq(Number) /\ shown \in Seq(Number \cup {Garbage}) /\ Len(shown) \in Nat
      /\ numbers # <<>> /\ room >= Len(numbers) => shown = numbers
      /\ given[r] \in Seq(Number \cup {Garbage})
  <2>1. numbers \in Seq(Number) /\ given[r] \in Seq(Number \cup {Garbage})
    BY DEF SeqInv, Seqs!TypeOK
  <2> QED BY <2>1, ShownIs
<1>4. /\ pos[r] + Len(shown) <= MaxPos
      /\ pos' = [pos EXCEPT ![r] = pos[r] + Len(shown)]
      /\ given' = [given EXCEPT ![r] = given[r] \o shown]
  BY <1>1
<1> HIDE DEF shown
<1>5. /\ given[r] \o shown \in Seq(Number \cup {Garbage})
      /\ Len(given[r] \o shown) = Len(given[r]) + Len(shown)
      /\ Len(given[r]) \in Nat
  BY <1>3, ConcatProperties, LenProperties
<1>6. /\ given'[r] = given[r] \o shown /\ pos'[r] = pos[r] + Len(shown)
      /\ \A q \in Reader \ {r} : given'[q] = given[q] /\ pos'[q] = pos[q]
                                 /\ undisturbed'[q] = undisturbed[q]
      /\ undisturbed'[r] \in BOOLEAN
      /\ undisturbed'[r] => undisturbed[r] /\ room >= Len(numbers)
  BY <1>1, <1>4 DEF SeqInv, Seqs!TypeOK
<1>7. Seqs!TypeOK'
  <2>1. pos' \in [Reader -> 0..MaxPos]
    BY <1>3, <1>4 DEF SeqInv, Seqs!TypeOK, Seqs!SeqAssumption
  <2>2. \A q \in Reader : given'[q] \in Seq(Number \cup {Garbage})
    BY <1>5, <1>6 DEF SeqInv, Seqs!TypeOK
  <2>3. undisturbed' \in [Reader -> BOOLEAN]
    BY <1>1 DEF SeqInv, Seqs!TypeOK
  <2> QED BY <1>2, <2>1, <2>2, <2>3 DEF SeqInv, Seqs!TypeOK
<1>8. given' = [q \in Reader |-> given'[q]]
  BY <1>4 DEF SeqInv
<1>9. ASSUME undisturbed'[r]
      PROVE  Whole(r)'
  <2>1. /\ undisturbed[r] /\ room >= Len(numbers)
        /\ pos[r] = Len(given[r])
        /\ Seqs!OnlyAdded => given[r] \in {<<>>, numbers}
        /\ ~Seqs!OnlyAdded /\ numbers # <<>> => Seqs!Turns(given[r], numbers)
    BY <1>6, <1>9 DEF SeqInv, Whole
  <2>2. pos'[r] = Len(given'[r])
    BY <1>5, <1>6, <2>1
  <2>3. Seqs!OnlyAdded => given[r] = <<>> /\ numbers # <<>>
    <3>1. Seqs!OnlyAdded => Len(numbers) # Len(given[r])
      BY <1>2, <2>1 DEF Seqs!OnlyAdded
    <3> QED BY <2>1, <3>1
  <2>4. Seqs!OnlyAdded => given'[r] = numbers
    <3>1. <<>> \o numbers = numbers
      BY <1>3, ConcatEmptySeq
    <3> QED BY <1>3, <1>6, <2>1, <2>3, <3>1
  <2>5. numbers # <<>> /\ Seqs!Turns(given[r], numbers) => Seqs!Turns(given'[r], numbers)
    BY <1>3, <1>6, <2>1, OneMoreTurn
  <2> QED BY <1>2, <2>1, <2>2, <2>4, <2>5 DEF Whole, Seqs!OnlyAdded
<1>10. ASSUME NEW q \in Reader, undisturbed'[q]
       PROVE  Whole(q)'
  <2>1. CASE q # r
    BY <1>2, <1>6, <1>10, <2>1 DEF SeqInv, Whole, Seqs!OnlyAdded
  <2> QED BY <1>9, <1>10, <2>1
<1> QED BY <1>7, <1>8, <1>10 DEF SeqInv

(* The other calls on a file. *)
LEMMA FileKeeps ==
    ASSUME Seqs!SeqAssumption, SeqInv, NEW r \in Reader,
           Seqs!Open(r) \/ Seqs!ReadEnds(r) \/ Seqs!Close(r)
    PROVE  SeqInv'
<1>0. /\ numbers \in Seq(Number) /\ Len(numbers) \in Nat /\ MaxPos \in Nat
      /\ \A q \in Reader : given[q] \in Seq(Number \cup {Garbage})
      /\ Len(<<>>) = 0 /\ <<>> \in Seq(Number \cup {Garbage})
  BY EmptySeq, LenProperties DEF SeqInv, Seqs!TypeOK, Seqs!SeqAssumption
<1>1. UNCHANGED <<numbers, contador>>
  BY DEF Seqs!Open, Seqs!ReadEnds, Seqs!Close
<1>2. /\ \A q \in Reader \ {r} : /\ pos'[q] = pos[q] /\ given'[q] = given[q]
                                 /\ undisturbed'[q] = undisturbed[q] /\ state'[q] = state[q]
      /\ given' = [q \in Reader |-> given'[q]]
      /\ given'[r] \in {given[r], <<>>}
  BY DEF Seqs!Open, Seqs!ReadEnds, Seqs!Close, SeqInv, Seqs!TypeOK
<1>5. Seqs!TypeOK'
  <2>0. 0 \in 0..MaxPos
    BY <1>0
  <2>1. /\ pos' \in [Reader -> 0..MaxPos] /\ state' \in [Reader -> {"closed", "open", "eof"}]
        /\ undisturbed' \in [Reader -> BOOLEAN]
    <3>1. CASE Seqs!Open(r)
      BY <2>0, <3>1 DEF Seqs!Open, SeqInv, Seqs!TypeOK
    <3>2. CASE Seqs!ReadEnds(r)
      BY <3>2 DEF Seqs!ReadEnds, SeqInv, Seqs!TypeOK
    <3>3. CASE Seqs!Close(r)
      BY <2>0, <3>3 DEF Seqs!Close, SeqInv, Seqs!TypeOK
    <3> QED BY <3>1, <3>2, <3>3
  <2>2. \A q \in Reader : given'[q] \in Seq(Number \cup {Garbage})
    BY <1>0, <1>2
  <2> QED BY <1>1, <2>1, <2>2 DEF SeqInv, Seqs!TypeOK
<1>3. ASSUME undisturbed'[r]
      PROVE  Whole(r)'
  <2>1. CASE Seqs!Open(r)
    <3>1. state'[r] = "open" /\ pos'[r] = 0 /\ given'[r] = <<>>
      BY <2>1 DEF Seqs!Open, SeqInv, Seqs!TypeOK
    <3>2. numbers # <<>> => Seqs!Turns(<<>>, numbers)
      <4>1. numbers # <<>> => Len(numbers) \in Nat \ {0} /\ 0 % Len(numbers) = 0
        BY <1>0, EmptySeq
      <4> QED BY <1>0, <4>1 DEF Seqs!Turns
    <3> QED BY <1>0, <1>1, <3>1, <3>2 DEF Whole, Seqs!OnlyAdded
  <2>2. CASE Seqs!ReadEnds(r)
    <3>1. /\ state' = [state EXCEPT ![r] = "eof"] /\ contador = pos[r]
          /\ UNCHANGED <<pos, given, undisturbed>>
      BY <2>2 DEF Seqs!ReadEnds, Seqs!AtEnd
    <3>2. Whole(r)
      BY <1>3, <3>1 DEF SeqInv
    <3> QED BY <1>1, <3>1, <3>2 DEF Whole, Seqs!OnlyAdded, SeqInv, Seqs!TypeOK
  <2>3. CASE Seqs!Close(r)
    BY <1>3, <2>3 DEF Seqs!Close, SeqInv, Seqs!TypeOK
  <2> QED BY <2>1, <2>2, <2>3
<1>4. ASSUME NEW q \in Reader, undisturbed'[q]
      PROVE  Whole(q)'
  <2>1. CASE q # r
    BY <1>1, <1>2, <1>4, <2>1 DEF SeqInv, Whole, Seqs!OnlyAdded
  <2> QED BY <1>3, <1>4, <2>1
<1> QED BY <1>2, <1>4, <1>5 DEF SeqInv

(* The invariant of the list read through seq_file. *)
THEOREM SeqInvHolds == Seqs!SeqAssumption /\ Seqs!Spec => []SeqInv
<1>1. Seqs!SeqAssumption /\ Seqs!Init => SeqInv
  <2> SUFFICES ASSUME Seqs!SeqAssumption, Seqs!Init
               PROVE  SeqInv
    OBVIOUS
  <2>1. /\ Len(<<>>) = 0 /\ <<>> \in Seq(Number) /\ <<>> \in Seq(Number \cup {Garbage})
    BY EmptySeq
  <2> QED BY <2>1 DEF Seqs!Init, SeqInv, Seqs!TypeOK, Seqs!SeqAssumption
<1>2. Seqs!SeqAssumption /\ SeqInv /\ [Seqs!Next]_(Seqs!vars) => SeqInv'
  <2> SUFFICES ASSUME Seqs!SeqAssumption, SeqInv, [Seqs!Next]_(Seqs!vars)
               PROVE  SeqInv'
    OBVIOUS
  <2>1. CASE UNCHANGED Seqs!vars
    BY <2>1 DEF Seqs!vars, SeqInv, Seqs!TypeOK, Whole, Seqs!OnlyAdded
  <2>2. CASE Seqs!Next
    BY <2>2, CommandKeeps, ReadKeeps, FileKeeps DEF Seqs!Next
  <2> QED BY <2>1, <2>2
<1>3. Seqs!SeqAssumption => []Seqs!SeqAssumption
  OBVIOUS
<1> QED BY <1>1, <1>2, <1>3, PTL DEF Seqs!Spec

(* Whoever reads a list that does not change is given each number once, in
   order, or, once something was removed, the whole list again and again. *)
THEOREM PassesAreWhole == Seqs!SeqAssumption /\ Seqs!Spec => []Seqs!WholePasses
<1>1. SeqInv => Seqs!WholePasses
  <2> SUFFICES ASSUME SeqInv, NEW r \in Reader, undisturbed[r]
               PROVE  IF Seqs!OnlyAdded
                      THEN /\ given[r] \in {<<>>, numbers}
                           /\ state[r] = "eof" => given[r] = numbers
                      ELSE numbers # <<>> =>
                           /\ Seqs!Turns(given[r], numbers)
                           /\ state[r] = "eof" => contador % Len(numbers) = 0
    BY DEF Seqs!WholePasses
  <2>1. Whole(r) /\ numbers \in Seq(Number)
    BY DEF SeqInv, Seqs!TypeOK
  <2>2. Seqs!OnlyAdded /\ given[r] = <<>> /\ state[r] = "eof" => numbers = <<>>
    BY <2>1, EmptySeq DEF Whole, Seqs!OnlyAdded
  <2> QED BY <2>1, <2>2 DEF Whole, Seqs!Turns
<1> QED BY <1>1, SeqInvHolds, PTL
=============================================================================
