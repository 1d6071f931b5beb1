----------------------------- MODULE CacheLemmas -----------------------------
(***************************************************************************)
(* What the proofs about the caches, and those about the lists of roots of *)
(* the B-tree, need of the data they work on: what adding to either end    *)
(* of, taking from the head of, and removing from the middle of a list     *)
(* does to its members, and how the total of finitely many charges changes *)
(* with them.                                                              *)
(***************************************************************************)
EXTENDS Integers, Sequences, Functions, Lists, TLAPS

(* The empty list has no member and no repetition. *)
LEMMA EmptyList ==
  ASSUME NEW S
  PROVE  /\ <<>> \in Seq(S)
         /\ IsInjective(<<>>)
         /\ \A y : ~Contains(<<>>, y)
BY DEF IsInjective, Contains

(* Appending adds one member, and no repetition unless it was there. *)
LEMMA AppendList ==
  ASSUME NEW S, NEW s \in Seq(S), NEW x \in S
  PROVE  /\ Append(s, x) \in Seq(S)
         /\ Append(s, x) # <<>>
         /\ Len(Append(s, x)) = Len(s) + 1
         /\ \A y : Contains(Append(s, x), y) <=> Contains(s, y) \/ y = x
         /\ IsInjective(s) /\ ~Contains(s, x) => IsInjective(Append(s, x))
<1> DEFINE a == Append(s, x)
<1>1. /\ a \in Seq(S) /\ a # <<>> /\ Len(a) = Len(s) + 1
      /\ \A i \in 1..Len(s) : a[i] = s[i]
      /\ a[Len(s) + 1] = x
      /\ DOMAIN a = 1..(Len(s) + 1) /\ DOMAIN s = 1..Len(s)
      /\ Len(s) \in Nat
  OBVIOUS
<1> HIDE DEF a
<1>2. \A y : Contains(a, y) <=> Contains(s, y) \/ y = x
  BY <1>1 DEF Contains
<1>3. IsInjective(s) /\ ~Contains(s, x) => IsInjective(a)
  BY <1>1 DEF Contains, IsInjective
<1> QED BY <1>1, <1>2, <1>3 DEF a

(* Putting a new member in front moves the others up by one. *)
LEMMA ConsList ==
  ASSUME NEW S, NEW s \in Seq(S), NEW x \in S
  PROVE  /\ <<x>> \o s \in Seq(S)
         /\ Len(<<x>> \o s) = Len(s) + 1
         /\ (<<x>> \o s)[1] = x
         /\ \A i \in 1..Len(s) : (<<x>> \o s)[i + 1] = s[i]
         /\ \A y : Contains(<<x>> \o s, y) <=> Contains(s, y) \/ y = x
         /\ IsInjective(s) /\ ~Contains(s, x) => IsInjective(<<x>> \o s)
<1> DEFINE a == <<x>> \o s
<1>1. /\ a \in Seq(S) /\ Len(a) = Len(s) + 1
      /\ a[1] = x
      /\ \A i \in 1..Len(s) : a[i + 1] = s[i]
      /\ DOMAIN a = 1..(Len(s) + 1) /\ DOMAIN s = 1..Len(s)
      /\ Len(s) \in Nat
  OBVIOUS
<1> HIDE DEF a
<1>2. \A j \in 1..(Len(s) + 1) : j = 1 \/ (j - 1 \in 1..Len(s) /\ (j - 1) + 1 = j)
  BY <1>1
<1>4. ASSUME NEW y PROVE Contains(a, y) <=> Contains(s, y) \/ y = x
  <2>1. ASSUME Contains(a, y), y # x PROVE Contains(s, y)
    <3>1. PICK j \in 1..(Len(s) + 1) : a[j] = y
      BY <1>1, <2>1 DEF Contains
    <3>2. PICK i \in 1..Len(s) : i + 1 = j
      BY <1>1, <1>2, <2>1, <3>1
    <3> QED BY <1>1, <3>1, <3>2 DEF Contains
  <2>2. ASSUME Contains(s, y) PROVE Contains(a, y)
    <3>1. PICK i \in 1..Len(s) : s[i] = y
      BY <2>2 DEF Contains
    <3>2. i + 1 \in 1..Len(a) /\ a[i + 1] = y
      BY <1>1, <3>1
    <3> QED BY <3>2 DEF Contains
  <2>3. Contains(a, x)
    <3>1. 1 \in 1..Len(a)
      BY <1>1
    <3> QED BY <1>1, <3>1 DEF Contains
  <2> QED BY <2>1, <2>2, <2>3
<1>5. ASSUME IsInjective(s), ~Contains(s, x) PROVE IsInjective(a)
  <2> SUFFICES ASSUME NEW i \in 1..(Len(s) + 1), NEW j \in 1..(Len(s) + 1), a[i] = a[j]
               PROVE  i = j
    BY <1>1 DEF IsInjective
  <2>1. \A m \in 1..Len(s) : a[m + 1] # x
    BY <1>1, <1>5, ZenonT(60) DEF Contains
  <2>2. CASE i = 1 \/ j = 1
    BY <1>1, <1>2, <2>1, <2>2, ZenonT(60)
  <2>3. CASE i # 1 /\ j # 1
    <3>1. PICK m \in 1..Len(s) : m + 1 = i
      BY <1>1, <1>2, <2>3
    <3>2. PICK o \in 1..Len(s) : o + 1 = j
      BY <1>1, <1>2, <2>3
    <3>3. s[m] = s[o]
      BY <1>1, <3>1, <3>2
    <3>4. m = o
      BY <1>1, <1>5, <3>3, ZenonT(60) DEF IsInjective
    <3> QED BY <3>1, <3>2, <3>4
  <2> QED BY <2>2, <2>3
<1> QED BY <1>1, <1>4, <1>5 DEF a

(* A list that is not empty has a head; dropping it leaves the others. *)
LEMMA TailList ==
  ASSUME NEW S, NEW s \in Seq(S), s # <<>>, IsInjective(s)
  PROVE  /\ Head(s) \in S
         /\ Contains(s, Head(s))
         /\ Tail(s) \in Seq(S)
         /\ IsInjective(Tail(s))
         /\ \A y : Contains(Tail(s), y) <=> Contains(s, y) /\ y # Head(s)
<1> DEFINE u == Tail(s)
<1>1. /\ u \in Seq(S) /\ Len(u) = Len(s) - 1
      /\ \A i \in 1..Len(u) : u[i] = s[i + 1]
      /\ DOMAIN u = 1..Len(u) /\ DOMAIN s = 1..Len(s)
      /\ Len(s) \in Nat /\ Len(s) >= 1
      /\ Head(s) = s[1] /\ Head(s) \in S
  OBVIOUS
<1> HIDE DEF u
<1>2. Contains(s, Head(s))
  BY <1>1 DEF Contains
<1>3. IsInjective(u)
  <2> SUFFICES ASSUME NEW i \in 1..Len(u), NEW j \in 1..Len(u), u[i] = u[j]
               PROVE  i = j
    BY <1>1 DEF IsInjective
  <2>1. s[i + 1] = s[j + 1] /\ i + 1 \in 1..Len(s) /\ j + 1 \in 1..Len(s)
    BY <1>1
  <2>2. i + 1 = j + 1
    BY <1>1, <2>1, ZenonT(60) DEF IsInjective
  <2> QED BY <2>2
<1>4. ASSUME NEW y
      PROVE  Contains(u, y) <=> Contains(s, y) /\ y # Head(s)
  <2>1. ASSUME Contains(u, y)
        PROVE  Contains(s, y) /\ y # Head(s)
    <3>1. PICK i \in 1..Len(u) : u[i] = y
      BY <2>1 DEF Contains
    <3>2. i + 1 \in 1..Len(s) /\ s[i + 1] = y /\ i + 1 # 1 /\ 1 \in 1..Len(s)
      BY <1>1, <3>1
    <3>3. Contains(s, y)
      BY <3>2 DEF Contains
    <3>4. s[i + 1] # s[1]
      BY <1>1, <3>2, ZenonT(60) DEF IsInjective
    <3> QED BY <1>1, <3>2, <3>3, <3>4
  <2>2. ASSUME Contains(s, y), y # Head(s)
        PROVE  Contains(u, y)
    <3>1. PICK i \in 1..Len(s) : s[i] = y
      BY <2>2 DEF Contains
    <3>2. i - 1 \in 1..Len(u) /\ u[i - 1] = y
      BY <1>1, <2>2, <3>1
    <3> QED BY <3>2 DEF Contains
  <2> QED BY <2>1, <2>2
<1> QED BY <1>1, <1>2, <1>3, <1>4 DEF u

(* What a slice of a list holds. *)
LEMMA SliceFacts ==
  ASSUME NEW S, NEW s \in Seq(S), NEW i \in Nat, NEW j \in Nat,
         1 <= i, i <= j + 1, j <= Len(s)
  PROVE  /\ SubSeq(s, i, j) \in Seq(S)
         /\ Len(SubSeq(s, i, j)) = j - i + 1
         /\ \A m \in 1..(j - i + 1) : SubSeq(s, i, j)[m] = s[i + m - 1]
<1>1. Len(SubSeq(s, i, j)) = j - i + 1
  OBVIOUS
<1>2. \A m \in 1..(j - i + 1) : SubSeq(s, i, j)[m] = s[i + m - 1]
  OBVIOUS
<1>3. SubSeq(s, i, j) \in Seq(S)
  OBVIOUS
<1> QED BY <1>1, <1>2, <1>3

(* What the concatenation of two lists holds. *)
LEMMA ConcatFacts ==
  ASSUME NEW S, NEW a \in Seq(S), NEW b \in Seq(S)
  PROVE  /\ a \o b \in Seq(S)
         /\ Len(a \o b) = Len(a) + Len(b)
         /\ \A i \in 1..(Len(a) + Len(b)) :
              (a \o b)[i] = IF i <= Len(a) THEN a[i] ELSE b[i - Len(a)]
<1>1. Len(a \o b) = Len(a) + Len(b)
  OBVIOUS
<1>2. \A i \in 1..(Len(a) + Len(b)) :
         (a \o b)[i] = IF i <= Len(a) THEN a[i] ELSE b[i - Len(a)]
  OBVIOUS
<1>3. a \o b \in Seq(S)
  OBVIOUS
<1> QED BY <1>1, <1>2, <1>3

(* Where the members of a list are after one of them is removed. *)
LEMMA RemovePlaces ==
  ASSUME NEW S, NEW s \in Seq(S), IsInjective(s), NEW k \in 1..Len(s)
  PROVE  /\ RemoveFirst(s, s[k]) \in Seq(S)
         /\ Len(RemoveFirst(s, s[k])) = Len(s) - 1
         /\ \A i \in 1..(Len(s) - 1) :
              RemoveFirst(s, s[k])[i] = IF i < k THEN s[i] ELSE s[i + 1]
<1> DEFINE n == Len(s)
<1>1. n \in Nat /\ DOMAIN s = 1..n
  OBVIOUS
<1>2. k \in 1..n
  OBVIOUS
<1>3. (CHOOSE i \in 1..Len(s) : s[i] = s[k]) = k
  BY <1>1, <1>2 DEF IsInjective
<1> DEFINE r == RemoveAt(s, k)
<1>4. RemoveFirst(s, s[k]) = r
  BY <1>2, <1>3, ZenonT(60) DEF RemoveFirst, Contains
<1>5. /\ r \in Seq(S) /\ Len(r) = n - 1 /\ DOMAIN r = 1..(n - 1)
      /\ \A i \in 1..(n - 1) : r[i] = IF i < k THEN s[i] ELSE s[i + 1]
  <2> DEFINE a == SubSeq(s, 1, k - 1)
             b == SubSeq(s, k + 1, n)
  <2>1. /\ a \in Seq(S) /\ Len(a) = k - 1
        /\ \A i \in 1..(k - 1) : a[i] = s[i]
    <3>1. k - 1 \in Nat /\ 1 <= k /\ k - 1 <= n /\ (k - 1) - 1 + 1 = k - 1
      BY <1>1, <1>2
    <3>2. /\ a \in Seq(S) /\ Len(a) = k - 1
          /\ \A i \in 1..(k - 1) : a[i] = s[1 + i - 1]
      <4> HIDE DEF n
      <4> QED BY <3>1, SliceFacts DEF n
    <3> QED BY <1>1, <1>2, <3>2
  <2>2. /\ b \in Seq(S) /\ Len(b) = n - k
        /\ \A i \in 1..(n - k) : b[i] = s[k + i]
    <3>1. k + 1 \in Nat /\ 1 <= k + 1 /\ k + 1 <= n + 1 /\ n - (k + 1) + 1 = n - k
      BY <1>1, <1>2
    <3> DEFINE k1 == k + 1
    <3>2. /\ b \in Seq(S) /\ Len(b) = n - k1 + 1
          /\ \A i \in 1..(n - k1 + 1) : b[i] = s[k1 + i - 1]
      <4> HIDE DEF k1
      <4>1. k1 \in Nat /\ n \in Nat /\ 1 <= k1 /\ k1 <= n + 1 /\ n <= Len(s)
        BY <1>1, <3>1 DEF k1
      <4> QED BY <4>1, SliceFacts DEF k1
    <3>3. \A i \in 1..(n - k) : (k + 1) + i - 1 = k + i
      BY <1>1, <1>2
    <3> QED BY <3>1, <3>2, <3>3, ZenonT(60)
  <2>3. r = a \o b
    BY DEF RemoveAt
  <2> HIDE DEF a, b, r
  <2>4. /\ r \in Seq(S) /\ Len(r) = Len(a) + Len(b)
        /\ \A i \in 1..(Len(a) + Len(b)) :
             r[i] = IF i <= Len(a) THEN a[i] ELSE b[i - Len(a)]
    BY <2>1, <2>2, <2>3, ConcatFacts, ZenonT(60)
  <2>5. Len(a) = k - 1 /\ Len(b) = n - k /\ Len(r) = n - 1
    <3> HIDE DEF n
    <3> QED BY <1>1, <1>2, <2>1, <2>2, <2>4
  <2>6. DOMAIN r = 1..(n - 1)
    BY <2>4, <2>5
  <2>7. ASSUME NEW i \in 1..(n - 1)
        PROVE  r[i] = IF i < k THEN s[i] ELSE s[i + 1]
    <3>1. i \in 1..(Len(a) + Len(b))
      BY <1>1, <1>2, <2>5
    <3>2. CASE i < k
      <4>1. i <= Len(a) /\ i \in 1..(k - 1)
        BY <1>1, <1>2, <2>5, <3>2
      <4> QED BY <2>1, <2>4, <3>1, <3>2, <4>1
    <3>3. CASE ~(i < k)
      <4>1. /\ ~(i <= Len(a)) /\ i - Len(a) = i - k + 1
            /\ i - k + 1 \in 1..(n - k) /\ k + (i - k + 1) = i + 1
        BY <1>1, <1>2, <2>5, <3>3
      <4> QED BY <2>2, <2>4, <3>1, <3>3, <4>1, ZenonT(60)
    <3> QED BY <3>2, <3>3
  <2> QED BY <2>4, <2>5, <2>6, <2>7
<1> QED BY <1>4, <1>5, ZenonT(60)

(* Removing a member of a list without repetition removes just that one. *)
LEMMA RemoveList ==
  ASSUME NEW S, NEW s \in Seq(S), IsInjective(s), NEW x, Contains(s, x)
  PROVE  /\ RemoveFirst(s, x) \in Seq(S)
         /\ IsInjective(RemoveFirst(s, x))
         /\ Len(RemoveFirst(s, x)) = Len(s) - 1
         /\ \A y : Contains(RemoveFirst(s, x), y) <=> Contains(s, y) /\ y # x
<1> DEFINE n == Len(s)
<1>1. n \in Nat /\ DOMAIN s = 1..n
  OBVIOUS
<1>2. PICK k \in 1..n : s[k] = x
  BY DEF Contains
<1> DEFINE r == RemoveFirst(s, x)
<1>4. /\ r \in Seq(S) /\ Len(r) = n - 1
      /\ \A i \in 1..(n - 1) : r[i] = IF i < k THEN s[i] ELSE s[i + 1]
  BY <1>2, RemovePlaces, ZenonT(60)
<1> HIDE DEF r
<1>5. /\ r \in Seq(S) /\ Len(r) = n - 1 /\ DOMAIN r = 1..(n - 1)
      /\ \A i \in 1..(n - 1) : r[i] = IF i < k THEN s[i] ELSE s[i + 1]
  BY <1>4
<1> HIDE DEF n, r
<1>6. IsInjective(r)
  <2> SUFFICES ASSUME NEW i \in 1..(n - 1), NEW j \in 1..(n - 1), r[i] = r[j]
               PROVE  i = j
    BY <1>5 DEF IsInjective
  <2> DEFINE at(m) == IF m < k THEN m ELSE m + 1
  <2>1. /\ at(i) \in DOMAIN s /\ at(j) \in DOMAIN s
        /\ s[at(i)] = r[i] /\ s[at(j)] = r[j]
    BY <1>1, <1>2, <1>5
  <2>2. at(i) = at(j)
    BY <2>1 DEF IsInjective
  <2> QED BY <1>1, <1>2, <2>2
<1>7. ASSUME NEW y
      PROVE  Contains(r, y) <=> Contains(s, y) /\ y # x
  <2>1. ASSUME Contains(r, y)
        PROVE  Contains(s, y) /\ y # x
    <3>1. PICK i \in 1..(n - 1) : r[i] = y
      BY <1>5, <2>1 DEF Contains
    <3> DEFINE j == IF i < k THEN i ELSE i + 1
    <3>2. j \in 1..n /\ j # k /\ s[j] = y
      BY <1>1, <1>2, <1>5, <3>1
    <3> QED BY <1>1, <1>2, <3>2 DEF Contains, IsInjective, n
  <2>2. ASSUME Contains(s, y), y # x
        PROVE  Contains(r, y)
    <3>1. PICK i \in 1..n : s[i] = y
      BY <2>2 DEF Contains, n
    <3>2. i < k \/ i > k
      BY <1>1, <1>2, <2>2, <3>1
    <3>3. CASE i < k
      <4>1. i \in 1..(n - 1) /\ r[i] = y
        BY <1>1, <1>2, <1>5, <3>1, <3>3
      <4> QED BY <1>5, <4>1 DEF Contains
    <3>4. CASE i > k
      <4>1. i - 1 \in 1..(n - 1) /\ r[i - 1] = y
        BY <1>1, <1>2, <1>5, <3>1, <3>4
      <4> QED BY <1>5, <4>1 DEF Contains
    <3> QED BY <3>2, <3>3, <3>4
  <2> QED BY <2>1, <2>2
<1> QED BY <1>5, <1>6, <1>7, ZenonT(60) DEF n, r

-----------------------------------------------------------------------------
(* Totals of finitely many numbers                                         *)

(* g adds up the numbers c of the members of each subset of S. *)
Adds(g, c, S) ==
  /\ g \in [SUBSET S -> Int]
  /\ g[{}] = 0
  /\ \A u \in SUBSET S : \A x \in u : g[u] = c[x] + g[u \ {x}]

(* A subset of a finite set is finite. *)
LEMMA FiniteSubset ==
  ASSUME NEW S, Finite(S), NEW T, T \subseteq S
  PROVE  Finite(T)
<1>1. SUFFICES ASSUME NEW B \in SUBSET (SUBSET T), B # {}
               PROVE  \E t \in B : \A u \in B : u \subseteq t => u = t
  BY DEF Finite
<1>2. B \in SUBSET (SUBSET S)
  OBVIOUS
<1> QED
  BY <1>1, <1>2 DEF Finite

(* Every nonempty set of subsets of a finite set has a minimal member. *)
LEMMA SmallestSubset ==
  ASSUME NEW S, Finite(S), NEW B, B \subseteq SUBSET S, B # {}
  PROVE  \E t \in B : \A u \in B : u \subseteq t => u = t
<1>1. B \in SUBSET (SUBSET S)
  OBVIOUS
<1> QED
  BY <1>1 DEF Finite

(* Totals of the subsets of S without x extend to the subsets of S. *)
LEMMA AddsOne ==
  ASSUME NEW S, NEW x \in S, NEW c, \A y \in S : c[y] \in Int,
         NEW g, Adds(g, c, S \ {x})
  PROVE  \E f : Adds(f, c, S)
<1> DEFINE f == [u \in SUBSET S |-> IF x \in u THEN c[x] + g[u \ {x}] ELSE g[u]]
<1>1. f \in [SUBSET S -> Int]
  <2>1. \A u \in SUBSET S : u \ {x} \in SUBSET (S \ {x})
    OBVIOUS
  <2>2. \A u \in SUBSET S : x \notin u => u \in SUBSET (S \ {x})
    OBVIOUS
  <2> QED
    BY <2>1, <2>2 DEF Adds
<1>2. f[{}] = 0
  BY DEF Adds
<1>3. ASSUME NEW u \in SUBSET S, NEW y \in u PROVE f[u] = c[y] + f[u \ {y}]
  <2>1. CASE y = x
    <3>1. u \ {y} \in SUBSET S /\ x \notin u \ {y}
      BY <2>1
    <3> QED
      BY <2>1, <3>1
  <2>2. CASE y # x /\ x \notin u
    <3>1. u \in SUBSET (S \ {x}) /\ u \ {y} \in SUBSET S /\ x \notin u \ {y}
      BY <2>2
    <3>2. g[u] = c[y] + g[u \ {y}]
      BY <3>1, Zenon DEF Adds
    <3> QED
      BY <2>2, <3>1, <3>2
  <2>3. CASE y # x /\ x \in u
    <3> DEFINE v == u \ {x}
    <3>1. /\ v \in SUBSET (S \ {x}) /\ y \in v /\ u \ {y} \in SUBSET S
          /\ x \in u \ {y} /\ (u \ {y}) \ {x} = v \ {y}
      BY <2>3
    <3>2. g[v] = c[y] + g[v \ {y}]
      BY <3>1, Zenon DEF Adds
    <3>3. f[u] = c[x] + g[v] /\ f[u \ {y}] = c[x] + g[v \ {y}]
      BY <2>3, <3>1
    <3>4. v \ {y} \in SUBSET (S \ {x})
      BY <3>1
    <3>5. g[v] \in Int /\ g[v \ {y}] \in Int
      BY <3>1, <3>4 DEF Adds
    <3> HIDE DEF f
    <3>6. c[y] \in Int /\ c[x] \in Int
      OBVIOUS
    <3> QED
      BY <3>2, <3>3, <3>5, <3>6
  <2> QED
    BY <2>1, <2>2, <2>3
<1> HIDE DEF f
<1> QED
  BY <1>1, <1>2, <1>3, ZenonT(60) DEF Adds

(* Every finite set of numbers can be added up, in any order. *)
LEMMA AddsExists ==
  ASSUME NEW S, Finite(S), NEW c, \A y \in S : c[y] \in Int
  PROVE  \E g : Adds(g, c, S)
<1> DEFINE B == {s \in SUBSET S : ~ \E g : Adds(g, c, s)}
<1>1. B = {}
  <2>1. SUFFICES ASSUME B # {} PROVE FALSE
    OBVIOUS
  <2>2. PICK s \in B : \A u \in B : u \subseteq s => u = s
    <3>1. B \subseteq SUBSET S
      OBVIOUS
    <3> HIDE DEF B
    <3> QED
      BY <2>1, <3>1, SmallestSubset
  <2>3. CASE s = {}
    <3> DEFINE g == [u \in SUBSET s |-> 0]
    <3>1. Adds(g, c, s)
      BY <2>3 DEF Adds
    <3> QED
      BY <2>2, <3>1, Zenon
  <2>4. CASE s # {}
    <3>1. PICK x \in s : TRUE
      BY <2>4
    <3>2. s \ {x} \notin B
      BY <2>2, <3>1
    <3>3. PICK g : Adds(g, c, s \ {x})
      BY <3>2
    <3>4. \A y \in s : c[y] \in Int
      OBVIOUS
    <3>5. \E f : Adds(f, c, s)
      BY <3>1, <3>3, <3>4, AddsOne, Zenon
    <3> QED
      BY <2>2, <3>5, Zenon
  <2> QED
    BY <2>3, <2>4, Zenon
<1> QED
  BY <1>1

(* What the community operator computes, with its CHOOSE of the next       *)
(* element, is the total whatever the order.                               *)
LEMMA TotalAdds ==
  ASSUME NEW S, Finite(S), NEW c, \A y \in S : c[y] \in Int,
         NEW g, Adds(g, c, S)
  PROVE  SumFunctionOnSet(c, S) = g[S]
<1> DEFINE F(f) == [s \in SUBSET S |->
                     IF s = {} THEN 0
                     ELSE c[CHOOSE x \in s : TRUE] + f[s \ {CHOOSE x \in s : TRUE}]]
           iter == CHOOSE f : f = F(f)
<1>1. SumFunctionOnSet(c, S) = iter[S]
  BY DEF SumFunctionOnSet, FoldFunctionOnSet, MapThenFoldSet
<1>2. ASSUME NEW s \in SUBSET S, s # {}
      PROVE  (CHOOSE x \in s : TRUE) \in s
  BY <1>2, Zenon
<1>3. g = F(g)
  <2>1. \A s \in SUBSET S : g[s] = F(g)[s]
    BY <1>2, ZenonT(60) DEF Adds
  <2>2. g = [s \in SUBSET S |-> g[s]]
    BY DEF Adds
  <2> QED
    BY <2>1, <2>2, ZenonT(60)
<1>4. iter = F(iter)
  <2> HIDE DEF F
  <2> QED
    BY <1>3, Zenon
<1> HIDE DEF iter
<1> DEFINE B == {s \in SUBSET S : iter[s] # g[s]}
<1>5. B = {}
  <2>1. SUFFICES ASSUME B # {} PROVE FALSE
    OBVIOUS
  <2>2. PICK s \in B : \A u \in B : u \subseteq s => u = s
    <3>1. B \subseteq SUBSET S
      OBVIOUS
    <3> HIDE DEF B
    <3> QED
      BY <2>1, <3>1, SmallestSubset
  <2>3. iter[s] = IF s = {} THEN 0
                  ELSE c[CHOOSE x \in s : TRUE] + iter[s \ {CHOOSE x \in s : TRUE}]
    BY <1>4
  <2>4. CASE s = {}
    BY <2>2, <2>3, <2>4 DEF Adds
  <2>5. CASE s # {}
    <3> DEFINE x == CHOOSE x \in s : TRUE
    <3>1. x \in s
      BY <1>2, <2>5
    <3>2. g[s] = c[x] + g[s \ {x}]
      BY <3>1, ZenonT(60) DEF Adds
    <3>3. iter[s] = c[x] + iter[s \ {x}]
      BY <2>3, <2>5
    <3> HIDE DEF x
    <3>4. s \ {x} \notin B
      BY <2>2, <3>1
    <3> QED
      BY <3>2, <3>3, <3>4
  <2> QED
    BY <2>4, <2>5, Zenon
<1> QED
  BY <1>1, <1>5

(* A total is that of one element and that of the others. *)
LEMMA TotalAdd ==
  ASSUME NEW S, Finite(S), NEW c, \A y \in S : c[y] \in Int, NEW x \in S
  PROVE  /\ SumFunctionOnSet(c, S) \in Int /\ SumFunctionOnSet(c, S \ {x}) \in Int
         /\ SumFunctionOnSet(c, S) = c[x] + SumFunctionOnSet(c, S \ {x})
<1>1. PICK g : Adds(g, c, S)
  BY AddsExists, Zenon
<1>2. Finite(S \ {x})
  BY FiniteSubset
<1> DEFINE h == [u \in SUBSET (S \ {x}) |-> g[u]]
<1>3. Adds(h, c, S \ {x})
  <2>1. \A u \in SUBSET (S \ {x}) : u \in SUBSET S
    OBVIOUS
  <2>2. h \in [SUBSET (S \ {x}) -> Int] /\ h[{}] = 0
    BY <1>1, <2>1 DEF Adds
  <2>3. ASSUME NEW u \in SUBSET (S \ {x}), NEW y \in u
        PROVE  h[u] = c[y] + h[u \ {y}]
    BY <1>1, <2>1 DEF Adds
  <2> HIDE DEF h
  <2> QED
    BY <2>2, <2>3 DEF Adds
<1>4. SumFunctionOnSet(c, S) = g[S] /\ SumFunctionOnSet(c, S \ {x}) = h[S \ {x}]
  <2>1. \A y \in S \ {x} : c[y] \in Int
    OBVIOUS
  <2> HIDE DEF h
  <2> QED
    BY <1>1, <1>2, <1>3, <2>1, TotalAdds, Zenon
<1>5. S \in SUBSET S /\ S \ {x} \in SUBSET S
  OBVIOUS
<1> QED
  BY <1>1, <1>4, <1>5 DEF Adds

(* Nothing adds up to zero. *)
LEMMA TotalEmpty ==
  ASSUME NEW c
  PROVE  SumFunctionOnSet(c, {}) = 0
<1>1. Finite({})
  BY DEF Finite
<1>2. PICK g : Adds(g, c, {})
  BY <1>1, AddsExists, Zenon
<1> QED
  BY <1>1, <1>2, TotalAdds, Zenon DEF Adds

(* Natural numbers add up to a natural number. *)
LEMMA TotalNat ==
  ASSUME NEW S, Finite(S), NEW c, \A y \in S : c[y] \in Nat
  PROVE  SumFunctionOnSet(c, S) \in Nat
<1> DEFINE B == {s \in SUBSET S : SumFunctionOnSet(c, s) \notin Nat}
<1>1. B = {}
  <2>1. SUFFICES ASSUME B # {} PROVE FALSE
    OBVIOUS
  <2>2. PICK s \in B : \A u \in B : u \subseteq s => u = s
    <3>1. B \subseteq SUBSET S
      OBVIOUS
    <3> HIDE DEF B
    <3> QED
      BY <2>1, <3>1, SmallestSubset
  <2>3. CASE s = {}
    BY <2>2, <2>3, TotalEmpty
  <2>4. CASE s # {}
    <3>1. PICK x \in s : TRUE
      BY <2>4
    <3>2. s \ {x} \in SUBSET S /\ s \ {x} # s
      BY <3>1
    <3>3. SumFunctionOnSet(c, s \ {x}) \in Nat
      BY <2>2, <3>1, <3>2
    <3>4. Finite(s) /\ \A y \in s : c[y] \in Int
      BY FiniteSubset
    <3>5. SumFunctionOnSet(c, s) = c[x] + SumFunctionOnSet(c, s \ {x})
      BY <3>1, <3>4, TotalAdd
    <3>6. c[x] \in Nat
      OBVIOUS
    <3> QED
      BY <2>2, <3>3, <3>5, <3>6
  <2> QED
    BY <2>3, <2>4, Zenon
<1> QED
  BY <1>1

(* Equal numbers have equal totals. *)
LEMMA TotalSame ==
  ASSUME NEW S, Finite(S), NEW c, NEW d,
         \A y \in S : c[y] \in Int /\ d[y] = c[y]
  PROVE  SumFunctionOnSet(d, S) = SumFunctionOnSet(c, S)
<1>1. PICK g : Adds(g, c, S)
  BY AddsExists
<1>2. Adds(g, d, S)
  BY <1>1 DEF Adds
<1>3. \A y \in S : c[y] \in Int /\ d[y] \in Int
  OBVIOUS
<1> QED
  BY <1>1, <1>2, <1>3, TotalAdds, Zenon

(* Changing one number changes the total by the difference. *)
LEMMA TotalUpdate ==
  ASSUME NEW S, Finite(S), NEW c, NEW d, NEW x \in S, d[x] \in Int,
         \A y \in S : c[y] \in Int,
         \A y \in S \ {x} : d[y] = c[y]
  PROVE  SumFunctionOnSet(d, S) = SumFunctionOnSet(c, S) - c[x] + d[x]
<1>1. Finite(S \ {x})
  BY FiniteSubset
<1>2. SumFunctionOnSet(d, S \ {x}) = SumFunctionOnSet(c, S \ {x})
  BY <1>1, TotalSame
<1>3. /\ SumFunctionOnSet(c, S \ {x}) \in Int
      /\ SumFunctionOnSet(c, S) = c[x] + SumFunctionOnSet(c, S \ {x})
  BY TotalAdd
<1>4. \A y \in S : d[y] \in Int
  OBVIOUS
<1>5. SumFunctionOnSet(d, S) = d[x] + SumFunctionOnSet(d, S \ {x})
  BY <1>4, TotalAdd
<1>6. c[x] \in Int
  OBVIOUS
<1> QED
  BY <1>2, <1>3, <1>5, <1>6

(* The total over a subset is the total over the set of the numbers that   *)
(* are zero outside the subset.                                            *)
LEMMA TotalSupport ==
  ASSUME NEW S, Finite(S), NEW T, T \subseteq S, NEW c, NEW d,
         \A y \in T : c[y] \in Int /\ d[y] = c[y],
         \A y \in S \ T : d[y] = 0
  PROVE  SumFunctionOnSet(c, T) = SumFunctionOnSet(d, S)
<1> DEFINE B == {s \in SUBSET S : /\ T \subseteq s
                                  /\ SumFunctionOnSet(c, T) # SumFunctionOnSet(d, s)}
<1>1. B = {}
  <2>1. SUFFICES ASSUME B # {} PROVE FALSE
    OBVIOUS
  <2>2. PICK s \in B : \A u \in B : u \subseteq s => u = s
    <3>1. B \subseteq SUBSET S
      OBVIOUS
    <3> HIDE DEF B
    <3> QED
      BY <2>1, <3>1, SmallestSubset
  <2>3. Finite(T) /\ Finite(s)
    BY FiniteSubset
  <2>4. CASE s = T
    BY <2>2, <2>3, <2>4, TotalSame
  <2>5. CASE s # T
    <3>1. PICK x \in s : x \notin T
      BY <2>5
    <3>2. s \ {x} \in SUBSET S /\ s \ {x} # s /\ T \subseteq s \ {x}
      BY <3>1
    <3>3. SumFunctionOnSet(c, T) = SumFunctionOnSet(d, s \ {x})
      BY <2>2, <3>1, <3>2
    <3>4. \A y \in s : d[y] \in Int
      OBVIOUS
    <3>5. /\ SumFunctionOnSet(d, s \ {x}) \in Int
          /\ SumFunctionOnSet(d, s) = d[x] + SumFunctionOnSet(d, s \ {x})
      BY <2>3, <3>1, <3>4, TotalAdd
    <3>6. d[x] = 0
      BY <3>1
    <3> QED
      BY <2>2, <3>3, <3>5, <3>6
  <2> QED
    BY <2>4, <2>5, Zenon
<1> QED
  BY <1>1

Numbers(c, S)   == \A y \in S : c[y] \in Int
Agree(c, d, S)  == \A y \in S : c[y] = d[y]

(* The same with the assumptions folded, as the steps below use it. *)
LEMMA ChangeOne ==
  ASSUME NEW S, Finite(S), NEW c, NEW d, NEW x \in S,
         Numbers(c, S), Numbers(d, S), Agree(c, d, S \ {x})
  PROVE  SumFunctionOnSet(d, S) = SumFunctionOnSet(c, S) - c[x] + d[x]
<1>1. d[x] \in Int /\ \A y \in S : c[y] \in Int
  BY DEF Numbers
<1>2. \A y \in S \ {x} : d[y] = c[y]
  BY DEF Agree
<1> QED BY <1>1, <1>2, TotalUpdate

(* Changing two numbers changes the total by both differences. *)
LEMMA ChangeTwo ==
  ASSUME NEW S, Finite(S), NEW c, NEW d, NEW x \in S, NEW y \in S, x # y,
         Numbers(c, S), Numbers(d, S), Agree(c, d, S \ {x, y})
  PROVE  SumFunctionOnSet(d, S)
           = SumFunctionOnSet(c, S) - c[x] + d[x] - c[y] + d[y]
<1> DEFINE m == [z \in S |-> IF z = x THEN d[z] ELSE c[z]]
<1>1. /\ Numbers(m, S) /\ Agree(c, m, S \ {x}) /\ Agree(m, d, S \ {y})
      /\ m[x] = d[x] /\ m[y] = c[y]
  BY DEF Numbers, Agree
<1> HIDE DEF m
<1>2. SumFunctionOnSet(m, S) = SumFunctionOnSet(c, S) - c[x] + d[x]
  BY <1>1, ChangeOne
<1>3. SumFunctionOnSet(d, S) = SumFunctionOnSet(m, S) - c[y] + d[y]
  BY <1>1, ChangeOne
<1>4. SumFunctionOnSet(c, S) \in Int
  BY TotalAdd, ZenonT(60) DEF Numbers
<1>5. c[x] \in Int /\ d[x] \in Int /\ c[y] \in Int /\ d[y] \in Int
  BY DEF Numbers
<1> QED BY <1>2, <1>3, <1>4, <1>5
=============================================================================
