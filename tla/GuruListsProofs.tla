---------------------------- MODULE GuruListsProofs ----------------------------
(***************************************************************************)
(* Proofs about the two linked lists, for any number of entries, on one    *)
(* processor, on several, and on several that may show stores in any       *)
(* order: the pointers always link a queue, and a walk over it finds its   *)
(* handler.                                                                *)
(***************************************************************************)
EXTENDS GuruLists, FiniteSetTheorems, SequenceTheorems, TLAPS

Fields == {"next", "prev", "callback"}
Spots  == Node \cup {Root}
Ends   == Spots \cup {Null}

(* The head, the entries and the values of a pointer differ.               *)
LEMMA Names ==
  /\ Root # Null /\ Root # Given /\ Null # Given /\ RX \notin Node
  /\ \A n \in Node : n # Root /\ n # Null /\ n # Given /\ n # RX
  BY ListsAssumption DEF Root, Null, Given, RX

-----------------------------------------------------------------------------
(* Induction up to a bound, for a set: the prefixes of 1 .. n that lie in  *)
(* A are counted.                                                          *)
LEMMA Prefix ==
  ASSUME NEW k \in Nat
  PROVE  IsFiniteSet(1 .. k) /\ Cardinality(1 .. k) = k
<1>1. 1 \in Int /\ k \in Int
  OBVIOUS
<1>2. IsFiniteSet(1 .. k) /\ Cardinality(1 .. k) = IF 1 > k THEN 0 ELSE k - 1 + 1
  BY <1>1, FS_Interval
<1> QED
  BY <1>2

(* A set that contains k whenever it contains all below k is 1 .. n.       *)
LEMMA BoundedInduction ==
  ASSUME NEW n \in Nat, NEW A \in SUBSET (1 .. n),
         \A k \in 1 .. n : (\A j \in 1 .. k - 1 : j \in A) => k \in A
  PROVE  A = 1 .. n
<1> DEFINE C == {k \in 1 .. n : \A j \in 1 .. k : j \in A}
           c == Cardinality(C)
<1>1. /\ \A k \in C : k \in 1 .. n /\ \A j \in 1 .. k : j \in A
      /\ \A k \in 1 .. n : (\A j \in 1 .. k : j \in A) => k \in C
      /\ C \in SUBSET (1 .. n)
  OBVIOUS
<1>2. \A x, y \in 1 .. n : y \in C /\ x <= y => x \in C
  BY <1>1
<1> HIDE DEF C
<1>3. c \in Nat /\ c <= n
  <2>1. IsFiniteSet(1 .. n) /\ Cardinality(1 .. n) = n
    BY Prefix
  <2>2. IsFiniteSet(C) /\ Cardinality(C) <= Cardinality(1 .. n)
    BY <1>1, <2>1, FS_Subset
  <2>3. Cardinality(C) \in Nat
    BY <2>2, FS_CardinalityType
  <2> QED
    BY <2>1, <2>2, <2>3
<1>4. ASSUME NEW x \in 1 .. n, x \notin C PROVE c <= x - 1
  <2>1. C \in SUBSET (1 .. x - 1)
    BY <1>1, <1>2, <1>4
  <2>2. IsFiniteSet(1 .. x - 1) /\ Cardinality(1 .. x - 1) = x - 1
    <3>1. x - 1 \in Nat
      OBVIOUS
    <3> QED
      BY <3>1, Prefix
  <2> QED
    BY <2>1, <2>2, FS_Subset
<1>5. c = n
  <2> SUFFICES ASSUME c < n PROVE FALSE
    BY <1>3
  <2> HIDE DEF c
  <2>1. \A j \in 1 .. c : j \in C
    <3> SUFFICES ASSUME NEW j \in 1 .. c, j \notin C PROVE FALSE
      OBVIOUS
    <3>1. j \in 1 .. n
      BY <1>3
    <3>2. c <= j - 1
      BY <1>4, <3>1
    <3> QED
      BY <1>3, <3>1, <3>2
  <2>2. c + 1 \in 1 .. n /\ c + 1 - 1 = c
    BY <1>3
  <2>3. \A j \in 1 .. c : j \in A
    <3> SUFFICES ASSUME NEW j \in 1 .. c PROVE j \in A
      OBVIOUS
    <3>1. j \in C /\ j \in 1 .. j
      BY <1>3, <2>1
    <3> QED
      BY <1>1, <3>1
  <2>4. c + 1 \in A
    <3>1. 1 .. (c + 1) - 1 = 1 .. c
      BY <1>3
    <3>2. \A j \in 1 .. (c + 1) - 1 : j \in A
      BY <2>3, <3>1
    <3> QED
      BY <2>2, <3>2
  <2>5. c + 1 \in C
    <3>1. \A j \in 1 .. c + 1 : j \in 1 .. c \/ j = c + 1
      BY <1>3
    <3>2. \A j \in 1 .. c + 1 : j \in A
      BY <2>3, <2>4, <3>1
    <3> QED
      BY <1>1, <2>2, <3>2
  <2>6. 1 .. c + 1 \in SUBSET C
    <3>1. \A j \in 1 .. c + 1 : j \in 1 .. c \/ j = c + 1
      BY <1>3
    <3> QED
      BY <2>1, <2>5, <3>1
  <2>7. Cardinality(1 .. c + 1) = c + 1
    <3>1. c + 1 \in Nat
      BY <1>3
    <3> QED
      BY <3>1, Prefix
  <2>8. IsFiniteSet(C)
    <3>1. IsFiniteSet(1 .. n)
      BY Prefix
    <3> QED
      BY <1>1, <3>1, FS_Subset
  <2>9. Cardinality(1 .. c + 1) <= c
    BY <2>6, <2>8, FS_Subset DEF c
  <2> QED
    BY <1>3, <2>7, <2>9
<1>6. ASSUME NEW k \in 1 .. n PROVE k \in A
  <2>1. k \in C
    <3> HIDE DEF c
    <3> QED
      BY <1>4, <1>5
  <2>2. k \in 1 .. k
    OBVIOUS
  <2> QED
    BY <1>1, <2>1, <2>2
<1> QED
  BY <1>6

-----------------------------------------------------------------------------
(* The entries that pointers p link.                                       *)

ChainOf(p) ==
  LET at[k \in 1 .. Cardinality(Node)] ==
        IF k = 1 THEN p[<<"next", Root>>]
        ELSE IF at[k - 1] \in Node THEN p[<<"next", at[k - 1]>>] ELSE Root
  IN  [k \in {j \in DOMAIN at : at[j] \in Node} |-> at[k]]

(* The chain is a function of the pointers.                                *)
LEMMA ChainOfPtr == Chain = ChainOf(ptr) /\ Chain' = ChainOf(ptr')
  BY Zenon DEF Chain, ChainOf, next

(* Pointers p link the entries of q, in its order and no others.           *)
Links(p, q) ==
  /\ q \in Seq(Node) /\ IsInjective(q)
  /\ p[<<"next", Root>>] = IF q = <<>> THEN Root ELSE q[1]
  /\ \A i \in 1 .. Len(q) - 1 : p[<<"next", q[i]>>] = q[i + 1]
  /\ q # <<>> => p[<<"next", q[Len(q)]>>] \in {Root, Null}

(* No sequence of distinct entries is longer than there are entries.       *)
LEMMA NoLonger ==
  ASSUME NEW q \in Seq(Node), IsInjective(q)
  PROVE  Len(q) <= Cardinality(Node) /\ Cardinality(Node) \in Nat
<1>1. IsFiniteSet(Node) /\ Cardinality(Node) \in Nat
  BY ListsAssumption, FS_CardinalityType
<1>2. q \in [1 .. Len(q) -> Node] /\ Len(q) \in Nat
  OBVIOUS
<1>3. IsFiniteSet(1 .. Len(q)) /\ Cardinality(1 .. Len(q)) = Len(q)
  BY <1>2, Prefix
<1>4. Cardinality(Node) < Cardinality(1 .. Len(q)) =>
        \E x, y \in 1 .. Len(q) : x # y /\ q[x] = q[y]
  BY <1>1, <1>2, <1>3, FS_PigeonHole
<1> QED
  BY <1>1, <1>2, <1>3, <1>4 DEF IsInjective

(* What is linked is the chain: the recursion that follows the pointers    *)
(* has one solution.                                                       *)
LEMMA ChainIs ==
  ASSUME NEW p, NEW q, Links(p, q)
  PROVE  ChainOf(p) = q
<1> DEFINE N == Cardinality(Node)
           F(g, k) == IF k = 1 THEN p[<<"next", Root>>]
                      ELSE IF g[k - 1] \in Node THEN p[<<"next", g[k - 1]>>] ELSE Root
           E(g) == g = [k \in 1 .. N |-> F(g, k)]
           at == CHOOSE g : E(g)
           f == [k \in 1 .. N |-> IF k <= Len(q) THEN q[k] ELSE
                                  IF k = Len(q) + 1
                                  THEN p[<<"next", IF q = <<>> THEN Root ELSE q[Len(q)]>>]
                                  ELSE Root]
<1>1. /\ q \in Seq(Node) /\ Len(q) \in Nat /\ N \in Nat /\ Len(q) <= N
      /\ \A i \in 1 .. Len(q) : q[i] \in Node
  BY NoLonger DEF Links
<1>2. E(f)
  <2> SUFFICES ASSUME NEW k \in 1 .. N PROVE f[k] = F(f, k)
    OBVIOUS
  <2>1. CASE k = 1
    BY <1>1, <2>1 DEF Links
  <2>2. CASE k \in 2 .. Len(q)
    <3>1. k - 1 \in 1 .. Len(q) - 1 /\ k - 1 \in 1 .. N /\ k - 1 + 1 = k
      BY <1>1, <2>2
    <3>2. f[k - 1] = q[k - 1] /\ q[k - 1] \in Node /\ f[k] = q[k]
      BY <1>1, <2>2, <3>1
    <3>3. p[<<"next", q[k - 1]>>] = q[k]
      BY <3>1 DEF Links
    <3> QED
      BY <2>2, <3>2, <3>3
  <2>3. CASE k = Len(q) + 1 /\ q # <<>>
    <3>1. k # 1 /\ k - 1 = Len(q) /\ k - 1 \in 1 .. N
      BY <1>1, <2>3
    <3>2. f[k - 1] = q[k - 1] /\ q[k - 1] \in Node
      BY <1>1, <3>1
    <3> QED
      BY <1>1, <2>3, <3>1, <3>2
  <2>4. CASE k > Len(q) + 1
    <3>1. k # 1 /\ k - 1 \in 1 .. N /\ ~(k - 1 <= Len(q)) /\ f[k] = Root
      BY <1>1, <2>4
    <3>2. f[k - 1] \notin Node
      BY <1>1, <3>1, Names DEF Links
    <3> QED
      BY <3>1, <3>2
  <2> QED
    BY <1>1, <2>1, <2>2, <2>3, <2>4
<1>3. ASSUME NEW g, E(g) PROVE g = f
  <2> DEFINE A == {k \in 1 .. N : g[k] = f[k]}
  <2>1. ASSUME NEW k \in 1 .. N, \A j \in 1 .. k - 1 : j \in A PROVE k \in A
    <3>1. g[k] = F(g, k) /\ f[k] = F(f, k)
      <4> HIDE DEF f, F
      <4> QED
        BY <1>2, <1>3
    <3>2. k = 1 \/ g[k - 1] = f[k - 1]
      <4> HIDE DEF f, F
      <4> QED
        BY <1>1, <2>1
    <3>3. F(g, k) = F(f, k)
      <4> HIDE DEF f
      <4> QED
        BY <3>2
    <3> QED
      BY <3>1, <3>3
  <2>2. A = 1 .. N
    <3> HIDE DEF f, F, N
    <3> QED
      BY <1>1, <2>1, BoundedInduction
  <2> QED
    <3> HIDE DEF F
    <3> QED
      BY <1>3, <2>2
<1>4. at = f
  <2> HIDE DEF E, f
  <2> QED
    BY <1>2, <1>3
<1>5. ChainOf(p) = [k \in {j \in DOMAIN at : at[j] \in Node} |-> at[k]]
  BY Zenon DEF ChainOf
<1>6. {j \in DOMAIN f : f[j] \in Node} = 1 .. Len(q)
  <2>1. \A j \in 1 .. N : j <= Len(q) => f[j] \in Node
    BY <1>1
  <2>2. \A j \in 1 .. N : ~(j <= Len(q)) => f[j] \notin Node
    BY <1>1, Names DEF Links
  <2>3. DOMAIN f = 1 .. N /\ \A j \in 1 .. N : j \in 1 .. Len(q) <=> j <= Len(q)
    BY <1>1
  <2>4. 1 .. Len(q) \in SUBSET (1 .. N)
    BY <1>1
  <2> HIDE DEF f, N
  <2> QED
    BY <2>1, <2>2, <2>3, <2>4
<1>7. ChainOf(p) = [k \in 1 .. Len(q) |-> f[k]]
  <2> HIDE DEF f, at
  <2> QED
    BY <1>4, <1>5, <1>6
<1>8. ChainOf(p) = [k \in 1 .. Len(q) |-> q[k]]
  BY <1>1, <1>7
<1> QED
  BY <1>1, <1>8

-----------------------------------------------------------------------------
(* Sequences without repetitions.                                          *)

(* Different places of such a sequence hold different elements.            *)
LEMMA Distinct ==
  ASSUME NEW S, NEW s \in Seq(S), IsInjective(s)
  PROVE  \A i, j \in 1 .. Len(s) : s[i] = s[j] => i = j
<1>1. DOMAIN s = 1 .. Len(s)
  BY LenProperties
<1> QED
  BY <1>1 DEF IsInjective

(* Removing an element leaves the others, in their order.                  *)
Without(S, s, i, r) ==
  /\ r \in Seq(S) /\ Len(r) = Len(s) - 1
  /\ \A j \in 1 .. Len(s) - 1 : r[j] = s[IF j < i THEN j ELSE j + 1]
  /\ IsInjective(r)
  /\ \A j \in 1 .. Len(r) : r[j] # s[i]
  /\ \A j \in 1 .. Len(s) : j # i => \E k \in 1 .. Len(r) : r[k] = s[j]

(* What RemoveAt returns: the elements behind place i move up.             *)
LEMMA Shifted ==
  ASSUME NEW S, NEW s \in Seq(S), NEW i \in 1 .. Len(s), NEW r, r = RemoveAt(s, i)
  PROVE  /\ r \in Seq(S) /\ Len(r) = Len(s) - 1
         /\ \A j \in 1 .. Len(s) - 1 : r[j] = s[IF j < i THEN j ELSE j + 1]
<1> DEFINE a == SubSeq(s, 1, i - 1)
           b == SubSeq(s, i + 1, Len(s))
<1>1. /\ Len(s) \in Nat /\ i \in Nat /\ i <= Len(s) /\ 1 <= i
      /\ \A j \in 1 .. Len(s) : s[j] \in S
  BY LenProperties, ElementOfSeq
<1>2. a \in Seq(S) /\ Len(a) = i - 1 /\ \A j \in 1 .. i - 1 : a[j] = s[j]
  <2>1. /\ a \in Seq(S)
        /\ Len(a) = IF 1 <= i - 1 THEN i - 1 - 1 + 1 ELSE 0
        /\ \A j \in 1 .. i - 1 - 1 + 1 : a[j] = s[1 + j - 1]
    <3>1. 1 \in 1 .. Len(s) + 1 /\ i - 1 \in 0 .. Len(s)
      BY <1>1
    <3> QED
      BY <3>1, SubSeqProperties
  <2>2. \A j \in 1 .. i - 1 : 1 + j - 1 = j
    BY <1>1
  <2> HIDE DEF a
  <2> QED
    BY <1>1, <2>1, <2>2
<1>3. b \in Seq(S) /\ Len(b) = Len(s) - i /\ \A j \in 1 .. Len(s) - i : b[j] = s[i + j]
  <2>1. /\ b \in Seq(S)
        /\ Len(b) = IF i + 1 <= Len(s) THEN Len(s) - (i + 1) + 1 ELSE 0
        /\ \A j \in 1 .. Len(s) - (i + 1) + 1 : b[j] = s[(i + 1) + j - 1]
    <3>1. i + 1 \in 1 .. Len(s) + 1 /\ Len(s) \in 0 .. Len(s)
      BY <1>1
    <3> QED
      BY <3>1, SubSeqProperties
  <2>2. \A j \in 1 .. Len(s) - i : (i + 1) + j - 1 = i + j
    BY <1>1
  <2> HIDE DEF b
  <2> QED
    BY <1>1, <2>1, <2>2
<1>4. r = a \o b
  BY DEF RemoveAt
<1> HIDE DEF a, b
<1>5. /\ r \in Seq(S) /\ Len(r) = Len(s) - 1
      /\ \A j \in 1 .. Len(s) - 1 : r[j] = IF j <= i - 1 THEN a[j] ELSE b[j - (i - 1)]
  <2>1. /\ r \in Seq(S) /\ Len(r) = Len(a) + Len(b)
        /\ \A j \in 1 .. Len(a) + Len(b) :
             r[j] = IF j <= Len(a) THEN a[j] ELSE b[j - Len(a)]
    <3>1. a \in Seq(S) /\ b \in Seq(S)
      BY <1>2, <1>3
    <3> QED
      BY <1>4, <3>1, ConcatProperties
  <2>2. Len(a) + Len(b) = Len(s) - 1
    BY <1>1, <1>2, <1>3
  <2> QED
    BY <1>2, <2>1, <2>2
<1>6. ASSUME NEW j \in 1 .. Len(s) - 1
      PROVE  r[j] = s[IF j < i THEN j ELSE j + 1]
  <2>1. CASE j < i
    BY <1>1, <1>2, <1>5, <2>1
  <2>2. CASE ~(j < i)
    <3>1. j - (i - 1) \in 1 .. Len(s) - i /\ i + (j - (i - 1)) = j + 1
          /\ ~(j <= i - 1)
      BY <1>1, <2>2
    <3> QED
      BY <1>3, <1>5, <2>2, <3>1
  <2> QED
    BY <2>1, <2>2
<1> QED
  BY <1>5, <1>6

(* Removing an element leaves no element twice, and none out.              *)
LEMMA Removed ==
  ASSUME NEW S, NEW s \in Seq(S), IsInjective(s), NEW i \in 1 .. Len(s)
  PROVE  Without(S, s, i, RemoveAt(s, i))
<1>1. PICK r : r = RemoveAt(s, i)
  OBVIOUS
<1>2. /\ Len(s) \in Nat /\ i \in Nat /\ i <= Len(s) /\ 1 <= i
      /\ \A j \in 1 .. Len(s) : s[j] \in S
  BY LenProperties, ElementOfSeq
<1>3. r \in Seq(S) /\ Len(r) = Len(s) - 1
  BY <1>1, Shifted
<1>4. \A j \in 1 .. Len(s) - 1 : r[j] = s[IF j < i THEN j ELSE j + 1]
  BY <1>1, Shifted
<1>5. \A j, k \in 1 .. Len(s) : s[j] = s[k] => j = k
  BY Distinct
<1>6. IsInjective(r)
  <2>1. DOMAIN r = 1 .. Len(s) - 1
    BY <1>2, <1>3, LenProperties
  <2> SUFFICES ASSUME NEW j \in 1 .. Len(s) - 1, NEW k \in 1 .. Len(s) - 1, r[j] = r[k]
               PROVE  j = k
    BY <2>1 DEF IsInjective
  <2> DEFINE up(l) == IF l < i THEN l ELSE l + 1
  <2>2. up(j) \in 1 .. Len(s) /\ up(k) \in 1 .. Len(s) /\ (up(j) = up(k) => j = k)
    BY <1>2
  <2>3. s[up(j)] = s[up(k)]
    BY <1>4
  <2> HIDE DEF up
  <2> QED
    BY <1>5, <2>2, <2>3
<1>7. ASSUME NEW j \in 1 .. Len(r) PROVE r[j] # s[i]
  <2> DEFINE u == IF j < i THEN j ELSE j + 1
  <2>1. u \in 1 .. Len(s) /\ u # i /\ j \in 1 .. Len(s) - 1
    BY <1>2, <1>3
  <2>2. r[j] = s[u]
    BY <1>4, <2>1
  <2> HIDE DEF u
  <2> QED
    BY <1>5, <2>1, <2>2
<1>8. ASSUME NEW j \in 1 .. Len(s), j # i PROVE \E k \in 1 .. Len(r) : r[k] = s[j]
  <2>1. CASE j < i
    BY <1>2, <1>3, <1>4, <2>1
  <2>2. CASE ~(j < i)
    <3>1. j - 1 \in 1 .. Len(s) - 1 /\ ~(j - 1 < i) /\ j - 1 + 1 = j
      BY <1>2, <1>8, <2>2
    <3>2. r[j - 1] = s[j]
      BY <1>4, <3>1
    <3> QED
      BY <1>3, <3>1, <3>2
  <2> QED
    BY <2>1, <2>2
<1> QED
  BY <1>1, <1>3, <1>4, <1>6, <1>7, <1>8 DEF Without

(* Single stores strung together.                                          *)
LEMMA Strung ==
  ASSUME NEW S, NEW s \in Seq(S), NEW e \in S
  PROVE  /\ s \o <<e>> \in Seq(S) /\ Len(s \o <<e>>) = Len(s) + 1
         /\ \A j \in 1 .. Len(s) : (s \o <<e>>)[j] = s[j]
         /\ (s \o <<e>>)[Len(s) + 1] = e
<1>1. Append(s, e) = s \o <<e>>
  BY AppendIsConcat
<1> QED
  BY <1>1, AppendProperties

(* The four stores of list_add_tail or of list_del, strung together.       *)
LEMMA FourStrung ==
  ASSUME NEW S, NEW a \in S, NEW b \in S, NEW c \in S, NEW d \in S, NEW s,
         s = <<a>> \o <<b>> \o <<c>> \o <<d>>
  PROVE  /\ s \in Seq(S) /\ Len(s) = 4
         /\ s[1] = a /\ s[2] = b /\ s[3] = c /\ s[4] = d
<1> DEFINE t1 == <<a>>
           t2 == t1 \o <<b>>
           t3 == t2 \o <<c>>
<1>1. t1 \in Seq(S) /\ Len(t1) = 1 /\ t1[1] = a
  OBVIOUS
<1>2. t2 \in Seq(S) /\ Len(t2) = 2 /\ t2[1] = a /\ t2[2] = b
  <2> HIDE DEF t1
  <2>1. /\ t2 \in Seq(S) /\ Len(t2) = Len(t1) + 1
        /\ \A j \in 1 .. Len(t1) : t2[j] = t1[j]
        /\ t2[Len(t1) + 1] = b
    BY <1>1, Strung
  <2> HIDE DEF t2
  <2> QED
    BY <1>1, <2>1
<1>3. t3 \in Seq(S) /\ Len(t3) = 3 /\ t3[1] = a /\ t3[2] = b /\ t3[3] = c
  <2> HIDE DEF t2
  <2>1. /\ t3 \in Seq(S) /\ Len(t3) = Len(t2) + 1
        /\ \A j \in 1 .. Len(t2) : t3[j] = t2[j]
        /\ t3[Len(t2) + 1] = c
    BY <1>2, Strung
  <2> HIDE DEF t3
  <2> QED
    BY <1>2, <2>1
<1>4. s = t3 \o <<d>>
  OBVIOUS
<1> HIDE DEF t3
<1> DEFINE t4 == t3 \o <<d>>
<1>5. /\ t4 \in Seq(S) /\ Len(t4) = Len(t3) + 1
      /\ \A j \in 1 .. Len(t3) : t4[j] = t3[j]
      /\ t4[Len(t3) + 1] = d
  BY <1>3, Strung
<1>6. s = t4
  BY <1>4
<1> HIDE DEF t4
<1>7. /\ t4 \in Seq(S) /\ Len(t4) = 4
      /\ t4[1] = a /\ t4[2] = b /\ t4[3] = c /\ t4[4] = d
  BY <1>3, <1>5
<1> QED
  BY <1>6, <1>7

-----------------------------------------------------------------------------
(* The inductive invariant.                                                *)

Cells  == Fields \X Spots
Values == Ends \cup {Given}

(* One store.                                                              *)
St(field, n, value) == [cell |-> <<field, n>>, value |-> value]

Typed ==
  /\ list \in {"send_reply_list", "msg_list"}
  /\ machine \in {"up", "smp", "weak"}
  /\ ptr \in [Cells -> Values]
  /\ \A n \in Spots : next(n) \in Ends /\ prev(n) \in Ends
  /\ prev(Root) \in Spots
  /\ busy \in [Threads -> [cells : SUBSET Cells,
                           todo : Seq([cell : Cells, value : Values])]]
  /\ awake \in SUBSET Node
  /\ soft \in [step : {"idle", "callback", "list_del", "walk"}, item : Spots,
               nxt : Ends, wanted : Spots, before : BOOLEAN, calls : Nat]

(* What each of the two lists sees of the handler, and what can go wrong.  *)
Split ==
  /\ soft.step = "idle" => soft = Rest
  /\ list = "msg_list" => soft.step \in {"idle", "walk"} /\ Idling(RX)
  /\ list = "send_reply_list" => soft.step # "walk"
  /\ raced => list = "send_reply_list"
  /\ oops => machine = "weak"

First(q)  == IF q = <<>> THEN Root ELSE q[1]
Second(q) == IF Len(q) = 1 THEN Root ELSE q[2]
Final(q)  == IF q = <<>> THEN Root ELSE q[Len(q)]

(* An operation under way uses pointer c.                                  *)
Owned(c) == \E t \in Threads : c \in busy[t].cells

(* The pointers at the ends that no operation uses are those of a list.    *)
Closed(q) ==
  /\ ~Owned(<<"prev", Root>>) => prev(Root) = Final(q)
  /\ q # <<>> /\ ~Owned(<<"prev", First(q)>>) => prev(First(q)) = Root
  /\ q # <<>> /\ ~Owned(<<"next", Final(q)>>) => next(Final(q)) = Root

Disjoint ==
  \A t, u \in Threads : t # u => busy[t].cells \cap busy[u].cells = {}

(* The stores that link n behind l.                                        *)
AddStores(n, l) ==
  {St("prev", Root, n), St("next", n, Root), St("prev", n, l), St("next", l, n)}
    \cup (IF list = "msg_list" THEN {St("callback", n, Given)} ELSE {})

AddCells(n, l) ==
  {<<"prev", Root>>, <<"next", n>>, <<"prev", n>>, <<"next", l>>}
    \cup (IF list = "msg_list" THEN {<<"callback", n>>} ELSE {})

Owed(n) == {busy[n].todo[j] : j \in 1 .. Len(busy[n].todo)}

(* What of linking n behind l is not owed any more has happened to the     *)
(* pointers p, and what is owed has not; the list is q.                    *)
Half(p, n, l, q, owed) ==
  /\ St("next", l, n) \in owed =>
       l = Final(q) /\ p[<<"next", l>>] = Root /\ \A j \in 1 .. Len(q) : q[j] # n
  /\ St("next", l, n) \notin owed =>
       Len(q) > 0 /\ q[Len(q)] = n /\ l = IF Len(q) = 1 THEN Root ELSE q[Len(q) - 1]
  /\ St("prev", Root, n) \notin owed => p[<<"prev", Root>>] = n
  /\ p[<<"next", n>>] = IF St("next", n, Root) \in owed THEN Null ELSE Root
  /\ St("prev", n, l) \notin owed => p[<<"prev", n>>] = l
  /\ list = "msg_list" /\ St("callback", n, Given) \notin owed =>
       p[<<"callback", n>>] = Given

(* n is being linked behind l.  The store that links it is the last, or,   *)
(* on a weak machine, any.                                                 *)
Adding(n, l, q) ==
  LET todo == busy[n].todo
  IN  /\ l \in Spots /\ n # l
      /\ busy[n].cells = AddCells(n, l)
      /\ todo \in Seq(AddStores(n, l)) /\ IsInjective(todo) /\ todo # <<>>
      /\ machine # "weak" => todo[Len(todo)] = St("next", l, n)
      /\ Half(ptr, n, l, q, Owed(n))

DelStores(d, e) ==
  <<St("prev", e, Root), St("next", Root, e), St("next", d, Null), St("prev", d, Null)>>

(* d is being unlinked, with e the next; k stores are left.                *)
Deleting(d, e, q) ==
  LET todo == busy[RX].todo
      k    == Len(todo)
  IN  /\ e \in Spots /\ d \in Node /\ d # e
      /\ busy[RX].cells = {<<"prev", e>>, <<"next", Root>>, <<"next", d>>, <<"prev", d>>}
      /\ k \in 1 .. 4 /\ \A j \in 1 .. k : todo[j] = DelStores(d, e)[4 - k + j]
      /\ k >= 3 => q # <<>> /\ q[1] = d /\ e = Second(q)
      /\ k <= 2 => e = First(q) /\ \A j \in 1 .. Len(q) : q[j] # d
      /\ k <= 3 => prev(e) = Root
      /\ k <= 1 => next(d) = Null

(* The reply the handler works on is the first, until it is unlinked.      *)
Replying(q) ==
  /\ ~Idling(RX) => soft.step = "list_del" /\ \E e \in Spots : Deleting(soft.item, e, q)
  /\ soft.step \in {"callback", "list_del"} /\ Idling(RX) =>
       q # <<>> /\ soft.item = q[1]

(* One processor: start_xmit and the handler do not mix, and a queue that  *)
(* is not stopped has no entry in the list but the one that is unlinked.   *)
OneAtATime ==
  machine = "up" /\ list = "send_reply_list" =>
    /\ soft # Rest => \A n \in Node : Idling(n)
    /\ \A n \in awake : /\ Idling(n)
                        /\ next(n) = Null \/ (soft.step = "list_del" /\ soft.item = n)

(* A handler is filled in before it is linked.                             *)
Filled(q) ==
  list = "msg_list" /\ machine # "weak" =>
    \A j \in 1 .. Len(q) : ptr[<<"callback", q[j]>>] = Given

(* The walk has passed the first i - 1 handlers; the wanted one is among   *)
(* them, or ahead.                                                         *)
Walk(q, i) ==
  /\ i \in 1 .. Len(q) + 1
  /\ \/ soft.item = Root
     \/ /\ i <= Len(q) /\ soft.item = q[i]
        /\ soft.nxt = Root \/ (i < Len(q) /\ soft.nxt = q[i + 1])
  /\ soft.calls = IF \E j \in 1 .. i - 1 : q[j] = soft.wanted THEN 1 ELSE 0
  /\ soft.before /\ (\A j \in 1 .. i - 1 : q[j] # soft.wanted) =>
       /\ \E j \in 1 .. Len(q) : q[j] = soft.wanted
       /\ soft.item # Root
       /\ soft.wanted = soft.item \/ soft.nxt # Root

Walking(q) ==
  list = "msg_list" /\ machine # "weak" /\ soft.step = "walk" =>
    \E i \in 1 .. Len(q) + 1 : Walk(q, i)

Linking(q) == \A n \in Node : ~Idling(n) => \E l \in Spots : Adding(n, l, q)

(* The list holds q.                                                       *)
Holds(q) ==
  /\ Links(ptr, q) /\ Closed(q) /\ Disjoint /\ Linking(q)
  /\ Replying(q) /\ OneAtATime /\ Filled(q) /\ Walking(q)

IInv == Split /\ (~raced => Typed /\ \E q \in Seq(Node) : Holds(q))

(* No entry is linked, nobody is at work.                                  *)
LEMMA InitHolds ==
  ASSUME Init
  PROVE  Typed /\ Split /\ ~raced /\ Holds(<<>>)
<1>1. /\ Null \in Ends /\ Root \in Ends /\ Root \in Spots /\ Ends \subseteq Values
      /\ Given \in Values
      /\ RX \in Threads /\ Node \subseteq Threads /\ Root # Null /\ Root # Given
  BY Names DEF Ends, Spots, Values, Threads
<1>2. /\ \A c \in Cells : ptr[c] = CASE c[2] = Root        -> Root
                [] c[1] = "callback" /\ list = "send_reply_list" -> Given
                [] OTHER              -> Null
      /\ ptr = [c \in Cells |-> ptr[c]]
  BY DEF Init, Cells, Fields, Spots
<1>3. \A f \in Fields, n \in Spots :
        <<f, n>> \in Cells /\ <<f, n>>[1] = f /\ <<f, n>>[2] = n
  BY DEF Cells
<1>4. \A n \in Spots : next(n) = (IF n = Root THEN Root ELSE Null)
                       /\ prev(n) = (IF n = Root THEN Root ELSE Null)
  <2> SUFFICES ASSUME NEW n \in Spots
               PROVE  /\ next(n) = IF n = Root THEN Root ELSE Null
                      /\ prev(n) = IF n = Root THEN Root ELSE Null
    OBVIOUS
  <2>1. /\ <<"next", n>> \in Cells /\ <<"next", n>>[1] = "next" /\ <<"next", n>>[2] = n
        /\ <<"prev", n>> \in Cells /\ <<"prev", n>>[1] = "prev" /\ <<"prev", n>>[2] = n
    BY <1>3 DEF Fields
  <2> QED
    BY <1>2, <2>1 DEF next, prev
<1>5. /\ busy = [t \in Threads |-> Idle] /\ awake = Node /\ soft = Rest
      /\ raced = FALSE /\ oops = FALSE
      /\ list \in {"send_reply_list", "msg_list"} /\ machine \in {"up", "smp", "weak"}
  BY DEF Init
<1>6. Idle \in [cells : SUBSET Cells, todo : Seq([cell : Cells, value : Values])]
  BY DEF Idle
<1>7. Rest \in [step : {"idle", "callback", "list_del", "walk"}, item : Spots,
                nxt : Ends, wanted : Spots, before : BOOLEAN, calls : Nat]
  BY <1>1 DEF Rest
<1>8. \A t \in Threads : Idling(t) /\ busy[t].cells = {}
  BY <1>5 DEF Idling, Idle
<1>9. ptr \in [Cells -> Values]
  <2>1. \A c \in Cells : ptr[c] \in Values
    BY <1>1, <1>2
  <2> QED
    BY <1>2, <2>1
<1>10. Typed
  <2>1. busy \in [Threads -> [cells : SUBSET Cells,
                              todo : Seq([cell : Cells, value : Values])]]
    BY <1>5, <1>6
  <2> QED
    BY <1>1, <1>4, <1>5, <1>7, <1>9, <2>1 DEF Typed
<1>11. Split
  BY <1>1, <1>5, <1>8 DEF Split, Rest
<1>12. Holds(<<>>)
  <2>1. Links(ptr, <<>>)
    BY <1>1, <1>4 DEF Links, IsInjective, next
  <2>2. Closed(<<>>)
    BY <1>1, <1>4 DEF Closed, Final
  <2>3. Disjoint /\ Linking(<<>>)
    BY <1>1, <1>8 DEF Disjoint, Linking
  <2>4. Replying(<<>>)
    BY <1>1, <1>5, <1>8 DEF Replying, Rest
  <2>5. OneAtATime
    BY <1>1, <1>4, <1>5, <1>8, Names DEF OneAtATime, Spots
  <2>6. Filled(<<>>) /\ Walking(<<>>)
    BY <1>5 DEF Filled, Walking, Rest
  <2> QED
    BY <2>1, <2>2, <2>3, <2>4, <2>5, <2>6 DEF Holds
<1> QED
  BY <1>5, <1>10, <1>11, <1>12

-----------------------------------------------------------------------------
(* Pointers and stores.                                                    *)

(* Pointers and stores are the same only when all their parts are.         *)
LEMMA Pairs ==
  /\ \A f, g, m, n : <<f, m>> = <<g, n>> <=> f = g /\ m = n
  /\ \A f, g, m, n, v, w : St(f, m, v) = St(g, n, w) <=> f = g /\ m = n /\ v = w
  /\ \A f, m, v : St(f, m, v).cell = <<f, m>> /\ St(f, m, v).value = v
<1>1. \A f, g, m, n : <<f, m>> = <<g, n>> <=> f = g /\ m = n
  OBVIOUS
<1>2. \A f, m, v : St(f, m, v).cell = <<f, m>> /\ St(f, m, v).value = v
  BY DEF St
<1>3. \A f, g, m, n, v, w : St(f, m, v) = St(g, n, w) => f = g /\ m = n /\ v = w
  BY <1>1, <1>2
<1> QED
  BY <1>1, <1>2, <1>3

(* Pointers r are p but for one store.                                     *)
Differs(p, r, f, m, v) ==
  \A g \in Fields, k \in Spots :
    r[<<g, k>>] = IF g = f /\ k = m THEN v ELSE p[<<g, k>>]

(* A store changes one pointer.                                            *)
LEMMA Written ==
  ASSUME NEW p \in [Cells -> Values], NEW f \in Fields, NEW m \in Spots, NEW v,
         NEW s, s = St(f, m, v), NEW r, r = [p EXCEPT ![s.cell] = s.value]
  PROVE  Differs(p, r, f, m, v)
<1>1. r = [p EXCEPT ![<<f, m>>] = v]
  <2>1. s.cell = <<f, m>> /\ s.value = v
    BY DEF St
  <2> QED
    BY <2>1
<1> SUFFICES ASSUME NEW g \in Fields, NEW k \in Spots
             PROVE  r[<<g, k>>] = IF g = f /\ k = m THEN v ELSE p[<<g, k>>]
  BY DEF Differs
<1>2. <<f, m>> \in Cells /\ <<g, k>> \in Cells
  BY DEF Cells
<1>3. <<g, k>> = <<f, m>> <=> g = f /\ k = m
  BY Pairs
<1> QED
  BY <1>1, <1>2, <1>3

(* Appending and dropping at the ends of a sequence.                       *)
LEMMA Longer ==
  ASSUME NEW q \in Seq(Node), NEW n \in Node
  PROVE  /\ Append(q, n) \in Seq(Node) /\ Len(Append(q, n)) = Len(q) + 1
         /\ Append(q, n) # <<>> /\ Len(q) \in Nat
         /\ \A j \in 1 .. Len(q) : Append(q, n)[j] = q[j]
         /\ Append(q, n)[Len(q) + 1] = n
         /\ q # <<>> <=> Len(q) > 0
         /\ \A j \in 1 .. Len(q) : q[j] \in Node
  BY AppendProperties, LenProperties, EmptySeq, ElementOfSeq

(* A store brings an entry nearer to being linked.                         *)
LEMMA HalfStore ==
  ASSUME NEW p \in [Cells -> Values], NEW n \in Node, NEW l \in Spots, n # l,
         NEW q \in Seq(Node), NEW owed, NEW s \in owed, s \in AddStores(n, l),
         Half(p, n, l, q, owed),
         NEW r, r = [p EXCEPT ![s.cell] = s.value],
         NEW qq, qq = IF s = St("next", l, n) THEN Append(q, n) ELSE q
  PROVE  Half(r, n, l, qq, owed \ {s})
<1>1. n \in Spots /\ Root \in Spots /\ n # Root
  BY Names DEF Spots
<1>2. /\ "next" \in Fields /\ "prev" \in Fields /\ "callback" \in Fields
      /\ "next" # "prev" /\ "next" # "callback" /\ "prev" # "callback"
  BY DEF Fields
<1>3. CASE s = St("prev", Root, n)
  <2>1. Differs(p, r, "prev", Root, n)
    BY <1>1, <1>2, <1>3, Written
  <2>2. qq = q
    BY <1>2, <1>3, Pairs
  <2> QED
    BY <1>1, <1>2, <1>3, <2>1, <2>2, Pairs DEF Half, Differs
<1>4. CASE s = St("next", n, Root)
  <2>1. Differs(p, r, "next", n, Root)
    BY <1>1, <1>2, <1>4, Written
  <2>2. qq = q
    BY <1>1, <1>2, <1>4, Pairs
  <2> QED
    BY <1>1, <1>2, <1>4, <2>1, <2>2, Pairs DEF Half, Differs
<1>5. CASE s = St("prev", n, l)
  <2>1. Differs(p, r, "prev", n, l)
    BY <1>1, <1>2, <1>5, Written
  <2>2. qq = q
    BY <1>2, <1>5, Pairs
  <2> QED
    BY <1>1, <1>2, <1>5, <2>1, <2>2, Pairs DEF Half, Differs
<1>6. CASE s = St("next", l, n)
  <2>1. Differs(p, r, "next", l, n)
    BY <1>1, <1>2, <1>6, Written
  <2>2. qq = Append(q, n)
    BY <1>6
  <2>3. /\ l = Final(q) /\ \A j \in 1 .. Len(q) : q[j] # n
        /\ p[<<"next", l>>] = Root
    BY <1>6 DEF Half
  <2>4. Len(qq) > 0 /\ qq[Len(qq)] = n /\ l = IF Len(qq) = 1 THEN Root ELSE qq[Len(qq) - 1]
    <3>1. /\ Len(q) \in Nat /\ Len(qq) = Len(q) + 1 /\ qq[Len(q) + 1] = n
          /\ \A j \in 1 .. Len(q) : qq[j] = q[j]
          /\ q # <<>> <=> Len(q) > 0
      BY <2>2, Longer
    <3>2. CASE q = <<>>
      BY <2>3, <3>1, <3>2 DEF Final
    <3>3. CASE q # <<>>
      <4>1. Len(qq) # 1 /\ Len(qq) - 1 = Len(q) /\ Len(q) \in 1 .. Len(q)
        BY <3>1, <3>3
      <4> QED
        BY <2>3, <3>1, <3>3, <4>1 DEF Final
    <3> QED
      BY <3>2, <3>3
  <2>5. St("next", n, Root) # s
    BY <1>1, <1>6, Pairs
  <2> QED
    BY <1>1, <1>2, <1>6, <2>1, <2>4, <2>5, Pairs DEF Half, Differs
<1>7. CASE list = "msg_list" /\ s = St("callback", n, Given)
  <2>1. Differs(p, r, "callback", n, Given)
    BY <1>1, <1>2, <1>7, Written
  <2>2. qq = q
    BY <1>2, <1>7, Pairs
  <2> QED
    BY <1>1, <1>2, <1>7, <2>1, <2>2, Pairs DEF Half, Differs
<1> QED
  BY <1>3, <1>4, <1>5, <1>6, <1>7 DEF AddStores

-----------------------------------------------------------------------------
(* A step of an operation that links an entry.                             *)

(* What a context has under way.                                           *)
Op == [cells : SUBSET Cells, todo : Seq([cell : Cells, value : Values])]

(* Nothing but a store of n changes.                                       *)
Alone(n) ==
  /\ \A u \in Threads \ {n} : busy'[u] = busy[u]
  /\ UNCHANGED <<list, machine, awake, soft, raced, oops>>

(* While the list holds q, n, which is linked behind l, makes store s.     *)
Adds(n, l, q, s) ==
  /\ Typed /\ Split /\ ~raced /\ Holds(q) /\ Adding(n, l, q) /\ ~Idling(n)
  /\ s \in Owed(n) /\ s \in AddStores(n, l)
  /\ ptr' = [ptr EXCEPT ![s.cell] = s.value]
  /\ busy' \in [Threads -> Op] /\ Alone(n)
  /\ machine # "weak" /\ s = St("next", l, n) => busy'[n] = Idle
  /\ \/ busy'[n] = Idle /\ Owed(n) = {s}
     \/ /\ busy'[n].cells = AddCells(n, l)
        /\ busy'[n].todo \in Seq(AddStores(n, l)) /\ IsInjective(busy'[n].todo)
        /\ busy'[n].todo # <<>>
        /\ machine # "weak" => busy'[n].todo[Len(busy'[n].todo)] = St("next", l, n)
        /\ Owed(n)' = Owed(n) \ {s}

(* What the sets of this module contain.                                   *)
LEMMA Kinds ==
  /\ \A n \in Node : n \in Threads /\ n \in Spots /\ n # RX /\ n # Root
  /\ RX \in Threads /\ Root \in Spots /\ Root \in Ends /\ Null \in Ends
  /\ Ends \subseteq Values /\ Spots \subseteq Ends /\ Given \in Values
  /\ "next" \in Fields /\ "prev" \in Fields /\ "callback" \in Fields
  /\ Root # Null
  /\ \A f \in Fields, n \in Spots : <<f, n>> \in Cells
  BY Names DEF Threads, Spots, Ends, Values, Fields, Cells

(* The stores are stores.                                                  *)
LEMMA AddTyped ==
  ASSUME NEW n \in Node, NEW l \in Spots, NEW s \in AddStores(n, l)
  PROVE  s \in [cell : Cells, value : Values]
<1>1. \A f \in Fields, m \in Spots, v \in Values :
        St(f, m, v) \in [cell : Cells, value : Values]
  BY Kinds DEF St
<1> QED
  BY <1>1, Kinds DEF AddStores

(* Every store of a context that links its entry is such a store.          *)
LEMMA AddsFacts ==
  ASSUME Typed, Split, ~raced, NEW q \in Seq(Node), Holds(q),
         NEW n \in Node, Store(n)
  PROVE  \E l \in Spots : \E s : Adds(n, l, q, s)
<1> DEFINE todo == busy[n].todo
<1>1. PICK i \in 1 .. Len(todo) :
        /\ i = 1 \/ (machine = "weak" /\ n # RX)
        /\ ptr' = [ptr EXCEPT ![todo[i].cell] = todo[i].value]
        /\ busy' = [busy EXCEPT ![n] = IF RemoveAt(todo, i) = <<>> THEN Idle
                                       ELSE [@ EXCEPT !.todo = RemoveAt(todo, i)]]
        /\ soft' = IF n = RX /\ RemoveAt(todo, i) = <<>> THEN Rest ELSE soft
  BY DEF Store
<1>2. UNCHANGED <<list, machine, awake, raced, oops>>
  BY DEF Store
<1>3. n \in Threads /\ n \in Spots /\ n # RX
  BY Kinds
<1>4. ~Idling(n)
  <2>1. Len(<<>>) = 0
    OBVIOUS
  <2> QED
    BY <1>1, <2>1 DEF Idling, Idle
<1>5. PICK l \in Spots : Adding(n, l, q)
  BY <1>4 DEF Holds, Linking
<1> DEFINE S == AddStores(n, l)
           link == St("next", l, n)
<1>6. /\ todo \in Seq(S) /\ IsInjective(todo) /\ todo # <<>>
      /\ machine # "weak" => todo[Len(todo)] = link
      /\ busy[n].cells = AddCells(n, l)
  BY <1>5 DEF Adding
<1> HIDE DEF S, link
<1>7. PICK s : s = todo[i]
  OBVIOUS
<1>8. PICK left : left = RemoveAt(todo, i)
  OBVIOUS
<1> HIDE DEF todo
<1>9. /\ left \in Seq(S) /\ Len(left) = Len(todo) - 1
      /\ \A j \in 1 .. Len(todo) - 1 : left[j] = todo[IF j < i THEN j ELSE j + 1]
      /\ IsInjective(left)
      /\ \A j \in 1 .. Len(left) : left[j] # s
      /\ \A j \in 1 .. Len(todo) : j # i => \E k \in 1 .. Len(left) : left[k] = todo[j]
  <2>1. Without(S, todo, i, left)
    BY <1>6, <1>8, Removed
  <2> QED
    BY <1>7, <2>1 DEF Without
<1>10. /\ Len(todo) \in Nat /\ Len(left) \in Nat /\ (left = <<>> <=> Len(left) = 0)
       /\ \A j \in 1 .. Len(todo) : todo[j] \in S
       /\ \A j, k \in 1 .. Len(todo) : todo[j] = todo[k] => j = k
  BY <1>6, <1>9, LenProperties, EmptySeq, ElementOfSeq, Distinct
<1>11. s \in Owed(n) /\ s \in S
  BY <1>7, <1>10 DEF Owed, todo
<1>12. {left[j] : j \in 1 .. Len(left)} = Owed(n) \ {s}
  <2>1. ASSUME NEW x, x \in {left[j] : j \in 1 .. Len(left)}
        PROVE  x \in Owed(n) \ {s}
    <3>1. PICK j \in 1 .. Len(left) : x = left[j]
      BY <2>1
    <3> DEFINE u == IF j < i THEN j ELSE j + 1
    <3>2. u \in 1 .. Len(todo) /\ j \in 1 .. Len(todo) - 1
      BY <1>9, <1>10
    <3>3. x = todo[u] /\ x # s
      BY <1>9, <3>1, <3>2
    <3> HIDE DEF u
    <3> QED
      BY <3>2, <3>3 DEF Owed, todo
  <2>2. ASSUME NEW x, x \in Owed(n) \ {s}
        PROVE  x \in {left[j] : j \in 1 .. Len(left)}
    <3>1. PICK j \in 1 .. Len(todo) : x = todo[j]
      BY <2>2 DEF Owed, todo
    <3>2. j # i
      BY <1>7, <2>2, <3>1
    <3> QED
      BY <1>9, <3>1, <3>2
  <2> QED
    BY <2>1, <2>2
<1>13. /\ ptr' = [ptr EXCEPT ![s.cell] = s.value]
       /\ busy' = [busy EXCEPT ![n] = IF left = <<>> THEN Idle ELSE [@ EXCEPT !.todo = left]]
       /\ soft' = soft
  BY <1>1, <1>3, <1>7, <1>8 DEF todo
<1>14. busy[n] \in Op
  BY <1>3 DEF Typed, Op
<1>15. busy \in [Threads -> Op]
  BY DEF Typed, Op
<1>16. left \in Seq([cell : Cells, value : Values])
  <2>1. S \subseteq [cell : Cells, value : Values]
    BY AddTyped DEF S
  <2> QED
    BY <1>9, <2>1, SeqMonotonic
<1>17. Alone(n)
  BY <1>2, <1>13, <1>15 DEF Alone
<1>18. CASE left = <<>>
  <2>1. busy'[n] = Idle
    BY <1>3, <1>13, <1>15, <1>18
  <2>2. Idle \in Op
    BY DEF Idle, Op
  <2>3. busy' \in [Threads -> Op]
    BY <1>13, <1>15, <1>18, <2>2
  <2>4. Owed(n) = {s}
    <3>1. {left[j] : j \in 1 .. Len(left)} = {}
      BY <1>10, <1>18
    <3> QED
      BY <1>11, <1>12, <3>1
  <2>5. Adds(n, l, q, s)
    BY <1>4, <1>5, <1>11, <1>13, <1>17, <2>1, <2>3, <2>4 DEF Adds, S
  <2> QED
    BY <2>5
<1>19. CASE left # <<>>
  <2>1. busy'[n] = [busy[n] EXCEPT !.todo = left]
    BY <1>3, <1>13, <1>15, <1>19
  <2>2. busy'[n].cells = busy[n].cells /\ busy'[n].todo = left /\ busy'[n] \in Op
    BY <1>14, <1>16, <2>1 DEF Op
  <2>3. busy' \in [Threads -> Op]
    BY <1>13, <1>15, <1>19, <2>1, <2>2
  <2>4. machine # "weak" => left[Len(left)] = link
    <3> SUFFICES ASSUME machine # "weak" PROVE left[Len(left)] = link
      OBVIOUS
    <3>1. i = 1
      BY <1>1
    <3>2. Len(left) \in 1 .. Len(todo) - 1 /\ ~(Len(left) < i) /\ Len(left) + 1 = Len(todo)
      BY <1>9, <1>10, <1>19, <3>1
    <3> QED
      BY <1>6, <1>9, <3>2
  <2>5. machine # "weak" => s # link
    <3> SUFFICES ASSUME machine # "weak" PROVE s # link
      OBVIOUS
    <3>1. Len(left) \in 1 .. Len(left)
      BY <1>10, <1>19
    <3> QED
      BY <1>9, <2>4, <3>1
  <2>6. Owed(n)' = Owed(n) \ {s}
    BY <1>12, <2>2 DEF Owed
  <2>7. Adds(n, l, q, s)
    BY <1>4, <1>5, <1>6, <1>9, <1>11, <1>13, <1>17, <1>19, <2>2, <2>3, <2>4, <2>5, <2>6
       DEF Adds, S, link
  <2> QED
    BY <2>7
<1> QED
  BY <1>18, <1>19

(* The list after store s.                                                 *)
Grown(q, n, l, s) == IF s = St("next", l, n) THEN Append(q, n) ELSE q

(* It changes no pointer that another context uses.                        *)
LEMMA AddsCells ==
  ASSUME NEW q \in Seq(Node), NEW n \in Node, NEW l \in Spots, NEW s, Adds(n, l, q, s)
  PROVE  /\ busy[n].cells = AddCells(n, l)
         /\ \A c \in Cells : c \notin AddCells(n, l) => ptr'[c] = ptr[c]
         /\ \A m \in Node : m # n => Idling(m) /\ busy[m].cells = {}
         /\ \A c \in AddCells(n, l) : c \notin busy[RX].cells
<1>1. /\ s \in AddStores(n, l) /\ ptr' = [ptr EXCEPT ![s.cell] = s.value]
      /\ busy[n].cells = AddCells(n, l) /\ Disjoint
      /\ ptr \in [Cells -> Values]
  BY DEF Adds, Adding, Holds, Typed
<1>2. s.cell \in AddCells(n, l)
  BY <1>1 DEF AddStores, AddCells, St
<1>3. \A c \in Cells : c \notin AddCells(n, l) => ptr'[c] = ptr[c]
  BY <1>1, <1>2
<1>4. ASSUME NEW m \in Node, m # n PROVE Idling(m) /\ busy[m].cells = {}
  <2>1. Idling(m)
    <3> SUFFICES ASSUME ~Idling(m) PROVE FALSE
      OBVIOUS
    <3>1. PICK k \in Spots : Adding(m, k, q)
      BY DEF Adds, Holds, Linking
    <3>2. <<"prev", Root>> \in busy[m].cells /\ <<"prev", Root>> \in busy[n].cells
      BY <1>1, <3>1 DEF Adding, AddCells
    <3> QED
      BY <1>1, <1>4, <3>2, Kinds DEF Disjoint
  <2> QED
    BY <2>1 DEF Idling, Idle
<1>5. \A c \in AddCells(n, l) : c \notin busy[RX].cells
  BY <1>1, Kinds DEF Disjoint
<1> QED
  BY <1>1, <1>3, <1>4, <1>5

(* It brings the entry one store nearer to being linked.                   *)
LEMMA AddsHalf ==
  ASSUME NEW q \in Seq(Node), NEW n \in Node, NEW l \in Spots, NEW s, Adds(n, l, q, s)
  PROVE  /\ Half(ptr, n, l, q, Owed(n))
         /\ Half(ptr', n, l, Grown(q, n, l, s), Owed(n) \ {s})
<1>1. /\ ptr \in [Cells -> Values] /\ n # l /\ s \in Owed(n) /\ s \in AddStores(n, l)
      /\ Half(ptr, n, l, q, Owed(n))
      /\ ptr' = [ptr EXCEPT ![s.cell] = s.value]
  BY DEF Adds, Adding, Typed
<1> QED
  BY <1>1, HalfStore DEF Grown

(* Which of the five stores it is, as the pointers show it.                *)
LEMMA AddsWrites ==
  ASSUME NEW q \in Seq(Node), NEW n \in Node, NEW l \in Spots, NEW s, Adds(n, l, q, s)
  PROVE  \/ s = St("prev", Root, n) /\ Differs(ptr, ptr', "prev", Root, n)
         \/ s = St("next", n, Root) /\ Differs(ptr, ptr', "next", n, Root)
         \/ s = St("prev", n, l) /\ Differs(ptr, ptr', "prev", n, l)
         \/ s = St("next", l, n) /\ Differs(ptr, ptr', "next", l, n)
         \/ /\ list = "msg_list" /\ s = St("callback", n, Given)
            /\ Differs(ptr, ptr', "callback", n, Given)
<1>1. /\ ptr \in [Cells -> Values] /\ s \in AddStores(n, l)
      /\ ptr' = [ptr EXCEPT ![s.cell] = s.value]
  BY DEF Adds, Typed
<1>2. \A f \in Fields, m \in Spots : \A v : s = St(f, m, v) => Differs(ptr, ptr', f, m, v)
  BY <1>1, Written
<1> QED
  BY <1>1, <1>2, Kinds DEF AddStores

(* The pointers link the list, or the list and n behind it.                *)
LEMMA AddsLinks ==
  ASSUME NEW q \in Seq(Node), NEW n \in Node, NEW l \in Spots, NEW s, Adds(n, l, q, s)
  PROVE  Links(ptr', Grown(q, n, l, s))
<1>1. /\ IsInjective(q) /\ \A i, j \in 1 .. Len(q) : q[i] = q[j] => i = j
      /\ ptr[<<"next", Root>>] = IF q = <<>> THEN Root ELSE q[1]
      /\ \A i \in 1 .. Len(q) - 1 : ptr[<<"next", q[i]>>] = q[i + 1]
      /\ q # <<>> => ptr[<<"next", q[Len(q)]>>] \in {Root, Null}
  BY Distinct DEF Adds, Holds, Links
<1>2. /\ Append(q, n) \in Seq(Node) /\ Len(Append(q, n)) = Len(q) + 1
      /\ Append(q, n) # <<>> /\ Len(q) \in Nat
      /\ \A j \in 1 .. Len(q) : Append(q, n)[j] = q[j]
      /\ Append(q, n)[Len(q) + 1] = n
      /\ q # <<>> <=> Len(q) > 0
      /\ \A j \in 1 .. Len(q) : q[j] \in Node
  BY Longer
<1>3. Half(ptr, n, l, q, Owed(n)) /\ s \in Owed(n) /\ n # l
  BY AddsHalf DEF Adds, Adding
<1>4. \A j \in 1 .. Len(q) : q[j] \in Spots /\ q[j] # Root
  BY <1>2, Kinds
<1>5. CASE s = St("next", l, n)
  <2>1. /\ l = Final(q) /\ \A j \in 1 .. Len(q) : q[j] # n
        /\ ptr[<<"next", n>>] \in {Root, Null}
    BY <1>3, <1>5 DEF Half
  <2>2. \A m \in Spots : ptr'[<<"next", m>>] = IF m = l THEN n ELSE ptr[<<"next", m>>]
    <3>1. Differs(ptr, ptr', "next", l, n)
      BY <1>5, Kinds, Written DEF Adds, Typed
    <3> QED
      BY <3>1, Kinds DEF Differs
  <2>3. PICK qq : qq = Append(q, n)
    OBVIOUS
  <2>4. IsInjective(qq)
    <3>1. DOMAIN qq = 1 .. Len(q) + 1
      BY <1>2, <2>3, LenProperties
    <3>2. \A i, j \in 1 .. Len(q) + 1 : qq[i] = qq[j] => i = j
      <4> SUFFICES ASSUME NEW i \in 1 .. Len(q) + 1, NEW j \in 1 .. Len(q) + 1,
                          qq[i] = qq[j]
                   PROVE  i = j
        OBVIOUS
      <4>1. /\ i \in 1 .. Len(q) \/ i = Len(q) + 1
            /\ j \in 1 .. Len(q) \/ j = Len(q) + 1
        BY <1>2
      <4> QED
        BY <1>1, <1>2, <2>1, <2>3, <4>1
    <3> QED
      BY <3>1, <3>2 DEF IsInjective
  <2>5. ptr'[<<"next", Root>>] = qq[1]
    <3>1. CASE q = <<>>
      BY <1>2, <2>1, <2>2, <2>3, <3>1, Kinds DEF Final
    <3>2. CASE q # <<>>
      <4>1. 1 \in 1 .. Len(q) /\ Len(q) \in 1 .. Len(q)
        BY <1>2, <3>2
      <4>2. l # Root
        BY <1>4, <2>1, <3>2, <4>1 DEF Final
      <4> QED
        BY <1>1, <1>2, <2>2, <2>3, <3>2, <4>1, <4>2, Kinds
    <3> QED
      BY <3>1, <3>2
  <2>6. ASSUME NEW i \in 1 .. Len(qq) - 1 PROVE ptr'[<<"next", qq[i]>>] = qq[i + 1]
    <3>1. i \in 1 .. Len(q) /\ Len(qq) = Len(q) + 1 /\ q # <<>>
      BY <1>2, <2>3
    <3>2. qq[i] = q[i] /\ qq[i] \in Spots
      BY <1>2, <1>4, <2>3, <3>1
    <3>3. CASE i = Len(q)
      BY <1>2, <2>1, <2>2, <2>3, <3>1, <3>2, <3>3 DEF Final
    <3>4. CASE i # Len(q)
      <4>1. i \in 1 .. Len(q) - 1 /\ Len(q) \in 1 .. Len(q) /\ i + 1 \in 1 .. Len(q)
        BY <1>2, <3>1, <3>4
      <4>2. q[i] # l
        BY <1>1, <2>1, <3>1, <3>4, <4>1 DEF Final
      <4> QED
        BY <1>1, <1>2, <2>2, <2>3, <3>2, <4>1, <4>2
    <3> QED
      BY <3>3, <3>4
  <2>7. ptr'[<<"next", qq[Len(qq)]>>] \in {Root, Null}
    <3>1. qq[Len(qq)] = n
      BY <1>2, <2>3
    <3> QED
      BY <1>3, <2>1, <2>2, <3>1, Kinds
  <2>8. qq \in Seq(Node) /\ qq # <<>>
    BY <1>2, <2>3
  <2> QED
    BY <1>5, <2>3, <2>4, <2>5, <2>6, <2>7, <2>8 DEF Links, Grown
<1>6. CASE s # St("next", l, n)
  <2>1. \A m \in Spots : m # n => ptr'[<<"next", m>>] = ptr[<<"next", m>>]
    BY <1>6, AddsWrites, Kinds DEF Differs
  <2>2. ptr'[<<"next", n>>] \in {Root, ptr[<<"next", n>>]}
    BY <1>6, AddsWrites, Kinds DEF Differs
  <2>3. \A i \in 1 .. Len(q) - 1 : q[i] # n
    <3> SUFFICES ASSUME NEW i \in 1 .. Len(q) - 1, q[i] = n PROVE FALSE
      OBVIOUS
    <3>1. i \in 1 .. Len(q) /\ Len(q) \in 1 .. Len(q) /\ i # Len(q)
      BY <1>2
    <3>2. CASE St("next", l, n) \in Owed(n)
      BY <1>3, <3>1, <3>2 DEF Half
    <3>3. CASE St("next", l, n) \notin Owed(n)
      BY <1>1, <1>3, <3>1, <3>3 DEF Half
    <3> QED
      BY <3>2, <3>3
  <2>4. ptr'[<<"next", Root>>] = IF q = <<>> THEN Root ELSE q[1]
    BY <1>1, <2>1, Kinds
  <2>5. ASSUME NEW i \in 1 .. Len(q) - 1 PROVE ptr'[<<"next", q[i]>>] = q[i + 1]
    <3>1. i \in 1 .. Len(q)
      BY <1>2
    <3> QED
      BY <1>1, <1>4, <2>1, <2>3, <3>1
  <2>6. ASSUME q # <<>> PROVE ptr'[<<"next", q[Len(q)]>>] \in {Root, Null}
    <3>1. Len(q) \in 1 .. Len(q)
      BY <1>2, <2>6
    <3> QED
      BY <1>1, <1>4, <2>1, <2>2, <2>6, <3>1
  <2> QED
    BY <1>1, <1>6, <2>4, <2>5, <2>6 DEF Links, Grown
<1> QED
  BY <1>5, <1>6

(* A pointer that is used after the store was used before, and those of n  *)
(* are used until it is linked.                                            *)
LEMMA AddsOwned ==
  ASSUME NEW q \in Seq(Node), NEW n \in Node, NEW l \in Spots, NEW s, Adds(n, l, q, s)
  PROVE  /\ \A c : Owned(c) => Owned(c)' \/ (busy'[n] = Idle /\ c \in AddCells(n, l))
         /\ busy'[n] # Idle => \A c \in AddCells(n, l) : Owned(c)'
<1>1. /\ \A u \in Threads \ {n} : busy'[u] = busy[u]
      /\ busy[n].cells = AddCells(n, l)
      /\ busy'[n] # Idle => busy'[n].cells = AddCells(n, l)
      /\ n \in Threads
  BY AddsCells, Kinds DEF Adds, Alone
<1> QED
  BY <1>1 DEF Owned

(* The ends of the list that nobody uses stay closed.                      *)
LEMMA AddsClosed ==
  ASSUME NEW q \in Seq(Node), NEW n \in Node, NEW l \in Spots, NEW s, Adds(n, l, q, s)
  PROVE  Closed(Grown(q, n, l, s))'
<1>1. PICK qq : qq = Grown(q, n, l, s)
  OBVIOUS
<1>2. /\ Append(q, n) \in Seq(Node) /\ Len(Append(q, n)) = Len(q) + 1
      /\ Append(q, n) # <<>> /\ Len(q) \in Nat
      /\ \A j \in 1 .. Len(q) : Append(q, n)[j] = q[j]
      /\ Append(q, n)[Len(q) + 1] = n
      /\ q # <<>> <=> Len(q) > 0
      /\ \A j \in 1 .. Len(q) : q[j] \in Node
  BY Longer
<1>3. /\ Closed(q)
      /\ \A c \in Cells : ~Owned(c)' => \/ ~Owned(c) /\ ptr'[c] = ptr[c]
                                        \/ busy'[n] = Idle /\ c \in AddCells(n, l)
  <2>1. \A c \in Cells : c \notin AddCells(n, l) => ptr'[c] = ptr[c]
    BY AddsCells
  <2>2. \A c : c \in AddCells(n, l) => Owned(c)
    BY AddsCells, Kinds DEF Owned
  <2>3. Closed(q)
    BY DEF Adds, Holds
  <2> QED
    BY <2>1, <2>2, <2>3, AddsOwned
<1>4. Half(ptr', n, l, qq, Owed(n) \ {s})
  BY <1>1, AddsHalf
<1>5. \A j \in 1 .. Len(q) : q[j] \in Spots /\ q[j] # Root
  BY <1>2, Kinds
<1>6. /\ qq # <<>> <=> Len(qq) > 0
      /\ Len(qq) \in Nat
      /\ \A j \in 1 .. Len(qq) : qq[j] \in Node /\ qq[j] \in Spots /\ qq[j] # Root
  <2>1. qq \in Seq(Node)
    BY <1>1, <1>2 DEF Grown
  <2> QED
    BY <2>1, LenProperties, EmptySeq, ElementOfSeq, Kinds
<1>7. /\ qq # <<>> => First(qq) = qq[1] /\ Final(qq) = qq[Len(qq)] /\ First(qq) \in Node
      /\ qq # <<>> => Final(qq) \in Node
      /\ q # <<>> => First(q) = q[1] /\ Final(q) = q[Len(q)]
  <2>1. qq # <<>> => 1 \in 1 .. Len(qq) /\ Len(qq) \in 1 .. Len(qq)
    BY <1>6
  <2> QED
    BY <1>6, <2>1 DEF First, Final
<1>8. qq # <<>> /\ qq[1] # n => q # <<>> /\ First(q) = First(qq)
  <2>1. CASE s = St("next", l, n)
    BY <1>1, <1>2, <1>7, <2>1 DEF Grown
  <2>2. CASE s # St("next", l, n)
    BY <1>1, <1>7, <2>2 DEF Grown
  <2> QED
    BY <2>1, <2>2
<1>9. CASE busy'[n] = Idle
  <2>1. Owed(n) \ {s} = {}
    <3>1. Owed(n) = {s} \/ busy'[n].todo # <<>>
      BY DEF Adds
    <3> QED
      BY <1>9, <3>1 DEF Idle
  <2>2. /\ Len(qq) > 0 /\ qq[Len(qq)] = n
        /\ l = IF Len(qq) = 1 THEN Root ELSE qq[Len(qq) - 1]
        /\ ptr'[<<"prev", Root>>] = n /\ ptr'[<<"next", n>>] = Root
        /\ ptr'[<<"prev", n>>] = l
    BY <1>4, <2>1 DEF Half
  <2>3. prev(Root)' = Final(qq) /\ next(Final(qq))' = Root
    BY <1>6, <1>7, <2>2 DEF prev, next
  <2>4. ASSUME ~Owned(<<"prev", First(qq)>>)' PROVE prev(First(qq))' = Root
    <3>1. CASE First(qq) = n
      <4>1. Len(qq) = 1
        <5>1. Links(ptr', qq)
          BY <1>1, AddsLinks
        <5>2. \A i, j \in 1 .. Len(qq) : qq[i] = qq[j] => i = j
          BY <5>1, Distinct DEF Links
        <5>3. 1 \in 1 .. Len(qq) /\ Len(qq) \in 1 .. Len(qq) /\ qq[1] = qq[Len(qq)]
          BY <1>6, <1>7, <2>2, <3>1
        <5> QED
          BY <5>2, <5>3
      <4> QED
        BY <2>2, <3>1, <4>1 DEF prev
    <3>2. CASE First(qq) # n
      <4>1. q # <<>> /\ First(q) = First(qq) /\ First(qq) \in Spots /\ First(qq) # Root
        BY <1>6, <1>7, <1>8, <2>2, <3>2, Kinds
      <4>2. <<"prev", First(qq)>> \notin AddCells(n, l)
        BY <3>2, <4>1, Pairs DEF AddCells
      <4> QED
        BY <1>3, <2>4, <4>1, <4>2, Kinds DEF Closed, prev
    <3> QED
      BY <3>1, <3>2
  <2> QED
    BY <1>1, <2>3, <2>4 DEF Closed
<1>10. CASE busy'[n] # Idle
  <2>1. \A c \in AddCells(n, l) : Owned(c)'
    BY <1>10, AddsOwned
  <2>2. Owned(<<"prev", Root>>)' /\ Owned(<<"prev", n>>)' /\ Owned(<<"next", n>>)'
    BY <2>1 DEF AddCells
  <2>3. ASSUME qq # <<>>, ~Owned(<<"prev", First(qq)>>)' PROVE prev(First(qq))' = Root
    <3>1. q # <<>> /\ First(q) = First(qq) /\ First(qq) \in Spots
      BY <1>6, <1>7, <1>8, <2>2, <2>3, Kinds
    <3> QED
      BY <1>3, <1>10, <2>3, <3>1, Kinds DEF Closed, prev
  <2>4. ASSUME qq # <<>>, ~Owned(<<"next", Final(qq)>>)' PROVE next(Final(qq))' = Root
    <3>1. Final(qq) # n /\ Final(qq) \in Spots
      BY <1>7, <2>2, <2>4, Kinds
    <3>2. s # St("next", l, n)
      BY <1>1, <1>2, <1>7, <2>4, <3>1 DEF Grown
    <3>3. qq = q
      BY <1>1, <3>2 DEF Grown
    <3> QED
      BY <1>3, <1>10, <2>4, <3>1, <3>3, Kinds DEF Closed, next
  <2> QED
    BY <1>1, <2>2, <2>3, <2>4 DEF Closed
<1> QED
  BY <1>9, <1>10

(* The others that link an entry are not disturbed.                        *)
LEMMA AddsLinking ==
  ASSUME NEW q \in Seq(Node), NEW n \in Node, NEW l \in Spots, NEW s, Adds(n, l, q, s)
  PROVE  Disjoint' /\ Linking(Grown(q, n, l, s))'
<1>1. PICK qq : qq = Grown(q, n, l, s)
  OBVIOUS
<1>2. /\ \A u \in Threads \ {n} : busy'[u] = busy[u]
      /\ busy[n].cells = AddCells(n, l)
      /\ busy'[n].cells = AddCells(n, l) \/ busy'[n].cells = {}
      /\ Disjoint /\ n \in Threads
  <2>1. \A u \in Threads \ {n} : busy'[u] = busy[u]
    BY DEF Adds, Alone
  <2>2. busy'[n].cells = AddCells(n, l) \/ busy'[n] = Idle
    BY DEF Adds
  <2>3. Disjoint
    BY DEF Adds, Holds
  <2> QED
    BY <2>1, <2>2, <2>3, AddsCells, Kinds DEF Idle
<1>3. Disjoint'
  BY <1>2 DEF Disjoint
<1>4. ASSUME NEW m \in Node, ~Idling(m)' PROVE Adding(m, l, qq)'
  <2>1. m = n
    <3> SUFFICES ASSUME m # n PROVE FALSE
      OBVIOUS
    <3>1. Idling(m) /\ busy'[m] = busy[m]
      BY <1>2, AddsCells, Kinds
    <3> QED
      BY <1>4, <3>1 DEF Idling
  <2>2. busy'[n] # Idle
    BY <1>4, <2>1 DEF Idling
  <2>3. /\ busy'[n].cells = AddCells(n, l)
        /\ busy'[n].todo \in Seq(AddStores(n, l)) /\ IsInjective(busy'[n].todo)
        /\ busy'[n].todo # <<>>
        /\ machine # "weak" => busy'[n].todo[Len(busy'[n].todo)] = St("next", l, n)
        /\ Owed(n)' = Owed(n) \ {s}
        /\ n # l /\ list' = list /\ machine' = machine
    BY <2>2 DEF Adds, Alone, Adding
  <2>4. Half(ptr', n, l, qq, Owed(n)')
    BY <1>1, <2>3, AddsHalf
  <2>5. Half(ptr, n, l, qq, Owed(n))'
    BY <2>3, <2>4 DEF Half
  <2>6. AddCells(n, l)' = AddCells(n, l) /\ AddStores(n, l)' = AddStores(n, l)
    BY <2>3 DEF AddCells, AddStores
  <2>7. Adding(n, l, qq)'
    BY <2>3, <2>5, <2>6 DEF Adding
  <2> QED
    BY <2>1, <2>7
<1>5. Linking(qq)'
  BY <1>4 DEF Linking
<1> QED
  BY <1>1, <1>3, <1>5

(* The unlink goes on at the other end of the list.                        *)
LEMMA AddsReplying ==
  ASSUME NEW q \in Seq(Node), NEW n \in Node, NEW l \in Spots, NEW s, Adds(n, l, q, s)
  PROVE  Replying(Grown(q, n, l, s))'
<1>1. PICK qq : qq = Grown(q, n, l, s)
  OBVIOUS
<1>2. /\ Append(q, n) \in Seq(Node) /\ Len(Append(q, n)) = Len(q) + 1
      /\ Append(q, n) # <<>> /\ Len(q) \in Nat
      /\ \A j \in 1 .. Len(q) : Append(q, n)[j] = q[j]
      /\ Append(q, n)[Len(q) + 1] = n
      /\ q # <<>> <=> Len(q) > 0
      /\ \A j \in 1 .. Len(q) : q[j] \in Node
  BY Longer
<1>3. busy'[RX] = busy[RX] /\ soft' = soft
  BY Kinds DEF Adds, Alone
<1>4. /\ q # <<>> => qq # <<>> /\ qq[1] = q[1]
      /\ Len(q) >= 2 => Len(qq) >= 2 /\ qq[2] = q[2]
      /\ Len(qq) \in Nat
      /\ \A j \in 1 .. Len(qq) : qq[j] = n \/ \E k \in 1 .. Len(q) : qq[j] = q[k]
  <2>1. CASE s = St("next", l, n)
    <3>1. qq = Append(q, n)
      BY <1>1, <2>1 DEF Grown
    <3>2. \A j \in 1 .. Len(qq) : j \in 1 .. Len(q) \/ j = Len(q) + 1
      BY <1>2, <3>1
    <3> QED
      BY <1>2, <3>1, <3>2
  <2>2. CASE s # St("next", l, n)
    BY <1>1, <1>2, <2>2 DEF Grown
  <2> QED
    BY <2>1, <2>2
<1>5. ASSUME ~Idling(RX)
      PROVE  soft.step = "list_del" /\ \E e \in Spots : Deleting(soft.item, e, qq)'
  <2>1. PICK e \in Spots : soft.step = "list_del" /\ Deleting(soft.item, e, q)
    BY <1>5 DEF Adds, Holds, Replying
  <2>2. PICK d : d = soft.item
    OBVIOUS
  <2>3. /\ d \in Node /\ d # e
        /\ busy[RX].cells = {<<"prev", e>>, <<"next", Root>>, <<"next", d>>, <<"prev", d>>}
        /\ Len(busy[RX].todo) \in 1 .. 4
        /\ \A j \in 1 .. Len(busy[RX].todo) :
             busy[RX].todo[j] = DelStores(d, e)[4 - Len(busy[RX].todo) + j]
        /\ Len(busy[RX].todo) >= 3 =>
             q # <<>> /\ q[1] = d /\ e = Second(q)
        /\ Len(busy[RX].todo) <= 2 => e = First(q) /\ \A j \in 1 .. Len(q) : q[j] # d
        /\ Len(busy[RX].todo) <= 3 => prev(e) = Root
        /\ Len(busy[RX].todo) <= 1 => next(d) = Null
    BY <2>1, <2>2 DEF Deleting
  <2>4. \A c \in AddCells(n, l) : c \notin busy[RX].cells
    BY AddsCells
  <2>5. e # Root /\ e # n /\ d # n
    BY <2>3, <2>4 DEF AddCells
  <2>6. ptr'[<<"prev", e>>] = ptr[<<"prev", e>>] /\ ptr'[<<"next", d>>] = ptr[<<"next", d>>]
    BY <2>3, <2>4, AddsCells, Kinds
  <2>7. Len(busy[RX].todo) >= 3 =>
          qq # <<>> /\ qq[1] = d /\ e = Second(qq)
    <3> SUFFICES ASSUME Len(busy[RX].todo) >= 3
                 PROVE  qq # <<>> /\ qq[1] = d /\ e = Second(qq)
      OBVIOUS
    <3>1. q # <<>> /\ q[1] = d /\ e = Second(q)
      BY <2>3
    <3>2. Len(q) >= 2 /\ e = q[2]
      <4>1. Len(q) # 1 /\ e = q[2]
        BY <2>5, <3>1 DEF Second
      <4>2. Len(q) \in Nat /\ Len(q) > 0
        BY <1>2, <3>1
      <4>3. \A k \in Nat : k > 0 /\ k # 1 => k >= 2
        OBVIOUS
      <4> QED
        BY <4>1, <4>2, <4>3
    <3>3. qq # <<>> /\ qq[1] = d /\ qq[2] = e /\ Len(qq) # 1
      BY <1>4, <3>1, <3>2
    <3> QED
      BY <3>3 DEF Second
  <2>8. Len(busy[RX].todo) <= 2 => e = First(qq) /\ \A j \in 1 .. Len(qq) : qq[j] # d
    BY <1>4, <2>3, <2>5 DEF First
  <2>9. Deleting(d, e, qq)'
    BY <1>3, <2>3, <2>6, <2>7, <2>8 DEF Deleting, prev, next, DelStores
  <2> QED
    BY <1>3, <2>1, <2>2, <2>9
<1>6. soft.step \in {"callback", "list_del"} /\ Idling(RX) => qq # <<>> /\ soft.item = qq[1]
  BY <1>4 DEF Adds, Holds, Replying
<1>7. Replying(qq)'
  <2>1. Idling(RX)' <=> Idling(RX)
    BY <1>3 DEF Idling
  <2> QED
    BY <1>3, <1>5, <1>6, <2>1 DEF Replying
<1> QED
  BY <1>1, <1>7

(* An entry whose next pointer is stored into is not awake.                *)
LEMMA AddsOneAtATime ==
  ASSUME NEW q \in Seq(Node), NEW n \in Node, NEW l \in Spots, NEW s, Adds(n, l, q, s)
  PROVE  OneAtATime'
<1> SUFFICES ASSUME machine = "up", list = "send_reply_list" PROVE OneAtATime'
  BY DEF OneAtATime, Adds, Alone
<1>1. /\ soft # Rest => \A m \in Node : Idling(m)
      /\ \A m \in awake : Idling(m) /\ (next(m) = Null \/ (soft.step = "list_del" /\ soft.item = m))
      /\ awake \subseteq Node
  BY DEF Adds, Holds, OneAtATime, Typed
<1>2. soft = Rest /\ ~Idling(n)
  BY <1>1 DEF Adds
<1>3. /\ soft' = soft /\ awake' = awake
      /\ \A u \in Threads \ {n} : busy'[u] = busy[u]
  BY DEF Adds, Alone
<1>4. ASSUME NEW m \in awake PROVE Idling(m)' /\ next(m)' = Null
  <2>1. m # n /\ m \in Node /\ m \in Spots /\ m \in Threads
    BY <1>1, <1>2, Kinds
  <2>2. Idling(m)'
    BY <1>1, <1>3, <2>1 DEF Idling
  <2>3. next(m) = Null
    BY <1>1, <1>2 DEF Rest
  <2>4. s = St("next", l, n) => m # l
    <3>1. s = St("next", l, n) => ptr[<<"next", l>>] = Root
      <4>1. s \in Owed(n) /\ Half(ptr, n, l, q, Owed(n))
        BY AddsHalf DEF Adds
      <4> QED
        BY <4>1 DEF Half
    <3> QED
      BY <2>3, <3>1, Kinds DEF next
  <2>5. ptr'[<<"next", m>>] = ptr[<<"next", m>>]
    BY <2>1, <2>4, AddsWrites, Kinds DEF Differs
  <2> QED
    BY <2>2, <2>3, <2>5 DEF next
<1> QED
  BY <1>2, <1>3, <1>4 DEF OneAtATime

(* What is linked then is filled in: the store that links is the last.     *)
LEMMA AddsFilled ==
  ASSUME NEW q \in Seq(Node), NEW n \in Node, NEW l \in Spots, NEW s, Adds(n, l, q, s)
  PROVE  Filled(Grown(q, n, l, s))'
<1> SUFFICES ASSUME list = "msg_list", machine # "weak"
             PROVE  Filled(Grown(q, n, l, s))'
  BY DEF Filled, Adds, Alone
<1>1. PICK qq : qq = Grown(q, n, l, s)
  OBVIOUS
<1>2. /\ Append(q, n) \in Seq(Node) /\ Len(Append(q, n)) = Len(q) + 1
      /\ Len(q) \in Nat
      /\ \A j \in 1 .. Len(q) : Append(q, n)[j] = q[j] /\ q[j] \in Node
      /\ Append(q, n)[Len(q) + 1] = n
  BY Longer
<1>3. \A m \in Node : ptr[<<"callback", m>>] = Given => ptr'[<<"callback", m>>] = Given
  BY AddsWrites, Kinds DEF Differs
<1>4. \A j \in 1 .. Len(q) : ptr[<<"callback", q[j]>>] = Given
  BY DEF Adds, Holds, Filled
<1>5. CASE s = St("next", l, n)
  <2>1. Owed(n) = {s}
    <3>1. Owed(n) = {s} \/ busy'[n].todo # <<>>
      BY DEF Adds
    <3>2. busy'[n] = Idle
      BY <1>5 DEF Adds
    <3> QED
      BY <3>1, <3>2 DEF Idle
  <2>2. St("callback", n, Given) \notin Owed(n)
    BY <1>5, <2>1, Pairs, Kinds
  <2>3. ptr[<<"callback", n>>] = Given
    BY <2>2, AddsHalf DEF Half
  <2>4. qq = Append(q, n)
    BY <1>1, <1>5 DEF Grown
  <2>5. \A j \in 1 .. Len(qq) : j \in 1 .. Len(q) \/ j = Len(q) + 1
    BY <1>2, <2>4
  <2>6. \A j \in 1 .. Len(qq) : ptr'[<<"callback", qq[j]>>] = Given
    BY <1>2, <1>3, <1>4, <2>3, <2>4, <2>5
  <2> QED
    BY <1>1, <2>6 DEF Filled
<1>6. CASE s # St("next", l, n)
  <2>1. qq = q
    BY <1>1, <1>6 DEF Grown
  <2> QED
    BY <1>1, <1>2, <1>3, <1>4, <2>1 DEF Filled
<1> QED
  BY <1>5, <1>6

(* The walk may see the new entry or not.                                  *)
LEMMA AddsWalking ==
  ASSUME NEW q \in Seq(Node), NEW n \in Node, NEW l \in Spots, NEW s, Adds(n, l, q, s)
  PROVE  Walking(Grown(q, n, l, s))'
<1> SUFFICES ASSUME list = "msg_list", machine # "weak", soft.step = "walk"
             PROVE  Walking(Grown(q, n, l, s))'
  BY DEF Walking, Adds, Alone
<1>1. PICK qq : qq = Grown(q, n, l, s)
  OBVIOUS
<1>2. /\ Len(q) \in Nat /\ Len(qq) \in Nat /\ Len(q) <= Len(qq)
      /\ \A j \in 1 .. Len(q) : qq[j] = q[j]
  <2>1. /\ Len(Append(q, n)) = Len(q) + 1 /\ Len(q) \in Nat
        /\ \A j \in 1 .. Len(q) : Append(q, n)[j] = q[j]
    BY Longer
  <2>2. qq = Append(q, n) \/ qq = q
    BY <1>1 DEF Grown
  <2> QED
    BY <2>1, <2>2
<1>3. PICK i \in 1 .. Len(q) + 1 : Walk(q, i)
  BY DEF Adds, Holds, Walking
<1>4. /\ i \in 1 .. Len(qq) + 1 /\ i \in Nat
      /\ \A j \in 1 .. i - 1 : j \in 1 .. Len(q) /\ qq[j] = q[j]
  BY <1>2
<1>5. \/ soft.item = Root
      \/ /\ i <= Len(qq) /\ soft.item = qq[i]
         /\ soft.nxt = Root \/ (i < Len(qq) /\ soft.nxt = qq[i + 1])
  <2>1. \/ soft.item = Root
        \/ /\ i <= Len(q) /\ soft.item = q[i]
           /\ soft.nxt = Root \/ (i < Len(q) /\ soft.nxt = q[i + 1])
    BY <1>3 DEF Walk
  <2>2. i <= Len(q) => i \in 1 .. Len(q) /\ i <= Len(qq)
    BY <1>2, <1>4
  <2>3. i < Len(q) => i + 1 \in 1 .. Len(q) /\ i < Len(qq)
    BY <1>2, <1>4
  <2> QED
    BY <1>2, <2>1, <2>2, <2>3
<1>6. soft' = soft
  BY DEF Adds, Alone
<1>7. \A w : (\E j \in 1 .. i - 1 : qq[j] = w) <=> (\E j \in 1 .. i - 1 : q[j] = w)
  BY <1>4
<1>8. \A w : (\A j \in 1 .. i - 1 : qq[j] # w) <=> (\A j \in 1 .. i - 1 : q[j] # w)
  BY <1>4
<1>9. \A w : (\E j \in 1 .. Len(q) : q[j] = w) => (\E j \in 1 .. Len(qq) : qq[j] = w)
  BY <1>2
<1>10. Walk(qq, i)
  <2>1. soft.calls = IF \E j \in 1 .. i - 1 : qq[j] = soft.wanted THEN 1 ELSE 0
    BY <1>3, <1>7 DEF Walk
  <2>2. soft.before /\ (\A j \in 1 .. i - 1 : qq[j] # soft.wanted) =>
          /\ \E j \in 1 .. Len(qq) : qq[j] = soft.wanted
          /\ soft.item # Root
          /\ soft.wanted = soft.item \/ soft.nxt # Root
    BY <1>3, <1>8, <1>9 DEF Walk
  <2> QED
    BY <1>4, <1>5, <2>1, <2>2 DEF Walk
<1>11. Walk(qq, i)'
  BY <1>6, <1>10 DEF Walk
<1> QED
  BY <1>1, <1>4, <1>11 DEF Walking

(* Every variable keeps its type.                                          *)
LEMMA AddsTyped ==
  ASSUME NEW q \in Seq(Node), NEW n \in Node, NEW l \in Spots, NEW s, Adds(n, l, q, s)
  PROVE  Typed' /\ Split'
<1>1. /\ UNCHANGED <<list, machine, awake, soft, raced, oops>>
      /\ busy' \in [Threads -> Op] /\ busy'[RX] = busy[RX]
  BY Kinds DEF Adds, Alone
<1>2. /\ ptr \in [Cells -> Values] /\ ptr' = [ptr EXCEPT ![s.cell] = s.value]
      /\ \A m \in Spots : next(m) \in Ends /\ prev(m) \in Ends
  BY DEF Adds, Typed
<1>3. s.value \in Values
  BY AddTyped DEF Adds
<1>4. ptr' \in [Cells -> Values]
  BY <1>2, <1>3
<1>5. ASSUME NEW m \in Spots PROVE next(m)' \in Ends /\ prev(m)' \in Ends
  <2>1. next(m)' \in {next(m), Root, n} /\ prev(m)' \in {prev(m), n, l}
    BY AddsWrites, Kinds DEF Differs, next, prev
  <2> QED
    BY <1>2, <2>1, Kinds
<1>6. Typed'
  <2>1. prev(Root)' \in {prev(Root), n}
    BY AddsWrites, Kinds DEF Differs, prev
  <2>2. prev(Root) \in Spots
    BY DEF Adds, Typed
  <2>3. prev(Root)' \in Spots
    BY <2>1, <2>2, Kinds
  <2> QED
    BY <1>1, <1>4, <1>5, <2>3 DEF Typed, Adds, Op
<1>7. Split'
  BY <1>1 DEF Split, Adds, Idling
<1> QED
  BY <1>6, <1>7

(* A store of an entry that is linked keeps the list or appends the entry. *)
LEMMA AddStep ==
  ASSUME Typed, Split, ~raced, NEW q \in Seq(Node), Holds(q), NEW n \in Node, Store(n)
  PROVE  /\ Typed' /\ Split' /\ ~raced'
         /\ \E qq \in Seq(Node) : /\ Holds(qq)'
                                  /\ \/ qq = q
                                     \/ /\ qq = Append(q, n)
                                        /\ \A j \in 1 .. Len(q) : q[j] # n
<1>1. PICK l \in Spots : \E s : Adds(n, l, q, s)
  BY AddsFacts
<1>2. PICK s : Adds(n, l, q, s)
  BY <1>1
<1>3. PICK qq : qq = Grown(q, n, l, s)
  OBVIOUS
<1>4. qq \in Seq(Node)
  BY <1>3, Longer DEF Grown
<1>5. Links(ptr, qq)'
  <2>1. Links(ptr', qq)
    BY <1>2, <1>3, AddsLinks
  <2> QED
    BY <2>1 DEF Links
<1>6. Disjoint' /\ Linking(qq)' /\ Closed(qq)' /\ Replying(qq)'
  BY <1>2, <1>3, AddsLinking, AddsClosed, AddsReplying
<1>7. OneAtATime' /\ Filled(qq)' /\ Walking(qq)'
  BY <1>2, <1>3, AddsOneAtATime, AddsFilled, AddsWalking
<1>8. Holds(qq)'
  BY <1>5, <1>6, <1>7 DEF Holds
<1>9. qq = q \/ (qq = Append(q, n) /\ \A j \in 1 .. Len(q) : q[j] # n)
  <2>1. CASE s = St("next", l, n)
    <3>1. s \in Owed(n) /\ Half(ptr, n, l, q, Owed(n))
      BY <1>2, AddsHalf DEF Adds
    <3> QED
      BY <1>3, <2>1, <3>1 DEF Half, Grown
  <2>2. CASE s # St("next", l, n)
    BY <1>3, <2>2 DEF Grown
  <2> QED
    BY <2>1, <2>2
<1>10. Typed' /\ Split' /\ ~raced'
  <2>1. raced' = raced
    BY <1>2 DEF Adds, Alone
  <2> QED
    BY <1>2, <2>1, AddsTyped
<1> QED
  BY <1>4, <1>8, <1>9, <1>10

-----------------------------------------------------------------------------
(* A step of the unlink.                                                   *)

(* While the list holds q, d is being unlinked and e follows it; k stores  *)
(* are left, of which the first is made.                                   *)
Deletes(d, e, q, k) ==
  /\ Typed /\ Split /\ ~raced /\ Holds(q) /\ Deleting(d, e, q) /\ d = soft.item
  /\ k = Len(busy[RX].todo) /\ ~Idling(RX)
  /\ soft.step = "list_del" /\ list = "send_reply_list"
  /\ \E s : s = DelStores(d, e)[5 - k] /\ ptr' = [ptr EXCEPT ![s.cell] = s.value]
  /\ busy' \in [Threads -> Op] /\ \A u \in Threads \ {RX} : busy'[u] = busy[u]
  /\ UNCHANGED <<list, machine, awake, raced, oops>>
  /\ \/ k = 1 /\ busy'[RX] = Idle /\ soft' = Rest
     \/ /\ k > 1 /\ soft' = soft
        /\ busy'[RX].cells = busy[RX].cells /\ Len(busy'[RX].todo) = k - 1
        /\ \A j \in 1 .. k - 1 : busy'[RX].todo[j] = DelStores(d, e)[4 - (k - 1) + j]
        /\ busy'[RX] # Idle

(* Every store of the handler is such a store of list_del.                 *)
LEMMA DeletesFacts ==
  ASSUME Typed, Split, ~raced, NEW q \in Seq(Node), Holds(q), Store(RX)
  PROVE  \E d \in Node, e \in Spots, k \in 1 .. 4 : Deletes(d, e, q, k)
<1> DEFINE todo == busy[RX].todo
<1>1. PICK i \in 1 .. Len(todo) :
        /\ i = 1 \/ (machine = "weak" /\ RX # RX)
        /\ ptr' = [ptr EXCEPT ![todo[i].cell] = todo[i].value]
        /\ busy' = [busy EXCEPT ![RX] = IF RemoveAt(todo, i) = <<>> THEN Idle
                                        ELSE [@ EXCEPT !.todo = RemoveAt(todo, i)]]
        /\ soft' = IF RX = RX /\ RemoveAt(todo, i) = <<>> THEN Rest ELSE soft
  BY DEF Store
<1>2. UNCHANGED <<list, machine, awake, raced, oops>>
  BY DEF Store
<1>3. RX \in Threads
  BY Kinds
<1>4. ~Idling(RX)
  <2>1. Len(<<>>) = 0
    OBVIOUS
  <2> QED
    BY <1>1, <2>1 DEF Idling, Idle
<1>5. soft.step = "list_del" /\ list = "send_reply_list"
  BY <1>4 DEF Holds, Replying, Split, Typed
<1>6. PICK e \in Spots : Deleting(soft.item, e, q)
  BY <1>4 DEF Holds, Replying
<1>7. PICK d : d = soft.item
  OBVIOUS
<1>8. PICK k : k = Len(todo)
  OBVIOUS
<1>9. /\ d \in Node /\ k \in 1 .. 4
      /\ \A j \in 1 .. k : todo[j] = DelStores(d, e)[4 - k + j]
  BY <1>6, <1>7, <1>8 DEF Deleting
<1>10. busy[RX] \in Op /\ busy \in [Threads -> Op]
  BY <1>3 DEF Typed, Op
<1>11. todo \in Seq([cell : Cells, value : Values])
  BY <1>10 DEF Op
<1>12. PICK left : left = RemoveAt(todo, i)
  OBVIOUS
<1>13. i = 1
  BY <1>1
<1> HIDE DEF todo
<1>14. /\ left \in Seq([cell : Cells, value : Values]) /\ Len(left) = k - 1
       /\ \A j \in 1 .. k - 1 : left[j] = todo[j + 1]
  <2>1. /\ left \in Seq([cell : Cells, value : Values]) /\ Len(left) = Len(todo) - 1
        /\ \A j \in 1 .. Len(todo) - 1 : left[j] = todo[IF j < i THEN j ELSE j + 1]
    <3>1. PICK S : S = [cell : Cells, value : Values]
      OBVIOUS
    <3>2. todo \in Seq(S)
      BY <1>11, <3>1
    <3>3. /\ left \in Seq(S) /\ Len(left) = Len(todo) - 1
          /\ \A j \in 1 .. Len(todo) - 1 : left[j] = todo[IF j < i THEN j ELSE j + 1]
      BY <1>12, <3>2, Shifted
    <3> QED
      BY <3>1, <3>3
  <2>2. \A j \in 1 .. k - 1 : ~(j < 1)
    BY <1>9
  <2> QED
    BY <1>8, <1>13, <2>1, <2>2
<1>15. ptr' = [ptr EXCEPT ![DelStores(d, e)[5 - k].cell] = DelStores(d, e)[5 - k].value]
  <2>1. todo[1] = DelStores(d, e)[5 - k]
    <3>1. 1 \in 1 .. k /\ 4 - k + 1 = 5 - k
      BY <1>9
    <3> QED
      BY <1>9, <3>1
  <2> QED
    BY <1>1, <1>13, <2>1
<1>16. /\ busy' = [busy EXCEPT ![RX] = IF left = <<>> THEN Idle ELSE [@ EXCEPT !.todo = left]]
       /\ soft' = IF left = <<>> THEN Rest ELSE soft
  BY <1>1, <1>12 DEF todo
<1>17. \A u \in Threads \ {RX} : busy'[u] = busy[u]
  BY <1>10, <1>16
<1>18. left = <<>> <=> k = 1
  BY <1>9, <1>14, EmptySeq
<1>19. CASE k = 1
  <2>1. busy'[RX] = Idle /\ soft' = Rest
    BY <1>3, <1>10, <1>16, <1>18, <1>19
  <2>2. Idle \in Op
    BY DEF Idle, Op
  <2>3. busy' \in [Threads -> Op]
    BY <1>10, <1>16, <1>18, <1>19, <2>2
  <2>4. Deletes(d, e, q, k)
    BY <1>2, <1>4, <1>5, <1>6, <1>7, <1>8, <1>15, <1>17, <1>19, <2>1, <2>3
       DEF Deletes, todo
  <2> QED
    BY <1>9, <2>4
<1>20. CASE k # 1
  <2>1. busy'[RX] = [busy[RX] EXCEPT !.todo = left] /\ soft' = soft
    BY <1>3, <1>10, <1>16, <1>18, <1>20
  <2>2. busy'[RX].cells = busy[RX].cells /\ busy'[RX].todo = left /\ busy'[RX] \in Op
    BY <1>10, <1>14, <2>1 DEF Op
  <2>3. busy' \in [Threads -> Op]
    BY <1>10, <1>16, <1>18, <1>20, <2>1, <2>2
  <2>4. \A j \in 1 .. k - 1 : left[j] = DelStores(d, e)[4 - (k - 1) + j]
    <3> SUFFICES ASSUME NEW j \in 1 .. k - 1
                 PROVE  left[j] = DelStores(d, e)[4 - (k - 1) + j]
      OBVIOUS
    <3>1. j + 1 \in 1 .. k /\ 4 - k + (j + 1) = 4 - (k - 1) + j
      BY <1>9
    <3>2. todo[j + 1] = DelStores(d, e)[4 - k + (j + 1)]
      BY <1>9, <3>1
    <3> QED
      BY <1>14, <3>1, <3>2
  <2>5. busy'[RX] # Idle
    <3>1. Len(busy'[RX].todo) # 0
      BY <1>9, <1>14, <1>20, <2>2
    <3>2. Len(<<>>) = 0
      OBVIOUS
    <3> QED
      BY <3>1, <3>2 DEF Idle
  <2>6. k > 1
    BY <1>9, <1>20
  <2>7. Deletes(d, e, q, k)
    BY <1>2, <1>4, <1>5, <1>6, <1>7, <1>8, <1>14, <1>15, <1>17, <2>1, <2>2, <2>3, <2>4,
       <2>5, <2>6 DEF Deletes, todo
  <2> QED
    BY <1>9, <2>7
<1> QED
  BY <1>19, <1>20

(* The list after that store.                                              *)
Shrunk(q, k) == IF k = 3 THEN Tail(q) ELSE q

(* What is left of a queue behind its first entry.                         *)
LEMMA Shorter ==
  ASSUME NEW q \in Seq(Node), q # <<>>
  PROVE  /\ Tail(q) \in Seq(Node) /\ Len(q) \in Nat \ {0} /\ Len(Tail(q)) = Len(q) - 1
         /\ \A j \in 1 .. Len(q) - 1 : Tail(q)[j] = q[j + 1]
         /\ Tail(q) = <<>> <=> Len(q) = 1
         /\ \A j \in 1 .. Len(q) : q[j] \in Node
<1>1. /\ Tail(q) \in Seq(Node) /\ Len(q) \in Nat \ {0} /\ Len(Tail(q)) = Len(q) - 1
      /\ \A j \in 1 .. Len(q) - 1 : Tail(q)[j] = q[j + 1]
  BY HeadTailProperties, LenProperties, EmptySeq
<1>2. \A j \in 1 .. Len(q) : q[j] \in Node
  BY ElementOfSeq
<1>3. Tail(q) = <<>> <=> Len(q) = 1
  <2>1. Tail(q) = <<>> <=> Len(Tail(q)) = 0
    BY <1>1, EmptySeq
  <2> QED
    BY <1>1, <2>1
<1> QED
  BY <1>1, <1>2, <1>3

(* Which pointer each of the four stores changes.                          *)
LEMMA DeletesWrites ==
  ASSUME NEW q \in Seq(Node), NEW d \in Node, NEW e \in Spots, NEW k \in 1 .. 4,
         Deletes(d, e, q, k)
  PROVE  /\ k = 4 => Differs(ptr, ptr', "prev", e, Root)
         /\ k = 3 => Differs(ptr, ptr', "next", Root, e)
         /\ k = 2 => Differs(ptr, ptr', "next", d, Null)
         /\ k = 1 => Differs(ptr, ptr', "prev", d, Null)
<1>1. PICK s : /\ s = DelStores(d, e)[5 - k]
               /\ ptr' = [ptr EXCEPT ![s.cell] = s.value]
               /\ ptr \in [Cells -> Values]
  BY DEF Deletes, Typed
<1>2. \A f \in Fields, m \in Spots : \A v : s = St(f, m, v) => Differs(ptr, ptr', f, m, v)
  BY <1>1, Written
<1>3. /\ DelStores(d, e)[1] = St("prev", e, Root)
      /\ DelStores(d, e)[2] = St("next", Root, e)
      /\ DelStores(d, e)[3] = St("next", d, Null)
      /\ DelStores(d, e)[4] = St("prev", d, Null)
  BY DEF DelStores
<1>4. CASE k = 4
  <2>1. s = St("prev", e, Root)
    BY <1>1, <1>3, <1>4
  <2> QED
    BY <1>2, <1>4, <2>1, Kinds
<1>5. CASE k = 3
  <2>1. s = St("next", Root, e)
    BY <1>1, <1>3, <1>5
  <2> QED
    BY <1>2, <1>5, <2>1, Kinds
<1>6. CASE k = 2
  <2>1. s = St("next", d, Null)
    BY <1>1, <1>3, <1>6
  <2> QED
    BY <1>2, <1>6, <2>1, Kinds
<1>7. CASE k = 1
  <2>1. s = St("prev", d, Null)
    BY <1>1, <1>3, <1>7
  <2> QED
    BY <1>2, <1>7, <2>1, Kinds
<1> QED
  BY <1>4, <1>5, <1>6, <1>7

(* The four pointers it uses, and where d and e are.                       *)
Unlinks(d, e, q, k) ==
  /\ d # e /\ d # Root
  /\ busy[RX].cells = {<<"prev", e>>, <<"next", Root>>, <<"next", d>>, <<"prev", d>>}
  /\ \A c \in Cells : c \notin busy[RX].cells => ptr'[c] = ptr[c]
  /\ \A t \in Threads \ {RX} : \A c \in busy[RX].cells : c \notin busy[t].cells
  /\ k >= 3 => q # <<>> /\ q[1] = d /\ e = Second(q)
  /\ k <= 2 => e = First(q) /\ \A j \in 1 .. Len(q) : q[j] # d
  /\ k <= 3 => ptr[<<"prev", e>>] = Root
  /\ k <= 1 => ptr[<<"next", d>>] = Null

(* It changes no pointer that another context uses.                        *)
LEMMA DeletesCells ==
  ASSUME NEW q \in Seq(Node), NEW d \in Node, NEW e \in Spots, NEW k \in 1 .. 4,
         Deletes(d, e, q, k)
  PROVE  Unlinks(d, e, q, k)
<1>1. /\ d # e /\ d # Root /\ k = Len(busy[RX].todo)
      /\ busy[RX].cells = {<<"prev", e>>, <<"next", Root>>, <<"next", d>>, <<"prev", d>>}
      /\ k >= 3 => q # <<>> /\ q[1] = d /\ e = Second(q)
      /\ k <= 2 => e = First(q) /\ \A j \in 1 .. Len(q) : q[j] # d
      /\ k <= 3 => ptr[<<"prev", e>>] = Root
      /\ k <= 1 => ptr[<<"next", d>>] = Null
  BY Kinds DEF Deletes, Deleting, prev, next
<1>2. \A t \in Threads \ {RX} : \A c \in busy[RX].cells : c \notin busy[t].cells
  BY Kinds DEF Deletes, Holds, Disjoint
<1>3. ASSUME NEW c \in Cells, c \notin busy[RX].cells PROVE ptr'[c] = ptr[c]
  <2>1. PICK f \in Fields, m \in Spots : c = <<f, m>>
    BY DEF Cells
  <2>2. /\ ~(f = "prev" /\ m = e) /\ ~(f = "next" /\ m = Root)
        /\ ~(f = "next" /\ m = d) /\ ~(f = "prev" /\ m = d)
    BY <1>1, <1>3, <2>1
  <2>3. k \in {1, 2, 3, 4}
    OBVIOUS
  <2> QED
    BY <2>1, <2>2, <2>3, DeletesWrites DEF Differs
<1> QED
  BY <1>1, <1>2, <1>3 DEF Unlinks

(* The pointers link the list, or what is left behind its first entry.     *)
LEMMA DeletesLinks ==
  ASSUME NEW q \in Seq(Node), NEW d \in Node, NEW e \in Spots, NEW k \in 1 .. 4,
         Deletes(d, e, q, k)
  PROVE  Shrunk(q, k) \in Seq(Node) /\ Links(ptr', Shrunk(q, k))
<1>1. /\ IsInjective(q) /\ \A i, j \in 1 .. Len(q) : q[i] = q[j] => i = j
      /\ ptr[<<"next", Root>>] = IF q = <<>> THEN Root ELSE q[1]
      /\ \A i \in 1 .. Len(q) - 1 : ptr[<<"next", q[i]>>] = q[i + 1]
      /\ q # <<>> => ptr[<<"next", q[Len(q)]>>] \in {Root, Null}
  BY Distinct DEF Deletes, Holds, Links
<1>2. /\ Len(q) \in Nat /\ (q = <<>> <=> Len(q) = 0)
      /\ \A j \in 1 .. Len(q) : q[j] \in Node /\ q[j] \in Spots /\ q[j] # Root
  BY LenProperties, EmptySeq, ElementOfSeq, Kinds
<1>3. k >= 3 => q # <<>> /\ q[1] = d /\ e = Second(q)
  BY DeletesCells DEF Unlinks
<1>4. CASE k = 3
  <2>1. q # <<>> /\ q[1] = d /\ e = Second(q)
    BY <1>3, <1>4
  <2>2. \A m \in Spots : ptr'[<<"next", m>>] = IF m = Root THEN e ELSE ptr[<<"next", m>>]
    <3>1. Differs(ptr, ptr', "next", Root, e)
      BY <1>4, DeletesWrites
    <3> QED
      BY <3>1, Kinds DEF Differs
  <2>3. PICK qq : qq = Tail(q)
    OBVIOUS
  <2>4. /\ qq \in Seq(Node) /\ Len(qq) = Len(q) - 1 /\ (qq = <<>> <=> Len(q) = 1)
        /\ \A j \in 1 .. Len(q) - 1 : qq[j] = q[j + 1]
    BY <2>1, <2>3, Shorter
  <2>5. IsInjective(qq)
    <3>1. DOMAIN qq = 1 .. Len(q) - 1
      BY <2>4, LenProperties
    <3> SUFFICES ASSUME NEW i \in 1 .. Len(q) - 1, NEW j \in 1 .. Len(q) - 1, qq[i] = qq[j]
                 PROVE  i = j
      BY <3>1 DEF IsInjective
    <3>2. i + 1 \in 1 .. Len(q) /\ j + 1 \in 1 .. Len(q) /\ (i + 1 = j + 1 => i = j)
      BY <1>2
    <3> QED
      BY <1>1, <2>4, <3>2
  <2>6. ptr'[<<"next", Root>>] = IF qq = <<>> THEN Root ELSE qq[1]
    <3>1. CASE Len(q) = 1
      BY <2>1, <2>2, <2>4, <3>1, Kinds DEF Second
    <3>2. CASE Len(q) # 1
      <4>1. Len(q) # 0
        BY <1>2, <2>1
      <4>2. 1 \in 1 .. Len(q) - 1 /\ 1 + 1 = 2
        <5>1. \A x \in Nat : x # 0 /\ x # 1 => 1 \in 1 .. x - 1
          OBVIOUS
        <5>2. 1 + 1 = 2
          OBVIOUS
        <5> QED
          BY <1>2, <3>2, <4>1, <5>1, <5>2
      <4> QED
        BY <2>1, <2>2, <2>4, <3>2, <4>2, Kinds DEF Second
    <3> QED
      BY <3>1, <3>2
  <2>7. ASSUME NEW i \in 1 .. Len(qq) - 1 PROVE ptr'[<<"next", qq[i]>>] = qq[i + 1]
    <3>1. /\ i \in 1 .. Len(q) - 1 /\ i + 1 \in 1 .. Len(q) - 1 /\ i + 1 \in 1 .. Len(q)
      BY <1>2, <2>1, <2>4
    <3>2. qq[i] = q[i + 1] /\ qq[i + 1] = q[(i + 1) + 1] /\ qq[i] # Root /\ qq[i] \in Spots
      BY <1>2, <2>4, <3>1
    <3> QED
      BY <1>1, <2>2, <3>1, <3>2
  <2>8. ASSUME qq # <<>> PROVE ptr'[<<"next", qq[Len(qq)]>>] \in {Root, Null}
    <3>1. Len(q) - 1 \in 1 .. Len(q) - 1 /\ Len(q) - 1 + 1 = Len(q) /\ Len(q) \in 1 .. Len(q)
      BY <1>2, <2>1, <2>4, <2>8
    <3>2. qq[Len(qq)] = q[Len(q)]
      BY <2>4, <3>1
    <3> QED
      BY <1>1, <1>2, <2>1, <2>2, <3>1, <3>2
  <2> QED
    BY <1>4, <2>3, <2>4, <2>5, <2>6, <2>7, <2>8 DEF Links, Shrunk
<1>5. CASE k # 3
  <2>1. \A m \in Spots : m # d => ptr'[<<"next", m>>] = ptr[<<"next", m>>]
    <3>1. k \in {1, 2, 4}
      BY <1>5
    <3> QED
      BY <3>1, DeletesWrites, Kinds DEF Differs
  <2>2. ptr'[<<"next", d>>] = ptr[<<"next", d>>] \/ \A j \in 1 .. Len(q) : q[j] # d
    <3>1. k \in {1, 4} \/ k <= 2
      BY <1>5
    <3>2. k \in {1, 4} => ptr'[<<"next", d>>] = ptr[<<"next", d>>]
      BY DeletesWrites, Kinds DEF Differs
    <3>3. k <= 2 => \A j \in 1 .. Len(q) : q[j] # d
      BY DeletesCells DEF Unlinks
    <3> QED
      BY <3>1, <3>2, <3>3
  <2>3. \A j \in 1 .. Len(q) : ptr'[<<"next", q[j]>>] = ptr[<<"next", q[j]>>]
    BY <1>2, <2>1, <2>2
  <2>4. ptr'[<<"next", Root>>] = ptr[<<"next", Root>>]
    BY <2>1, Kinds
  <2>5. /\ \A i \in 1 .. Len(q) - 1 : i \in 1 .. Len(q)
        /\ q # <<>> => Len(q) \in 1 .. Len(q)
    BY <1>2
  <2> QED
    BY <1>1, <1>5, <2>3, <2>4, <2>5 DEF Links, Shrunk
<1> QED
  BY <1>4, <1>5

(* The ends of the list that nobody uses stay closed.                      *)
LEMMA DeletesClosed ==
  ASSUME NEW q \in Seq(Node), NEW d \in Node, NEW e \in Spots, NEW k \in 1 .. 4,
         Deletes(d, e, q, k)
  PROVE  Closed(Shrunk(q, k))'
<1>1. k \in {1, 2, 3, 4}
  OBVIOUS
<1>2. /\ d # e /\ d # Root
      /\ busy[RX].cells = {<<"prev", e>>, <<"next", Root>>, <<"next", d>>, <<"prev", d>>}
      /\ \A c \in Cells : c \notin busy[RX].cells => ptr'[c] = ptr[c]
      /\ k >= 3 => q # <<>> /\ q[1] = d /\ e = Second(q)
      /\ k <= 2 => e = First(q) /\ \A j \in 1 .. Len(q) : q[j] # d
      /\ k <= 3 => ptr[<<"prev", e>>] = Root
  <2>1. Unlinks(d, e, q, k)
    BY DeletesCells
  <2> QED
    BY <2>1 DEF Unlinks
<1>3. /\ Len(q) \in Nat /\ (q = <<>> <=> Len(q) = 0)
      /\ \A j \in 1 .. Len(q) : q[j] \in Node /\ q[j] \in Spots /\ q[j] # Root
  BY LenProperties, EmptySeq, ElementOfSeq, Kinds
<1>4. /\ Closed(q) /\ RX \in Threads
      /\ \A u \in Threads \ {RX} : busy'[u] = busy[u]
  BY Kinds DEF Deletes, Holds
<1>5. q # <<>> => 1 \in 1 .. Len(q) /\ Len(q) \in 1 .. Len(q) /\ First(q) = q[1] /\ Final(q) = q[Len(q)]
  BY <1>3 DEF First, Final
<1>6. ASSUME k # 1
      PROVE  /\ \A c \in busy[RX].cells : Owned(c)'
             /\ \A c \in Cells : ~Owned(c)' => ~Owned(c) /\ ptr'[c] = ptr[c]
  <2>1. busy'[RX].cells = busy[RX].cells
    BY <1>6 DEF Deletes
  <2> QED
    BY <1>2, <1>4, <2>1 DEF Owned
<1>7. CASE k = 4 \/ k = 2
  <2>1. \A c \in Cells : ~Owned(c)' => ~Owned(c) /\ ptr'[c] = ptr[c]
    BY <1>6, <1>7
  <2>2. Shrunk(q, k) = q
    BY <1>7 DEF Shrunk
  <2>3. <<"prev", Root>> \in Cells
    BY Kinds
  <2>4. q # <<>> => <<"prev", First(q)>> \in Cells /\ <<"next", Final(q)>> \in Cells
    BY <1>3, <1>5, Kinds
  <2>5. Closed(q)'
    BY <1>4, <2>1, <2>3, <2>4 DEF Closed, prev, next
  <2> QED
    BY <2>2, <2>5
<1>8. CASE k = 3
  <2>1. \A c \in Cells : ~Owned(c)' => ~Owned(c) /\ ptr'[c] = ptr[c]
    BY <1>6, <1>8
  <2>2. q # <<>> /\ q[1] = d /\ e = Second(q)
    BY <1>2, <1>8
  <2>3. Owned(<<"prev", e>>)'
    BY <1>2, <1>6, <1>8
  <2>4. PICK qq : qq = Tail(q)
    OBVIOUS
  <2>5. /\ Len(qq) = Len(q) - 1 /\ (qq = <<>> <=> Len(q) = 1)
        /\ \A j \in 1 .. Len(q) - 1 : qq[j] = q[j + 1]
    BY <2>2, <2>4, Shorter
  <2>6. e = First(qq)
    <3>1. CASE Len(q) = 1
      BY <2>2, <2>5, <3>1 DEF First, Second
    <3>2. CASE Len(q) # 1
      <4>1. \A x \in Nat : x # 0 /\ x # 1 => 1 \in 1 .. x - 1 /\ 1 + 1 = 2
        OBVIOUS
      <4>2. qq[1] = q[2]
        BY <1>3, <2>2, <2>5, <3>2, <4>1
      <4> QED
        BY <2>2, <2>5, <3>2, <4>2 DEF First, Second
    <3> QED
      BY <3>1, <3>2
  <2>7. ASSUME qq # <<>> PROVE Final(qq) = Final(q)
    <3>1. \A x \in Nat : x # 0 /\ x # 1 => x - 1 \in 1 .. x - 1 /\ x - 1 + 1 = x
      OBVIOUS
    <3>2. qq[Len(q) - 1] = q[Len(q)]
      BY <1>3, <2>2, <2>5, <2>7, <3>1
    <3> QED
      BY <1>5, <2>2, <2>5, <2>7, <3>2 DEF Final
  <2>8. ASSUME ~Owned(<<"prev", Root>>)' PROVE prev(Root)' = Final(qq)
    <3>1. e # Root
      BY <2>3, <2>8
    <3>2. qq # <<>>
      BY <2>6, <3>1 DEF First
    <3>3. ~Owned(<<"prev", Root>>) /\ ptr'[<<"prev", Root>>] = ptr[<<"prev", Root>>]
      BY <2>1, <2>8, Kinds
    <3> QED
      BY <1>4, <2>7, <3>2, <3>3 DEF Closed, prev
  <2>9. ASSUME qq # <<>>, ~Owned(<<"next", Final(qq)>>)' PROVE next(Final(qq))' = Root
    <3>1. Final(qq) = Final(q) /\ Final(q) \in Spots
      BY <1>3, <1>5, <2>2, <2>7, <2>9
    <3>2. <<"next", Final(q)>> \in Cells
      BY <3>1, Kinds
    <3>3. ~Owned(<<"next", Final(q)>>) /\ ptr'[<<"next", Final(q)>>] = ptr[<<"next", Final(q)>>]
      BY <2>1, <2>9, <3>1, <3>2
    <3> QED
      BY <1>4, <2>2, <3>1, <3>3 DEF Closed, next
  <2>10. Closed(qq)'
    BY <2>3, <2>6, <2>8, <2>9 DEF Closed
  <2> QED
    BY <1>8, <2>4, <2>10 DEF Shrunk
<1>9. CASE k = 1
  <2>1. /\ e = First(q) /\ \A j \in 1 .. Len(q) : q[j] # d
        /\ ptr[<<"prev", e>>] = Root
    BY <1>2, <1>9
  <2>2. busy'[RX].cells = {}
    BY <1>9 DEF Deletes, Idle
  <2>3. \A c \in Cells : ~Owned(c)' => ~Owned(c) \/ c \in busy[RX].cells
    BY <1>4, <2>2 DEF Owned
  <2>4. \A f \in Fields, m \in Spots :
          ~(f = "prev" /\ m = d) => ptr'[<<f, m>>] = ptr[<<f, m>>]
    BY <1>9, DeletesWrites DEF Differs
  <2>5. ASSUME ~Owned(<<"prev", Root>>)' PROVE prev(Root)' = Final(q)
    <3>1. ptr'[<<"prev", Root>>] = ptr[<<"prev", Root>>]
      BY <1>2, <2>4, Kinds
    <3>2. CASE e = Root
      <4>1. q = <<>>
        BY <1>3, <1>5, <2>1, <3>2
      <4> QED
        BY <2>1, <3>1, <3>2, <4>1 DEF Final, prev
    <3>3. CASE e # Root
      <4>1. <<"prev", Root>> \notin busy[RX].cells
        BY <1>2, <3>3, Pairs
      <4>2. ~Owned(<<"prev", Root>>)
        BY <2>3, <2>5, <4>1, Kinds
      <4> QED
        BY <1>4, <3>1, <4>2 DEF Closed, prev
    <3> QED
      BY <3>2, <3>3
  <2>6. ASSUME q # <<>> PROVE prev(First(q))' = Root
    BY <1>2, <2>1, <2>4, Kinds DEF prev
  <2>7. ASSUME q # <<>>, ~Owned(<<"next", Final(q)>>)' PROVE next(Final(q))' = Root
    <3>1. Final(q) \in Spots /\ Final(q) # d /\ Final(q) # Root
      BY <1>3, <1>5, <2>1, <2>7
    <3>2. <<"next", Final(q)>> \notin busy[RX].cells
      BY <1>2, <3>1, Pairs
    <3>3. ~Owned(<<"next", Final(q)>>)
      BY <2>3, <2>7, <3>1, <3>2, Kinds
    <3>4. ptr'[<<"next", Final(q)>>] = ptr[<<"next", Final(q)>>]
      BY <2>4, <3>1, Kinds
    <3> QED
      BY <1>4, <2>7, <3>3, <3>4 DEF Closed, next
  <2>8. Closed(q)'
    BY <2>5, <2>6, <2>7 DEF Closed
  <2> QED
    BY <1>9, <2>8 DEF Shrunk
<1> QED
  BY <1>1, <1>7, <1>8, <1>9

(* Who links an entry meanwhile does so behind another one.                *)
LEMMA DeletesLinking ==
  ASSUME NEW q \in Seq(Node), NEW d \in Node, NEW e \in Spots, NEW k \in 1 .. 4,
         Deletes(d, e, q, k)
  PROVE  Disjoint' /\ Linking(Shrunk(q, k))'
<1>1. Unlinks(d, e, q, k)
  BY DeletesCells
<1>2. /\ d # e /\ d # Root
      /\ busy[RX].cells = {<<"prev", e>>, <<"next", Root>>, <<"next", d>>, <<"prev", d>>}
      /\ \A c \in Cells : c \notin busy[RX].cells => ptr'[c] = ptr[c]
      /\ \A t \in Threads \ {RX} : \A c \in busy[RX].cells : c \notin busy[t].cells
      /\ k >= 3 => q # <<>> /\ q[1] = d /\ e = Second(q)
  BY <1>1 DEF Unlinks
<1>3. /\ \A u \in Threads \ {RX} : busy'[u] = busy[u]
      /\ list' = list /\ machine' = machine /\ list = "send_reply_list"
      /\ Disjoint /\ RX \in Threads
  BY Kinds DEF Deletes, Holds
<1>4. busy'[RX].cells = busy[RX].cells \/ busy'[RX].cells = {}
  <2>1. busy'[RX].cells = busy[RX].cells \/ busy'[RX] = Idle
    BY DEF Deletes
  <2> QED
    BY <2>1 DEF Idle
<1>5. Disjoint'
  BY <1>3, <1>4 DEF Disjoint
<1>6. PICK qq : qq = Shrunk(q, k)
  OBVIOUS
<1>7. /\ Len(q) \in Nat /\ (q = <<>> <=> Len(q) = 0)
  BY LenProperties, EmptySeq
<1>8. ASSUME NEW n \in Node, NEW l \in Spots, Adding(n, l, q)
      PROVE  Half(ptr, n, l, qq, Owed(n))
  <2>1. /\ busy[n].cells = AddCells(n, l) /\ Half(ptr, n, l, q, Owed(n))
    BY <1>8 DEF Adding
  <2>2. l # Root /\ l # d
    <3>1. <<"next", l>> \in busy[n].cells /\ n \in Threads \ {RX}
      BY <2>1, Kinds DEF AddCells
    <3>2. <<"next", l>> \notin busy[RX].cells
      BY <1>2, <3>1
    <3> QED
      BY <1>2, <3>2
  <2>3. CASE k # 3
    BY <1>6, <2>1, <2>3 DEF Shrunk
  <2>4. CASE k = 3
    <3>1. q # <<>> /\ q[1] = d
      BY <1>2, <2>4
    <3>2. /\ qq = Tail(q) /\ Len(qq) = Len(q) - 1 /\ (qq = <<>> <=> Len(q) = 1)
          /\ \A j \in 1 .. Len(q) - 1 : qq[j] = q[j + 1]
      BY <1>6, <2>4, <3>1, Shorter DEF Shrunk
    <3>3. ASSUME St("next", l, n) \in Owed(n)
          PROVE  l = Final(qq) /\ \A j \in 1 .. Len(qq) : qq[j] # n
      <4>1. l = Final(q) /\ \A j \in 1 .. Len(q) : q[j] # n
        BY <2>1, <3>3 DEF Half
      <4>2. l = q[Len(q)] /\ Len(q) # 0
        BY <1>7, <3>1, <4>1 DEF Final
      <4>3. Len(q) # 1
        BY <2>2, <3>1, <4>2
      <4>4. \A x \in Nat : x # 0 /\ x # 1 => x - 1 \in 1 .. x - 1 /\ x - 1 + 1 = x
        OBVIOUS
      <4>5. qq[Len(q) - 1] = q[Len(q)]
        BY <1>7, <3>2, <4>2, <4>3, <4>4
      <4>6. l = Final(qq)
        BY <3>2, <4>2, <4>3, <4>5 DEF Final
      <4>7. ASSUME NEW j \in 1 .. Len(qq) PROVE qq[j] # n
        <5>1. j \in 1 .. Len(q) - 1 /\ j + 1 \in 1 .. Len(q)
          BY <1>7, <3>2
        <5> QED
          BY <3>2, <4>1, <5>1
      <4> QED
        BY <4>6, <4>7
    <3>4. ASSUME St("next", l, n) \notin Owed(n)
          PROVE  /\ Len(qq) > 0 /\ qq[Len(qq)] = n
                 /\ l = IF Len(qq) = 1 THEN Root ELSE qq[Len(qq) - 1]
      <4>1. Len(q) > 0 /\ q[Len(q)] = n /\ l = IF Len(q) = 1 THEN Root ELSE q[Len(q) - 1]
        BY <2>1, <3>4 DEF Half
      <4>2. Len(q) # 1 /\ l = q[Len(q) - 1]
        BY <2>2, <4>1
      <4>3. Len(q) - 1 # 1
        BY <2>2, <3>1, <4>2
      <4>4. Len(q) # 2
        <5>1. 2 - 1 = 1
          OBVIOUS
        <5> QED
          BY <4>3, <5>1
      <4>5. \A x \in Nat : x > 0 /\ x # 1 /\ x # 2 =>
              /\ x - 1 \in 1 .. x - 1 /\ x - 1 + 1 = x
              /\ x - 2 \in 1 .. x - 1 /\ x - 2 + 1 = x - 1
              /\ x - 1 > 0 /\ x - 1 # 1 /\ x - 1 - 1 = x - 2
        OBVIOUS
      <4>6. /\ Len(q) - 1 \in 1 .. Len(q) - 1 /\ Len(q) - 1 + 1 = Len(q)
            /\ Len(q) - 2 \in 1 .. Len(q) - 1 /\ Len(q) - 2 + 1 = Len(q) - 1
            /\ Len(q) - 1 > 0 /\ Len(q) - 1 # 1 /\ Len(q) - 1 - 1 = Len(q) - 2
        BY <1>7, <4>1, <4>2, <4>4, <4>5
      <4>7. qq[Len(q) - 1] = q[Len(q)] /\ qq[Len(q) - 2] = q[Len(q) - 1]
        BY <3>2, <4>6
      <4> QED
        BY <3>2, <4>1, <4>2, <4>6, <4>7
    <3> QED
      BY <2>1, <3>3, <3>4 DEF Half
  <2> QED
    BY <2>3, <2>4
<1>9. ASSUME NEW n \in Node, NEW l \in Spots, Adding(n, l, q)
      PROVE  Adding(n, l, qq)'
  <2>1. Half(ptr, n, l, qq, Owed(n)) /\ busy[n].cells = AddCells(n, l)
    BY <1>8, <1>9 DEF Adding
  <2>2. \A c \in AddCells(n, l) : c \in Cells => ptr'[c] = ptr[c]
    <3>1. n \in Threads \ {RX}
      BY Kinds
    <3> QED
      BY <1>2, <2>1, <3>1
  <2>3. /\ ptr'[<<"next", l>>] = ptr[<<"next", l>>]
        /\ ptr'[<<"prev", Root>>] = ptr[<<"prev", Root>>]
        /\ ptr'[<<"next", n>>] = ptr[<<"next", n>>]
        /\ ptr'[<<"prev", n>>] = ptr[<<"prev", n>>]
    BY <2>2, Kinds DEF AddCells
  <2>4. list # "msg_list"
    BY <1>3
  <2>5. Half(ptr', n, l, qq, Owed(n))
    BY <2>1, <2>3, <2>4 DEF Half
  <2>6. busy'[n] = busy[n]
    BY <1>3, Kinds
  <2>7. Owed(n)' = Owed(n)
    BY <2>6 DEF Owed
  <2>8. Half(ptr, n, l, qq, Owed(n))'
    BY <1>3, <2>5, <2>7 DEF Half
  <2>9. AddCells(n, l)' = AddCells(n, l) /\ AddStores(n, l)' = AddStores(n, l)
    BY <1>3 DEF AddCells, AddStores
  <2> QED
    BY <1>3, <1>9, <2>6, <2>8, <2>9 DEF Adding
<1>10. Linking(qq)'
  <2> SUFFICES ASSUME NEW n \in Node, ~Idling(n)' PROVE \E l \in Spots : Adding(n, l, qq)'
    BY DEF Linking
  <2>1. ~Idling(n)
    <3>1. busy'[n] = busy[n]
      BY <1>3, Kinds
    <3> QED
      BY <3>1 DEF Idling
  <2>2. PICK l \in Spots : Adding(n, l, q)
    BY <2>1 DEF Deletes, Holds, Linking
  <2> QED
    BY <1>9, <2>2
<1> QED
  BY <1>5, <1>6, <1>10

(* The unlink goes on to its next store, or is done.                       *)
LEMMA DeletesReplying ==
  ASSUME NEW q \in Seq(Node), NEW d \in Node, NEW e \in Spots, NEW k \in 1 .. 4,
         Deletes(d, e, q, k)
  PROVE  Replying(Shrunk(q, k))'
<1>1. Unlinks(d, e, q, k)
  BY DeletesCells
<1>2. /\ d # e /\ d # Root
      /\ busy[RX].cells = {<<"prev", e>>, <<"next", Root>>, <<"next", d>>, <<"prev", d>>}
      /\ k >= 3 => q # <<>> /\ q[1] = d /\ e = Second(q)
      /\ k <= 2 => e = First(q) /\ \A j \in 1 .. Len(q) : q[j] # d
      /\ k <= 3 => ptr[<<"prev", e>>] = Root
  BY <1>1 DEF Unlinks
<1>3. PICK qq : qq = Shrunk(q, k)
  OBVIOUS
<1>4. CASE k = 1
  <2>1. busy'[RX] = Idle /\ soft' = Rest
    BY <1>4 DEF Deletes
  <2>2. Idling(RX)' /\ soft'.step = "idle"
    BY <2>1 DEF Idling, Rest
  <2> QED
    BY <2>2 DEF Replying
<1>5. CASE k # 1
  <2>1. /\ soft' = soft /\ busy'[RX].cells = busy[RX].cells /\ Len(busy'[RX].todo) = k - 1
        /\ \A j \in 1 .. k - 1 : busy'[RX].todo[j] = DelStores(d, e)[4 - (k - 1) + j]
        /\ busy'[RX] # Idle
        /\ soft.step = "list_del" /\ d = soft.item
    BY <1>5 DEF Deletes
  <2>2. k \in {2, 3, 4} /\ k - 1 \in 1 .. 4
    BY <1>5
  <2>3. ASSUME k = 4 PROVE Shrunk(q, k) = q /\ ptr'[<<"prev", e>>] = Root
    <3>1. Differs(ptr, ptr', "prev", e, Root)
      BY <2>3, DeletesWrites
    <3> QED
      BY <2>3, <3>1, Kinds DEF Differs, Shrunk
  <2>4. ASSUME k = 3
        PROVE  /\ ptr'[<<"prev", e>>] = Root
               /\ e = First(qq) /\ \A j \in 1 .. Len(qq) : qq[j] # d
    <3>1. q # <<>> /\ q[1] = d /\ e = Second(q) /\ ptr[<<"prev", e>>] = Root
      BY <1>2, <2>4
    <3>2. ptr'[<<"prev", e>>] = Root
      <4>1. Differs(ptr, ptr', "next", Root, e)
        BY <2>4, DeletesWrites
      <4> QED
        BY <3>1, <4>1, Kinds DEF Differs
    <3>3. /\ Len(q) \in Nat \ {0} /\ Len(qq) = Len(q) - 1 /\ (qq = <<>> <=> Len(q) = 1)
          /\ \A j \in 1 .. Len(q) - 1 : qq[j] = q[j + 1]
      BY <1>3, <2>4, <3>1, Shorter DEF Shrunk
    <3>4. \A i, j \in 1 .. Len(q) : q[i] = q[j] => i = j
      BY Distinct DEF Deletes, Holds, Links
    <3>5. e = First(qq)
      <4>1. CASE Len(q) = 1
        BY <3>1, <3>3, <4>1 DEF First, Second
      <4>2. CASE Len(q) # 1
        <5>1. \A x \in Nat \ {0} : x # 1 => 1 \in 1 .. x - 1 /\ 1 + 1 = 2
          OBVIOUS
        <5>2. qq[1] = q[2]
          BY <3>3, <4>2, <5>1
        <5> QED
          BY <3>1, <3>3, <4>2, <5>2 DEF First, Second
      <4> QED
        BY <4>1, <4>2
    <3>6. ASSUME NEW j \in 1 .. Len(qq) PROVE qq[j] # d
      <4>1. /\ j \in 1 .. Len(q) - 1 /\ j + 1 \in 1 .. Len(q) /\ 1 \in 1 .. Len(q)
            /\ j + 1 # 1
        BY <3>3
      <4> QED
        BY <3>1, <3>3, <3>4, <4>1
    <3> QED
      BY <3>2, <3>5, <3>6
  <2>5. ASSUME k = 2
        PROVE  /\ Shrunk(q, k) = q
               /\ ptr'[<<"prev", e>>] = Root /\ ptr'[<<"next", d>>] = Null
               /\ e = First(q) /\ \A j \in 1 .. Len(q) : q[j] # d
    <3>1. Differs(ptr, ptr', "next", d, Null)
      BY <2>5, DeletesWrites
    <3>2. e = First(q) /\ (\A j \in 1 .. Len(q) : q[j] # d) /\ ptr[<<"prev", e>>] = Root
      BY <1>2, <2>5
    <3> QED
      BY <2>5, <3>1, <3>2, Kinds DEF Differs, Shrunk
  <2>6. /\ k - 1 >= 3 => qq # <<>> /\ qq[1] = d /\ e = Second(qq)
        /\ k - 1 <= 2 => e = First(qq) /\ \A j \in 1 .. Len(qq) : qq[j] # d
        /\ k - 1 <= 3 => ptr'[<<"prev", e>>] = Root
        /\ k - 1 <= 1 => ptr'[<<"next", d>>] = Null
    <3>1. CASE k = 4
      <4>1. qq = q /\ q # <<>> /\ q[1] = d /\ e = Second(q) /\ ptr'[<<"prev", e>>] = Root
        BY <1>2, <1>3, <2>3, <3>1
      <4>2. ~(k - 1 <= 2) /\ ~(k - 1 <= 1)
        BY <3>1
      <4> QED
        BY <4>1, <4>2
    <3>2. CASE k = 3
      <4>1. ~(k - 1 >= 3) /\ ~(k - 1 <= 1)
        BY <3>2
      <4> QED
        BY <2>4, <3>2, <4>1
    <3>3. CASE k = 2
      <4>1. ~(k - 1 >= 3)
        BY <3>3
      <4>2. qq = q
        BY <1>3, <2>5, <3>3
      <4> QED
        BY <2>5, <3>3, <4>1, <4>2
    <3> QED
      BY <2>2, <3>1, <3>2, <3>3
  <2>7. Deleting(d, e, qq)'
    BY <1>2, <2>1, <2>2, <2>6 DEF Deleting, prev, next, DelStores
  <2> QED
    BY <1>3, <2>1, <2>7 DEF Replying, Idling
<1> QED
  BY <1>4, <1>5

(* On one processor a stopped queue still keeps its entry to itself.       *)
LEMMA DeletesOneAtATime ==
  ASSUME NEW q \in Seq(Node), NEW d \in Node, NEW e \in Spots, NEW k \in 1 .. 4,
         Deletes(d, e, q, k)
  PROVE  OneAtATime'
<1> SUFFICES ASSUME machine = "up" PROVE OneAtATime'
  BY DEF OneAtATime, Deletes
<1>1. /\ soft # Rest => \A m \in Node : Idling(m)
      /\ \A m \in awake : Idling(m) /\ (next(m) = Null \/ (soft.step = "list_del" /\ soft.item = m))
      /\ awake \subseteq Node /\ awake' = awake
      /\ soft.step = "list_del" /\ d = soft.item
      /\ \A u \in Threads \ {RX} : busy'[u] = busy[u]
  BY DEF Deletes, Holds, OneAtATime, Typed
<1>2. soft # Rest
  BY <1>1 DEF Rest
<1>3. \A n \in Node : Idling(n)'
  BY <1>1, <1>2, Kinds DEF Idling
<1>4. k \in {1, 2, 3, 4}
  OBVIOUS
<1>5. \A m \in Node : next(m)' \in {next(m), Null}
  <2>1. \A m \in Node : m \in Spots /\ m # Root
    BY Kinds
  <2>2. \A m \in Node : ptr'[<<"next", m>>] \in {ptr[<<"next", m>>], Null}
    <3>1. CASE k = 4
      BY <2>1, <3>1, DeletesWrites, Kinds DEF Differs
    <3>2. CASE k = 3
      BY <2>1, <3>2, DeletesWrites, Kinds DEF Differs
    <3>3. CASE k = 2
      BY <2>1, <3>3, DeletesWrites, Kinds DEF Differs
    <3>4. CASE k = 1
      BY <2>1, <3>4, DeletesWrites, Kinds DEF Differs
    <3> QED
      BY <1>4, <3>1, <3>2, <3>3, <3>4
  <2> QED
    BY <2>2 DEF next
<1>6. CASE k = 1
  <2>1. next(d) = Null
    <3>1. Unlinks(d, e, q, k)
      BY DeletesCells
    <3>2. k <= 1
      BY <1>6
    <3> QED
      BY <3>1, <3>2 DEF Unlinks, next
  <2> QED
    BY <1>1, <1>3, <1>5, <2>1 DEF OneAtATime
<1>7. CASE k # 1
  <2>1. soft' = soft
    BY <1>7 DEF Deletes
  <2> QED
    BY <1>1, <1>3, <1>5, <2>1 DEF OneAtATime
<1> QED
  BY <1>6, <1>7

(* Every variable keeps its type.                                          *)
LEMMA DeletesTyped ==
  ASSUME NEW q \in Seq(Node), NEW d \in Node, NEW e \in Spots, NEW k \in 1 .. 4,
         Deletes(d, e, q, k)
  PROVE  Typed' /\ Split'
<1>1. /\ UNCHANGED <<list, machine, awake, raced, oops>> /\ busy' \in [Threads -> Op]
      /\ list = "send_reply_list" /\ soft.step = "list_del"
      /\ soft' = soft \/ soft' = Rest
  BY DEF Deletes
<1>2. /\ ptr \in [Cells -> Values]
      /\ \A m \in Spots : next(m) \in Ends /\ prev(m) \in Ends
  BY DEF Deletes, Typed
<1>3. PICK s : s = DelStores(d, e)[5 - k] /\ ptr' = [ptr EXCEPT ![s.cell] = s.value]
  BY DEF Deletes
<1>4. s.value \in {Root, e, Null}
  <2>1. \A f, m, v : St(f, m, v).value = v
    BY Pairs
  <2>2. /\ DelStores(d, e)[1] = St("prev", e, Root)
        /\ DelStores(d, e)[2] = St("next", Root, e)
        /\ DelStores(d, e)[3] = St("next", d, Null)
        /\ DelStores(d, e)[4] = St("prev", d, Null)
    BY DEF DelStores
  <2>3. 5 - k \in {1, 2, 3, 4}
    OBVIOUS
  <2> QED
    BY <1>3, <2>1, <2>2, <2>3
<1>5. ptr' \in [Cells -> Values]
  BY <1>2, <1>3, <1>4, Kinds
<1>6. ASSUME NEW m \in Spots PROVE next(m)' \in Ends /\ prev(m)' \in Ends
  <2>1. \A c \in Cells : ptr'[c] \in {ptr[c], Root, e, Null}
    BY <1>2, <1>3, <1>4
  <2>2. ptr'[<<"next", m>>] \in {ptr[<<"next", m>>], Root, e, Null}
        /\ ptr'[<<"prev", m>>] \in {ptr[<<"prev", m>>], Root, e, Null}
    BY <2>1, Kinds
  <2> QED
    BY <1>2, <2>2, Kinds DEF next, prev
<1>7. soft' \in [step : {"idle", "callback", "list_del", "walk"}, item : Spots,
                 nxt : Ends, wanted : Spots, before : BOOLEAN, calls : Nat]
  <2>1. Rest \in [step : {"idle", "callback", "list_del", "walk"}, item : Spots,
                  nxt : Ends, wanted : Spots, before : BOOLEAN, calls : Nat]
    BY Kinds DEF Rest
  <2>2. soft \in [step : {"idle", "callback", "list_del", "walk"}, item : Spots,
                  nxt : Ends, wanted : Spots, before : BOOLEAN, calls : Nat]
    BY DEF Deletes, Typed
  <2> QED
    BY <1>1, <2>1, <2>2
<1>8. Typed'
  <2>1. /\ list \in {"send_reply_list", "msg_list"} /\ machine \in {"up", "smp", "weak"}
        /\ awake \in SUBSET Node /\ prev(Root) \in Spots
    BY DEF Deletes, Typed
  <2>2. prev(Root)' \in {prev(Root), Root}
    <3>1. k \in {1, 2, 3, 4}
      OBVIOUS
    <3>2. d # Root
      BY Kinds
    <3> QED
      BY <3>1, <3>2, DeletesWrites, Kinds DEF Differs, prev
  <2>3. prev(Root)' \in Spots
    BY <2>1, <2>2, Kinds
  <2> QED
    BY <1>1, <1>5, <1>6, <1>7, <2>1, <2>3 DEF Typed, Op
<1>9. Split'
  <2>1. raced => list = "send_reply_list"
    BY <1>1
  <2>2. oops => machine = "weak"
    BY DEF Deletes, Split
  <2> QED
    BY <1>1, <2>1, <2>2 DEF Split, Rest
<1> QED
  BY <1>8, <1>9

(* A store of the unlink keeps the list, or drops its first entry.         *)
LEMMA DeleteStep ==
  ASSUME Typed, Split, ~raced, NEW q \in Seq(Node), Holds(q), Store(RX)
  PROVE  /\ Typed' /\ Split' /\ ~raced'
         /\ \E qq \in Seq(Node) : /\ Holds(qq)'
                                  /\ qq = q \/ (q # <<>> /\ qq = Tail(q))
<1>1. PICK d \in Node, e \in Spots, k \in 1 .. 4 : Deletes(d, e, q, k)
  BY DeletesFacts
<1>2. PICK qq : qq = Shrunk(q, k)
  OBVIOUS
<1>3. qq \in Seq(Node) /\ Links(ptr, qq)'
  <2>1. qq \in Seq(Node) /\ Links(ptr', qq)
    BY <1>1, <1>2, DeletesLinks
  <2> QED
    BY <2>1 DEF Links
<1>4. Disjoint' /\ Linking(qq)' /\ Closed(qq)' /\ Replying(qq)' /\ OneAtATime'
  BY <1>1, <1>2, DeletesLinking, DeletesClosed, DeletesReplying, DeletesOneAtATime
<1>5. Filled(qq)' /\ Walking(qq)'
  <2>1. list' = "send_reply_list"
    BY <1>1 DEF Deletes
  <2> QED
    BY <2>1 DEF Filled, Walking
<1>6. Holds(qq)'
  BY <1>3, <1>4, <1>5 DEF Holds
<1>7. qq = q \/ (q # <<>> /\ qq = Tail(q))
  <2>1. Unlinks(d, e, q, k)
    BY <1>1, DeletesCells
  <2>2. k = 3 => q # <<>>
    BY <2>1 DEF Unlinks
  <2> QED
    BY <1>2, <2>2 DEF Shrunk
<1>8. Typed' /\ Split' /\ ~raced'
  <2>1. ~raced'
    BY <1>1 DEF Deletes
  <2> QED
    BY <1>1, <2>1, DeletesTyped
<1> QED
  BY <1>3, <1>6, <1>7, <1>8

-----------------------------------------------------------------------------
(* An operation begins, and uses no pointer that another one uses.         *)

Stores == [cell : Cells, value : Values]

Begun(t, n, stores) ==
  LET cells == {s.cell : s \in ToSet(stores)} \cup {<<"next", n>>, <<"prev", n>>}
  IN  /\ busy'[t] = [cells |-> cells, todo |-> stores]
      /\ \A u \in Threads \ {t} : busy'[u] = busy[u] /\ busy[u].cells \cap cells = {}
      /\ busy' \in [Threads -> Op]
      /\ t # RX => next(n) = Null

(* Beginning without a race takes pointers that nobody uses.               *)
LEMMA BeginFacts ==
  ASSUME Typed, NEW t \in Threads, NEW n \in Node, NEW stores \in Seq(Stores),
         Begin(t, n, stores), ~raced'
  PROVE  Begun(t, n, stores)
<1> DEFINE cells == {s.cell : s \in ToSet(stores)} \cup {<<"next", n>>, <<"prev", n>>}
<1>1. /\ busy' = [busy EXCEPT ![t] = [cells |-> cells, todo |-> stores]]
      /\ raced' = \/ \E u \in Threads \ {t} : busy[u].cells \cap cells # {}
                  \/ t # RX /\ next(n) # Null
  BY DEF Begin
<1>2. cells \in SUBSET Cells
  <2>1. \A s \in ToSet(stores) : s \in Stores
    BY LenProperties, ElementOfSeq DEF ToSet
  <2> QED
    BY <2>1, Kinds DEF Stores
<1> HIDE DEF cells
<1>3. busy \in [Threads -> Op]
  BY DEF Typed, Op
<1>4. [cells |-> cells, todo |-> stores] \in Op
  BY <1>2 DEF Op, Stores
<1>5. /\ busy'[t] = [cells |-> cells, todo |-> stores]
      /\ \A u \in Threads \ {t} : busy'[u] = busy[u]
      /\ busy' \in [Threads -> Op]
  BY <1>1, <1>3, <1>4
<1>6. /\ \A u \in Threads \ {t} : busy[u].cells \cap cells = {}
      /\ t # RX => next(n) = Null
  BY <1>1
<1> QED
  BY <1>5, <1>6 DEF Begun, cells

(* It takes pointers, and stores into none.                                *)
LEMMA BegunKeeps ==
  ASSUME NEW q \in Seq(Node), Holds(q), NEW t \in Threads, NEW n \in Node, NEW stores,
         Begun(t, n, stores), Idling(t), UNCHANGED <<ptr, list, machine>>
  PROVE  Links(ptr, q)' /\ Closed(q)' /\ Disjoint' /\ Filled(q)'
<1>1. PICK C : /\ busy'[t].cells = C
               /\ \A u \in Threads \ {t} : busy'[u] = busy[u] /\ busy[u].cells \cap C = {}
  <2> DEFINE cells == {s.cell : s \in ToSet(stores)} \cup {<<"next", n>>, <<"prev", n>>}
  <2>1. /\ busy'[t] = [cells |-> cells, todo |-> stores]
        /\ \A u \in Threads \ {t} : busy'[u] = busy[u] /\ busy[u].cells \cap cells = {}
    BY DEF Begun
  <2> HIDE DEF cells
  <2>2. busy'[t].cells = cells
    BY <2>1
  <2> QED
    BY <2>1, <2>2
<1>2. /\ Links(ptr, q) /\ Closed(q) /\ Disjoint /\ Filled(q)
      /\ busy[t].cells = {}
  BY DEF Holds, Idling, Idle
<1>3. \A c : Owned(c) => Owned(c)'
  BY <1>1, <1>2 DEF Owned
<1>4. Links(ptr, q)' /\ Filled(q)'
  BY <1>2 DEF Links, Filled
<1>5. Closed(q)'
  BY <1>2, <1>3 DEF Closed, prev, next
<1>6. Disjoint'
  BY <1>1, <1>2 DEF Disjoint
<1> QED
  BY <1>4, <1>5, <1>6

(* The stores of list_add_tail.                                            *)
LEMMA AddTail ==
  ASSUME NEW n \in Node, NEW l \in Spots, l = prev(Root)
  PROVE  /\ list_add_tail(n) \in Seq(Stores) /\ Len(list_add_tail(n)) = 4
         /\ list_add_tail(n)[1] = St("prev", Root, n)
         /\ list_add_tail(n)[2] = St("next", n, Root)
         /\ list_add_tail(n)[3] = St("prev", n, l)
         /\ list_add_tail(n)[4] = St("next", l, n)
<1>1. \A f \in Fields, m \in Spots, v \in Values : St(f, m, v) \in Stores
  BY Kinds DEF St, Stores
<1>2. /\ St("prev", Root, n) \in Stores /\ St("next", n, Root) \in Stores
      /\ St("prev", n, l) \in Stores /\ St("next", l, n) \in Stores
  BY <1>1, Kinds
<1>3. list_add_tail(n) = <<St("prev", Root, n)>> \o <<St("next", n, Root)>>
                           \o <<St("prev", n, l)>> \o <<St("next", l, n)>>
  BY DEF list_add_tail, Set, St
<1> QED
  BY <1>2, <1>3, FourStrung

(* What a context that links an entry does, in either list.                *)
Linkage(n) == IF list = "msg_list" THEN Handler(n) ELSE list_add_tail(n)

(* These stores are those that link n, and the one that links is the last. *)
LEMMA LinkageFacts ==
  ASSUME NEW n \in Node, NEW l \in Spots, l = prev(Root), Typed
  PROVE  /\ Linkage(n) \in Seq(Stores) /\ Linkage(n) # <<>>
         /\ Linkage(n)[Len(Linkage(n))] = St("next", l, n)
         /\ {Linkage(n)[j] : j \in 1 .. Len(Linkage(n))} = AddStores(n, l)
         /\ n # l => IsInjective(Linkage(n))
<1>1. PICK t : t = list_add_tail(n)
  OBVIOUS
<1>2. /\ t \in Seq(Stores) /\ Len(t) = 4
      /\ t[1] = St("prev", Root, n) /\ t[2] = St("next", n, Root)
      /\ t[3] = St("prev", n, l) /\ t[4] = St("next", l, n)
  BY <1>1, AddTail
<1>3. PICK a : a = Linkage(n)
  OBVIOUS
<1>4. /\ n # Root /\ \A s \in 1 .. 4 : s \in {1, 2, 3, 4}
  BY Kinds
<1>5. ASSUME n # l
      PROVE  /\ t[1] # t[2] /\ t[1] # t[3] /\ t[1] # t[4]
             /\ t[2] # t[3] /\ t[2] # t[4] /\ t[3] # t[4]
  BY <1>2, <1>4, <1>5, Pairs
<1>6. CASE list # "msg_list"
  <2>1. a = t /\ DOMAIN a = 1 .. 4 /\ Len(a) = 4
    BY <1>1, <1>2, <1>3, <1>6, LenProperties DEF Linkage
  <2>2. {a[j] : j \in 1 .. 4} = AddStores(n, l)
    <3>1. {a[j] : j \in 1 .. 4} = {t[1], t[2], t[3], t[4]}
      BY <1>4, <2>1
    <3> QED
      BY <1>2, <1>6, <3>1 DEF AddStores
  <2>3. n # l => IsInjective(a)
    <3> SUFFICES ASSUME n # l, NEW i \in 1 .. 4, NEW j \in 1 .. 4, a[i] = a[j]
                 PROVE  i = j
      BY <2>1 DEF IsInjective
    <3> QED
      BY <1>4, <1>5, <2>1
  <2>4. a \in Seq(Stores) /\ a # <<>>
    BY <1>2, <2>1, EmptySeq
  <2>5. a[Len(a)] = St("next", l, n)
    <3>1. a[4] = St("next", l, n)
      BY <1>2, <2>1
    <3> QED
      BY <2>1, <3>1
  <2> QED
    BY <1>3, <2>1, <2>2, <2>3, <2>4, <2>5
<1>7. CASE list = "msg_list"
  <2>1. PICK c : c = St("callback", n, Given)
    OBVIOUS
  <2>2. c \in Stores
    BY <2>1, Kinds DEF St, Stores
  <2>3. PICK u : u = <<c>>
    OBVIOUS
  <2>4. u \in Seq(Stores) /\ Len(u) = 1 /\ u[1] = c
    BY <2>2, <2>3
  <2>5. a = u \o t
    BY <1>1, <1>3, <1>7, <2>1, <2>3 DEF Linkage, Handler, Set, St
  <2>6. /\ a \in Seq(Stores) /\ Len(a) = 5
        /\ \A j \in 1 .. 5 : a[j] = IF j <= 1 THEN u[j] ELSE t[j - 1]
    <3>1. /\ a \in Seq(Stores) /\ Len(a) = Len(u) + Len(t)
          /\ \A j \in 1 .. Len(u) + Len(t) : a[j] = IF j <= Len(u) THEN u[j] ELSE t[j - Len(u)]
      BY <1>2, <2>4, <2>5, ConcatProperties
    <3>2. Len(u) + Len(t) = 5
      BY <1>2, <2>4
    <3> QED
      BY <2>4, <3>1, <3>2
  <2>7. /\ a[1] = c /\ a[2] = t[1] /\ a[3] = t[2] /\ a[4] = t[3] /\ a[5] = t[4]
        /\ DOMAIN a = 1 .. 5 /\ \A s \in 1 .. 5 : s \in {1, 2, 3, 4, 5}
    BY <2>4, <2>6, LenProperties
  <2>8. {a[j] : j \in 1 .. 5} = AddStores(n, l)
    <3>1. {a[j] : j \in 1 .. 5} = {a[1], a[2], a[3], a[4], a[5]}
      BY <2>7
    <3> QED
      BY <1>2, <1>7, <2>1, <2>7, <3>1 DEF AddStores
  <2>9. c # t[1] /\ c # t[2] /\ c # t[3] /\ c # t[4]
    BY <1>2, <2>1, Pairs
  <2>10. n # l => IsInjective(a)
    <3> SUFFICES ASSUME n # l, NEW i \in 1 .. 5, NEW j \in 1 .. 5, a[i] = a[j]
                 PROVE  i = j
      BY <2>7 DEF IsInjective
    <3> QED
      BY <1>5, <2>7, <2>9
  <2>11. a # <<>> /\ a[Len(a)] = St("next", l, n)
    BY <1>2, <2>6, <2>7, EmptySeq
  <2> QED
    BY <1>3, <2>6, <2>8, <2>10, <2>11
<1> QED
  BY <1>6, <1>7

-----------------------------------------------------------------------------
(* An entry is about to be linked.                                         *)

Starts(n) ==
  /\ Begin(n, n, Linkage(n)) /\ Idling(n) /\ Runs(n)
  /\ UNCHANGED <<ptr, list, machine, soft, oops>>
  /\ \/ list = "send_reply_list" /\ n \in awake /\ awake' = awake \ {n}
     \/ /\ list = "msg_list" /\ UNCHANGED awake
        /\ next(n) = Null /\ \A m \in Node : Idling(m)

(* start_xmit and the probe link their entry in this way.                  *)
LEMMA Starting ==
  ASSUME NEW n \in Node, wait_send_reply(n) \/ guru_add_msg(n)
  PROVE  Starts(n)
<1>1. CASE wait_send_reply(n)
  <2>1. Linkage(n) = list_add_tail(n)
    BY <1>1 DEF wait_send_reply, Linkage
  <2> QED
    BY <1>1, <2>1 DEF wait_send_reply, Starts
<1>2. CASE guru_add_msg(n)
  <2>1. Linkage(n) = Handler(n)
    BY <1>2 DEF guru_add_msg, Linkage
  <2> QED
    BY <1>2, <2>1 DEF guru_add_msg, Starts
<1> QED
  BY <1>1, <1>2

(* The probe, and one processor, race with nobody.                         *)
LEMMA StartsAlone ==
  ASSUME Typed, Split, NEW q, Holds(q), NEW n \in Node, Starts(n),
         list = "msg_list" \/ machine = "up"
  PROVE  ~raced'
<1>1. next(n) = Null /\ \A u \in Threads \ {n} : Idling(u)
  <2>1. CASE list = "msg_list"
    BY <2>1 DEF Starts, Split, Threads
  <2>2. CASE list = "send_reply_list" /\ machine = "up"
    <3>1. soft = Rest /\ n \in awake /\ \A m \in Node \ {n} : Idling(m)
      BY <2>2, Kinds DEF Starts, Runs
    <3>2. next(n) = Null /\ Idling(RX)
      BY <2>2, <3>1 DEF Holds, OneAtATime, Replying, Rest
    <3> QED
      BY <3>1, <3>2 DEF Threads
  <2> QED
    BY <2>1, <2>2 DEF Typed
<1>2. PICK C : raced' = \/ \E u \in Threads \ {n} : busy[u].cells \cap C # {}
                        \/ n # RX /\ next(n) # Null
  BY DEF Starts, Begin
<1>3. \A u \in Threads \ {n} : busy[u].cells = {}
  BY <1>1 DEF Idling, Idle
<1> QED
  BY <1>1, <1>2, <1>3

(* Where n joins, when nobody races with it.                               *)
Joins(n, l, q) ==
  /\ l \in Spots /\ l = prev(Root) /\ l = Final(q) /\ n # l
  /\ ptr[<<"next", l>>] = Root /\ \A j \in 1 .. Len(q) : q[j] # n
  /\ ptr[<<"next", n>>] = Null
  /\ busy'[n].cells = AddCells(n, l) /\ busy'[n].todo = Linkage(n)
  /\ \A u \in Threads \ {n} : busy'[u] = busy[u] /\ busy[u].cells \cap AddCells(n, l) = {}

(* Without a race, the entry is not linked and joins at the free end.      *)
LEMMA StartsJoins ==
  ASSUME Typed, NEW q \in Seq(Node), Holds(q), NEW n \in Node, Starts(n), ~raced'
  PROVE  Joins(n, prev(Root), q) /\ Begun(n, n, Linkage(n))
<1>1. PICK l \in Spots : l = prev(Root)
  BY DEF Typed
<1>2. PICK a : a = Linkage(n)
  OBVIOUS
<1>3. /\ a \in Seq(Stores)
      /\ {a[j] : j \in 1 .. Len(a)} = AddStores(n, l)
  BY <1>1, <1>2, LinkageFacts
<1>4. Begun(n, n, a)
  BY <1>2, <1>3, BeginFacts, Kinds DEF Starts
<1>5. ToSet(a) = AddStores(n, l)
  BY <1>3, LenProperties DEF ToSet
<1>6. {s.cell : s \in ToSet(a)} \cup {<<"next", n>>, <<"prev", n>>} = AddCells(n, l)
  <2>1. \A f, m, v : St(f, m, v).cell = <<f, m>>
    BY Pairs
  <2>2. PICK b1, b2, b3, b4, b5 :
          /\ b1 = St("prev", Root, n) /\ b2 = St("next", n, Root) /\ b3 = St("prev", n, l)
          /\ b4 = St("next", l, n) /\ b5 = St("callback", n, Given)
    OBVIOUS
  <2>3. /\ b1.cell = <<"prev", Root>> /\ b2.cell = <<"next", n>> /\ b3.cell = <<"prev", n>>
        /\ b4.cell = <<"next", l>> /\ b5.cell = <<"callback", n>>
    BY <2>1, <2>2
  <2>4. CASE list = "msg_list"
    <3>1. AddStores(n, l) = {b1, b2, b3, b4, b5}
      BY <2>2, <2>4 DEF AddStores
    <3>2. AddCells(n, l) = {b1.cell, b2.cell, b3.cell, b4.cell, b5.cell}
      BY <2>3, <2>4 DEF AddCells
    <3>3. {s.cell : s \in {b1, b2, b3, b4, b5}} =
            {b1.cell, b2.cell, b3.cell, b4.cell, b5.cell}
      OBVIOUS
    <3> QED
      BY <1>5, <2>3, <3>1, <3>2, <3>3
  <2>5. CASE list # "msg_list"
    <3>1. AddStores(n, l) = {b1, b2, b3, b4}
      BY <2>2, <2>5 DEF AddStores
    <3>2. AddCells(n, l) = {b1.cell, b2.cell, b3.cell, b4.cell}
      BY <2>3, <2>5 DEF AddCells
    <3>3. {s.cell : s \in {b1, b2, b3, b4}} = {b1.cell, b2.cell, b3.cell, b4.cell}
      OBVIOUS
    <3> QED
      BY <1>5, <2>3, <3>1, <3>2, <3>3
  <2> QED
    BY <2>4, <2>5
<1>7. /\ busy'[n] = [cells |-> AddCells(n, l), todo |-> a]
      /\ \A u \in Threads \ {n} : busy'[u] = busy[u] /\ busy[u].cells \cap AddCells(n, l) = {}
      /\ next(n) = Null
  BY <1>4, <1>6, Kinds DEF Begun
<1>8. busy'[n].cells = AddCells(n, l) /\ busy'[n].todo = a
  BY <1>7
<1>9. \A c \in AddCells(n, l) : ~Owned(c)
  <2>1. busy[n].cells = {}
    BY DEF Starts, Idling, Idle
  <2> QED
    BY <1>7, <2>1 DEF Owned
<1>10. /\ <<"prev", Root>> \in AddCells(n, l) /\ <<"next", n>> \in AddCells(n, l)
       /\ <<"next", l>> \in AddCells(n, l)
  BY DEF AddCells
<1>11. l = Final(q)
  BY <1>1, <1>9, <1>10 DEF Holds, Closed
<1>12. /\ q # <<>> /\ ~Owned(<<"next", Final(q)>>) => next(Final(q)) = Root
       /\ ptr[<<"next", Root>>] = IF q = <<>> THEN Root ELSE q[1]
       /\ \A i \in 1 .. Len(q) - 1 : ptr[<<"next", q[i]>>] = q[i + 1]
  BY DEF Holds, Closed, Links
<1>13. /\ Len(q) \in Nat /\ (q = <<>> <=> Len(q) = 0)
       /\ \A j \in 1 .. Len(q) : q[j] \in Node
  BY LenProperties, EmptySeq, ElementOfSeq
<1>14. ptr[<<"next", l>>] = Root
  <2>1. CASE q = <<>>
    BY <1>11, <1>12, <2>1 DEF Final
  <2>2. CASE q # <<>>
    BY <1>9, <1>10, <1>11, <1>12, <2>2 DEF next
  <2> QED
    BY <2>1, <2>2
<1>15. ASSUME NEW j \in 1 .. Len(q) PROVE q[j] # n
  <2>1. CASE j = Len(q)
    <3>1. q # <<>> /\ Final(q) = q[j]
      BY <1>13, <2>1 DEF Final
    <3> QED
      BY <1>7, <1>11, <1>14, <3>1, Kinds DEF next
  <2>2. CASE j # Len(q)
    <3>1. j \in 1 .. Len(q) - 1 /\ j + 1 \in 1 .. Len(q)
      BY <1>13, <2>2
    <3>2. next(q[j]) \in Node
      BY <1>12, <1>13, <3>1 DEF next
    <3> QED
      BY <1>7, <3>2, Names
  <2> QED
    BY <2>1, <2>2
<1>16. n # l
  BY <1>11, <1>13, <1>15, Kinds DEF Final
<1> QED
  BY <1>1, <1>2, <1>4, <1>7, <1>8, <1>11, <1>14, <1>15, <1>16 DEF Joins, next

(* A sequence is one of the set of its elements.                           *)
LEMMA Members ==
  ASSUME NEW S, NEW s \in Seq(S), NEW T, {s[j] : j \in 1 .. Len(s)} = T
  PROVE  s \in Seq(T)
<1>1. s \in [1 .. Len(s) -> S] /\ Len(s) \in Nat
  OBVIOUS
<1>2. \A j \in 1 .. Len(s) : s[j] \in T
  OBVIOUS
<1> QED
  BY <1>1, <1>2

(* The start leaves the list as it is.                                     *)
LEMMA StartHolds ==
  ASSUME Typed, NEW q \in Seq(Node), Holds(q), NEW n \in Node, Starts(n), ~raced'
  PROVE  Typed' /\ Holds(q)'
<1>1. PICK l : l = prev(Root)
  OBVIOUS
<1>2. Joins(n, l, q) /\ Begun(n, n, Linkage(n))
  BY <1>1, StartsJoins
<1>3. /\ l \in Spots /\ l = prev(Root) /\ l = Final(q) /\ n # l
      /\ ptr[<<"next", l>>] = Root /\ \A j \in 1 .. Len(q) : q[j] # n
      /\ ptr[<<"next", n>>] = Null
      /\ busy'[n].cells = AddCells(n, l) /\ busy'[n].todo = Linkage(n)
      /\ \A u \in Threads \ {n} : busy'[u] = busy[u] /\ busy[u].cells \cap AddCells(n, l) = {}
  BY <1>2 DEF Joins
<1>4. UNCHANGED <<ptr, list, machine, soft, oops>> /\ Idling(n) /\ Runs(n)
  BY DEF Starts
<1>5. Links(ptr, q)' /\ Closed(q)' /\ Disjoint' /\ Filled(q)'
  BY <1>2, <1>4, BegunKeeps, Kinds
<1>6. Adding(n, l, q)'
  <2>1. PICK a : a = Linkage(n)
    OBVIOUS
  <2>2. /\ a \in Seq(Stores) /\ a # <<>>
        /\ a[Len(a)] = St("next", l, n)
        /\ {a[j] : j \in 1 .. Len(a)} = AddStores(n, l)
        /\ IsInjective(a)
    BY <1>3, <2>1, LinkageFacts
  <2>3. a \in Seq(AddStores(n, l))
    BY <2>2, Members
  <2>4. Owed(n)' = AddStores(n, l)
    BY <1>3, <2>1, <2>2 DEF Owed
  <2>5. Half(ptr, n, l, q, AddStores(n, l))
    BY <1>3 DEF Half, AddStores
  <2>6. Half(ptr, n, l, q, Owed(n))'
    BY <1>4, <2>4, <2>5 DEF Half
  <2>7. AddCells(n, l)' = AddCells(n, l) /\ AddStores(n, l)' = AddStores(n, l)
    BY <1>4 DEF AddCells, AddStores
  <2> QED
    BY <1>3, <2>1, <2>2, <2>3, <2>6, <2>7 DEF Adding
<1>7. Linking(q)'
  <2> SUFFICES ASSUME NEW m \in Node, m # n PROVE Idling(m)'
    BY <1>3, <1>6 DEF Linking
  <2>1. busy'[m] = busy[m] /\ <<"prev", Root>> \notin busy[m].cells
    BY <1>3, Kinds DEF AddCells
  <2>2. ~Idling(m) => <<"prev", Root>> \in busy[m].cells
    BY DEF Holds, Linking, Adding, AddCells
  <2> QED
    BY <2>1, <2>2 DEF Idling
<1>8. busy'[RX] = busy[RX]
  BY <1>3, Kinds
<1>9. Replying(q)'
  <2>1. Replying(q)
    BY DEF Holds
  <2>2. \A d, e : Deleting(d, e, q) => Deleting(d, e, q)'
    BY <1>4, <1>8 DEF Deleting, prev, next
  <2> QED
    BY <1>4, <1>8, <2>1, <2>2 DEF Replying, Idling
<1>10. OneAtATime'
  <2> SUFFICES ASSUME machine = "up", list = "send_reply_list" PROVE OneAtATime'
    BY <1>4 DEF OneAtATime
  <2>1. soft = Rest /\ awake' = awake \ {n}
    BY Kinds DEF Starts, Runs
  <2>2. \A m \in awake : m \in Node /\ Idling(m) /\ next(m) = Null
    BY <2>1 DEF Holds, OneAtATime, Typed, Rest
  <2>3. \A m \in awake' : Idling(m)' /\ next(m)' = Null
    BY <1>3, <1>4, <2>1, <2>2, Kinds DEF Idling, next
  <2> QED
    BY <1>4, <2>1, <2>3 DEF OneAtATime
<1>11. Walking(q)'
  <2>1. Walking(q)
    BY DEF Holds
  <2>2. \A i : Walk(q, i) => Walk(q, i)'
    BY <1>4 DEF Walk
  <2> QED
    BY <1>4, <2>1, <2>2 DEF Walking
<1>12. Typed'
  <2>1. busy' \in [Threads -> Op]
    BY <1>2 DEF Begun
  <2>2. awake' \in SUBSET Node
    BY DEF Typed, Starts
  <2> QED
    BY <1>4, <2>1, <2>2 DEF Typed, Op, next, prev
<1> QED
  BY <1>5, <1>7, <1>9, <1>10, <1>11, <1>12 DEF Holds

-----------------------------------------------------------------------------
(* The first reply is about to be unlinked.                                *)

(* One processor: no start_xmit is under way.                              *)
LEMMA UnlinkAlone ==
  ASSUME Typed, Split, NEW q, Holds(q), Unlink, machine = "up"
  PROVE  ~raced'
<1>1. \A u \in Threads \ {RX} : busy[u].cells = {}
  <2>1. soft # Rest /\ list = "send_reply_list"
    BY DEF Unlink, Rest, Split, Typed
  <2> QED
    BY <2>1 DEF Holds, OneAtATime, Threads, Idling, Idle
<1>2. PICK C : raced' = \/ \E u \in Threads \ {RX} : busy[u].cells \cap C # {}
                        \/ RX # RX /\ next(soft.item) # Null
  BY DEF Unlink, Begin
<1> QED
  BY <1>1, <1>2

(* The stores of list_del.                                                 *)
LEMMA DelTail ==
  ASSUME NEW d \in Node, NEW e \in Spots, e = next(d), prev(d) = Root
  PROVE  /\ list_del(d) \in Seq(Stores) /\ Len(list_del(d)) = 4
         /\ \A j \in 1 .. 4 : list_del(d)[j] = DelStores(d, e)[j]
         /\ ToSet(list_del(d)) = {St("prev", e, Root), St("next", Root, e),
                                  St("next", d, Null), St("prev", d, Null)}
<1>1. \A f \in Fields, m \in Spots, v \in Values : St(f, m, v) \in Stores
  BY Kinds DEF St, Stores
<1>2. /\ St("prev", e, Root) \in Stores /\ St("next", Root, e) \in Stores
      /\ St("next", d, Null) \in Stores /\ St("prev", d, Null) \in Stores
  BY <1>1, Kinds
<1>3. list_del(d) = <<St("prev", e, Root)>> \o <<St("next", Root, e)>>
                      \o <<St("next", d, Null)>> \o <<St("prev", d, Null)>>
  BY DEF list_del, Set, St
<1>4. PICK a : a = list_del(d)
  OBVIOUS
<1>5. /\ a \in Seq(Stores) /\ Len(a) = 4
      /\ a[1] = St("prev", e, Root) /\ a[2] = St("next", Root, e)
      /\ a[3] = St("next", d, Null) /\ a[4] = St("prev", d, Null)
  BY <1>2, <1>3, <1>4, FourStrung
<1>6. /\ DelStores(d, e)[1] = St("prev", e, Root)
      /\ DelStores(d, e)[2] = St("next", Root, e)
      /\ DelStores(d, e)[3] = St("next", d, Null)
      /\ DelStores(d, e)[4] = St("prev", d, Null)
  BY DEF DelStores
<1>7. \A j \in 1 .. 4 : j \in {1, 2, 3, 4}
  OBVIOUS
<1>8. ToSet(a) = {a[1], a[2], a[3], a[4]}
  <2>1. DOMAIN a = 1 .. 4
    BY <1>5, LenProperties
  <2> QED
    BY <1>7, <2>1 DEF ToSet
<1> QED
  BY <1>4, <1>5, <1>6, <1>7, <1>8

(* What it finds, when nobody races with it.                               *)
Hooked(d, e, q) ==
  /\ d \in Node /\ e \in Spots /\ d = soft.item /\ d # e
  /\ e = next(d) /\ prev(d) = Root
  /\ q # <<>> /\ q[1] = d /\ e = Second(q)

(* Without a race, the first entry has nobody at its pointers.             *)
LEMMA UnlinkFinds ==
  ASSUME Typed, Split, NEW q \in Seq(Node), Holds(q), Unlink, ~raced'
  PROVE  \E d, e : Hooked(d, e, q)
<1>1. PICK d : d = soft.item
  OBVIOUS
<1>2. q # <<>> /\ d = q[1] /\ Idling(RX) /\ Begin(RX, d, list_del(d))
  BY <1>1 DEF Unlink, Holds, Replying
<1>3. /\ Len(q) \in Nat \ {0} /\ 1 \in 1 .. Len(q)
      /\ \A j \in 1 .. Len(q) : q[j] \in Node
  BY <1>2, LenProperties, EmptySeq, ElementOfSeq
<1>4. d \in Node /\ First(q) = d
  BY <1>2, <1>3 DEF First
<1>5. ~Owned(<<"next", d>>) /\ ~Owned(<<"prev", d>>)
  <2>1. PICK C : /\ <<"next", d>> \in C /\ <<"prev", d>> \in C
                 /\ \A u \in Threads \ {RX} : busy[u].cells \cap C = {}
    <3> DEFINE cells == {s.cell : s \in ToSet(list_del(d))} \cup {<<"next", d>>, <<"prev", d>>}
    <3>1. raced' = \/ \E u \in Threads \ {RX} : busy[u].cells \cap cells # {}
                   \/ RX # RX /\ next(d) # Null
      BY <1>2 DEF Begin
    <3>2. <<"next", d>> \in cells /\ <<"prev", d>> \in cells
      OBVIOUS
    <3> HIDE DEF cells
    <3> QED
      BY <3>1, <3>2
  <2>2. busy[RX].cells = {}
    BY <1>2 DEF Idling, Idle
  <2> QED
    BY <2>1, <2>2 DEF Owned
<1>6. prev(d) = Root
  BY <1>2, <1>4, <1>5 DEF Holds, Closed
<1>7. next(d) = Second(q) /\ Second(q) \in Spots /\ d # Second(q)
  <2>1. CASE Len(q) = 1
    <3>1. Final(q) = d /\ Second(q) = Root
      BY <1>2, <2>1 DEF Final, Second
    <3>2. next(d) = Root
      BY <1>2, <1>5, <3>1 DEF Holds, Closed
    <3> QED
      BY <1>4, <3>1, <3>2, Kinds
  <2>2. CASE Len(q) # 1
    <3>1. \A x \in Nat \ {0} : x # 1 => 1 \in 1 .. x - 1 /\ 1 + 1 = 2 /\ 2 \in 1 .. x
      OBVIOUS
    <3>2. 1 \in 1 .. Len(q) - 1 /\ 1 + 1 = 2 /\ 2 \in 1 .. Len(q)
      BY <1>3, <2>2, <3>1
    <3>3. \A i \in 1 .. Len(q) - 1 : ptr[<<"next", q[i]>>] = q[i + 1]
      BY DEF Holds, Links
    <3>4. next(d) = q[2]
      BY <1>2, <3>2, <3>3 DEF next
    <3>5. q[1] # q[2]
      BY <1>3, <3>2, Distinct DEF Holds, Links
    <3> QED
      BY <1>2, <1>3, <2>2, <3>2, <3>4, <3>5, Kinds DEF Second
  <2> QED
    BY <2>1, <2>2
<1>8. PICK e : e = Second(q)
  OBVIOUS
<1>9. Hooked(d, e, q)
  BY <1>1, <1>2, <1>4, <1>6, <1>7, <1>8 DEF Hooked
<1> QED
  BY <1>9

(* The start of the unlink leaves the list as it is.                       *)
LEMMA UnlinkHolds ==
  ASSUME Typed, Split, NEW q \in Seq(Node), Holds(q), Unlink, ~raced'
  PROVE  Typed' /\ Holds(q)'
<1>1. PICK d, e : Hooked(d, e, q)
  BY UnlinkFinds
<1>2. /\ d \in Node /\ e \in Spots /\ d = soft.item /\ d # e
      /\ e = next(d) /\ prev(d) = Root
      /\ q # <<>> /\ q[1] = d /\ e = Second(q)
  BY <1>1 DEF Hooked
<1>3. PICK a : a = list_del(d)
  OBVIOUS
<1>4. /\ a \in Seq(Stores) /\ Len(a) = 4
      /\ \A j \in 1 .. 4 : a[j] = DelStores(d, e)[j]
      /\ ToSet(a) = {St("prev", e, Root), St("next", Root, e),
                     St("next", d, Null), St("prev", d, Null)}
  BY <1>2, <1>3, DelTail
<1>5. /\ UNCHANGED <<list, machine, ptr, awake, soft, oops>> /\ Idling(RX)
      /\ soft.step = "list_del" /\ Begin(RX, d, a)
  BY <1>2, <1>3 DEF Unlink
<1>6. Begun(RX, d, a)
  BY <1>2, <1>4, <1>5, BeginFacts, Kinds
<1>7. {s.cell : s \in ToSet(a)} \cup {<<"next", d>>, <<"prev", d>>} =
        {<<"prev", e>>, <<"next", Root>>, <<"next", d>>, <<"prev", d>>}
  <2>1. PICK b1, b2, b3, b4 :
          /\ b1 = St("prev", e, Root) /\ b2 = St("next", Root, e)
          /\ b3 = St("next", d, Null) /\ b4 = St("prev", d, Null)
    OBVIOUS
  <2>2. /\ b1.cell = <<"prev", e>> /\ b2.cell = <<"next", Root>>
        /\ b3.cell = <<"next", d>> /\ b4.cell = <<"prev", d>>
    BY <2>1, Pairs
  <2>3. {s.cell : s \in {b1, b2, b3, b4}} = {b1.cell, b2.cell, b3.cell, b4.cell}
    OBVIOUS
  <2> QED
    BY <1>4, <2>1, <2>2, <2>3
<1>8. /\ busy'[RX] = [cells |-> {<<"prev", e>>, <<"next", Root>>, <<"next", d>>, <<"prev", d>>},
                      todo |-> a]
      /\ \A u \in Threads \ {RX} : busy'[u] = busy[u]
      /\ busy' \in [Threads -> Op]
  BY <1>6, <1>7 DEF Begun
<1>9. /\ busy'[RX].cells = {<<"prev", e>>, <<"next", Root>>, <<"next", d>>, <<"prev", d>>}
      /\ busy'[RX].todo = a
  BY <1>8
<1>10. Links(ptr, q)' /\ Closed(q)' /\ Disjoint' /\ Filled(q)'
  BY <1>2, <1>5, <1>6, BegunKeeps, Kinds
<1>11. Deleting(d, e, q)'
  <2>1. \A j \in 1 .. 4 : 4 - 4 + j = j
    OBVIOUS
  <2>2. \A j \in 1 .. 4 : a[j] = DelStores(d, e)[4 - 4 + j]
    BY <1>4, <2>1
  <2>3. ~(4 <= 2) /\ ~(4 <= 3) /\ ~(4 <= 1) /\ 4 \in 1 .. 4
    OBVIOUS
  <2>4. DelStores(d, e)' = DelStores(d, e)
    BY DEF DelStores
  <2> QED
    BY <1>2, <1>4, <1>9, <2>2, <2>3, <2>4 DEF Deleting
<1>12. Replying(q)'
  <2>1. ~Idling(RX)'
    <3>1. Idle.cells = {} /\ <<"next", Root>> \in busy'[RX].cells
      BY <1>9 DEF Idle
    <3>2. busy'[RX] # Idle
      BY <3>1
    <3> QED
      BY <3>2 DEF Idling
  <2> QED
    BY <1>2, <1>5, <1>11, <2>1 DEF Replying
<1>13. Linking(q)'
  <2> SUFFICES ASSUME NEW n \in Node, ~Idling(n)' PROVE \E l \in Spots : Adding(n, l, q)'
    BY DEF Linking
  <2>1. busy'[n] = busy[n]
    BY <1>8, Kinds
  <2>2. PICK l \in Spots : Adding(n, l, q)
    BY <2>1 DEF Holds, Linking, Idling
  <2>3. AddCells(n, l)' = AddCells(n, l) /\ AddStores(n, l)' = AddStores(n, l)
    BY <1>5 DEF AddCells, AddStores
  <2>4. Owed(n)' = Owed(n)
    BY <2>1 DEF Owed
  <2>5. Half(ptr, n, l, q, Owed(n))'
    BY <1>5, <2>2, <2>4 DEF Adding, Half
  <2> QED
    BY <1>5, <2>1, <2>2, <2>3, <2>5 DEF Adding
<1>14. OneAtATime'
  <2>1. \A n \in Node : Idling(n) => Idling(n)'
    BY <1>8, Kinds DEF Idling
  <2> QED
    BY <1>5, <2>1 DEF Holds, OneAtATime, next, Typed
<1>15. Walking(q)' /\ Typed'
  <2>1. list = "send_reply_list"
    BY <1>5 DEF Split, Typed
  <2>2. Walking(q)'
    BY <1>5, <2>1 DEF Walking
  <2> QED
    BY <1>5, <1>8, <2>2 DEF Typed, Op, next, prev
<1> QED
  BY <1>10, <1>12, <1>13, <1>14, <1>15 DEF Holds

-----------------------------------------------------------------------------
(* The handler goes on, and stores nothing.                                *)

(* The list and what is under way in the other contexts stay.              *)
LEMMA SoftKeeps ==
  ASSUME NEW q \in Seq(Node), Holds(q), UNCHANGED <<list, machine, ptr, busy>>
  PROVE  Links(ptr, q)' /\ Closed(q)' /\ Disjoint' /\ Linking(q)' /\ Filled(q)'
<1>1. Links(ptr, q)' /\ Filled(q)'
  BY DEF Holds, Links, Filled
<1>2. Closed(q)' /\ Disjoint'
  BY DEF Holds, Closed, Disjoint, Owned, prev, next
<1>3. \A n \in Node, l \in Spots : Adding(n, l, q) => Adding(n, l, q)'
  BY DEF Adding, Half, Owed, AddCells, AddStores
<1>4. Linking(q)'
  BY <1>3 DEF Holds, Linking, Idling
<1> QED
  BY <1>1, <1>2, <1>4

(* What the handler holds is a record of its fields.                       *)
Softs == [step : {"idle", "callback", "list_del", "walk"}, item : Spots,
          nxt : Ends, wanted : Spots, before : BOOLEAN, calls : Nat]

(* The type of every variable stays, if that of the handler does.          *)
LEMMA SoftTyped ==
  ASSUME Typed, UNCHANGED <<list, machine, ptr, busy>>, soft' \in Softs,
         awake' \in SUBSET Node
  PROVE  Typed'
  BY DEF Typed, Softs, next, prev

(* send_reply_list is not empty, and its first entry is called back.       *)
LEMMA SendCallbackHolds ==
  ASSUME Typed, Split, NEW q \in Seq(Node), Holds(q), send_callback
  PROVE  Typed' /\ Split' /\ Holds(q)'
<1>1. /\ UNCHANGED <<list, machine, ptr, busy, awake, raced, oops>>
      /\ list = "send_reply_list" /\ Runs(RX) /\ soft = Rest /\ next(Root) # Root
      /\ soft' = [soft EXCEPT !.step = "callback", !.item = next(Root)]
  BY DEF send_callback
<1>2. q # <<>> /\ next(Root) = q[1] /\ q[1] \in Node
  <2>1. ptr[<<"next", Root>>] = IF q = <<>> THEN Root ELSE q[1]
    BY DEF Holds, Links
  <2>2. q # <<>> /\ next(Root) = q[1]
    BY <1>1, <2>1 DEF next
  <2> QED
    BY <2>2, Shorter
<1>3. soft \in Softs
  BY DEF Typed, Softs
<1>4. soft' \in Softs /\ soft'.step = "callback" /\ soft'.item = q[1]
  BY <1>1, <1>2, <1>3, Kinds DEF Softs
<1>5. Typed'
  <2>1. awake' \in SUBSET Node
    BY <1>1 DEF Typed
  <2> QED
    BY <1>1, <1>4, <2>1, SoftTyped
<1>6. Split'
  BY <1>1, <1>4 DEF Split, Idling
<1>7. Idling(RX)
  BY <1>1 DEF Holds, Replying, Rest
<1>8. Replying(q)'
  BY <1>1, <1>2, <1>4, <1>7 DEF Replying, Idling
<1>9. OneAtATime'
  <2> SUFFICES ASSUME machine = "up" PROVE OneAtATime'
    BY <1>1 DEF OneAtATime
  <2>1. \A n \in Node : Idling(n)
    BY <1>1, Kinds DEF Runs
  <2>2. \A n \in awake : n \in Node /\ next(n) = Null
    BY <1>1 DEF Holds, OneAtATime, Rest, Typed
  <2> QED
    BY <1>1, <2>1, <2>2 DEF OneAtATime, Idling, next
<1>10. Walking(q)'
  BY <1>1 DEF Walking
<1> QED
  BY <1>1, <1>5, <1>6, <1>8, <1>9, <1>10, SoftKeeps DEF Holds

(* The callback wakes the queue of the first entry, still linked.          *)
LEMMA CallbackHolds ==
  ASSUME Typed, Split, NEW q \in Seq(Node), Holds(q), Callback
  PROVE  Typed' /\ Split' /\ Holds(q)'
<1>1. /\ UNCHANGED <<list, machine, ptr, busy, raced, oops>>
      /\ soft.step = "callback" /\ awake' = awake \cup {soft.item}
      /\ soft' = [soft EXCEPT !.step = "list_del"]
  BY DEF Callback
<1>2. list = "send_reply_list"
  BY <1>1 DEF Split, Typed
<1>3. Idling(RX) /\ q # <<>> /\ soft.item = q[1] /\ q[1] \in Node
  <2>1. Idling(RX) /\ q # <<>> /\ soft.item = q[1]
    BY <1>1 DEF Holds, Replying
  <2> QED
    BY <2>1, Shorter
<1>4. soft \in Softs
  BY DEF Typed, Softs
<1>5. soft' \in Softs /\ soft'.step = "list_del" /\ soft'.item = soft.item
  BY <1>1, <1>4 DEF Softs
<1>6. Typed'
  <2>1. awake' \in SUBSET Node
    BY <1>1, <1>3 DEF Typed
  <2> QED
    BY <1>1, <1>5, <2>1, SoftTyped
<1>7. Split'
  BY <1>1, <1>2, <1>5 DEF Split, Idling
<1>8. Replying(q)'
  BY <1>1, <1>3, <1>5 DEF Replying, Idling
<1>9. OneAtATime'
  <2> SUFFICES ASSUME machine = "up" PROVE OneAtATime'
    BY <1>1 DEF OneAtATime
  <2>1. soft # Rest
    BY <1>1 DEF Rest
  <2>2. \A n \in Node : Idling(n)
    BY <1>2, <2>1 DEF Holds, OneAtATime
  <2>3. \A n \in awake : next(n) = Null
    BY <1>1, <1>2 DEF Holds, OneAtATime
  <2>4. \A n \in awake' : n \in Node /\ (next(n) = Null \/ n = soft.item)
    BY <1>1, <1>3, <2>3 DEF Typed
  <2> QED
    BY <1>1, <1>5, <2>2, <2>4 DEF OneAtATime, Idling, next
<1>10. Walking(q)'
  BY <1>1, <1>2 DEF Walking
<1> QED
  BY <1>1, <1>6, <1>7, <1>8, <1>9, <1>10, SoftKeeps DEF Holds

-----------------------------------------------------------------------------
(* The walk.                                                               *)

(* Without reordering, the last handler points back to the head: the store *)
(* that links another one behind it is the last of its stores.             *)
LEMMA Rooted ==
  ASSUME Split, NEW q \in Seq(Node), Holds(q), q # <<>>,
         list = "msg_list", machine # "weak"
  PROVE  next(Final(q)) = Root
<1>1. CASE ~Owned(<<"next", Final(q)>>)
  BY <1>1 DEF Holds, Closed
<1>2. CASE Owned(<<"next", Final(q)>>)
  <2>1. PICK t \in Threads : <<"next", Final(q)>> \in busy[t].cells
    BY <1>2 DEF Owned
  <2>2. t \in Node /\ ~Idling(t)
    BY <2>1 DEF Split, Idling, Idle, Threads
  <2>3. PICK l \in Spots : Adding(t, l, q)
    BY <2>2 DEF Holds, Linking
  <2>4. St("next", l, t) \in Owed(t)
    <3>1. /\ busy[t].todo \in Seq(AddStores(t, l)) /\ busy[t].todo # <<>>
          /\ busy[t].todo[Len(busy[t].todo)] = St("next", l, t)
      BY <2>3 DEF Adding
    <3>2. Len(busy[t].todo) \in 1 .. Len(busy[t].todo)
      BY <3>1, LenProperties, EmptySeq
    <3> QED
      BY <3>1, <3>2 DEF Owed
  <2>5. l = Final(q) /\ ptr[<<"next", l>>] = Root
    BY <2>3, <2>4 DEF Adding, Half
  <2> QED
    BY <2>5 DEF next
<1> QED
  BY <1>1, <1>2

(* Where the pointers lead from the i-th handler.                          *)
LEMMA Onward ==
  ASSUME Split, NEW q \in Seq(Node), Holds(q), NEW i \in 1 .. Len(q),
         list = "msg_list", machine # "weak"
  PROVE  /\ q[i] \in Node
         /\ i = Len(q) => next(q[i]) = Root
         /\ i < Len(q) => next(q[i]) = q[i + 1] /\ q[i + 1] \in Node
<1>1. /\ Len(q) \in Nat /\ \A j \in 1 .. Len(q) : q[j] \in Node
      /\ q # <<>>
  BY LenProperties, EmptySeq, ElementOfSeq
<1>2. i = Len(q) => next(q[i]) = Root
  BY <1>1, Rooted DEF Final
<1>3. i < Len(q) => next(q[i]) = q[i + 1] /\ q[i + 1] \in Node
  <2>1. \A j \in 1 .. Len(q) - 1 : ptr[<<"next", q[j]>>] = q[j + 1]
    BY DEF Holds, Links
  <2>2. i < Len(q) => i \in 1 .. Len(q) - 1 /\ i + 1 \in 1 .. Len(q)
    BY <1>1
  <2> QED
    BY <1>1, <2>1, <2>2 DEF next
<1> QED
  BY <1>1, <1>2, <1>3

(* The walk begins at the first handler.                                   *)
LEMMA ProcessHolds ==
  ASSUME Typed, Split, NEW q \in Seq(Node), Holds(q), canguru_process_msg_list
  PROVE  Typed' /\ Split' /\ Holds(q)'
<1>1. PICK n \in Node :
        soft' = [step |-> "walk", item |-> next(Root), nxt |-> next(next(Root)),
                 wanted |-> n, before |-> n \in ToSet(Chain), calls |-> 0]
  BY DEF canguru_process_msg_list
<1>2. UNCHANGED <<list, machine, ptr, busy, awake, raced, oops>> /\ list = "msg_list"
  BY DEF canguru_process_msg_list
<1>3. Idling(RX)
  BY <1>2 DEF Split
<1>4. /\ soft'.step = "walk" /\ soft'.item = next(Root)
      /\ soft'.nxt = next(next(Root)) /\ soft'.wanted = n /\ soft'.calls = 0
      /\ soft'.before = (n \in ToSet(Chain))
  BY <1>1
<1>5. Chain = q
  BY ChainOfPtr, ChainIs DEF Holds
<1>6. soft'.before <=> \E j \in 1 .. Len(q) : q[j] = n
  <2>1. DOMAIN q = 1 .. Len(q)
    BY LenProperties
  <2>2. n \in ToSet(q) <=> \E j \in 1 .. Len(q) : q[j] = n
    BY <2>1 DEF ToSet
  <2>3. soft'.before <=> n \in ToSet(q)
    BY <1>4, <1>5, Zenon
  <2> QED
    BY <2>2, <2>3
<1>7. next(Root) = First(q) /\ First(q) \in Spots
  <2>1. ptr[<<"next", Root>>] = IF q = <<>> THEN Root ELSE q[1]
    BY DEF Holds, Links
  <2>2. q # <<>> => q[1] \in Node
    BY Shorter
  <2> QED
    BY <2>1, <2>2, Kinds DEF First, next
<1>8. soft' \in Softs
  <2>1. next(next(Root)) \in Ends
    BY <1>7 DEF Typed
  <2>2. (n \in ToSet(Chain)) \in BOOLEAN
    OBVIOUS
  <2> QED
    BY <1>1, <1>7, <2>1, <2>2, Kinds DEF Softs
<1>9. Typed'
  <2>1. awake' \in SUBSET Node
    BY <1>2 DEF Typed
  <2> QED
    BY <1>2, <1>8, <2>1, SoftTyped
<1>10. Split'
  BY <1>2, <1>3, <1>4 DEF Split, Idling
<1>11. Replying(q)' /\ OneAtATime'
  BY <1>2, <1>3, <1>4 DEF Replying, OneAtATime, Idling
<1>12. Walking(q)'
  <2> SUFFICES ASSUME machine # "weak" PROVE Walk(q, 1)'
    <3>1. 1 \in 1 .. Len(q) + 1
      BY LenProperties
    <3> QED
      BY <1>2, <3>1 DEF Walking
  <2>1. /\ Len(q) \in Nat /\ (q = <<>> <=> Len(q) = 0)
        /\ \A j \in 1 .. 1 - 1 : FALSE
    BY LenProperties, EmptySeq
  <2>2. CASE q = <<>>
    <3>1. \A j \in 1 .. Len(q) : FALSE
      BY <2>1, <2>2
    <3>2. soft'.item = Root /\ ~soft'.before
      BY <1>4, <1>6, <1>7, <2>2, <3>1 DEF First
    <3> QED
      BY <1>4, <2>1, <2>2, <3>2 DEF Walk
  <2>3. CASE q # <<>>
    <3>1. 1 \in 1 .. Len(q) /\ 1 <= Len(q) /\ 1 \in 1 .. Len(q) + 1
          /\ (1 < Len(q) \/ 1 = Len(q))
      BY <2>1, <2>3
    <3>2. soft'.item = q[1] /\ soft'.nxt = next(q[1])
      BY <1>4, <1>7, <2>3 DEF First
    <3>3. /\ q[1] \in Node
          /\ 1 = Len(q) => next(q[1]) = Root
          /\ 1 < Len(q) => next(q[1]) = q[1 + 1] /\ q[1 + 1] \in Node
      BY <1>2, <3>1, Onward
    <3>4. soft'.nxt = Root \/ (1 < Len(q) /\ soft'.nxt = q[1 + 1])
      BY <3>1, <3>2, <3>3
    <3>5. soft'.before => /\ \E j \in 1 .. Len(q) : q[j] = soft'.wanted
                          /\ soft'.item # Root
                          /\ soft'.wanted = soft'.item \/ soft'.nxt # Root
      <4> SUFFICES ASSUME soft'.before
                   PROVE  /\ \E j \in 1 .. Len(q) : q[j] = soft'.wanted
                          /\ soft'.item # Root
                          /\ soft'.wanted = soft'.item \/ soft'.nxt # Root
        OBVIOUS
      <4>1. PICK j \in 1 .. Len(q) : q[j] = n
        BY <1>6
      <4>2. CASE 1 = Len(q)
        <5>1. \A x \in 1 .. 1 : x = 1
          OBVIOUS
        <5>2. j = 1
          BY <4>2, <5>1
        <5> QED
          BY <1>4, <3>2, <3>3, <4>1, <5>2, Kinds
      <4>3. CASE 1 < Len(q)
        BY <1>4, <3>2, <3>3, <4>1, <4>3, Kinds
      <4> QED
        BY <3>1, <4>2, <4>3
    <3> QED
      BY <1>4, <2>1, <3>1, <3>2, <3>4, <3>5 DEF Walk
  <2> QED
    BY <2>2, <2>3
<1> QED
  BY <1>2, <1>9, <1>10, <1>11, <1>12, SoftKeeps DEF Holds

(* A turn of the loop: the walk is one handler further, and has called it  *)
(* if it is the wanted one.                                                *)
LEMMA WalkOn ==
  ASSUME Typed, Split, NEW q \in Seq(Node), Holds(q), NEW i \in 1 .. Len(q) + 1, Walk(q, i),
         list = "msg_list", machine # "weak", soft.item # Root,
         NEW hit, hit = (soft.item = soft.wanted /\ ptr[<<"callback", soft.item>>] = Given),
         UNCHANGED <<list, machine, ptr, busy>>,
         soft' = [soft EXCEPT !.item = soft.nxt, !.nxt = next(soft.nxt),
                              !.calls = @ + IF hit THEN 1 ELSE 0]
  PROVE  i + 1 \in 1 .. Len(q) + 1 /\ Walk(q, i + 1)'
<1>1. /\ Len(q) \in Nat /\ \A j \in 1 .. Len(q) : q[j] \in Node
      /\ \A j, k \in 1 .. Len(q) : q[j] = q[k] => j = k
  BY LenProperties, ElementOfSeq, Distinct DEF Holds, Links
<1>2. /\ i \in 1 .. Len(q) /\ i + 1 \in 1 .. Len(q) + 1 /\ soft.item = q[i]
      /\ soft.nxt = Root \/ (i < Len(q) /\ soft.nxt = q[i + 1])
  BY <1>1 DEF Walk
<1>3. /\ soft'.item = soft.nxt /\ soft'.nxt = next(soft.nxt)
      /\ soft'.wanted = soft.wanted /\ soft'.before = soft.before
      /\ soft'.calls = soft.calls + IF hit THEN 1 ELSE 0
  BY DEF Typed
<1>4. hit = (q[i] = soft.wanted)
  <2>1. ptr[<<"callback", q[i]>>] = Given
    BY <1>2 DEF Holds, Filled
  <2> QED
    BY <1>2, <2>1
<1>5. \/ soft'.item = Root
      \/ /\ i + 1 <= Len(q) /\ soft'.item = q[i + 1]
         /\ soft'.nxt = Root \/ (i + 1 < Len(q) /\ soft'.nxt = q[i + 1 + 1])
  <2> SUFFICES ASSUME soft.nxt # Root
               PROVE  /\ i + 1 <= Len(q) /\ soft'.item = q[i + 1]
                      /\ soft'.nxt = Root \/ (i + 1 < Len(q) /\ soft'.nxt = q[i + 1 + 1])
    BY <1>3
  <2>1. i < Len(q) /\ soft.nxt = q[i + 1]
    BY <1>2
  <2>2. i + 1 \in 1 .. Len(q) /\ i + 1 <= Len(q) /\ (i + 1 = Len(q) \/ i + 1 < Len(q))
    BY <1>1, <1>2, <2>1
  <2>3. /\ i + 1 = Len(q) => next(q[i + 1]) = Root
        /\ i + 1 < Len(q) => next(q[i + 1]) = q[i + 1 + 1]
    BY <2>2, Onward
  <2> QED
    BY <1>3, <2>1, <2>2, <2>3
<1>6. soft'.calls = IF \E j \in 1 .. i + 1 - 1 : q[j] = soft'.wanted THEN 1 ELSE 0
  <2>1. /\ i + 1 - 1 = i /\ i \in 1 .. i
        /\ \A j \in 1 .. i : j \in 1 .. i - 1 \/ j = i
        /\ \A j \in 1 .. i - 1 : j \in 1 .. i /\ j \in 1 .. Len(q) /\ j # i
    BY <1>1, <1>2
  <2>2. soft.calls = IF \E j \in 1 .. i - 1 : q[j] = soft.wanted THEN 1 ELSE 0
    BY DEF Walk
  <2>3. CASE hit
    <3>1. \A j \in 1 .. i - 1 : q[j] # soft.wanted
      <4>1. q[i] = soft.wanted
        BY <1>4, <2>3
      <4>2. \A j \in 1 .. i - 1 : q[j] # q[i]
        BY <1>1, <1>2, <2>1
      <4> QED
        BY <4>1, <4>2
    <3>2. soft'.calls = 1
      BY <1>3, <2>2, <2>3, <3>1
    <3> QED
      BY <1>3, <1>4, <2>1, <2>3, <3>2
  <2>4. CASE ~hit
    <3>1. soft'.calls = soft.calls
      BY <1>3, <2>2, <2>4
    <3>2. (\E j \in 1 .. i : q[j] = soft.wanted) <=> \E j \in 1 .. i - 1 : q[j] = soft.wanted
      BY <1>4, <2>1, <2>4
    <3> QED
      BY <1>3, <2>1, <2>2, <3>1, <3>2
  <2> QED
    BY <1>4, <2>3, <2>4
<1>7. soft'.before /\ (\A j \in 1 .. i + 1 - 1 : q[j] # soft'.wanted) =>
        /\ \E j \in 1 .. Len(q) : q[j] = soft'.wanted
        /\ soft'.item # Root
        /\ soft'.wanted = soft'.item \/ soft'.nxt # Root
  <2>1. i + 1 - 1 = i
    BY <1>2
  <2> SUFFICES ASSUME soft.before, \A j \in 1 .. i : q[j] # soft.wanted
               PROVE  /\ \E j \in 1 .. Len(q) : q[j] = soft.wanted
                      /\ soft.nxt # Root
                      /\ soft.wanted = soft.nxt \/ next(soft.nxt) # Root
    BY <1>3, <2>1
  <2>2. /\ \A j \in 1 .. i - 1 : q[j] # soft.wanted
        /\ q[i] # soft.wanted
    BY <1>2
  <2>3. /\ \E j \in 1 .. Len(q) : q[j] = soft.wanted
        /\ soft.nxt # Root
    BY <1>2, <2>2 DEF Walk
  <2>4. PICK j \in 1 .. Len(q) : q[j] = soft.wanted
    BY <2>3
  <2>5. i < Len(q) /\ soft.nxt = q[i + 1] /\ i + 1 \in 1 .. Len(q)
    BY <1>1, <1>2, <2>3
  <2>6. CASE i + 1 = Len(q)
    <3>1. j = i + 1
      BY <1>1, <1>2, <2>4, <2>6
    <3> QED
      BY <2>3, <2>4, <2>5, <3>1
  <2>7. CASE i + 1 < Len(q)
    <3>1. next(q[i + 1]) \in Node
      BY <2>5, <2>7, Onward
    <3> QED
      BY <2>3, <2>5, <3>1, Kinds
  <2>8. i + 1 = Len(q) \/ i + 1 < Len(q)
    BY <1>1, <1>2, <2>5
  <2> QED
    BY <2>6, <2>7, <2>8
<1> QED
  BY <1>2, <1>5, <1>6, <1>7 DEF Walk

(* A turn of the loop keeps the list, and follows no NULL pointer.         *)
LEMMA WalkItemHolds ==
  ASSUME Typed, Split, NEW q \in Seq(Node), Holds(q), WalkItem
  PROVE  Typed' /\ Split' /\ Holds(q)'
<1> DEFINE hit == soft.item = soft.wanted /\ ptr[<<"callback", soft.item>>] = Given
<1>1. /\ UNCHANGED <<list, machine, ptr, busy, awake, raced>>
      /\ soft.step = "walk" /\ soft.item # Root
      /\ \/ /\ soft.nxt # Null
            /\ soft' = [soft EXCEPT !.item = soft.nxt, !.nxt = next(soft.nxt),
                                    !.calls = @ + IF hit THEN 1 ELSE 0]
            /\ UNCHANGED oops
         \/ soft.nxt = Null /\ oops' = TRUE /\ UNCHANGED soft
  BY DEF WalkItem
<1>2. list = "msg_list" /\ Idling(RX)
  BY <1>1 DEF Split, Typed
<1>3. machine # "weak" => \E i \in 1 .. Len(q) + 1 : Walk(q, i)
  BY <1>1, <1>2 DEF Holds, Walking
<1>4. soft \in Softs /\ soft.nxt \in Ends
  BY DEF Typed, Softs
<1>5. machine # "weak" => soft.nxt # Null
  <2> SUFFICES ASSUME machine # "weak" PROVE soft.nxt # Null
    OBVIOUS
  <2>1. PICK i \in 1 .. Len(q) + 1 : Walk(q, i)
    BY <1>3
  <2>2. soft.nxt = Root \/ (i < Len(q) /\ soft.nxt = q[i + 1])
    BY <1>1, <2>1 DEF Walk
  <2>3. i < Len(q) => i + 1 \in 1 .. Len(q) /\ q[i + 1] \in Node
    BY LenProperties, ElementOfSeq
  <2> QED
    BY <2>2, <2>3, Names
<1>6. soft' \in Softs /\ soft'.step = "walk"
  <2>1. CASE soft.nxt = Null
    BY <1>1, <1>4, <2>1
  <2>2. CASE soft.nxt # Null
    <3>1. soft.nxt \in Spots
      BY <1>4, <2>2 DEF Ends
    <3>2. next(soft.nxt) \in Ends
      BY <3>1 DEF Typed
    <3>3. PICK c : c = soft.calls + IF hit THEN 1 ELSE 0
      OBVIOUS
    <3>4. c \in Nat
      BY <1>4, <3>3 DEF Softs
    <3>5. soft' = [soft EXCEPT !.item = soft.nxt, !.nxt = next(soft.nxt), !.calls = c]
      BY <1>1, <2>2, <3>3
    <3> HIDE DEF hit
    <3> QED
      BY <1>1, <1>4, <3>1, <3>2, <3>4, <3>5 DEF Softs
  <2> QED
    BY <2>1, <2>2
<1>7. Typed'
  <2>1. awake' \in SUBSET Node
    BY <1>1 DEF Typed
  <2> QED
    BY <1>1, <1>6, <2>1, SoftTyped
<1>8. Split'
  BY <1>1, <1>2, <1>5, <1>6 DEF Split, Idling
<1>9. Replying(q)' /\ OneAtATime'
  BY <1>1, <1>2, <1>6 DEF Replying, OneAtATime, Idling
<1>10. Walking(q)'
  <2> SUFFICES ASSUME machine # "weak" PROVE \E i \in 1 .. Len(q) + 1 : Walk(q, i)'
    BY <1>1 DEF Walking
  <2>1. PICK i \in 1 .. Len(q) + 1 : Walk(q, i)
    BY <1>3
  <2>2. soft' = [soft EXCEPT !.item = soft.nxt, !.nxt = next(soft.nxt),
                             !.calls = @ + IF hit THEN 1 ELSE 0]
    BY <1>1, <1>5
  <2>3. i + 1 \in 1 .. Len(q) + 1 /\ Walk(q, i + 1)'
    BY <1>1, <1>2, <2>1, <2>2, WalkOn
  <2> QED
    BY <2>3
<1> QED
  BY <1>1, <1>7, <1>8, <1>9, <1>10, SoftKeeps DEF Holds

(* The walk is over at the head.                                           *)
LEMMA WalkEndHolds ==
  ASSUME Typed, Split, NEW q \in Seq(Node), Holds(q), WalkEnd
  PROVE  Typed' /\ Split' /\ Holds(q)'
<1>1. /\ UNCHANGED <<list, machine, ptr, busy, awake, raced, oops>>
      /\ soft.step = "walk" /\ soft' = Rest
  BY DEF WalkEnd
<1>2. list = "msg_list" /\ Idling(RX)
  BY <1>1 DEF Split, Typed
<1>3. soft' \in Softs /\ soft'.step = "idle"
  BY <1>1, Kinds DEF Softs, Rest
<1>4. Typed'
  <2>1. awake' \in SUBSET Node
    BY <1>1 DEF Typed
  <2> QED
    BY <1>1, <1>3, <2>1, SoftTyped
<1>5. Split'
  BY <1>1, <1>2, <1>3 DEF Split, Idling
<1>6. Replying(q)' /\ OneAtATime' /\ Walking(q)'
  BY <1>1, <1>2, <1>3 DEF Replying, OneAtATime, Walking, Idling
<1> QED
  BY <1>1, <1>4, <1>5, <1>6, SoftKeeps DEF Holds

-----------------------------------------------------------------------------
(* Every step.                                                             *)

(* What a step makes of the list.                                          *)
Follows(q, qq) ==
  \/ qq = q
  \/ \E n \in Node : qq = Append(q, n) /\ \A j \in 1 .. Len(q) : q[j] # n
  \/ q # <<>> /\ qq = Tail(q)

(* Nobody races, and the list holds what it held but for one entry; or two *)
(* contexts that run at the same time race.                                *)
Kept(q) ==
  /\ Split' /\ machine' = machine
  /\ \/ ~raced' /\ Typed' /\ \E qq \in Seq(Node) : Holds(qq)' /\ Follows(q, qq)
     \/ raced' /\ machine # "up" /\ ptr' = ptr

(* Beginning an operation keeps the list, or races.                        *)
LEMMA BeginKeeps ==
  ASSUME Typed, Split, ~raced, NEW q \in Seq(Node), Holds(q),
         (\E n \in Node : wait_send_reply(n) \/ guru_add_msg(n)) \/ Unlink
  PROVE  Kept(q)
<1>1. CASE \E n \in Node : wait_send_reply(n) \/ guru_add_msg(n)
  <2>1. PICK n \in Node : Starts(n)
    BY <1>1, Starting
  <2>2. UNCHANGED <<ptr, list, machine, soft, oops>>
    BY <2>1 DEF Starts
  <2>3. raced' => list = "send_reply_list" /\ machine # "up"
    BY <2>1, StartsAlone DEF Typed
  <2>4. Split'
    <3>1. Idling(RX) => Idling(RX)'
      BY <2>1, Kinds DEF Starts, Begin, Idling, Typed
    <3> QED
      BY <2>2, <2>3, <3>1, Kinds DEF Split
  <2>5. ~raced' => Typed' /\ Holds(q)'
    BY <2>1, StartHolds
  <2> QED
    BY <2>2, <2>3, <2>4, <2>5 DEF Kept, Follows
<1>2. CASE Unlink
  <2>1. UNCHANGED <<list, machine, ptr, awake, soft, oops>> /\ list = "send_reply_list"
    BY <1>2 DEF Unlink, Split, Typed
  <2>2. raced' => machine # "up"
    BY <1>2, UnlinkAlone
  <2>3. Split'
    BY <2>1 DEF Split
  <2>4. ~raced' => Typed' /\ Holds(q)'
    BY <1>2, UnlinkHolds
  <2> QED
    BY <2>1, <2>2, <2>3, <2>4 DEF Kept, Follows
<1> QED
  BY <1>1, <1>2

(* Every step keeps the list, or races.                                    *)
LEMMA NextKeeps ==
  ASSUME Typed, Split, ~raced, NEW q \in Seq(Node), Holds(q), Next
  PROVE  Kept(q)
<1>1. ASSUME NEW t \in Threads, Store(t) PROVE Kept(q)
  <2>1. machine' = machine
    BY <1>1 DEF Store
  <2>2. CASE t = RX
    <3>1. /\ Typed' /\ Split' /\ ~raced'
          /\ \E qq \in Seq(Node) : Holds(qq)' /\ (qq = q \/ (q # <<>> /\ qq = Tail(q)))
      BY <1>1, <2>2, DeleteStep
    <3> QED
      BY <2>1, <3>1 DEF Kept, Follows
  <2>3. CASE t \in Node
    <3>1. /\ Typed' /\ Split' /\ ~raced'
          /\ \E qq \in Seq(Node) :
               /\ Holds(qq)'
               /\ qq = q \/ (qq = Append(q, t) /\ \A j \in 1 .. Len(q) : q[j] # t)
      BY <1>1, <2>3, AddStep
    <3> QED
      BY <2>1, <2>3, <3>1 DEF Kept, Follows
  <2> QED
    BY <2>2, <2>3 DEF Threads
<1>2. ASSUME send_callback \/ Callback \/ canguru_process_msg_list \/ WalkItem \/ WalkEnd
      PROVE  Kept(q)
  <2>1. machine' = machine /\ raced' = raced
    BY <1>2 DEF send_callback, Callback, canguru_process_msg_list, WalkItem, WalkEnd
  <2>2. Typed' /\ Split' /\ Holds(q)'
    BY <1>2, SendCallbackHolds, CallbackHolds, ProcessHolds, WalkItemHolds, WalkEndHolds
  <2> QED
    BY <2>1, <2>2 DEF Kept, Follows
<1> QED
  BY <1>1, <1>2, BeginKeeps DEF Next

(* The pointers of the two lists always link their entries, with every     *)
(* operation under way somewhere between its stores, until two contexts    *)
(* use the same pointer at the same time.                                  *)
THEOREM Inductive == Spec => []IInv
<1>1. Init => IInv
  <2>1. <<>> \in Seq(Node)
    OBVIOUS
  <2> QED
    BY <2>1, InitHolds DEF IInv
<1>2. IInv /\ [Next]_vars => IInv'
  <2> SUFFICES ASSUME IInv, [Next]_vars PROVE IInv'
    OBVIOUS
  <2>1. CASE UNCHANGED vars
    <3>1. UNCHANGED <<list, machine, ptr, busy, awake, soft, raced, oops>>
      BY <2>1 DEF vars
    <3>2. Split' /\ (Typed => Typed')
      BY <3>1 DEF IInv, Split, Typed, Idling, next, prev
    <3>3. ASSUME NEW q \in Seq(Node), Holds(q) PROVE Holds(q)'
      <4>1. Links(ptr, q)' /\ Closed(q)' /\ Disjoint' /\ Linking(q)' /\ Filled(q)'
        BY <3>1, <3>3, SoftKeeps
      <4>2. OneAtATime' /\ Walking(q)'
        BY <3>1, <3>3 DEF Holds, OneAtATime, Idling, next, Walking, Walk
      <4>3. \A d, e : Deleting(d, e, q) => Deleting(d, e, q)'
        BY <3>1 DEF Deleting, prev, next
      <4>4. Replying(q)'
        BY <3>1, <3>3, <4>3 DEF Holds, Replying, Idling
      <4> QED
        BY <4>1, <4>2, <4>4 DEF Holds
    <3> QED
      BY <3>1, <3>2, <3>3 DEF IInv
  <2>2. CASE Next
    <3>1. Split /\ Typed /\ ~raced
      BY <2>2 DEF IInv, Next
    <3>2. PICK q \in Seq(Node) : Holds(q)
      BY <3>1 DEF IInv
    <3>3. Kept(q)
      BY <2>2, <3>1, <3>2, NextKeeps
    <3> QED
      BY <3>3 DEF Kept, IInv
  <2> QED
    BY <2>1, <2>2
<1> QED
  BY <1>1, <1>2, PTL DEF Spec

(* A handler that msg_list held when the walk for its message began is     *)
(* called once, and no NULL pointer is followed, whatever the probe links  *)
(* meanwhile.                                                              *)
THEOREM EachCalledOnce == Spec => []CalledOnce
<1>1. IInv => CalledOnce
  <2> SUFFICES ASSUME IInv, machine # "weak"
               PROVE  /\ ~oops
                      /\ soft.step = "walk" /\ soft.item = Root =>
                           soft.calls \in IF soft.before THEN {1} ELSE {0, 1}
    BY DEF CalledOnce
  <2>1. ~oops
    BY DEF IInv, Split
  <2>2. ASSUME soft.step = "walk", soft.item = Root
        PROVE  soft.calls \in IF soft.before THEN {1} ELSE {0, 1}
    <3>1. ~raced /\ Typed /\ list = "msg_list"
      BY <2>2 DEF IInv, Split, Typed
    <3>2. PICK q \in Seq(Node) : Holds(q)
      BY <3>1 DEF IInv
    <3>3. PICK i \in 1 .. Len(q) + 1 : Walk(q, i)
      BY <2>2, <3>1, <3>2 DEF Holds, Walking
    <3>4. soft.before => \E j \in 1 .. i - 1 : q[j] = soft.wanted
      BY <2>2, <3>3 DEF Walk
    <3>5. soft.calls = IF \E j \in 1 .. i - 1 : q[j] = soft.wanted THEN 1 ELSE 0
      BY <3>3 DEF Walk
    <3> QED
      BY <3>4, <3>5
  <2> QED
    BY <2>1, <2>2
<1> QED
  BY <1>1, Inductive, PTL

-----------------------------------------------------------------------------
(* The refinement.                                                         *)

(* Empty lists are an empty queue.                                         *)
LEMMA MapsInit == Init => Queue!Init
<1> SUFFICES ASSUME Init PROVE Queue!Init
  OBVIOUS
<1>1. Links(ptr, <<>>) /\ ~raced
  BY InitHolds DEF Holds
<1>2. Chain = <<>>
  BY <1>1, ChainOfPtr, ChainIs
<1> QED
  BY <1>1, <1>2 DEF Queue!Init

(* Every step is a step of the queue, or leaves it alone.                  *)
LEMMA MapsNext ==
  ASSUME IInv, [Next]_vars
  PROVE  [Queue!Next]_Queue!vars
<1>1. CASE UNCHANGED vars
  <2>1. Chain' = Chain
    BY <1>1, ChainOfPtr DEF vars
  <2> QED
    BY <1>1, <2>1 DEF vars, Queue!vars
<1>2. CASE Next
  <2>1. Split /\ Typed /\ ~raced
    BY <1>2 DEF IInv, Next
  <2>2. PICK q \in Seq(Node) : Holds(q)
    BY <2>1 DEF IInv
  <2>3. Kept(q)
    BY <1>2, <2>1, <2>2, NextKeeps
  <2>4. Chain = q
    BY <2>2, ChainOfPtr, ChainIs DEF Holds
  <2>5. CASE ~raced'
    <3>1. PICK qq \in Seq(Node) : Holds(qq)' /\ Follows(q, qq)
      BY <2>3, <2>5 DEF Kept
    <3>2. Chain' = qq
      <4>1. Links(ptr', qq)
        BY <3>1 DEF Holds, Links
      <4> QED
        BY <4>1, ChainOfPtr, ChainIs
    <3>3. (~raced)' = ~raced /\ (machine # "up")' = (machine # "up")
      BY <2>1, <2>3, <2>5 DEF Kept
    <3>4. CASE qq = q
      BY <2>4, <3>2, <3>3, <3>4 DEF Queue!vars
    <3>5. CASE \E n \in Node : qq = Append(q, n) /\ \A j \in 1 .. Len(q) : q[j] # n
      <4>1. PICK n \in Node : qq = Append(q, n) /\ \A j \in 1 .. Len(q) : q[j] # n
        BY <3>5
      <4>2. n \notin Queue!ToSet(q)
        BY <4>1, LenProperties DEF Queue!ToSet
      <4>3. Queue!Wait(n)
        BY <2>1, <2>4, <3>2, <3>3, <4>1, <4>2 DEF Queue!Wait
      <4> QED
        BY <4>3 DEF Queue!Next
    <3>6. CASE q # <<>> /\ qq = Tail(q)
      <4>1. Queue!Take
        BY <2>1, <2>4, <3>2, <3>3, <3>6 DEF Queue!Take
      <4> QED
        BY <4>1 DEF Queue!Next
    <3> QED
      BY <3>1, <3>4, <3>5, <3>6 DEF Follows
  <2>6. CASE raced'
    <3>1. machine # "up" /\ machine' = machine /\ ptr' = ptr
      BY <2>3, <2>6 DEF Kept
    <3>2. Chain' = Chain
      BY <3>1, ChainOfPtr
    <3>3. Queue!Race
      BY <2>1, <2>6, <3>1, <3>2 DEF Queue!Race
    <3> QED
      BY <3>3 DEF Queue!Next
  <2> QED
    BY <2>5, <2>6
<1> QED
  BY <1>1, <1>2

(* send_reply_list and msg_list are queues, whichever of their stores are  *)
(* seen and in whatever order, until two operations use the same pointer   *)
(* at the same time, which on one processor they never do.                 *)
THEOREM ListsAreQueues == Spec => IsQueue
<1>1. Init => Queue!Init
  BY MapsInit
<1>2. IInv /\ [Next]_vars => [Queue!Next]_Queue!vars
  BY MapsNext
<1> QED
  BY <1>1, <1>2, Inductive, PTL DEF Spec, IsQueue, Queue!Spec

=============================================================================
