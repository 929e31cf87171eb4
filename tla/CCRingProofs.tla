---------------------------- MODULE CCRingProofs ----------------------------
(***************************************************************************)
(* Theorems about CCRing, for any number of buckets, requests, rule edits  *)
(* and seconds: what the count of Incr contains and what it misses.        *)
(***************************************************************************)
EXTENDS CCRing, FiniteSetTheorems, WellFoundedInduction, TLAPS

-----------------------------------------------------------------------------
(* Induction, over sets that are variables of the lemma. *)

(* Induction over the naturals, for a set of them. *)
LEMMA NatInd ==
  ASSUME NEW T \in SUBSET Nat, 0 \in T, \A n \in T : n + 1 \in T
  PROVE  T = Nat
<1> SUFFICES ASSUME T # Nat PROVE FALSE  OBVIOUS
<1>1. Nat \ T # {} /\ Nat \ T \subseteq Nat  OBVIOUS
<1>2. PICK x \in Nat \ T : \A y \in Nat \ T : ~(<<y, x>> \in OpToRel(<, Nat))
  BY <1>1, NatLessThanWellFounded, WFMin
<1>3. \A y \in Nat \ T : ~(y < x)  BY <1>2 DEF OpToRel
<1>4. x # 0 /\ x - 1 \in Nat  OBVIOUS
<1>5. x - 1 \in T  BY <1>3, <1>4
<1> QED  BY <1>4, <1>5

(* Induction over the subsets of a finite set, for a set of them. *)
LEMMA SetInd ==
  ASSUME NEW U, IsFiniteSet(U), NEW P \in SUBSET SUBSET U,
         {} \in P, \A A \in P : \A x \in U \ A : A \cup {x} \in P
  PROVE  P = SUBSET U
<1> DEFINE T == {n \in Nat : \A A \in SUBSET U : Cardinality(A) = n => A \in P}
<1>0. \A A \in SUBSET U : IsFiniteSet(A) /\ Cardinality(A) \in Nat  BY FS_Subset, FS_CardinalityType
<1>1. 0 \in T  BY <1>0, FS_EmptySet
<1>2. ASSUME NEW n \in T PROVE n + 1 \in T
  <2> SUFFICES ASSUME NEW A \in SUBSET U, Cardinality(A) = n + 1 PROVE A \in P  OBVIOUS
  <2>0. n \in Nat /\ n + 1 # 0  OBVIOUS
  <2>1. A # {}  BY <2>0, FS_EmptySet
  <2>2. PICK x \in A : TRUE  BY <2>1
  <2>3. Cardinality(A \ {x}) = n
    <3>1. IsFiniteSet(A)  BY <1>0
    <3> HIDE DEF T
    <3>2. Cardinality(A \ {x}) = Cardinality(A) - 1  BY <3>1, FS_RemoveElement
    <3> QED  BY <2>0, <3>2
  <2>4. A \ {x} \in P  BY <2>3
  <2>5. A = (A \ {x}) \cup {x}  OBVIOUS
  <2> QED  BY <2>4, <2>5
<1> HIDE DEF T
<1>3. T = Nat
  <2>1. T \in SUBSET Nat  BY DEF T
  <2> QED  BY <1>1, <1>2, <2>1, NatInd
<1>4. ASSUME NEW A \in SUBSET U PROVE A \in P
  <2>1. Cardinality(A) \in T  BY <1>0, <1>3
  <2> QED  BY <2>1 DEF T
<1> QED  BY <1>4

-----------------------------------------------------------------------------
(* Sums: what Total and HitsIn compute *)

(* The sum of a function over a set, and the recursive function behind it. *)
SumOf(f, A)  == MapThenSumSet(LAMBDA i : f[i], A)
Pick(s)      == CHOOSE x \in s : TRUE
Unfold(g, f, s) == IF s = {} THEN 0 ELSE f[Pick(s)] + g[s \ {Pick(s)}]
Sums(g, f, A)   == g = [s \in SUBSET A |-> Unfold(g, f, s)]

(* CHOOSE finds an element of a set that has one. *)
LEMMA PickIn == ASSUME NEW s, s # {} PROVE Pick(s) \in s  BY DEF Pick

(* A sum is the value of the recursive function that the fold chooses. *)
LEMMA SumIs ==
  ASSUME NEW f, NEW A
  PROVE  SumOf(f, A) = (CHOOSE g : Sums(g, f, A))[A]
  BY DEF SumOf, MapThenSumSet, MapThenFoldSet, Sums, Unfold, Pick

(* The recursive function exists. *)
LEMMA SumsExists ==
  ASSUME NEW f, NEW A, IsFiniteSet(A), \A x \in A : f[x] \in Nat
  PROVE  \E g \in [SUBSET A -> Nat] : Sums(g, f, A)
<1> DEFINE G == [SUBSET A -> Nat]
           Upto(g, n) == \A s \in SUBSET A : Cardinality(s) <= n => g[s] = Unfold(g, f, s)
           T == {n \in Nat : \E g \in G : Upto(g, n)}
<1>0. \A s \in SUBSET A : IsFiniteSet(s) /\ Cardinality(s) \in Nat  BY FS_Subset, FS_CardinalityType
<1>a. ASSUME NEW g \in G, NEW s \in SUBSET A PROVE Unfold(g, f, s) \in Nat
  BY PickIn DEF Unfold
<1>1. 0 \in T
  <2> DEFINE g0 == [s \in SUBSET A |-> 0]
  <2>1. g0 \in G  OBVIOUS
  <2>2. ASSUME NEW s \in SUBSET A, Cardinality(s) <= 0 PROVE g0[s] = Unfold(g0, f, s)
    <3>1. s = {}  BY <1>0, <2>2, FS_EmptySet
    <3> QED  BY <3>1 DEF Unfold
  <2> HIDE DEF g0
  <2> QED  BY <2>1, <2>2
<1>2. ASSUME NEW n \in T PROVE n + 1 \in T
  <2>1. PICK g \in G : Upto(g, n)  OBVIOUS
  <2> DEFINE h == [s \in SUBSET A |-> Unfold(g, f, s)]
  <2>2. h \in G  BY <1>a
  <2>3. ASSUME NEW s \in SUBSET A, Cardinality(s) <= n + 1 PROVE h[s] = Unfold(h, f, s)
    <3>1. CASE s = {}  BY <3>1 DEF Unfold
    <3>2. CASE s # {}
      <4> DEFINE r == s \ {Pick(s)}
      <4>1. r \in SUBSET A /\ Cardinality(r) <= n
        BY <1>0, <2>3, <3>2, PickIn, FS_RemoveElement
      <4>2. h[r] = g[r]  BY <2>1, <4>1
      <4>3. h[s] = f[Pick(s)] + g[r]  BY <3>2 DEF Unfold
      <4> HIDE DEF h
      <4> QED  BY <3>2, <4>2, <4>3 DEF Unfold
    <3> QED  BY <3>1, <3>2
  <2> HIDE DEF h
  <2> QED  BY <2>2, <2>3
<1> HIDE DEF T
<1>3. T = Nat
  <2>1. T \in SUBSET Nat  BY DEF T
  <2> QED  BY <1>1, <1>2, <2>1, NatInd
<1>4. PICK g \in G : Upto(g, Cardinality(A))
  <2>1. Cardinality(A) \in T  BY <1>3, FS_CardinalityType
  <2> QED  BY <2>1 DEF T
<1>5. \A s \in SUBSET A : g[s] = Unfold(g, f, s)  BY <1>0, <1>4, FS_Subset, FS_CardinalityType
<1>6. g = [s \in SUBSET A |-> Unfold(g, f, s)]  BY <1>5
<1> QED  BY <1>6 DEF Sums

(* It is the same function, whatever set it is defined for. *)
LEMMA SumsAgree ==
  ASSUME NEW f, NEW A, IsFiniteSet(A), NEW B \in SUBSET A, NEW g, NEW h, Sums(g, f, A), Sums(h, f, B)
  PROVE  \A s \in SUBSET B : g[s] = h[s]
<1> DEFINE T == {n \in Nat : \A s \in SUBSET B : Cardinality(s) = n => g[s] = h[s]}
<1>0. \A s \in SUBSET A : IsFiniteSet(s) /\ Cardinality(s) \in Nat  BY FS_Subset, FS_CardinalityType
<1>a. \A s \in SUBSET B : g[s] = Unfold(g, f, s) /\ h[s] = Unfold(h, f, s)
  <2>1. \A s \in SUBSET A : g[s] = Unfold(g, f, s)  BY DEF Sums
  <2>2. \A s \in SUBSET B : h[s] = Unfold(h, f, s)  BY DEF Sums
  <2> QED  BY <2>1, <2>2
<1>1. 0 \in T
  <2> SUFFICES ASSUME NEW s \in SUBSET B, Cardinality(s) = 0 PROVE g[s] = h[s]  OBVIOUS
  <2>1. s = {}  BY <1>0, FS_EmptySet
  <2> QED  BY <1>a, <2>1 DEF Unfold
<1>2. ASSUME NEW n \in T PROVE n + 1 \in T
  <2> SUFFICES ASSUME NEW s \in SUBSET B, Cardinality(s) = n + 1 PROVE g[s] = h[s]  OBVIOUS
  <2>1. s # {}  BY FS_EmptySet
  <2> DEFINE r == s \ {Pick(s)}
  <2>2. r \in SUBSET B /\ Cardinality(r) = n  BY <1>0, <2>1, PickIn, FS_RemoveElement
  <2>3. g[r] = h[r]  BY <2>2
  <2> QED  BY <1>a, <2>1, <2>3 DEF Unfold
<1> HIDE DEF T
<1>3. T = Nat
  <2>1. T \in SUBSET Nat  BY DEF T
  <2> QED  BY <1>1, <1>2, <2>1, NatInd
<1>4. ASSUME NEW s \in SUBSET B PROVE g[s] = h[s]
  <2>1. Cardinality(s) \in T  BY <1>0, <1>3
  <2> QED  BY <2>1 DEF T
<1> QED  BY <1>4

(* Hence a sum is the first summand and the sum of the others. *)
LEMMA SumFirst ==
  ASSUME NEW f, NEW A, IsFiniteSet(A), \A x \in A : f[x] \in Nat
  PROVE  /\ SumOf(f, A) \in Nat
         /\ A = {} => SumOf(f, A) = 0
         /\ A # {} => SumOf(f, A) = f[Pick(A)] + SumOf(f, A \ {Pick(A)})
<1> DEFINE g == CHOOSE g : Sums(g, f, A)
           B == A \ {Pick(A)}
           h == CHOOSE h : Sums(h, f, B)
<1>1. Sums(g, f, A) /\ \E k \in [SUBSET A -> Nat] : Sums(k, f, A)  BY SumsExists
<1>2. IsFiniteSet(B) /\ B \in SUBSET A  BY FS_Subset
<1>3. Sums(h, f, B)
  <2>1. \E k \in [SUBSET B -> Nat] : Sums(k, f, B)  BY <1>2, SumsExists
  <2> QED  BY <2>1
<1>4. SumOf(f, A) = g[A] /\ SumOf(f, B) = h[B]  BY SumIs
<1> HIDE DEF g, h
<1>5. g[A] \in Nat
  <2>1. PICK k \in [SUBSET A -> Nat] : Sums(k, f, A)  BY <1>1
  <2>2. g[A] = k[A]  BY <1>1, <2>1, SumsAgree
  <2> QED  BY <2>1, <2>2
<1>6. g[A] = Unfold(g, f, A)  BY <1>1 DEF Sums
<1>7. g[B] = h[B]
  <2>1. B \in SUBSET B  OBVIOUS
  <2> HIDE DEF B
  <2>2. \A s \in SUBSET B : g[s] = h[s]  BY <1>1, <1>2, <1>3, SumsAgree
  <2> QED  BY <2>1, <2>2
<1> QED  BY <1>4, <1>5, <1>6, <1>7 DEF Unfold

(* Any summand may be the first one. *)
LEMMA SumSplit ==
  ASSUME NEW f, NEW U, IsFiniteSet(U), \A x \in U : f[x] \in Nat
  PROVE  \A A \in SUBSET U : \A x \in A : SumOf(f, A) = f[x] + SumOf(f, A \ {x})
<1> DEFINE T == {n \in Nat : \A A \in SUBSET U : Cardinality(A) = n =>
                              \A x \in A : SumOf(f, A) = f[x] + SumOf(f, A \ {x})}
<1>0. \A A \in SUBSET U : IsFiniteSet(A) /\ Cardinality(A) \in Nat  BY FS_Subset, FS_CardinalityType
<1>a. ASSUME NEW A \in SUBSET U
      PROVE  SumOf(f, A) \in Nat /\ (A # {} => SumOf(f, A) = f[Pick(A)] + SumOf(f, A \ {Pick(A)}))
  BY <1>0, SumFirst
<1>1. 0 \in T  BY <1>0, FS_EmptySet
<1>2. ASSUME NEW n \in T PROVE n + 1 \in T
  <2> SUFFICES ASSUME NEW A \in SUBSET U, Cardinality(A) = n + 1, NEW x \in A
               PROVE  SumOf(f, A) = f[x] + SumOf(f, A \ {x})
    OBVIOUS
  <2> DEFINE c == Pick(A)
  <2>1. c \in A /\ SumOf(f, A) = f[c] + SumOf(f, A \ {c})  BY <1>a, PickIn
  <2>2. CASE x = c  BY <2>1, <2>2
  <2>3. CASE x # c
    <3> HIDE DEF c
    <3>0. n \in Nat  OBVIOUS
    <3>1. Cardinality(A \ {c}) = n /\ Cardinality(A \ {x}) = n
      <4>1. IsFiniteSet(A)  BY <1>0
      <4> HIDE DEF T
      <4>2. Cardinality(A \ {c}) = Cardinality(A) - 1  BY <2>1, <4>1, FS_RemoveElement
      <4>3. Cardinality(A \ {x}) = Cardinality(A) - 1  BY <4>1, FS_RemoveElement
      <4> QED  BY <3>0, <4>2, <4>3
    <3>2. SumOf(f, A \ {c}) = f[x] + SumOf(f, (A \ {c}) \ {x})
      <4>1. A \ {c} \in SUBSET U /\ x \in A \ {c}  BY <2>3
      <4> QED  BY <3>1, <4>1
    <3>3. SumOf(f, A \ {x}) = f[c] + SumOf(f, (A \ {x}) \ {c})
      <4>1. A \ {x} \in SUBSET U /\ c \in A \ {x}  BY <2>1, <2>3
      <4> QED  BY <3>1, <4>1
    <3>4. (A \ {c}) \ {x} = (A \ {x}) \ {c}  OBVIOUS
    <3>5. f[x] \in Nat /\ f[c] \in Nat /\ SumOf(f, (A \ {x}) \ {c}) \in Nat
      <4>1. (A \ {x}) \ {c} \in SUBSET U  OBVIOUS
      <4> QED  BY <1>a, <2>1, <4>1
    <3> HIDE DEF T
    <3> QED  BY <2>1, <3>2, <3>3, <3>4, <3>5
  <2> QED  BY <2>2, <2>3
<1> HIDE DEF T
<1>3. T = Nat
  <2>1. T \in SUBSET Nat  BY DEF T
  <2> QED  BY <1>1, <1>2, <2>1, NatInd
<1>4. ASSUME NEW A \in SUBSET U PROVE \A x \in A : SumOf(f, A) = f[x] + SumOf(f, A \ {x})
  <2>1. Cardinality(A) \in T  BY <1>0, <1>3
  <2> QED  BY <2>1 DEF T
<1> QED  BY <1>4

(* What is used of sums: the empty one, one summand more, and their type. *)
LEMMA SumFacts ==
  ASSUME NEW f, NEW U, IsFiniteSet(U), \A x \in U : f[x] \in Nat
  PROVE  /\ SumOf(f, {}) = 0
         /\ \A A \in SUBSET U : SumOf(f, A) \in Nat
         /\ \A A \in SUBSET U : \A x \in U \ A : SumOf(f, A \cup {x}) = f[x] + SumOf(f, A)
<1>1. SumOf(f, {}) = 0  BY FS_EmptySet, SumFirst
<1>2. \A A \in SUBSET U : SumOf(f, A) \in Nat  BY FS_Subset, SumFirst
<1>3. ASSUME NEW A \in SUBSET U, NEW x \in U \ A
      PROVE  SumOf(f, A \cup {x}) = f[x] + SumOf(f, A)
  <2>1. A \cup {x} \in SUBSET U /\ x \in A \cup {x} /\ (A \cup {x}) \ {x} = A  OBVIOUS
  <2>2. SumOf(f, A \cup {x}) = f[x] + SumOf(f, (A \cup {x}) \ {x})  BY <2>1, SumSplit
  <2> QED  BY <2>1, <2>2
<1> QED  BY <1>1, <1>2, <1>3

(* One summand more. *)
LEMMA SumAdd ==
  ASSUME NEW f, NEW U, IsFiniteSet(U), \A x \in U : f[x] \in Nat,
         NEW A \in SUBSET U, NEW x \in U, x \notin A
  PROVE  SumOf(f, A \cup {x}) = f[x] + SumOf(f, A)
  BY SumFacts

(* A sum is at most another one if its summands are and those the other one *)
(* does not have are zero.                                                  *)
LEMMA SumBelow ==
  ASSUME NEW U, IsFiniteSet(U), NEW f, NEW g, \A x \in U : f[x] \in Nat /\ g[x] \in Nat,
         NEW A \in SUBSET U, NEW B \in SUBSET U,
         \A x \in A : IF x \in B THEN f[x] <= g[x] ELSE f[x] = 0
  PROVE  SumOf(f, A) <= SumOf(g, B)
<1> DEFINE P == {J \in SUBSET U : SumOf(f, A \cap J) <= SumOf(g, B \cap J)}
<1>a. \A J \in SUBSET U : SumOf(f, A \cap J) \in Nat /\ SumOf(g, B \cap J) \in Nat
  <2>1. \A J \in SUBSET U : A \cap J \in SUBSET U /\ B \cap J \in SUBSET U  OBVIOUS
  <2> QED  BY <2>1, SumFacts
<1>1. {} \in P
  <2>1. A \cap {} = {} /\ B \cap {} = {} /\ {} \in SUBSET U  OBVIOUS
  <2>2. SumOf(f, {}) = 0 /\ SumOf(g, {}) = 0  BY SumFacts
  <2> QED  BY <2>1, <2>2
<1>2. ASSUME NEW J \in P, NEW x \in U \ J PROVE J \cup {x} \in P
  <2>0. J \in SUBSET U /\ SumOf(f, A \cap J) <= SumOf(g, B \cap J)  OBVIOUS
  <2>1. SumOf(f, A \cap J) \in Nat /\ SumOf(g, B \cap J) \in Nat  BY <1>a
  <2>2. SumOf(f, A \cap (J \cup {x})) = (IF x \in A THEN f[x] ELSE 0) + SumOf(f, A \cap J)
    <3>1. CASE x \in A
      <4> DEFINE K == A \cap J
      <4>1. A \cap (J \cup {x}) = K \cup {x} /\ K \in SUBSET U /\ x \notin K  BY <3>1
      <4> HIDE DEF K, P
      <4>2. SumOf(f, K \cup {x}) = f[x] + SumOf(f, K)  BY <4>1, SumAdd
      <4> QED  BY <3>1, <4>1, <4>2 DEF K
    <3>2. CASE x \notin A
      <4>1. A \cap (J \cup {x}) = A \cap J  BY <3>2
      <4> HIDE DEF P
      <4> QED  BY <2>1, <3>2, <4>1
    <3> QED  BY <3>1, <3>2
  <2>3. SumOf(g, B \cap (J \cup {x})) = (IF x \in B THEN g[x] ELSE 0) + SumOf(g, B \cap J)
    <3>1. CASE x \in B
      <4> DEFINE K == B \cap J
      <4>1. B \cap (J \cup {x}) = K \cup {x} /\ K \in SUBSET U /\ x \notin K  BY <3>1
      <4> HIDE DEF K, P
      <4>2. SumOf(g, K \cup {x}) = g[x] + SumOf(g, K)  BY <4>1, SumAdd
      <4> QED  BY <3>1, <4>1, <4>2 DEF K
    <3>2. CASE x \notin B
      <4>1. B \cap (J \cup {x}) = B \cap J  BY <3>2
      <4> HIDE DEF P
      <4> QED  BY <2>1, <3>2, <4>1
    <3> QED  BY <3>1, <3>2
  <2>4. f[x] \in Nat /\ g[x] \in Nat  OBVIOUS
  <2>5. (IF x \in A THEN f[x] ELSE 0) <= (IF x \in B THEN g[x] ELSE 0)  BY <2>4
  <2>6. SumOf(f, A \cap (J \cup {x})) <= SumOf(g, B \cap (J \cup {x}))
    <3> HIDE DEF P
    <3> QED  BY <2>0, <2>1, <2>2, <2>3, <2>4, <2>5
  <2> QED  BY <2>6
<1> HIDE DEF P
<1>3. P = SUBSET U
  <2>1. P \in SUBSET SUBSET U  BY DEF P
  <2> QED  BY <1>1, <1>2, <2>1, SetInd
<1>4. U \in P  BY <1>3
<1>5. A \cap U = A /\ B \cap U = B  OBVIOUS
<1> QED  BY <1>4, <1>5 DEF P

(* A sum over two sets without a common element. *)
LEMMA SumUnion ==
  ASSUME NEW U, IsFiniteSet(U), NEW f, \A x \in U : f[x] \in Nat,
         NEW A \in SUBSET U, NEW B \in SUBSET U, A \cap B = {}
  PROVE  SumOf(f, A \cup B) = SumOf(f, A) + SumOf(f, B)
<1> DEFINE P == {J \in SUBSET B : SumOf(f, A \cup J) = SumOf(f, A) + SumOf(f, J)}
<1>0. IsFiniteSet(B)  BY FS_Subset
<1>a. \A J \in SUBSET U : SumOf(f, J) \in Nat  BY SumFacts
<1>1. {} \in P
  <2>1. A \cup {} = A /\ {} \in SUBSET B  OBVIOUS
  <2>2. SumOf(f, {}) = 0  BY SumFacts
  <2> QED  BY <1>a, <2>1, <2>2
<1>2. ASSUME NEW J \in P, NEW x \in B \ J PROVE J \cup {x} \in P
  <2>0. J \in SUBSET U /\ J \cup {x} \in SUBSET B /\ SumOf(f, A \cup J) = SumOf(f, A) + SumOf(f, J)
    OBVIOUS
  <2>1. A \cup J \in SUBSET U /\ x \in U \ (A \cup J) /\ A \cup (J \cup {x}) = (A \cup J) \cup {x}
    BY <2>0
  <2>2. SumOf(f, A \cup (J \cup {x})) = f[x] + SumOf(f, A \cup J)
    <3> DEFINE K == A \cup J
    <3>1. K \in SUBSET U /\ x \in U /\ x \notin K  BY <2>1
    <3> HIDE DEF K, P
    <3>2. SumOf(f, K \cup {x}) = f[x] + SumOf(f, K)  BY <3>1, SumAdd
    <3> QED  BY <2>1, <3>2 DEF K
  <2>3. SumOf(f, J \cup {x}) = f[x] + SumOf(f, J)
    <3>1. x \in U \ J  OBVIOUS
    <3> QED  BY <2>0, <3>1, SumFacts
  <2>4. f[x] \in Nat /\ SumOf(f, A) \in Nat /\ SumOf(f, J) \in Nat  BY <1>a, <2>0
  <2>5. SumOf(f, A \cup (J \cup {x})) = SumOf(f, A) + SumOf(f, J \cup {x})
    <3> HIDE DEF P
    <3> QED  BY <2>0, <2>2, <2>3, <2>4
  <2> QED  BY <2>0, <2>5
<1> HIDE DEF P
<1>3. P = SUBSET B
  <2>1. P \in SUBSET SUBSET B  BY DEF P
  <2> QED  BY <1>0, <1>1, <1>2, <2>1, SetInd
<1>4. B \in P  BY <1>3
<1> QED  BY <1>4 DEF P

(* One more in one of the summands. *)
LEMMA SumHit ==
  ASSUME NEW U, IsFiniteSet(U), NEW f \in [U -> Nat], NEW t \in U, NEW A \in SUBSET U,
         NEW g \in [U -> Nat], g[t] = f[t] + 1, \A x \in U \ {t} : g[x] = f[x]
  PROVE  SumOf(g, A) = SumOf(f, A) + (IF t \in A THEN 1 ELSE 0)
<1>1. g \in [U -> Nat] /\ g[t] = f[t] + 1 /\ \A x \in U \ {t} : g[x] = f[x]  OBVIOUS
<1>2. SumOf(f, A) \in Nat /\ SumOf(g, A) \in Nat  BY <1>1, SumFacts
<1>3. ASSUME NEW B \in SUBSET U, t \notin B PROVE SumOf(g, B) = SumOf(f, B)
  <2>1. SumOf(g, B) \in Nat /\ SumOf(f, B) \in Nat  BY <1>1, SumFacts
  <2>2. \A x \in B : g[x] <= f[x] /\ f[x] <= g[x]  BY <1>1, <1>3
  <2>3. SumOf(g, B) <= SumOf(f, B)  BY <1>1, <2>2, SumBelow
  <2>4. SumOf(f, B) <= SumOf(g, B)  BY <1>1, <2>2, SumBelow
  <2> QED  BY <2>1, <2>3, <2>4
<1>4. CASE t \in A
  <2> DEFINE B == A \ {t}
  <2>1. B \in SUBSET U /\ t \notin B /\ t \in U \ B /\ B \cup {t} = A  BY <1>4
  <2> HIDE DEF B
  <2>2. SumOf(f, B \cup {t}) = f[t] + SumOf(f, B) /\ SumOf(f, B) \in Nat  BY <2>1, SumFacts
  <2>3. SumOf(g, B \cup {t}) = g[t] + SumOf(g, B)  BY <1>1, <2>1, SumFacts
  <2>4. SumOf(g, B) = SumOf(f, B)  BY <1>3, <2>1
  <2>5. f[t] \in Nat  OBVIOUS
  <2>6. SumOf(g, A) = SumOf(f, A) + 1
    <3>1. SumOf(g, A) = g[t] + SumOf(f, B) /\ SumOf(f, A) = f[t] + SumOf(f, B)
      BY <2>1, <2>2, <2>3, <2>4
    <3> QED  BY <1>1, <2>2, <2>5, <3>1
  <2> QED  BY <1>4, <2>6
<1>5. CASE t \notin A
  <2>1. SumOf(g, A) = SumOf(f, A)  BY <1>3, <1>5
  <2>2. SumOf(g, A) = SumOf(f, A) + 0  BY <1>2, <2>1
  <2> QED  BY <1>5, <2>2
<1> QED  BY <1>4, <1>5

(* A sum taken bucket by bucket. *)
LEMMA SumByBucket ==
  ASSUME NEW I, IsFiniteSet(I), NEW U, IsFiniteSet(U), NEW b \in [U -> I],
         NEW h, \A t \in U : h[t] \in Nat
  PROVE  LET d == [i \in I |-> SumOf(h, {t \in U : b[t] = i})]
         IN  d \in [I -> Nat] /\ SumOf(d, I) = SumOf(h, U)
<1> DEFINE In(J) == {t \in U : b[t] \in J}
           At(i) == {t \in U : b[t] = i}
           d == [i \in I |-> SumOf(h, At(i))]
           P == {J \in SUBSET I : SumOf(d, J) = SumOf(h, In(J))}
<1>a. \A A \in SUBSET U : SumOf(h, A) \in Nat  BY SumFacts
<1>b. \A i \in I : At(i) \in SUBSET U  OBVIOUS
<1>c. d \in [I -> Nat] /\ \A i \in I : d[i] = SumOf(h, At(i))  BY <1>a, <1>b
<1>d. \A J : In(J) \in SUBSET U  OBVIOUS
<1>e. In({}) = {} /\ In(I) = U  OBVIOUS
<1>f. \A J : \A i \in I \ J : In(J \cup {i}) = In(J) \cup At(i) /\ In(J) \cap At(i) = {}  OBVIOUS
<1> HIDE DEF d, In, At
<1>1. {} \in P
  <2>1. SumOf(d, {}) = 0 /\ SumOf(h, {}) = 0  BY <1>c, SumFacts
  <2> QED  BY <1>e, <2>1
<1>2. ASSUME NEW J \in P, NEW i \in I \ J PROVE J \cup {i} \in P
  <2>0. J \in SUBSET I /\ J \cup {i} \in SUBSET I /\ SumOf(d, J) = SumOf(h, In(J))  OBVIOUS
  <2>1. SumOf(d, J \cup {i}) = d[i] + SumOf(d, J)  BY <1>c, <2>0, SumFacts
  <2>2. SumOf(h, In(J) \cup At(i)) = SumOf(h, In(J)) + SumOf(h, At(i))
    <3>1. In(J) \in SUBSET U /\ At(i) \in SUBSET U /\ In(J) \cap At(i) = {}  BY <1>b, <1>d, <1>f
    <3> HIDE DEF P
    <3> QED  BY <3>1, SumUnion
  <2>3. SumOf(h, In(J)) \in Nat /\ SumOf(h, At(i)) \in Nat /\ d[i] = SumOf(h, At(i))
    BY <1>a, <1>b, <1>c, <1>d
  <2>4. In(J \cup {i}) = In(J) \cup At(i)  BY <1>f
  <2>5. SumOf(d, J \cup {i}) = SumOf(h, In(J \cup {i}))
    <3>1. SumOf(d, J \cup {i}) = d[i] + SumOf(h, In(J))  BY <2>0, <2>1
    <3>2. SumOf(h, In(J \cup {i})) = SumOf(h, In(J)) + d[i]  BY <2>2, <2>3, <2>4
    <3>3. SumOf(h, In(J)) \in Nat /\ d[i] \in Nat  BY <2>3
    <3> HIDE DEF P
    <3> QED  BY <3>1, <3>2, <3>3
  <2> QED  BY <2>0, <2>5
<1> HIDE DEF P
<1>3. P = SUBSET I
  <2>1. P \in SUBSET SUBSET I  BY DEF P
  <2> QED  BY <1>1, <1>2, <2>1, SetInd
<1>4. I \in P  BY <1>3
<1>5. SumOf(d, I) = SumOf(h, U)  BY <1>4, <1>e DEF P
<1> QED  BY <1>c, <1>5 DEF d, At

-----------------------------------------------------------------------------
(* Arithmetic of slots and buckets *)

(* Multiples keep their order. *)
LEMMA MulMono ==
  ASSUME NEW W \in Nat, NEW a \in Int, NEW b \in Int, a <= b
  PROVE  a * W <= b * W
  OBVIOUS

(* And only multiples of later slots are later. *)
LEMMA MulStrict ==
  ASSUME NEW W \in Nat \ {0}, NEW a \in Int, NEW b \in Int, a * W < b * W
  PROVE  a < b
<1> SUFFICES ASSUME b <= a PROVE FALSE  OBVIOUS
<1>1. b * W <= a * W  BY MulMono
<1> QED BY <1>1

(* A time lies in its slot. *)
LEMMA DivIs ==
  ASSUME NEW W \in Nat \ {0}, NEW t \in Nat
  PROVE  /\ t \div W \in Nat /\ t % W \in 0 .. W - 1
         /\ t = (t \div W) * W + (t % W)
         /\ (t \div W) * W <= t /\ t < (t \div W) * W + W
<1>1. t \div W \in Int /\ t \div W >= 0  OBVIOUS
<1>2. t % W \in Int /\ t % W >= 0 /\ t % W < W  OBVIOUS
<1>3. t = W * (t \div W) + (t % W)  OBVIOUS
<1> DEFINE q == t \div W  r == t % W
<1> HIDE DEF q, r
<1>4. q \in Nat /\ r \in Nat /\ r < W /\ t = W * q + r  BY <1>1, <1>2, <1>3 DEF q, r
<1>5. W * q = q * W /\ q * W \in Nat  BY <1>4
<1>6. q \in Nat /\ r \in 0 .. W - 1 /\ t = q * W + r /\ q * W <= t /\ t < q * W + W  BY <1>4, <1>5
<1> QED  BY <1>6 DEF q, r

(* And in no other one. *)
LEMMA DivUnique ==
  ASSUME NEW W \in Nat \ {0}, NEW q \in Nat, NEW r \in 0 .. W - 1, NEW t \in Nat, t = q * W + r
  PROVE  t \div W = q /\ t % W = r
<1> DEFINE p == t \div W  m == t % W
<1>1. p \in Nat /\ m \in 0 .. W - 1 /\ t = p * W + m  BY DivIs
<1> HIDE DEF p, m
<1>2. p * W \in Nat /\ q * W \in Nat /\ (p + 1) * W = p * W + W /\ (q + 1) * W = q * W + W  BY <1>1
<1>3. q * W < (p + 1) * W /\ p * W < (q + 1) * W  BY <1>1, <1>2
<1>4. q < p + 1 /\ p < q + 1  BY <1>1, <1>3, MulStrict
<1>5. p = q  BY <1>1, <1>4
<1>6. m = r  BY <1>1, <1>2, <1>5
<1> QED  BY <1>5, <1>6 DEF p, m

(* The slot of a later time is not an earlier one. *)
LEMMA DivMono ==
  ASSUME NEW W \in Nat \ {0}, NEW a \in Nat, NEW b \in Nat, a <= b
  PROVE  a \div W <= b \div W
<1> DEFINE p == a \div W  q == b \div W
<1>1. p \in Nat /\ q \in Nat /\ p * W <= a /\ b < q * W + W  BY DivIs
<1> HIDE DEF p, q
<1>2. p * W \in Nat /\ q * W \in Nat /\ (q + 1) * W = q * W + W  BY <1>1
<1>3. p * W < (q + 1) * W  BY <1>1, <1>2
<1>4. p < q + 1  BY <1>1, <1>3, MulStrict
<1>5. p <= q  BY <1>1, <1>4
<1> QED  BY <1>5 DEF p, q

(* Times less than N widths apart are less than N slots apart. *)
LEMMA DivLag ==
  ASSUME NEW W \in Nat \ {0}, NEW N \in Nat \ {0}, NEW t \in Nat, NEW n \in Nat, n <= t + (N - 1) * W
  PROVE  n \div W - N < t \div W
<1> DEFINE p == n \div W  q == t \div W
<1>1. p \in Nat /\ q \in Nat /\ p * W <= n /\ t < q * W + W  BY DivIs
<1> HIDE DEF p, q
<1>2. p * W \in Nat /\ q * W \in Nat /\ (N - 1) * W \in Nat /\ (q + N) * W = q * W + W + (N - 1) * W
  BY <1>1
<1>3. p * W < (q + N) * W  BY <1>1, <1>2
<1>4. p < q + N  BY <1>1, <1>3, MulStrict
<1>5. p - N < q  BY <1>1, <1>4
<1> QED  BY <1>5 DEF p, q

(* Times whose slots are less than N apart are less than N widths apart. *)
LEMMA DivNear ==
  ASSUME NEW W \in Nat \ {0}, NEW N \in Nat \ {0}, NEW t \in Nat, NEW n \in Nat, n \div W - N < t \div W
  PROVE  n - N * W < t
<1> DEFINE p == n \div W  q == t \div W
<1>1. p \in Nat /\ q \in Nat /\ q * W <= t /\ n < p * W + W /\ p - N + 1 <= q  BY DivIs
<1> HIDE DEF p, q
<1>2. (p - N + 1) * W <= q * W  BY <1>1, MulMono
<1>3. p * W \in Nat /\ q * W \in Nat /\ N * W \in Nat /\ (p - N + 1) * W = p * W - N * W + W
  BY <1>1
<1> QED  BY <1>1, <1>2, <1>3

(* Slots of the same bucket are N slots apart. *)
LEMMA ModApart ==
  ASSUME NEW N \in Nat \ {0}, NEW x \in Nat, NEW y \in Nat, x % N = y % N, x < y
  PROVE  x + N <= y
<1> DEFINE p == x \div N  q == y \div N  r == x % N
<1>a. p \in Nat /\ r \in 0 .. N - 1 /\ x = p * N + r  BY DivIs
<1>b. q \in Nat /\ y = q * N + r  BY DivIs
<1> HIDE DEF p, q, r
<1>1. p \in Nat /\ q \in Nat /\ r \in Nat /\ x = p * N + r /\ y = q * N + r  BY <1>a, <1>b
<1>2. p * N < q * N  BY <1>1
<1>3. p + 1 <= q  BY <1>1, <1>2, MulStrict
<1>4. (p + 1) * N <= q * N  BY <1>1, <1>3, MulMono
<1>5. (p + 1) * N = p * N + N /\ p * N \in Nat /\ q * N \in Nat  BY <1>1
<1> QED  BY <1>1, <1>4, <1>5

(* N slots on, the bucket is the same. *)
LEMMA ModPlus ==
  ASSUME NEW N \in Nat \ {0}, NEW x \in Nat
  PROVE  (x + N) % N = x % N
<1> DEFINE p == x \div N  r == x % N
<1>1. p \in Nat /\ r \in 0 .. N - 1 /\ x = p * N + r  BY DivIs
<1> HIDE DEF p, r
<1>2. x + N = (p + 1) * N + r /\ p + 1 \in Nat /\ x + N \in Nat  BY <1>1
<1>3. (x + N) % N = r  BY <1>1, <1>2, DivUnique
<1> QED  BY <1>3 DEF r

-----------------------------------------------------------------------------
(* The invariants *)

USE RingAssumption

(* The hypotheses of the first theorem: the rule's windows have one bucket  *)
(* width and are not shorter than the ring (those below 10 seconds are),    *)
(* and no request waits for the lock while the whole ring turns.            *)
BW == Width(CHOOSE w \in Windows : TRUE)
OneWidth    == \A w \in Windows : Width(w) = BW
FullWindows == OneWidth /\ \A w \in Windows : NumBuckets * BW <= w
ShortWaits  == MaxLag <= (NumBuckets - 1) * BW

(* The width is at least a second, as Incr makes it. *)
LEMMA BWType == /\ BW \in Nat \ {0} /\ NumBuckets \in Nat \ {0}
                /\ NumBuckets * BW \in Nat /\ (NumBuckets - 1) * BW \in Nat
<1>1. PICK w \in Windows : w = CHOOSE v \in Windows : TRUE  OBVIOUS
<1>2. w \in Nat /\ w \div NumBuckets \in Nat  BY DivIs
<1>3. BW \in Nat \ {0}  BY <1>1, <1>2 DEF BW, Width
<1> QED  BY <1>3

(* The types, finer than TypeOK; a ring that is not in the map has nothing. *)
RingTypes ==
  /\ now \in Times /\ window \in Windows /\ hits \in [Times -> Nat] /\ newest \in Times /\ newest <= now
  /\ ring \in [up : BOOLEAN, counts : [Buckets -> Nat], slot : Nat, lastSeen : Nat]
  /\ ~ring.up => ring = NoRing
  /\ req \in [Procs -> [pc : {"idle", "lock"}, t : Nat, w : Nat]]
  /\ last \in [count : Nat, at : Times, w : Windows]

(* A request that waits for the lock read the clock at most MaxLag seconds ago. *)
Waits == \A p \in Procs : req[p].pc = "lock" =>
           req[p].t \in Times /\ req[p].t <= now /\ now - req[p].t <= MaxLag /\ req[p].w \in Windows

(* The slot of the ring is that of the latest second counted. *)
SlotOfNewest == ring.up => ring.slot = newest \div BW

(* The seconds of the slot that bucket i stands for; a bucket holds no more *)
(* requests than were counted in them.                                      *)
Held(i) == {t \in Times : /\ (t \div BW) % NumBuckets = i
                          /\ ring.slot - NumBuckets < t \div BW /\ t <= newest}
CountsBelow == ring.up => \A i \in Buckets : ring.counts[i] <= SumOf(hits, Held(i))

(* What both theorems need, and the invariant of the first. *)
RingInv  == RingTypes /\ Waits /\ SlotOfNewest
StaleInv == RingInv /\ CountsBelow /\ NoStaleHits

(* Times and buckets are finite sets of numbers; every second has a bucket. *)
LEMMA Sets == /\ Times \subseteq Nat /\ IsFiniteSet(Times) /\ IsFiniteSet(Buckets)
              /\ Buckets \subseteq Nat
              /\ \A t \in Times : t \div BW \in Nat /\ (t \div BW) % NumBuckets \in Buckets
<1>1. Times \subseteq Nat /\ Buckets \subseteq Nat  BY DEF Times, Buckets
<1>2. IsFiniteSet(Times) /\ IsFiniteSet(Buckets)  BY FS_Interval DEF Times, Buckets
<1>3. ASSUME NEW t \in Times PROVE t \div BW \in Nat /\ (t \div BW) % NumBuckets \in Buckets
  <2>1. t \div BW \in Nat  BY <1>1, BWType, DivIs
  <2> QED  BY <2>1, DivIs DEF Buckets
<1> QED  BY <1>1, <1>2, <1>3

(* What Incr makes of the ring. *)
Moved(i, s) == IF ring.up /\ s > ring.slot
               THEN Rotated(ring.counts, ring.slot, s)[i] ELSE ring.counts[i]

(* Incr, for a width that does not change: the slot it leaves is that of the *)
(* latest second, and the bucket of the request's second is one higher.      *)
LEMMA IncrStep ==
  ASSUME OneWidth, RingInv, NEW p \in Procs, Incr(p),
         NEW t, t = req[p].t, NEW s, s = t \div BW
  PROVE  /\ t \in Times /\ t \in Nat /\ t <= now /\ now - t <= MaxLag /\ req[p].w \in Windows
         /\ s \in Nat
         /\ s % NumBuckets \in Buckets
         /\ ring'.up /\ ring'.lastSeen = t /\ hits' = [hits EXCEPT ![t] = @ + 1]
         /\ hits' \in [Times -> Nat]
         /\ newest' \in Times /\ t <= newest' /\ newest' <= now
         /\ ring.up => newest <= newest' /\ newest' \in {t, newest}
         /\ ~ring.up => newest' = t
         /\ ring'.slot = newest' \div BW
         /\ ring' \in [up : BOOLEAN, counts : [Buckets -> Nat], slot : Nat, lastSeen : Nat]
         /\ \A i \in Buckets : Moved(i, s) \in Nat /\
              ring'.counts[i] = Moved(i, s) + (IF i = s % NumBuckets THEN 1 ELSE 0)
         /\ ring.up /\ s > ring.slot => newest' = t /\ ring'.slot = s
         /\ ring.up /\ s <= ring.slot => ring'.slot = ring.slot
         /\ req' = [req EXCEPT ![p] = Idle] /\ UNCHANGED <<now, window>>
         /\ last' = [count |-> SumOf(ring'.counts, Buckets), at |-> newest', w |-> req[p].w]
<1> DEFINE from == IF ring.up THEN ring.slot ELSE s
           moved == IF s > from THEN Rotated(ring.counts, from, s) ELSE ring.counts
<1>1. /\ t \in Times /\ t \in Nat /\ t <= now /\ now - t <= MaxLag /\ req[p].w \in Windows
      /\ newest \in Times /\ newest \in Nat /\ newest <= now /\ now \in Nat /\ hits \in [Times -> Nat]
  BY Sets DEF RingInv, RingTypes, Waits, Incr
<1>2. s \in Nat /\ s % NumBuckets \in Buckets  BY <1>1, Sets
<1>3. ring \in [up : BOOLEAN, counts : [Buckets -> Nat], slot : Nat, lastSeen : Nat]
  BY DEF RingInv, RingTypes
<1>4. ring' = [up |-> TRUE, counts |-> [moved EXCEPT ![s % NumBuckets] = @ + 1],
               slot |-> IF s > from THEN s ELSE from, lastSeen |-> t]
  <2>1. Width(req[p].w) = BW  BY <1>1 DEF OneWidth
  <2> QED  BY <2>1 DEF Incr, Counted
<1>5. from \in Nat /\ moved \in [Buckets -> Nat]
  BY <1>2, <1>3 DEF Rotated
<1>6. /\ newest' = (IF ring.up /\ newest > t THEN newest ELSE t)
      /\ hits' = [hits EXCEPT ![t] = @ + 1] /\ req' = [req EXCEPT ![p] = Idle]
      /\ UNCHANGED <<now, window>>
      /\ last' = [count |-> Total(ring'.counts), at |-> newest', w |-> req[p].w]
  BY DEF Incr
<1>7. Total(ring'.counts) = SumOf(ring'.counts, Buckets)  BY DEF Total, SumOf
<1>8. \A i \in Buckets : moved[i] = Moved(i, s) /\ Moved(i, s) \in Nat
  BY <1>2, <1>3, <1>5 DEF Moved
<1> HIDE DEF moved
<1>9. /\ ring' \in [up : BOOLEAN, counts : [Buckets -> Nat], slot : Nat, lastSeen : Nat]
      /\ ring'.up /\ ring'.lastSeen = t /\ ring'.slot = (IF s > from THEN s ELSE from)
      /\ \A i \in Buckets : ring'.counts[i] = moved[i] + (IF i = s % NumBuckets THEN 1 ELSE 0)
  BY <1>1, <1>2, <1>4, <1>5
<1>10. ring.up => ring.slot = newest \div BW  BY DEF RingInv, SlotOfNewest
<1>11. ring.up /\ s > ring.slot => t > newest
  <2> SUFFICES ASSUME ring.up, s > ring.slot, t <= newest PROVE FALSE  BY <1>1
  <2>1. s <= newest \div BW  BY <1>1, BWType, DivMono
  <2> QED  BY <1>2, <1>3, <1>10, <2>1
<1>12. ring.up /\ s <= ring.slot /\ t >= newest => s = ring.slot
  <2> SUFFICES ASSUME ring.up, s <= ring.slot, t >= newest PROVE s = ring.slot  OBVIOUS
  <2>1. newest \div BW <= s  BY <1>1, BWType, DivMono
  <2> QED  BY <1>2, <1>3, <1>10, <2>1
<1>13. ring'.slot = newest' \div BW
  <2>1. CASE ~ring.up  BY <1>6, <1>9, <2>1
  <2>2. CASE ring.up /\ s > ring.slot  BY <1>1, <1>6, <1>9, <1>11, <2>2
  <2>3. CASE ring.up /\ s <= ring.slot /\ newest > t  BY <1>2, <1>3, <1>6, <1>9, <1>10, <2>3
  <2>4. CASE ring.up /\ s <= ring.slot /\ t >= newest  BY <1>1, <1>2, <1>3, <1>6, <1>9, <1>12, <2>4
  <2> QED  BY <1>1, <1>2, <1>3, <2>1, <2>2, <2>3, <2>4
<1>14. hits' \in [Times -> Nat]  BY <1>1, <1>6
<1>15. /\ newest' \in Times /\ t <= newest' /\ newest' <= now
       /\ ring.up => newest <= newest' /\ newest' \in {t, newest}
  BY <1>1, <1>6
<1>16. ring.up /\ s > ring.slot => newest' = t /\ ring'.slot = s  BY <1>1, <1>6, <1>9, <1>11
<1>17. ring.up /\ s <= ring.slot => ring'.slot = ring.slot  BY <1>2, <1>3, <1>9
<1>18. ~ring.up => newest' = t  BY <1>6
<1>19. \A i \in Buckets : ring'.counts[i] = Moved(i, s) + (IF i = s % NumBuckets THEN 1 ELSE 0)
  BY <1>8, <1>9
<1> QED  BY <1>1, <1>2, <1>6, <1>7, <1>8, <1>9, <1>13, <1>14, <1>15, <1>16, <1>17, <1>18, <1>19

-----------------------------------------------------------------------------
(* A bucket is never above the requests of its slot *)

(* Whether the move from slot old to slot new clears bucket i. *)
Clears(old, new, i) == new - old >= NumBuckets \/ \E d \in 1 .. new - old : (old + d) % NumBuckets = i

(* Rotated clears those buckets and keeps the others. *)
LEMMA RotatedIs ==
  ASSUME NEW counts, NEW old, NEW new, NEW i \in Buckets
  PROVE  Rotated(counts, old, new)[i] = IF Clears(old, new, i) THEN 0 ELSE counts[i]
  BY DEF Rotated, Clears

(* It clears the buckets whose slot falls out of the ring. *)
LEMMA ClearsOld ==
  ASSUME NEW old \in Nat, NEW new \in Nat, NEW x \in Nat,
         old < new, x <= old, old - NumBuckets < x
  PROVE  Clears(old, new, x % NumBuckets) <=> ~(new - NumBuckets < x)
<1> DEFINE i == x % NumBuckets
<1>2. ASSUME new - NumBuckets < x, Clears(old, new, i) PROVE FALSE
  <2>1. ~(new - old >= NumBuckets)  BY <1>2
  <2>2. PICK d \in 1 .. new - old : (old + d) % NumBuckets = i  BY <1>2, <2>1 DEF Clears
  <2>3. old + d \in Nat /\ x < old + d /\ old + d <= new  OBVIOUS
  <2>4. x + NumBuckets <= old + d  BY <2>2, <2>3, ModApart
  <2> QED  BY <1>2, <2>3, <2>4
<1>3. ASSUME ~(new - NumBuckets < x) PROVE Clears(old, new, i)
  <2> DEFINE d == x + NumBuckets - old
  <2>1. d \in 1 .. new - old  BY <1>3
  <2>2. old + d = x + NumBuckets  OBVIOUS
  <2>3. (old + d) % NumBuckets = i  BY <2>2, ModPlus
  <2> QED  BY <2>1, <2>3 DEF Clears
<1> QED  BY <1>2, <1>3

(* Among more seconds there are not fewer requests. *)
LEMMA HitSums ==
  ASSUME NEW h \in [Times -> Nat], NEW A \in SUBSET Times, NEW B \in SUBSET Times,
         \A t \in A : t \in B \/ h[t] = 0
  PROVE  SumOf(h, A) \in Nat /\ SumOf(h, B) \in Nat /\ SumOf(h, A) <= SumOf(h, B)
<1>1. IsFiniteSet(Times) /\ \A t \in Times : h[t] \in Nat  BY Sets
<1>2. SumOf(h, A) \in Nat /\ SumOf(h, B) \in Nat  BY <1>1, SumFacts
<1>3. \A t \in A : IF t \in B THEN h[t] <= h[t] ELSE h[t] = 0  BY <1>1
<1> QED  BY <1>1, <1>2, <1>3, SumBelow

(* The count of Incr, compared bucket by bucket. *)
LEMMA TotalBelow ==
  ASSUME NEW h \in [Times -> Nat], NEW c \in [Buckets -> Nat], NEW U \in SUBSET Times,
         \A i \in Buckets : c[i] <= SumOf(h, {t \in U : (t \div BW) % NumBuckets = i})
  PROVE  SumOf(c, Buckets) <= SumOf(h, U)
<1> DEFINE b == [t \in U |-> (t \div BW) % NumBuckets]
           d == [i \in Buckets |-> SumOf(h, {t \in U : b[t] = i})]
<1>1. IsFiniteSet(U) /\ IsFiniteSet(Buckets) /\ b \in [U -> Buckets] /\ \A t \in U : h[t] \in Nat
  BY Sets, FS_Subset
<1>2. \A i \in Buckets : {t \in U : b[t] = i} = {t \in U : (t \div BW) % NumBuckets = i}  OBVIOUS
<1>3. \A i \in Buckets : c[i] <= d[i]  BY <1>2
<1> HIDE DEF b
<1>4. d \in [Buckets -> Nat] /\ SumOf(d, Buckets) = SumOf(h, U)  BY <1>1, SumByBucket
<1> HIDE DEF d
<1>5. \A i \in Buckets : c[i] \in Nat /\ d[i] \in Nat  BY <1>4
<1>6. SumOf(c, Buckets) <= SumOf(d, Buckets)  BY <1>1, <1>3, <1>5, SumBelow
<1> QED  BY <1>4, <1>6

(* The same, from above. *)
LEMMA TotalAbove ==
  ASSUME NEW h \in [Times -> Nat], NEW c \in [Buckets -> Nat], NEW U \in SUBSET Times,
         \A i \in Buckets : SumOf(h, {t \in U : (t \div BW) % NumBuckets = i}) <= c[i]
  PROVE  SumOf(h, U) <= SumOf(c, Buckets)
<1> DEFINE b == [t \in U |-> (t \div BW) % NumBuckets]
           d == [i \in Buckets |-> SumOf(h, {t \in U : b[t] = i})]
<1>1. IsFiniteSet(U) /\ IsFiniteSet(Buckets) /\ b \in [U -> Buckets] /\ \A t \in U : h[t] \in Nat
  BY Sets, FS_Subset
<1>2. \A i \in Buckets : {t \in U : b[t] = i} = {t \in U : (t \div BW) % NumBuckets = i}  OBVIOUS
<1>3. \A i \in Buckets : d[i] <= c[i]  BY <1>2
<1> HIDE DEF b
<1>4. d \in [Buckets -> Nat] /\ SumOf(d, Buckets) = SumOf(h, U)  BY <1>1, SumByBucket
<1> HIDE DEF d
<1>5. \A i \in Buckets : c[i] \in Nat /\ d[i] \in Nat  BY <1>4
<1>6. SumOf(d, Buckets) <= SumOf(c, Buckets)  BY <1>1, <1>3, <1>5, SumBelow
<1> QED  BY <1>4, <1>6

(* Incr keeps the buckets below what was counted in their slots. *)
LEMMA IncrBelow ==
  ASSUME OneWidth, ShortWaits, RingInv, CountsBelow, NEW p \in Procs, Incr(p)
  PROVE  CountsBelow'
<1>a. PICK t : t = req[p].t  OBVIOUS
<1>b. PICK s : s = t \div BW  OBVIOUS
<1>1. /\ t \in Times /\ t \in Nat /\ t <= now /\ now - t <= MaxLag /\ s \in Nat
      /\ s % NumBuckets \in Buckets
      /\ hits' = [hits EXCEPT ![t] = @ + 1]
      /\ newest' \in Times /\ t <= newest' /\ newest' <= now
      /\ ring.up => newest <= newest'
      /\ ring'.slot = newest' \div BW
      /\ \A i \in Buckets : Moved(i, s) \in Nat /\
              ring'.counts[i] = Moved(i, s) + (IF i = s % NumBuckets THEN 1 ELSE 0)
      /\ ring.up /\ s > ring.slot => ring'.slot = s
      /\ ring.up /\ s <= ring.slot => ring'.slot = ring.slot
  BY <1>a, <1>b, IncrStep
<1>2. hits \in [Times -> Nat] /\ ring.slot \in Nat /\ now \in Nat /\ newest' \in Nat /\ newest \in Nat
      /\ (~ring.up => ring = NoRing) /\ (ring.up => ring.slot = newest \div BW)
  BY <1>1, Sets DEF RingInv, RingTypes, SlotOfNewest
<1>3. t \in Held(s % NumBuckets)'
  <2>1. newest' <= t + (NumBuckets - 1) * BW  BY <1>1, <1>2, BWType DEF ShortWaits
  <2>2. newest' \div BW - NumBuckets < s  BY <1>b, <1>1, <1>2, <2>1, BWType, DivLag
  <2> QED  BY <1>b, <1>1, <2>2 DEF Held
<1>4. ASSUME NEW i \in Buckets
      PROVE Moved(i, s) <= SumOf(hits, Held(i)') /\ SumOf(hits, Held(i)') \in Nat
  <2>0. Held(i)' \in SUBSET Times /\ Held(i) \in SUBSET Times  BY DEF Held
  <2>1. SumOf(hits, Held(i)') \in Nat  BY <1>2, <2>0, HitSums
  <2>2. ASSUME ring.up, Held(i) \subseteq Held(i)'
        PROVE  ring.counts[i] <= SumOf(hits, Held(i)')
    <3>1. SumOf(hits, Held(i)) <= SumOf(hits, Held(i)') /\ SumOf(hits, Held(i)) \in Nat
      BY <1>2, <2>0, <2>2, HitSums
    <3>2. ring.counts[i] <= SumOf(hits, Held(i)) /\ ring.counts[i] \in Nat
      BY <2>2 DEF CountsBelow, RingInv, RingTypes
    <3> QED  BY <2>1, <3>1, <3>2
  <2>3. CASE ~ring.up
    <3>1. Moved(i, s) = 0  BY <1>2, <2>3 DEF Moved, NoRing
    <3> QED  BY <2>1, <3>1
  <2>4. CASE ring.up /\ ~(s > ring.slot)
    <3>1. Held(i) \subseteq Held(i)'
      <4>1. ring'.slot = ring.slot /\ newest <= newest'  BY <1>1, <1>2, <2>4
      <4>2. \A x \in Times : x \in Nat  BY Sets
      <4> QED  BY <1>2, <4>1, <4>2 DEF Held
    <3>2. Moved(i, s) = ring.counts[i]  BY <2>4 DEF Moved
    <3> QED  BY <2>1, <2>2, <2>4, <3>1, <3>2
  <2>5. CASE ring.up /\ s > ring.slot
    <3>1. Moved(i, s) = Rotated(ring.counts, ring.slot, s)[i]  BY <2>5 DEF Moved
    <3>2. Moved(i, s) = 0 \/ Moved(i, s) = ring.counts[i]  BY <3>1 DEF Rotated
    <3>3. CASE Held(i) \subseteq Held(i)'  BY <2>1, <2>2, <2>5, <3>2, <3>3
    <3>4. CASE ~(Held(i) \subseteq Held(i)')
      <4>1. PICK x \in Held(i) : x \notin Held(i)'  BY <3>4
      <4> DEFINE y == x \div BW
      <4>2. /\ x \in Times /\ x \in Nat /\ y \in Nat /\ y % NumBuckets = i /\ x <= newest
            /\ ring.slot - NumBuckets < y
        BY Sets DEF Held
      <4>3. y <= ring.slot  BY <1>2, <2>5, <4>2, BWType, DivMono
      <4>4. ~(s - NumBuckets < y)  BY <1>1, <1>2, <2>5, <4>1, <4>2 DEF Held
      <4> HIDE DEF y
      <4>5. Moved(i, s) = 0
        <5>1. ring.slot < s  BY <1>1, <1>2, <2>5
        <5>2. s \in Nat /\ ring.slot \in Nat  BY <1>1, <1>2
        <5>3. Clears(ring.slot, s, y % NumBuckets)  BY <4>2, <4>3, <4>4, <5>1, <5>2, ClearsOld
        <5>4. Clears(ring.slot, s, i)  BY <4>2, <5>3
        <5>5. Rotated(ring.counts, ring.slot, s)[i] = 0  BY <5>4, RotatedIs
        <5> QED  BY <3>1, <5>5
      <4> QED  BY <2>1, <4>5
    <3> QED  BY <3>3, <3>4
  <2> QED  BY <2>1, <2>3, <2>4, <2>5
<1>5. ASSUME NEW i \in Buckets PROVE ring'.counts[i] <= SumOf(hits', Held(i)')
  <2>0. Held(i)' \in SUBSET Times  BY DEF Held
  <2>1. SumOf(hits', Held(i)') = SumOf(hits, Held(i)') + (IF t \in Held(i)' THEN 1 ELSE 0)
    <3> DEFINE H == Held(i)'
    <3>1. H \in SUBSET Times  BY <2>0
    <3>2. t \in Times /\ hits \in [Times -> Nat] /\ IsFiniteSet(Times)  BY <1>1, <1>2, Sets
    <3>3. /\ hits' \in [Times -> Nat] /\ hits'[t] = hits[t] + 1
          /\ \A x \in Times \ {t} : hits'[x] = hits[x]
      BY <1>1, <1>2
    <3> HIDE DEF H
    <3>4. SumOf(hits', H) = SumOf(hits, H) + (IF t \in H THEN 1 ELSE 0)  BY <3>1, <3>2, <3>3, SumHit
    <3> QED  BY <3>4 DEF H
  <2>2. i = s % NumBuckets => t \in Held(i)'  BY <1>3
  <2>3. Moved(i, s) \in Nat /\ ring'.counts[i] = Moved(i, s) + (IF i = s % NumBuckets THEN 1 ELSE 0)
    BY <1>1
  <2> QED  BY <1>4, <2>1, <2>2, <2>3
<1> QED  BY <1>5 DEF CountsBelow

-----------------------------------------------------------------------------
(* The count contains nothing old *)

(* The seconds after a, until b. *)
Window(a, b) == {t \in Times : a < t /\ t <= b}

(* NoStaleHits compares two sums. *)
LEMMA StaleIs == NoStaleHits <=> last.count <= SumOf(hits, Window(last.at - last.w, last.at))
  BY DEF NoStaleHits, HitsIn, SumOf, Window

(* The ring of a key that is not in the map. *)
LEMMA NoRingType ==
  NoRing \in [up : BOOLEAN, counts : [Buckets -> Nat], slot : Nat, lastSeen : Nat] /\ ~NoRing.up
  BY DEF NoRing

(* The first state. *)
LEMMA RingInit == Init => RingInv /\ hits = [t \in Times |-> 0] /\ ~ring.up /\ last.count = 0
<1> SUFFICES ASSUME Init PROVE RingInv /\ hits = [t \in Times |-> 0] /\ ~ring.up /\ last.count = 0
  OBVIOUS
<1>1. Base \in Times /\ ~ring.up  BY NoRingType DEF Init, Times
<1>2. \A p \in Procs : req[p].pc = "idle"  BY DEF Init, Idle
<1>3. RingTypes  BY <1>1, NoRingType DEF Init, RingTypes, Idle
<1>4. Waits /\ SlotOfNewest  BY <1>1, <1>2 DEF Waits, SlotOfNewest
<1> QED  BY <1>1, <1>3, <1>4 DEF Init, RingInv

(* Every step keeps times, requests and slot in order. *)
LEMMA RingStep ==
  ASSUME OneWidth, RingInv, [Next]_vars
  PROVE  RingInv'
<1> USE DEF RingInv
<1>0. now \in Nat /\ now <= End /\ Base <= now /\ Windows \subseteq Nat  BY DEF RingTypes, Times
<1>1. CASE Tick
  <2>1. now' = now + 1 /\ now + 1 \in Times /\ UNCHANGED <<window, ring, req, hits, newest, last>>
    BY <1>0, <1>1 DEF Tick, Times
  <2>2. newest <= now + 1  BY <1>0, Sets DEF RingTypes
  <2>3. RingTypes'  BY <2>1, <2>2 DEF RingTypes
  <2>4. ASSUME NEW p \in Procs, req[p].pc = "lock"
        PROVE  /\ req[p].t \in Times /\ req[p].t <= now + 1 /\ now + 1 - req[p].t <= MaxLag
               /\ req[p].w \in Windows
    <3>1. now - req[p].t < MaxLag  BY <1>1, <2>4 DEF Tick
    <3>2. req[p].t \in Times /\ req[p].t \in Nat /\ req[p].t <= now /\ req[p].w \in Windows
      BY <2>4, Sets DEF Waits
    <3> QED  BY <1>0, <3>1, <3>2
  <2>5. Waits'
    <3> SUFFICES ASSUME NEW q \in Procs, req'[q].pc = "lock"
                 PROVE  /\ req'[q].t \in Times /\ req'[q].t <= now' /\ now' - req'[q].t <= MaxLag
                        /\ req'[q].w \in Windows
      BY DEF Waits
    <3>1. req'[q] = req[q] /\ now' = now + 1  BY <2>1
    <3>2. /\ req[q].t \in Times /\ req[q].t <= now + 1 /\ now + 1 - req[q].t <= MaxLag
          /\ req[q].w \in Windows
      BY <2>4, <3>1
    <3>3. req[q].t \in Nat  BY <3>2, Sets
    <3> QED  BY <1>0, <3>1, <3>2, <3>3
  <2>6. SlotOfNewest'  BY <2>1 DEF SlotOfNewest
  <2> QED  BY <2>3, <2>5, <2>6
<1>2. CASE Cleanup
  <2>1. ring' = NoRing /\ UNCHANGED <<now, window, req, hits, newest, last>>  BY <1>2 DEF Cleanup
  <2> QED  BY <2>1, NoRingType DEF RingTypes, Waits, SlotOfNewest
<1>3. ASSUME NEW p \in Procs, Enter(p) PROVE RingInv'
  <2>1. /\ req' = [req EXCEPT ![p] = [pc |-> "lock", t |-> now, w |-> window]]
        /\ UNCHANGED <<now, window, ring, hits, newest, last>>
    BY <1>3 DEF Enter
  <2>2. /\ req \in [Procs -> [pc : {"idle", "lock"}, t : Nat, w : Nat]] /\ window \in Windows
        /\ now \in Times
    BY DEF RingTypes
  <2>3. req' \in [Procs -> [pc : {"idle", "lock"}, t : Nat, w : Nat]]
    <3>1. [pc |-> "lock", t |-> now, w |-> window] \in [pc : {"idle", "lock"}, t : Nat, w : Nat]
      BY <1>0, <2>2
    <3> QED  BY <2>1, <2>2, <3>1
  <2>4. RingTypes'  BY <2>1, <2>3 DEF RingTypes
  <2>5. Waits'
    <3> SUFFICES ASSUME NEW q \in Procs, req'[q].pc = "lock"
                 PROVE  /\ req'[q].t \in Times /\ req'[q].t <= now /\ now - req'[q].t <= MaxLag
                        /\ req'[q].w \in Windows
      BY <2>1 DEF Waits
    <3>1. CASE q = p
      <4>1. req'[q].t = now /\ req'[q].w = window  BY <2>1, <2>2, <3>1
      <4> QED  BY <1>0, <2>2, <4>1
    <3>2. CASE q # p
      <4>1. req'[q] = req[q]  BY <2>1, <2>2, <3>2
      <4> QED  BY <4>1 DEF Waits
    <3> QED  BY <3>1, <3>2
  <2>6. SlotOfNewest'  BY <2>1 DEF SlotOfNewest
  <2> QED  BY <2>4, <2>5, <2>6
<1>4. ASSUME NEW p \in Procs, Incr(p) PROVE RingInv'
  <2>a. PICK t : t = req[p].t  OBVIOUS
  <2>b. PICK s : s = t \div BW  OBVIOUS
  <2>1. /\ req[p].w \in Windows
        /\ ring'.up /\ hits' \in [Times -> Nat]
        /\ newest' \in Times /\ newest' <= now
        /\ ring'.slot = newest' \div BW
        /\ ring' \in [up : BOOLEAN, counts : [Buckets -> Nat], slot : Nat, lastSeen : Nat]
        /\ req' = [req EXCEPT ![p] = Idle] /\ UNCHANGED <<now, window>>
        /\ last' = [count |-> SumOf(ring'.counts, Buckets), at |-> newest', w |-> req[p].w]
    BY <1>4, <2>a, <2>b, IncrStep
  <2>2. SumOf(ring'.counts, Buckets) \in Nat
    <3>1. IsFiniteSet(Buckets) /\ \A i \in Buckets : ring'.counts[i] \in Nat  BY <2>1, Sets
    <3> QED  BY <3>1, SumFacts
  <2>3. last' \in [count : Nat, at : Times, w : Windows]  BY <2>1, <2>2
  <2>4. req \in [Procs -> [pc : {"idle", "lock"}, t : Nat, w : Nat]]  BY DEF RingTypes
  <2>5. /\ req' \in [Procs -> [pc : {"idle", "lock"}, t : Nat, w : Nat]]
        /\ \A q \in Procs : req'[q] = req[q] \/ req'[q].pc = "idle"
    BY <2>1, <2>4 DEF Idle
  <2>6. RingTypes'  BY <2>1, <2>3, <2>5 DEF RingTypes
  <2>7. Waits'  BY <2>1, <2>5 DEF Waits
  <2> QED  BY <2>1, <2>6, <2>7 DEF SlotOfNewest
<1>5. ASSUME NEW w \in Windows, ModifyApi(w) PROVE RingInv'
  <2>1. window' = w /\ UNCHANGED <<now, ring, req, hits, newest, last>>  BY <1>5 DEF ModifyApi
  <2> QED  BY <2>1 DEF RingTypes, Waits, SlotOfNewest
<1>6. CASE UNCHANGED vars  BY <1>6 DEF vars, RingTypes, Waits, SlotOfNewest
<1> QED  BY <1>1, <1>2, <1>3, <1>4, <1>5, <1>6 DEF Next

(* Only Incr counts. *)
LEMMA OtherSteps ==
  ASSUME [Next]_vars, \A p \in Procs : ~Incr(p)
  PROVE  UNCHANGED <<hits, newest, last>> /\ (UNCHANGED ring \/ Cleanup)
  BY DEF Next, Tick, Cleanup, Enter, ModifyApi, vars

(* Every step keeps what was counted within the window. *)
LEMMA StaleStep ==
  ASSUME FullWindows, ShortWaits, StaleInv, [Next]_vars
  PROVE  StaleInv'
<1>0. OneWidth /\ RingInv /\ RingInv' /\ CountsBelow  BY RingStep DEF FullWindows, StaleInv
<1>1. ASSUME NEW p \in Procs, Incr(p) PROVE StaleInv'
  <2>a. PICK t : t = req[p].t  OBVIOUS
  <2>b. PICK s : s = t \div BW  OBVIOUS
  <2>1. /\ req[p].w \in Windows /\ ring'.up /\ hits' \in [Times -> Nat] /\ newest' \in Times
        /\ ring'.slot = newest' \div BW
        /\ ring' \in [up : BOOLEAN, counts : [Buckets -> Nat], slot : Nat, lastSeen : Nat]
        /\ last' = [count |-> SumOf(ring'.counts, Buckets), at |-> newest', w |-> req[p].w]
    BY <1>0, <1>1, <2>a, <2>b, IncrStep
  <2>2. CountsBelow'  BY <1>0, <1>1, IncrBelow
  <2> DEFINE U == {x \in Times : ring'.slot - NumBuckets < x \div BW /\ x <= newest'}
             V == {x \in Times : newest' - req[p].w < x /\ x <= newest'}
  <2>3. \A i \in Buckets : {x \in U : (x \div BW) % NumBuckets = i} = Held(i)'  BY DEF Held
  <2>4. \A i \in Buckets : ring'.counts[i] <= SumOf(hits', {x \in U : (x \div BW) % NumBuckets = i})
    BY <2>1, <2>2, <2>3 DEF CountsBelow
  <2>5. U \in SUBSET Times /\ V \in SUBSET Times  OBVIOUS
  <2>6. U \subseteq V
    <3> SUFFICES ASSUME NEW x \in Times, ring'.slot - NumBuckets < x \div BW
                 PROVE newest' - req[p].w < x
      OBVIOUS
    <3>1. x \in Nat /\ newest' \in Nat /\ req[p].w \in Nat  BY <2>1, Sets
    <3>2. newest' - NumBuckets * BW < x  BY <2>1, <3>1, BWType, DivNear
    <3>3. NumBuckets * BW <= req[p].w /\ NumBuckets * BW \in Nat  BY <2>1, BWType DEF FullWindows
    <3> QED  BY <3>1, <3>2, <3>3
  <2> HIDE DEF U
  <2>7. SumOf(ring'.counts, Buckets) <= SumOf(hits', U)
    <3>1. ring'.counts \in [Buckets -> Nat]  BY <2>1
    <3> QED  BY <2>1, <2>4, <2>5, <3>1, TotalBelow
  <2> HIDE DEF V
  <2>8. SumOf(hits', U) \in Nat /\ SumOf(hits', V) \in Nat /\ SumOf(hits', U) <= SumOf(hits', V)
    BY <2>1, <2>5, <2>6, HitSums
  <2>9. last'.count \in Nat  BY <1>0 DEF RingInv, RingTypes
  <2>10. Window(last.at - last.w, last.at)' = V
    <3>1. last'.at = newest' /\ last'.w = req[p].w  BY <2>1
    <3> QED  BY <3>1 DEF V, Window
  <2>11. last'.count <= SumOf(hits', V)  BY <2>1, <2>7, <2>8, <2>9
  <2>12. NoStaleHits'
    <3>1. NoStaleHits' <=> (last.count <= SumOf(hits, Window(last.at - last.w, last.at)))'
      BY StaleIs, PTL
    <3> QED  BY <2>10, <2>11, <3>1
  <2> QED  BY <1>0, <2>2, <2>12 DEF StaleInv
<1>2. ASSUME \A p \in Procs : ~Incr(p) PROVE StaleInv'
  <2>1. UNCHANGED <<hits, newest, last>> /\ (UNCHANGED ring \/ Cleanup)  BY <1>2, OtherSteps
  <2>2. UNCHANGED ring \/ ~ring'.up  BY <2>1, NoRingType DEF Cleanup
  <2>3. CountsBelow'  BY <1>0, <2>1, <2>2 DEF CountsBelow, Held
  <2>4. NoStaleHits'
    <3>1. last.count <= SumOf(hits, Window(last.at - last.w, last.at))  BY StaleIs DEF StaleInv
    <3>2. NoStaleHits' <=> (last.count <= SumOf(hits, Window(last.at - last.w, last.at)))'
      BY StaleIs, PTL
    <3> QED  BY <2>1, <3>1, <3>2 DEF Window
  <2> QED  BY <1>0, <2>3, <2>4 DEF StaleInv
<1> QED  BY <1>1, <1>2

(* Nothing has been counted at the start. *)
LEMMA StaleInit == Init => StaleInv
<1> SUFFICES ASSUME Init PROVE StaleInv  OBVIOUS
<1>1. RingInv /\ ~ring.up /\ last.count = 0  BY RingInit
<1>2. SumOf(hits, Window(last.at - last.w, last.at)) \in Nat
  <2> DEFINE V == Window(last.at - last.w, last.at)
  <2>1. V \in SUBSET Times /\ hits \in [Times -> Nat]  BY <1>1 DEF RingInv, RingTypes, Window
  <2> HIDE DEF V
  <2>2. SumOf(hits, V) \in Nat  BY <2>1, HitSums
  <2> QED  BY <2>2 DEF V
<1>3. NoStaleHits  BY <1>1, <1>2, StaleIs
<1> QED  BY <1>1, <1>3 DEF StaleInv, CountsBelow

(* NoStaleHits: the count that Incr returns is not more than the requests   *)
(* within the window that ends with the latest second counted, while the    *)
(* rule's edits keep the bucket width: advance clears every bucket whose    *)
(* slot leaves the ring, and a late request adds to a slot still in it.     *)
THEOREM CountNotStale == ASSUME FullWindows, ShortWaits PROVE Spec => []NoStaleHits
<1>1. Init => StaleInv  BY StaleInit
<1>2. StaleInv /\ [Next]_vars => StaleInv'  BY StaleStep
<1>3. StaleInv => NoStaleHits  BY DEF StaleInv
<1> QED  BY <1>1, <1>2, <1>3, PTL DEF Spec

-----------------------------------------------------------------------------
(* The hypotheses of the second theorem: the buckets cover the window but   *)
(* for a second, and Cleanup waits longer than the reach of the ring and    *)
(* two waits for the lock.                                                  *)
EvenWindows == OneWidth /\ \A w \in Windows : w <= NumBuckets * BW + 1
KeysKept    == (NumBuckets - 1) * BW + 2 * MaxLag < IdleSeconds

(* How far the buckets reach back from the latest second, whatever its place *)
(* in its slot; and the seconds of bucket i within that reach.               *)
Reach     == (NumBuckets - 1) * BW
Recent(i) == {t \in Times : (t \div BW) % NumBuckets = i /\ newest - Reach <= t /\ t <= newest}

(* No recent request is missing from its bucket; no request was counted     *)
(* after the latest second, and that is not long after the last one; those  *)
(* counted in a ring that Cleanup removed are out of reach of every request *)
(* that may come.                                                           *)
CountsAbove  == ring.up => \A i \in Buckets : SumOf(hits, Recent(i)) <= ring.counts[i]
NothingAhead == ring.up => /\ newest <= ring.lastSeen + MaxLag
                           /\ \A t \in Times : t > newest => hits[t] = 0
Forgotten    == ~ring.up => \A t \in Times : hits[t] # 0 =>
                  /\ t < now - Reach
                  /\ \A p \in Procs : req[p].pc = "lock" => t < req[p].t - Reach

(* The invariant of the second theorem. *)
LostInv == RingInv /\ CountsAbove /\ NothingAhead /\ Forgotten /\ NoLostHits

(* NoLostHits compares two sums. *)
LEMMA LostIs ==
  NoLostHits <=> last.count >= SumOf(hits, Window(last.at - last.w + Width(last.w), last.at))
  BY DEF NoLostHits, HitsIn, SumOf, Window

(* A sum of zeros. *)
LEMMA NoHits ==
  ASSUME NEW h \in [Times -> Nat], NEW A \in SUBSET Times, \A t \in A : h[t] = 0
  PROVE  SumOf(h, A) = 0
<1>1. {} \in SUBSET Times /\ IsFiniteSet(Times) /\ \A t \in Times : h[t] \in Nat  BY Sets
<1>2. SumOf(h, {}) = 0  BY <1>1, SumFacts
<1>3. SumOf(h, A) \in Nat /\ SumOf(h, A) <= SumOf(h, {})  BY <1>1, HitSums
<1> QED  BY <1>2, <1>3

(* What is within reach of a later second is within reach of this one. *)
LEMMA Within ==
  ASSUME NEW a \in Nat, NEW b \in Nat, NEW r \in Nat, NEW x \in Nat, a <= b, b - r <= x
  PROVE  a - r <= x
  OBVIOUS

(* Incr keeps every recent request in its bucket. *)
LEMMA IncrAbove ==
  ASSUME OneWidth, RingInv, CountsAbove, NothingAhead, Forgotten, NEW p \in Procs, Incr(p)
  PROVE  CountsAbove' /\ NothingAhead' /\ Forgotten'
<1>a. PICK t : t = req[p].t  OBVIOUS
<1>b. PICK s : s = t \div BW  OBVIOUS
<1>1. /\ t \in Times /\ t \in Nat /\ t <= now /\ now - t <= MaxLag /\ s \in Nat
      /\ s % NumBuckets \in Buckets
      /\ ring'.up /\ ring'.lastSeen = t /\ hits' = [hits EXCEPT ![t] = @ + 1]
      /\ newest' \in Times /\ t <= newest' /\ newest' <= now
      /\ ring.up => newest <= newest'
      /\ ~ring.up => newest' = t
      /\ \A i \in Buckets : Moved(i, s) \in Nat /\
              ring'.counts[i] = Moved(i, s) + (IF i = s % NumBuckets THEN 1 ELSE 0)
      /\ ring.up /\ s > ring.slot => newest' = t
  BY <1>a, <1>b, IncrStep
<1>2. /\ hits \in [Times -> Nat] /\ ring.slot \in Nat /\ now \in Nat /\ newest' \in Nat
      /\ newest \in Nat
      /\ (ring.up => ring.slot = newest \div BW) /\ Reach \in Nat
  BY <1>1, Sets, BWType DEF RingInv, RingTypes, SlotOfNewest, Reach
<1>3. /\ hits' \in [Times -> Nat] /\ hits'[t] = hits[t] + 1 /\ \A x \in Times \ {t} : hits'[x] = hits[x]
  BY <1>1, <1>2
<1>4. ASSUME NEW x \in Times, hits[x] # 0, newest' - Reach <= x
      PROVE ring.up /\ x <= newest /\ newest - Reach <= x
  <2>0. x \in Nat  BY Sets
  <2>1. ring.up
    <3> SUFFICES ASSUME ~ring.up PROVE FALSE  OBVIOUS
    <3>1. x < req[p].t - Reach  BY <1>4 DEF Forgotten, Incr
    <3>2. newest' = req[p].t  BY <1>a, <1>1
    <3>3. newest' \in Nat /\ Reach \in Nat  BY <1>2
    <3> QED  BY <1>4, <2>0, <3>1, <3>2, <3>3
  <2>2. x <= newest  BY <1>2, <1>4, <2>0, <2>1 DEF NothingAhead
  <2>3. newest' \in Nat /\ newest \in Nat /\ Reach \in Nat /\ newest <= newest'  BY <1>1, <1>2, <2>1
  <2>4. newest' - Reach <= x  BY <1>4
  <2>5. newest - Reach <= x  BY <2>0, <2>3, <2>4, Within
  <2> QED  BY <2>1, <2>2, <2>5
<1>5. ASSUME NEW i \in Buckets
      PROVE SumOf(hits, Recent(i)') <= Moved(i, s) /\ SumOf(hits, Recent(i)') \in Nat
  <2> DEFINE R == Recent(i)'
             Q == Recent(i)
  <2>0. R \in SUBSET Times /\ Q \in SUBSET Times  BY DEF Recent
  <2>1. \A x \in R : x \in Times /\ newest' - Reach <= x /\ (x \div BW) % NumBuckets = i
    BY DEF Recent, Reach
  <2>2. \A x \in R : hits[x] # 0 => x \in Q  BY <1>4, <2>1 DEF Recent
  <2>3. Moved(i, s) \in Nat  BY <1>1
  <2> HIDE DEF R, Q
  <2>4. CASE \A x \in R : hits[x] = 0
    <3>1. SumOf(hits, R) = 0  BY <1>2, <2>0, <2>4, NoHits
    <3> QED  BY <2>3, <3>1 DEF R
  <2>5. ASSUME NEW x \in R, hits[x] # 0 PROVE Moved(i, s) = ring.counts[i] /\ ring.up
    <3>1. x \in Times /\ x \in Nat /\ ring.up /\ x <= newest /\ newest' - Reach <= x
      BY <1>4, <2>1, <2>5, Sets
    <3>2. CASE ~(s > ring.slot)  BY <3>1, <3>2 DEF Moved
    <3>3. CASE s > ring.slot
      <4>1. PICK y : y = x \div BW  OBVIOUS
      <4>2. y \in Nat /\ y % NumBuckets = i  BY <2>1, <3>1, <4>1, Sets
      <4>3. y <= ring.slot  BY <1>2, <3>1, <4>1, BWType, DivMono
      <4>4. newest' <= x + (NumBuckets - 1) * BW /\ newest' = t
        <5>1. newest' \in Nat /\ Reach \in Nat /\ newest' = t  BY <1>1, <1>2, <3>1, <3>3
        <5>2. newest' <= x + Reach  BY <3>1, <5>1
        <5> QED  BY <5>1, <5>2 DEF Reach
      <4>5. s - NumBuckets < y  BY <1>b, <1>1, <3>1, <4>1, <4>4, BWType, DivLag
      <4>6. ring.slot < s /\ ring.slot - NumBuckets < y  BY <1>1, <1>2, <3>3, <4>2, <4>5
      <4>7. ~Clears(ring.slot, s, y % NumBuckets)  BY <1>1, <1>2, <4>2, <4>3, <4>5, <4>6, ClearsOld
      <4>8. ~Clears(ring.slot, s, i)  BY <4>2, <4>7
      <4>9. Rotated(ring.counts, ring.slot, s)[i] = ring.counts[i]  BY <4>8, RotatedIs
      <4> QED  BY <3>1, <3>3, <4>9 DEF Moved
    <3> QED  BY <3>1, <3>2, <3>3
  <2>6. SumOf(hits, R) <= SumOf(hits, Q) /\ SumOf(hits, R) \in Nat /\ SumOf(hits, Q) \in Nat
    BY <1>2, <2>0, <2>2, HitSums
  <2>7. CASE \E x \in R : hits[x] # 0
    <3>1. Moved(i, s) = ring.counts[i] /\ ring.up  BY <2>5, <2>7
    <3>2. SumOf(hits, Q) <= ring.counts[i]  BY <3>1 DEF CountsAbove, Q
    <3>3. SumOf(hits, R) <= Moved(i, s)  BY <2>3, <2>6, <3>1, <3>2
    <3> QED  BY <2>6, <3>3 DEF R
  <2> QED  BY <2>4, <2>7
<1>6. ASSUME NEW i \in Buckets PROVE SumOf(hits', Recent(i)') <= ring'.counts[i]
  <2> DEFINE R == Recent(i)'
  <2>0. R \in SUBSET Times  BY DEF Recent
  <2>1. t \in R => i = s % NumBuckets  BY <1>b DEF Recent
  <2>2. SumOf(hits, R) <= Moved(i, s) /\ SumOf(hits, R) \in Nat  BY <1>5
  <2> HIDE DEF R
  <2>3. t \in Times /\ IsFiniteSet(Times)  BY <1>1, Sets
  <2>4. SumOf(hits', R) = SumOf(hits, R) + (IF t \in R THEN 1 ELSE 0)
    BY <1>2, <1>3, <2>0, <2>3, SumHit
  <2>5. Moved(i, s) \in Nat /\ ring'.counts[i] = Moved(i, s) + (IF i = s % NumBuckets THEN 1 ELSE 0)
    BY <1>1
  <2>6. SumOf(hits', R) <= ring'.counts[i]  BY <2>1, <2>2, <2>4, <2>5
  <2> QED  BY <2>6 DEF R
<1>7. CountsAbove'  BY <1>6 DEF CountsAbove
<1>8. NothingAhead'
  <2>1. newest' <= t + MaxLag  BY <1>1, <1>2
  <2>2. ASSUME NEW x \in Times, x > newest' PROVE hits'[x] = 0
    <3>1. x \in Nat /\ x # t  BY <1>1, <1>2, <2>2, Sets
    <3>2. hits[x] = 0
      <4> SUFFICES ASSUME hits[x] # 0 PROVE FALSE  OBVIOUS
      <4>1. ring.up /\ x <= newest  BY <1>2, <1>4, <2>2, <3>1
      <4> QED  BY <1>1, <1>2, <2>2, <3>1, <4>1
    <3> QED  BY <1>3, <3>1, <3>2
  <2> QED  BY <1>1, <2>1, <2>2 DEF NothingAhead
<1> QED  BY <1>1, <1>7, <1>8 DEF Forgotten

(* The other steps, Cleanup among them, lose no recent request. *)
LEMMA OtherAbove ==
  ASSUME OneWidth, KeysKept, RingInv, CountsAbove, NothingAhead, Forgotten, [Next]_vars,
         \A p \in Procs : ~Incr(p)
  PROVE  CountsAbove' /\ NothingAhead' /\ Forgotten'
<1>0. /\ now \in Nat /\ newest \in Nat /\ Reach \in Nat /\ hits \in [Times -> Nat]
      /\ ring.lastSeen \in Nat
      /\ ring.up \in BOOLEAN /\ (~ring.up => ring = NoRing)
      /\ req \in [Procs -> [pc : {"idle", "lock"}, t : Nat, w : Nat]]
  BY Sets, BWType DEF RingInv, RingTypes, Reach
<1>1. UNCHANGED <<hits, newest, last>> /\ (UNCHANGED ring \/ Cleanup)  BY OtherSteps
<1>2. UNCHANGED ring \/ ~ring'.up  BY <1>1, NoRingType DEF Cleanup
<1>3. CountsAbove'  BY <1>1, <1>2 DEF CountsAbove, Recent
<1>4. NothingAhead'  BY <1>1, <1>2 DEF NothingAhead
<1>5. CASE Cleanup
  <2>1. ring.up /\ ring.lastSeen <= now - IdleSeconds /\ UNCHANGED <<now, req>>  BY <1>5 DEF Cleanup
  <2>2. ASSUME NEW x \in Times, hits[x] # 0
        PROVE  x < now - Reach /\ \A p \in Procs : req[p].pc = "lock" => x < req[p].t - Reach
    <3>0. x \in Nat  BY Sets
    <3>1. x <= newest /\ newest <= ring.lastSeen + MaxLag
      BY <1>0, <2>1, <2>2, <3>0 DEF NothingAhead
    <3>2. x <= now - IdleSeconds + MaxLag  BY <1>0, <2>1, <3>0, <3>1
    <3>3. x < now - MaxLag - Reach  BY <1>0, <3>0, <3>2 DEF KeysKept, Reach
    <3>4. ASSUME NEW p \in Procs, req[p].pc = "lock" PROVE x < req[p].t - Reach
      <4>1. now - req[p].t <= MaxLag /\ req[p].t \in Nat  BY <1>0, <3>4 DEF RingInv, Waits
      <4> QED  BY <1>0, <3>0, <3>3, <4>1
    <3> QED  BY <1>0, <3>0, <3>3, <3>4
  <2> QED  BY <1>1, <1>3, <1>4, <2>1, <2>2 DEF Forgotten, Reach
<1>6. ASSUME ~Cleanup, ~ring'.up, NEW x \in Times, hits[x] # 0
      PROVE  x < now' - Reach /\ \A p \in Procs : req'[p].pc = "lock" => x < req'[p].t - Reach
  <2>0. x \in Nat  BY Sets
  <2>1. /\ x < now - Reach
        /\ \A p \in Procs : req[p].pc = "lock" => x < req[p].t - Reach
    BY <1>1, <1>6 DEF Forgotten
  <2>2. CASE Tick  BY <1>0, <2>0, <2>1, <2>2 DEF Tick
  <2>3. ASSUME NEW p \in Procs, Enter(p)
        PROVE now' = now /\ \A q \in Procs : req'[q] = req[q] \/ req'[q].t = now
    BY <1>0, <2>3 DEF Enter
  <2>4. CASE \E p \in Procs : Enter(p)
    <3>1. now' = now /\ \A q \in Procs : req'[q] = req[q] \/ req'[q].t = now  BY <2>3, <2>4
    <3> QED  BY <2>1, <3>1
  <2>5. CASE \E w \in Windows : ModifyApi(w)  BY <2>1, <2>5 DEF ModifyApi
  <2>6. CASE UNCHANGED vars  BY <2>1, <2>6 DEF vars
  <2> QED  BY <1>6, <2>2, <2>4, <2>5, <2>6 DEF Next
<1>7. CASE ~Cleanup
  <2>1. Forgotten'  BY <1>1, <1>6, <1>7 DEF Forgotten, Reach
  <2> QED  BY <1>3, <1>4, <2>1
<1> QED  BY <1>5, <1>7

(* Every step keeps the count complete. *)
LEMMA LostStep ==
  ASSUME EvenWindows, KeysKept, LostInv, [Next]_vars
  PROVE  LostInv'
<1>0. OneWidth /\ RingInv /\ RingInv' /\ CountsAbove /\ NothingAhead /\ Forgotten
  BY RingStep DEF EvenWindows, LostInv
<1>a. NoLostHits' <=> (last.count >= SumOf(hits, Window(last.at - last.w + Width(last.w), last.at)))'
  BY LostIs, PTL
<1>1. ASSUME NEW p \in Procs, Incr(p) PROVE LostInv'
  <2>a. PICK t : t = req[p].t  OBVIOUS
  <2>b. PICK s : s = t \div BW  OBVIOUS
  <2>1. /\ req[p].w \in Windows /\ ring'.up /\ hits' \in [Times -> Nat] /\ newest' \in Times
        /\ ring' \in [up : BOOLEAN, counts : [Buckets -> Nat], slot : Nat, lastSeen : Nat]
        /\ last' = [count |-> SumOf(ring'.counts, Buckets), at |-> newest', w |-> req[p].w]
    BY <1>0, <1>1, <2>a, <2>b, IncrStep
  <2>2. CountsAbove' /\ NothingAhead' /\ Forgotten'  BY <1>0, <1>1, IncrAbove
  <2> DEFINE U == {x \in Times : newest' - Reach <= x /\ x <= newest'}
             V == {x \in Times : newest' - req[p].w + BW < x /\ x <= newest'}
  <2>3. \A i \in Buckets : {x \in U : (x \div BW) % NumBuckets = i} = Recent(i)'
    BY DEF Recent, Reach
  <2>4. \A i \in Buckets : SumOf(hits', {x \in U : (x \div BW) % NumBuckets = i}) <= ring'.counts[i]
    BY <2>1, <2>2, <2>3 DEF CountsAbove
  <2>5. U \in SUBSET Times /\ V \in SUBSET Times  OBVIOUS
  <2>6. V \subseteq U
    <3> SUFFICES ASSUME NEW x \in Times, newest' - req[p].w + BW < x PROVE newest' - Reach <= x
      OBVIOUS
    <3>1. /\ x \in Nat /\ newest' \in Nat /\ req[p].w \in Nat /\ BW \in Nat /\ Reach \in Nat
          /\ NumBuckets * BW \in Nat
      BY <2>1, Sets, BWType DEF Reach
    <3>2. req[p].w <= NumBuckets * BW + 1  BY <2>1 DEF EvenWindows
    <3>3. Reach = NumBuckets * BW - BW  BY BWType DEF Reach
    <3> QED  BY <3>1, <3>2, <3>3
  <2> HIDE DEF U
  <2>7. SumOf(hits', U) <= SumOf(ring'.counts, Buckets)
    <3>1. ring'.counts \in [Buckets -> Nat]  BY <2>1
    <3> QED  BY <2>1, <2>4, <2>5, <3>1, TotalAbove
  <2> HIDE DEF V
  <2>8. SumOf(hits', U) \in Nat /\ SumOf(hits', V) \in Nat /\ SumOf(hits', V) <= SumOf(hits', U)
    BY <2>1, <2>5, <2>6, HitSums
  <2>9. last'.count \in Nat  BY <1>0 DEF RingInv, RingTypes
  <2>10. Window(last.at - last.w + Width(last.w), last.at)' = V
    <3>1. last'.at = newest' /\ last'.w = req[p].w  BY <2>1
    <3>2. Width(last'.w) = BW  BY <1>0, <2>1, <3>1 DEF OneWidth
    <3> QED  BY <3>1, <3>2 DEF V, Window
  <2>11. last'.count >= SumOf(hits', V)  BY <2>1, <2>7, <2>8, <2>9
  <2>12. NoLostHits'  BY <1>a, <2>10, <2>11
  <2> QED  BY <1>0, <2>2, <2>12 DEF LostInv
<1>2. ASSUME \A p \in Procs : ~Incr(p) PROVE LostInv'
  <2>1. UNCHANGED <<hits, newest, last>>  BY <1>2, OtherSteps
  <2>2. CountsAbove' /\ NothingAhead' /\ Forgotten'  BY <1>0, <1>2, OtherAbove
  <2>3. NoLostHits'
    <3>1. last.count >= SumOf(hits, Window(last.at - last.w + Width(last.w), last.at))
      BY LostIs DEF LostInv
    <3> QED  BY <1>a, <2>1, <3>1 DEF Window
  <2> QED  BY <1>0, <2>2, <2>3 DEF LostInv
<1> QED  BY <1>1, <1>2

(* Nothing can have been missed at the start. *)
LEMMA LostInit == Init => LostInv
<1> SUFFICES ASSUME Init PROVE LostInv  OBVIOUS
<1>1. RingInv /\ hits = [t \in Times |-> 0] /\ ~ring.up /\ last.count = 0  BY RingInit
<1>2. SumOf(hits, Window(last.at - last.w + Width(last.w), last.at)) = 0
  <2> DEFINE V == Window(last.at - last.w + Width(last.w), last.at)
  <2>1. V \in SUBSET Times  BY DEF Window
  <2> HIDE DEF V
  <2>2. hits \in [Times -> Nat] /\ \A t \in V : hits[t] = 0  BY <1>1, <2>1
  <2>3. SumOf(hits, V) = 0  BY <2>1, <2>2, NoHits
  <2> QED  BY <2>3 DEF V
<1>3. NoLostHits  BY <1>1, <1>2, LostIs
<1> QED  BY <1>1, <1>3 DEF LostInv, CountsAbove, NothingAhead, Forgotten

(* NoLostHits: the count that Incr returns is not less than the requests    *)
(* within the window less one bucket width: advance clears no bucket too    *)
(* early, and Cleanup removes only keys with no request in the window.      *)
THEOREM CountComplete == ASSUME EvenWindows, KeysKept PROVE Spec => []NoLostHits
<1>1. Init => LostInv  BY LostInit
<1>2. LostInv /\ [Next]_vars => LostInv'  BY LostStep
<1>3. LostInv => NoLostHits  BY DEF LostInv
<1> QED  BY <1>1, <1>2, <1>3, PTL DEF Spec
=============================================================================
