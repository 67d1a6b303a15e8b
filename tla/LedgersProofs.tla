---------------------------- MODULE LedgersProofs ----------------------------
(***************************************************************************)
(* The ledgers of the budget add up, for any transactions: sums over       *)
(* finite sets, and what is split by cycle, by day, by category and by     *)
(* month.  The pots that are replayed from them are ready on their dates,  *)
(* and the headline that is summed up from the pots, the flows and the     *)
(* cash keeps what it says.                                                *)
(***************************************************************************)
EXTENDS BudgetProofs, SequenceTheorems

-----------------------------------------------------------------------------
(* Sums.                                                                   *)

\* What holds of the empty set, and of a set with an element more, holds of a finite set.
LEMMA FiniteInduction ==
  ASSUME NEW S, IsFiniteSet(S), NEW P, {} \in P,
         \A A \in SUBSET S : \A x \in S \ A : A \in P => A \cup {x} \in P
  PROVE  \A A \in SUBSET S : A \in P
<1> DEFINE T == {n \in Nat : \E A \in SUBSET S : A \notin P /\ Cardinality(A) = n}
<1>1. \A A \in SUBSET S : IsFiniteSet(A) /\ Cardinality(A) \in Nat
  BY FS_Subset, FS_CardinalityType
<1> SUFFICES ASSUME T # {} PROVE FALSE
  BY <1>1
<1>2. PICK n \in T : \A k \in T : n <= k
  <2>1. T \subseteq Nat
    OBVIOUS
  <2> HIDE DEF T
  <2> QED
    BY <2>1, LeastNumber
<1>3. PICK A \in SUBSET S : A \notin P /\ Cardinality(A) = n
  OBVIOUS
<1>4. PICK x \in A : TRUE
  BY <1>3
<1>5. A \ {x} \in SUBSET S /\ Cardinality(A \ {x}) = n - 1 /\ n - 1 \in Nat
  <2>1. Cardinality(A \ {x}) = Cardinality(A) - 1
    BY <1>1, <1>4, FS_RemoveElement
  <2>2. Cardinality(A \ {x}) \in Nat
    BY <1>1
  <2> QED
    BY <1>3, <2>1, <2>2
<1>6. A \ {x} \in P
  BY <1>2, <1>5
<1>7. (A \ {x}) \cup {x} = A
  BY <1>4
<1> QED
  BY <1>3, <1>4, <1>5, <1>6, <1>7

\* A sum of the values of a function, as the library folds it.
Total(w, S) == MapThenSumSet(LAMBDA x : w[x], S)

One(s) == CHOOSE x \in s : TRUE
Sums(w, S, F) ==
  F = [s \in SUBSET S |-> IF s = {} THEN 0 ELSE w[One(s)] + F[s \ {One(s)}]]

LEMMA TotalIsFolded ==
  ASSUME NEW w, NEW S
  PROVE  Total(w, S) = (CHOOSE F : Sums(w, S, F))[S]
BY DEF Total, Sums, One, MapThenSumSet, MapThenFoldSet

LEMMA TotalOfIsFolded ==
  ASSUME NEW T
  PROVE  TotalOf(T) =
           (CHOOSE F : F = [s \in SUBSET T |-> IF s = {} THEN 0 ELSE Value(One(s)) + F[s \ {One(s)}]])[T]
BY DEF TotalOf, One, MapThenSumSet, MapThenFoldSet

LEMMA OneOf == \A s : s # {} => One(s) \in s
BY DEF One

\* The sums up to a number of elements.
SumsUpTo(w, S, n, F) ==
  /\ F = [s \in {a \in SUBSET S : Cardinality(a) <= n} |->
            IF s = {} THEN 0 ELSE w[One(s)] + F[s \ {One(s)}]]

LEMMA SumsExist ==
  ASSUME NEW S, IsFiniteSet(S), NEW w
  PROVE  \E F : Sums(w, S, F)
<1> DEFINE T == {n \in Nat : ~ \E F : SumsUpTo(w, S, n, F)}
           D(n) == {a \in SUBSET S : Cardinality(a) <= n}
<1>1. \A A \in SUBSET S : /\ IsFiniteSet(A) /\ Cardinality(A) \in Nat
                          /\ Cardinality(A) <= Cardinality(S)
                          /\ Cardinality(A) = 0 <=> A = {}
                          /\ \A x \in A : Cardinality(A \ {x}) = Cardinality(A) - 1
  BY FS_Subset, FS_CardinalityType, FS_EmptySet, FS_RemoveElement
<1>2. T = {}
  <2> SUFFICES ASSUME T # {} PROVE FALSE
    OBVIOUS
  <2>1. PICK n \in T : \A k \in T : n <= k
    <3>1. T \subseteq Nat
      OBVIOUS
    <3> HIDE DEF T
    <3> QED
      BY <3>1, LeastNumber
  <2>2. n \in Nat /\ ~ \E F : SumsUpTo(w, S, n, F)
    OBVIOUS
  <2>3. n # 0
    <3> SUFFICES ASSUME n = 0 PROVE FALSE
      OBVIOUS
    <3> DEFINE G == [s \in D(0) |-> 0]
    <3>1. \A s \in D(0) : s = {}
      BY <1>1
    <3>2. G = [s \in D(0) |-> IF s = {} THEN 0 ELSE w[One(s)] + G[s \ {One(s)}]]
      BY <3>1
    <3>3. SumsUpTo(w, S, 0, G)
      BY <3>2 DEF SumsUpTo
    <3> QED
      BY <2>2, <3>3
  <2>4. n - 1 \in Nat /\ n - 1 \notin T
    BY <2>1, <2>2, <2>3
  <2>5. PICK F : SumsUpTo(w, S, n - 1, F)
    BY <2>4
  <2> DEFINE G == [s \in D(n) |-> IF s = {} THEN 0 ELSE w[One(s)] + F[s \ {One(s)}]]
  <2>6. \A s \in D(n - 1) : s \in D(n) /\ F[s] = G[s]
    <3>1. \A s \in D(n - 1) : s \in D(n)
      BY <1>1, <2>2
    <3>2. F = [s \in D(n - 1) |-> IF s = {} THEN 0 ELSE w[One(s)] + F[s \ {One(s)}]]
      BY <2>5 DEF SumsUpTo
    <3>3. \A s \in D(n - 1) : F[s] = IF s = {} THEN 0 ELSE w[One(s)] + F[s \ {One(s)}]
      BY <3>2
    <3>4. \A s \in D(n) : G[s] = IF s = {} THEN 0 ELSE w[One(s)] + F[s \ {One(s)}]
      OBVIOUS
    <3> QED
      BY <3>1, <3>3, <3>4
  <2>7. \A s \in D(n) : s # {} => s \ {One(s)} \in D(n - 1)
    BY <1>1, <2>2, OneOf
  <2>8. G = [s \in D(n) |-> IF s = {} THEN 0 ELSE w[One(s)] + G[s \ {One(s)}]]
    BY <2>6, <2>7
  <2>9. SumsUpTo(w, S, n, G)
    BY <2>8 DEF SumsUpTo
  <2> QED
    BY <2>2, <2>9
<1>3. Cardinality(S) \in Nat /\ Cardinality(S) \notin T
  BY <1>1, <1>2
<1>4. PICK F : SumsUpTo(w, S, Cardinality(S), F)
  BY <1>3
<1>5. D(Cardinality(S)) = SUBSET S
  BY <1>1
<1> QED
  BY <1>4, <1>5 DEF SumsUpTo, Sums

\* Two foldings of the same values agree.
LEMMA SumsAgree ==
  ASSUME NEW S, IsFiniteSet(S), NEW w, NEW v, \A x \in S : w[x] = v[x],
         NEW S1, NEW S2, S \subseteq S1, S \subseteq S2,
         NEW F, NEW G, Sums(w, S1, F), Sums(v, S2, G)
  PROVE  F[S] = G[S]
<1> DEFINE T == {n \in Nat : \E A \in SUBSET S : F[A] # G[A] /\ Cardinality(A) = n}
<1>1. \A A \in SUBSET S : /\ IsFiniteSet(A) /\ Cardinality(A) \in Nat
                          /\ \A x \in A : Cardinality(A \ {x}) = Cardinality(A) - 1
  BY FS_Subset, FS_CardinalityType, FS_RemoveElement
<1> SUFFICES ASSUME T # {} PROVE FALSE
  BY <1>1
<1>2. PICK n \in T : \A k \in T : n <= k
  <2>1. T \subseteq Nat
    OBVIOUS
  <2> HIDE DEF T
  <2> QED
    BY <2>1, LeastNumber
<1>3. PICK A \in SUBSET S : F[A] # G[A] /\ Cardinality(A) = n
  OBVIOUS
<1>4. /\ F[A] = IF A = {} THEN 0 ELSE w[One(A)] + F[A \ {One(A)}]
      /\ G[A] = IF A = {} THEN 0 ELSE v[One(A)] + G[A \ {One(A)}]
  BY <1>3 DEF Sums
<1>5. A # {} /\ One(A) \in A
  BY <1>3, <1>4, OneOf
<1>6. A \ {One(A)} \in SUBSET S /\ Cardinality(A \ {One(A)}) \in Nat
      /\ Cardinality(A \ {One(A)}) < n
  BY <1>1, <1>3, <1>5
<1>7. F[A \ {One(A)}] = G[A \ {One(A)}]
  BY <1>2, <1>6
<1> QED
  BY <1>3, <1>4, <1>5, <1>7

LEMMA TotalIsSums ==
  ASSUME NEW S, IsFiniteSet(S), NEW w
  PROVE  \E F : Sums(w, S, F) /\ \A A \in SUBSET S : Total(w, A) = F[A]
<1> DEFINE F == CHOOSE G : Sums(w, S, G)
<1>1. Sums(w, S, F)
  BY SumsExist
<1>2. ASSUME NEW A \in SUBSET S PROVE Total(w, A) = F[A]
  <2> DEFINE G == CHOOSE H : Sums(w, A, H)
  <2>1. IsFiniteSet(A)
    BY <1>2, FS_Subset
  <2>2. Sums(w, A, G)
    BY <2>1, SumsExist
  <2>3. Total(w, A) = G[A]
    BY TotalIsFolded
  <2> HIDE DEF F, G
  <2>4. G[A] = F[A]
    BY <1>1, <2>1, <2>2, SumsAgree
  <2> QED
    BY <2>3, <2>4
<1> QED
  BY <1>1, <1>2

\* Of no values, and of one value and the rest.
LEMMA TotalOfNone == \A w : Total(w, {}) = 0
<1> TAKE w
<1>1. IsFiniteSet({})
  BY FS_EmptySet
<1>2. PICK F : Sums(w, {}, F) /\ \A A \in SUBSET {} : Total(w, A) = F[A]
  BY <1>1, TotalIsSums
<1> QED
  BY <1>2 DEF Sums

LEMMA TotalUnfolds ==
  ASSUME NEW S, IsFiniteSet(S), S # {}, NEW w
  PROVE  One(S) \in S /\ Total(w, S) = w[One(S)] + Total(w, S \ {One(S)})
<1>1. PICK F : Sums(w, S, F) /\ \A A \in SUBSET S : Total(w, A) = F[A]
  BY TotalIsSums
<1>2. F[S] = w[One(S)] + F[S \ {One(S)}]
  BY <1>1 DEF Sums
<1> QED
  BY <1>1, <1>2, OneOf

LEMMA TotalAgrees ==
  ASSUME NEW S, IsFiniteSet(S), NEW w, NEW v, \A x \in S : w[x] = v[x]
  PROVE  Total(w, S) = Total(v, S)
<1>1. PICK F : Sums(w, S, F) /\ \A A \in SUBSET S : Total(w, A) = F[A]
  BY TotalIsSums
<1>2. PICK G : Sums(v, S, G) /\ \A A \in SUBSET S : Total(v, A) = G[A]
  BY TotalIsSums
<1>3. F[S] = G[S]
  BY <1>1, <1>2, SumsAgree
<1> QED
  BY <1>1, <1>2, <1>3

\* What holds of a set when it holds of the smaller ones holds of a finite set.
LEMMA SmallerFirst ==
  ASSUME NEW S, IsFiniteSet(S), NEW P,
         \A A \in SUBSET S : (\A B \in SUBSET A : B # A => B \in P) => A \in P
  PROVE  \A A \in SUBSET S : A \in P
<1> DEFINE T == {n \in Nat : \E A \in SUBSET S : A \notin P /\ Cardinality(A) = n}
<1>1. \A A \in SUBSET S : IsFiniteSet(A) /\ Cardinality(A) \in Nat
  BY FS_Subset, FS_CardinalityType
<1> SUFFICES ASSUME T # {} PROVE FALSE
  BY <1>1
<1>2. PICK n \in T : \A k \in T : n <= k
  <2>1. T \subseteq Nat
    OBVIOUS
  <2> HIDE DEF T
  <2> QED
    BY <2>1, LeastNumber
<1>3. PICK A \in SUBSET S : A \notin P /\ Cardinality(A) = n
  OBVIOUS
<1>4. ASSUME NEW B \in SUBSET A, B # A PROVE B \in P
  <2>1. Cardinality(B) <= Cardinality(A) /\ Cardinality(B) # Cardinality(A)
    BY <1>1, <1>3, <1>4, FS_Subset
  <2>2. B \in SUBSET S /\ Cardinality(B) \in Nat
    BY <1>1, <1>3
  <2>3. ~ (n <= Cardinality(B))
    BY <1>3, <2>1, <2>2
  <2>4. Cardinality(B) \notin T
    BY <1>2, <2>3
  <2> QED
    BY <2>2, <2>4
<1> QED
  BY <1>3, <1>4

LEMMA TotalIsWhole ==
  ASSUME NEW S, IsFiniteSet(S), NEW w, \A x \in S : w[x] \in Int
  PROVE  \A A \in SUBSET S : Total(w, A) \in Int
<1> DEFINE P == {A \in SUBSET S : Total(w, A) \in Int}
<1>1. ASSUME NEW A \in SUBSET S, \A B \in SUBSET A : B # A => B \in P PROVE A \in P
  <2>1. CASE A = {}
    BY <2>1, TotalOfNone
  <2>2. CASE A # {}
    <3>1. IsFiniteSet(A)
      BY <1>1, FS_Subset
    <3>2. One(A) \in A /\ Total(w, A) = w[One(A)] + Total(w, A \ {One(A)})
      BY <2>2, <3>1, TotalUnfolds
    <3>3. A \ {One(A)} \in SUBSET A /\ A \ {One(A)} # A
      BY <3>2
    <3>4. Total(w, A \ {One(A)}) \in Int
      BY <1>1, <3>3
    <3> QED
      BY <1>1, <3>2, <3>4
  <2> QED
    BY <2>1, <2>2
<1>2. \A A \in SUBSET S : A \in P
  <2> HIDE DEF P
  <2> QED
    BY <1>1, SmallerFirst
<1> QED
  BY <1>2

\* The order of the values does not matter.
LEMMA TotalTakesAny ==
  ASSUME NEW S, IsFiniteSet(S), NEW w, \A x \in S : w[x] \in Int
  PROVE  \A A \in SUBSET S : \A x \in A : Total(w, A) = w[x] + Total(w, A \ {x})
<1> DEFINE P == {A \in SUBSET S : \A x \in A : Total(w, A) = w[x] + Total(w, A \ {x})}
<1>1. ASSUME NEW A \in SUBSET S, \A B \in SUBSET A : B # A => B \in P PROVE A \in P
  <2> SUFFICES ASSUME NEW x \in A PROVE Total(w, A) = w[x] + Total(w, A \ {x})
    OBVIOUS
  <2> DEFINE c == One(A)
  <2>1. IsFiniteSet(A) /\ A # {}
    BY <1>1, FS_Subset
  <2>2. c \in A /\ Total(w, A) = w[c] + Total(w, A \ {c})
    BY <2>1, TotalUnfolds
  <2> HIDE DEF c
  <2>3. CASE x = c
    BY <2>2, <2>3
  <2>4. CASE x # c
    <3>1. A \ {c} \in P /\ A \ {x} \in P
      BY <1>1, <2>2
    <3>2. Total(w, A \ {c}) = w[x] + Total(w, (A \ {c}) \ {x})
      BY <2>4, <3>1
    <3>3. Total(w, A \ {x}) = w[c] + Total(w, (A \ {x}) \ {c})
      BY <2>2, <2>4, <3>1
    <3>4. (A \ {c}) \ {x} = (A \ {x}) \ {c}
      OBVIOUS
    <3>5. (A \ {x}) \ {c} \in SUBSET S /\ w[x] \in Int /\ w[c] \in Int
      BY <2>2
    <3>6. Total(w, (A \ {x}) \ {c}) \in Int
      BY <3>5, TotalIsWhole
    <3>7. \A a, b, z \in Int : a + (b + z) = b + (a + z)
      OBVIOUS
    <3>8. w[c] + (w[x] + Total(w, (A \ {x}) \ {c})) = w[x] + (w[c] + Total(w, (A \ {x}) \ {c}))
      BY <3>5, <3>6, <3>7, Zenon
    <3> QED
      BY <2>2, <3>2, <3>3, <3>4, <3>8, Zenon
  <2> QED
    BY <2>3, <2>4
<1>2. \A A \in SUBSET S : A \in P
  <2> HIDE DEF P
  <2> QED
    BY <1>1, SmallerFirst
<1> QED
  BY <1>2

LEMMA TotalAdds ==
  ASSUME NEW S, IsFiniteSet(S), NEW w, \A x \in S : w[x] \in Int,
         NEW A \in SUBSET S, NEW B \in SUBSET S, A \cap B = {}
  PROVE  Total(w, A \cup B) = Total(w, A) + Total(w, B)
<1> DEFINE P == {C \in SUBSET B : Total(w, A \cup C) = Total(w, A) + Total(w, C)}
<1>0. IsFiniteSet(B)
  BY FS_Subset
<1>1. \A C \in SUBSET S : Total(w, C) \in Int
  BY TotalIsWhole
<1>2. {} \in P
  <2>1. A \cup {} = A /\ Total(w, A) \in Int /\ Total(w, {}) = 0
    BY <1>1, TotalOfNone
  <2> QED
    BY <2>1
<1>3. ASSUME NEW C \in SUBSET B, NEW x \in B \ C, C \in P PROVE C \cup {x} \in P
  <2>1. /\ A \cup (C \cup {x}) \in SUBSET S /\ x \in A \cup (C \cup {x})
        /\ (A \cup (C \cup {x})) \ {x} = A \cup C
    OBVIOUS
  <2>2. C \cup {x} \in SUBSET S /\ x \in C \cup {x} /\ (C \cup {x}) \ {x} = C
    OBVIOUS
  <2>3. Total(w, A \cup (C \cup {x})) = w[x] + Total(w, A \cup C)
    BY <2>1, TotalTakesAny
  <2>4. Total(w, C \cup {x}) = w[x] + Total(w, C)
    BY <2>2, TotalTakesAny
  <2>5. w[x] \in Int /\ Total(w, A) \in Int /\ Total(w, C) \in Int
    BY <1>1
  <2> QED
    BY <1>3, <2>3, <2>4, <2>5
<1>4. B \in P
  <2> HIDE DEF P
  <2>1. \A C \in SUBSET B : \A x \in B \ C : C \in P => C \cup {x} \in P
    BY <1>3
  <2>2. \A C \in SUBSET B : C \in P
    BY <1>0, <1>2, <2>1, FiniteInduction, Zenon
  <2> QED
    BY <2>2
<1> QED
  BY <1>4

\* What is split into parts adds up to the parts.
LEMMA TotalOfParts ==
  ASSUME NEW S, IsFiniteSet(S), NEW w, \A x \in S : w[x] \in Int,
         NEW D, IsFiniteSet(D), NEW part, NEW of, NEW h,
         \A x \in S : part[x] \in D,
         \A d \in D : of[d] \in SUBSET S /\ \A x \in S : x \in of[d] <=> part[x] = d,
         \A d \in D : h[d] = Total(w, of[d])
  PROVE  Total(h, D) = Total(w, S)
<1> DEFINE In(C) == {x \in S : part[x] \in C}
           P == {C \in SUBSET D : Total(h, C) = Total(w, In(C))}
<1>1. \A C \in SUBSET S : Total(w, C) \in Int
  BY TotalIsWhole
<1>2. \A d \in D : h[d] \in Int /\ of[d] = In({d})
  BY <1>1
<1>3. {} \in P
  BY TotalOfNone
<1>4. ASSUME NEW C \in SUBSET D, NEW d \in D \ C, C \in P PROVE C \cup {d} \in P
  <2>1. Total(h, C \cup {d}) = h[d] + Total(h, (C \cup {d}) \ {d})
    <3>1. C \cup {d} \in SUBSET D /\ d \in C \cup {d}
      OBVIOUS
    <3> QED
      BY <1>2, <3>1, TotalTakesAny
  <2>2. (C \cup {d}) \ {d} = C
    OBVIOUS
  <2>3. Total(w, In({d}) \cup In(C)) = Total(w, In({d})) + Total(w, In(C))
    <3>1. In({d}) \in SUBSET S /\ In(C) \in SUBSET S /\ In({d}) \cap In(C) = {}
      OBVIOUS
    <3>2. \A X, Y \in SUBSET S : X \cap Y = {} => Total(w, X \cup Y) = Total(w, X) + Total(w, Y)
      BY TotalAdds
    <3> HIDE DEF In, P
    <3> QED
      BY <3>1, <3>2
  <2>4. In(C \cup {d}) = In({d}) \cup In(C) /\ h[d] = Total(w, In({d}))
    BY <1>2
  <2> QED
    BY <1>4, <2>1, <2>2, <2>3, <2>4
<1>5. D \in P
  <2> HIDE DEF P
  <2>1. \A C \in SUBSET D : \A d \in D \ C : C \in P => C \cup {d} \in P
    BY <1>4
  <2>2. \A C \in SUBSET D : C \in P
    BY <1>3, <2>1, FiniteInduction, Zenon
  <2> QED
    BY <2>2
<1>6. In(D) = S
  OBVIOUS
<1> QED
  BY <1>5, <1>6

LEMMA TotalOfDifferences ==
  ASSUME NEW S, IsFiniteSet(S), NEW w, NEW v, NEW u,
         \A x \in S : w[x] \in Int /\ v[x] \in Int /\ u[x] = w[x] - v[x]
  PROVE  Total(u, S) = Total(w, S) - Total(v, S)
<1> DEFINE P == {A \in SUBSET S : Total(u, A) = Total(w, A) - Total(v, A)}
<1>1. \A x \in S : u[x] \in Int
  OBVIOUS
<1>2. {} \in P
  BY TotalOfNone
<1>3. ASSUME NEW A \in SUBSET S, NEW x \in S \ A, A \in P PROVE A \cup {x} \in P
  <2>1. A \cup {x} \in SUBSET S /\ x \in A \cup {x} /\ (A \cup {x}) \ {x} = A
    OBVIOUS
  <2>2. /\ Total(u, A \cup {x}) = u[x] + Total(u, A)
        /\ Total(w, A \cup {x}) = w[x] + Total(w, A)
        /\ Total(v, A \cup {x}) = v[x] + Total(v, A)
    BY <1>1, <2>1, TotalTakesAny
  <2>3. Total(w, A) \in Int /\ Total(v, A) \in Int
    BY TotalIsWhole
  <2> QED
    BY <1>3, <2>1, <2>2, <2>3
<1>4. S \in P
  <2> HIDE DEF P
  <2> QED
    BY <1>2, <1>3, FiniteInduction
<1> QED
  BY <1>4

LEMMA TotalGrows ==
  ASSUME NEW S, IsFiniteSet(S), NEW w, \A x \in S : w[x] \in Nat, NEW A \in SUBSET S
  PROVE  Total(w, A) \in Nat /\ Total(w, A) <= Total(w, S)
<1> DEFINE P == {B \in SUBSET S : Total(w, B) \in Nat}
<1>1. {} \in P
  BY TotalOfNone
<1>2. ASSUME NEW B \in SUBSET S, NEW x \in S \ B, B \in P PROVE B \cup {x} \in P
  <2>1. B \cup {x} \in SUBSET S /\ x \in B \cup {x} /\ (B \cup {x}) \ {x} = B
    OBVIOUS
  <2>2. \A y \in S : w[y] \in Int
    OBVIOUS
  <2>3. Total(w, B \cup {x}) = w[x] + Total(w, B)
    BY <2>1, <2>2, TotalTakesAny
  <2> QED
    BY <1>2, <2>1, <2>3
<1>3. \A B \in SUBSET S : B \in P
  <2> HIDE DEF P
  <2> QED
    BY <1>1, <1>2, FiniteInduction
<1>4. Total(w, A \cup (S \ A)) = Total(w, A) + Total(w, S \ A)
  <2>1. \A y \in S : w[y] \in Int
    OBVIOUS
  <2>2. A \cap (S \ A) = {} /\ S \ A \in SUBSET S
    OBVIOUS
  <2> QED
    BY <2>1, <2>2, TotalAdds
<1>5. A \cup (S \ A) = S
  OBVIOUS
<1>6. Total(w, A) \in Nat /\ Total(w, S \ A) \in Nat
  BY <1>3
<1>7. Total(w, S) = Total(w, A) + Total(w, S \ A)
  BY <1>4, <1>5, Zenon
<1> QED
  BY <1>6, <1>7

LEMMA ImageIsFinite ==
  ASSUME NEW S, IsFiniteSet(S), NEW f
  PROVE  IsFiniteSet({f[x] : x \in S})
<1> DEFINE T == {f[x] : x \in S}
           g == [x \in S |-> f[x]]
<1>1. g \in [S -> T] /\ \A y \in T : \E x \in S : g[x] = y
  OBVIOUS
<1> HIDE DEF g, T
<1>2. g \in Surjection(S, T)
  BY <1>1 DEF Surjection
<1>3. IsFiniteSet(T)
  BY <1>2, FS_Surjection
<1> QED
  BY <1>3 DEF T

-----------------------------------------------------------------------------
(* Totals of transactions.                                                 *)

ValuesOf(U) == [t \in U |-> Value(t)]

LEMMA TotalOfIsTotal ==
  ASSUME NEW U, IsFiniteSet(U)
  PROVE  \A T \in SUBSET U : TotalOf(T) = Total(ValuesOf(U), T)
<1> SUFFICES ASSUME NEW T \in SUBSET U PROVE TotalOf(T) = Total(ValuesOf(U), T)
  OBVIOUS
<1> DEFINE w == ValuesOf(U)
           Folds(F) == F = [s \in SUBSET T |-> IF s = {} THEN 0 ELSE Value(One(s)) + F[s \ {One(s)}]]
           F == CHOOSE G : Folds(G)
<1>0. IsFiniteSet(T)
  BY FS_Subset
<1>1. \A s \in SUBSET T : s # {} => Value(One(s)) = w[One(s)]
  BY OneOf DEF ValuesOf
<1> HIDE DEF w
<1>2. ASSUME NEW G PROVE Folds(G) <=> Sums(w, T, G)
  <2>1. [s \in SUBSET T |-> IF s = {} THEN 0 ELSE Value(One(s)) + G[s \ {One(s)}]]
          = [s \in SUBSET T |-> IF s = {} THEN 0 ELSE w[One(s)] + G[s \ {One(s)}]]
    BY <1>1
  <2> QED
    BY <2>1 DEF Sums
<1>3. PICK G : Sums(w, T, G) /\ \A A \in SUBSET T : Total(w, A) = G[A]
  BY <1>0, TotalIsSums
<1>4. Folds(F)
  <2>1. Folds(G)
    BY <1>2, <1>3
  <2> HIDE DEF Folds
  <2> QED
    BY <2>1, Zenon
<1>5. Sums(w, T, F)
  BY <1>2, <1>4
<1>6. F[T] = G[T]
  BY <1>0, <1>3, <1>5, SumsAgree
<1>7. TotalOf(T) = F[T]
  BY TotalOfIsFolded
<1> QED
  BY <1>3, <1>6, <1>7 DEF w

\* Finitely many transactions with whole amounts, none of a later day.
Recorded(U, day) ==
  IsFiniteSet(U) /\ \A t \in U : t.amount \in Int /\ t.day \in Int /\ t.day <= day

LEMMA Totals ==
  ASSUME NEW U, NEW day, Recorded(U, day)
  PROVE  /\ TotalOf({}) = 0
         /\ \A T \in SUBSET U : TotalOf(T) \in Nat
         /\ \A A, B \in SUBSET U : A \cap B = {} => TotalOf(A \cup B) = TotalOf(A) + TotalOf(B)
         /\ \A A, B \in SUBSET U : A \subseteq B => TotalOf(A) <= TotalOf(B)
<1> DEFINE w == ValuesOf(U)
<1>0. IsFiniteSet(U)
  BY DEF Recorded
<1>1. \A T \in SUBSET U : TotalOf(T) = Total(w, T)
  BY <1>0, TotalOfIsTotal
<1>2. \A t \in U : w[t] \in Nat /\ w[t] \in Int
  BY DEF Recorded, ValuesOf, Value, Size
<1> HIDE DEF w
<1>3. TotalOf({}) = 0
  BY <1>1, TotalOfNone
<1>4. \A T \in SUBSET U : TotalOf(T) \in Nat
  BY <1>0, <1>1, <1>2, TotalGrows
<1>5. \A A, B \in SUBSET U : A \cap B = {} => TotalOf(A \cup B) = TotalOf(A) + TotalOf(B)
  <2>1. \A A, B \in SUBSET U : A \cap B = {} => Total(w, A \cup B) = Total(w, A) + Total(w, B)
    BY <1>0, <1>2, TotalAdds
  <2>2. \A A, B \in SUBSET U : A \cup B \in SUBSET U
    OBVIOUS
  <2> QED
    BY <1>1, <2>1, <2>2
<1>6. \A A, B \in SUBSET U : A \subseteq B => TotalOf(A) <= TotalOf(B)
  <2> SUFFICES ASSUME NEW A \in SUBSET U, NEW B \in SUBSET U, A \subseteq B
               PROVE  TotalOf(A) <= TotalOf(B)
    OBVIOUS
  <2>1. A \in SUBSET B /\ IsFiniteSet(B) /\ \A t \in B : w[t] \in Nat
    BY <1>0, <1>2, FS_Subset
  <2>2. Total(w, A) <= Total(w, B)
    BY <2>1, TotalGrows
  <2> QED
    BY <1>1, <2>2
<1> QED
  BY <1>3, <1>4, <1>5, <1>6

\* What is counted in parts, by a value that each transaction has.
LEMMA TotalByPart ==
  ASSUME NEW U, NEW day, Recorded(U, day), NEW T \in SUBSET U,
         NEW D, IsFiniteSet(D), NEW part, NEW h,
         \A d \in D : h[d] = TotalOf({t \in T : part[t] = d}),
         \A t \in T : part[t] \in D
  PROVE  Total(h, D) = TotalOf(T)
<1> DEFINE w == ValuesOf(U)
<1>0. IsFiniteSet(U) /\ IsFiniteSet(T)
  BY FS_Subset DEF Recorded
<1>1. \A S \in SUBSET U : TotalOf(S) = Total(w, S)
  BY <1>0, TotalOfIsTotal
<1>2. \A t \in T : w[t] \in Int
  BY DEF Recorded, ValuesOf, Value, Size
<1> HIDE DEF w
<1>3. \A d \in D : h[d] = Total(w, {t \in T : part[t] = d})
  <2>1. \A d : {t \in T : part[t] = d} \in SUBSET U
    OBVIOUS
  <2> QED
    BY <1>1, <2>1
<1> DEFINE of == [d \in D |-> {t \in T : part[t] = d}]
<1>4. \A d \in D : of[d] \in SUBSET T /\ \A t \in T : t \in of[d] <=> part[t] = d
  OBVIOUS
<1>5. \A d \in D : h[d] = Total(w, of[d])
  BY <1>3
<1> HIDE DEF of
<1>6. Total(h, D) = Total(w, T)
  BY <1>0, <1>2, <1>4, <1>5, TotalOfParts
<1> QED
  BY <1>1, <1>6

\* What was counted up to a day, and what from it on.
LEMMA TotalsMeet ==
  ASSUME NEW U, NEW day, Recorded(U, day), NEW T \in SUBSET U,
         NEW a \in Int, NEW b \in Int, NEW c \in Int, a <= b, b <= c
  PROVE  TotalOf(Between(T, a, c)) = TotalOf(Between(T, a, b)) + TotalOf(Between(T, b, c))
<1>1. \A t \in T : t.day \in Int
  BY DEF Recorded
<1>2. Between(T, a, c) = Between(T, a, b) \cup Between(T, b, c)
  BY <1>1 DEF Between
<1>3. Between(T, a, b) \cap Between(T, b, c) = {}
  BY <1>1 DEF Between
<1>4. Between(T, a, b) \in SUBSET U /\ Between(T, b, c) \in SUBSET U
  BY DEF Between
<1>5. \A A, B \in SUBSET U : A \cap B = {} => TotalOf(A \cup B) = TotalOf(A) + TotalOf(B)
  BY Totals
<1>6. TotalOf(Between(T, a, b) \cup Between(T, b, c))
        = TotalOf(Between(T, a, b)) + TotalOf(Between(T, b, c))
  BY <1>3, <1>4, <1>5
<1> QED
  BY <1>2, <1>6

-----------------------------------------------------------------------------
(* The transactions of the household.                                      *)

\* The budget shown is of what is recorded, as of the day the app was opened.
RecordsInv ==
  /\ HouseholdInv
  /\ Recorded(txs, today)
  /\ \A i \in DOMAIN cats : cats[i] \in BudgetCategories
  /\ budget = BuildBudget(set, cats, txs, now)

LEMMA OneMoreIsRecorded ==
  ASSUME NEW U, NEW day, Recorded(U, day), NEW t, t.amount \in Int, t.day \in Int, t.day <= day
  PROVE  Recorded(U \cup {t}, day)
BY FS_AddElement DEF Recorded

LEMMA RecordsStart == HouseholdInit => RecordsInv
<1> SUFFICES ASSUME HouseholdInit PROVE RecordsInv
  OBVIOUS
<1>1. Recorded(txs, today)
  BY FS_EmptySet DEF HouseholdInit, Recorded
<1>2. \A i \in DOMAIN cats : cats[i] \in BudgetCategories
  BY HouseholdAssumption DEF HouseholdInit
<1> QED
  BY <1>1, <1>2, HouseholdStarts DEF HouseholdInit, RecordsInv

LEMMA RecordsStep == RecordsInv /\ [HouseholdNext]_householdVars => RecordsInv'
<1> SUFFICES ASSUME RecordsInv, [HouseholdNext]_householdVars PROVE RecordsInv'
  OBVIOUS
<1>0. HouseholdInv'
  BY HouseholdSteps DEF RecordsInv
<1>1. /\ Recorded(txs, today) /\ today \in Int /\ now \in Int /\ now <= today
      /\ set.expected \in Int /\ set \in BudgetSettings
      /\ \A i \in DOMAIN cats : cats[i] \in BudgetCategories
  BY DaysPlayed DEF RecordsInv, HouseholdInv, BudgetSettings
<1>2. CASE NextDay
  <2>1. Recorded(txs', today')
    BY <1>1, <1>2 DEF NextDay, Recorded
  <2> QED
    BY <1>0, <1>2, <2>1 DEF NextDay, RecordsInv
<1>3. ASSUME Recomputed, today' = today, Recorded(txs', today),
             \A i \in DOMAIN cats' : cats'[i] \in BudgetCategories
      PROVE  RecordsInv'
  BY <1>0, <1>3 DEF Recomputed, RecordsInv
<1>4. CASE Reopen
  BY <1>1, <1>3, <1>4 DEF Reopen
<1>5. ASSUME NEW t, t.amount \in Int, t.day \in Int, t.day <= today, Add(t) PROVE RecordsInv'
  <2>1. Recorded(txs \cup {t}, today)
    BY <1>1, <1>5, OneMoreIsRecorded
  <2> QED
    BY <1>1, <1>3, <1>5, <2>1 DEF Add
<1>6. \A n \in Amounts : n \in Int /\ 1 * n \in Int /\ -1 * n \in Int
  BY HouseholdAssumption
<1>7. CASE EnterSpending
  <2>1. PICK cat \in Ids, n \in Amounts, d \in today - BackDays .. today : Add(Entry("spend", cat, n, d))
    BY <1>7 DEF EnterSpending
  <2>2. d \in Int /\ d <= today
    BY <1>1, HouseholdAssumption
  <2> QED
    BY <1>5, <1>6, <2>1, <2>2 DEF Entry
<1>8. CASE EnterIncome
  BY <1>1, <1>5, <1>6, <1>8 DEF EnterIncome, Entry
<1>9. CASE PutAsideOrTakeBack
  <2>1. PICK cat \in PotIds, n \in Amounts, sign \in {-1, 1} : Add(Entry("transfer", cat, sign * n, today))
    BY <1>9 DEF PutAsideOrTakeBack
  <2> QED
    BY <1>1, <1>5, <1>6, <2>1 DEF Entry
<1>10. CASE RemoveEntry
  <2>1. PICK t \in txs : txs' = txs \ {t}
    BY <1>10 DEF RemoveEntry
  <2>2. Recorded(txs', today)
    BY <1>1, <2>1, FS_RemoveElement DEF Recorded
  <2> QED
    BY <1>1, <1>3, <1>10, <2>2 DEF RemoveEntry
<1>11. CASE CreditMissing
  <2> DEFINE s == budget.settings
             cycles == CyclesBetween(budget.start, now, s)
             due == MissingPaydays(s, budget.start, now, set.expected, txs)
             credit(p) == [id |-> p.day, kind |-> "income", cat |-> NoCategory,
                           amount |-> p.amount, day |-> p.day, auto |-> TRUE]
  <2>1. /\ txs' = txs \cup {credit(p) : p \in due} /\ Cardinality(due) = 1
        /\ today' = today /\ Recomputed
    BY <1>11 DEF CreditMissing
  <2>2. /\ cycles \in Seq(CyclesOf(CycleFor(budget.start, s).start .. CycleFor(now, s).start, s))
        /\ \A i \in DOMAIN cycles : IsCycle(cycles[i])
    <3>1. HouseholdInv /\ now \in FirstDay .. LastDay
      BY DaysPlayed DEF RecordsInv, HouseholdInv
    <3> QED
      BY <3>1, WalkedDaysFit, CyclesBetweenAreCycles
  <2>3. DOMAIN cycles = 1 .. Len(cycles) /\ Len(cycles) \in Nat
    <3> HIDE DEF cycles, s
    <3> QED
      BY <2>2
  <2>4. ASSUME NEW p \in due
        PROVE  \E i \in DOMAIN cycles :
                 p = [day |-> cycles[i].start, amount |-> set.expected] /\ cycles[i].start <= now
    <3> HIDE DEF cycles
    <3> QED
      BY <2>4, Zenon DEF MissingPaydays, Creditable, cycles
  <2>5. IsFiniteSet(due)
    <3> DEFINE f == [i \in DOMAIN cycles |-> [day |-> cycles[i].start, amount |-> set.expected]]
    <3>1. IsFiniteSet(DOMAIN cycles)
      BY <2>3, FS_Interval
    <3>2. IsFiniteSet({f[i] : i \in DOMAIN cycles})
      <4> HIDE DEF f, cycles
      <4> QED
        BY <3>1, ImageIsFinite
    <3>3. due \in SUBSET {f[i] : i \in DOMAIN cycles}
      <4> HIDE DEF cycles, due
      <4> QED
        BY <2>4
    <3> HIDE DEF f, due, cycles
    <3> QED
      BY <3>2, <3>3, FS_Subset
  <2>6. PICK p : due = {p}
    <3> HIDE DEF due
    <3> QED
      BY <2>1, <2>5, FS_Singleton
  <2>7. p.amount \in Int /\ p.day \in Int /\ p.day <= today
    <3> HIDE DEF cycles, due
    <3>1. PICK i \in DOMAIN cycles :
            p = [day |-> cycles[i].start, amount |-> set.expected] /\ cycles[i].start <= now
      BY <2>4, <2>6
    <3>2. cycles[i].start \in Int
      BY <2>2 DEF IsCycle
    <3> QED
      BY <1>1, <3>1, <3>2
  <2>8. txs' = txs \cup {credit(p)}
    <3> HIDE DEF due
    <3> QED
      BY <2>1, <2>6
  <2>9. Recorded(txs', today)
    <3>1. credit(p).amount \in Int /\ credit(p).day \in Int /\ credit(p).day <= today
      BY <2>7
    <3> HIDE DEF credit
    <3> QED
      BY <1>1, <2>8, <3>1, OneMoreIsRecorded
  <2> QED
    BY <1>1, <1>3, <1>11, <2>1, <2>9 DEF CreditMissing
<1>12. CASE MeasureCash
  BY <1>1, <1>3, <1>12 DEF MeasureCash
<1>13. CASE RemoveCategory
  <2>1. PICK i \in DOMAIN cats : cats' = [cats EXCEPT ![i].deleted = TRUE]
    BY <1>13 DEF RemoveCategory
  <2>2. [cats[i] EXCEPT !.deleted = TRUE] \in BudgetCategories
    BY <1>1 DEF BudgetCategories
  <2>3. \A j \in DOMAIN cats' : cats'[j] \in BudgetCategories
    BY <1>1, <2>1, <2>2
  <2> QED
    BY <1>1, <1>3, <1>13, <2>3 DEF RemoveCategory
<1>14. CASE UNCHANGED householdVars
  BY <1>0, <1>14 DEF householdVars, RecordsInv
<1> QED
  BY <1>2, <1>4, <1>7, <1>8, <1>9, <1>10, <1>11, <1>12, <1>13, <1>14 DEF HouseholdNext

LEMMA RecordsHold == HouseholdSpec => []RecordsInv
BY RecordsStart, RecordsStep, PTL DEF HouseholdSpec

-----------------------------------------------------------------------------
(* The report.                                                             *)

\* The month of a day, and the one before it.
LEMMA MonthPeriods ==
  ASSUME NEW d \in Int
  PROVE  LET m == MonthOf(d) IN
         /\ m \in Int /\ MonthStart(m) \in Int /\ MonthStart(m + 1) \in Int
         /\ MonthStart(m) < MonthStart(m + 1)
         /\ MonthOf(MonthStart(m)) = m
<1> DEFINE m == MonthOf(d)
<1>1. m \in Int
  BY EveryDayHasAMonth
<1> HIDE DEF m
<1>2. /\ MonthStart(m) \in Int /\ MonthStart(m + 1) \in Int /\ MonthLength(m) \in Nat \ {0}
      /\ MonthStart(m + 1) = MonthStart(m) + MonthLength(m)
  BY <1>1, MonthsFollow
<1>3. InMonth(MonthStart(m), m)
  BY <1>2 DEF InMonth
<1> QED
  BY <1>1, <1>2, <1>3, MonthIsUnique DEF m

\* The sum of what a report says of the categories now.
LEMMA TotalNow ==
  ASSUME NEW b, NEW D, IsFiniteSet(D)
  PROVE  MapThenSumSet(LAMBDA c : b[c].now, D) = Total([c \in D |-> b[c].now], D)
<1> DEFINE w == [c \in D |-> b[c].now]
           Folds(F) == F = [s \in SUBSET D |-> IF s = {} THEN 0 ELSE b[One(s)].now + F[s \ {One(s)}]]
           F == CHOOSE G : Folds(G)
<1>1. \A s \in SUBSET D : s # {} => b[One(s)].now = w[One(s)]
  BY OneOf
<1> HIDE DEF w
<1>2. ASSUME NEW G PROVE Folds(G) <=> Sums(w, D, G)
  <2>1. [s \in SUBSET D |-> IF s = {} THEN 0 ELSE b[One(s)].now + G[s \ {One(s)}]]
          = [s \in SUBSET D |-> IF s = {} THEN 0 ELSE w[One(s)] + G[s \ {One(s)}]]
    BY <1>1
  <2> QED
    BY <2>1 DEF Sums
<1>3. PICK G : Sums(w, D, G) /\ \A A \in SUBSET D : Total(w, A) = G[A]
  BY TotalIsSums
<1>4. Folds(F)
  <2>1. Folds(G)
    BY <1>2, <1>3
  <2> HIDE DEF Folds
  <2> QED
    BY <2>1, Zenon
<1>5. Sums(w, D, F)
  BY <1>2, <1>4
<1>6. F[D] = G[D]
  BY <1>3, <1>5, SumsAgree
<1>7. MapThenSumSet(LAMBDA c : b[c].now, D) = F[D]
  BY DEF One, MapThenSumSet, MapThenFoldSet
<1> QED
  BY <1>3, <1>6, <1>7 DEF w

LEMMA DaysOfReport ==
  ASSUME NEW U, NEW day, Recorded(U, day), NEW p, IsCycle(p), NEW q
  PROVE  LET r == Report(U, p, q) IN
         r.spent = MapThenSumSet(LAMBDA i : r.daily[i], DOMAIN r.daily)
<1> DEFINE r == Report(U, p, q)
           T == Spending(During(U, p))
           D == Buckets(p)
           h == r.daily
           part == [t \in T |-> t.day - p.start]
<1>1. /\ r.spent = TotalOf(T)
      /\ h = [i \in D |-> TotalOf({t \in T : t.day = p.start + i})]
  BY DEF Report
<1>2. /\ T \in SUBSET U /\ p.start \in Int /\ p.end \in Int
      /\ \A t \in T : t.day \in Int /\ p.start <= t.day /\ t.day < p.end
  BY DEF Spending, During, Between, Recorded, IsCycle
<1> HIDE DEF r, T, h
<1>3. IsFiniteSet(D) /\ \A i \in D : i \in Int
  BY <1>2, FS_Interval DEF Buckets
<1>4. \A t \in T : part[t] \in D
  BY <1>2 DEF Buckets
<1>5. ASSUME NEW i \in D PROVE h[i] = TotalOf({t \in T : part[t] = i})
  <2>1. {t \in T : t.day = p.start + i} = {t \in T : part[t] = i}
    BY <1>2, <1>3
  <2>2. h[i] = TotalOf({t \in T : t.day = p.start + i})
    BY <1>1
  <2> QED
    BY <2>1, <2>2
<1> HIDE DEF part, D
<1>6. Total(h, D) = TotalOf(T)
  BY <1>2, <1>3, <1>4, <1>5, TotalByPart
<1>7. DOMAIN h = D
  BY <1>1
<1>8. MapThenSumSet(LAMBDA i : h[i], DOMAIN h) = Total(h, DOMAIN h)
  BY DEF Total
<1> QED
  BY <1>1, <1>6, <1>7, <1>8, Zenon DEF r, h

LEMMA CategoriesOfReport ==
  ASSUME NEW U, NEW day, Recorded(U, day), NEW p, NEW q
  PROVE  LET r == Report(U, p, q) IN
         r.spent = MapThenSumSet(LAMBDA c : r.byCategory[c].now, DOMAIN r.byCategory)
<1> DEFINE r == Report(U, p, q)
           T == Spending(During(U, p))
           b == r.byCategory
           D == {t.cat : t \in T}
           part == [t \in T |-> t.cat]
           h == [c \in D |-> b[c].now]
<1>1. /\ r.spent = TotalOf(T) /\ DOMAIN b = D
      /\ \A c \in D : b[c].now = TotalOf(Spending(OfCategory(During(U, p), c)))
  BY DEF Report
<1>2. T \in SUBSET U
  BY DEF Spending, During, Between
<1>3. \A c : Spending(OfCategory(During(U, p), c)) = {t \in T : t.cat = c}
  BY DEF Spending, OfCategory
<1> HIDE DEF r, T, b
<1>4. IsFiniteSet(D)
  <2>1. IsFiniteSet(T)
    BY <1>2, FS_Subset DEF Recorded
  <2>2. IsFiniteSet({part[t] : t \in T})
    <3> HIDE DEF part
    <3> QED
      BY <2>1, ImageIsFinite
  <2>3. {part[t] : t \in T} = D
    OBVIOUS
  <2> QED
    BY <2>2, <2>3
<1>5. \A t \in T : part[t] \in D
  OBVIOUS
<1>6. \A c \in D : h[c] = TotalOf({t \in T : part[t] = c})
  <2> SUFFICES ASSUME NEW c \in D PROVE h[c] = TotalOf({t \in T : part[t] = c})
    OBVIOUS
  <2>1. {t \in T : part[t] = c} = {t \in T : t.cat = c}
    OBVIOUS
  <2> QED
    BY <1>1, <1>3, <2>1
<1>7. MapThenSumSet(LAMBDA c : b[c].now, D) = Total(h, D)
  <2> HIDE DEF D
  <2> QED
    BY <1>4, TotalNow
<1> HIDE DEF part, D, h
<1>8. Total(h, D) = TotalOf(T)
  BY <1>2, <1>4, <1>5, <1>6, TotalByPart
<1> QED
  BY <1>1, <1>7, <1>8, Zenon DEF r, b

LEMMA DaysOfActivity ==
  ASSUME NEW U, NEW day, Recorded(U, day), NEW P \in SUBSET U
  PROVE  TotalOf(Income(P)) - TotalOf(Spending(P))
           = MapThenSumSet(LAMBDA x : GroupByDay(P)[x], DOMAIN GroupByDay(P))
<1> DEFINE u == GroupByDay(P)
           D == {t.day : t \in P}
           part == [t \in P |-> t.day]
           w == [d \in D |-> TotalOf({t \in Income(P) : t.day = d})]
           v == [d \in D |-> TotalOf({t \in Spending(P) : t.day = d})]
<1>1. DOMAIN u = D /\ \A d \in D : u[d] = w[d] - v[d]
  BY DEF GroupByDay, NetOfDay
<1>2. Income(P) \in SUBSET U /\ Spending(P) \in SUBSET U
  BY DEF Income, Spending
<1>3. IsFiniteSet(D)
  <2>1. IsFiniteSet(P)
    BY FS_Subset DEF Recorded
  <2>2. IsFiniteSet({part[t] : t \in P})
    <3> HIDE DEF part
    <3> QED
      BY <2>1, ImageIsFinite
  <2>3. {part[t] : t \in P} = D
    OBVIOUS
  <2> QED
    BY <2>2, <2>3
<1>4. ASSUME NEW T \in SUBSET P, NEW h, \A d \in D : h[d] = TotalOf({t \in T : t.day = d})
      PROVE  Total(h, D) = TotalOf(T)
  <2>1. \A d \in D : h[d] = TotalOf({t \in T : part[t] = d})
    <3> SUFFICES ASSUME NEW d \in D PROVE h[d] = TotalOf({t \in T : part[t] = d})
      OBVIOUS
    <3>1. {t \in T : part[t] = d} = {t \in T : t.day = d}
      OBVIOUS
    <3> QED
      BY <1>4, <3>1
  <2>2. \A t \in T : part[t] \in D
    OBVIOUS
  <2>3. T \in SUBSET U
    OBVIOUS
  <2> HIDE DEF part, D
  <2> QED
    BY <1>3, <2>1, <2>2, <2>3, TotalByPart
<1>5. Total(w, D) = TotalOf(Income(P))
  <2>1. Income(P) \in SUBSET P /\ \A d \in D : w[d] = TotalOf({t \in Income(P) : t.day = d})
    BY DEF Income
  <2> HIDE DEF w, D
  <2> QED
    BY <1>4, <2>1
<1>6. Total(v, D) = TotalOf(Spending(P))
  <2>1. Spending(P) \in SUBSET P /\ \A d \in D : v[d] = TotalOf({t \in Spending(P) : t.day = d})
    BY DEF Spending
  <2> HIDE DEF v, D
  <2> QED
    BY <1>4, <2>1
<1>7. \A d \in D : w[d] \in Int /\ v[d] \in Int
  <2>1. \A d : {t \in Income(P) : t.day = d} \in SUBSET U /\ {t \in Spending(P) : t.day = d} \in SUBSET U
    BY <1>2
  <2>2. \A T \in SUBSET U : TotalOf(T) \in Int
    BY Totals
  <2>3. \A d \in D : /\ w[d] = TotalOf({t \in Income(P) : t.day = d})
                    /\ v[d] = TotalOf({t \in Spending(P) : t.day = d})
    OBVIOUS
  <2> HIDE DEF w, v, D
  <2> QED
    BY <2>1, <2>2, <2>3
<1> HIDE DEF u, w, v, D
<1>8. Total(u, D) = Total(w, D) - Total(v, D)
  BY <1>1, <1>3, <1>7, TotalOfDifferences
<1>9. MapThenSumSet(LAMBDA x : u[x], DOMAIN u) = Total(u, DOMAIN u)
  BY DEF Total
<1> QED
  BY <1>1, <1>5, <1>6, <1>8, <1>9, Zenon DEF u

LEMMA ReportsAddUp == RecordsInv => ReportAddsUp
<1> SUFFICES ASSUME RecordsInv PROVE ReportAddsUp
  OBVIOUS
<1> DEFINE m == MonthOf(now)
           month == MonthPeriod(now)
           prev == PrevMonthPeriod(month)
           r == Report(txs, month, prev)
           d == Derive(txs, cats, now, 10)
           days == GroupByDay(During(txs, month))
           history == MonthHistory(txs, now, 2)
           P == During(txs, month)
<1>1. /\ Recorded(txs, today) /\ now \in Int
  BY DaysPlayed DEF RecordsInv, HouseholdInv
<1>2. /\ m \in Int /\ MonthStart(m) \in Int /\ MonthStart(m + 1) \in Int
      /\ MonthStart(m) < MonthStart(m + 1) /\ MonthOf(MonthStart(m)) = m
  BY <1>1, MonthPeriods
<1>3. /\ month = [start |-> MonthStart(m), end |-> MonthStart(m + 1)]
      /\ prev = [start |-> MonthStart(m - 1), end |-> MonthStart(m)]
  BY <1>2 DEF MonthPeriod, PrevMonthPeriod
<1>4. IsCycle(month)
  <2> HIDE DEF month, m
  <2> QED
    BY <1>2, <1>3 DEF IsCycle
<1>5. r.spent = TotalOf(Spending(P)) /\ r.income = TotalOf(Income(P))
  BY DEF Report
<1>6. P \in SUBSET txs /\ Spending(P) \in SUBSET txs
  BY DEF During, Between, Spending
<1>7. r.spent = d.monthTotal
  <2> DEFINE S == Spending(P)
             A == FlexSpending(S, cats)
             B == FixedSpending(S, cats)
  <2>1. A \cup B = S /\ A \cap B = {} /\ A \in SUBSET txs /\ B \in SUBSET txs
    BY <1>6 DEF FlexSpending, FixedSpending
  <2>2. d.monthTotal = TotalOf(A) + TotalOf(B)
    BY DEF Derive
  <2>3. \A X, Y \in SUBSET txs : X \cap Y = {} => TotalOf(X \cup Y) = TotalOf(X) + TotalOf(Y)
    BY <1>1, Totals
  <2> HIDE DEF A, B, S, r, d
  <2>4. TotalOf(A \cup B) = TotalOf(A) + TotalOf(B)
    BY <2>1, <2>3
  <2> QED
    BY <1>5, <2>1, <2>2, <2>4 DEF S
<1>8. /\ history[1] = TotalOf(Spending(Between(txs, MonthStart(m - 1), MonthStart(m))))
      /\ history[2] = TotalOf(Spending(Between(txs, MonthStart(m), MonthStart(m + 1))))
  <2>1. m - (2 - 1) = m - 1 /\ m - (2 - 2) = m /\ (m - 1) + 1 = m
    BY <1>2
  <2>2. 1 \in 1 .. 2 /\ 2 \in 1 .. 2
    OBVIOUS
  <2>3. \A i \in 1 .. 2 : history[i] =
          TotalOf(Spending(Between(txs, MonthStart(m - (2 - i)), MonthStart((m - (2 - i)) + 1))))
    BY DEF MonthHistory
  <2> HIDE DEF history, m
  <2> QED
    BY <2>1, <2>2, <2>3
<1>9. P = Between(txs, MonthStart(m), MonthStart(m + 1))
      /\ During(txs, prev) = Between(txs, MonthStart(m - 1), MonthStart(m))
  <2> HIDE DEF month, prev, m
  <2> QED
    BY <1>3 DEF During
<1>10. ASSUME NEW c \in DOMAIN r.byCategory PROVE r.byCategory[c].prev <= history[1]
  <2> DEFINE Q == During(txs, prev)
  <2>1. r.byCategory[c].prev = TotalOf(Spending(OfCategory(Q, c)))
    BY <1>10 DEF Report
  <2>2. /\ Spending(OfCategory(Q, c)) \subseteq Spending(Q)
        /\ Spending(OfCategory(Q, c)) \in SUBSET txs /\ Spending(Q) \in SUBSET txs
    BY DEF Spending, OfCategory, During, Between
  <2>3. \A X, Y \in SUBSET txs : X \subseteq Y => TotalOf(X) <= TotalOf(Y)
    BY <1>1, Totals
  <2>4. TotalOf(Spending(OfCategory(Q, c))) <= TotalOf(Spending(Q))
    <3> HIDE DEF Q
    <3> QED
      BY <2>2, <2>3
  <2>5. history[1] = TotalOf(Spending(Q))
    BY <1>8, <1>9, Zenon
  <2> QED
    BY <2>1, <2>4, <2>5
<1>11. r.spent = MapThenSumSet(LAMBDA i : r.daily[i], DOMAIN r.daily)
  <2> HIDE DEF month, prev
  <2> QED
    BY <1>1, <1>4, DaysOfReport
<1>12. r.spent = MapThenSumSet(LAMBDA c : r.byCategory[c].now, DOMAIN r.byCategory)
  <2> HIDE DEF month, prev
  <2> QED
    BY <1>1, CategoriesOfReport
<1>13. r.income - r.spent = MapThenSumSet(LAMBDA x : days[x], DOMAIN days)
  <2>1. TotalOf(Income(P)) - TotalOf(Spending(P)) = MapThenSumSet(LAMBDA x : days[x], DOMAIN days)
    <3> HIDE DEF month
    <3> QED
      BY <1>1, <1>6, DaysOfActivity
  <2> HIDE DEF r, days
  <2> QED
    BY <1>5, <2>1, Zenon
<1>14. r.spent = history[2]
  BY <1>5, <1>8, <1>9, Zenon
<1> HIDE DEF r, d, days, history, month, prev
<1> QED
  BY <1>7, <1>10, <1>11, <1>12, <1>13, <1>14, Zenon
     DEF ReportAddsUp, r, d, days, history, month, prev

-----------------------------------------------------------------------------
(* The cycles that a ledger is replayed over.                              *)

\* Cycles one after the other, from that of one day to that of another.
Chained(c, from, to, s) ==
  /\ Len(c) \in Nat \ {0} /\ DOMAIN c = 1 .. Len(c)
  /\ \A i \in 1 .. Len(c) : IsCycle(c[i])
  /\ c[1] = CycleFor(from, s) /\ c[Len(c)] = CycleFor(to, s)
  /\ \A i \in 1 .. Len(c) : i + 1 <= Len(c) => c[i + 1].start = c[i].end

LEMMA Prepended ==
  ASSUME NEW S, NEW x \in S, NEW q \in Seq(S)
  PROVE  LET c == <<x>> \o q IN
         /\ Len(q) \in Nat /\ Len(c) = Len(q) + 1 /\ DOMAIN c = 1 .. Len(q) + 1
         /\ c[1] = x /\ \A i \in 1 .. Len(q) : c[i + 1] = q[i]
OBVIOUS

LEMMA WalkIsChained ==
  ASSUME NEW s, NEW first \in Int, NEW last \in Int, \A d \in first .. last : Fits(d, s),
         NEW w, Walks(first, last, s, w)
  PROVE  \A d \in first .. last : Chained(w[d], d, last, s)
<1> DEFINE S == CyclesOf(first .. last, s)
           T == {n \in Nat : last - n \in first .. last /\ ~ Chained(w[last - n], last - n, last, s)}
<1>1. \A d \in first .. last :
        w[d] = <<CycleFor(d, s)>> \o (IF Follows(d, s) > last THEN <<>> ELSE w[Follows(d, s)])
  BY Zenon DEF Walks
<1>2. \A d \in first .. last : w[d] \in Seq(S)
  BY WalkIsOfCycles
<1>3. ASSUME T # {} PROVE FALSE
  <2>1. T \subseteq Nat
    OBVIOUS
  <2>2. PICK n \in T : \A k \in T : n <= k
    <3> HIDE DEF T
    <3> QED
      BY <1>3, <2>1, LeastNumber
  <2> DEFINE d == last - n
             C == CycleFor(d, s)
  <2>3. n \in Nat /\ d \in first .. last /\ ~ Chained(w[d], d, last, s)
    OBVIOUS
  <2>4. C \in S
    BY <2>3 DEF CyclesOf
  <2>5. /\ Follows(d, s) = C.end /\ C.end \in Int /\ C.start \in Int /\ IsCycle(C)
        /\ C.start <= d /\ d < C.end /\ d \in Int /\ d <= last
        /\ \A e \in Int : C.start <= e /\ e < C.end => CycleFor(e, s) = C
        /\ CycleFor(C.end, s).start = C.end
    BY <2>3 DEF Fits, IsCycle, Follows
  <2> HIDE DEF S
  <2>6. CASE Follows(d, s) > last
    <3>1. w[d] = <<C>> \o <<>>
      BY <1>1, <2>3, <2>6, Zenon
    <3>2. w[d] = <<C>>
      BY <3>1
    <3>3. CycleFor(last, s) = C
      BY <2>5, <2>6
    <3> HIDE DEF C
    <3>4. Chained(<<C>>, d, last, s)
      <4>1. Len(<<C>>) = 1 /\ DOMAIN <<C>> = 1 .. 1 /\ <<C>>[1] = C
        OBVIOUS
      <4> QED
        BY <2>5, <3>3, <4>1 DEF Chained, C
    <3> QED
      BY <2>3, <3>2, <3>4
  <2>7. CASE ~ (Follows(d, s) > last)
    <3> DEFINE e == Follows(d, s)
               k == last - e
               q == w[e]
               c == <<C>> \o q
    <3>1. k \in Nat /\ k < n /\ last - k = e /\ e \in first .. last
      BY <2>3, <2>5, <2>7
    <3>2. k \notin T
      <4> HIDE DEF k, T
      <4> QED
        BY <2>2, <2>3, <3>1
    <3>3. Chained(q, e, last, s) /\ q \in Seq(S)
      BY <1>2, <3>1, <3>2
    <3>4. w[d] = c
      BY <1>1, <2>3, <2>7, Zenon
    <3> HIDE DEF e, q, C
    <3>5. /\ Len(q) \in Nat /\ Len(c) = Len(q) + 1 /\ DOMAIN c = 1 .. Len(q) + 1
          /\ c[1] = C /\ \A i \in 1 .. Len(q) : c[i + 1] = q[i]
      BY <2>4, <3>3, Prepended
    <3> HIDE DEF c
    <3>6. /\ Len(q) \in Nat \ {0} /\ \A i \in 1 .. Len(q) : IsCycle(q[i])
          /\ q[1] = CycleFor(e, s) /\ q[Len(q)] = CycleFor(last, s)
          /\ \A i \in 1 .. Len(q) : i + 1 <= Len(q) => q[i + 1].start = q[i].end
      BY <3>3 DEF Chained
    <3>7. \A i \in 1 .. Len(c) : i = 1 \/ (i - 1 \in 1 .. Len(q) /\ (i - 1) + 1 = i)
      BY <3>5
    <3>8. \A i \in 1 .. Len(c) : IsCycle(c[i])
      <4>1. \A i \in 1 .. Len(c) : i # 1 => c[i] = q[i - 1]
        BY <3>5, <3>7
      <4> QED
        BY <2>5, <3>5, <3>6, <3>7, <4>1
    <3>9. c[Len(c)] = CycleFor(last, s)
      BY <3>5, <3>6
    <3>10. ASSUME NEW i \in 1 .. Len(c), i + 1 <= Len(c) PROVE c[i + 1].start = c[i].end
      <4>1. CASE i = 1
        <5>1. 1 \in 1 .. Len(q) /\ c[1 + 1] = q[1]
          BY <3>5, <3>6
        <5>2. c[1 + 1].start = C.end
          BY <2>5, <3>6, <5>1 DEF e
        <5> QED
          BY <3>5, <4>1, <5>2
      <4>2. CASE i # 1
        <5>1. i - 1 \in 1 .. Len(q) /\ (i - 1) + 1 = i /\ (i - 1) + 1 <= Len(q)
              /\ i \in 1 .. Len(q)
          BY <3>5, <3>10, <4>2
        <5>2. c[i] = q[i - 1] /\ c[i + 1] = q[i]
          BY <3>5, <5>1
        <5>3. q[(i - 1) + 1].start = q[i - 1].end
          BY <3>6, <5>1
        <5> QED
          BY <5>1, <5>2, <5>3
      <4> QED
        BY <4>1, <4>2
    <3>11. Chained(c, d, last, s)
      BY <3>5, <3>6, <3>8, <3>9, <3>10 DEF Chained, C
    <3> QED
      BY <2>3, <3>4, <3>11
  <2> QED
    BY <2>6, <2>7
<1>4. ASSUME NEW d \in first .. last PROVE Chained(w[d], d, last, s)
  <2> DEFINE n == last - d
  <2>1. n \in Nat /\ last - n = d
    OBVIOUS
  <2>2. n \notin T
    BY <1>3
  <2> QED
    BY <2>1, <2>2
<1> QED
  BY <1>4

LEMMA CyclesAreChained ==
  ASSUME NEW s, NEW from \in Int, NEW to \in Int, Fits(from, s), Fits(to, s),
         CycleFor(from, s).start <= CycleFor(to, s).start,
         \A d \in CycleFor(from, s).start .. CycleFor(to, s).start : Fits(d, s)
  PROVE  Chained(CyclesBetween(from, to, s), from, to, s)
<1> DEFINE first == CycleFor(from, s).start
           last == CycleFor(to, s).start
           w == CHOOSE f : Walks(first, last, s, f)
           between == CyclesBetween(from, to, s)
<1>1. /\ first \in Int /\ last \in Int /\ CycleFor(first, s) = CycleFor(from, s)
      /\ CycleFor(last, s) = CycleFor(to, s)
  BY DEF Fits, IsCycle
<1>2. between = IF first > last THEN <<>> ELSE w[first]
  BY Zenon DEF CyclesBetween, CyclesFrom, Walks, Follows
<1>3. Walks(first, last, s, w)
  <2> HIDE DEF first, last
  <2>1. \E f : Walks(first, last, s, f)
    BY <1>1, WalkExists DEF first, last
  <2> QED
    BY <2>1, Zenon
<1>4. first <= last /\ \A d \in first .. last : Fits(d, s)
  OBVIOUS
<1> HIDE DEF first, last, w, between
<1>5. first \in first .. last /\ ~ (first > last)
  BY <1>1, <1>4
<1>6. Chained(w[first], first, last, s)
  BY <1>1, <1>3, <1>4, <1>5, WalkIsChained
<1>7. Chained(w[first], from, to, s)
  BY <1>1, <1>6 DEF Chained
<1> QED
  BY <1>2, <1>5, <1>7 DEF between

\* The ledgers of a household that has begun to budget.
LEMMA LedgerCycles ==
  ASSUME HouseholdInv, budget.start <= now
  PROVE  /\ budget.start \in Int /\ now \in Int
         /\ Fits(budget.start, budget.settings) /\ Fits(now, budget.settings)
         /\ Chained(CyclesBetween(budget.start, now, budget.settings),
                    budget.start, now, budget.settings)
<1> DEFINE s == budget.settings
           start == budget.start
<1>1. /\ IsSettings(s) /\ now \in Int /\ now \in FirstDay .. LastDay
      /\ FirstDay \in Int /\ LastDay \in Int
  BY StoredSettings, DaysPlayed DEF HouseholdInv
<1>2. Fits(now, s)
  BY <1>1, CyclesFit
<1>3. /\ CycleFor(start, s).start \in Int /\ CycleFor(now, s).start \in Int
      /\ \A d \in CycleFor(start, s).start .. CycleFor(now, s).start : Fits(d, s)
  BY <1>1, WalkedDaysFit
<1>4. start = BudgetStartOf(set, CycleFor(now, s))
  BY DEF HouseholdInv
<1> HIDE DEF s, start
<1>5. CASE set.budgetStart # None
  <2>1. start = set.budgetStart
    BY <1>4, <1>5 DEF BudgetStartOf
  <2>2. start \in FirstDay .. LastDay
    BY <1>5, <2>1, DaysPlayed DEF HouseholdInv
  <2>3. start \in Int /\ Fits(start, s)
    BY <1>1, <2>2, CyclesFit
  <2>4. CycleFor(start, s).start <= CycleFor(now, s).start
    BY <1>1, <2>3, CyclesAreOrdered DEF start
  <2> QED
    BY <1>1, <1>2, <1>3, <2>3, <2>4, CyclesAreChained DEF s, start
<1>6. CASE set.budgetStart = None
  <2>1. start = CycleFor(now, s).start
    BY <1>4, <1>6 DEF BudgetStartOf
  <2>2. /\ CycleFor(start, s) = CycleFor(now, s) /\ start \in Int
    BY <1>2, <2>1 DEF Fits, IsCycle
  <2>3. start \in CycleFor(start, s).start .. CycleFor(now, s).start
    BY <2>1, <2>2
  <2>4. Fits(start, s) /\ CycleFor(start, s).start <= CycleFor(now, s).start
    BY <1>3, <2>2, <2>3
  <2> QED
    BY <1>1, <1>2, <1>3, <2>2, <2>4, CyclesAreChained DEF s, start
<1> QED
  BY <1>5, <1>6

-----------------------------------------------------------------------------
(* The cash.                                                               *)

\* Row i of the cash ledger, after the rows of r; and what `row` computes (see CashLedger).
CashRow(cycles, start, opening, T, i, r) ==
  LET counted == Between(T, MeasuredFrom(i, start, cycles[i]), cycles[i].end)
      before == IF i = 1 THEN opening ELSE r[i - 1].closing
      income == TotalOf(Income(counted))
      outflow == TotalOf(Spending(counted))
  IN [cycle |-> cycles[i], opening |-> before, income |-> income, outflow |-> outflow,
      closing |-> before + income - outflow]

CashReplays(cycles, start, opening, T, n, r) ==
  r = [i \in 1 .. n |-> CashRow(cycles, start, opening, T, i, r)]

LEMMA CashReplayExists ==
  ASSUME NEW cycles, NEW start, NEW opening, NEW T
  PROVE  \A n \in Nat : \E r : CashReplays(cycles, start, opening, T, n, r)
<1> DEFINE R(n, r) == CashReplays(cycles, start, opening, T, n, r)
           Row(i, r) == CashRow(cycles, start, opening, T, i, r)
           M == {n \in Nat : ~ \E r : R(n, r)}
<1> SUFFICES ASSUME M # {} PROVE FALSE
  OBVIOUS
<1>1. M \subseteq Nat
  OBVIOUS
<1>2. PICK n \in M : \A k \in M : n <= k
  <2> HIDE DEF M
  <2> QED
    BY <1>1, LeastNumber
<1>3. n \in Nat /\ ~ \E r : R(n, r)
  OBVIOUS
<1> HIDE DEF M
<1>4. n # 0
  <2>1. R(0, [i \in 1 .. 0 |-> 0])
    BY DEF CashReplays
  <2> HIDE DEF R
  <2> QED
    BY <1>3, <2>1
<1>5. PICK q : R(n - 1, q)
  <2>1. n - 1 \in Nat /\ n - 1 \notin M
    BY <1>2, <1>3, <1>4
  <2> HIDE DEF R
  <2> QED
    BY <2>1 DEF M
<1> DEFINE r == [i \in 1 .. n |-> Row(i, q)]
<1>6. \A i \in 1 .. n - 1 : q[i] = r[i]
  <2>1. \A i \in 1 .. n - 1 : i \in 1 .. n
    BY <1>3
  <2>2. \A i \in 1 .. n - 1 : q[i] = Row(i, q)
    BY <1>5, Zenon DEF CashReplays
  <2> QED
    BY <2>1, <2>2, Zenon
<1>7. \A i \in 1 .. n : i # 1 => i - 1 \in 1 .. n - 1
  BY <1>3
<1>8. \A i \in 1 .. n : Row(i, q) = Row(i, r)
  <2> HIDE DEF r
  <2> SUFFICES ASSUME NEW i \in 1 .. n PROVE Row(i, q) = Row(i, r)
    OBVIOUS
  <2>1. i # 1 => q[i - 1] = r[i - 1]
    BY <1>6, <1>7
  <2>2. (IF i = 1 THEN opening ELSE q[i - 1].closing) = (IF i = 1 THEN opening ELSE r[i - 1].closing)
    BY <2>1
  <2> QED
    BY <2>2, Zenon DEF CashRow
<1>9. r = [i \in 1 .. n |-> Row(i, r)]
  BY <1>8, Zenon
<1>10. R(n, r)
  BY <1>9 DEF CashReplays
<1> QED
  BY <1>3, <1>10

LEMMA LengthOfRows ==
  ASSUME NEW n \in Nat, NEW r, r = [i \in 1 .. n |-> r[i]]
  PROVE  Len(r) = n /\ (n # 0 => r # <<>>)
<1> DEFINE S == {r[i] : i \in 1 .. n}
<1>1. \A i \in 1 .. n : r[i] \in S
  OBVIOUS
<1> HIDE DEF S
<1>2. r \in [1 .. n -> S]
  BY <1>1, Zenon
<1>3. r \in Seq(S) /\ DOMAIN r = 1 .. n
  BY <1>2
<1> QED
  BY <1>3

LEMMA CashIsReplayed ==
  ASSUME NEW cycles, NEW start, NEW opening, NEW T, Len(cycles) \in Nat
  PROVE  LET r == CashLedger(cycles, start, opening, T) IN
         /\ CashReplays(cycles, start, opening, T, Len(cycles), r)
         /\ Len(r) = Len(cycles) /\ (Len(cycles) # 0 => r # <<>>)
<1> DEFINE n == Len(cycles)
           r == CashLedger(cycles, start, opening, T)
<1>1. \E q : CashReplays(cycles, start, opening, T, n, q)
  BY CashReplayExists
<1>2. CashReplays(cycles, start, opening, T, n, r)
  BY <1>1, Zenon DEF CashReplays, CashRow, CashLedger
<1> HIDE DEF r
<1>3. r = [i \in 1 .. n |-> r[i]]
  BY <1>2, Zenon DEF CashReplays
<1>4. Len(r) = n /\ (n # 0 => r # <<>>)
  <2>1. n \in Nat
    OBVIOUS
  <2> HIDE DEF n
  <2> QED
    BY <1>3, <2>1, LengthOfRows
<1> QED
  BY <1>2, <1>4 DEF r

\* Every row closes with all that moved from the first day to its end.
LEMMA CashAddsUp ==
  ASSUME NEW U, NEW day, Recorded(U, day), NEW opening \in Int,
         NEW s, NEW start \in Int, NEW to, NEW c, Chained(c, start, to, s),
         c[1].start <= start, start < c[1].end,
         NEW r, CashReplays(c, start, opening, U, Len(c), r)
  PROVE  \A i \in 1 .. Len(c) :
           /\ start < c[i].end
           /\ r[i].closing = opening + TotalOf(Between(Income(U), start, c[i].end))
                                     - TotalOf(Between(Spending(U), start, c[i].end))
<1> DEFINE In(a, b) == TotalOf(Between(Income(U), a, b))
           Out(a, b) == TotalOf(Between(Spending(U), a, b))
           Good(i) == start < c[i].end /\ r[i].closing = opening + In(start, c[i].end) - Out(start, c[i].end)
           M == {i \in Nat : i \in 1 .. Len(c) /\ ~ Good(i)}
<1>0. /\ Len(c) \in Nat /\ \A i \in 1 .. Len(c) : c[i].start \in Int /\ c[i].end \in Int /\ c[i].start < c[i].end
      /\ \A i \in 1 .. Len(c) : i + 1 <= Len(c) => c[i + 1].start = c[i].end
  BY DEF Chained, IsCycle
<1>1. \A a, b : In(a, b) \in Int /\ Out(a, b) \in Int
  <2>1. \A a, b : Between(Income(U), a, b) \in SUBSET U /\ Between(Spending(U), a, b) \in SUBSET U
    BY DEF Between, Income, Spending
  <2>2. \A T \in SUBSET U : TotalOf(T) \in Int
    BY Totals
  <2> QED
    BY <2>1, <2>2
<1>2. \A a, b, z \in Int : a <= b /\ b <= z => In(a, z) = In(a, b) + In(b, z) /\ Out(a, z) = Out(a, b) + Out(b, z)
  <2>1. Income(U) \in SUBSET U /\ Spending(U) \in SUBSET U
    BY DEF Income, Spending
  <2> QED
    BY <2>1, TotalsMeet
<1>3. \A a, b : Income(Between(U, a, b)) = Between(Income(U), a, b) /\ Spending(Between(U, a, b)) = Between(Spending(U), a, b)
  BY DEF Income, Spending, Between
<1>4. ASSUME NEW i \in 1 .. Len(c)
      PROVE  LET from == MeasuredFrom(i, start, c[i])
             IN r[i].closing = (IF i = 1 THEN opening ELSE r[i - 1].closing) + In(from, c[i].end) - Out(from, c[i].end)
  <2>1. r[i] = CashRow(c, start, opening, U, i, r)
    BY <1>4, Zenon DEF CashReplays
  <2> QED
    BY <1>3, <2>1 DEF CashRow
<1> HIDE DEF In, Out
<1>5. ASSUME M # {} PROVE FALSE
  <2>1. M \subseteq Nat
    OBVIOUS
  <2>2. PICK i \in M : \A k \in M : i <= k
    <3> HIDE DEF M
    <3> QED
      BY <1>5, <2>1, LeastNumber
  <2>3. i \in Nat /\ i \in 1 .. Len(c) /\ ~ Good(i)
    OBVIOUS
  <2>4. CASE i = 1
    <3>1. MeasuredFrom(1, start, c[1]) = start
      BY <1>0, <2>3, <2>4 DEF MeasuredFrom, AtLeast
    <3>2. r[1].closing = opening + In(start, c[1].end) - Out(start, c[1].end)
      BY <1>4, <2>3, <2>4, <3>1
    <3> QED
      BY <2>3, <2>4, <3>2
  <2>5. CASE i # 1
    <3>1. i - 1 \in Nat /\ i - 1 \in 1 .. Len(c) /\ i - 1 < i /\ (i - 1) + 1 = i /\ i <= Len(c)
      BY <1>0, <2>3, <2>5
    <3>2. i - 1 \notin M
      <4> HIDE DEF M
      <4> QED
        BY <2>2, <2>3, <3>1
    <3>3. Good(i - 1)
      BY <3>1, <3>2
    <3> DEFINE b == c[i].start
               z == c[i].end
               x == r[i - 1].closing
    <3>4. b = c[i - 1].end /\ start < b /\ b \in Int /\ z \in Int /\ b < z
      <4>1. c[(i - 1) + 1].start = c[i - 1].end
        BY <1>0, <3>1
      <4> QED
        BY <1>0, <2>3, <3>1, <3>3, <4>1
    <3>5. x = opening + In(start, b) - Out(start, b)
      BY <3>3, <3>4
    <3>6. MeasuredFrom(i, start, c[i]) = b
      BY <2>5 DEF MeasuredFrom
    <3>7. r[i].closing = x + In(b, z) - Out(b, z)
      BY <1>4, <2>3, <2>5, <3>6
    <3>8. In(start, z) = In(start, b) + In(b, z) /\ Out(start, z) = Out(start, b) + Out(b, z)
      BY <1>2, <3>4
    <3>9. /\ In(start, b) \in Int /\ In(b, z) \in Int /\ Out(start, b) \in Int /\ Out(b, z) \in Int
      BY <1>1
    <3> HIDE DEF b, z, x
    <3>10. r[i].closing = opening + In(start, z) - Out(start, z)
      BY <3>5, <3>7, <3>8, <3>9
    <3>11. start < z
      BY <3>4
    <3> QED
      BY <2>3, <3>10, <3>11 DEF z
  <2> QED
    BY <2>4, <2>5
<1>6. \A i \in 1 .. Len(c) : Good(i)
  BY <1>0, <1>5
<1> QED
  BY <1>6 DEF In, Out

LEMMA CashConserved == RecordsInv => CashIsConserved
<1> SUFFICES ASSUME RecordsInv, now = today, set.budgetStart # None
             PROVE  LET since == {t \in txs : t.day >= budget.start}
                    IN budget.summary.cash = set.openingCash + TotalOf({t \in since : t.kind = "income"})
                                                          - TotalOf({t \in since : t.kind = "spend"})
  BY DEF CashIsConserved
<1> DEFINE s == budget.settings
           start == budget.start
           c == CyclesBetween(start, now, s)
           r == CashLedger(c, start, set.openingCash, txs)
           n == Len(c)
<1>1. /\ HouseholdInv /\ Recorded(txs, now) /\ set.openingCash \in Int
      /\ budget = BuildBudget(set, cats, txs, now)
  BY DEF RecordsInv, HouseholdInv, BudgetSettings
<1>2. start <= now
  <2>1. start = set.budgetStart /\ set.budgetStart \in FirstDay .. now
    BY <1>1 DEF HouseholdInv, BudgetStartOf
  <2> QED
    BY <1>1, <2>1, DaysPlayed DEF HouseholdInv
<1>3. /\ start \in Int /\ now \in Int /\ Fits(start, s) /\ Fits(now, s) /\ Chained(c, start, now, s)
  BY <1>1, <1>2, LedgerCycles
<1>4. budget.summary.cash = CashHeld(set.openingCash, r)
  BY <1>1, Zenon DEF BuildBudget, Replayed, BudgetFrom, Summarise
<1> HIDE DEF s, start, c, r
<1>5. /\ n \in Nat \ {0} /\ c[1] = CycleFor(start, s) /\ c[n] = CycleFor(now, s)
  BY <1>3 DEF Chained
<1>6. /\ c[1].start <= start /\ start < c[1].end /\ now < c[n].end
      /\ c[n].end \in Int
  BY <1>3, <1>5 DEF Fits, IsCycle
<1>7. /\ CashReplays(c, start, set.openingCash, txs, n, r) /\ Len(r) = n /\ r # <<>>
  BY <1>5, CashIsReplayed DEF r
<1>8. r[n].closing = set.openingCash + TotalOf(Between(Income(txs), start, c[n].end))
                                     - TotalOf(Between(Spending(txs), start, c[n].end))
  <2>1. \A o \in Int : \A q : CashReplays(c, start, o, txs, n, q) =>
          \A i \in 1 .. n :
            /\ start < c[i].end
            /\ q[i].closing = o + TotalOf(Between(Income(txs), start, c[i].end))
                                - TotalOf(Between(Spending(txs), start, c[i].end))
    BY <1>1, <1>3, <1>6, CashAddsUp
  <2>2. n \in 1 .. n
    BY <1>5
  <2> QED
    BY <1>1, <1>7, <2>1, <2>2
<1>9. budget.summary.cash = r[n].closing
  BY <1>4, <1>7 DEF CashHeld
<1>10. \A t \in txs : t.day \in Int /\ t.day <= now
  BY <1>1 DEF Recorded
<1> DEFINE since == {t \in txs : t.day >= start}
<1>11. /\ Between(Income(txs), start, c[n].end) = {t \in since : t.kind = "income"}
       /\ Between(Spending(txs), start, c[n].end) = {t \in since : t.kind = "spend"}
  <2>1. \A t \in txs : start <= t.day /\ t.day < c[n].end <=> t.day >= start
    BY <1>3, <1>6, <1>10
  <2> HIDE DEF n
  <2> QED
    BY <2>1 DEF Between, Income, Spending
<1> QED
  BY <1>8, <1>9, <1>11 DEF start

-----------------------------------------------------------------------------
(* The flows.                                                              *)

\* Row i of the ledger of a flow, after the rows of r; and what `row` computes (see FlowLedger).
FlowRowAt(limit, cat, cycles, T, i, r) ==
  LET spent == SpentOn(T, cat, cycles[i])
  IN [cycle |-> cycles[i], spent |-> spent,
      carried |-> (IF i = 1 THEN 0 ELSE r[i - 1].carried) + limit - spent]

FlowReplays(limit, cat, cycles, T, n, r) ==
  r = [i \in 1 .. n |-> FlowRowAt(limit, cat, cycles, T, i, r)]

LEMMA FlowReplayExists ==
  ASSUME NEW limit, NEW cat, NEW cycles, NEW T
  PROVE  \A n \in Nat : \E r : FlowReplays(limit, cat, cycles, T, n, r)
<1> DEFINE R(n, r) == FlowReplays(limit, cat, cycles, T, n, r)
           Row(i, r) == FlowRowAt(limit, cat, cycles, T, i, r)
           M == {n \in Nat : ~ \E r : R(n, r)}
<1> SUFFICES ASSUME M # {} PROVE FALSE
  OBVIOUS
<1>1. M \subseteq Nat
  OBVIOUS
<1>2. PICK n \in M : \A k \in M : n <= k
  <2> HIDE DEF M
  <2> QED
    BY <1>1, LeastNumber
<1>3. n \in Nat /\ ~ \E r : R(n, r)
  OBVIOUS
<1> HIDE DEF M
<1>4. n # 0
  <2>1. R(0, [i \in 1 .. 0 |-> 0])
    BY DEF FlowReplays
  <2> HIDE DEF R
  <2> QED
    BY <1>3, <2>1
<1>5. PICK q : R(n - 1, q)
  <2>1. n - 1 \in Nat /\ n - 1 \notin M
    BY <1>2, <1>3, <1>4
  <2> HIDE DEF R
  <2> QED
    BY <2>1 DEF M
<1> DEFINE r == [i \in 1 .. n |-> Row(i, q)]
<1>6. \A i \in 1 .. n - 1 : q[i] = r[i]
  <2>1. \A i \in 1 .. n - 1 : i \in 1 .. n
    BY <1>3
  <2>2. \A i \in 1 .. n - 1 : q[i] = Row(i, q)
    BY <1>5, Zenon DEF FlowReplays
  <2> QED
    BY <2>1, <2>2, Zenon
<1>7. \A i \in 1 .. n : i # 1 => i - 1 \in 1 .. n - 1
  BY <1>3
<1>8. \A i \in 1 .. n : Row(i, q) = Row(i, r)
  <2> HIDE DEF r
  <2> SUFFICES ASSUME NEW i \in 1 .. n PROVE Row(i, q) = Row(i, r)
    OBVIOUS
  <2>1. i # 1 => q[i - 1] = r[i - 1]
    BY <1>6, <1>7
  <2>2. (IF i = 1 THEN 0 ELSE q[i - 1].carried) = (IF i = 1 THEN 0 ELSE r[i - 1].carried)
    BY <2>1
  <2> QED
    BY <2>2, Zenon DEF FlowRowAt
<1>9. r = [i \in 1 .. n |-> Row(i, r)]
  BY <1>8, Zenon
<1>10. R(n, r)
  BY <1>9 DEF FlowReplays
<1> QED
  BY <1>3, <1>10

LEMMA FlowIsReplayed ==
  ASSUME NEW limit, NEW cat, NEW cycles, NEW T, Len(cycles) \in Nat
  PROVE  LET r == FlowLedger(limit, cat, cycles, T) IN
         /\ FlowReplays(limit, cat, cycles, T, Len(cycles), r)
         /\ Len(r) = Len(cycles) /\ (Len(cycles) # 0 => r # <<>>)
<1> DEFINE n == Len(cycles)
           r == FlowLedger(limit, cat, cycles, T)
<1>1. \E q : FlowReplays(limit, cat, cycles, T, n, q)
  BY FlowReplayExists
<1>2. FlowReplays(limit, cat, cycles, T, n, r)
  BY <1>1, Zenon DEF FlowReplays, FlowRowAt, FlowLedger
<1> HIDE DEF r
<1>3. r = [i \in 1 .. n |-> r[i]]
  BY <1>2, Zenon DEF FlowReplays
<1>4. Len(r) = n /\ (n # 0 => r # <<>>)
  <2>1. n \in Nat
    OBVIOUS
  <2> HIDE DEF n
  <2> QED
    BY <1>3, <2>1, LengthOfRows
<1> QED
  BY <1>2, <1>4 DEF r

\* One allowance more, and what that one cycle took.
LEMMA OneAllowanceMore == \A n, l, x, y \in Int : (n - 1) * l - x + l - y = n * l - (x + y)
OBVIOUS

\* What a row carries is an allowance for every cycle, less all that was spent from the first.
LEMMA FlowAddsUp ==
  ASSUME NEW U, NEW day, Recorded(U, day), NEW limit \in Int, NEW cat,
         NEW s, NEW from, NEW to, NEW c, Chained(c, from, to, s),
         NEW r, FlowReplays(limit, cat, c, U, Len(c), r)
  PROVE  LET taken(a, b) == TotalOf(Between(Spending(OfCategory(U, cat)), a, b)) IN
         \A i \in 1 .. Len(c) :
           /\ c[1].start < c[i].end
           /\ r[i].spent = taken(c[i].start, c[i].end)
           /\ r[i].carried = (IF i = 1 THEN 0 ELSE r[i - 1].carried) + limit - r[i].spent
           /\ r[i].carried = i * limit - taken(c[1].start, c[i].end)
<1> DEFINE Out(a, b) == TotalOf(Between(Spending(OfCategory(U, cat)), a, b))
           first == c[1].start
           Good(i) == first < c[i].end /\ r[i].carried = i * limit - Out(first, c[i].end)
           M == {i \in Nat : i \in 1 .. Len(c) /\ ~ Good(i)}
<1>0. /\ Len(c) \in Nat /\ \A i \in 1 .. Len(c) : c[i].start \in Int /\ c[i].end \in Int /\ c[i].start < c[i].end
      /\ \A i \in 1 .. Len(c) : i + 1 <= Len(c) => c[i + 1].start = c[i].end
  BY DEF Chained, IsCycle
<1>1. \A a, b : Out(a, b) \in Int
  <2>1. \A a, b : Between(Spending(OfCategory(U, cat)), a, b) \in SUBSET U
    BY DEF Between, Spending, OfCategory
  <2>2. \A T \in SUBSET U : TotalOf(T) \in Int
    BY Totals
  <2> QED
    BY <2>1, <2>2
<1>2. \A a, b, z \in Int : a <= b /\ b <= z => Out(a, z) = Out(a, b) + Out(b, z)
  <2>1. Spending(OfCategory(U, cat)) \in SUBSET U
    BY DEF Spending, OfCategory
  <2> QED
    BY <2>1, TotalsMeet
<1>3. \A C : SpentOn(U, cat, C) = Out(C.start, C.end)
  <2>1. \A C : Spending(OfCategory(During(U, C), cat)) = Between(Spending(OfCategory(U, cat)), C.start, C.end)
    BY DEF Spending, OfCategory, During, Between
  <2> QED
    BY <2>1 DEF SpentOn
<1>4. ASSUME NEW i \in 1 .. Len(c)
      PROVE  /\ r[i].spent = Out(c[i].start, c[i].end)
             /\ r[i].carried = (IF i = 1 THEN 0 ELSE r[i - 1].carried) + limit - r[i].spent
  <2>1. r[i] = FlowRowAt(limit, cat, c, U, i, r)
    BY <1>4, Zenon DEF FlowReplays
  <2> QED
    BY <1>3, <2>1 DEF FlowRowAt
<1> HIDE DEF Out
<1>5. ASSUME M # {} PROVE FALSE
  <2>1. M \subseteq Nat
    OBVIOUS
  <2>2. PICK i \in M : \A k \in M : i <= k
    <3> HIDE DEF M
    <3> QED
      BY <1>5, <2>1, LeastNumber
  <2>3. i \in Nat /\ i \in 1 .. Len(c) /\ ~ Good(i)
    OBVIOUS
  <2>4. CASE i = 1
    <3>1. r[1].carried = 0 + limit - Out(first, c[1].end) /\ first < c[1].end
      BY <1>0, <1>4, <2>3, <2>4
    <3>2. \A x \in Int : 0 + limit - x = 1 * limit - x
      OBVIOUS
    <3>3. r[1].carried = 1 * limit - Out(first, c[1].end)
      BY <1>1, <3>1, <3>2
    <3> QED
      BY <2>3, <2>4, <3>1, <3>3
  <2>5. CASE i # 1
    <3>1. i - 1 \in Nat /\ i - 1 \in 1 .. Len(c) /\ i - 1 < i /\ (i - 1) + 1 = i /\ i <= Len(c)
      BY <1>0, <2>3, <2>5
    <3>2. i - 1 \notin M
      <4> HIDE DEF M
      <4> QED
        BY <2>2, <2>3, <3>1
    <3>3. Good(i - 1)
      BY <3>1, <3>2
    <3> DEFINE b == c[i].start
               z == c[i].end
               x == Out(first, b)
               y == Out(b, z)
    <3>4. b = c[i - 1].end /\ first < b /\ b \in Int /\ z \in Int /\ b < z /\ first \in Int
      <4>1. c[(i - 1) + 1].start = c[i - 1].end
        BY <1>0, <3>1
      <4>2. 1 \in 1 .. Len(c)
        BY <1>0, <2>3
      <4> QED
        BY <1>0, <2>3, <3>1, <3>3, <4>1, <4>2
    <3>5. r[i - 1].carried = (i - 1) * limit - x
      BY <3>3, <3>4
    <3>6. r[i].carried = r[i - 1].carried + limit - y
      BY <1>4, <2>3, <2>5
    <3>7. r[i].carried = (i - 1) * limit - x + limit - y
      BY <3>5, <3>6, Zenon
    <3>8. x \in Int /\ y \in Int /\ Out(first, z) = x + y
      <4>1. first <= b /\ b <= z
        BY <3>4
      <4> HIDE DEF b, z, first
      <4> QED
        BY <1>1, <1>2, <3>4, <4>1
    <3>9. first < z
      BY <3>4
    <3> HIDE DEF x, y, z, b
    <3>10. (i - 1) * limit - x + limit - y = i * limit - (x + y)
      <4>1. i \in Int
        BY <2>3
      <4>2. limit \in Int /\ x \in Int /\ y \in Int
        BY <3>8
      <4> HIDE DEF M, Good
      <4> QED
        BY <4>1, <4>2, OneAllowanceMore, ZenonT(30)
    <3>11. r[i].carried = i * limit - Out(first, z)
      BY <3>7, <3>8, <3>10, Zenon
    <3> QED
      BY <2>3, <3>9, <3>11 DEF z
  <2> QED
    BY <2>4, <2>5
<1>6. \A i \in 1 .. Len(c) : Good(i)
  BY <1>0, <1>5
<1> QED
  BY <1>4, <1>6 DEF Out

LEMMA FlowsAreCarried == RecordsInv => FlowsCarry
<1> SUFFICES ASSUME RecordsInv, budget.start <= now, NEW i \in DOMAIN budget.flows
             PROVE  LET cycles == CyclesBetween(budget.start, now, budget.settings)
                        f == budget.flows[i]
                        spent == {t \in txs : /\ t.kind = "spend" /\ t.cat = f.id
                                              /\ cycles[1].start <= t.day /\ t.day < budget.cycle.end}
                    IN f.available = Len(cycles) * f.allowance - TotalOf(spent)
  BY DEF FlowsCarry
<1> DEFINE s == budget.settings
           start == budget.start
           c == CyclesBetween(start, now, s)
           f == budget.flows[i]
           limit == cats[i].amount
           cat == cats[i].id
           r == FlowLedger(limit, cat, c, txs)
           n == Len(c)
           Out(a, b) == TotalOf(Between(Spending(OfCategory(txs, cat)), a, b))
<1>1. /\ HouseholdInv /\ Recorded(txs, today)
      /\ \A j \in DOMAIN cats : cats[j] \in BudgetCategories
      /\ budget = BuildBudget(set, cats, txs, now)
  BY DEF RecordsInv
<1>2. /\ s = CycleSettingsOf(set) /\ budget.cycle = CycleFor(now, s)
      /\ start = BudgetStartOf(set, CycleFor(now, s))
      /\ budget.flows = FlowStates([j \in FlowsOf(cats) |-> cats[j]], c, txs)
  BY <1>1, Zenon DEF BuildBudget, Replayed, BudgetFrom
<1>3. i \in FlowsOf(cats) /\ i \in DOMAIN cats /\ f = FlowState(limit, cat, r)
  BY <1>2 DEF FlowStates, FlowsOf, Live
<1>4. limit \in Int
  BY <1>1, <1>3 DEF BudgetCategories
<1>5. Chained(c, start, now, s)
  BY <1>1, LedgerCycles
<1> HIDE DEF s, start, c, f, limit, cat, r
<1>6. /\ n \in Nat \ {0} /\ c[n] = CycleFor(now, s)
      /\ \A k \in 1 .. n : k + 1 <= n => c[k + 1].start = c[k].end
  BY <1>5 DEF Chained
<1>7. FlowReplays(limit, cat, c, txs, n, r) /\ Len(r) = n /\ r # <<>>
  BY <1>6, FlowIsReplayed DEF r
<1>8. \A k \in 1 .. n :
        /\ r[k].spent = Out(c[k].start, c[k].end)
        /\ r[k].carried = (IF k = 1 THEN 0 ELSE r[k - 1].carried) + limit - r[k].spent
        /\ r[k].carried = k * limit - Out(c[1].start, c[k].end)
  BY <1>1, <1>4, <1>5, <1>7, FlowAddsUp
<1>9. \A a, b : Out(a, b) \in Int
  <2>1. \A a, b : Between(Spending(OfCategory(txs, cat)), a, b) \in SUBSET txs
    BY DEF Between, Spending, OfCategory
  <2>2. \A T \in SUBSET txs : TotalOf(T) \in Int
    BY <1>1, Totals
  <2> QED
    BY <2>1, <2>2
<1> HIDE DEF Out, n
<1>10. /\ f.id = cat /\ f.allowance = limit
       /\ f.available = limit + Rollover(r) - r[n].spent
  BY <1>3, <1>7 DEF FlowState
<1>11. Rollover(r) = IF n = 1 THEN 0 ELSE r[n - 1].carried
  BY <1>6, <1>7 DEF Rollover
<1>12. n \in 1 .. n /\ r[n].spent \in Int
  BY <1>6, <1>8, <1>9
<1>13. Rollover(r) \in Int
  <2>1. CASE n = 1
    BY <1>11, <2>1
  <2>2. CASE n # 1
    <3>1. n - 1 \in 1 .. n /\ n - 1 \in Int
      BY <1>6, <2>2
    <3>2. (n - 1) * limit \in Int
      BY <1>4, <3>1
    <3>3. r[n - 1].carried \in Int
      BY <1>8, <1>9, <3>1, <3>2
    <3> QED
      BY <1>11, <2>2, <3>3
  <2> QED
    BY <2>1, <2>2
<1>14. r[n].carried = Rollover(r) + limit - r[n].spent
  BY <1>8, <1>11, <1>12
<1>15. f.available = n * limit - Out(c[1].start, c[n].end)
  <2>1. f.available = r[n].carried
    BY <1>4, <1>10, <1>12, <1>13, <1>14
  <2> QED
    BY <1>8, <1>12, <2>1
<1>16. Between(Spending(OfCategory(txs, cat)), c[1].start, c[n].end)
         = {t \in txs : /\ t.kind = "spend" /\ t.cat = f.id
                        /\ c[1].start <= t.day /\ t.day < budget.cycle.end}
  BY <1>2, <1>6, <1>10 DEF Between, Spending, OfCategory
<1> QED
  BY <1>10, <1>15, <1>16 DEF Out, n, c, s, start, f

\* Money is neither lost nor counted twice: what the cash held, a flow and a report say
\* comes to the same money (cash.ts, flows.ts, insights.ts).
THEOREM LedgersKeepAddingUp == BudgetSpec => []LedgersAddUp
<1>1. RecordsInv => LedgersAddUp
  BY CashConserved, FlowsAreCarried, ReportsAddUp DEF LedgersAddUp
<1> QED
  BY <1>1, PlayedHousehold, RecordsHold, PTL

-----------------------------------------------------------------------------
(* The verdict.                                                            *)

\* Whatever the money of the month, the words and the figures agree on it.
LEMMA WordsAndFiguresAgree ==
  ASSUME NEW d, d.delta \in Int, d.left \in Int, NEW n \in Int
  PROVE  LET words == VerdictFor(d, n)
             note == PaceNote(d, n)
         IN /\ (words = "bad") = (note.tone = "bad") /\ note.figure >= 0
            /\ note.tone = "great" => words = "great"
<1> DEFINE above(pct) == 100 * d.delta > pct * n
<1>1. CASE n <= 0 \/ CleanSlate(d)
  BY <1>1 DEF VerdictFor, PaceNote
<1>2. CASE ~ (n <= 0 \/ CleanSlate(d))
  <2>1. CASE d.left < 0
    BY <1>2, <2>1 DEF VerdictFor, PaceNote
  <2>2. CASE ~ (d.left < 0) /\ d.delta > 0
    BY <1>2, <2>2 DEF VerdictFor, PaceNote
  <2>3. CASE ~ (d.left < 0) /\ ~ (d.delta > 0)
    BY <1>2, <2>3 DEF VerdictFor, PaceNote
  <2> QED
    BY <2>1, <2>2, <2>3
<1> QED
  BY <1>1, <1>2

LEMMA RoundedDivisionIsInt == \A a \in Int : \A b \in Nat \ {0} : RoundedDiv(a, b) \in Int
<1> SUFFICES ASSUME NEW a \in Int, NEW b \in Nat \ {0} PROVE RoundedDiv(a, b) \in Int
  OBVIOUS
<1>1. 2 * a + b \in Int /\ 2 * b \in Nat \ {0}
  OBVIOUS
<1>2. \A x \in Int : \A k \in Nat \ {0} : x \div k \in Int
  BY Quotients
<1> QED
  BY <1>1, <1>2, Zenon DEF RoundedDiv

\* The month that the selectors derive is of whole days and whole amounts.
LEMMA DerivedMonth ==
  ASSUME RecordsInv, NEW n \in Int
  PROVE  LET d == Derive(txs, cats, now, n) IN
         /\ d.delta \in Int /\ d.left \in Int /\ d.flexSpent \in Int
         /\ d.daysInMonth \in Nat \ {0} /\ d.dayOfMonth \in 1 .. d.daysInMonth
<1> DEFINE month == MonthPeriod(now)
           days == month.end - month.start
           day == DayOfMonth(now)
           flex == TotalOf(FlexSpending(Spending(During(txs, month)), cats))
           expected == RoundedDiv(n * day, days)
           d == Derive(txs, cats, now, n)
<1>1. Recorded(txs, today) /\ now \in Int
  BY DaysPlayed DEF RecordsInv, HouseholdInv
<1>2. flex \in Int
  <2>1. FlexSpending(Spending(During(txs, month)), cats) \in SUBSET txs
    BY DEF FlexSpending, Spending, During, Between
  <2>2. \A T \in SUBSET txs : TotalOf(T) \in Int
    BY <1>1, Totals
  <2> QED
    BY <2>1, <2>2
<1>3. days \in Nat \ {0} /\ day \in 1 .. days
  <2> DEFINE m == MonthOf(now)
  <2>1. MonthStart(m) \in Int /\ MonthStart(m + 1) \in Int /\ MonthStart(m) < MonthStart(m + 1)
    BY <1>1, MonthPeriods
  <2>2. MonthStart(m) <= now /\ now < MonthStart(m + 1)
    BY <1>1, EveryDayHasAMonth DEF InMonth
  <2> HIDE DEF m
  <2> QED
    BY <1>1, <2>1, <2>2 DEF MonthPeriod, DayOfMonth, m
<1>4. /\ d.daysInMonth = days /\ d.dayOfMonth = day /\ d.flexSpent = flex
      /\ d.left = n - flex /\ d.delta = flex - expected
  BY DEF Derive
<1> HIDE DEF month, days, day, flex, d
<1>5. expected \in Int
  <2>1. n * day \in Int
    BY <1>3
  <2> HIDE DEF expected
  <2> QED
    BY <1>3, <2>1, RoundedDivisionIsInt DEF expected
<1> HIDE DEF expected
<1> QED
  BY <1>2, <1>3, <1>4, <1>5 DEF d

\* The verdict in words and the note in figures agree, and money runs out on no day that
\* has passed or is not of the month (verdict.ts).
THEOREM VerdictsKeepAgreeing == BudgetSpec => []VerdictsAgree
<1>1. RecordsInv => VerdictsAgree
  <2> SUFFICES ASSUME RecordsInv, NEW n \in {2, 5}
               PROVE  LET d == Derive(txs, cats, now, n)
                          words == VerdictFor(d, n)
                          note == PaceNote(d, n)
                      IN /\ (words = "bad") = (note.tone = "bad") /\ note.figure >= 0
                         /\ note.tone = "great" => words = "great"
                         /\ RunsOutOn(d) # None => d.dayOfMonth <= RunsOutOn(d) /\ RunsOutOn(d) <= d.daysInMonth
    BY DEF VerdictsAgree
  <2> DEFINE d == Derive(txs, cats, now, n)
  <2>1. /\ d.delta \in Int /\ d.left \in Int /\ d.flexSpent \in Int
        /\ d.daysInMonth \in Nat \ {0} /\ d.dayOfMonth \in 1 .. d.daysInMonth
    BY DerivedMonth
  <2> HIDE DEF d
  <2>2. /\ (VerdictFor(d, n) = "bad") = (PaceNote(d, n).tone = "bad") /\ PaceNote(d, n).figure >= 0
        /\ PaceNote(d, n).tone = "great" => VerdictFor(d, n) = "great"
    BY <2>1, WordsAndFiguresAgree
  <2>3. ASSUME RunsOutOn(d) # None
        PROVE  d.dayOfMonth <= RunsOutOn(d) /\ RunsOutOn(d) <= d.daysInMonth
    <3> DEFINE x == RoundedDiv(d.dayOfMonth * (d.flexSpent + d.left), d.flexSpent)
    <3>1. d.flexSpent \in Nat \ {0} /\ d.dayOfMonth * (d.flexSpent + d.left) \in Int
      BY <2>1, <2>3 DEF RunsOutOn
    <3>2. x \in Int
      <4> HIDE DEF x
      <4> QED
        BY <3>1, RoundedDivisionIsInt, Zenon DEF x
    <3> HIDE DEF x
    <3>3. RunsOutOn(d) = AtLeast(d.dayOfMonth, x) /\ ~ (x >= d.daysInMonth)
      BY <2>3, <3>1 DEF RunsOutOn, x
    <3> QED
      BY <2>1, <3>2, <3>3 DEF AtLeast
  <2> QED
    BY <2>2, <2>3 DEF d
<1> QED
  BY <1>1, PlayedHousehold, RecordsHold, PTL
-----------------------------------------------------------------------------
(* The due dates of a pot.                                                 *)

\* What `at` computes, on the first n steps (see Walked).
WalksTo(step, first, n, f) == f = [k \in 0 .. n |-> IF k = 0 THEN first ELSE step[f[k - 1]]]

LEMMA StepsExist ==
  ASSUME NEW step, NEW first
  PROVE  \A n \in Nat : \E f : WalksTo(step, first, n, f)
<1> DEFINE R(n, f) == WalksTo(step, first, n, f)
           T == {n \in Nat : ~ \E f : R(n, f)}
<1> SUFFICES ASSUME T # {} PROVE FALSE
  OBVIOUS
<1>1. T \subseteq Nat
  OBVIOUS
<1>2. PICK n \in T : \A k \in T : n <= k
  <2> HIDE DEF T
  <2> QED
    BY <1>1, LeastNumber
<1>3. n \in Nat /\ ~ \E f : R(n, f)
  OBVIOUS
<1> HIDE DEF T
<1>4. n # 0
  <2>1. R(0, [k \in 0 .. 0 |-> first])
    <3>1. [k \in 0 .. 0 |-> first] = [k \in 0 .. 0 |-> IF k = 0 THEN first ELSE step[[i \in 0 .. 0 |-> first][k - 1]]]
      BY \A k \in 0 .. 0 : k = 0
    <3> QED
      BY <3>1 DEF WalksTo
  <2> HIDE DEF R
  <2> QED
    BY <1>3, <2>1
<1>5. PICK q : R(n - 1, q)
  <2>1. n - 1 \in Nat /\ n - 1 \notin T
    BY <1>2, <1>3, <1>4
  <2> HIDE DEF R
  <2> QED
    BY <2>1 DEF T
<1> DEFINE f == [k \in 0 .. n |-> IF k = 0 THEN first ELSE step[q[k - 1]]]
<1>6. \A k \in 0 .. n - 1 : q[k] = f[k]
  <2>1. \A k \in 0 .. n - 1 : k \in 0 .. n
    BY <1>3
  <2>2. \A k \in 0 .. n - 1 : q[k] = IF k = 0 THEN first ELSE step[q[k - 1]]
    BY <1>5, Zenon DEF WalksTo
  <2> QED
    BY <2>1, <2>2, Zenon
<1>7. \A k \in 0 .. n : k # 0 => k - 1 \in 0 .. n - 1
  BY <1>3
<1>8. \A k \in 0 .. n : (IF k = 0 THEN first ELSE step[q[k - 1]]) = (IF k = 0 THEN first ELSE step[f[k - 1]])
  <2> HIDE DEF f
  <2> QED
    BY <1>6, <1>7
<1>9. f = [k \in 0 .. n |-> IF k = 0 THEN first ELSE step[f[k - 1]]]
  BY <1>8, Zenon
<1> QED
  BY <1>3, <1>9 DEF WalksTo

LEMMA WalkedIsAWalk ==
  ASSUME NEW step, NEW first
  PROVE  \E f : WalksTo(step, first, MaxSteps, f) /\ Walked(step, first) = f[MaxSteps]
<1> DEFINE f == CHOOSE g : WalksTo(step, first, MaxSteps, g)
<1>1. WalksTo(step, first, MaxSteps, f)
  BY StepsExist, PotsAssumption, Zenon
<1>2. Walked(step, first) = f[MaxSteps]
  BY Zenon DEF Walked, WalksTo
<1> QED
  BY <1>1, <1>2

\* Where every step stays, the steps stay.
LEMMA WalkedStays ==
  ASSUME NEW step, NEW S, NEW first \in S, \A x \in S : step[x] \in S
  PROVE  Walked(step, first) \in S
<1>1. PICK f : WalksTo(step, first, MaxSteps, f) /\ Walked(step, first) = f[MaxSteps]
  BY WalkedIsAWalk
<1> DEFINE T == {n \in Nat : n <= MaxSteps /\ f[n] \notin S}
<1>2. MaxSteps \in Nat
  BY PotsAssumption
<1>3. \A k \in 0 .. MaxSteps : f[k] = IF k = 0 THEN first ELSE step[f[k - 1]]
  BY <1>1, Zenon DEF WalksTo
<1>4. ASSUME T # {} PROVE FALSE
  <2>1. T \subseteq Nat
    OBVIOUS
  <2>2. PICK n \in T : \A k \in T : n <= k
    <3> HIDE DEF T
    <3> QED
      BY <1>4, <2>1, LeastNumber
  <2>3. n \in Nat /\ n \in 0 .. MaxSteps /\ f[n] \notin S
    BY <1>2
  <2>4. n # 0
    BY <1>3, <2>3
  <2>5. n - 1 \in Nat /\ n - 1 <= MaxSteps /\ ~ (n <= n - 1)
    BY <1>2, <2>3, <2>4
  <2>6. n - 1 \notin T
    <3> HIDE DEF T
    <3> QED
      BY <2>2, <2>5
  <2>7. f[n - 1] \in S
    BY <2>5, <2>6
  <2> QED
    BY <1>3, <2>3, <2>4, <2>7
<1> QED
  BY <1>1, <1>2, <1>4

Recurrences == DOMAIN StepDays \cup DOMAIN StepMonths

\* A step forward is later, and a step back earlier.
LEMMA StepsMove ==
  ASSUME NEW d \in Int, NEW r \in Recurrences
  PROVE  /\ StepDue(d, r, 1) \in Int /\ d < StepDue(d, r, 1)
         /\ StepDue(d, r, -1) \in Int /\ StepDue(d, r, -1) < d
<1>1. CASE r \in DOMAIN StepDays
  <2>1. StepDays[r] \in Nat \ {0}
    BY <1>1, PotsAssumption
  <2> QED
    BY <1>1, <2>1 DEF StepDue
<1>2. CASE r \notin DOMAIN StepDays
  <2>1. StepMonths[r] \in Nat \ {0}
    BY <1>2 DEF Recurrences, StepMonths
  <2> DEFINE m == MonthOf(d)
             day == DayOfMonth(d)
             k == StepMonths[r]
  <2>2. m \in Int /\ InMonth(d, m)
    BY EveryDayHasAMonth
  <2>3. /\ MonthStart(m) \in Int /\ MonthStart(m + 1) = MonthStart(m) + MonthLength(m)
        /\ MonthLength(m) \in Nat \ {0}
    BY <2>2, MonthsFollow
  <2>4. day \in Nat \ {0}
    BY <2>2, <2>3 DEF DayOfMonth, InMonth
  <2> HIDE DEF m, day, k
  <2>5. k \in Nat \ {0}
    BY <2>1 DEF k
  <2>6. ASSUME NEW n \in Int PROVE DayIn(n, day) \in Int /\ InMonth(DayIn(n, day), n)
    BY <2>4, DayInIsInItsMonth
  <2>7. StepDue(d, r, 1) = DayIn(m + k, day) /\ StepDue(d, r, -1) = DayIn(m - k, day)
    <3>1. k * 1 = k /\ k * (-1) = -k /\ m + (-k) = m - k
      BY <2>2, <2>5
    <3>2. StepDue(d, r, 1) = DayIn(m + k * 1, day) /\ StepDue(d, r, -1) = DayIn(m + k * (-1), day)
      BY <1>2 DEF StepDue, AddMonths, m, day, k
    <3> QED
      BY <3>1, <3>2
  <2>8. m + k \in Int /\ m - k \in Int /\ m + 1 \in Int /\ m + 1 <= m + k /\ (m - k) + 1 <= m
        /\ (m - k) + 1 \in Int
    BY <2>2, <2>5
  <2>9. /\ MonthStart(m + 1) <= MonthStart(m + k)
        /\ MonthStart((m - k) + 1) <= MonthStart(m)
        /\ MonthStart(m + k) \in Int /\ MonthStart((m - k) + 1) \in Int
    BY <2>2, <2>8, StartsAreOrdered
  <2>10. DayIn(m + k, day) \in Int /\ InMonth(DayIn(m + k, day), m + k)
    BY <2>6, <2>8
  <2>11. DayIn(m - k, day) \in Int /\ InMonth(DayIn(m - k, day), m - k)
    BY <2>6, <2>8
  <2> QED
    BY <2>2, <2>3, <2>7, <2>9, <2>10, <2>11 DEF InMonth
<1> QED
  BY <1>1, <1>2

\* A pot of the budget.
IsPotOf(p) ==
  /\ p.kind \in {"bill", "saving", "goal"} /\ p.amount \in Nat /\ p.opening \in Nat
  /\ p.installments \in 1..4 \cup {None}
  /\ p.kind = "goal" => p.recurrence = "none" /\ p.target \in Int \cup {None}
  /\ p.kind # "goal" => p.recurrence \in Recurrences
  /\ p.kind = "bill" => p.anchor \in Int
  /\ p.kind = "saving" => p.anchor = None

LEMMA PotsAreOfCategories ==
  ASSUME NEW c \in BudgetCategories, NEW d \in Int
  PROVE  IsPotOf(PotOf(c, d)) /\ PotOf(c, d).id = c.id /\ PotOf(c, d).amount = c.amount
<1>1. AnchorFromDueDay(c.dueDay, d) \in Int
  <2>1. MonthOf(d) \in Int
    BY EveryDayHasAMonth
  <2>2. (IF c.dueDay = None THEN 1 ELSE c.dueDay) \in Nat \ {0}
    BY DEF BudgetCategories
  <2> QED
    BY <2>1, <2>2, DayInIsInItsMonth DEF AnchorFromDueDay
<1>2. Anchor(c, d) \in Int
  BY <1>1 DEF Anchor, BudgetCategories
<1>3. "monthly" \in Recurrences /\ "none" \notin Recurrences /\ "unset" \notin Recurrences
  BY PotsAssumption DEF Recurrences, StepMonths
<1> QED
  BY <1>2, <1>3 DEF PotOf, IsPotOf, BudgetCategories, Recurrences

\* The due date of a pot on a day is a day, or there is none.
LEMMA DueDatesAreDays ==
  ASSUME NEW p, IsPotOf(p), NEW from \in Int
  PROVE  /\ NextDueOn(p, from) \in Int \cup {None}
         /\ p.kind = "bill" => NextDueOn(p, from) \in Int
         /\ p.kind = "saving" => NextDueOn(p, from) = None
<1>1. CASE p.kind # "bill"
  BY <1>1 DEF IsPotOf, NextDueOn
<1>2. CASE p.kind = "bill"
  <2> DEFINE r == p.recurrence
  <2>1. r \in Recurrences /\ p.anchor \in Int
    BY <1>2 DEF IsPotOf
  <2>2. \A d \in Int : Forward(r, from)[d] \in Int /\ Back(r, from)[d] \in Int
    BY <2>1, StepsMove DEF Forward, Back
  <2>3. Walked(Forward(r, from), p.anchor) \in Int
    BY <2>1, <2>2, WalkedStays
  <2>4. Walked(Back(r, from), Walked(Forward(r, from), p.anchor)) \in Int
    BY <2>2, <2>3, WalkedStays
  <2>5. p.kind # "goal" /\ r # "none" /\ p.anchor # None
    BY <1>2, <2>1, PotsAssumption DEF Recurrences, StepMonths
  <2> QED
    BY <1>2, <2>4, <2>5 DEF NextDueOn
<1> QED
  BY <1>1, <1>2

-----------------------------------------------------------------------------
(* What a pot asks for.                                                    *)

\* The cycles of any two days: one after the other, or none.
LEMMA CyclesOfDays ==
  ASSUME NEW s, IsSettings(s), NEW from \in Int, NEW to \in Int
  PROVE  LET c == CyclesBetween(from, to, s) IN
         /\ Len(c) \in Nat /\ DOMAIN c = 1 .. Len(c)
         /\ \A i \in 1 .. Len(c) : IsCycle(c[i])
         /\ IF CycleFor(from, s).start <= CycleFor(to, s).start THEN Chained(c, from, to, s)
            ELSE c = <<>>
<1> DEFINE c == CyclesBetween(from, to, s)
<1>1. \A d \in Int : Fits(d, s)
  BY CyclesFit
<1>2. CycleFor(from, s).start \in Int /\ CycleFor(to, s).start \in Int
  BY <1>1 DEF Fits, IsCycle
<1>3. CASE CycleFor(from, s).start <= CycleFor(to, s).start
  <2>1. Chained(c, from, to, s)
    BY <1>1, <1>2, <1>3, CyclesAreChained
  <2> QED
    BY <1>3, <2>1 DEF Chained
<1>4. CASE ~ (CycleFor(from, s).start <= CycleFor(to, s).start)
  <2>1. CycleFor(from, s).start > CycleFor(to, s).start
    BY <1>2, <1>4
  <2>2. c = <<>>
    BY <2>1 DEF CyclesBetween, CyclesFrom
  <2> QED
    BY <1>4, <2>2
<1> QED
  BY <1>3, <1>4

LEMMA CyclesAreCounted ==
  ASSUME NEW s, IsSettings(s), NEW from \in Int, NEW due \in Int
  PROVE  CyclesUntil(from, due, s) \in Nat
<1>1. Len(CyclesBetween(from, due, s)) \in Nat
  BY CyclesOfDays
<1> QED
  BY <1>1 DEF CyclesUntil

LEMMA InstallmentsAreCounted ==
  ASSUME NEW s, IsSettings(s), NEW p, IsPotOf(p), p.kind = "bill", NEW readyBy \in Int
  PROVE  InstallmentsFor(p, readyBy, s) \in Nat \ {0}
<1> DEFINE opens == StepDue(readyBy, p.recurrence, -1)
           cycles == CyclesBetween(opens, readyBy, s)
           inside(c) == opens <= c.start /\ c.start < readyBy
           those == {i \in DOMAIN cycles : inside(cycles[i])}
<1>1. p.recurrence \in Recurrences /\ p.recurrence # "none"
  BY PotsAssumption DEF IsPotOf, Recurrences, StepMonths
<1>2. opens \in Int
  BY <1>1, StepsMove
<1>3. Cardinality(those) \in Nat
  <2>1. Len(cycles) \in Nat /\ DOMAIN cycles = 1 .. Len(cycles)
    <3> HIDE DEF opens
    <3> QED
      BY <1>2, CyclesOfDays
  <2>2. IsFiniteSet(DOMAIN cycles)
    <3> HIDE DEF cycles
    <3> QED
      BY <2>1, FS_Interval
  <2>3. those \in SUBSET DOMAIN cycles
    OBVIOUS
  <2> HIDE DEF those, cycles
  <2> QED
    BY <2>2, <2>3, FS_Subset, FS_CardinalityType
<1>4. PaydaysForOne(p, readyBy, s) \in Nat \ {0}
  <2>1. PaydaysForOne(p, readyBy, s) = AtLeast(1, Cardinality(those))
    BY <1>1, Zenon DEF PaydaysForOne
  <2> HIDE DEF those
  <2> QED
    BY <1>3, <2>1 DEF AtLeast
<1>5. AtMost(PaydaysForOne(p, readyBy, s), MaxInstallments) \in Nat \ {0}
  BY <1>4, PotsAssumption DEF AtMost
<1>6. p.installments \in 1..4 \cup {None}
  BY DEF IsPotOf
<1> QED
  BY <1>5, <1>6 DEF InstallmentsFor, AsManyAs, AtLeast, AtMost

\* A division that rounds up is by no more than the whole, and by one is the whole.
LEMMA RoundedUp ==
  ASSUME NEW a \in Nat, NEW b \in Nat \ {0}
  PROVE  /\ CeilDiv(a, b) \in Nat /\ CeilDiv(a, b) <= a /\ (b = 1 => CeilDiv(a, b) = a)
         /\ a <= CeilDiv(a, b) * b
<1> DEFINE n == a + b - 1
           q == n \div b
<1>1. n \in Nat
  OBVIOUS
<1>2. q \in Int /\ q * b <= n /\ n < q * b + b
  <2> HIDE DEF n
  <2> QED
    BY <1>1, Quotients
<1>3. CeilDiv(a, b) = q
  BY DEF CeilDiv
<1> HIDE DEF q
<1> DEFINE qb == q * b
<1>4. qb \in Int /\ qb <= a + b - 1 /\ a <= qb
  BY <1>2
<1>5. q >= 0
  <2> SUFFICES ASSUME q < 0 PROVE FALSE
    BY <1>2
  <2>1. q <= -1
    BY <1>2
  <2>2. q * b <= -1 * b
    BY <1>2, <2>1
  <2>3. -1 * b = -b
    OBVIOUS
  <2> QED
    BY <1>4, <2>2, <2>3
<1>6. q <= a
  <2> SUFFICES ASSUME q > a PROVE FALSE
    BY <1>2
  <2>1. a + 1 <= q
    BY <1>2
  <2>2. (a + 1) * b <= q * b
    BY <1>2, <2>1
  <2>3. (a + 1) * b = a * b + b /\ a <= a * b /\ a * b \in Int
    <3>1. 1 <= b
      OBVIOUS
    <3>2. a * 1 <= a * b
      BY <3>1
    <3> QED
      BY <3>2
  <2> QED
    BY <1>4, <2>2, <2>3
<1>7. b = 1 => q = a
  <2> SUFFICES ASSUME b = 1 PROVE q = a
    OBVIOUS
  <2>1. qb = q
    BY <1>2
  <2> QED
    BY <1>2, <1>4, <2>1
<1> QED
  BY <1>2, <1>3, <1>4, <1>5, <1>6, <1>7

LEMMA SavingsAreWhole ==
  ASSUME NEW s, IsSettings(s), NEW p, IsPotOf(p), p.kind = "saving"
  PROVE  SavingPerCycle(p, s) \in Nat
<1> DEFINE rate == IF p.recurrence = "none" THEN 120000 ELSE PerYear(p.recurrence)
           perYear == p.amount * rate
<1>1. rate \in Nat /\ p.amount \in Nat
  <2>1. p.recurrence \in {"weekly", "fortnightly", "four_weekly", "monthly", "quarterly", "annual"}
    BY PotsAssumption DEF IsPotOf, Recurrences, StepMonths
  <2> QED
    BY <2>1 DEF PerYear, IsPotOf
<1> HIDE DEF rate
<1>2. perYear \in Nat
  BY <1>1
<1> HIDE DEF perYear
<1>3. CASE s.kind = "monthly"
  <2>1. CeilDiv(perYear, 120000) \in Nat
    BY <1>2, RoundedUp
  <2> QED
    BY <1>3, <2>1 DEF SavingPerCycle, perYear, rate
<1>4. CASE s.kind # "monthly"
  <2>1. s.lengthDays \in Nat
    BY <1>4 DEF IsSettings
  <2> DEFINE a == perYear * s.lengthDays
  <2>2. a \in Nat
    BY <1>2, <2>1
  <2> HIDE DEF a
  <2>3. CeilDiv(a, 3652500) \in Nat
    BY <2>2, RoundedUp
  <2> QED
    BY <1>4, <2>3 DEF SavingPerCycle, perYear, rate, a
<1> QED
  BY <1>3, <1>4

\* A bill or a goal asks for what is missing, or for a part of it.
LEMMA AsksAreWhole ==
  ASSUME NEW s, IsSettings(s), NEW p, IsPotOf(p), NEW index \in Nat, NEW c, IsCycle(c),
         NEW due \in Int \cup {None}, NEW balance \in Nat
  PROVE  /\ Ask(p, index, c, due, balance, s) \in Nat
         /\ p.kind # "saving" => Ask(p, index, c, due, balance, s) <= AtLeast(0, p.amount - balance)
<1> DEFINE need == AtLeast(0, p.amount - balance)
           ask == Ask(p, index, c, due, balance, s)
<1>1. need \in Nat
  BY DEF IsPotOf, AtLeast
<1> HIDE DEF need
<1>2. CASE p.kind = "saving"
  BY <1>2, SavingsAreWhole DEF Ask
<1>3. CASE p.kind # "saving" /\ need = 0
  <2>1. ask = 0
    BY <1>3, Zenon DEF Ask, need
  <2> QED
    BY <1>1, <1>3, <2>1 DEF need
<1>4. CASE p.kind # "saving" /\ need # 0 /\ due = None
  <2> DEFINE over == AtLeast(1, AtMost(IF p.installments = None THEN MaxInstallments
                                       ELSE p.installments, MaxInstallments))
             by == AtLeast(1, over - index)
  <2>1. over \in Nat
    BY PotsAssumption DEF IsPotOf, AtLeast, AtMost
  <2> HIDE DEF over
  <2>2. by \in Nat \ {0}
    BY <2>1 DEF AtLeast
  <2> HIDE DEF by
  <2>3. ask = CeilDiv(need, by)
    BY <1>4, Zenon DEF Ask, AskUndated, need, by, over
  <2> QED
    BY <1>1, <1>4, <2>2, <2>3, RoundedUp DEF need
<1>5. ASSUME NEW remaining \in Nat, NEW planned \in Int, ask = Spread(need, remaining, planned)
      PROVE  ask \in Nat /\ ask <= need
  <2>1. CASE remaining > 0
    <3> DEFINE by == AtMost(remaining, AtLeast(1, planned))
    <3>1. by \in Nat \ {0}
      BY <2>1, <1>5 DEF AtMost, AtLeast
    <3> HIDE DEF by
    <3>2. ask = CeilDiv(need, by)
      BY <1>5, <2>1, Zenon DEF Spread, by
    <3> QED
      BY <1>1, <3>1, <3>2, RoundedUp
  <2>2. CASE ~ (remaining > 0)
    BY <1>1, <1>5, <2>2 DEF Spread
  <2> QED
    BY <2>1, <2>2
<1>6. CASE p.kind # "saving" /\ need # 0 /\ due # None
  <2>1. due \in Int /\ FundedBy(due) \in Int /\ c.start \in Int
    BY <1>6, PotsAssumption DEF FundedBy, IsCycle
  <2>2. CASE p.kind = "bill"
    <3>1. ask = Spread(need, CyclesUntil(c.start, FundedBy(due), s), InstallmentsFor(p, FundedBy(due), s))
      BY <1>6, <2>2, Zenon DEF Ask, AskDated, need
    <3>2. CyclesUntil(c.start, FundedBy(due), s) \in Nat /\ InstallmentsFor(p, FundedBy(due), s) \in Int
      BY <2>1, <2>2, CyclesAreCounted, InstallmentsAreCounted
    <3> QED
      BY <1>5, <3>1, <3>2 DEF need
  <2>3. CASE p.kind # "bill"
    <3>1. ask = Spread(need, CyclesUntil(c.start, due, s), CyclesUntil(c.start, due, s))
      BY <1>6, <2>3, Zenon DEF Ask, AskDated, need
    <3>2. CyclesUntil(c.start, due, s) \in Nat
      BY <2>1, CyclesAreCounted
    <3> QED
      BY <1>5, <3>1, <3>2 DEF need
  <2> QED
    BY <2>2, <2>3
<1> QED
  BY <1>2, <1>3, <1>4, <1>6

-----------------------------------------------------------------------------
(* The balance of a pot.                                                   *)

LEMMA TargetsAreDays ==
  ASSUME NEW p, IsPotOf(p), NEW start \in Int, NEW firstEnd \in Int
  PROVE  /\ TargetDue(p, start, firstEnd) \in Int \cup {None}
         /\ p.kind = "bill" => TargetDue(p, start, firstEnd) \in Int
         /\ p.kind = "goal" => TargetDue(p, start, firstEnd) = p.target
         /\ p.kind = "saving" => TargetDue(p, start, firstEnd) = None
<1> DEFINE due == NextDueOn(p, start)
<1>1. /\ due \in Int \cup {None} /\ (p.kind = "bill" => due \in Int)
      /\ (p.kind = "saving" => due = None)
  BY DueDatesAreDays
<1>2. p.kind = "goal" => due = p.target /\ p.recurrence = "none"
  BY DEF NextDueOn, IsPotOf
<1> HIDE DEF due
<1>3. TargetDue(p, start, firstEnd) = StillAhead(p, Skipped(p, due, firstEnd), start)
  BY DEF TargetDue, due
<1>4. CASE p.kind = "bill"
  <2>1. p.recurrence \in Recurrences
    BY <1>4 DEF IsPotOf
  <2>2. \A d \in Int : StepDue(d, p.recurrence, 1) \in Int
    BY <2>1, StepsMove
  <2>3. Skipped(p, due, firstEnd) \in Int
    BY <1>1, <1>4, <2>2 DEF Skipped
  <2>4. \A d \in Int : StillAhead(p, d, start) \in Int
    BY <2>2 DEF StillAhead
  <2> QED
    BY <1>3, <1>4, <2>3, <2>4
<1>5. CASE p.kind # "bill"
  <2>1. Skipped(p, due, firstEnd) = due
    BY <1>5 DEF Skipped
  <2>2. StillAhead(p, due, start) = due
    BY <1>1, <1>5 DEF StillAhead, IsPotOf
  <2> QED
    BY <1>1, <1>2, <1>3, <1>5, <2>1, <2>2 DEF IsPotOf
<1> QED
  BY <1>4, <1>5

\* What the replay of a pot is given.
Replayable(p, s, cycles, paid, moved) ==
  /\ IsPotOf(p) /\ IsSettings(s)
  /\ Len(cycles) \in Nat
  /\ \A i \in 1 .. Len(cycles) : IsCycle(cycles[i]) /\ paid[i] \in Nat /\ moved[i] \in Int

\* Row k, with what was in the pot before it.
RowIs(p, s, cycles, paid, moved, k, before, r) ==
  LET due == TargetDue(p, cycles[k].start, cycles[1].end)
      ask == Ask(p, k - 1, cycles[k], due, before, s)
  IN /\ r.cycle = cycles[k] /\ r.targetDue = due /\ r.recommended = ask
     /\ r.paid = paid[k] /\ r.contributed = moved[k]
     /\ r.balance = AtLeast(0, before + ask - paid[k])

LEMMA RowsOfLedger ==
  ASSUME NEW p, NEW s, NEW cycles, NEW paid, NEW moved, Len(cycles) \in Nat
  PROVE  LET rows == PotLedger(p, s, cycles, paid, moved) IN
         /\ Len(rows) = Len(cycles) /\ DOMAIN rows = 1 .. Len(cycles)
         /\ \A k \in 1 .. Len(cycles) :
              RowIs(p, s, cycles, paid, moved, k, IF k = 1 THEN p.opening ELSE rows[k - 1].balance, rows[k])
<1> DEFINE rows == PotLedger(p, s, cycles, paid, moved)
<1>1. Replays(p, s, cycles, paid, moved, Len(cycles), rows) /\ Len(rows) = Len(cycles)
  BY PotLedgerIsReplayed
<1> HIDE DEF rows
<1>2. DOMAIN rows = 1 .. Len(cycles)
      /\ \A k \in 1 .. Len(cycles) : rows[k] = RowAfter(p, s, cycles, paid, moved, k, rows)
  BY <1>1, Zenon DEF Replays
<1>3. ASSUME NEW k \in 1 .. Len(cycles)
      PROVE  RowIs(p, s, cycles, paid, moved, k, IF k = 1 THEN p.opening ELSE rows[k - 1].balance, rows[k])
  <2> DEFINE before == IF k = 1 THEN p.opening ELSE rows[k - 1].balance
             due == TargetDue(p, cycles[k].start, cycles[1].end)
             ask == Ask(p, k - 1, cycles[k], due, before, s)
  <2>1. rows[k] = PotRow(cycles[k], before, due, ask, paid[k], moved[k])
    BY <1>2, Zenon DEF RowAfter, RowToward
  <2> HIDE DEF before, due, ask
  <2>2. /\ rows[k].cycle = cycles[k] /\ rows[k].targetDue = due /\ rows[k].recommended = ask
        /\ rows[k].paid = paid[k] /\ rows[k].contributed = moved[k]
        /\ rows[k].balance = AtLeast(0, before + ask - paid[k])
    BY <2>1 DEF PotRow
  <2> QED
    BY <2>2, Zenon DEF RowIs, before, due, ask
<1> QED
  BY <1>1, <1>2, <1>3 DEF rows

\* A row of a pot that holds so much: whole amounts, and a bill or a goal is no fuller than
\* its amount, or than it was.
LEMMA RowIsTyped ==
  ASSUME NEW p, NEW s, NEW cycles, NEW paid, NEW moved, Replayable(p, s, cycles, paid, moved),
         NEW k \in 1 .. Len(cycles), NEW before \in Nat, NEW r,
         RowIs(p, s, cycles, paid, moved, k, before, r),
         p.kind # "saving" => before <= AtLeast(p.amount, p.opening)
  PROVE  /\ r.balance \in Nat /\ r.recommended \in Nat /\ r.targetDue \in Int \cup {None}
         /\ p.kind = "bill" => r.targetDue \in Int
         /\ p.kind = "saving" => r.targetDue = None
         /\ p.kind # "saving" => r.balance <= AtLeast(p.amount, p.opening)
<1> DEFINE due == TargetDue(p, cycles[k].start, cycles[1].end)
           ask == Ask(p, k - 1, cycles[k], due, before, s)
<1>1. /\ IsCycle(cycles[k]) /\ IsCycle(cycles[1]) /\ k - 1 \in Nat /\ paid[k] \in Nat
      /\ IsPotOf(p) /\ IsSettings(s)
  <2>1. 1 \in 1 .. Len(cycles) /\ k - 1 \in Nat
    BY DEF Replayable
  <2> QED
    BY <2>1 DEF Replayable
<1>2. /\ due \in Int \cup {None} /\ (p.kind = "bill" => due \in Int)
      /\ (p.kind = "saving" => due = None)
  <2>1. cycles[k].start \in Int /\ cycles[1].end \in Int
    BY <1>1 DEF IsCycle
  <2> QED
    BY <1>1, <2>1, TargetsAreDays
<1>3. r.targetDue = due /\ r.recommended = ask /\ r.balance = AtLeast(0, before + ask - paid[k])
  BY DEF RowIs
<1> HIDE DEF due
<1>4. ask \in Nat /\ (p.kind # "saving" => ask <= AtLeast(0, p.amount - before))
  BY <1>1, <1>2, AsksAreWhole
<1> HIDE DEF ask
<1>5. p.amount \in Nat /\ p.opening \in Nat
  BY <1>1 DEF IsPotOf
<1> QED
  BY <1>1, <1>2, <1>3, <1>4, <1>5 DEF AtLeast

LEMMA RowsAreTyped ==
  ASSUME NEW p, NEW s, NEW cycles, NEW paid, NEW moved, Replayable(p, s, cycles, paid, moved)
  PROVE  \A k \in 1 .. Len(cycles) :
           LET r == PotLedger(p, s, cycles, paid, moved)[k] IN
           /\ r.balance \in Nat /\ r.recommended \in Nat /\ r.targetDue \in Int \cup {None}
           /\ r.contributed \in Int
           /\ p.kind = "bill" => r.targetDue \in Int
           /\ p.kind = "saving" => r.targetDue = None
           /\ p.kind # "saving" => r.balance <= AtLeast(p.amount, p.opening)
<1> DEFINE rows == PotLedger(p, s, cycles, paid, moved)
           Typed(r) == /\ r.balance \in Nat /\ r.recommended \in Nat /\ r.targetDue \in Int \cup {None}
                       /\ p.kind = "bill" => r.targetDue \in Int
                       /\ p.kind = "saving" => r.targetDue = None
                       /\ p.kind # "saving" => r.balance <= AtLeast(p.amount, p.opening)
           T == {k \in Nat : k \in 1 .. Len(cycles) /\ ~ Typed(rows[k])}
<1>0. Len(cycles) \in Nat /\ IsPotOf(p) /\ \A i \in 1 .. Len(cycles) : moved[i] \in Int
  BY DEF Replayable
<1>1. \A k \in 1 .. Len(cycles) :
        RowIs(p, s, cycles, paid, moved, k, IF k = 1 THEN p.opening ELSE rows[k - 1].balance, rows[k])
  BY <1>0, RowsOfLedger
<1> HIDE DEF rows
<1>2. ASSUME T # {} PROVE FALSE
  <2>1. T \subseteq Nat
    OBVIOUS
  <2>2. PICK k \in T : \A j \in T : k <= j
    <3> HIDE DEF T
    <3> QED
      BY <1>2, <2>1, LeastNumber
  <2>3. k \in Nat /\ k \in 1 .. Len(cycles) /\ ~ Typed(rows[k])
    OBVIOUS
  <2> DEFINE before == IF k = 1 THEN p.opening ELSE rows[k - 1].balance
  <2>4. before \in Nat /\ (p.kind # "saving" => before <= AtLeast(p.amount, p.opening))
    <3>1. CASE k = 1
      BY <1>0, <3>1 DEF IsPotOf, AtLeast
    <3>2. CASE k # 1
      <4>1. k - 1 \in Nat /\ k - 1 \in 1 .. Len(cycles) /\ ~ (k <= k - 1)
        BY <1>0, <2>3, <3>2
      <4>2. k - 1 \notin T
        <5> HIDE DEF T
        <5> QED
          BY <2>2, <4>1
      <4>3. Typed(rows[k - 1])
        BY <4>1, <4>2
      <4> QED
        BY <3>2, <4>3
    <3> QED
      BY <3>1, <3>2
  <2>5. RowIs(p, s, cycles, paid, moved, k, before, rows[k])
    BY <1>1, <2>3, Zenon
  <2> HIDE DEF before
  <2>6. Typed(rows[k])
    BY <2>3, <2>4, <2>5, RowIsTyped
  <2> QED
    BY <2>3, <2>6
<1>3. ASSUME NEW k \in 1 .. Len(cycles) PROVE Typed(rows[k]) /\ rows[k].contributed \in Int
  <2>1. k \in Nat /\ k \notin T
    BY <1>0, <1>2
  <2>2. Typed(rows[k])
    BY <2>1
  <2>3. rows[k].contributed = moved[k]
    BY <1>1, Zenon DEF RowIs
  <2> QED
    BY <1>0, <2>2, <2>3
<1> QED
  BY <1>3 DEF rows

-----------------------------------------------------------------------------
(* The state of a pot, and the parts of a budget.                          *)

\* The row of the last cycle, or the opening of a pot that has none yet.
LEMMA LastOfRows ==
  ASSUME NEW p, NEW s, NEW cycles, NEW paid, NEW moved, Len(cycles) \in Nat, NEW d
  PROVE  LET rows == PotLedger(p, s, cycles, paid, moved)
             last == LastRow(p, d, rows)
         IN /\ Len(cycles) # 0 => last = rows[Len(cycles)]
            /\ Len(cycles) = 0 =>
                 last = PotRow([start |-> d, end |-> d], p.opening, NextDueOn(p, d), 0, 0, 0)
<1> DEFINE rows == PotLedger(p, s, cycles, paid, moved)
<1>1. Len(rows) = Len(cycles) /\ Replays(p, s, cycles, paid, moved, Len(cycles), rows)
  BY PotLedgerIsReplayed
<1> HIDE DEF rows
<1>2. rows = [k \in 1 .. Len(cycles) |-> RowAfter(p, s, cycles, paid, moved, k, rows)]
  BY <1>1, Zenon DEF Replays
<1>3. CASE Len(cycles) = 0
  <2>1. rows = <<>>
    <3>1. DOMAIN rows = 1 .. 0
      BY <1>2, <1>3
    <3>2. 1 .. 0 = {}
      OBVIOUS
    <3>3. rows = [k \in {} |-> RowAfter(p, s, cycles, paid, moved, k, rows)]
      BY <1>2, <1>3, <3>2
    <3>4. <<>> = [k \in {} |-> RowAfter(p, s, cycles, paid, moved, k, rows)]
      OBVIOUS
    <3> QED
      BY <3>3, <3>4
  <2> QED
    BY <1>3, <2>1 DEF LastRow, rows
<1>4. CASE Len(cycles) # 0
  <2>1. rows # <<>>
    BY <1>1, <1>4
  <2> QED
    BY <1>1, <1>4, <2>1 DEF LastRow, rows
<1> QED
  BY <1>3, <1>4

\* The fields of a state.
IsStateOf(q, p) ==
  /\ q = [pot |-> p, balance |-> q.balance, backed |-> q.backed, perCycle |-> q.perCycle,
          contributed |-> q.contributed, nextDue |-> q.nextDue, needed |-> q.needed,
          cyclesUntilDue |-> q.cyclesUntilDue, outstanding |-> q.outstanding]
  /\ q.balance \in Nat /\ q.perCycle \in Nat /\ q.nextDue \in Int \cup {None}
  /\ p.kind = "bill" => q.nextDue \in Int
  /\ p.kind # "saving" => q.balance <= AtLeast(p.amount, p.opening)
  /\ q.needed = IF p.kind = "saving" THEN 0 ELSE AtLeast(0, p.amount - q.balance)

LEMMA StatesAreTyped ==
  ASSUME NEW p, NEW s, NEW cycles, NEW paid, NEW moved, Replayable(p, s, cycles, paid, moved),
         NEW d \in Int
  PROVE  LET q == PotState(p, s, d, PotLedger(p, s, cycles, paid, moved)) IN
         IsStateOf(q, p) /\ q.backed = q.balance
<1> DEFINE rows == PotLedger(p, s, cycles, paid, moved)
           last == LastRow(p, d, rows)
           due == IF last.targetDue = None THEN NextDueOn(p, d) ELSE last.targetDue
           q == PotState(p, s, d, rows)
<1>1. IsPotOf(p) /\ IsSettings(s) /\ Len(cycles) \in Nat
  BY DEF Replayable
<1>2. /\ NextDueOn(p, d) \in Int \cup {None} /\ (p.kind = "bill" => NextDueOn(p, d) \in Int)
      /\ (p.kind = "saving" => NextDueOn(p, d) = None)
  BY <1>1, DueDatesAreDays
<1>3. /\ last.balance \in Nat /\ last.recommended \in Nat /\ last.targetDue \in Int \cup {None}
      /\ p.kind = "bill" => last.targetDue \in Int
      /\ p.kind # "saving" => last.balance <= AtLeast(p.amount, p.opening)
  <2>1. CASE Len(cycles) # 0
    <3>1. last = rows[Len(cycles)]
      BY <1>1, <2>1, LastOfRows, Zenon
    <3>2. Len(cycles) \in 1 .. Len(cycles)
      BY <1>1, <2>1
    <3> HIDE DEF last
    <3> QED
      BY <3>1, <3>2, RowsAreTyped
  <2>2. CASE Len(cycles) = 0
    <3>1. last = PotRow([start |-> d, end |-> d], p.opening, NextDueOn(p, d), 0, 0, 0)
      BY <1>1, <2>2, LastOfRows
    <3> HIDE DEF last
    <3>2. last.balance = AtLeast(0, p.opening + 0 - 0) /\ last.recommended = 0
          /\ last.targetDue = NextDueOn(p, d)
      BY <3>1 DEF PotRow
    <3> QED
      BY <1>1, <1>2, <3>2 DEF IsPotOf, AtLeast
  <2> QED
    BY <2>1, <2>2
<1>4. q = StateOf(p, s, d, last, due)
  BY Zenon DEF PotState
<1> HIDE DEF rows, last
<1>5. due \in Int \cup {None} /\ (p.kind = "bill" => due \in Int)
  BY <1>2, <1>3
<1> HIDE DEF due, q
<1>6. q = [pot |-> p, balance |-> q.balance, backed |-> q.backed, perCycle |-> q.perCycle,
           contributed |-> q.contributed, nextDue |-> q.nextDue, needed |-> q.needed,
           cyclesUntilDue |-> q.cyclesUntilDue, outstanding |-> q.outstanding]
      /\ q.balance = last.balance /\ q.backed = last.balance /\ q.perCycle = last.recommended
      /\ q.nextDue = due
      /\ q.needed = IF p.kind = "saving" THEN 0 ELSE AtLeast(0, p.amount - last.balance)
  BY <1>4 DEF StateOf
<1>7. IsStateOf(q, p) /\ q.backed = q.balance
  BY <1>3, <1>5, <1>6 DEF IsStateOf
<1> QED
  BY <1>7 DEF q, rows

PotNow(p, s, d, cycles, T) ==
  PotState(p, s, d, PotLedger(p, s, cycles, [k \in DOMAIN cycles |-> SpentOn(T, p.id, cycles[k])],
                                            [k \in DOMAIN cycles |-> PutAside(T, p.id, cycles[k])]))

StatesOf(cs, s, d, cycles, T) == [i \in PotsOf(cs) |-> PotNow(PotOf(cs[i], d), s, d, cycles, T)]

FlowNow(c, cycles, T) == FlowState(c.amount, c.id, FlowLedger(c.amount, c.id, cycles, T))
FlowsOn(cs, cycles, T) == [i \in FlowsOf(cs) |-> FlowNow(cs[i], cycles, T)]

\* The cycle of a day, the first day that is replayed, the cycles that are, and the cash.
CycleNow(x, d)   == CycleFor(d, CycleSettingsOf(x))
StartNow(x, d)   == BudgetStartOf(x, CycleNow(x, d))
CyclesNow(x, d)  == CyclesBetween(StartNow(x, d), d, CycleSettingsOf(x))
CashNow(x, T, d) == CashHeld(x.openingCash, CashLedger(CyclesNow(x, d), StartNow(x, d), x.openingCash, T))
StatesNow(x, cs, T, d) == StatesOf(cs, CycleSettingsOf(x), d, CyclesNow(x, d), T)

LEMMA BudgetParts ==
  ASSUME NEW x, NEW cs, NEW T, NEW d, NEW b, b = BuildBudget(x, cs, T, d)
  PROVE  /\ b.settings = CycleSettingsOf(x) /\ b.cycle = CycleNow(x, d) /\ b.start = StartNow(x, d)
         /\ b.pots = WithBacking(StatesNow(x, cs, T, d), CashNow(x, T, d))
         /\ b.flows = FlowsOn(cs, CyclesNow(x, d), T)
         /\ b.summary = Summarise(CycleNow(x, d), d, b.pots, b.flows, x.expected,
                                  TotalOf(Income(During(T, CycleNow(x, d)))), CashNow(x, T, d),
                                  CashKnown(x, T))
<1> DEFINE s == CycleSettingsOf(x)
           cycle == CycleNow(x, d)
           start == StartNow(x, d)
           cycles == CyclesNow(x, d)
           cash == CashNow(x, T, d)
           pots == [i \in PotsOf(cs) |-> PotOf(cs[i], d)]
           flows == [i \in FlowsOf(cs) |-> cs[i]]
<1>1. b = BudgetFrom(x, T, d, s, start, cycle, WithBacking(PotStates(pots, s, d, cycles, T), cash),
                     FlowStates(flows, cycles, T), cash)
  BY Zenon DEF BuildBudget, Replayed, CycleNow, StartNow, CyclesNow, CashNow
<1> HIDE DEF s, cycle, start, cycles, cash
<1>2. PotStates(pots, s, d, cycles, T) = StatesOf(cs, s, d, cycles, T)
  <2>1. DOMAIN pots = PotsOf(cs) /\ \A i \in PotsOf(cs) : pots[i] = PotOf(cs[i], d)
    OBVIOUS
  <2> HIDE DEF pots
  <2> QED
    BY <2>1, Zenon DEF PotStates, StatesOf, PotNow
<1>3. FlowStates(flows, cycles, T) = [i \in FlowsOf(cs) |-> FlowNow(cs[i], cycles, T)]
  <2>1. DOMAIN flows = FlowsOf(cs) /\ \A i \in FlowsOf(cs) : flows[i] = cs[i]
    OBVIOUS
  <2> HIDE DEF flows
  <2> QED
    BY <2>1, Zenon DEF FlowStates, FlowNow
<1> DEFINE ps == WithBacking(StatesOf(cs, s, d, cycles, T), cash)
           fs == [i \in FlowsOf(cs) |-> FlowNow(cs[i], cycles, T)]
<1> HIDE DEF ps, fs, pots, flows
<1>4. b = BudgetFrom(x, T, d, s, start, cycle, ps, fs, cash)
  BY <1>1, <1>2, <1>3 DEF ps, fs
<1>5. /\ b.settings = s /\ b.cycle = cycle /\ b.start = start /\ b.pots = ps /\ b.flows = fs
      /\ b.summary = Summarise(cycle, d, ps, fs, x.expected,
                               TotalOf(Income(During(T, cycle))), cash, CashKnown(x, T))
  BY <1>4 DEF BudgetFrom
<1> QED
  BY <1>5, Zenon DEF s, cycle, start, cycles, cash, ps, fs, StatesNow, FlowsOn

AmountsOf(M) == [t \in M |-> t.amount]

LEMMA TotalOfAmounts ==
  ASSUME NEW M, IsFiniteSet(M)
  PROVE  MapThenSumSet(LAMBDA t : t.amount, M) = Total(AmountsOf(M), M)
<1> DEFINE w == AmountsOf(M)
           Folds(F) == F = [s \in SUBSET M |-> IF s = {} THEN 0 ELSE One(s).amount + F[s \ {One(s)}]]
           F == CHOOSE G : Folds(G)
<1>1. \A s \in SUBSET M : s # {} => One(s).amount = w[One(s)]
  BY OneOf DEF AmountsOf
<1> HIDE DEF w
<1>2. ASSUME NEW G PROVE Folds(G) <=> Sums(w, M, G)
  <2>1. [s \in SUBSET M |-> IF s = {} THEN 0 ELSE One(s).amount + G[s \ {One(s)}]]
          = [s \in SUBSET M |-> IF s = {} THEN 0 ELSE w[One(s)] + G[s \ {One(s)}]]
    BY <1>1
  <2> QED
    BY <2>1 DEF Sums
<1>3. PICK G : Sums(w, M, G) /\ \A A \in SUBSET M : Total(w, A) = G[A]
  BY TotalIsSums
<1>4. Folds(F)
  <2>1. Folds(G)
    BY <1>2, <1>3
  <2> HIDE DEF Folds
  <2> QED
    BY <2>1, Zenon
<1>5. Sums(w, M, F)
  BY <1>2, <1>4
<1>6. F[M] = G[M]
  BY <1>3, <1>5, SumsAgree
<1>7. MapThenSumSet(LAMBDA t : t.amount, M) = F[M]
  BY DEF One, MapThenSumSet, MapThenFoldSet
<1> QED
  BY <1>3, <1>6, <1>7 DEF w

\* What a category spent in a cycle, and what was put aside for it.
LEMMA AmountsOfCycle ==
  ASSUME NEW U, NEW day, Recorded(U, day), NEW cat, NEW c
  PROVE  SpentOn(U, cat, c) \in Nat /\ PutAside(U, cat, c) \in Int
<1> DEFINE S == Spending(OfCategory(During(U, c), cat))
           M == {t \in OfCategory(During(U, c), cat) : t.kind = "transfer"}
<1>1. S \in SUBSET U /\ M \in SUBSET U
  BY DEF Spending, OfCategory, During, Between
<1> HIDE DEF S, M
<1>2. SpentOn(U, cat, c) \in Nat
  <2>1. TotalOf(S) \in Nat
    BY <1>1, Totals
  <2> QED
    BY <2>1 DEF SpentOn, S
<1>3. PutAside(U, cat, c) \in Int
  <2> DEFINE w == AmountsOf(M)
  <2>1. IsFiniteSet(M) /\ \A t \in M : w[t] \in Int
    BY <1>1, FS_Subset DEF Recorded, AmountsOf
  <2>2. Total(w, M) \in Int
    <3> HIDE DEF w
    <3> QED
      BY <2>1, TotalIsWhole
  <2>3. MapThenSumSet(LAMBDA t : t.amount, M) = Total(w, M)
    BY <2>1, TotalOfAmounts
  <2>4. PutAside(U, cat, c) = MapThenSumSet(LAMBDA t : t.amount, M)
    BY DEF PutAside, M
  <2> QED
    BY <2>2, <2>3, <2>4
<1> QED
  BY <1>2, <1>3

\* What a budget is built from.
Given(x, cs, T, d) ==
  /\ x \in BudgetSettings /\ d \in Int /\ \E day : Recorded(T, day)
  /\ \A i \in DOMAIN cs : cs[i] \in BudgetCategories

\* The settings, the first day and the cycles of a budget on a day.
LEMMA ReplayedCycles ==
  ASSUME NEW x \in BudgetSettings, NEW d \in Int
  PROVE  /\ IsSettings(CycleSettingsOf(x)) /\ IsCycle(CycleNow(x, d))
         /\ CycleNow(x, d).start <= d /\ d < CycleNow(x, d).end /\ StartNow(x, d) \in Int
         /\ Len(CyclesNow(x, d)) \in Nat /\ DOMAIN CyclesNow(x, d) = 1 .. Len(CyclesNow(x, d))
         /\ \A i \in 1 .. Len(CyclesNow(x, d)) : IsCycle(CyclesNow(x, d)[i])
<1> DEFINE s == CycleSettingsOf(x)
           cycle == CycleNow(x, d)
           start == StartNow(x, d)
           cycles == CyclesNow(x, d)
<1>1. IsSettings(s)
  BY StoredSettings
<1>2. Fits(d, s)
  BY <1>1, CyclesFit
<1>3. IsCycle(cycle) /\ cycle.start <= d /\ d < cycle.end /\ cycle.start \in Int
  BY <1>2 DEF Fits, IsCycle, CycleNow
<1>4. start \in Int
  BY <1>3 DEF BudgetStartOf, BudgetSettings, StartNow
<1>5. /\ Len(cycles) \in Nat /\ DOMAIN cycles = 1 .. Len(cycles)
      /\ \A i \in 1 .. Len(cycles) : IsCycle(cycles[i])
  <2>1. LET c == CyclesBetween(start, d, s) IN
         /\ Len(c) \in Nat /\ DOMAIN c = 1 .. Len(c)
         /\ \A i \in 1 .. Len(c) : IsCycle(c[i])
    BY <1>1, <1>4, CyclesOfDays
  <2> QED
    BY <2>1 DEF CyclesNow
<1> QED
  BY <1>1, <1>3, <1>4, <1>5

\* What the replay of a pot is given on that day.
ReplayableOn(p, x, T, d) ==
  Replayable(p, CycleSettingsOf(x), CyclesNow(x, d),
             [k \in DOMAIN CyclesNow(x, d) |-> SpentOn(T, p.id, CyclesNow(x, d)[k])],
             [k \in DOMAIN CyclesNow(x, d) |-> PutAside(T, p.id, CyclesNow(x, d)[k])])

LEMMA PotsAreStates ==
  ASSUME NEW x, NEW cs, NEW T, NEW d, Given(x, cs, T, d)
  PROVE  /\ DOMAIN StatesNow(x, cs, T, d) = PotsOf(cs)
         /\ \A i \in PotsOf(cs) :
              /\ IsPotOf(PotOf(cs[i], d)) /\ IsStateOf(StatesNow(x, cs, T, d)[i], PotOf(cs[i], d))
              /\ StatesNow(x, cs, T, d)[i].backed = StatesNow(x, cs, T, d)[i].balance
              /\ ReplayableOn(PotOf(cs[i], d), x, T, d)
<1> DEFINE s == CycleSettingsOf(x)
           cycles == CyclesNow(x, d)
           states == StatesNow(x, cs, T, d)
<1>1. x \in BudgetSettings /\ d \in Int /\ \A i \in DOMAIN cs : cs[i] \in BudgetCategories
  BY DEF Given
<1>2. PICK day : Recorded(T, day)
  BY DEF Given
<1>3. /\ IsSettings(s) /\ Len(cycles) \in Nat /\ DOMAIN cycles = 1 .. Len(cycles)
      /\ \A i \in 1 .. Len(cycles) : IsCycle(cycles[i])
  BY <1>1, ReplayedCycles
<1>4. ASSUME NEW i \in PotsOf(cs)
      PROVE  /\ IsPotOf(PotOf(cs[i], d)) /\ IsStateOf(states[i], PotOf(cs[i], d))
             /\ states[i].backed = states[i].balance
             /\ ReplayableOn(PotOf(cs[i], d), x, T, d)
  <2> DEFINE p == PotOf(cs[i], d)
             paid == [k \in DOMAIN cycles |-> SpentOn(T, p.id, cycles[k])]
             moved == [k \in DOMAIN cycles |-> PutAside(T, p.id, cycles[k])]
  <2>1. IsPotOf(p)
    <3>1. i \in DOMAIN cs
      BY DEF PotsOf, Live
    <3> QED
      BY <1>1, <3>1, PotsAreOfCategories
  <2>2. states[i] = PotState(p, s, d, PotLedger(p, s, cycles, paid, moved))
    BY Zenon DEF StatesNow, StatesOf, PotNow
  <2> HIDE DEF p, states, s, cycles
  <2>3. Replayable(p, s, cycles, paid, moved)
    <3>1. \A k \in 1 .. Len(cycles) : paid[k] \in Nat /\ moved[k] \in Int
      BY <1>2, <1>3, AmountsOfCycle
    <3> HIDE DEF paid, moved
    <3> QED
      BY <1>3, <2>1, <3>1 DEF Replayable
  <2>4. LET q == PotState(p, s, d, PotLedger(p, s, cycles, paid, moved)) IN
        IsStateOf(q, p) /\ q.backed = q.balance
    <3> HIDE DEF paid, moved
    <3> QED
      BY <1>1, <2>3, StatesAreTyped
  <2>5. ReplayableOn(p, x, T, d)
    BY <2>3 DEF ReplayableOn, cycles, s
  <2> QED
    BY <2>1, <2>2, <2>4, <2>5 DEF p, states
<1>5. DOMAIN states = PotsOf(cs)
  BY DEF StatesNow, StatesOf
<1> QED
  BY <1>4, <1>5

\* The cash behind the pots moves nothing else of them.

LEMMA BackedStates ==
  ASSUME NEW pots, NEW cash, NEW of, \A i \in DOMAIN pots : IsStateOf(pots[i], of[i])
  PROVE  LET new == WithBacking(pots, cash) IN
         /\ DOMAIN new = DOMAIN pots
         /\ \A i \in DOMAIN pots :
              /\ IsStateOf(new[i], of[i])
              /\ new[i].pot = of[i] /\ pots[i].pot = of[i]
              /\ new[i].balance = pots[i].balance /\ new[i].perCycle = pots[i].perCycle
              /\ new[i].nextDue = pots[i].nextDue /\ new[i].needed = pots[i].needed
<1> DEFINE new == WithBacking(pots, cash)
           backed == CHOOSE f : f = [i \in DOMAIN pots |->
                       LET taken == MapThenSumSet(LAMBDA j : f[j],
                                                  {j \in DOMAIN pots : ClaimsBefore(pots, j, i)})
                       IN AtLeast(0, AtMost(pots[i].balance, AtLeast(0, cash) - taken))]
<1>1. new = [i \in DOMAIN pots |-> [pots[i] EXCEPT !.backed = backed[i]]]
  BY Zenon DEF WithBacking
<1> HIDE DEF new, backed
<1>2. ASSUME NEW i \in DOMAIN pots
      PROVE  /\ IsStateOf(new[i], of[i])
             /\ new[i].pot = of[i] /\ pots[i].pot = of[i]
             /\ new[i].balance = pots[i].balance /\ new[i].perCycle = pots[i].perCycle
             /\ new[i].nextDue = pots[i].nextDue /\ new[i].needed = pots[i].needed
  <2> DEFINE q == pots[i]
             v == backed[i]
  <2>1. new[i] = [q EXCEPT !.backed = v]
    BY <1>1
  <2>2. IsStateOf(q, of[i])
    OBVIOUS
  <2> HIDE DEF q, v
  <2>3. q = [pot |-> of[i], balance |-> q.balance, backed |-> q.backed, perCycle |-> q.perCycle,
             contributed |-> q.contributed, nextDue |-> q.nextDue, needed |-> q.needed,
             cyclesUntilDue |-> q.cyclesUntilDue, outstanding |-> q.outstanding]
    BY <2>2 DEF IsStateOf
  <2>4. new[i] = [pot |-> of[i], balance |-> q.balance, backed |-> v, perCycle |-> q.perCycle,
                  contributed |-> q.contributed, nextDue |-> q.nextDue, needed |-> q.needed,
                  cyclesUntilDue |-> q.cyclesUntilDue, outstanding |-> q.outstanding]
    BY <2>1, <2>3
  <2>5. /\ new[i].pot = of[i] /\ q.pot = of[i]
        /\ new[i].balance = q.balance /\ new[i].perCycle = q.perCycle
        /\ new[i].nextDue = q.nextDue /\ new[i].needed = q.needed
        /\ new[i].contributed = q.contributed /\ new[i].cyclesUntilDue = q.cyclesUntilDue
        /\ new[i].outstanding = q.outstanding /\ new[i].backed = v
    BY <2>3, <2>4
  <2>6. IsStateOf(new[i], of[i])
    BY <2>2, <2>4, <2>5 DEF IsStateOf
  <2> QED
    BY <2>5, <2>6 DEF q
<1>3. DOMAIN new = DOMAIN pots
  BY <1>1
<1> QED
  BY <1>2, <1>3 DEF new

-----------------------------------------------------------------------------
(* The types of the household, of the form and of the figure.              *)

\* A transaction is of a category that there is, or was; no two have one number.
EntriesInv ==
  /\ RecordsInv
  /\ \A t \in txs : /\ t.kind \in {"spend", "income", "transfer"}
                    /\ t.cat \in Ids \cup {NoCategory}
                    /\ t.kind # "transfer" => t.amount > 0
  /\ \A i, j \in DOMAIN cats : cats[i].id = cats[j].id => i = j
  /\ IsFiniteSet(DOMAIN cats) /\ DOMAIN cats \subseteq Nat
  /\ \E p \in Plans : CycleSettingsOf(set) = CycleSettingsOf(p.set)

LEMMA EntriesStart == HouseholdInit => EntriesInv
<1> SUFFICES ASSUME HouseholdInit PROVE EntriesInv
  OBVIOUS
<1>1. \A i, j \in DOMAIN cats : cats[i].id = cats[j].id => i = j
  BY HouseholdAssumption DEF HouseholdInit
<1>2. DOMAIN cats = 1 .. Len(cats) /\ Len(cats) \in Nat
  BY HouseholdAssumption DEF HouseholdInit
<1>3. IsFiniteSet(DOMAIN cats) /\ DOMAIN cats \subseteq Nat
  BY <1>2, FS_Interval
<1>4. \E p \in Plans : CycleSettingsOf(set) = CycleSettingsOf(p.set)
  BY DEF HouseholdInit
<1> QED
  BY <1>1, <1>3, <1>4, RecordsStart DEF EntriesInv, HouseholdInit

LEMMA EntriesStep == EntriesInv /\ [HouseholdNext]_householdVars => EntriesInv'
<1> SUFFICES ASSUME EntriesInv, [HouseholdNext]_householdVars PROVE EntriesInv'
  OBVIOUS
<1> DEFINE Fine(t) == /\ t.kind \in {"spend", "income", "transfer"}
                      /\ t.cat \in Ids \cup {NoCategory}
                      /\ t.kind # "transfer" => t.amount > 0
<1>0. RecordsInv'
  BY RecordsStep DEF EntriesInv
<1>1. /\ \A t \in txs : Fine(t)
      /\ \A i, j \in DOMAIN cats : cats[i].id = cats[j].id => i = j
      /\ IsFiniteSet(DOMAIN cats) /\ DOMAIN cats \subseteq Nat
      /\ \E p \in Plans : CycleSettingsOf(set) = CycleSettingsOf(p.set)
  BY DEF EntriesInv
<1>12. CycleSettingsOf(set)' = CycleSettingsOf(set)
  <2>1. CASE set' = set
    BY <2>1
  <2>2. CASE set' # set
    <3>1. MeasureCash
      BY <2>2 DEF HouseholdNext, NextDay, Reopen, EnterSpending, EnterIncome, PutAsideOrTakeBack, Add,
                  RemoveEntry, CreditMissing, RemoveCategory, householdVars
    <3>2. set \in BudgetSettings
      BY DEF EntriesInv, RecordsInv, HouseholdInv
    <3>3. PICK n \in Amounts : set' = [set EXCEPT !.openingCash = n, !.budgetStart = today]
      BY <3>1 DEF MeasureCash
    <3>4. /\ set'.kind = set.kind /\ set'.lengthDays = set.lengthDays
          /\ set'.anchorDate = set.anchorDate /\ set'.anchorDay = set.anchorDay
      BY <3>2, <3>3 DEF BudgetSettings
    <3> QED
      BY <3>4 DEF CycleSettingsOf
  <2> QED
    BY <2>1, <2>2
<1>13. (\E p \in Plans : CycleSettingsOf(set) = CycleSettingsOf(p.set))'
  BY <1>1, <1>12
<1>2. ASSUME cats' = cats, \A t \in txs' : Fine(t) PROVE EntriesInv'
  <2>1. Ids' = Ids
    BY <1>2 DEF Ids
  <2> QED
    BY <1>0, <1>1, <1>2, <1>13, <2>1 DEF EntriesInv
<1>3. CASE NextDay \/ Reopen \/ MeasureCash \/ UNCHANGED householdVars
  BY <1>1, <1>2, <1>3 DEF NextDay, Reopen, MeasureCash, householdVars
<1>4. ASSUME NEW t, Add(t), Fine(t) PROVE EntriesInv'
  <2> HIDE DEF Fine
  <2> QED
    BY <1>1, <1>2, <1>4 DEF Add
<1>5. \A n \in Amounts : n \in Int /\ n > 0
  BY HouseholdAssumption
<1>6. CASE EnterSpending
  <2>1. PICK cat \in Ids, n \in Amounts, d \in today - BackDays .. today : Add(Entry("spend", cat, n, d))
    BY <1>6 DEF EnterSpending
  <2>2. Fine(Entry("spend", cat, n, d))
    BY <1>5 DEF Entry
  <2> HIDE DEF Fine
  <2> QED
    BY <1>4, <2>1, <2>2
<1>7. CASE EnterIncome
  <2>1. PICK n \in Amounts : Add(Entry("income", NoCategory, n, today))
    BY <1>7 DEF EnterIncome
  <2>2. Fine(Entry("income", NoCategory, n, today))
    BY <1>5 DEF Entry
  <2> HIDE DEF Fine
  <2> QED
    BY <1>4, <2>1, <2>2
<1>8. CASE PutAsideOrTakeBack
  <2>1. PICK cat \in PotIds, n \in Amounts, sign \in {-1, 1} : Add(Entry("transfer", cat, sign * n, today))
    BY <1>8 DEF PutAsideOrTakeBack
  <2>2. Fine(Entry("transfer", cat, sign * n, today))
    BY DEF Entry, PotIds, Ids
  <2> HIDE DEF Fine
  <2> QED
    BY <1>4, <2>1, <2>2
<1>9. CASE RemoveEntry
  BY <1>1, <1>2, <1>9 DEF RemoveEntry
<1>10. CASE CreditMissing
  <2> DEFINE due == MissingPaydays(budget.settings, budget.start, now, set.expected, txs)
             credit(p) == [id |-> p.day, kind |-> "income", cat |-> NoCategory,
                           amount |-> p.amount, day |-> p.day, auto |-> TRUE]
  <2>1. txs' = txs \cup {credit(p) : p \in due} /\ cats' = cats
    BY <1>10 DEF CreditMissing
  <2>2. set.expected \in Int
    BY <1>1 DEF EntriesInv, RecordsInv, HouseholdInv, BudgetSettings
  <2>3. ASSUME NEW p \in due PROVE p.amount = set.expected /\ set.expected > 0
    <3> DEFINE cycles == CyclesBetween(budget.start, now, budget.settings)
    <3>1. due # {}
      BY <2>3
    <3>2. ~ (set.expected <= 0)
      BY <3>1, Zenon DEF MissingPaydays
    <3>3. \E i \in DOMAIN cycles : p = [day |-> cycles[i].start, amount |-> set.expected]
      <4> HIDE DEF cycles
      <4> QED
        BY <2>3, <3>2, Zenon DEF MissingPaydays, cycles
    <3> QED
      BY <2>2, <3>2, <3>3
  <2> HIDE DEF due
  <2>4. \A p \in due : Fine(credit(p))
    BY <2>3
  <2>5. \A t \in txs' : Fine(t)
    <3> HIDE DEF Fine, credit
    <3> QED
      BY <1>1, <2>1, <2>4
  <2> QED
    BY <1>2, <2>1, <2>5
<1>11. CASE RemoveCategory
  <2>1. PICK i \in DOMAIN cats : cats' = [cats EXCEPT ![i].deleted = TRUE] /\ UNCHANGED txs
    BY <1>11 DEF RemoveCategory
  <2>2. DOMAIN cats' = DOMAIN cats /\ \A j \in DOMAIN cats : cats'[j].id = cats[j].id
    <3>1. \A j \in DOMAIN cats : cats[j] \in BudgetCategories
      BY DEF EntriesInv, RecordsInv
    <3>2. [cats[i] EXCEPT !.deleted = TRUE].id = cats[i].id
      BY <3>1 DEF BudgetCategories
    <3> QED
      BY <2>1, <3>2
  <2>3. Ids' = Ids
    BY <2>2 DEF Ids
  <2> QED
    BY <1>0, <1>1, <1>13, <2>1, <2>2, <2>3 DEF EntriesInv
<1> QED
  BY <1>3, <1>6, <1>7, <1>8, <1>9, <1>10, <1>11 DEF HouseholdNext

LEMMA EntriesHold == HouseholdSpec => []EntriesInv
BY EntriesStart, EntriesStep, PTL DEF HouseholdSpec

\* The budget shown, and what it is built from.
LEMMA ShownBudget ==
  ASSUME RecordsInv
  PROVE  /\ Given(set, cats, txs, now) /\ budget = BuildBudget(set, cats, txs, now)
         /\ now \in Int /\ today \in Int /\ now <= today
<1>1. now \in Int /\ today \in Int /\ now <= today
  BY DaysPlayed DEF RecordsInv, HouseholdInv
<1> QED
  BY <1>1 DEF RecordsInv, HouseholdInv, Given

\* Each pot that is shown is the state of a category, which the cash behind it does not change.
LEMMA ShownPots ==
  ASSUME NEW x, NEW cs, NEW T, NEW d, Given(x, cs, T, d), NEW b, b = BuildBudget(x, cs, T, d)
  PROVE  /\ DOMAIN b.pots = PotsOf(cs)
         /\ \A i \in PotsOf(cs) :
              LET q == StatesNow(x, cs, T, d)[i] IN
              /\ b.pots[i].pot = PotOf(cs[i], d) /\ q.pot = PotOf(cs[i], d)
              /\ IsPotOf(PotOf(cs[i], d)) /\ IsStateOf(b.pots[i], PotOf(cs[i], d))
              /\ b.pots[i].balance = q.balance /\ b.pots[i].perCycle = q.perCycle
              /\ b.pots[i].nextDue = q.nextDue /\ b.pots[i].needed = q.needed
<1> DEFINE states == StatesNow(x, cs, T, d)
           of == [i \in PotsOf(cs) |-> PotOf(cs[i], d)]
           cash == CashNow(x, T, d)
<1>1. b.pots = WithBacking(states, cash)
  BY BudgetParts
<1>2. DOMAIN states = PotsOf(cs) /\ \A i \in PotsOf(cs) : IsPotOf(of[i]) /\ IsStateOf(states[i], of[i])
  BY PotsAreStates
<1>3. \A i \in PotsOf(cs) : of[i] = PotOf(cs[i], d)
  OBVIOUS
<1> HIDE DEF states, of, cash
<1>4. LET new == WithBacking(states, cash) IN
      /\ DOMAIN new = DOMAIN states
      /\ \A i \in DOMAIN states :
           /\ IsStateOf(new[i], of[i]) /\ new[i].pot = of[i] /\ states[i].pot = of[i]
           /\ new[i].balance = states[i].balance /\ new[i].perCycle = states[i].perCycle
           /\ new[i].nextDue = states[i].nextDue /\ new[i].needed = states[i].needed
  BY <1>2, BackedStates
<1> QED
  BY <1>1, <1>2, <1>3, <1>4 DEF states

LEMMA HouseholdTyped == EntriesInv => HouseholdTypeOK
<1> SUFFICES ASSUME EntriesInv PROVE HouseholdTypeOK
  OBVIOUS
<1>1. RecordsInv /\ HouseholdInv /\ Recorded(txs, today)
  BY DEF EntriesInv, RecordsInv
<1>2. Given(set, cats, txs, now) /\ budget = BuildBudget(set, cats, txs, now)
  BY <1>1, ShownBudget
<1>3. DOMAIN budget.pots = PotsOf(cats) /\ \A i \in PotsOf(cats) : budget.pots[i].balance \in Nat
  <2>1. DOMAIN budget.pots = PotsOf(cats)
        /\ \A i \in PotsOf(cats) : IsStateOf(budget.pots[i], PotOf(cats[i], now))
    BY <1>2, ShownPots
  <2> QED
    BY <2>1 DEF IsStateOf
<1>4. DOMAIN budget.flows = FlowsOf(cats)
  <2>1. budget.flows = FlowsOn(cats, CyclesNow(set, now), txs)
    BY <1>2, BudgetParts
  <2> QED
    BY <2>1 DEF FlowsOn
<1> QED
  BY <1>1, <1>3, <1>4 DEF HouseholdTypeOK, EntriesInv, Recorded, HouseholdInv

LEMMA FormTyped == FormInv => FormTypeOK
<1> SUFFICES ASSUME FormInv PROVE FormTypeOK
  OBVIOUS
<1>1. DueDays \subseteq 1..31 /\ EditDays \subseteq Int
  BY FormAssumption
<1>2. row \in FormRows /\ (row.potKind # "bill" => row.anchor = None /\ row.recurrence = "unset")
  <2>1. CASE row = FlowRow
    BY <2>1 DEF FlowRow, FormRows
  <2>2. CASE \E due \in DueDays : row = OldBillRow(due)
    BY <2>2 DEF OldBillRow, FlowRow, FormRows
  <2>3. ASSUME NEW r \in Offered, NEW d \in EditDays, NEW opening \in {0, 1}, NEW n \in {None, 1, 2},
               NEW due \in DueDays \cup {None}, row = BillRow(r, AnchorFromDueDay(due, d), opening, n, due)
        PROVE  row \in FormRows /\ row.potKind = "bill"
    <3>1. AnchorFromDueDay(due, d) \in Int
      BY DueDaysAreDays
    <3> QED
      BY <2>3, <3>1 DEF BillRow, FlowRow, FormRows
  <2>4. CASE \E n \in {None, 1, 2} : row = GoalRow(n)
    BY <2>4 DEF GoalRow, FlowRow, FormRows
  <2> QED
    BY <2>1, <2>2, <2>3, <2>4 DEF FormInv
<1> QED
  BY <1>2 DEF FormTypeOK, FormInv

LEMMA FigureStaysTyped == MoneyTypeOK /\ figure = [whole |-> figure.whole, frac |-> figure.frac]
                          /\ [MoneyNext]_moneyVars
                          => MoneyTypeOK' /\ (figure = [whole |-> figure.whole, frac |-> figure.frac])'
<1> SUFFICES ASSUME MoneyTypeOK, figure = [whole |-> figure.whole, frac |-> figure.frac],
                    [MoneyNext]_moneyVars
             PROVE  MoneyTypeOK' /\ (figure = [whole |-> figure.whole, frac |-> figure.frac])'
  OBVIOUS
<1> DEFINE w == figure.whole
           f == figure.frac
<1>1. /\ w \in Seq(Digits) /\ f \in Seq(Digits) /\ point \in BOOLEAN /\ (~ point => f = <<>>)
      /\ Len(w) <= MaxWhole /\ Len(f) <= 2 /\ figure = [whole |-> w, frac |-> f] /\ MaxWhole \in Nat
  BY MoneyAssumption DEF MoneyTypeOK
<1>2. ASSUME NEW q \in Seq(Digits), q # <<>>
      PROVE  Front(q) \in Seq(Digits) /\ Len(Front(q)) = Len(q) - 1
  <2> DEFINE n == Len(q) - 1
  <2>1. n \in Nat /\ n \in 0 .. Len(q) /\ 1 \in 1 .. Len(q) + 1
    <3>1. Len(q) \in Nat /\ Len(q) # 0
      BY <1>2
    <3> QED
      BY <3>1
  <2>2. /\ SubSeq(q, 1, n) \in Seq(Digits) /\ Len(SubSeq(q, 1, n)) = IF 1 <= n THEN n - 1 + 1 ELSE 0
    BY <2>1, SubSeqProperties
  <2>3. Front(q) = SubSeq(q, 1, n)
    BY DEF Front
  <2> HIDE DEF n
  <2>4. (IF 1 <= n THEN n - 1 + 1 ELSE 0) = n
    BY <2>1
  <2> QED
    BY <2>2, <2>3, <2>4 DEF n
<1>3. ASSUME NEW q \in Seq(Digits), NEW d \in Digits
      PROVE  Append(q, d) \in Seq(Digits) /\ Len(Append(q, d)) = Len(q) + 1 /\ Len(q) \in Nat
  OBVIOUS
<1> HIDE DEF w, f
<1>4. ASSUME NEW w2 \in Seq(Digits), NEW f2 \in Seq(Digits), figure' = [whole |-> w2, frac |-> f2],
             point' \in BOOLEAN, ~ point' => f2 = <<>>, Len(w2) <= MaxWhole, Len(f2) <= 2
      PROVE  MoneyTypeOK' /\ (figure = [whole |-> figure.whole, frac |-> figure.frac])'
  <2>1. figure'.whole = w2 /\ figure'.frac = f2
    BY <1>4
  <2> QED
    BY <1>4, <2>1 DEF MoneyTypeOK
<1>5. ASSUME NEW d \in Digits, TypeDigit(d)
      PROVE  MoneyTypeOK' /\ (figure = [whole |-> figure.whole, frac |-> figure.frac])'
  <2>1. CASE point
    <3>1. Len(f) < 2 /\ figure' = [whole |-> w, frac |-> Append(f, d)] /\ point' = point
      BY <1>1, <1>5, <2>1 DEF TypeDigit, w, f
    <3> QED
      BY <1>1, <1>3, <1>4, <2>1, <3>1
  <2>2. CASE ~ point
    <3>1. Len(w) < MaxWhole /\ figure' = [whole |-> Append(w, d), frac |-> f] /\ point' = point
      BY <1>1, <1>5, <2>2 DEF TypeDigit, w, f
    <3>2. Append(w, d) \in Seq(Digits) /\ Len(Append(w, d)) <= MaxWhole
      BY <1>1, <1>3, <3>1
    <3>3. f = <<>>
      BY <1>1, <2>2
    <3> QED
      BY <1>1, <1>4, <3>1, <3>2, <3>3
  <2> QED
    BY <2>1, <2>2
<1>6. CASE TypePoint
  BY <1>1, <1>4, <1>6 DEF TypePoint
<1>7. CASE Backspace
  <2>1. CASE ~ point
    <3>1. w # <<>> /\ figure' = [whole |-> Front(w), frac |-> f] /\ point' = point
      BY <1>1, <1>7, <2>1 DEF Backspace, w, f
    <3>2. Front(w) \in Seq(Digits) /\ Len(Front(w)) <= MaxWhole
      <4>1. Len(w) \in Nat
        BY <1>1
      <4> QED
        BY <1>1, <1>2, <3>1, <4>1
    <3>3. f = <<>>
      BY <1>1, <2>1
    <3> QED
      BY <1>1, <1>4, <3>1, <3>2, <3>3
  <2>2. CASE point /\ f = <<>>
    <3>1. figure' = figure /\ point' = FALSE
      BY <1>7, <2>2 DEF Backspace, f
    <3> QED
      BY <1>1, <1>4, <2>2, <3>1
  <2>3. CASE point /\ f # <<>>
    <3>1. figure' = [whole |-> w, frac |-> Front(f)] /\ point' = point
      BY <1>1, <1>7, <2>3 DEF Backspace, w, f
    <3>2. Front(f) \in Seq(Digits) /\ Len(Front(f)) <= 2
      <4>1. Len(f) \in Nat
        BY <1>1
      <4> QED
        BY <1>1, <1>2, <2>3, <4>1
    <3> QED
      BY <1>1, <1>4, <2>3, <3>1, <3>2
  <2> QED
    BY <2>1, <2>2, <2>3
<1>8. CASE UNCHANGED moneyVars
  BY <1>8 DEF moneyVars, MoneyTypeOK
<1> QED
  BY <1>5, <1>6, <1>7, <1>8 DEF MoneyNext

\* Every behaviour of the budget modules plays the figure that is typed.
THEOREM PlayedMoney == BudgetSpec => MoneySpec
<1>1. BudgetInit => MoneyInit
  BY DEF BudgetInit
<1>2. ASSUME [BudgetNext]_budgetVars PROVE [MoneyNext]_moneyVars
  BY <1>2 DEF BudgetNext, budgetVars, moneyVars
<1> QED
  BY <1>1, <1>2, PTL DEF BudgetSpec, MoneySpec

\* The household, the form and the figure keep the values of their types: the app is never
\* ahead of the day, an entry is of a category there is or was, and of a real amount, and
\* there is one state for every live category, whatever it held before.
THEOREM BudgetsKeepTheirTypes == BudgetSpec => []BudgetTypeOK
<1> DEFINE Typed == MoneyTypeOK /\ figure = [whole |-> figure.whole, frac |-> figure.frac]
<1>1. MoneyInit => Typed
  <2> SUFFICES ASSUME MoneyInit PROVE Typed
    OBVIOUS
  <2>1. figure = [whole |-> <<>>, frac |-> <<>>] /\ point = FALSE
    BY DEF MoneyInit
  <2>2. figure.whole = <<>> /\ figure.frac = <<>>
    BY <2>1
  <2>3. <<>> \in Seq(Digits) /\ Len(<<>>) = 0
    OBVIOUS
  <2>4. 0 <= MaxWhole /\ 0 <= 2
    BY MoneyAssumption
  <2>5. MoneyTypeOK
    BY <2>1, <2>2, <2>3, <2>4 DEF MoneyTypeOK
  <2> QED
    BY <2>1, <2>2, <2>5
<1>2. Typed /\ [MoneyNext]_moneyVars => Typed'
  BY FigureStaysTyped
<1>3. EntriesInv /\ FormInv /\ Typed => BudgetTypeOK
  BY HouseholdTyped, FormTyped DEF BudgetTypeOK
<1> QED
  BY <1>1, <1>2, <1>3, PlayedHousehold, PlayedForm, PlayedMoney, EntriesHold, FormHolds, PTL
     DEF MoneySpec

-----------------------------------------------------------------------------
(* What is ready on its date.                                              *)

\* Cycles that follow each other lie after the first.
LEMMA ChainsGoOn ==
  ASSUME NEW s, NEW from, NEW to, NEW c, Chained(c, from, to, s)
  PROVE  /\ \A i \in 1 .. Len(c) : c[1].start < c[i].end
         /\ c[1].start = c[Len(c)].start => Len(c) = 1
<1> DEFINE n == Len(c)
           T == {i \in Nat : i \in 1 .. n /\ ~ (c[1].start < c[i].end)}
<1>1. /\ n \in Nat \ {0} /\ \A i \in 1 .. n : IsCycle(c[i])
      /\ \A i \in 1 .. n : i + 1 <= n => c[i + 1].start = c[i].end
  BY DEF Chained
<1> HIDE DEF n
<1>2. \A i \in 1 .. n : c[i].start \in Int /\ c[i].end \in Int /\ c[i].start < c[i].end
  BY <1>1 DEF IsCycle
<1>3. 1 \in 1 .. n /\ c[1].start \in Int
  BY <1>1, <1>2
<1>4. ASSUME T # {} PROVE FALSE
  <2>1. T \subseteq Nat
    OBVIOUS
  <2>2. PICK i \in T : \A k \in T : i <= k
    <3> HIDE DEF T
    <3> QED
      BY <1>4, <2>1, LeastNumber
  <2>3. i \in Nat /\ i \in 1 .. n /\ ~ (c[1].start < c[i].end)
    OBVIOUS
  <2>4. i # 1
    BY <1>2, <1>3, <2>3
  <2>5. i - 1 \in Nat /\ i - 1 \in 1 .. n /\ (i - 1) + 1 = i /\ i <= n /\ ~ (i <= i - 1)
    BY <1>1, <2>3, <2>4
  <2>6. i - 1 \notin T
    <3> HIDE DEF T
    <3> QED
      BY <2>2, <2>5
  <2>7. c[1].start < c[i - 1].end
    BY <2>5, <2>6
  <2>8. c[i].start = c[i - 1].end
    BY <1>1, <2>5
  <2> QED
    BY <1>2, <1>3, <2>3, <2>5, <2>7, <2>8
<1>5. \A i \in 1 .. n : c[1].start < c[i].end
  BY <1>1, <1>4
<1>6. ASSUME n # 1 PROVE c[1].start # c[n].start
  <2>1. n - 1 \in 1 .. n /\ (n - 1) + 1 = n /\ n <= n
    BY <1>1, <1>6
  <2>2. c[n].start = c[n - 1].end
    BY <1>1, <2>1
  <2> QED
    BY <1>2, <1>3, <1>5, <2>1, <2>2
<1> QED
  BY <1>5, <1>6 DEF n

\* A day of the cycle is the last cycle's, or past: one cycle remains, or none.
LEMMA OneCycleRemains ==
  ASSUME NEW s, IsSettings(s), NEW d \in Int, NEW due \in Int, due < CycleFor(d, s).end
  PROVE  CyclesUntil(CycleFor(d, s).start, due, s) \in {0, 1}
<1> DEFINE c == CycleFor(d, s)
           cs == CyclesBetween(c.start, due, s)
<1>1. Fits(d, s)
  BY CyclesFit
<1>2. /\ IsCycle(c) /\ c.start \in Int /\ c.end \in Int /\ c.start < c.end
      /\ \A e \in Int : c.start <= e /\ e < c.end => CycleFor(e, s) = c
  BY <1>1 DEF Fits, IsCycle
<1> HIDE DEF c
<1>3. CASE due < c.start
  BY <1>3 DEF CyclesUntil, c
<1>4. CASE ~ (due < c.start)
  <2>1. CycleFor(due, s) = c /\ CycleFor(c.start, s) = c
    BY <1>2, <1>4 DEF c
  <2>2. CycleFor(c.start, s).start <= CycleFor(due, s).start
    BY <1>2, <2>1
  <2>3. Chained(cs, c.start, due, s)
    <3>1. LET q == CyclesBetween(c.start, due, s) IN
          IF CycleFor(c.start, s).start <= CycleFor(due, s).start THEN Chained(q, c.start, due, s)
          ELSE q = <<>>
      BY <1>2, CyclesOfDays
    <3> QED
      BY <2>2, <3>1
  <2>4. cs[1] = c /\ cs[Len(cs)] = c
    BY <2>1, <2>3 DEF Chained
  <2>5. Len(cs) = 1
    BY <2>3, <2>4, ChainsGoOn
  <2>6. CyclesUntil(c.start, due, s) = Len(cs)
    BY <1>4 DEF CyclesUntil
  <2> QED
    BY <2>5, <2>6 DEF c
<1> QED
  BY <1>3, <1>4

\* What the last row asks for of a bill that is due in its cycle, or is past; and of a goal
\* without a date after the most installments there are: all that is missing.
LEMMA AllIsAsked ==
  ASSUME NEW s, IsSettings(s), NEW p, IsPotOf(p), NEW index \in Nat, NEW d \in Int,
         NEW due \in Int \cup {None}, NEW before \in Nat,
         \/ p.kind = "bill" /\ due # None /\ FundedBy(due) < CycleFor(d, s).end
         \/ p.kind = "goal" /\ due = None /\ MaxInstallments <= index + 1
  PROVE  Ask(p, index, CycleFor(d, s), due, before, s) = AtLeast(0, p.amount - before)
<1> DEFINE need == AtLeast(0, p.amount - before)
           c == CycleFor(d, s)
           ask == Ask(p, index, c, due, before, s)
<1>0. need \in Nat
  BY DEF IsPotOf, AtLeast
<1> HIDE DEF need
<1>1. CASE need = 0
  <2>1. p.kind # "saving"
    OBVIOUS
  <2>2. ask = 0
    BY <1>1, <2>1, Zenon DEF Ask, need
  <2> QED
    BY <1>1, <2>2 DEF need
<1>2. CASE need # 0 /\ p.kind = "bill"
  <2> DEFINE remaining == CyclesUntil(c.start, FundedBy(due), s)
             planned == InstallmentsFor(p, FundedBy(due), s)
  <2>1. due # None /\ FundedBy(due) \in Int /\ FundedBy(due) < c.end
    <3>1. due # None /\ FundedBy(due) < c.end /\ due \in Int
      BY <1>2
    <3> QED
      BY <3>1, PotsAssumption DEF FundedBy
  <2>2. remaining \in {0, 1}
    BY <2>1, OneCycleRemains
  <2>3. planned \in Nat \ {0}
    BY <1>2, <2>1, InstallmentsAreCounted
  <2> HIDE DEF c
  <2>4. p.kind # "saving"
    BY <1>2
  <2>5. ask = AskDated(p, c.start, due, need, s)
    BY <1>2, <2>1, <2>4, Zenon DEF Ask, need
  <2>6. ask = Spread(need, remaining, planned)
    BY <1>2, <2>5 DEF AskDated
  <2> HIDE DEF remaining, planned
  <2>7. CASE remaining = 0
    BY <2>6, <2>7 DEF Spread, need, c
  <2>8. CASE remaining = 1
    <3>1. AtMost(remaining, AtLeast(1, planned)) = 1
      BY <2>3, <2>8 DEF AtMost, AtLeast
    <3>2. ask = CeilDiv(need, 1)
      BY <2>6, <2>8, <3>1 DEF Spread
    <3>3. CeilDiv(need, 1) = need
      BY <1>0, RoundedUp
    <3> QED
      BY <3>2, <3>3 DEF need, c
  <2> QED
    BY <2>2, <2>7, <2>8
<1>3. CASE need # 0 /\ p.kind = "goal"
  <2> DEFINE over == AtLeast(1, AtMost(IF p.installments = None THEN MaxInstallments
                                       ELSE p.installments, MaxInstallments))
             by == AtLeast(1, over - index)
  <2>1. due = None /\ MaxInstallments <= index + 1
    BY <1>3
  <2>2. over \in Nat /\ over <= MaxInstallments /\ MaxInstallments \in Nat
    BY PotsAssumption DEF IsPotOf, AtLeast, AtMost
  <2> HIDE DEF over
  <2>3. by = 1
    BY <2>1, <2>2 DEF AtLeast
  <2> HIDE DEF by, c
  <2>4. p.kind # "saving"
    BY <1>3
  <2>5. ask = CeilDiv(need, by)
    BY <1>3, <2>1, <2>4, Zenon DEF Ask, AskUndated, need, by, over
  <2>6. CeilDiv(need, 1) = need
    BY <1>0, RoundedUp
  <2> QED
    BY <2>3, <2>5, <2>6 DEF need, c
<1> QED
  BY <1>1, <1>2, <1>3

\* The row of today's cycle: what a pot holds is what it held, and what it asks for, less
\* what was spent of it.
LEMMA LastCycleOfPot ==
  ASSUME RecordsInv, CyclesBetween(budget.start, now, budget.settings) # <<>>, NEW i \in DOMAIN budget.pots
  PROVE  LET q == budget.pots[i]
             p == q.pot
             s == budget.settings
             cycles == CyclesBetween(budget.start, now, s)
             due == TargetDue(p, budget.cycle.start, cycles[1].end)
         IN /\ i \in PotsOf(cats) /\ p = PotOf(cats[i], now) /\ IsPotOf(p) /\ IsStateOf(q, p)
            /\ IsSettings(s) /\ budget.cycle = CycleFor(now, s) /\ Len(cycles) \in Nat \ {0}
            /\ due \in Int \cup {None} /\ (p.kind = "bill" => due \in Int)
            /\ (p.kind = "goal" => due = p.target)
            /\ q.nextDue = IF due = None THEN NextDueOn(p, now) ELSE due
            /\ \E before \in Nat :
                 q.balance = AtLeast(0, before + Ask(p, Len(cycles) - 1, budget.cycle, due, before, s)
                                          - SpentOn(txs, p.id, budget.cycle))
<1> DEFINE s == CycleSettingsOf(set)
           cycle == CycleNow(set, now)
           start == StartNow(set, now)
           cycles == CyclesNow(set, now)
           states == StatesNow(set, cats, txs, now)
           n == Len(cycles)
<1>0. HouseholdInv /\ Given(set, cats, txs, now) /\ budget = BuildBudget(set, cats, txs, now)
  BY ShownBudget DEF RecordsInv
<1>1. budget.settings = s /\ budget.cycle = cycle /\ budget.start = start
  BY <1>0, BudgetParts
<1>2. start \in Int /\ now \in Int /\ Chained(cycles, start, now, s)
  <2>1. set \in BudgetSettings /\ now \in Int
    BY <1>0 DEF Given
  <2>2. start \in Int /\ IsSettings(s)
    BY <2>1, ReplayedCycles
  <2>3. cycles = CyclesBetween(start, now, s) /\ cycles # <<>>
    BY <1>1 DEF CyclesNow
  <2> HIDE DEF cycles, s, start
  <2> QED
    BY <2>1, <2>2, <2>3, CyclesOfDays
<1>3. /\ n \in Nat \ {0} /\ DOMAIN cycles = 1 .. n /\ \A k \in 1 .. n : IsCycle(cycles[k])
      /\ cycles[n] = cycle
  BY <1>2 DEF Chained, CycleNow
<1>4. IsSettings(s)
  BY <1>0, StoredSettings DEF HouseholdInv
<1> DEFINE p == PotOf(cats[i], now)
           paid == [j \in DOMAIN cycles |-> SpentOn(txs, p.id, cycles[j])]
           moved == [j \in DOMAIN cycles |-> PutAside(txs, p.id, cycles[j])]
           ledger == PotLedger(p, s, cycles, paid, moved)
           due == TargetDue(p, cycle.start, cycles[1].end)
           before == IF n = 1 THEN p.opening ELSE ledger[n - 1].balance
           ask == Ask(p, n - 1, cycle, due, before, s)
<1>5. i \in PotsOf(cats)
  BY <1>0, ShownPots
<1>6. /\ budget.pots[i].pot = p /\ IsPotOf(p) /\ IsStateOf(budget.pots[i], p)
      /\ budget.pots[i].balance = states[i].balance /\ budget.pots[i].nextDue = states[i].nextDue
  BY <1>0, <1>5, ShownPots
<1>7. p = PotOf(cats[i], now)
  OBVIOUS
<1>8. states[i] = PotState(p, s, now, ledger)
  BY <1>5, Zenon DEF StatesNow, StatesOf, PotNow
<1>9. Replayable(p, s, cycles, paid, moved)
  <2>1. ReplayableOn(p, set, txs, now)
    BY <1>0, <1>5, PotsAreStates
  <2> QED
    BY <2>1, Zenon DEF ReplayableOn
<1> HIDE DEF cycles, states, s, cycle, start, paid, moved
<1>10. /\ DOMAIN ledger = 1 .. n
       /\ RowIs(p, s, cycles, paid, moved, n, before, ledger[n])
  <2>1. LET rows == PotLedger(p, s, cycles, paid, moved) IN
         /\ Len(rows) = Len(cycles) /\ DOMAIN rows = 1 .. Len(cycles)
         /\ \A k \in 1 .. Len(cycles) :
              RowIs(p, s, cycles, paid, moved, k, IF k = 1 THEN p.opening ELSE rows[k - 1].balance, rows[k])
    BY <1>3, RowsOfLedger
  <2>2. n \in 1 .. n
    BY <1>3
  <2> QED
    BY <2>1, <2>2
<1>11. before \in Nat
  <2>1. CASE n = 1
    BY <1>6, <2>1 DEF IsPotOf
  <2>2. CASE n # 1
    <3>1. n - 1 \in 1 .. n
      BY <1>3, <2>2
    <3>2. ledger[n - 1].balance \in Nat
      BY <1>9, <3>1, RowsAreTyped
    <3> QED
      BY <2>2, <3>2
  <2> QED
    BY <2>1, <2>2
<1>12. LastRow(p, now, ledger) = ledger[n]
  BY <1>3, LastOfRows
<1>13. paid[n] = SpentOn(txs, p.id, cycle)
  <2>1. n \in DOMAIN cycles
    BY <1>3
  <2> QED
    BY <1>3, <2>1 DEF paid
<1> HIDE DEF ledger, p, n
<1>14. ledger[n].targetDue = due /\ ledger[n].balance = AtLeast(0, before + ask - paid[n])
  <2>1. LET v == TargetDue(p, cycles[n].start, cycles[1].end)
            a == Ask(p, n - 1, cycles[n], v, before, s)
        IN ledger[n].targetDue = v /\ ledger[n].balance = AtLeast(0, before + a - paid[n])
    BY <1>10, Zenon DEF RowIs
  <2> QED
    BY <1>3, <2>1
<1>15. /\ states[i].balance = AtLeast(0, before + ask - SpentOn(txs, p.id, cycle))
       /\ states[i].nextDue = IF due = None THEN NextDueOn(p, now) ELSE due
  <2>1. states[i] = StateOf(p, s, now, ledger[n], IF ledger[n].targetDue = None THEN NextDueOn(p, now)
                                                  ELSE ledger[n].targetDue)
    BY <1>8, <1>12, Zenon DEF PotState
  <2>2. states[i].balance = ledger[n].balance
        /\ states[i].nextDue = IF ledger[n].targetDue = None THEN NextDueOn(p, now)
                               ELSE ledger[n].targetDue
    BY <2>1 DEF StateOf
  <2> QED
    BY <1>13, <1>14, <2>2
<1>16. /\ due \in Int \cup {None} /\ (p.kind = "bill" => due \in Int)
       /\ (p.kind = "goal" => due = p.target)
  <2>1. 1 \in 1 .. n /\ n \in 1 .. n
    BY <1>3
  <2>2. cycle.start \in Int /\ cycles[1].end \in Int
    <3>1. IsCycle(cycles[1]) /\ IsCycle(cycles[n])
      BY <1>3, <2>1
    <3> QED
      BY <1>3, <3>1 DEF IsCycle
  <2> QED
    BY <1>6, <2>2, TargetsAreDays
<1>17. \E b \in Nat : states[i].balance = AtLeast(0, b + Ask(p, n - 1, cycle, due, b, s)
                                                       - SpentOn(txs, p.id, cycle))
  BY <1>11, <1>15
<1>18. budget.cycle = CycleFor(now, budget.settings)
  BY <1>1 DEF cycle, s, CycleNow
<1>19. cycles = CyclesBetween(budget.start, now, budget.settings)
  BY <1>1 DEF cycles, s, start, CyclesNow
<1> QED
  BY <1>1, <1>3, <1>4, <1>5, <1>6, <1>7, <1>9, <1>15, <1>16, <1>17, <1>18, <1>19 DEF n

\* In an app opened today there is a cycle that is replayed.
LEMMA TodayIsReplayed ==
  ASSUME RecordsInv, now = today
  PROVE  budget.start <= now /\ CyclesBetween(budget.start, now, budget.settings) # <<>>
<1>1. /\ HouseholdInv /\ now \in Int /\ set \in BudgetSettings
      /\ budget = BuildBudget(set, cats, txs, now)
  BY ShownBudget DEF RecordsInv, HouseholdInv
<1>2. budget.start = StartNow(set, now)
  BY <1>1, BudgetParts
<1>3. CycleNow(set, now).start <= now
  BY <1>1, ReplayedCycles
<1>4. set.budgetStart # None => set.budgetStart <= now
  BY <1>1, DaysPlayed DEF HouseholdInv
<1>5. budget.start <= now
  BY <1>2, <1>3, <1>4 DEF StartNow, BudgetStartOf
<1>6. Chained(CyclesBetween(budget.start, now, budget.settings), budget.start, now, budget.settings)
  BY <1>1, <1>5, LedgerCycles
<1> QED
  BY <1>5, <1>6 DEF Chained

LEMMA BillsAreReady == EntriesInv => BillIsReady
<1> SUFFICES ASSUME EntriesInv, NEW i \in DOMAIN budget.pots, now = today,
                    budget.pots[i].pot.kind = "bill", budget.pots[i].nextDue # None,
                    FundedBy(budget.pots[i].nextDue) < budget.cycle.end,
                    SpentOn(txs, budget.pots[i].pot.id, budget.cycle) = 0
             PROVE  budget.pots[i].balance >= budget.pots[i].pot.amount
  BY DEF BillIsReady
<1> DEFINE q == budget.pots[i]
           p == q.pot
           s == budget.settings
           cycles == CyclesBetween(budget.start, now, s)
           due == TargetDue(p, budget.cycle.start, cycles[1].end)
           ask(b) == Ask(p, Len(cycles) - 1, budget.cycle, due, b, s)
<1>1. RecordsInv /\ now \in Int
  <2>1. RecordsInv
    BY DEF EntriesInv
  <2> QED
    BY <2>1, ShownBudget
<1>2. CyclesBetween(budget.start, now, budget.settings) # <<>>
  BY <1>1, TodayIsReplayed
<1>3. /\ p = PotOf(cats[i], now) /\ IsPotOf(p) /\ IsSettings(s) /\ budget.cycle = CycleFor(now, s)
      /\ Len(cycles) \in Nat \ {0} /\ due \in Int /\ q.nextDue = due
      /\ \E b \in Nat : q.balance = AtLeast(0, b + ask(b) - SpentOn(txs, p.id, budget.cycle))
  <2>1. due \in Int => due # None
    BY PotsAssumption
  <2> QED
    BY <1>1, <1>2, <2>1, LastCycleOfPot
<1>4. PICK b \in Nat : q.balance = AtLeast(0, b + ask(b) - SpentOn(txs, p.id, budget.cycle))
  BY <1>3
<1>5. ask(b) = AtLeast(0, p.amount - b)
  <2>1. /\ p.kind = "bill" /\ due # None /\ FundedBy(due) < CycleFor(now, s).end
        /\ Len(cycles) - 1 \in Nat /\ due \in Int \cup {None}
    BY <1>3, PotsAssumption
  <2> HIDE DEF p, s, cycles, due
  <2>2. Ask(p, Len(cycles) - 1, CycleFor(now, s), due, b, s) = AtLeast(0, p.amount - b)
    <3>1. ASSUME NEW index \in Nat, NEW v \in Int \cup {None},
                 p.kind = "bill", v # None, FundedBy(v) < CycleFor(now, s).end
          PROVE  Ask(p, index, CycleFor(now, s), v, b, s) = AtLeast(0, p.amount - b)
      <4>1. IsSettings(s) /\ IsPotOf(p) /\ now \in Int
        BY <1>1, <1>3
      <4>2. \/ p.kind = "bill" /\ v # None /\ FundedBy(v) < CycleFor(now, s).end
            \/ p.kind = "goal" /\ v = None /\ MaxInstallments <= index + 1
        BY <3>1
      <4> QED
        BY <4>1, <4>2, AllIsAsked
    <3> QED
      BY <2>1, <3>1
  <2> QED
    BY <1>3, <2>2
<1>6. SpentOn(txs, p.id, budget.cycle) = 0 /\ p.amount \in Nat
  BY <1>3 DEF IsPotOf
<1> HIDE DEF p, s, cycles, due, ask
<1>7. q.balance >= p.amount
  BY <1>4, <1>5, <1>6 DEF AtLeast
<1> QED
  BY <1>7 DEF p

LEMMA GoalsAreMet == EntriesInv => GoalIsMet
<1> SUFFICES ASSUME EntriesInv, NEW i \in DOMAIN budget.pots
             PROVE  LET p == budget.pots[i]
                        cycles == CyclesBetween(budget.start, now, budget.settings)
                    IN /\ p.pot.kind # "saving" => p.balance <= AtLeast(p.pot.amount, p.pot.opening)
                       /\ /\ p.pot.kind = "goal" /\ p.pot.target = None /\ Len(cycles) >= MaxInstallments
                          /\ Spending(OfCategory(txs, p.pot.id)) = {}
                          => p.needed = 0
  BY DEF GoalIsMet
<1> DEFINE q == budget.pots[i]
           p == q.pot
           s == budget.settings
           cycles == CyclesBetween(budget.start, now, s)
           due == TargetDue(p, budget.cycle.start, cycles[1].end)
           ask(b) == Ask(p, Len(cycles) - 1, budget.cycle, due, b, s)
<1>1. RecordsInv /\ Given(set, cats, txs, now) /\ budget = BuildBudget(set, cats, txs, now)
      /\ now \in Int /\ HouseholdInv
  <2>1. RecordsInv
    BY DEF EntriesInv
  <2> QED
    BY <2>1, ShownBudget DEF RecordsInv
<1>2. IsPotOf(p) /\ IsStateOf(q, p)
  <2>1. DOMAIN budget.pots = PotsOf(cats)
    BY <1>1, ShownPots
  <2>2. q.pot = PotOf(cats[i], now) /\ IsPotOf(PotOf(cats[i], now)) /\ IsStateOf(q, PotOf(cats[i], now))
    BY <1>1, <2>1, ShownPots
  <2> QED
    BY <2>2
<1>3. p.kind # "saving" => q.balance <= AtLeast(p.amount, p.opening)
  BY <1>2 DEF IsStateOf
<1>4. ASSUME p.kind = "goal", p.target = None, Len(cycles) >= MaxInstallments,
             Spending(OfCategory(txs, p.id)) = {}
      PROVE  q.needed = 0
  <2>1. cycles # <<>>
    BY <1>4, PotsAssumption
  <2>2. /\ p = PotOf(cats[i], now) /\ IsSettings(s) /\ budget.cycle = CycleFor(now, s)
        /\ Len(cycles) \in Nat \ {0} /\ due = None
        /\ \E b \in Nat : q.balance = AtLeast(0, b + ask(b) - SpentOn(txs, p.id, budget.cycle))
    BY <1>1, <1>4, <2>1, LastCycleOfPot
  <2>3. PICK b \in Nat : q.balance = AtLeast(0, b + ask(b) - SpentOn(txs, p.id, budget.cycle))
    BY <2>2
  <2>4. ask(b) = AtLeast(0, p.amount - b)
    <3>1. /\ p.kind = "goal" /\ due = None /\ Len(cycles) - 1 \in Nat /\ MaxInstallments \in Nat
          /\ MaxInstallments <= Len(cycles) - 1 + 1 /\ due \in Int \cup {None}
      BY <1>4, <2>2, PotsAssumption
    <3> HIDE DEF p, s, cycles, due
    <3>2. Ask(p, Len(cycles) - 1, CycleFor(now, s), due, b, s) = AtLeast(0, p.amount - b)
      <4>1. ASSUME NEW index \in Nat, NEW v \in Int \cup {None},
                   p.kind = "goal", v = None, MaxInstallments <= index + 1
            PROVE  Ask(p, index, CycleFor(now, s), v, b, s) = AtLeast(0, p.amount - b)
        <5>1. IsSettings(s) /\ IsPotOf(p) /\ now \in Int
          BY <1>1, <1>2, <2>2, <2>3
        <5>2. \/ p.kind = "bill" /\ v # None /\ FundedBy(v) < CycleFor(now, s).end
              \/ p.kind = "goal" /\ v = None /\ MaxInstallments <= index + 1
          BY <4>1
        <5> QED
          BY <5>1, <5>2, AllIsAsked
      <4> QED
        BY <3>1, <4>1
    <3> QED
      BY <2>2, <3>2
  <2>5. SpentOn(txs, p.id, budget.cycle) = 0
    <3>1. Spending(OfCategory(During(txs, budget.cycle), p.id)) \subseteq Spending(OfCategory(txs, p.id))
      BY DEF Spending, OfCategory, During, Between
    <3>2. SpentOn(txs, p.id, budget.cycle) = TotalOf({})
      BY <1>4, <3>1 DEF SpentOn
    <3>3. Recorded(txs, today)
      BY <1>1 DEF RecordsInv
    <3> QED
      BY <3>2, <3>3, Totals
  <2>6. p.amount \in Nat /\ q.needed = AtLeast(0, p.amount - q.balance)
    BY <1>2, <1>4 DEF IsPotOf, IsStateOf
  <2> HIDE DEF p, s, cycles, due, ask, q
  <2> QED
    BY <2>3, <2>4, <2>5, <2>6 DEF AtLeast
<1> QED
  BY <1>3, <1>4

-----------------------------------------------------------------------------
(* The cash behind the pots.                                               *)

\* Finitely many pots that claim an amount each, on a date or none.
Claims(pots) ==
  /\ IsFiniteSet(DOMAIN pots) /\ DOMAIN pots \subseteq Nat
  /\ \A i \in DOMAIN pots : pots[i].balance \in Nat /\ pots[i].nextDue \in Int \cup {None}

Sooner(pots, i) == {j \in DOMAIN pots : ClaimsBefore(pots, j, i)}
UpTo(pots, i) == Sooner(pots, i) \cup {i}
Rank(pots, i) == Cardinality(Sooner(pots, i))

\* The claims stand in a line.
LEMMA ClaimsAreOrdered ==
  ASSUME NEW pots, Claims(pots)
  PROVE  /\ \A i \in DOMAIN pots : i \notin Sooner(pots, i) /\ IsFiniteSet(Sooner(pots, i))
         /\ \A i, j \in DOMAIN pots : i = j \/ i \in Sooner(pots, j) \/ j \in Sooner(pots, i)
         /\ \A i, j \in DOMAIN pots : i \in Sooner(pots, j) => UpTo(pots, i) \subseteq Sooner(pots, j)
<1>1. /\ IsFiniteSet(DOMAIN pots) /\ DOMAIN pots \subseteq Nat
      /\ \A i \in DOMAIN pots : pots[i].nextDue \in Int \cup {None}
  BY DEF Claims
<1>2. ASSUME NEW i \in DOMAIN pots PROVE IsFiniteSet(Sooner(pots, i)) /\ i \notin Sooner(pots, i)
  <2>1. Sooner(pots, i) \in SUBSET DOMAIN pots
    BY DEF Sooner
  <2>2. IsFiniteSet(Sooner(pots, i))
    BY <1>1, <2>1, FS_Subset
  <2>3. ~ ClaimsBefore(pots, i, i)
    BY <1>1, PotsAssumption DEF ClaimsBefore
  <2> QED
    BY <2>2, <2>3 DEF Sooner
<1>3. ASSUME NEW i \in DOMAIN pots, NEW j \in DOMAIN pots
      PROVE  i = j \/ i \in Sooner(pots, j) \/ j \in Sooner(pots, i)
  <2>1. i \in Nat /\ j \in Nat /\ pots[i].nextDue \in Int \cup {None} /\ pots[j].nextDue \in Int \cup {None}
    BY <1>1
  <2>2. i = j \/ ClaimsBefore(pots, i, j) \/ ClaimsBefore(pots, j, i)
    BY <2>1, PotsAssumption DEF ClaimsBefore
  <2> QED
    BY <2>2 DEF Sooner
<1>4. ASSUME NEW i \in DOMAIN pots, NEW j \in DOMAIN pots, NEW k \in DOMAIN pots,
             ClaimsBefore(pots, k, i), ClaimsBefore(pots, i, j)
      PROVE  ClaimsBefore(pots, k, j)
  <2>1. /\ i \in Nat /\ j \in Nat /\ k \in Nat /\ pots[i].nextDue \in Int \cup {None}
        /\ pots[j].nextDue \in Int \cup {None} /\ pots[k].nextDue \in Int \cup {None}
    BY <1>1
  <2> QED
    BY <1>4, <2>1, PotsAssumption DEF ClaimsBefore
<1>5. \A i, j \in DOMAIN pots : i \in Sooner(pots, j) => UpTo(pots, i) \subseteq Sooner(pots, j)
  BY <1>4 DEF Sooner, UpTo
<1> QED
  BY <1>2, <1>3, <1>5

LEMMA RanksAreOrdered ==
  ASSUME NEW pots, Claims(pots), NEW j \in DOMAIN pots
  PROVE  /\ Rank(pots, j) \in Nat
         /\ \A i \in Sooner(pots, j) : i \in DOMAIN pots /\ Rank(pots, i) \in Nat /\ Rank(pots, i) < Rank(pots, j)
<1>1. \A i \in DOMAIN pots : IsFiniteSet(Sooner(pots, i)) /\ Rank(pots, i) \in Nat /\ i \notin Sooner(pots, i)
  BY ClaimsAreOrdered, FS_CardinalityType DEF Rank
<1>2. ASSUME NEW i \in Sooner(pots, j) PROVE i \in DOMAIN pots /\ Rank(pots, i) < Rank(pots, j)
  <2>1. i \in DOMAIN pots
    BY DEF Sooner
  <2>2. Sooner(pots, i) \in SUBSET (Sooner(pots, j) \ {i}) /\ i \in Sooner(pots, j)
    <3>1. UpTo(pots, i) \subseteq Sooner(pots, j)
      BY <2>1, ClaimsAreOrdered
    <3> QED
      BY <1>1, <2>1, <3>1 DEF UpTo
  <2> DEFINE S == Sooner(pots, j)
             R == Sooner(pots, i)
  <2>3. IsFiniteSet(S) /\ IsFiniteSet(S \ {i}) /\ Cardinality(S \ {i}) = Cardinality(S) - 1
    BY <1>1, FS_RemoveElement
  <2>4. R \in SUBSET (S \ {i})
    BY <2>2
  <2> HIDE DEF S, R
  <2>5. Cardinality(R) <= Cardinality(S \ {i}) /\ Cardinality(R) \in Nat /\ Cardinality(S) \in Nat
    BY <2>3, <2>4, FS_Subset, FS_CardinalityType
  <2>6. Cardinality(R) < Cardinality(S)
    BY <2>3, <2>5
  <2> QED
    BY <2>1, <2>6 DEF Rank, S, R
<1> QED
  BY <1>1, <1>2

\* What holds of a claim when it holds of all that are sooner, holds of every claim.
LEMMA SoonerFirst ==
  ASSUME NEW pots, Claims(pots), NEW P,
         \A i \in DOMAIN pots : (\A j \in Sooner(pots, i) : j \in P) => i \in P
  PROVE  \A i \in DOMAIN pots : i \in P
<1> DEFINE T == {Rank(pots, i) : i \in DOMAIN pots \ P}
<1> SUFFICES ASSUME T # {} PROVE FALSE
  OBVIOUS
<1>1. T \subseteq Nat
  BY RanksAreOrdered
<1>2. PICK n \in T : \A k \in T : n <= k
  <2> HIDE DEF T
  <2> QED
    BY <1>1, LeastNumber
<1>3. PICK i \in DOMAIN pots \ P : n = Rank(pots, i)
  OBVIOUS
<1>4. ASSUME NEW j \in Sooner(pots, i) PROVE j \in P
  <2>1. j \in DOMAIN pots /\ Rank(pots, j) \in Nat /\ Rank(pots, j) < Rank(pots, i) /\ Rank(pots, i) \in Nat
    BY RanksAreOrdered
  <2>2. ~ (n <= Rank(pots, j))
    BY <1>3, <2>1
  <2>3. Rank(pots, j) \notin T
    <3> HIDE DEF T
    <3> QED
      BY <1>2, <2>2
  <2> QED
    BY <2>1, <2>3
<1> QED
  BY <1>3, <1>4

\* The sooner claims are all up to the last of them; and so are all.
LEMMA LastClaim ==
  ASSUME NEW pots, Claims(pots), NEW A \in SUBSET DOMAIN pots, A # {},
         \A i \in A : Sooner(pots, i) \subseteq A
  PROVE  \E i \in A : A = UpTo(pots, i)
<1> DEFINE m == Cardinality(DOMAIN pots)
           T == {m - Rank(pots, i) : i \in A}
<1>1. m \in Nat /\ \A i \in DOMAIN pots : Rank(pots, i) \in Nat /\ Rank(pots, i) <= m
  <2>1. IsFiniteSet(DOMAIN pots)
    BY DEF Claims
  <2>2. \A i \in DOMAIN pots : Sooner(pots, i) \in SUBSET DOMAIN pots
    BY DEF Sooner
  <2> QED
    BY <2>1, <2>2, FS_Subset, FS_CardinalityType DEF Rank
<1> HIDE DEF m
<1>2. T \subseteq Nat /\ T # {}
  BY <1>1
<1>3. PICK n \in T : \A k \in T : n <= k
  <2> HIDE DEF T
  <2> QED
    BY <1>2, LeastNumber
<1>4. PICK i \in A : n = m - Rank(pots, i)
  OBVIOUS
<1>5. \A j \in A : n <= m - Rank(pots, j)
  <2> SUFFICES ASSUME NEW j \in A PROVE n <= m - Rank(pots, j)
    OBVIOUS
  <2>1. m - Rank(pots, j) \in T
    OBVIOUS
  <2> HIDE DEF T
  <2> QED
    BY <1>3, <2>1
<1>6. ASSUME NEW j \in A PROVE j \in UpTo(pots, i)
  <2> SUFFICES ASSUME i \in Sooner(pots, j) PROVE FALSE
    BY ClaimsAreOrdered DEF UpTo
  <2>1. Rank(pots, i) < Rank(pots, j)
    BY RanksAreOrdered
  <2>2. Rank(pots, i) \in Nat /\ Rank(pots, j) \in Nat
    BY <1>1
  <2>3. n <= m - Rank(pots, j)
    BY <1>5
  <2> HIDE DEF T
  <2> QED
    BY <1>1, <1>4, <2>1, <2>2, <2>3
<1> QED
  BY <1>4, <1>6 DEF UpTo

\* What `backed` computes (see WithBacking), for the claims of a set.
Share(pots, cash, i, f) ==
  AtLeast(0, AtMost(pots[i].balance, AtLeast(0, cash) - Total(f, Sooner(pots, i))))
Backs(pots, cash, A, f) == f = [i \in A |-> Share(pots, cash, i, f)]

LEMMA SharesExist ==
  ASSUME NEW pots, Claims(pots), NEW cash
  PROVE  \E f : Backs(pots, cash, DOMAIN pots, f)
<1> DEFINE D(n) == {i \in DOMAIN pots : Rank(pots, i) <= n}
           T == {n \in Nat : ~ \E f : Backs(pots, cash, D(n), f)}
           m == Cardinality(DOMAIN pots)
<1>1. m \in Nat /\ D(m) = DOMAIN pots
  <2>1. IsFiniteSet(DOMAIN pots)
    BY DEF Claims
  <2>2. \A i \in DOMAIN pots : Sooner(pots, i) \in SUBSET DOMAIN pots
    BY DEF Sooner
  <2>3. \A i \in DOMAIN pots : Rank(pots, i) <= m
    BY <2>1, <2>2, FS_Subset, FS_CardinalityType DEF Rank
  <2> QED
    BY <2>1, <2>3, FS_CardinalityType
<1>2. ASSUME T # {} PROVE FALSE
  <2>1. T \subseteq Nat
    OBVIOUS
  <2>2. PICK n \in T : \A k \in T : n <= k
    <3> HIDE DEF T
    <3> QED
      BY <1>2, <2>1, LeastNumber
  <2>3. n \in Nat /\ ~ \E f : Backs(pots, cash, D(n), f)
    OBVIOUS
  <2>4. PICK g : \A i \in D(n) : \A j \in Sooner(pots, i) : j \in D(n) /\ g[j] = Share(pots, cash, j, g)
    <3>1. CASE n = 0
      <4>1. \A i \in D(n) : Sooner(pots, i) = {}
        BY <3>1, RanksAreOrdered
      <4> QED
        BY <4>1
    <3>2. CASE n # 0
      <4>1. n - 1 \in Nat /\ ~ (n <= n - 1)
        BY <2>3, <3>2
      <4>2. n - 1 \notin T
        <5> HIDE DEF T
        <5> QED
          BY <2>2, <4>1
      <4>3. PICK g : Backs(pots, cash, D(n - 1), g)
        BY <4>1, <4>2
      <4>4. \A j \in D(n - 1) : g[j] = Share(pots, cash, j, g)
        <5> HIDE DEF D
        <5> QED
          BY <4>3, Zenon DEF Backs
      <4>5. ASSUME NEW i \in D(n), NEW j \in Sooner(pots, i) PROVE j \in D(n - 1) /\ j \in D(n)
        <5>1. /\ j \in DOMAIN pots /\ Rank(pots, j) \in Nat /\ Rank(pots, j) < Rank(pots, i)
              /\ Rank(pots, i) \in Nat /\ Rank(pots, i) <= n
          BY RanksAreOrdered
        <5> QED
          BY <2>3, <5>1
      <4> HIDE DEF D
      <4> QED
        BY <4>4, <4>5
    <3> QED
      BY <3>1, <3>2
  <2> DEFINE f == [i \in D(n) |-> Share(pots, cash, i, g)]
  <2>5. \A i \in D(n) : \A j \in Sooner(pots, i) : g[j] = f[j]
    <3> HIDE DEF D
    <3> QED
      BY <2>4
  <2>6. ASSUME NEW i \in D(n) PROVE Share(pots, cash, i, g) = Share(pots, cash, i, f)
    <3>1. IsFiniteSet(Sooner(pots, i))
      BY ClaimsAreOrdered
    <3>2. \A j \in Sooner(pots, i) : g[j] = f[j]
      BY <2>5
    <3> HIDE DEF f
    <3>3. Total(g, Sooner(pots, i)) = Total(f, Sooner(pots, i))
      BY <3>1, <3>2, TotalAgrees
    <3> QED
      BY <3>3 DEF Share
  <2>7. f = [i \in D(n) |-> Share(pots, cash, i, f)]
    <3> HIDE DEF D
    <3> QED
      BY <2>6, Zenon
  <2>8. Backs(pots, cash, D(n), f)
    <3> HIDE DEF D, f
    <3> QED
      BY <2>7 DEF Backs
  <2> QED
    BY <2>3, <2>8
<1>3. \E f : Backs(pots, cash, D(m), f)
  BY <1>1, <1>2
<1> QED
  BY <1>1, <1>3

LEMMA BackingIsShared ==
  ASSUME NEW pots, Claims(pots), NEW cash
  PROVE  \E f : /\ Backs(pots, cash, DOMAIN pots, f)
                /\ WithBacking(pots, cash) = [i \in DOMAIN pots |-> [pots[i] EXCEPT !.backed = f[i]]]
<1> DEFINE B(f) == f = [i \in DOMAIN pots |-> Share(pots, cash, i, f)]
           f == CHOOSE g : B(g)
<1>1. B(f)
  <2>1. \E g : B(g)
    BY SharesExist DEF Backs
  <2> HIDE DEF B
  <2> QED
    BY <2>1
<1>2. Backs(pots, cash, DOMAIN pots, f)
  <2> HIDE DEF f
  <2> QED
    BY <1>1 DEF Backs
<1>3. WithBacking(pots, cash) = [i \in DOMAIN pots |-> [pots[i] EXCEPT !.backed = f[i]]]
  BY Zenon DEF WithBacking, Share, Total, Sooner
<1> QED
  BY <1>2, <1>3

\* The claims up to one are given what they claim together, or all there is.
LEMMA SharesFillUp ==
  ASSUME NEW pots, Claims(pots), NEW cash \in Int, NEW f, Backs(pots, cash, DOMAIN pots, f),
         NEW w, \A i \in DOMAIN pots : w[i] = pots[i].balance
  PROVE  /\ \A i \in DOMAIN pots : f[i] \in Nat /\ f[i] <= pots[i].balance
         /\ Total(f, DOMAIN pots) = AtMost(Total(w, DOMAIN pots), AtLeast(0, cash))
         /\ \A i \in DOMAIN pots : \A j \in Sooner(pots, i) : f[i] > 0 => f[j] = pots[j].balance
<1> DEFINE D == DOMAIN pots
           held == AtLeast(0, cash)
           Good(A) == Total(f, A) = AtMost(Total(w, A), held)
<1>1. held \in Nat
  BY DEF AtLeast
<1>2. IsFiniteSet(D) /\ \A i \in D : w[i] \in Nat /\ w[i] \in Int /\ pots[i].balance = w[i]
  BY DEF Claims
<1>3. \A i \in D : f[i] = AtLeast(0, AtMost(w[i], held - Total(f, Sooner(pots, i))))
  <2>1. \A i \in D : f[i] = Share(pots, cash, i, f)
    BY Zenon DEF Backs
  <2> QED
    BY <1>2, <2>1 DEF Share
<1> HIDE DEF held
<1>4. \A i \in D : /\ Sooner(pots, i) \in SUBSET D /\ UpTo(pots, i) \in SUBSET D
                   /\ i \notin Sooner(pots, i) /\ IsFiniteSet(Sooner(pots, i))
                   /\ \A j \in Sooner(pots, i) : Sooner(pots, j) \subseteq Sooner(pots, i)
                   /\ UpTo(pots, i) \ {i} = Sooner(pots, i)
  <2>1. \A i \in D : i \notin Sooner(pots, i) /\ IsFiniteSet(Sooner(pots, i))
    BY ClaimsAreOrdered
  <2>2. \A i \in D : \A j \in Sooner(pots, i) : Sooner(pots, j) \subseteq Sooner(pots, i)
    BY ClaimsAreOrdered DEF UpTo, Sooner
  <2>3. \A i \in D : Sooner(pots, i) \in SUBSET D
    BY DEF Sooner
  <2> QED
    BY <2>1, <2>2, <2>3 DEF UpTo
<1>5. \A A \in SUBSET D : Total(w, A) \in Int
  BY <1>2, TotalIsWhole
<1>6. Good({})
  BY <1>1, TotalOfNone DEF AtMost
\* One claim more.
<1>7. ASSUME NEW i \in D, Good(Sooner(pots, i)), \A j \in Sooner(pots, i) : f[j] \in Int
      PROVE  /\ f[i] \in Nat /\ f[i] <= w[i] /\ Good(UpTo(pots, i))
             /\ Total(f, UpTo(pots, i)) \in Int
             /\ (f[i] # w[i] => Total(f, UpTo(pots, i)) = held)
             /\ (f[i] > 0 => Total(f, Sooner(pots, i)) < held)
  <2> DEFINE S == Sooner(pots, i)
             U == UpTo(pots, i)
             taken == Total(f, S)
             claimed == Total(w, S)
  <2>1. taken = AtMost(claimed, held) /\ claimed \in Int
    BY <1>4, <1>5, <1>7
  <2>2. f[i] = AtLeast(0, AtMost(w[i], held - taken))
    BY <1>3
  <2>3. i \in U /\ U \ {i} = S /\ IsFiniteSet(U) /\ U \in SUBSET D
    <3>1. IsFiniteSet(S) /\ U = S \cup {i}
      BY <1>4 DEF UpTo
    <3> QED
      BY <1>4, <3>1, FS_AddElement
  <2>4. Total(w, U) = w[i] + claimed
    <3>1. \A j \in U : w[j] \in Int
      BY <1>2, <2>3
    <3>2. IsFiniteSet(U) /\ U \in SUBSET U
      BY <2>3
    <3> HIDE DEF U, S
    <3>3. i \in U
      BY <2>3
    <3>4. Total(w, U) = w[i] + Total(w, U \ {i})
      BY <3>1, <3>2, <3>3, TotalTakesAny
    <3> QED
      BY <2>3, <3>4
  <2>5. f[i] \in Int
    BY <1>1, <1>2, <2>1, <2>2 DEF AtMost, AtLeast
  <2>6. Total(f, U) = f[i] + taken
    <3>1. \A j \in U : f[j] \in Int
      BY <1>7, <2>5 DEF UpTo
    <3>2. IsFiniteSet(U) /\ U \in SUBSET U
      BY <2>3
    <3> HIDE DEF U, S
    <3>3. i \in U
      BY <2>3
    <3>4. Total(f, U) = f[i] + Total(f, U \ {i})
      BY <3>1, <3>2, <3>3, TotalTakesAny
    <3> QED
      BY <2>3, <3>4
  <2> HIDE DEF taken, claimed, S, U
  <2>7. /\ f[i] \in Nat /\ f[i] <= w[i] /\ f[i] + taken = AtMost(w[i] + claimed, held)
        /\ (f[i] # w[i] => f[i] + taken = held) /\ (f[i] > 0 => taken < held)
        /\ f[i] + taken \in Int
    <3>1. w[i] \in Nat
      BY <1>2
    <3> QED
      BY <1>1, <2>1, <2>2, <3>1 DEF AtMost, AtLeast
  <2> QED
    BY <2>4, <2>6, <2>7 DEF taken, claimed, S, U
\* Of claims that are all up to one of them.
<1>8. ASSUME NEW A \in SUBSET D, \A i \in A : Sooner(pots, i) \subseteq A,
             \A i \in A : Good(UpTo(pots, i))
      PROVE  Good(A)
  <2>1. CASE A = {}
    BY <1>6, <2>1
  <2>2. CASE A # {}
    <3>1. PICK i \in A : A = UpTo(pots, i)
      BY <1>8, <2>2, LastClaim
    <3> QED
      BY <1>8, <3>1
  <2> QED
    BY <2>1, <2>2
<1> DEFINE P == {i \in D : f[i] \in Nat /\ Good(UpTo(pots, i)) /\ Good(Sooner(pots, i))}
<1>9. \A i \in D : i \in P
  <2>1. ASSUME NEW i \in D, \A j \in Sooner(pots, i) : j \in P PROVE i \in P
    <3>1. Sooner(pots, i) \in SUBSET D /\ \A j \in Sooner(pots, i) : Sooner(pots, j) \subseteq Sooner(pots, i)
      BY <1>4
    <3>2. \A j \in Sooner(pots, i) : Good(UpTo(pots, j)) /\ f[j] \in Int
      BY <2>1
    <3> HIDE DEF Good
    <3>3. Good(Sooner(pots, i))
      BY <1>8, <3>1, <3>2
    <3>4. f[i] \in Nat /\ Good(UpTo(pots, i))
      BY <1>7, <3>2, <3>3
    <3> QED
      BY <3>3, <3>4
  <2> HIDE DEF P
  <2> QED
    BY <2>1, SoonerFirst
<1>10. \A i \in D : f[i] \in Nat /\ f[i] \in Int /\ Good(UpTo(pots, i)) /\ Good(Sooner(pots, i))
  BY <1>9
<1> HIDE DEF P
<1>11. Good(D)
  <2>1. \A i \in D : Sooner(pots, i) \subseteq D
    BY <1>4
  <2> HIDE DEF Good
  <2> QED
    BY <1>8, <1>10, <2>1
<1>12. ASSUME NEW i \in D
       PROVE  /\ f[i] \in Nat /\ f[i] <= w[i] /\ Total(f, UpTo(pots, i)) \in Int
              /\ (f[i] # w[i] => Total(f, UpTo(pots, i)) = held)
              /\ (f[i] > 0 => Total(f, Sooner(pots, i)) < held)
  <2>1. \A j \in Sooner(pots, i) : f[j] \in Int
    BY <1>4, <1>10
  <2> HIDE DEF Good
  <2> QED
    BY <1>7, <1>10, <2>1
<1>13. ASSUME NEW i \in D, NEW j \in Sooner(pots, i), f[i] > 0 PROVE f[j] = w[j]
  <2> SUFFICES ASSUME f[j] # w[j] PROVE FALSE
    OBVIOUS
  <2>1. j \in D
    BY <1>4
  <2>2. UpTo(pots, j) \in SUBSET Sooner(pots, i)
    BY <2>1, ClaimsAreOrdered
  <2>3. Total(f, UpTo(pots, j)) = held /\ Total(f, Sooner(pots, i)) < held
    BY <1>12, <1>13, <2>1
  <2> DEFINE S == Sooner(pots, i)
             U == UpTo(pots, j)
  <2>4. IsFiniteSet(S) /\ \A k \in S : f[k] \in Nat
    BY <1>4, <1>10
  <2>5. U \in SUBSET S
    BY <2>2
  <2> HIDE DEF S, U
  <2>6. Total(f, U) <= Total(f, S) /\ Total(f, U) \in Nat
    BY <2>4, <2>5, TotalGrows
  <2>7. Total(f, S) \in Int
    <3>1. Total(f, S) \in Nat
      BY <2>4, TotalGrows
    <3> QED
      BY <3>1
  <2> QED
    BY <1>1, <2>3, <2>6, <2>7 DEF S, U
<1>14. Total(f, DOMAIN pots) = AtMost(Total(w, DOMAIN pots), AtLeast(0, cash))
  BY <1>11 DEF held
<1>15. \A i \in DOMAIN pots : \A j \in Sooner(pots, i) : f[i] > 0 => f[j] = pots[j].balance
  <2>1. \A i \in D : \A j \in Sooner(pots, i) : j \in D
    BY <1>4
  <2> QED
    BY <1>2, <1>13, <2>1
<1>16. \A i \in DOMAIN pots : f[i] \in Nat /\ f[i] <= pots[i].balance
  BY <1>2, <1>12
<1> QED
  BY <1>14, <1>15, <1>16

-----------------------------------------------------------------------------
(* The headline of the Home screen.                                        *)

LEMMA ClosingsAreWhole ==
  ASSUME NEW U, NEW day, Recorded(U, day), NEW opening \in Int, NEW cycles, NEW start, NEW n \in Nat,
         NEW r, CashReplays(cycles, start, opening, U, n, r)
  PROVE  \A i \in 1 .. n : r[i].closing \in Int
<1>1. ASSUME NEW i \in 1 .. n, i # 1 => r[i - 1].closing \in Int PROVE r[i].closing \in Int
  <2> DEFINE counted == Between(U, MeasuredFrom(i, start, cycles[i]), cycles[i].end)
             before == IF i = 1 THEN opening ELSE r[i - 1].closing
             income == TotalOf(Income(counted))
             outflow == TotalOf(Spending(counted))
  <2>1. r[i] = CashRow(cycles, start, opening, U, i, r)
    BY Zenon DEF CashReplays
  <2>2. r[i] = [cycle |-> cycles[i], opening |-> before, income |-> income, outflow |-> outflow,
                closing |-> before + income - outflow]
    BY <2>1, Zenon DEF CashRow
  <2>3. before \in Int
    BY <1>1
  <2>4. income \in Nat /\ outflow \in Nat
    <3>1. Income(counted) \in SUBSET U /\ Spending(counted) \in SUBSET U
      BY DEF Income, Spending, Between
    <3> HIDE DEF counted
    <3> QED
      BY <3>1, Totals
  <2> HIDE DEF before, income, outflow
  <2>5. r[i].closing = before + income - outflow
    BY <2>2
  <2> QED
    BY <2>3, <2>4, <2>5
<1> DEFINE M == {i \in Nat : i \in 1 .. n /\ r[i].closing \notin Int}
<1>2. ASSUME M # {} PROVE FALSE
  <2>1. M \subseteq Nat
    OBVIOUS
  <2>2. PICK i \in M : \A k \in M : i <= k
    <3> HIDE DEF M
    <3> QED
      BY <1>2, <2>1, LeastNumber
  <2>3. i \in 1 .. n /\ r[i].closing \notin Int
    OBVIOUS
  <2>4. ASSUME i # 1 PROVE r[i - 1].closing \in Int
    <3>1. i - 1 \in Nat /\ i - 1 \in 1 .. n /\ ~ (i <= i - 1)
      BY <2>3, <2>4
    <3>2. i - 1 \notin M
      <4> HIDE DEF M
      <4> QED
        BY <2>2, <3>1
    <3> QED
      BY <3>1, <3>2
  <2>5. r[i].closing \in Int
    BY <1>1, <2>3, <2>4
  <2> QED
    BY <2>3, <2>5
<1> QED
  BY <1>2

LEMMA CashIsWhole ==
  ASSUME NEW x, NEW cs, NEW T, NEW d, Given(x, cs, T, d)
  PROVE  CashNow(x, T, d) \in Int
<1> DEFINE cycles == CyclesNow(x, d)
           start == StartNow(x, d)
           n == Len(cycles)
           r == CashLedger(cycles, start, x.openingCash, T)
<1>1. x \in BudgetSettings /\ d \in Int /\ x.openingCash \in Int
  BY DEF Given, BudgetSettings
<1>2. PICK day : Recorded(T, day)
  BY DEF Given
<1>3. n \in Nat
  BY <1>1, ReplayedCycles
<1> HIDE DEF cycles, start
<1>4. CashReplays(cycles, start, x.openingCash, T, n, r) /\ Len(r) = n
  BY <1>3, CashIsReplayed
<1> HIDE DEF r, n
<1>5. \A i \in 1 .. n : r[i].closing \in Int
  BY <1>1, <1>2, <1>3, <1>4, ClosingsAreWhole
<1>6. CashHeld(x.openingCash, r) \in Int
  <2>1. CASE r = <<>>
    BY <1>1, <2>1 DEF CashHeld
  <2>2. CASE r # <<>>
    <3>1. n # 0
      <4>1. DOMAIN r = 1 .. n
        BY <1>4, Zenon DEF CashReplays
      <4>2. r = [i \in 1 .. n |-> r[i]]
        BY <1>4, Zenon DEF CashReplays
      <4>3. n = 0 => r = <<>>
        BY <4>2
      <4> QED
        BY <2>2, <4>3
    <3>2. n \in 1 .. n
      BY <1>3, <3>1
    <3> QED
      BY <1>4, <1>5, <2>2, <3>2 DEF CashHeld
  <2> QED
    BY <2>1, <2>2
<1> QED
  BY <1>6 DEF CashNow, cycles, start, r

\* What a flow has: a whole allowance, whole spending, and a carry of either sign.
LEMMA CarriesAreWhole ==
  ASSUME NEW U, NEW day, Recorded(U, day), NEW limit \in Int, NEW cat, NEW cycles, NEW n \in Nat,
         NEW r, FlowReplays(limit, cat, cycles, U, n, r)
  PROVE  \A i \in 1 .. n : r[i].spent \in Nat /\ r[i].carried \in Int
<1>1. ASSUME NEW i \in 1 .. n
      PROVE  /\ r[i].spent \in Nat
             /\ r[i].carried = (IF i = 1 THEN 0 ELSE r[i - 1].carried) + limit - r[i].spent
  <2> DEFINE spent == SpentOn(U, cat, cycles[i])
             before == IF i = 1 THEN 0 ELSE r[i - 1].carried
  <2>1. r[i] = FlowRowAt(limit, cat, cycles, U, i, r)
    BY Zenon DEF FlowReplays
  <2>2. r[i] = [cycle |-> cycles[i], spent |-> spent, carried |-> before + limit - spent]
    BY <2>1, Zenon DEF FlowRowAt
  <2>3. spent \in Nat
    BY AmountsOfCycle
  <2> HIDE DEF spent, before
  <2>4. r[i].spent = spent /\ r[i].carried = before + limit - spent
    BY <2>2
  <2> QED
    BY <2>3, <2>4 DEF before
<1> DEFINE M == {i \in Nat : i \in 1 .. n /\ r[i].carried \notin Int}
<1>2. ASSUME M # {} PROVE FALSE
  <2>1. M \subseteq Nat
    OBVIOUS
  <2>2. PICK i \in M : \A k \in M : i <= k
    <3> HIDE DEF M
    <3> QED
      BY <1>2, <2>1, LeastNumber
  <2>3. i \in 1 .. n /\ r[i].carried \notin Int
    OBVIOUS
  <2>4. ASSUME i # 1 PROVE r[i - 1].carried \in Int
    <3>1. i - 1 \in Nat /\ i - 1 \in 1 .. n /\ ~ (i <= i - 1)
      BY <2>3, <2>4
    <3>2. i - 1 \notin M
      <4> HIDE DEF M
      <4> QED
        BY <2>2, <3>1
    <3> QED
      BY <3>1, <3>2
  <2>5. r[i].spent \in Nat /\ r[i].carried = (IF i = 1 THEN 0 ELSE r[i - 1].carried) + limit - r[i].spent
    BY <1>1, <2>3
  <2> QED
    BY <2>3, <2>4, <2>5
<1> QED
  BY <1>1, <1>2

\* How a flow that is shown comes from the rows of its ledger.
FlowIs(f, c, n, r) ==
  /\ f.id = c.id /\ f.allowance = c.amount
  /\ f.rollover = IF n < 2 THEN 0 ELSE r[n - 1].carried
  /\ f.spent = IF n = 0 THEN 0 ELSE r[n].spent

LEMMA FlowsAreOfRows ==
  ASSUME NEW cs, NEW cycles, Len(cycles) \in Nat, NEW T, NEW i \in FlowsOf(cs)
  PROVE  \E r : /\ FlowReplays(cs[i].amount, cs[i].id, cycles, T, Len(cycles), r)
                /\ FlowIs(FlowsOn(cs, cycles, T)[i], cs[i], Len(cycles), r)
<1> DEFINE c == cs[i]
           n == Len(cycles)
           r == FlowLedger(c.amount, c.id, cycles, T)
           f == FlowsOn(cs, cycles, T)[i]
<1>1. FlowReplays(c.amount, c.id, cycles, T, n, r) /\ Len(r) = n /\ (n # 0 => r # <<>>)
  BY FlowIsReplayed
<1>2. f = FlowState(c.amount, c.id, r)
  BY DEF FlowsOn, FlowNow
<1>3. n = 0 => r = <<>>
  <2>1. r = [k \in 1 .. n |-> FlowRowAt(c.amount, c.id, cycles, T, k, r)]
    BY <1>1, Zenon DEF FlowReplays
  <2> HIDE DEF r
  <2> QED
    BY <2>1
<1> HIDE DEF r, f, n, c
<1>4. FlowIs(f, c, n, r)
  <2>1. /\ f.id = c.id /\ f.allowance = c.amount /\ f.rollover = Rollover(r)
        /\ f.spent = IF r = <<>> THEN 0 ELSE r[n].spent
    BY <1>1, <1>2 DEF FlowState
  <2>2. Rollover(r) = IF n < 2 THEN 0 ELSE r[n - 1].carried
    BY <1>1 DEF Rollover
  <2> QED
    BY <1>1, <1>3, <2>1, <2>2 DEF FlowIs
<1> QED
  BY <1>1, <1>4 DEF f, n, c

LEMMA FlowsAreWhole ==
  ASSUME NEW x, NEW cs, NEW T, NEW d, Given(x, cs, T, d), NEW i \in FlowsOf(cs)
  PROVE  LET f == FlowsOn(cs, CyclesNow(x, d), T)[i] IN
         f.allowance \in Nat /\ f.rollover \in Int /\ f.spent \in Nat
<1> DEFINE c == cs[i]
           cycles == CyclesNow(x, d)
           n == Len(cycles)
           f == FlowsOn(cs, cycles, T)[i]
<1>1. x \in BudgetSettings /\ d \in Int /\ c.amount \in Nat
  BY DEF Given, FlowsOf, Live, BudgetCategories
<1>2. n \in Nat
  BY <1>1, ReplayedCycles
<1>3. PICK day : Recorded(T, day)
  BY DEF Given
<1>4. PICK r : FlowReplays(c.amount, c.id, cycles, T, n, r) /\ FlowIs(f, c, n, r)
  BY <1>2, FlowsAreOfRows
<1> HIDE DEF c, cycles, n, f
<1>5. \A k \in 1 .. n : r[k].spent \in Nat /\ r[k].carried \in Int
  BY <1>1, <1>2, <1>3, <1>4, CarriesAreWhole
<1>6. f.allowance \in Nat /\ f.rollover \in Int /\ f.spent \in Nat
  <2>1. n # 0 => n \in 1 .. n
    BY <1>2
  <2>2. ~ (n < 2) => n - 1 \in 1 .. n
    BY <1>2
  <2> QED
    BY <1>1, <1>4, <1>5, <2>1, <2>2 DEF FlowIs
<1> QED
  BY <1>6 DEF f, cycles

\* The sums of a summary, and what there is to spend.
Balances(pots)    == [i \in DOMAIN pots |-> pots[i].balance]
Backings(pots)    == [i \in DOMAIN pots |-> pots[i].backed]
AsksOf(pots, kinds) == [i \in DOMAIN pots |-> IF pots[i].pot.kind \in kinds THEN pots[i].perCycle ELSE 0]
Allowances(flows) == [i \in DOMAIN flows |-> flows[i].allowance]
Carries(flows)    == [i \in DOMAIN flows |-> flows[i].rollover]
Outlays(flows)    == [i \in DOMAIN flows |-> flows[i].spent]

Pool(pots, flows, expected, actual) ==
  LET working == IF actual > 0 THEN actual ELSE expected
  IN IF working > 0
     THEN AtMost(SumOf(Allowances(flows)),
                 Funding(working, SumOf(AsksOf(pots, {"bill"})), SumOf(AsksOf(pots, {"saving", "goal"}))).spendable)
     ELSE SumOf(Allowances(flows))

FreeCash(pots, cash) == AtLeast(0, cash) - AtMost(SumOf(Balances(pots)), AtLeast(0, cash))

ToSpend(pots, flows, expected, actual, cash, cashKnown) ==
  Bounded(cashKnown, Pool(pots, flows, expected, actual) + SumOf(Carries(flows)) - SumOf(Outlays(flows)),
          FreeCash(pots, cash))

LEMMA SumIsTotal == \A a : SumOf(a) = Total(a, DOMAIN a)
BY DEF SumOf, Total

LEMMA SummaryParts ==
  ASSUME NEW cycle, NEW d, NEW pots, NEW flows, NEW expected, NEW actual, NEW cash, NEW cashKnown,
         NEW sum, sum = Summarise(cycle, d, pots, flows, expected, actual, cash, cashKnown)
  PROVE  /\ sum.planned = SumOf(Balances(pots)) /\ sum.held = AtLeast(0, cash) /\ sum.cash = cash
         /\ sum.cashKnown = cashKnown
         /\ sum.rollover = SumOf(Carries(flows)) /\ sum.spent = SumOf(Outlays(flows))
         /\ sum.available = ToSpend(pots, flows, expected, actual, cash, cashKnown)
         /\ sum.perDay = PerDay(sum.available, DaysLeft(cycle, d))
<1> DEFINE working == IF actual > 0 THEN actual ELSE expected
           known == working > 0
           bills == Demand(pots, {"bill"})
           saving == Demand(pots, {"saving", "goal"})
           funding == Funding(working, bills, saving)
           allowance == SumOf([i \in DOMAIN flows |-> flows[i].allowance])
           rollover == SumOf([i \in DOMAIN flows |-> flows[i].rollover])
           spent == SumOf([i \in DOMAIN flows |-> flows[i].spent])
           planned == SumOf([i \in DOMAIN pots |-> pots[i].balance])
           held == AtLeast(0, cash)
           freeCash == held - Reserved(planned, held)
           pool == IF known THEN AtMost(allowance, funding.spendable) ELSE allowance
           available == Bounded(cashKnown, pool + rollover - spent, freeCash)
<1>1. sum = [income |-> working, bills |-> bills, saving |-> saving, funding |-> funding,
      billsUnfunded |-> IF known THEN funding.billsUnfunded ELSE 0,
      saveUnfunded |-> IF known THEN funding.saveUnfunded ELSE 0,
      allowance |-> allowance, rollover |-> rollover, spent |-> spent,
      planned |-> planned, held |-> held, cash |-> cash, cashKnown |-> cashKnown,
      reserved |-> Reserved(planned, held), freeCash |-> freeCash,
      cashShortfall |-> IF cashKnown THEN AtLeast(0, planned - held) ELSE 0,
      overcommitted |-> IF known THEN AtLeast(0, allowance - funding.spendable) ELSE 0,
      available |-> available, perDay |-> PerDay(available, DaysLeft(cycle, d))]
  BY Zenon DEF Summarise
<1>2. /\ planned = SumOf(Balances(pots)) /\ rollover = SumOf(Carries(flows))
      /\ spent = SumOf(Outlays(flows)) /\ allowance = SumOf(Allowances(flows))
      /\ bills = SumOf(AsksOf(pots, {"bill"})) /\ saving = SumOf(AsksOf(pots, {"saving", "goal"}))
  BY Zenon DEF Balances, Carries, Outlays, Allowances, AsksOf, Demand
<1> HIDE DEF planned, rollover, spent, allowance, bills, saving
<1>3. pool = Pool(pots, flows, expected, actual)
  BY <1>2, Zenon DEF Pool
<1>4. freeCash = FreeCash(pots, cash)
  BY <1>2 DEF FreeCash, Reserved
<1> HIDE DEF pool, freeCash
<1>5. available = ToSpend(pots, flows, expected, actual, cash, cashKnown)
  BY <1>2, <1>3, <1>4 DEF ToSpend
<1> HIDE DEF available, held, funding, known, working
<1>6. /\ sum.planned = planned /\ sum.held = held /\ sum.cash = cash /\ sum.cashKnown = cashKnown
      /\ sum.rollover = rollover /\ sum.spent = spent /\ sum.available = available
      /\ sum.perDay = PerDay(available, DaysLeft(cycle, d))
  BY <1>1
<1> QED
  BY <1>2, <1>5, <1>6 DEF held

\* The sums are whole numbers, and the pool is not negative.
LEMMA SumsAreWhole ==
  ASSUME NEW x, NEW cs, NEW T, NEW d, Given(x, cs, T, d), IsFiniteSet(DOMAIN cs),
         NEW pots, NEW flows, pots = BuildBudget(x, cs, T, d).pots, flows = BuildBudget(x, cs, T, d).flows,
         NEW expected \in Nat, NEW actual \in Nat
  PROVE  /\ SumOf(Balances(pots)) \in Nat /\ SumOf(Allowances(flows)) \in Nat
         /\ SumOf(Carries(flows)) \in Int /\ SumOf(Outlays(flows)) \in Nat
         /\ Pool(pots, flows, expected, actual) \in Nat
<1>1. /\ IsFiniteSet(DOMAIN pots)
      /\ \A i \in DOMAIN pots : pots[i].balance \in Nat /\ pots[i].perCycle \in Nat
  <2>1. DOMAIN pots = PotsOf(cs) /\ \A i \in PotsOf(cs) : IsStateOf(pots[i], PotOf(cs[i], d))
    BY ShownPots
  <2>2. PotsOf(cs) \in SUBSET DOMAIN cs
    BY DEF PotsOf, Live
  <2> QED
    BY <2>1, <2>2, FS_Subset DEF IsStateOf
<1>2. /\ IsFiniteSet(DOMAIN flows)
      /\ \A i \in DOMAIN flows : flows[i].allowance \in Nat /\ flows[i].rollover \in Int /\ flows[i].spent \in Nat
  <2>1. flows = FlowsOn(cs, CyclesNow(x, d), T)
    BY BudgetParts
  <2>2. DOMAIN flows = FlowsOf(cs) /\ FlowsOf(cs) \in SUBSET DOMAIN cs
    BY <2>1 DEF FlowsOn, FlowsOf, Live
  <2>3. \A i \in FlowsOf(cs) : flows[i].allowance \in Nat /\ flows[i].rollover \in Int /\ flows[i].spent \in Nat
    BY <2>1, FlowsAreWhole
  <2> QED
    BY <2>2, <2>3, FS_Subset
<1>3. \A S : IsFiniteSet(S) => \A w : (\A i \in S : w[i] \in Nat) => Total(w, S) \in Nat
  <2> SUFFICES ASSUME NEW S, IsFiniteSet(S), NEW w, \A i \in S : w[i] \in Nat PROVE Total(w, S) \in Nat
    OBVIOUS
  <2> QED
    BY TotalGrows
<1>4. \A a : IsFiniteSet(DOMAIN a) /\ (\A i \in DOMAIN a : a[i] \in Nat) => SumOf(a) \in Nat
  BY <1>3, SumIsTotal
<1>5. SumOf(Balances(pots)) \in Nat
  <2>1. DOMAIN Balances(pots) = DOMAIN pots /\ \A i \in DOMAIN pots : Balances(pots)[i] = pots[i].balance
    BY DEF Balances
  <2> QED
    BY <1>1, <1>4, <2>1
<1>6. SumOf(Allowances(flows)) \in Nat
  <2>1. DOMAIN Allowances(flows) = DOMAIN flows /\ \A i \in DOMAIN flows : Allowances(flows)[i] = flows[i].allowance
    BY DEF Allowances
  <2> QED
    BY <1>2, <1>4, <2>1
<1>7. SumOf(Outlays(flows)) \in Nat
  <2>1. DOMAIN Outlays(flows) = DOMAIN flows /\ \A i \in DOMAIN flows : Outlays(flows)[i] = flows[i].spent
    BY DEF Outlays
  <2> QED
    BY <1>2, <1>4, <2>1
<1>8. SumOf(Carries(flows)) \in Int
  <2> DEFINE a == Carries(flows)
  <2>1. DOMAIN a = DOMAIN flows /\ \A i \in DOMAIN flows : a[i] \in Int
    BY <1>2 DEF Carries
  <2> HIDE DEF a
  <2>2. Total(a, DOMAIN a) \in Int
    BY <1>2, <2>1, TotalIsWhole
  <2>3. SumOf(a) = Total(a, DOMAIN a)
    BY SumIsTotal
  <2> QED
    BY <2>2, <2>3 DEF a
<1>9. \A kinds : SumOf(AsksOf(pots, kinds)) \in Nat
  <2> TAKE kinds
  <2>1. DOMAIN AsksOf(pots, kinds) = DOMAIN pots /\ \A i \in DOMAIN pots : AsksOf(pots, kinds)[i] \in Nat
    BY <1>1 DEF AsksOf
  <2> QED
    BY <1>1, <1>4, <2>1
<1>10. Pool(pots, flows, expected, actual) \in Nat
  <2> DEFINE working == IF actual > 0 THEN actual ELSE expected
             bills == SumOf(AsksOf(pots, {"bill"}))
             saving == SumOf(AsksOf(pots, {"saving", "goal"}))
             allowance == SumOf(Allowances(flows))
             spendable == Funding(working, bills, saving).spendable
  <2>1. Pool(pots, flows, expected, actual) = IF working > 0 THEN AtMost(allowance, spendable) ELSE allowance
    BY Zenon DEF Pool
  <2>2. bills \in Nat /\ saving \in Nat /\ allowance \in Nat
    BY <1>6, <1>9
  <2>3. working \in Nat
    OBVIOUS
  <2> HIDE DEF working, bills, saving, allowance
  <2>4. spendable \in Nat
    BY <2>2, <2>3 DEF Funding, AtLeast
  <2> HIDE DEF spendable
  <2> QED
    BY <2>1, <2>2, <2>4 DEF AtMost
<1> QED
  BY <1>5, <1>6, <1>7, <1>8, <1>10

\* The cash is shared out over the pots that are shown, the soonest first.
LEMMA ShownBacking ==
  ASSUME NEW x, NEW cs, NEW T, NEW d, Given(x, cs, T, d),
         IsFiniteSet(DOMAIN cs), DOMAIN cs \subseteq Nat,
         NEW pots, pots = BuildBudget(x, cs, T, d).pots
  PROVE  /\ SumOf(Backings(pots)) = AtMost(SumOf(Balances(pots)), AtLeast(0, CashNow(x, T, d)))
         /\ \A i, j \in DOMAIN pots :
              ClaimsBefore(pots, i, j) /\ pots[j].backed > 0 => pots[i].backed = pots[i].balance
<1> DEFINE states == StatesNow(x, cs, T, d)
           cash == CashNow(x, T, d)
<1>1. cash \in Int
  BY CashIsWhole
<1>2. pots = WithBacking(states, cash)
  <2> DEFINE b == BuildBudget(x, cs, T, d)
  <2>1. b.pots = WithBacking(states, cash)
    BY BudgetParts
  <2> QED
    BY <2>1
<1>3. DOMAIN states = PotsOf(cs) /\ PotsOf(cs) \in SUBSET DOMAIN cs
  <2>1. DOMAIN states = PotsOf(cs)
    BY PotsAreStates
  <2> QED
    BY <2>1 DEF PotsOf, Live
<1>4. /\ DOMAIN pots = DOMAIN states
      /\ \A i \in DOMAIN states : /\ states[i].balance \in Nat /\ states[i].nextDue \in Int \cup {None}
                                  /\ pots[i].balance = states[i].balance /\ pots[i].nextDue = states[i].nextDue
  <2>1. DOMAIN pots = PotsOf(cs)
        /\ \A i \in PotsOf(cs) : /\ pots[i].balance = states[i].balance /\ pots[i].nextDue = states[i].nextDue
                                 /\ IsStateOf(pots[i], PotOf(cs[i], d))
    BY ShownPots
  <2> QED
    BY <1>3, <2>1 DEF IsStateOf
<1>5. Claims(states)
  <2>1. IsFiniteSet(DOMAIN states) /\ DOMAIN states \subseteq Nat
    BY <1>3, FS_Subset
  <2> HIDE DEF states
  <2> QED
    BY <1>4, <2>1 DEF Claims
<1> HIDE DEF states, cash
<1>6. PICK f : /\ Backs(states, cash, DOMAIN states, f)
               /\ WithBacking(states, cash) = [i \in DOMAIN states |-> [states[i] EXCEPT !.backed = f[i]]]
  BY <1>5, BackingIsShared
<1> DEFINE w == Balances(states)
<1>7. \A i \in DOMAIN states : w[i] = states[i].balance
  BY DEF Balances
<1>8. /\ \A i \in DOMAIN states : f[i] \in Nat /\ f[i] <= states[i].balance
      /\ Total(f, DOMAIN states) = AtMost(Total(w, DOMAIN states), AtLeast(0, cash))
      /\ \A i \in DOMAIN states : \A j \in Sooner(states, i) : f[i] > 0 => f[j] = states[j].balance
  <2> HIDE DEF w
  <2> QED
    BY <1>1, <1>5, <1>6, <1>7, SharesFillUp
<1>9. \A i \in DOMAIN states : pots[i].backed = f[i]
  <2> SUFFICES ASSUME NEW i \in DOMAIN states PROVE pots[i].backed = f[i]
    OBVIOUS
  <2>1. pots[i] = [states[i] EXCEPT !.backed = f[i]]
    BY <1>2, <1>6
  <2>2. IsStateOf(states[i], PotOf(cs[i], d))
    BY <1>3, PotsAreStates DEF states
  <2> QED
    BY <2>1, <2>2 DEF IsStateOf
<1>10. SumOf(Balances(pots)) = Total(w, DOMAIN states) /\ SumOf(Backings(pots)) = Total(f, DOMAIN states)
  <2> DEFINE v == Balances(pots)
             g == Backings(pots)
  <2>1. IsFiniteSet(DOMAIN states)
    BY <1>5 DEF Claims
  <2>2. /\ DOMAIN v = DOMAIN states /\ \A i \in DOMAIN states : v[i] = w[i]
        /\ DOMAIN g = DOMAIN states /\ \A i \in DOMAIN states : g[i] = f[i]
    BY <1>4, <1>7, <1>9 DEF Balances, Backings
  <2> HIDE DEF v, g, w
  <2>3. Total(v, DOMAIN states) = Total(w, DOMAIN states)
    BY <2>1, <2>2, TotalAgrees
  <2>4. Total(g, DOMAIN states) = Total(f, DOMAIN states)
    BY <2>1, <2>2, TotalAgrees
  <2>5. SumOf(v) = Total(v, DOMAIN v) /\ SumOf(g) = Total(g, DOMAIN g)
    BY SumIsTotal
  <2> QED
    BY <2>2, <2>3, <2>4, <2>5 DEF v, g
<1>11. ASSUME NEW i \in DOMAIN pots, NEW j \in DOMAIN pots,
              ClaimsBefore(pots, i, j), pots[j].backed > 0
       PROVE  pots[i].backed = pots[i].balance
  <2>1. ClaimsBefore(states, i, j)
    BY <1>4, <1>11 DEF ClaimsBefore
  <2>2. i \in Sooner(states, j) /\ f[j] > 0
    BY <1>4, <1>9, <1>11, <2>1 DEF Sooner
  <2> QED
    BY <1>4, <1>8, <1>9, <2>2
<1> HIDE DEF w
<1>12. SumOf(Backings(pots)) = AtMost(SumOf(Balances(pots)), AtLeast(0, cash))
  BY <1>8, <1>10
<1> QED
  BY <1>11, <1>12 DEF cash

LEMMA SoonestGoFirst == EntriesInv => SoonestFirst
<1> SUFFICES ASSUME EntriesInv, NEW i \in DOMAIN budget.pots, NEW j \in DOMAIN budget.pots,
                    budget.pots[i].nextDue # None,
                    budget.pots[j].nextDue = None \/ budget.pots[i].nextDue < budget.pots[j].nextDue,
                    budget.pots[j].backed > 0
             PROVE  budget.pots[i].backed = budget.pots[i].balance
  BY DEF SoonestFirst
<1>1. Given(set, cats, txs, now) /\ budget = BuildBudget(set, cats, txs, now)
  BY ShownBudget DEF EntriesInv
<1>2. IsFiniteSet(DOMAIN cats) /\ DOMAIN cats \subseteq Nat
  BY DEF EntriesInv
<1> DEFINE pots == budget.pots
<1>3. pots = BuildBudget(set, cats, txs, now).pots
  BY <1>1
<1>4. ClaimsBefore(pots, i, j)
  BY DEF ClaimsBefore
<1> HIDE DEF pots
<1>5. \A k, l \in DOMAIN pots : ClaimsBefore(pots, k, l) /\ pots[l].backed > 0 => pots[k].backed = pots[k].balance
  BY <1>1, <1>2, <1>3, ShownBacking
<1> QED
  BY <1>4, <1>5 DEF pots

\* What the headline of a budget says, in terms of what it is built from.
LEMMA HeadlineOf ==
  ASSUME NEW x, NEW cs, NEW T, NEW d, Given(x, cs, T, d), IsFiniteSet(DOMAIN cs),
         NEW b, b = BuildBudget(x, cs, T, d), NEW sum, sum = b.summary
  PROVE  \E pool \in Nat :
           /\ pool = Pool(b.pots, b.flows, x.expected, TotalOf(Income(During(T, b.cycle))))
           /\ sum.held \in Nat /\ sum.planned \in Nat /\ sum.rollover \in Int /\ sum.spent \in Nat
           /\ sum.held = AtLeast(0, CashNow(x, T, d)) /\ sum.planned = SumOf(Balances(b.pots))
           /\ sum.rollover = SumOf(Carries(b.flows)) /\ sum.spent = SumOf(Outlays(b.flows))
           /\ sum.cashKnown = CashKnown(x, T)
           /\ sum.available = Bounded(CashKnown(x, T), pool + sum.rollover - sum.spent,
                                      sum.held - AtMost(sum.planned, sum.held))
           /\ DaysLeft(b.cycle, d) \in Nat \ {0}
           /\ sum.perDay = sum.available \div DaysLeft(b.cycle, d)
<1> DEFINE pots == b.pots
           flows == b.flows
           cash == CashNow(x, T, d)
           actual == TotalOf(Income(During(T, b.cycle)))
           pool == Pool(pots, flows, x.expected, actual)
<1>1. x.expected \in Nat /\ x \in BudgetSettings /\ d \in Int
  BY DEF Given, BudgetSettings
<1>2. actual \in Nat
  <2>1. PICK day : Recorded(T, day)
    BY DEF Given
  <2>2. Income(During(T, b.cycle)) \in SUBSET T
    BY DEF Income, During, Between
  <2> QED
    BY <2>1, <2>2, Totals
<1>3. cash \in Int
  BY CashIsWhole
<1>4. /\ b.cycle = CycleNow(x, d)
      /\ sum = Summarise(b.cycle, d, pots, flows, x.expected, actual, cash, CashKnown(x, T))
  BY BudgetParts
<1>5. DaysLeft(b.cycle, d) \in Nat \ {0}
  <2>1. IsCycle(b.cycle) /\ d < b.cycle.end
    BY <1>1, <1>4, ReplayedCycles
  <2> QED
    BY <1>1, <2>1 DEF IsCycle, DaysLeft
<1>6. pots = BuildBudget(x, cs, T, d).pots /\ flows = BuildBudget(x, cs, T, d).flows
  OBVIOUS
<1> HIDE DEF pots, flows, cash, actual
<1>7. /\ SumOf(Balances(pots)) \in Nat /\ SumOf(Carries(flows)) \in Int /\ SumOf(Outlays(flows)) \in Nat
      /\ pool \in Nat
  BY <1>1, <1>2, <1>6, SumsAreWhole
<1>8. /\ sum.planned = SumOf(Balances(pots)) /\ sum.held = AtLeast(0, cash)
      /\ sum.cashKnown = CashKnown(x, T)
      /\ sum.rollover = SumOf(Carries(flows)) /\ sum.spent = SumOf(Outlays(flows))
      /\ sum.available = ToSpend(pots, flows, x.expected, actual, cash, CashKnown(x, T))
      /\ sum.perDay = PerDay(sum.available, DaysLeft(b.cycle, d))
  BY <1>4, SummaryParts
<1> HIDE DEF pool
<1>9. sum.available = Bounded(CashKnown(x, T), pool + sum.rollover - sum.spent,
                              sum.held - AtMost(sum.planned, sum.held))
  BY <1>8 DEF ToSpend, FreeCash, pool
<1>10. sum.perDay = sum.available \div DaysLeft(b.cycle, d)
  <2> DEFINE n == DaysLeft(b.cycle, d)
  <2>1. n > 0
    BY <1>5
  <2> HIDE DEF n
  <2>2. sum.perDay = PerDay(sum.available, n)
    BY <1>8 DEF n
  <2> QED
    BY <2>1, <2>2 DEF PerDay, n
<1>11. sum.held \in Nat
  BY <1>3, <1>8 DEF AtLeast
<1> QED
  BY <1>5, <1>7, <1>8, <1>9, <1>10, <1>11 DEF pool, pots, flows, cash, actual

LEMMA HeadlinesAreBacked == EntriesInv => HeadlineIsBacked
<1> SUFFICES ASSUME EntriesInv
             PROVE  LET sum == budget.summary
                        backed == SumOf([i \in DOMAIN budget.pots |-> budget.pots[i].backed])
                    IN /\ backed = AtMost(sum.planned, sum.held)
                       /\ sum.cashKnown => sum.available + backed <= sum.held
                       /\ sum.perDay * DaysLeft(budget.cycle, now) <= sum.available
  BY DEF HeadlineIsBacked
<1> DEFINE sum == budget.summary
           backed == SumOf([i \in DOMAIN budget.pots |-> budget.pots[i].backed])
           days == DaysLeft(budget.cycle, now)
<1>1. Given(set, cats, txs, now) /\ budget = BuildBudget(set, cats, txs, now)
  BY ShownBudget DEF EntriesInv
<1>2. IsFiniteSet(DOMAIN cats) /\ DOMAIN cats \subseteq Nat
  BY DEF EntriesInv
<1>3. PICK pool \in Nat :
           /\ sum.held \in Nat /\ sum.planned \in Nat /\ sum.rollover \in Int /\ sum.spent \in Nat
           /\ sum.held = AtLeast(0, CashNow(set, txs, now)) /\ sum.planned = SumOf(Balances(budget.pots))
           /\ sum.cashKnown = CashKnown(set, txs)
           /\ sum.available = Bounded(CashKnown(set, txs), pool + sum.rollover - sum.spent,
                                      sum.held - AtMost(sum.planned, sum.held))
           /\ days \in Nat \ {0} /\ sum.perDay = sum.available \div days
  BY <1>1, <1>2, HeadlineOf
<1>4. backed = AtMost(sum.planned, sum.held)
  <2>1. budget.pots = BuildBudget(set, cats, txs, now).pots
    BY <1>1
  <2>2. SumOf(Backings(budget.pots)) = AtMost(SumOf(Balances(budget.pots)), AtLeast(0, CashNow(set, txs, now)))
    BY <1>1, <1>2, <2>1, ShownBacking
  <2>3. backed = SumOf(Backings(budget.pots))
    BY Zenon DEF Backings
  <2> QED
    BY <1>3, <2>2, <2>3
<1> HIDE DEF backed, sum, days
<1>5. sum.available \in Int /\ (sum.cashKnown => sum.available + backed <= sum.held)
  BY <1>3, <1>4 DEF Bounded, AtMost
<1>6. sum.perDay * days <= sum.available
  BY <1>3, <1>5, Quotients
<1> QED
  BY <1>4, <1>5, <1>6 DEF backed, sum, days

LEMMA OverIsOverspent == EntriesInv => OverMeansOverspent
<1> SUFFICES ASSUME EntriesInv, Headline(budget.summary).over
             PROVE  budget.summary.spent > 0 \/ budget.summary.rollover < 0
  BY DEF OverMeansOverspent
<1> DEFINE sum == budget.summary
<1>1. Given(set, cats, txs, now) /\ budget = BuildBudget(set, cats, txs, now)
  BY ShownBudget DEF EntriesInv
<1>2. IsFiniteSet(DOMAIN cats)
  BY DEF EntriesInv
<1>3. PICK pool \in Nat :
           /\ sum.held \in Nat /\ sum.planned \in Nat /\ sum.rollover \in Int /\ sum.spent \in Nat
           /\ sum.available = Bounded(CashKnown(set, txs), pool + sum.rollover - sum.spent,
                                      sum.held - AtMost(sum.planned, sum.held))
  BY <1>1, <1>2, HeadlineOf
<1>4. sum.available < 0
  BY DEF Headline
<1> HIDE DEF sum
<1>5. sum.spent > 0 \/ sum.rollover < 0
  BY <1>3, <1>4 DEF Bounded, AtMost
<1> QED
  BY <1>5 DEF sum

-----------------------------------------------------------------------------
(* Due dates that do not move.                                             *)

\* Steps that lead along g to a place where they stay lead there, if they are enough.
LEMMA WalkedReaches ==
  ASSUME NEW step, NEW g, NEW n \in Nat, n <= MaxSteps,
         \A k \in 0 .. n - 1 : step[g[k]] = g[k + 1], step[g[n]] = g[n]
  PROVE  Walked(step, g[0]) = g[n]
<1>0. MaxSteps \in Nat
  BY PotsAssumption
<1>1. PICK f : WalksTo(step, g[0], MaxSteps, f) /\ Walked(step, g[0]) = f[MaxSteps]
  BY WalkedIsAWalk
<1>2. \A k \in 0 .. MaxSteps : f[k] = IF k = 0 THEN g[0] ELSE step[f[k - 1]]
  BY <1>1, Zenon DEF WalksTo
<1> DEFINE Good(k) == f[k] = IF k <= n THEN g[k] ELSE g[n]
           T == {k \in Nat : k <= MaxSteps /\ ~ Good(k)}
<1>3. ASSUME T # {} PROVE FALSE
  <2>1. T \subseteq Nat
    OBVIOUS
  <2>2. PICK k \in T : \A j \in T : k <= j
    <3> HIDE DEF T
    <3> QED
      BY <1>3, <2>1, LeastNumber
  <2>3. k \in Nat /\ k \in 0 .. MaxSteps /\ ~ Good(k)
    BY <1>0
  <2>4. k # 0
    BY <1>2, <2>3
  <2>5. k - 1 \in Nat /\ k - 1 <= MaxSteps /\ ~ (k <= k - 1) /\ (k - 1) + 1 = k
    BY <1>0, <2>3, <2>4
  <2>6. k - 1 \notin T
    <3> HIDE DEF T
    <3> QED
      BY <2>2, <2>5
  <2>7. f[k - 1] = IF k - 1 <= n THEN g[k - 1] ELSE g[n]
    BY <2>5, <2>6
  <2>8. f[k] = step[f[k - 1]]
    BY <1>2, <2>3, <2>4
  <2>9. CASE k <= n
    <3>1. k - 1 \in 0 .. n - 1 /\ k - 1 <= n
      BY <2>3, <2>5, <2>9
    <3>2. step[g[k - 1]] = g[k]
      BY <2>5, <3>1
    <3> QED
      BY <2>3, <2>7, <2>8, <2>9, <3>1, <3>2
  <2>10. CASE ~ (k <= n)
    <3>1. f[k - 1] = g[n]
      BY <2>5, <2>7, <2>10
    <3> QED
      BY <2>3, <2>8, <2>10, <3>1
  <2> QED
    BY <2>9, <2>10
<1>4. MaxSteps \notin T
  BY <1>3
<1>5. f[MaxSteps] = g[n]
  BY <1>0, <1>4
<1> QED
  BY <1>1, <1>5

\* A day that every month has.
EveryMonthHas(day) == \A m \in Int : day <= MonthLength(m)

\* That day of a month, a step on and a step back.
LEMMA StepOfMonth ==
  ASSUME NEW day \in Nat \ {0}, EveryMonthHas(day), NEW m \in Int
  PROVE  /\ DayIn(m, day) \in Int /\ DayIn(m, day) = MonthStart(m) + day - 1
         /\ StepDue(DayIn(m, day), "monthly", 1) = DayIn(m + 1, day)
         /\ StepDue(DayIn(m, day), "monthly", -1) = DayIn(m - 1, day)
<1> DEFINE d == DayIn(m, day)
<1>1. day <= MonthLength(m)
  BY DEF EveryMonthHas
<1>2. MonthStart(m) \in Int /\ MonthLength(m) \in Nat
  BY MonthsFollow
<1>3. d = MonthStart(m) + day - 1
  BY <1>1 DEF DayIn, AtMost
<1>4. d \in Int /\ MonthOf(d) = m
  BY DayInIsInItsMonth
<1> HIDE DEF d
<1>5. DayOfMonth(d) = day
  BY <1>2, <1>3, <1>4 DEF DayOfMonth
<1>6. "monthly" \notin DOMAIN StepDays /\ StepMonths["monthly"] = 1
  BY PotsAssumption DEF StepMonths
<1>7. StepDue(d, "monthly", 1) = DayIn(m + 1 * 1, day) /\ StepDue(d, "monthly", -1) = DayIn(m + 1 * (-1), day)
  BY <1>4, <1>5, <1>6 DEF StepDue, AddMonths
<1>8. m + 1 * 1 = m + 1 /\ m + 1 * (-1) = m - 1
  OBVIOUS
<1>9. StepDue(d, "monthly", 1) = DayIn(m + 1, day) /\ StepDue(d, "monthly", -1) = DayIn(m - 1, day)
  BY <1>7, <1>8
<1> QED
  BY <1>3, <1>4, <1>9 DEF d

\* From that day of any month that the steps reach, the due date is that day of the first
\* month in which it is not before `from`.
LEMMA DueInMonth ==
  ASSUME NEW day \in Nat \ {0}, EveryMonthHas(day), NEW from \in Int, NEW m \in Int, NEW u \in Int,
         from <= DayIn(u, day), DayIn(u - 1, day) < from,
         u - m <= MaxSteps, m - u <= MaxSteps
  PROVE  Walked(Back("monthly", from), Walked(Forward("monthly", from), DayIn(m, day))) = DayIn(u, day)
<1>0. MaxSteps \in Nat
  BY PotsAssumption
<1>1. \A k \in Int : /\ DayIn(k, day) \in Int
                     /\ StepDue(DayIn(k, day), "monthly", 1) = DayIn(k + 1, day)
                     /\ StepDue(DayIn(k, day), "monthly", -1) = DayIn(k - 1, day)
  BY StepOfMonth
<1>2. \A j, k \in Int : j <= k => DayIn(j, day) <= DayIn(k, day)
  <2> SUFFICES ASSUME NEW j \in Int, NEW k \in Int, j <= k PROVE DayIn(j, day) <= DayIn(k, day)
    OBVIOUS
  <2>1. MonthStart(j) \in Int /\ MonthStart(k) \in Int /\ MonthStart(j) <= MonthStart(k)
    BY StartsAreOrdered
  <2>2. DayIn(j, day) = MonthStart(j) + day - 1 /\ DayIn(k, day) = MonthStart(k) + day - 1
    BY StepOfMonth
  <2> QED
    BY <2>1, <2>2
<1>3. \A k \in Int : k < u => DayIn(k, day) < from
  <2> SUFFICES ASSUME NEW k \in Int, k < u PROVE DayIn(k, day) < from
    OBVIOUS
  <2>1. u - 1 \in Int /\ k <= u - 1
    OBVIOUS
  <2>2. DayIn(k, day) <= DayIn(u - 1, day) /\ DayIn(k, day) \in Int /\ DayIn(u - 1, day) \in Int
    BY <1>1, <1>2, <2>1
  <2> QED
    BY <2>2
<1>4. \A k \in Int : u <= k => from <= DayIn(k, day)
  <2> SUFFICES ASSUME NEW k \in Int, u <= k PROVE from <= DayIn(k, day)
    OBVIOUS
  <2>1. DayIn(u, day) <= DayIn(k, day) /\ DayIn(k, day) \in Int /\ DayIn(u, day) \in Int
    BY <1>1, <1>2
  <2> QED
    BY <2>1
<1> DEFINE F == Forward("monthly", from)
           B == Back("monthly", from)
<1>5. \A k \in Int : F[DayIn(k, day)] = IF k < u THEN DayIn(k + 1, day) ELSE DayIn(k, day)
  <2> SUFFICES ASSUME NEW k \in Int
               PROVE  F[DayIn(k, day)] = IF k < u THEN DayIn(k + 1, day) ELSE DayIn(k, day)
    OBVIOUS
  <2> DEFINE d == DayIn(k, day)
  <2>1. d \in Int /\ StepDue(d, "monthly", 1) = DayIn(k + 1, day)
    BY <1>1
  <2>2. d < from <=> k < u
    <3>1. k < u \/ u <= k
      OBVIOUS
    <3> HIDE DEF d
    <3>2. k < u => d < from
      BY <1>3 DEF d
    <3>3. u <= k => ~ (d < from)
      BY <1>4, <2>1 DEF d
    <3> QED
      BY <3>1, <3>2, <3>3
  <2> HIDE DEF d
  <2>3. F[d] = IF d < from THEN StepDue(d, "monthly", 1) ELSE d
    BY <2>1 DEF Forward
  <2> QED
    BY <2>1, <2>2, <2>3 DEF d
<1>6. \A k \in Int : B[DayIn(k, day)] = IF u < k THEN DayIn(k - 1, day) ELSE DayIn(k, day)
  <2> SUFFICES ASSUME NEW k \in Int
               PROVE  B[DayIn(k, day)] = IF u < k THEN DayIn(k - 1, day) ELSE DayIn(k, day)
    OBVIOUS
  <2> DEFINE d == DayIn(k, day)
             e == DayIn(k - 1, day)
  <2>1. d \in Int /\ StepDue(d, "monthly", -1) = e /\ k - 1 \in Int /\ e \in Int
    BY <1>1
  <2>2. e < from <=> ~ (u < k)
    <3>1. k - 1 < u \/ u <= k - 1
      OBVIOUS
    <3> HIDE DEF e
    <3>2. k - 1 < u => e < from
      BY <1>3 DEF e
    <3>3. u <= k - 1 => ~ (e < from)
      BY <1>4, <2>1 DEF e
    <3> QED
      BY <3>1, <3>2, <3>3
  <2> HIDE DEF d, e
  <2>3. B[d] = IF StepDue(d, "monthly", -1) < from THEN d ELSE StepDue(d, "monthly", -1)
    BY <2>1 DEF Back
  <2> QED
    BY <2>1, <2>2, <2>3 DEF d, e
<1> HIDE DEF F, B
<1>7. CASE m <= u
  <2> DEFINE n == u - m
             g == [k \in Nat |-> DayIn(m + k, day)]
  <2>1. n \in Nat /\ n <= MaxSteps /\ m + n = u /\ m + 0 = m
    BY <1>7
  <2>2. \A k \in 0 .. n - 1 : F[g[k]] = g[k + 1]
    <3> SUFFICES ASSUME NEW k \in 0 .. n - 1 PROVE F[g[k]] = g[k + 1]
      OBVIOUS
    <3>1. m + k \in Int /\ m + k < u /\ k \in Nat /\ k + 1 \in Nat /\ (m + k) + 1 = m + (k + 1)
      BY <2>1
    <3>2. F[DayIn(m + k, day)] = DayIn((m + k) + 1, day)
      BY <1>5, <3>1
    <3> QED
      BY <3>1, <3>2
  <2>3. F[g[n]] = g[n] /\ g[0] = DayIn(m, day) /\ g[n] = DayIn(u, day)
    <3>1. F[DayIn(u, day)] = DayIn(u, day)
      BY <1>5
    <3> QED
      BY <2>1, <3>1
  <2> HIDE DEF g, n
  <2>4. Walked(F, g[0]) = g[n]
    BY <2>1, <2>2, <2>3, WalkedReaches
  <2>5. Walked(F, DayIn(m, day)) = DayIn(u, day)
    BY <2>3, <2>4
  <2> DEFINE h == [k \in Nat |-> DayIn(u, day)]
  <2>6. B[h[0]] = h[0] /\ h[0] = DayIn(u, day)
    BY <1>6
  <2> HIDE DEF h
  <2>7. Walked(B, h[0]) = h[0]
    <3>1. \A k \in 0 .. 0 - 1 : B[h[k]] = h[k + 1]
      OBVIOUS
    <3>2. 0 \in Nat /\ 0 <= MaxSteps
      BY <1>0
    <3> QED
      BY <2>6, <3>1, <3>2, WalkedReaches
  <2> QED
    BY <2>5, <2>6, <2>7 DEF F, B
<1>8. CASE ~ (m <= u)
  <2> DEFINE n == m - u
             g == [k \in Nat |-> DayIn(m - k, day)]
  <2>1. n \in Nat /\ n <= MaxSteps /\ m - n = u /\ m - 0 = m
    BY <1>8
  <2>2. \A k \in 0 .. n - 1 : B[g[k]] = g[k + 1]
    <3> SUFFICES ASSUME NEW k \in 0 .. n - 1 PROVE B[g[k]] = g[k + 1]
      OBVIOUS
    <3>1. m - k \in Int /\ u < m - k /\ k \in Nat /\ k + 1 \in Nat /\ (m - k) - 1 = m - (k + 1)
      BY <2>1
    <3>2. B[DayIn(m - k, day)] = DayIn((m - k) - 1, day)
      BY <1>6, <3>1
    <3> QED
      BY <3>1, <3>2
  <2>3. B[g[n]] = g[n] /\ g[0] = DayIn(m, day) /\ g[n] = DayIn(u, day)
    <3>1. B[DayIn(u, day)] = DayIn(u, day)
      BY <1>6
    <3> QED
      BY <2>1, <3>1
  <2> HIDE DEF g, n
  <2>4. Walked(B, g[0]) = g[n]
    BY <2>1, <2>2, <2>3, WalkedReaches
  <2> DEFINE h == [k \in Nat |-> DayIn(m, day)]
  <2>5. F[h[0]] = h[0] /\ h[0] = DayIn(m, day)
    BY <1>5, <1>8
  <2> HIDE DEF h
  <2>6. Walked(F, h[0]) = h[0]
    <3>1. \A k \in 0 .. 0 - 1 : F[h[k]] = h[k + 1]
      OBVIOUS
    <3>2. 0 \in Nat /\ 0 <= MaxSteps
      BY <1>0
    <3> QED
      BY <2>5, <3>1, <3>2, WalkedReaches
  <2> QED
    BY <2>3, <2>4, <2>5, <2>6 DEF F, B
<1> QED
  BY <1>7, <1>8

LEMMA DueMonth ==
  ASSUME NEW day \in Nat \ {0}, NEW from \in Int
  PROVE  \E u \in {MonthOf(from), MonthOf(from) + 1} : from <= DayIn(u, day) /\ DayIn(u - 1, day) < from
<1> DEFINE m == MonthOf(from)
<1>1. m \in Int /\ InMonth(from, m)
  BY EveryDayHasAMonth
<1> HIDE DEF m
<1>2. m - 1 \in Int /\ m + 1 \in Int /\ (m - 1) + 1 = m /\ (m + 1) - 1 = m
  BY <1>1
<1>3. /\ DayIn(m, day) \in Int /\ DayIn(m - 1, day) \in Int /\ DayIn(m + 1, day) \in Int
      /\ InMonth(DayIn(m - 1, day), m - 1) /\ InMonth(DayIn(m + 1, day), m + 1)
      /\ MonthStart(m) \in Int /\ MonthStart(m + 1) \in Int
  BY <1>1, <1>2, DayInIsInItsMonth, MonthsFollow
<1>4. CASE from <= DayIn(m, day)
  <2>1. DayIn(m - 1, day) < from
    BY <1>1, <1>2, <1>3 DEF InMonth
  <2> QED
    BY <1>4, <2>1 DEF m
<1>5. CASE DayIn(m, day) < from
  <2>1. from <= DayIn(m + 1, day)
    BY <1>1, <1>2, <1>3 DEF InMonth
  <2>2. DayIn((m + 1) - 1, day) < from
    BY <1>2, <1>5
  <2> QED
    BY <2>1, <2>2 DEF m
<1> QED
  BY <1>3, <1>4, <1>5

\* The steps lead from a month to the due date on or after a day.
Reaches(d, from) ==
  MonthOf(d) - MonthOf(from) <= MaxSteps /\ MonthOf(from) + 1 - MonthOf(d) <= MaxSteps

LEMMA DueDateIsFixed ==
  ASSUME NEW c \in BudgetCategories, HasItsDate(c), NEW d \in Int, NEW e \in Int, NEW from \in Int,
         Reaches(d, from), Reaches(e, from)
  PROVE  NextDueOn(PotOf(c, d), from) = NextDueOn(PotOf(c, e), from)
<1>1. CASE ~ (c.potKind \in {"unset", "bill"} /\ c.anchor = None)
  <2>1. PotOf(c, d) = PotOf(c, e)
    BY <1>1 DEF PotOf, Anchor
  <2> QED
    BY <2>1
<1>2. CASE c.potKind \in {"unset", "bill"} /\ c.anchor = None
  <2> DEFINE day == IF c.dueDay = None THEN 1 ELSE c.dueDay
  <2>1. day \in Nat \ {0}
    BY DEF BudgetCategories
  <2>2. EveryMonthHas(day)
    <3> SUFFICES ASSUME NEW m \in Int PROVE day <= MonthLength(m)
      BY DEF EveryMonthHas
    <3>1. MonthLength(m) \in Nat \ {0}
      BY MonthsFollow
    <3>2. CASE c.dueDay = None
      BY <3>1, <3>2
    <3>3. CASE c.dueDay # None
      <4> DEFINE N == Len(MonthLengths)
      <4>1. N \in Nat \ {0} /\ DOMAIN MonthLengths = 1 .. N
        BY LengthsOfMonths, CalendarAssumption
      <4>2. (m - 1) % N \in 0 .. N - 1
        <5>1. m - 1 \in Int
          OBVIOUS
        <5> HIDE DEF N
        <5> QED
          BY <4>1, <5>1, Remainders
      <4>3. ((m - 1) % N) + 1 \in 1 .. N
        <5> DEFINE r == (m - 1) % N
        <5>1. r \in 0 .. N - 1
          BY <4>2
        <5> HIDE DEF r, N
        <5>2. r + 1 \in 1 .. N
          BY <4>1, <5>1
        <5> QED
          BY <5>2 DEF r
      <4>4. \A i \in DOMAIN MonthLengths : c.dueDay <= MonthLengths[i]
        BY <1>2, <3>3 DEF HasItsDate
      <4> QED
        BY <3>3, <4>1, <4>3, <4>4 DEF MonthLength
    <3> QED
      BY <3>2, <3>3
  <2> HIDE DEF day
  <2>3. PICK u \in {MonthOf(from), MonthOf(from) + 1} : from <= DayIn(u, day) /\ DayIn(u - 1, day) < from
    BY <2>1, DueMonth
  <2>4. MonthOf(from) \in Int /\ MonthOf(d) \in Int /\ MonthOf(e) \in Int
    BY EveryDayHasAMonth
  <2>5. ASSUME NEW x \in Int, MonthOf(x) \in Int, Reaches(x, from)
        PROVE  NextDueOn(PotOf(c, x), from) = DayIn(u, day)
    <3> DEFINE m == MonthOf(x)
               p == PotOf(c, x)
    <3>1. u \in Int /\ u - m <= MaxSteps /\ m - u <= MaxSteps
      BY <2>3, <2>4, <2>5, PotsAssumption DEF Reaches
    <3>2. Walked(Back("monthly", from), Walked(Forward("monthly", from), DayIn(m, day))) = DayIn(u, day)
      <4>1. m \in Int
        BY <2>5
      <4> HIDE DEF m
      <4> QED
        BY <2>1, <2>2, <2>3, <3>1, <4>1, DueInMonth
    <3>3. p.kind = "bill" /\ p.recurrence = "monthly" /\ p.anchor = DayIn(m, day)
      BY <1>2 DEF PotOf, Anchor, AnchorFromDueDay, HasItsDate, day
    <3>4. DayIn(m, day) # None
      <4>1. DayIn(m, day) \in Int
        BY <2>1, <2>5, DayInIsInItsMonth
      <4> QED
        BY <4>1, PotsAssumption
    <3> HIDE DEF p, m
    <3>5. NextDueOn(p, from) = Walked(Back("monthly", from), Walked(Forward("monthly", from), DayIn(m, day)))
      BY <3>3, <3>4 DEF NextDueOn
    <3> QED
      BY <3>2, <3>5 DEF p
  <2> QED
    BY <2>4, <2>5
<1> QED
  BY <1>1, <1>2

\* The steps lead over the cycles and the days that are played, and to the day after.
LEMMA DaysAreReached ==
  ASSUME EntriesInv, NEW d \in Int, NEW from \in Int,
         LET first == CycleFor(FirstDay, budget.settings).start IN
         first <= d /\ d <= LastDay + 1 /\ first <= from /\ from <= LastDay
  PROVE  Reaches(d, from)
<1> DEFINE first == CycleFor(FirstDay, budget.settings).start
           last == MonthOf(LastDay)
<1>1. HouseholdInv /\ IsSettings(budget.settings)
  BY StoredSettings DEF EntriesInv, RecordsInv, HouseholdInv
<1>2. FirstDay \in Int /\ LastDay \in Int
  BY DaysPlayed
<1>3. first \in Int /\ first <= d /\ d <= LastDay + 1 /\ first <= from /\ from <= LastDay
  <2>1. Fits(FirstDay, budget.settings)
    BY <1>1, <1>2, CyclesFit
  <2> QED
    BY <2>1 DEF Fits, IsCycle
<1>4. last - MonthOf(first) < MaxSteps
  <2>1. PICK p \in Plans : CycleSettingsOf(set) = CycleSettingsOf(p.set)
    BY DEF EntriesInv
  <2>2. budget.settings = CycleSettingsOf(p.set)
    BY <1>1, <2>1 DEF HouseholdInv
  <2>3. MonthOf(LastDay) - MonthOf(CycleFor(FirstDay, CycleSettingsOf(p.set)).start) < MaxSteps
    BY HouseholdAssumption
  <2> QED
    BY <2>2, <2>3
<1> HIDE DEF first
<1>5. MonthOf(first) \in Int /\ MonthOf(from) \in Int /\ MonthOf(d) \in Int /\ last \in Int
      /\ InMonth(LastDay, last)
  BY <1>2, <1>3, EveryDayHasAMonth
<1>6. MonthOf(LastDay + 1) <= last + 1 /\ MonthOf(LastDay + 1) \in Int
  <2> DEFINE e == MonthStart(last + 1)
  <2>1. last + 1 \in Int /\ e \in Int /\ LastDay + 1 <= e
    BY <1>2, <1>5, MonthsFollow DEF InMonth
  <2>2. InMonth(e, last + 1)
    <3> DEFINE m == last + 1
    <3>1. m \in Int
      BY <2>1
    <3> HIDE DEF m
    <3>2. /\ MonthStart(m + 1) = MonthStart(m) + MonthLength(m)
          /\ MonthStart(m) \in Int /\ MonthLength(m) \in Nat \ {0}
      BY <3>1, MonthsFollow
    <3>3. InMonth(MonthStart(m), m)
      BY <3>2 DEF InMonth
    <3> QED
      BY <3>3 DEF m
  <2>3. MonthOf(e) = last + 1
    BY <2>1, <2>2, MonthIsUnique
  <2> HIDE DEF e
  <2>4. MonthOf(LastDay + 1) <= MonthOf(e) /\ LastDay + 1 \in Int
    BY <1>2, <2>1, MonthsAreOrdered
  <2> QED
    BY <2>3, <2>4, EveryDayHasAMonth
<1>7. /\ MonthOf(first) <= MonthOf(d) /\ MonthOf(d) <= MonthOf(LastDay + 1)
      /\ MonthOf(first) <= MonthOf(from) /\ MonthOf(from) <= last
  BY <1>2, <1>3, MonthsAreOrdered
<1> HIDE DEF last
<1> QED
  BY <1>4, <1>5, <1>6, <1>7, PotsAssumption DEF Reaches

LEMMA DatesStayFixed == EntriesInv => DatesAreFixed
<1> SUFFICES ASSUME EntriesInv, NEW i \in PotsOf(cats), HasItsDate(cats[i]), NEW day \in FirstDay .. LastDay
             PROVE  NextDueOn(budget.pots[i].pot, day) = NextDueOn(PotOf(cats[i], FirstDay), day)
  BY DEF DatesAreFixed
<1>1. /\ HouseholdInv /\ Given(set, cats, txs, now) /\ budget = BuildBudget(set, cats, txs, now)
      /\ now \in Int /\ today \in Int /\ FirstDay \in Int /\ LastDay \in Int /\ day \in Int
      /\ cats[i] \in BudgetCategories
  BY ShownBudget, DaysPlayed DEF EntriesInv, RecordsInv, PotsOf, Live
<1>2. budget.pots[i].pot = PotOf(cats[i], now)
  BY <1>1, ShownPots
<1>3. FirstDay <= now /\ now <= LastDay /\ FirstDay <= LastDay
  BY <1>1 DEF HouseholdInv
<1> DEFINE first == CycleFor(FirstDay, budget.settings).start
<1>4. first \in Int /\ first <= FirstDay
  <2>1. IsSettings(budget.settings)
    BY <1>1, StoredSettings DEF HouseholdInv
  <2>2. Fits(FirstDay, budget.settings)
    BY <1>1, <2>1, CyclesFit
  <2> QED
    BY <2>2 DEF Fits, IsCycle
<1>5. /\ first <= now /\ now <= LastDay + 1 /\ first <= FirstDay /\ FirstDay <= LastDay + 1
      /\ first <= day /\ day <= LastDay
  <2> HIDE DEF first
  <2> QED
    BY <1>1, <1>3, <1>4
<1>6. Reaches(now, day) /\ Reaches(FirstDay, day)
  BY <1>1, <1>5, DaysAreReached
<1> QED
  BY <1>1, <1>2, <1>6, DueDateIsFixed

\* What a household committed itself to is met on its dates, the sooner commitment first,
\* whatever its pots and the calendar (pots.ts, model.ts).
THEOREM CommitmentsStayMet == BudgetSpec => []CommitmentsAreMet
<1>1. EntriesInv => CommitmentsAreMet
  BY BillsAreReady, GoalsAreMet, SoonestGoFirst, DatesStayFixed DEF CommitmentsAreMet
<1> QED
  BY <1>1, PlayedHousehold, EntriesHold, PTL

-----------------------------------------------------------------------------
(* The figure is a promise.                                                *)

\* Cycles that follow each other start between the first and the last.
LEMMA ChainsAreBetween ==
  ASSUME NEW s, NEW from, NEW to, NEW c, Chained(c, from, to, s)
  PROVE  \A i \in 1 .. Len(c) : c[1].start <= c[i].start /\ c[i].start <= c[Len(c)].start
<1> DEFINE n == Len(c)
           T == {j \in Nat : n - j \in 1 .. n /\ ~ (c[n - j].start <= c[n].start)}
<1>1. /\ n \in Nat \ {0} /\ \A i \in 1 .. n : IsCycle(c[i])
      /\ \A i \in 1 .. n : i + 1 <= n => c[i + 1].start = c[i].end
      /\ \A i \in 1 .. n : c[1].start < c[i].end
  <2>1. \A i \in 1 .. n : c[1].start < c[i].end
    BY ChainsGoOn
  <2> QED
    BY <2>1 DEF Chained
<1> HIDE DEF n
<1>2. \A i \in 1 .. n : c[i].start \in Int /\ c[i].end \in Int /\ c[i].start < c[i].end
  BY <1>1 DEF IsCycle
<1>3. 1 \in 1 .. n /\ n \in 1 .. n
  BY <1>1
<1>4. ASSUME T # {} PROVE FALSE
  <2>1. T \subseteq Nat
    OBVIOUS
  <2>2. PICK j \in T : \A k \in T : j <= k
    <3> HIDE DEF T
    <3> QED
      BY <1>4, <2>1, LeastNumber
  <2>3. j \in Nat /\ n - j \in 1 .. n /\ ~ (c[n - j].start <= c[n].start)
    OBVIOUS
  <2>4. j # 0
    <3>1. n - 0 = n
      BY <1>1
    <3> QED
      BY <1>2, <1>3, <2>3, <3>1
  <2>5. j - 1 \in Nat /\ n - (j - 1) \in 1 .. n /\ (n - j) + 1 = n - (j - 1) /\ (n - j) + 1 <= n /\ ~ (j <= j - 1)
    BY <1>1, <2>3, <2>4
  <2>6. j - 1 \notin T
    <3> HIDE DEF T
    <3> QED
      BY <2>2, <2>5
  <2>7. c[n - (j - 1)].start <= c[n].start
    BY <2>5, <2>6
  <2>8. c[(n - j) + 1].start = c[n - j].end
    BY <1>1, <2>3, <2>5
  <2>9. c[n - (j - 1)].start = c[n - j].end
    BY <2>5, <2>8
  <2> QED
    BY <1>2, <1>3, <2>3, <2>5, <2>7, <2>9
<1>5. ASSUME NEW i \in 1 .. n PROVE c[i].start <= c[n].start
  <2>1. n - i \in Nat /\ n - (n - i) = i
    BY <1>1
  <2>2. n - i \notin T
    BY <1>4
  <2> QED
    BY <2>1, <2>2
<1>6. ASSUME NEW i \in 1 .. n PROVE c[1].start <= c[i].start
  <2>1. CASE i = 1
    BY <1>2, <1>3, <2>1
  <2>2. CASE i # 1
    <3>1. i - 1 \in 1 .. n /\ (i - 1) + 1 = i /\ i <= n
      BY <1>1, <2>2
    <3>2. c[i].start = c[i - 1].end
      BY <1>1, <3>1
    <3> QED
      BY <1>1, <1>2, <1>3, <3>1, <3>2
  <2> QED
    BY <2>1, <2>2
<1> QED
  BY <1>5, <1>6 DEF n

\* Pots that differ in their anchor only.
Alike(p, q) ==
  /\ q.kind = p.kind /\ q.amount = p.amount /\ q.opening = p.opening /\ q.recurrence = p.recurrence
  /\ q.installments = p.installments /\ q.target = p.target

LEMMA AlikeAsks ==
  ASSUME NEW p, NEW q, Alike(p, q), NEW s, NEW start, NEW firstEnd,
         NextDueOn(p, start) = NextDueOn(q, start)
  PROVE  /\ TargetDue(q, start, firstEnd) = TargetDue(p, start, firstEnd)
         /\ \A index, cycle, due, balance :
              Ask(q, index, cycle, due, balance, s) = Ask(p, index, cycle, due, balance, s)
<1>1. /\ q.kind = p.kind /\ q.amount = p.amount /\ q.opening = p.opening /\ q.recurrence = p.recurrence
      /\ q.installments = p.installments
  BY DEF Alike
<1>2. \A due : Skipped(q, due, firstEnd) = Skipped(p, due, firstEnd)
  BY <1>1 DEF Skipped
<1>3. \A due : StillAhead(q, due, start) = StillAhead(p, due, start)
  BY <1>1 DEF StillAhead
<1>4. TargetDue(q, start, firstEnd) = TargetDue(p, start, firstEnd)
  BY <1>2, <1>3 DEF TargetDue
<1>5. SavingPerCycle(q, s) = SavingPerCycle(p, s)
  BY <1>1 DEF SavingPerCycle
<1>6. \A ready : PaydaysForOne(q, ready, s) = PaydaysForOne(p, ready, s)
  BY <1>1 DEF PaydaysForOne
<1>7. \A ready : InstallmentsFor(q, ready, s) = InstallmentsFor(p, ready, s)
  BY <1>1, <1>6 DEF InstallmentsFor
<1>8. \A from, due, need : AskDated(q, from, due, need, s) = AskDated(p, from, due, need, s)
  BY <1>1, <1>7 DEF AskDated
<1>9. \A index, need : AskUndated(q, index, need) = AskUndated(p, index, need)
  BY <1>1 DEF AskUndated
<1>10. \A index, cycle, due, balance :
         Ask(q, index, cycle, due, balance, s) = Ask(p, index, cycle, due, balance, s)
  BY <1>1, <1>5, <1>8, <1>9 DEF Ask
<1> QED
  BY <1>4, <1>10

\* What is replayed of them is the same.
LEMMA AlikeRows ==
  ASSUME NEW p, NEW q, Alike(p, q), NEW s, NEW cycles, Len(cycles) \in Nat \ {0},
         \A k \in 1 .. Len(cycles) : NextDueOn(p, cycles[k].start) = NextDueOn(q, cycles[k].start),
         NEW paid, NEW moved, NEW rest, NEW d, NEW e
  PROVE  LET a == PotState(p, s, d, PotLedger(p, s, cycles, paid, moved))
             b == PotState(q, s, e, PotLedger(q, s, cycles, paid, rest))
         IN b.balance = a.balance /\ b.perCycle = a.perCycle /\ b.pot = q /\ a.pot = p
<1> DEFINE n == Len(cycles)
           rows == PotLedger(p, s, cycles, paid, moved)
           others == PotLedger(q, s, cycles, paid, rest)
           Before(w, r, k) == IF k = 1 THEN w.opening ELSE r[k - 1].balance
           T == {k \in Nat : k \in 1 .. n /\ ~ (others[k].balance = rows[k].balance)}
<1>0. n \in Nat \ {0} /\ n \in Nat
  OBVIOUS
<1>1. \A k \in 1 .. n : RowIs(p, s, cycles, paid, moved, k, Before(p, rows, k), rows[k])
  BY <1>0, RowsOfLedger
<1>2. \A k \in 1 .. n : RowIs(q, s, cycles, paid, rest, k, Before(q, others, k), others[k])
  BY <1>0, RowsOfLedger
<1> HIDE DEF rows, others
<1>3. ASSUME NEW k \in 1 .. n, Before(q, others, k) = Before(p, rows, k)
      PROVE  others[k].balance = rows[k].balance /\ others[k].recommended = rows[k].recommended
  <2> DEFINE due == TargetDue(p, cycles[k].start, cycles[1].end)
             before == Before(p, rows, k)
             ask == Ask(p, k - 1, cycles[k], due, before, s)
  <2>1. /\ TargetDue(q, cycles[k].start, cycles[1].end) = due
        /\ Ask(q, k - 1, cycles[k], due, before, s) = ask
    BY AlikeAsks
  <2>2. rows[k].recommended = ask /\ rows[k].balance = AtLeast(0, before + ask - paid[k])
    BY <1>1, Zenon DEF RowIs
  <2>3. RowIs(q, s, cycles, paid, rest, k, before, others[k])
    BY <1>2, <1>3
  <2> HIDE DEF before
  <2>4. others[k].recommended = ask /\ others[k].balance = AtLeast(0, before + ask - paid[k])
    BY <2>1, <2>3 DEF RowIs
  <2> QED
    BY <2>2, <2>4
<1>4. q.opening = p.opening
  BY DEF Alike
<1>5. ASSUME T # {} PROVE FALSE
  <2>1. T \subseteq Nat
    OBVIOUS
  <2>2. PICK k \in T : \A j \in T : k <= j
    <3> HIDE DEF T
    <3> QED
      BY <1>5, <2>1, LeastNumber
  <2>3. k \in 1 .. n /\ ~ (others[k].balance = rows[k].balance)
    OBVIOUS
  <2>4. Before(q, others, k) = Before(p, rows, k)
    <3>1. CASE k = 1
      BY <1>4, <3>1
    <3>2. CASE k # 1
      <4>1. k - 1 \in Nat /\ k - 1 \in 1 .. n /\ ~ (k <= k - 1)
        BY <2>3, <3>2
      <4>2. k - 1 \notin T
        <5> HIDE DEF T
        <5> QED
          BY <2>2, <4>1
      <4>3. others[k - 1].balance = rows[k - 1].balance
        BY <4>1, <4>2
      <4> QED
        BY <3>2, <4>3
    <3> QED
      BY <3>1, <3>2
  <2> QED
    BY <1>3, <2>3, <2>4
<1>6. n \in 1 .. n /\ \A k \in 1 .. n : others[k].balance = rows[k].balance
  BY <1>0, <1>5
<1>7. others[n].balance = rows[n].balance /\ others[n].recommended = rows[n].recommended
  <2>1. CASE n = 1
    BY <1>3, <1>4, <1>6, <2>1
  <2>2. CASE n # 1
    <3>1. n - 1 \in 1 .. n
      <4> HIDE DEF n
      <4> QED
        BY <1>0, <2>2
    <3>2. Before(q, others, n) = Before(p, rows, n)
      BY <1>6, <2>2, <3>1
    <3> QED
      BY <1>3, <1>6, <3>2
  <2> QED
    BY <2>1, <2>2
<1>8. LastRow(p, d, rows) = rows[n] /\ LastRow(q, e, others) = others[n]
  <2>1. n # 0
    <3> HIDE DEF n
    <3> QED
      BY <1>0
  <2>2. LastRow(p, d, rows) = rows[n]
    <3>1. LET ledger == PotLedger(p, s, cycles, paid, moved)
              last == LastRow(p, d, ledger)
          IN /\ Len(cycles) # 0 => last = ledger[Len(cycles)]
             /\ Len(cycles) = 0 =>
                  last = PotRow([start |-> d, end |-> d], p.opening, NextDueOn(p, d), 0, 0, 0)
      BY <1>0, LastOfRows
    <3> QED
      BY <2>1, <3>1 DEF rows
  <2>3. LastRow(q, e, others) = others[n]
    BY <1>0, <2>1, LastOfRows DEF others
  <2> QED
    BY <2>2, <2>3
<1>9. \A w, t, r : LET st == PotState(w, s, t, r)
                       last == LastRow(w, t, r)
                   IN st.balance = last.balance /\ st.perCycle = last.recommended /\ st.pot = w
  BY DEF PotState, StateOf
<1> QED
  BY <1>7, <1>8, <1>9 DEF rows, others

\* One spending more, on a day with another day of its cycle to come.
SpendsOn(x, cs, T, d, t) ==
  /\ Given(x, cs, T, d) /\ Recorded(T, d) /\ StartNow(x, d) <= d
  /\ t.kind = "spend" /\ t.day = d /\ t.amount \in Nat
  /\ d + 1 < CycleNow(x, d).end

More(T, t) == IF t \in T THEN 0 ELSE t.amount

LEMMA OneSpendingMore ==
  ASSUME NEW T, NEW d \in Int, Recorded(T, d), NEW t, t.amount \in Nat, t.day = d,
         NEW A \in SUBSET T, t \in T => t \in A
  PROVE  TotalOf(A \cup {t}) = TotalOf(A) + More(T, t) /\ TotalOf(A) \in Nat /\ More(T, t) \in Nat
<1> DEFINE U == T \cup {t}
<1>1. Recorded(U, d)
  BY OneMoreIsRecorded
<1>2. A \in SUBSET U /\ {t} \in SUBSET U
  OBVIOUS
<1>3. TotalOf(A) \in Nat
  BY Totals
<1> HIDE DEF U
<1>4. CASE t \in T
  <2>1. A \cup {t} = A
    BY <1>4
  <2> QED
    BY <1>3, <1>4, <2>1 DEF More
<1>5. CASE t \notin T
  <2>1. A \cap {t} = {}
    BY <1>5
  <2>2. TotalOf(A \cup {t}) = TotalOf(A) + TotalOf({t})
    <3>1. \A B, C \in SUBSET U : B \cap C = {} => TotalOf(B \cup C) = TotalOf(B) + TotalOf(C)
      BY <1>1, Totals
    <3> QED
      BY <1>2, <2>1, <3>1
  <2>3. TotalOf({t}) = t.amount
    <3> DEFINE V == {t}
               w == ValuesOf(V)
    <3>1. IsFiniteSet(V)
      BY FS_Singleton
    <3>2. w[t] = t.amount
      BY DEF ValuesOf, Value, Size
    <3>3. t \in V /\ V \ {t} = {} /\ \A u \in V : w[u] \in Int
      BY <3>2
    <3> HIDE DEF w
    <3>4. TotalOf(V) = Total(w, V)
      BY <3>1, TotalOfIsTotal DEF w
    <3>5. Total(w, V) = w[t] + Total(w, V \ {t})
      <4> HIDE DEF V
      <4> QED
        BY <3>1, <3>3, TotalTakesAny
    <3>6. Total(w, V \ {t}) = 0
      BY <3>3, TotalOfNone
    <3> QED
      BY <3>2, <3>4, <3>5, <3>6
  <2> QED
    BY <1>3, <1>5, <2>2, <2>3 DEF More
<1> QED
  BY <1>4, <1>5

LEMMA SameCycleTomorrow ==
  ASSUME NEW x \in BudgetSettings, NEW d \in Int, d + 1 < CycleNow(x, d).end
  PROVE  /\ CycleNow(x, d + 1) = CycleNow(x, d) /\ StartNow(x, d + 1) = StartNow(x, d)
         /\ CyclesNow(x, d + 1) = CyclesNow(x, d)
<1> DEFINE s == CycleSettingsOf(x)
           c == CycleNow(x, d)
<1>1. Fits(d, s)
  BY StoredSettings, CyclesFit
<1>2. IsCycle(c) /\ c.start <= d /\ \A e \in Int : c.start <= e /\ e < c.end => CycleFor(e, s) = c
  BY <1>1 DEF Fits, CycleNow
<1> HIDE DEF c
<1>3. c.start <= d + 1 /\ d + 1 \in Int /\ d + 1 < c.end
  BY <1>2 DEF IsCycle, c
<1>4. CycleFor(d + 1, s) = c
  BY <1>2, <1>3
<1>5. CycleNow(x, d + 1) = c /\ CycleFor(d, s) = c
  BY <1>4 DEF CycleNow, c
<1>6. StartNow(x, d + 1) = StartNow(x, d)
  BY <1>5 DEF StartNow, c
<1>7. CyclesNow(x, d + 1) = CyclesNow(x, d)
  BY <1>4, <1>5, <1>6 DEF CyclesNow, CyclesBetween
<1> QED
  BY <1>5, <1>6, <1>7 DEF c

\* The cycles that are replayed for a household that has begun to budget.
LEMMA ChainedNow ==
  ASSUME NEW x \in BudgetSettings, NEW d \in Int, StartNow(x, d) <= d
  PROVE  LET c == CyclesNow(x, d) IN
         /\ StartNow(x, d) \in Int
         /\ Chained(c, StartNow(x, d), d, CycleSettingsOf(x))
         /\ Len(c) \in Nat \ {0} /\ \A i \in 1 .. Len(c) : IsCycle(c[i])
         /\ c[Len(c)] = CycleNow(x, d) /\ c[1].start <= StartNow(x, d) /\ StartNow(x, d) < c[1].end
         /\ CycleNow(x, d).start <= d /\ d < CycleNow(x, d).end
         /\ \A i \in 1 .. Len(c) : i + 1 <= Len(c) => c[i + 1].start = c[i].end
<1> DEFINE s == CycleSettingsOf(x)
           start == StartNow(x, d)
           c == CyclesNow(x, d)
<1>1. IsSettings(s) /\ start \in Int
  BY ReplayedCycles
<1>2. Fits(start, s) /\ Fits(d, s)
  BY <1>1, CyclesFit
<1>3. CycleFor(start, s).start <= CycleFor(d, s).start
  BY <1>1, CyclesAreOrdered
<1>4. Chained(c, start, d, s)
  <2>1. Chained(CyclesBetween(start, d, s), start, d, s)
    BY <1>1, <1>3, CyclesOfDays
  <2> QED
    BY <2>1 DEF CyclesNow
<1> HIDE DEF c, start, s
<1>5. /\ Len(c) \in Nat \ {0} /\ c[1] = CycleFor(start, s) /\ c[Len(c)] = CycleFor(d, s)
      /\ \A i \in 1 .. Len(c) : IsCycle(c[i])
      /\ \A i \in 1 .. Len(c) : i + 1 <= Len(c) => c[i + 1].start = c[i].end
  BY <1>4 DEF Chained
<1>6. /\ c[1].start <= start /\ start < c[1].end
      /\ CycleFor(d, s).start <= d /\ d < CycleFor(d, s).end
  BY <1>2, <1>5 DEF Fits
<1> QED
  BY <1>1, <1>4, <1>5, <1>6 DEF CycleNow, c, start, s

\* The cash is what it was measured at, with all that moved since.
LEMMA CashNowIs ==
  ASSUME NEW x, NEW T, NEW d \in Int, NEW day, x \in BudgetSettings, Recorded(T, day), StartNow(x, d) <= d
  PROVE  CashNow(x, T, d) = x.openingCash
                              + TotalOf(Between(Income(T), StartNow(x, d), CycleNow(x, d).end))
                              - TotalOf(Between(Spending(T), StartNow(x, d), CycleNow(x, d).end))
<1> DEFINE s == CycleSettingsOf(x)
           start == StartNow(x, d)
           c == CyclesNow(x, d)
           n == Len(c)
           r == CashLedger(c, start, x.openingCash, T)
<1>1. /\ start \in Int /\ Chained(c, start, d, s) /\ n \in Nat \ {0} /\ c[n] = CycleNow(x, d)
      /\ c[1].start <= start /\ start < c[1].end
  BY ChainedNow
<1>2. x.openingCash \in Int
  BY DEF BudgetSettings
<1> HIDE DEF s, start, c
<1>3. CashReplays(c, start, x.openingCash, T, n, r) /\ Len(r) = n /\ r # <<>>
  BY <1>1, CashIsReplayed
<1> HIDE DEF r
<1>4. \A i \in 1 .. n :
        /\ start < c[i].end
        /\ r[i].closing = x.openingCash + TotalOf(Between(Income(T), start, c[i].end))
                                        - TotalOf(Between(Spending(T), start, c[i].end))
  BY <1>1, <1>2, <1>3, CashAddsUp
<1>5. n \in 1 .. n
  BY <1>1
<1>6. CashHeld(x.openingCash, r) = r[n].closing
  BY <1>3 DEF CashHeld
<1> QED
  BY <1>1, <1>4, <1>5, <1>6 DEF CashNow, r, c, start

LEMMA CashTomorrow ==
  ASSUME NEW x, NEW cs, NEW T, NEW d, NEW t, SpendsOn(x, cs, T, d, t)
  PROVE  CashNow(x, T \cup {t}, d + 1) = CashNow(x, T, d) - More(T, t) /\ More(T, t) \in Nat
<1> DEFINE U == T \cup {t}
           start == StartNow(x, d)
           end == CycleNow(x, d).end
           In(V) == TotalOf(Between(Income(V), start, end))
           Out(V) == TotalOf(Between(Spending(V), start, end))
<1>1. /\ x \in BudgetSettings /\ d \in Int /\ Recorded(T, d) /\ start <= d
      /\ t.kind = "spend" /\ t.day = d /\ t.amount \in Nat /\ d + 1 < end
  BY DEF SpendsOn, Given
<1>2. Recorded(U, d)
  BY <1>1, OneMoreIsRecorded
<1>3. CycleNow(x, d + 1) = CycleNow(x, d) /\ StartNow(x, d + 1) = start
  BY <1>1, SameCycleTomorrow
<1>4. start \in Int /\ end \in Int /\ d < end
  <2>1. start \in Int /\ IsCycle(CycleNow(x, d)) /\ d < end
    BY <1>1, ReplayedCycles
  <2> QED
    BY <2>1 DEF IsCycle
<1>5. CashNow(x, T, d) = x.openingCash + In(T) - Out(T)
  BY <1>1, CashNowIs
<1>6. CashNow(x, U, d + 1) = x.openingCash + In(U) - Out(U)
  <2>1. start <= d + 1 /\ d + 1 \in Int
    BY <1>1, <1>4
  <2> HIDE DEF U
  <2> QED
    BY <1>1, <1>2, <1>3, <2>1, CashNowIs
<1>7. In(U) = In(T)
  <2>1. Between(Income(U), start, end) = Between(Income(T), start, end)
    BY <1>1 DEF Between, Income
  <2> QED
    BY <2>1
<1>8. Out(U) = Out(T) + More(T, t) /\ Out(T) \in Nat /\ More(T, t) \in Nat
  <2> DEFINE A == Between(Spending(T), start, end)
  <2>1. Between(Spending(U), start, end) = A \cup {t}
    BY <1>1, <1>4 DEF Between, Spending
  <2>2. A \in SUBSET T /\ (t \in T => t \in A)
    BY <1>1, <1>4 DEF Between, Spending
  <2> HIDE DEF A
  <2>3. TotalOf(A \cup {t}) = TotalOf(A) + More(T, t) /\ TotalOf(A) \in Nat /\ More(T, t) \in Nat
    BY <1>1, <2>2, OneSpendingMore
  <2> QED
    BY <2>1, <2>3 DEF A
<1>9. In(T) \in Int /\ x.openingCash \in Int
  <2>1. Between(Income(T), start, end) \in SUBSET T
    BY DEF Between, Income
  <2> QED
    BY <1>1, <2>1, Totals DEF BudgetSettings
<1> HIDE DEF In, Out, U, start, end
<1>10. CashNow(x, U, d + 1) = CashNow(x, T, d) - More(T, t)
  BY <1>5, <1>6, <1>7, <1>8, <1>9
<1> QED
  BY <1>8, <1>10 DEF U

\* What a flow took in some days, and what one spending more changes of it.
Taken(T, cat, a, b) == TotalOf(Between(Spending(OfCategory(T, cat)), a, b))

LEMMA TakenTomorrow ==
  ASSUME NEW T, NEW d \in Int, Recorded(T, d), NEW t, t.amount \in Nat, t.day = d, t.kind = "spend",
         NEW cat, NEW a \in Int, NEW b \in Int, a <= d
  PROVE  /\ Taken(T, cat, a, b) \in Nat
         /\ Taken(T \cup {t}, cat, a, b) =
              IF t.cat = cat /\ d < b THEN Taken(T, cat, a, b) + More(T, t) ELSE Taken(T, cat, a, b)
<1> DEFINE U == T \cup {t}
           A == Between(Spending(OfCategory(T, cat)), a, b)
<1>1. A \in SUBSET T
  BY DEF Between, Spending, OfCategory
<1>2. TotalOf(A) \in Nat
  BY <1>1, Totals
<1>3. CASE t.cat = cat /\ d < b
  <2>1. Between(Spending(OfCategory(U, cat)), a, b) = A \cup {t} /\ (t \in T => t \in A)
    BY <1>3 DEF Between, Spending, OfCategory
  <2> HIDE DEF A
  <2>2. TotalOf(A \cup {t}) = TotalOf(A) + More(T, t)
    BY <1>1, <2>1, OneSpendingMore
  <2> QED
    BY <1>2, <1>3, <2>1, <2>2 DEF Taken, A
<1>4. CASE ~ (t.cat = cat /\ d < b)
  <2>1. Between(Spending(OfCategory(U, cat)), a, b) = A
    BY <1>4 DEF Between, Spending, OfCategory
  <2> QED
    BY <1>2, <1>4, <2>1 DEF Taken
<1> QED
  BY <1>3, <1>4

\* A flow tomorrow: the same but for what was spent of it.
LEMMA FlowTomorrow ==
  ASSUME NEW x, NEW cs, NEW T, NEW d, NEW t, SpendsOn(x, cs, T, d, t), NEW i \in FlowsOf(cs),
         NEW f, f = FlowsOn(cs, CyclesNow(x, d), T)[i],
         NEW g, g = FlowsOn(cs, CyclesNow(x, d), T \cup {t})[i]
  PROVE  /\ f.id = cs[i].id /\ g.id = f.id /\ g.allowance = f.allowance /\ g.rollover = f.rollover
         /\ f.spent \in Nat
         /\ g.spent = IF t.cat = f.id THEN f.spent + More(T, t) ELSE f.spent
<1> DEFINE U == T \cup {t}
           cat == cs[i].id
           limit == cs[i].amount
           c == CyclesNow(x, d)
           n == Len(c)
           s == CycleSettingsOf(x)
           start == StartNow(x, d)
<1>1. /\ x \in BudgetSettings /\ d \in Int /\ Recorded(T, d) /\ start <= d
      /\ t.kind = "spend" /\ t.day = d /\ t.amount \in Nat /\ limit \in Int
  BY DEF SpendsOn, Given, FlowsOf, Live, BudgetCategories
<1>2. Recorded(U, d)
  BY <1>1, OneMoreIsRecorded
<1>3. /\ Chained(c, start, d, s) /\ n \in Nat \ {0} /\ n \in Nat /\ \A k \in 1 .. n : IsCycle(c[k])
      /\ c[n] = CycleNow(x, d) /\ CycleNow(x, d).start <= d /\ d < CycleNow(x, d).end
      /\ \A k \in 1 .. n : k + 1 <= n => c[k + 1].start = c[k].end
  BY <1>1, ChainedNow
<1> HIDE DEF c, s, start
<1>4. PICK r : FlowReplays(limit, cat, c, T, n, r) /\ FlowIs(f, cs[i], n, r)
  <2>1. f = FlowsOn(cs, c, T)[i]
    BY DEF c
  <2> QED
    BY <1>3, <2>1, FlowsAreOfRows
<1>5. PICK q : FlowReplays(limit, cat, c, U, n, q) /\ FlowIs(g, cs[i], n, q)
  <2>1. g = FlowsOn(cs, c, U)[i]
    BY DEF c
  <2> HIDE DEF U
  <2> QED
    BY <1>3, <2>1, FlowsAreOfRows
<1> HIDE DEF U, cat, limit
<1>6. \A k \in 1 .. n : r[k].spent = Taken(T, cat, c[k].start, c[k].end)
                        /\ r[k].carried = k * limit - Taken(T, cat, c[1].start, c[k].end)
  <2>1. LET taken(a, b) == TotalOf(Between(Spending(OfCategory(T, cat)), a, b)) IN
         \A k \in 1 .. Len(c) :
           /\ c[1].start < c[k].end
           /\ r[k].spent = taken(c[k].start, c[k].end)
           /\ r[k].carried = (IF k = 1 THEN 0 ELSE r[k - 1].carried) + limit - r[k].spent
           /\ r[k].carried = k * limit - taken(c[1].start, c[k].end)
    BY <1>1, <1>3, <1>4, FlowAddsUp
  <2> QED
    BY <2>1 DEF Taken
<1>7. \A k \in 1 .. n : q[k].spent = Taken(U, cat, c[k].start, c[k].end)
                        /\ q[k].carried = k * limit - Taken(U, cat, c[1].start, c[k].end)
  <2>1. LET taken(a, b) == TotalOf(Between(Spending(OfCategory(U, cat)), a, b)) IN
         \A k \in 1 .. Len(c) :
           /\ c[1].start < c[k].end
           /\ q[k].spent = taken(c[k].start, c[k].end)
           /\ q[k].carried = (IF k = 1 THEN 0 ELSE q[k - 1].carried) + limit - q[k].spent
           /\ q[k].carried = k * limit - taken(c[1].start, c[k].end)
    BY <1>1, <1>2, <1>3, <1>5, FlowAddsUp
  <2> QED
    BY <2>1 DEF Taken
<1>8. \A a, b \in Int : a <= d =>
        /\ Taken(T, cat, a, b) \in Nat
        /\ Taken(U, cat, a, b) =
             IF t.cat = cat /\ d < b THEN Taken(T, cat, a, b) + More(T, t) ELSE Taken(T, cat, a, b)
  BY <1>1, TakenTomorrow DEF U
<1>9. \A k \in 1 .. n : c[k].start \in Int /\ c[k].end \in Int /\ c[k].start <= c[n].start
  <2>1. \A k \in 1 .. n : c[k].start <= c[n].start
    BY <1>3, ChainsAreBetween
  <2> QED
    BY <1>3, <2>1 DEF IsCycle
<1>10. n \in 1 .. n /\ 1 \in 1 .. n
  BY <1>3
<1>11. /\ f.id = cs[i].id /\ f.allowance = cs[i].amount /\ g.id = cs[i].id /\ g.allowance = cs[i].amount
       /\ f.rollover = (IF n < 2 THEN 0 ELSE r[n - 1].carried) /\ f.spent = r[n].spent
       /\ g.rollover = (IF n < 2 THEN 0 ELSE q[n - 1].carried) /\ g.spent = q[n].spent
  BY <1>3, <1>4, <1>5 DEF FlowIs
<1>12. f.spent \in Nat /\ g.spent = IF t.cat = cat THEN f.spent + More(T, t) ELSE f.spent
  <2> DEFINE a == c[n].start
             b == c[n].end
  <2>1. a \in Int /\ b \in Int /\ a <= d /\ d < b
    BY <1>3, <1>9, <1>10
  <2>2. f.spent = Taken(T, cat, a, b) /\ g.spent = Taken(U, cat, a, b)
    BY <1>6, <1>7, <1>10, <1>11
  <2> HIDE DEF a, b
  <2> QED
    BY <1>8, <2>1, <2>2
<1>13. g.rollover = f.rollover
  <2>1. CASE n < 2
    BY <1>11, <2>1
  <2>2. CASE ~ (n < 2)
    <3> DEFINE k == n - 1
               a == c[1].start
               b == c[k].end
    <3>1. k \in 1 .. n /\ k + 1 = n /\ k + 1 <= n
      BY <1>3, <2>2
    <3>2. c[k + 1].start = b
      BY <1>3, <3>1
    <3>3. a \in Int /\ b \in Int /\ a <= d /\ ~ (d < b)
      <4>1. a \in Int /\ b \in Int /\ a <= c[n].start /\ c[n].start \in Int
        BY <1>9, <1>10, <3>1
      <4>2. b <= d /\ c[n].start <= d
        BY <1>3, <3>1, <3>2
      <4> HIDE DEF a, b, k
      <4> QED
        BY <1>1, <4>1, <4>2
    <3>4. r[k].carried = k * limit - Taken(T, cat, a, b) /\ q[k].carried = k * limit - Taken(U, cat, a, b)
      <4> HIDE DEF k
      <4> QED
        BY <1>6, <1>7, <3>1
    <3> HIDE DEF a, b
    <3>5. Taken(U, cat, a, b) = Taken(T, cat, a, b)
      BY <1>8, <3>3
    <3>6. r[k].carried = q[k].carried
      BY <3>4, <3>5
    <3> QED
      BY <1>11, <2>2, <3>6
  <2> QED
    BY <2>1, <2>2
<1> QED
  BY <1>11, <1>12, <1>13 DEF cat

\* A pot tomorrow: the same balance and the same ask, if its due dates do not move and the
\* spending is not of it.
LEMMA PotTomorrow ==
  ASSUME NEW x, NEW cs, NEW T, NEW d, NEW t, SpendsOn(x, cs, T, d, t), NEW i \in PotsOf(cs),
         t.cat # cs[i].id,
         \A k \in 1 .. Len(CyclesNow(x, d)) :
           NextDueOn(PotOf(cs[i], d), CyclesNow(x, d)[k].start)
             = NextDueOn(PotOf(cs[i], d + 1), CyclesNow(x, d)[k].start),
         NEW a, a = StatesNow(x, cs, T, d)[i], NEW b, b = StatesNow(x, cs, T \cup {t}, d + 1)[i]
  PROVE  b.balance = a.balance /\ b.perCycle = a.perCycle /\ b.pot.kind = a.pot.kind
<1> DEFINE U == T \cup {t}
           s == CycleSettingsOf(x)
           c == CyclesNow(x, d)
           id == cs[i].id
           p == PotOf(cs[i], d)
           q == PotOf(cs[i], d + 1)
           Paid(V) == [k \in DOMAIN c |-> SpentOn(V, id, c[k])]
           Moved(V) == [k \in DOMAIN c |-> PutAside(V, id, c[k])]
<1>1. x \in BudgetSettings /\ d \in Int /\ d + 1 < CycleNow(x, d).end /\ StartNow(x, d) <= d
  BY DEF SpendsOn, Given
<1>2. CyclesNow(x, d + 1) = c /\ Len(c) \in Nat \ {0}
  BY <1>1, SameCycleTomorrow, ChainedNow
<1>3. p.id = id /\ q.id = id
  BY DEF PotOf
<1>4. Alike(p, q)
  BY DEF Alike, PotOf
<1>5. Paid(U) = Paid(T)
  <2>1. \A k \in DOMAIN c : SpentOn(U, id, c[k]) = SpentOn(T, id, c[k])
    <3> TAKE k \in DOMAIN c
    <3>1. Spending(OfCategory(During(U, c[k]), id)) = Spending(OfCategory(During(T, c[k]), id))
      BY DEF Spending, OfCategory, During, Between
    <3> QED
      BY <3>1 DEF SpentOn
  <2> QED
    BY <2>1
<1>6. a = PotState(p, s, d, PotLedger(p, s, c, Paid(T), Moved(T)))
  BY <1>3, Zenon DEF StatesNow, StatesOf, PotNow
<1>7. b = PotState(q, s, d + 1, PotLedger(q, s, c, Paid(U), Moved(U)))
  BY <1>2, <1>3, Zenon DEF StatesNow, StatesOf, PotNow
<1>8. \A k \in 1 .. Len(c) : NextDueOn(p, c[k].start) = NextDueOn(q, c[k].start)
  OBVIOUS
<1>9. q.kind = p.kind
  BY <1>4 DEF Alike
<1> HIDE DEF U, s, c, id, p, q, Paid, Moved
<1>10. b.balance = a.balance /\ b.perCycle = a.perCycle /\ b.pot = q /\ a.pot = p
  BY <1>2, <1>4, <1>5, <1>6, <1>7, <1>8, AlikeRows
<1> QED
  BY <1>9, <1>10

\* No two categories have one number; the due dates that are asked for do not move.
Numbered(cs) == \A i, j \in DOMAIN cs : cs[i].id = cs[j].id => i = j

DatesHold(x, cs, d) ==
  \A i \in PotsOf(cs) : \A k \in 1 .. Len(CyclesNow(x, d)) :
    NextDueOn(PotOf(cs[i], d), CyclesNow(x, d)[k].start)
      = NextDueOn(PotOf(cs[i], d + 1), CyclesNow(x, d)[k].start)

\* Two budgets of one cycle that differ, in what the headline counts, in the outlays only.
OnlySpent(b, e, more) ==
  /\ e.cycle = b.cycle /\ Balances(e.pots) = Balances(b.pots)
  /\ \A kinds : AsksOf(e.pots, kinds) = AsksOf(b.pots, kinds)
  /\ Allowances(e.flows) = Allowances(b.flows) /\ Carries(e.flows) = Carries(b.flows)
  /\ SumOf(Outlays(e.flows)) = SumOf(Outlays(b.flows)) + more
  /\ SumOf(Outlays(b.flows)) \in Nat

\* The sums tomorrow: only what was spent has grown.
LEMMA SumsTomorrow ==
  ASSUME NEW x, NEW cs, NEW T, NEW d, NEW t, SpendsOn(x, cs, T, d, t), IsFiniteSet(DOMAIN cs),
         Numbered(cs), DatesHold(x, cs, d), NEW i0 \in FlowsOf(cs), t.cat = cs[i0].id
  PROVE  OnlySpent(BuildBudget(x, cs, T, d), BuildBudget(x, cs, T \cup {t}, d + 1), More(T, t))
<1> DEFINE U == T \cup {t}
           b == BuildBudget(x, cs, T, d)
           e == BuildBudget(x, cs, U, d + 1)
<1>0. /\ \A i, j \in DOMAIN cs : cs[i].id = cs[j].id => i = j
      /\ \A i \in PotsOf(cs) : \A k \in 1 .. Len(CyclesNow(x, d)) :
           NextDueOn(PotOf(cs[i], d), CyclesNow(x, d)[k].start)
             = NextDueOn(PotOf(cs[i], d + 1), CyclesNow(x, d)[k].start)
  BY DEF Numbered, DatesHold
<1>1. /\ Given(x, cs, T, d) /\ x \in BudgetSettings /\ d \in Int /\ d + 1 < CycleNow(x, d).end
      /\ Recorded(T, d) /\ t.day = d /\ t.amount \in Nat
  BY DEF SpendsOn, Given
<1>2. Given(x, cs, U, d + 1)
  <2>1. Recorded(U, d)
    BY <1>1, OneMoreIsRecorded
  <2> QED
    BY <1>1, <2>1 DEF Given
<1>3. More(T, t) \in Nat
  BY CashTomorrow
<1>4. e.cycle = b.cycle /\ CyclesNow(x, d + 1) = CyclesNow(x, d)
  <2>1. CycleNow(x, d + 1) = CycleNow(x, d) /\ CyclesNow(x, d + 1) = CyclesNow(x, d)
    BY <1>1, SameCycleTomorrow
  <2>2. e.cycle = CycleNow(x, d + 1) /\ b.cycle = CycleNow(x, d)
    BY BudgetParts
  <2> QED
    BY <2>1, <2>2
<1>5. DOMAIN b.pots = PotsOf(cs) /\ DOMAIN e.pots = PotsOf(cs)
  BY <1>1, <1>2, ShownPots
<1>6. ASSUME NEW i \in PotsOf(cs)
      PROVE  /\ e.pots[i].balance = b.pots[i].balance /\ e.pots[i].perCycle = b.pots[i].perCycle
             /\ e.pots[i].pot.kind = b.pots[i].pot.kind
  <2> DEFINE p == StatesNow(x, cs, T, d)[i]
             q == StatesNow(x, cs, U, d + 1)[i]
  <2>1. t.cat # cs[i].id
    BY <1>0 DEF FlowsOf, PotsOf, Live
  <2>2. q.balance = p.balance /\ q.perCycle = p.perCycle /\ q.pot.kind = p.pot.kind
    BY <1>0, <2>1, PotTomorrow
  <2>3. /\ b.pots[i].pot = p.pot /\ b.pots[i].balance = p.balance /\ b.pots[i].perCycle = p.perCycle
    <3>1. LET r == StatesNow(x, cs, T, d)[i] IN
          /\ b.pots[i].pot = PotOf(cs[i], d) /\ r.pot = PotOf(cs[i], d)
          /\ b.pots[i].balance = r.balance /\ b.pots[i].perCycle = r.perCycle
      BY <1>1, ShownPots
    <3> QED
      BY <3>1
  <2>4. /\ e.pots[i].pot = q.pot /\ e.pots[i].balance = q.balance /\ e.pots[i].perCycle = q.perCycle
    <3> DEFINE r == StatesNow(x, cs, U, d + 1)[i]
    <3>1. LET v == StatesNow(x, cs, U, d + 1)[i] IN
          /\ e.pots[i].pot = PotOf(cs[i], d + 1) /\ v.pot = PotOf(cs[i], d + 1)
          /\ e.pots[i].balance = v.balance /\ e.pots[i].perCycle = v.perCycle
      BY <1>2, ShownPots
    <3> QED
      BY <3>1
  <2> HIDE DEF p, q
  <2> QED
    BY <2>2, <2>3, <2>4
<1>7. Balances(e.pots) = Balances(b.pots)
  BY <1>5, <1>6 DEF Balances
<1>8. ASSUME NEW kinds PROVE AsksOf(e.pots, kinds) = AsksOf(b.pots, kinds)
  BY <1>5, <1>6 DEF AsksOf
<1>9. b.flows = FlowsOn(cs, CyclesNow(x, d), T) /\ e.flows = FlowsOn(cs, CyclesNow(x, d), U)
  <2>1. b.flows = FlowsOn(cs, CyclesNow(x, d), T) /\ e.flows = FlowsOn(cs, CyclesNow(x, d + 1), U)
    BY BudgetParts
  <2> QED
    BY <1>4, <2>1
<1>10. DOMAIN b.flows = FlowsOf(cs) /\ DOMAIN e.flows = FlowsOf(cs)
  BY <1>9 DEF FlowsOn
<1>11. ASSUME NEW i \in FlowsOf(cs)
       PROVE  /\ e.flows[i].allowance = b.flows[i].allowance /\ e.flows[i].rollover = b.flows[i].rollover
              /\ b.flows[i].spent \in Nat
              /\ e.flows[i].spent = IF i = i0 THEN b.flows[i].spent + More(T, t) ELSE b.flows[i].spent
  <2> DEFINE f == b.flows[i]
             g == e.flows[i]
  <2>1. f = FlowsOn(cs, CyclesNow(x, d), T)[i] /\ g = FlowsOn(cs, CyclesNow(x, d), U)[i]
    BY <1>9
  <2>2. /\ f.id = cs[i].id /\ g.allowance = f.allowance /\ g.rollover = f.rollover /\ f.spent \in Nat
        /\ g.spent = IF t.cat = f.id THEN f.spent + More(T, t) ELSE f.spent
    <3> HIDE DEF f, g
    <3> QED
      BY <2>1, FlowTomorrow
  <2>3. (t.cat = cs[i].id) <=> (i = i0)
    BY <1>0 DEF FlowsOf, Live
  <2> QED
    BY <2>2, <2>3
<1>12. Allowances(e.flows) = Allowances(b.flows) /\ Carries(e.flows) = Carries(b.flows)
  BY <1>10, <1>11 DEF Allowances, Carries
<1>13. SumOf(Outlays(e.flows)) = SumOf(Outlays(b.flows)) + More(T, t) /\ SumOf(Outlays(b.flows)) \in Nat
  <2> DEFINE S == FlowsOf(cs)
             R == S \ {i0}
             w == Outlays(b.flows)
             v == Outlays(e.flows)
             m == More(T, t)
  <2>1. IsFiniteSet(S) /\ IsFiniteSet(R)
    <3>1. S \in SUBSET DOMAIN cs /\ R \in SUBSET DOMAIN cs
      BY DEF FlowsOf, Live
    <3> QED
      BY <3>1, FS_Subset
  <2>2. /\ DOMAIN w = S /\ DOMAIN v = S /\ i0 \in S
        /\ \A i \in S : w[i] \in Nat /\ v[i] = IF i = i0 THEN w[i] + m ELSE w[i]
    BY <1>10, <1>11 DEF Outlays
  <2> HIDE DEF S, w, v, m
  <2>3. /\ \A i \in S : w[i] \in Int /\ v[i] \in Int
        /\ m \in Nat /\ w[i0] \in Nat /\ v[i0] = w[i0] + m
        /\ S \in SUBSET S /\ R \in SUBSET S
    BY <1>3, <2>2 DEF m
  <2>4. Total(w, S) = w[i0] + Total(w, R) /\ Total(v, S) = v[i0] + Total(v, R)
    BY <2>1, <2>2, <2>3, TotalTakesAny
  <2>5. Total(v, R) = Total(w, R)
    <3>1. \A i \in R : v[i] = w[i]
      BY <2>2
    <3> HIDE DEF R
    <3> QED
      BY <2>1, <3>1, TotalAgrees
  <2>6. Total(w, R) \in Nat /\ Total(w, S) \in Nat
    <3>1. \A i \in S : w[i] \in Nat
      BY <2>2
    <3> QED
      BY <2>1, <2>3, <3>1, TotalGrows
  <2>7. SumOf(w) = Total(w, S) /\ SumOf(v) = Total(v, S)
    BY <2>2, SumIsTotal
  <2>8. SumOf(v) = SumOf(w) + m /\ SumOf(w) \in Nat
    BY <2>3, <2>4, <2>5, <2>6, <2>7
  <2> QED
    BY <2>8 DEF w, v, m
<1> QED
  BY <1>4, <1>7, <1>8, <1>12, <1>13 DEF OnlySpent

\* Who spends no more than a day's figure is left with the figure for each day to come.
LEMMA FigureIsLeft ==
  ASSUME NEW known \in BOOLEAN, NEW pool \in Int, NEW planned \in Nat, NEW cash \in Int,
         NEW days \in Nat \ {0, 1}, NEW daily \in Nat \ {0}, NEW more \in Nat, more <= daily,
         NEW avail, NEW left,
         avail = Bounded(known, pool, AtLeast(0, cash) - AtMost(planned, AtLeast(0, cash))),
         left = Bounded(known, pool - more,
                        AtLeast(0, cash - more) - AtMost(planned, AtLeast(0, cash - more))),
         daily = avail \div days
  PROVE  left \in Int /\ daily <= left \div (days - 1)
<1> DEFINE n == days - 1
           free == AtLeast(0, cash) - AtMost(planned, AtLeast(0, cash))
           rest == AtLeast(0, cash - more) - AtMost(planned, AtLeast(0, cash - more))
<1>1. avail \in Int /\ left \in Int /\ free \in Int /\ rest \in Int
  BY DEF Bounded, AtLeast, AtMost
<1>2. daily * days <= avail
  <2>1. days \in Nat \ {0}
    OBVIOUS
  <2> QED
    BY <1>1, <2>1, Quotients
<1>3. n \in Nat \ {0} /\ daily * days = daily * n + daily /\ daily * n \in Nat
  OBVIOUS
<1>4. avail >= daily /\ avail > 0
  BY <1>1, <1>2, <1>3
<1>5. left >= avail - more
  <2>1. CASE ~ known
    BY <2>1, <1>1 DEF Bounded
  <2>2. CASE known
    <3>1. avail = AtMost(pool, free) /\ left = AtMost(pool - more, rest)
      BY <2>2, Zenon DEF Bounded
    <3>2. avail <= pool /\ avail <= free
      BY <1>1, <3>1 DEF AtMost
    <3>3. free > 0 /\ more <= free
      BY <1>1, <1>4, <3>2
    <3>4. cash > 0 /\ planned < cash /\ free = cash - planned
      BY <3>3 DEF AtLeast, AtMost
    <3>5. rest = free - more
      BY <3>3, <3>4 DEF AtLeast, AtMost
    <3> HIDE DEF free, rest
    <3> QED
      BY <1>1, <3>1, <3>2, <3>5 DEF AtMost
  <2> QED
    BY <2>1, <2>2
<1>6. daily * n <= left
  <2> DEFINE all == daily * days
             some == daily * n
  <2>1. all <= avail /\ all = some + daily /\ some \in Nat
    BY <1>2, <1>3
  <2> HIDE DEF all, some
  <2>2. some <= left
    BY <1>1, <1>5, <2>1
  <2> QED
    BY <2>2 DEF some
<1>7. daily <= left \div n
  <2> DEFINE q == left \div n
  <2>1. q \in Int /\ left < q * n + n
    BY <1>1, <1>3, Quotients
  <2> HIDE DEF n, q
  <2>2. ASSUME q + 1 <= daily PROVE FALSE
    <3>1. (q + 1) * n <= daily * n
      BY <1>3, <2>1, <2>2
    <3>2. (q + 1) * n = q * n + n
      BY <1>3, <2>1
    <3> QED
      BY <1>1, <1>3, <1>6, <2>1, <3>1, <3>2
  <2>3. daily <= q
    BY <2>1, <2>2
  <2> QED
    BY <2>3 DEF q
<1> QED
  BY <1>1, <1>7

\* The cycles that are replayed today start where the due dates of today and of tomorrow reach.
LEMMA StartsAreReached ==
  ASSUME EntriesInv, now = today, NEW k \in 1 .. Len(CyclesNow(set, now))
  PROVE  LET from == CyclesNow(set, now)[k].start IN
         from \in Int /\ Reaches(now, from) /\ Reaches(now + 1, from)
<1> DEFINE s == budget.settings
           start == StartNow(set, now)
           c == CyclesNow(set, now)
           n == Len(c)
           from == c[k].start
           first == CycleFor(FirstDay, s).start
<1>1. /\ HouseholdInv /\ RecordsInv /\ set \in BudgetSettings /\ s = CycleSettingsOf(set) /\ IsSettings(s)
      /\ now \in Int /\ FirstDay \in Int /\ LastDay \in Int /\ FirstDay <= now /\ now <= LastDay
      /\ budget = BuildBudget(set, cats, txs, now)
  <2>1. HouseholdInv /\ RecordsInv
    BY DEF EntriesInv, RecordsInv
  <2>2. set \in BudgetSettings /\ s = CycleSettingsOf(set) /\ now \in FirstDay .. today /\ today \in FirstDay .. LastDay
    BY <2>1 DEF HouseholdInv
  <2>3. FirstDay \in Int /\ LastDay \in Int
    BY DaysPlayed
  <2> QED
    BY <2>1, <2>2, <2>3, StoredSettings, ShownBudget
<1>2. start <= now
  <2>1. budget.start = start
    BY <1>1, BudgetParts
  <2> QED
    BY <1>1, <2>1, TodayIsReplayed
<1>3. /\ start \in Int /\ Chained(c, start, now, s) /\ n \in Nat \ {0} /\ \A j \in 1 .. n : IsCycle(c[j])
      /\ c[n] = CycleNow(set, now) /\ CycleNow(set, now).start <= now
  BY <1>1, <1>2, ChainedNow
<1>4. Fits(FirstDay, s) /\ Fits(start, s) /\ Fits(now, s)
  BY <1>1, <1>3, CyclesFit
<1>5. first \in Int /\ first <= FirstDay
  BY <1>4 DEF Fits, IsCycle
<1>6. first <= CycleFor(start, s).start
  <2>1. CASE set.budgetStart # None
    <3>1. start = set.budgetStart
      BY <2>1 DEF StartNow, BudgetStartOf
    <3>2. FirstDay <= start
      BY <1>1, <2>1, <3>1 DEF HouseholdInv
    <3> QED
      BY <1>1, <1>3, <3>2, CyclesAreOrdered
  <2>2. CASE set.budgetStart = None
    <3>1. start = CycleFor(now, s).start
      BY <1>1, <2>2 DEF StartNow, BudgetStartOf, CycleNow
    <3>2. CycleFor(start, s) = CycleFor(now, s)
      <4> DEFINE e == CycleFor(now, s)
      <4>1. /\ IsCycle(e) /\ e.start <= now /\ now < e.end
            /\ \A x \in Int : e.start <= x /\ x < e.end => CycleFor(x, s) = e
        BY <1>4 DEF Fits
      <4>2. start = e.start
        BY <3>1
      <4> HIDE DEF e, start
      <4>3. e.start <= start /\ start < e.end /\ start \in Int
        BY <1>3, <4>1, <4>2 DEF IsCycle
      <4>4. CycleFor(start, s) = e
        BY <4>1, <4>3
      <4> QED
        BY <4>4 DEF e
    <3> QED
      BY <1>1, <3>2, CyclesAreOrdered
  <2> QED
    BY <2>1, <2>2
<1> HIDE DEF c, start, first, s
<1>7. c[1] = CycleFor(start, s)
  BY <1>3 DEF Chained
<1>8. c[1].start <= from /\ from <= c[n].start /\ from \in Int /\ c[1].start \in Int /\ c[n].start \in Int
  <2>1. k \in 1 .. n
    BY DEF c
  <2>2. 1 \in 1 .. n /\ n \in 1 .. n
    BY <1>3
  <2>3. c[1].start <= from /\ from <= c[n].start
    BY <1>3, <2>1, ChainsAreBetween
  <2> QED
    BY <1>3, <2>1, <2>2, <2>3 DEF IsCycle
<1>9. first <= from /\ from <= LastDay /\ first <= now /\ now <= LastDay + 1
      /\ first <= now + 1 /\ now + 1 <= LastDay + 1 /\ now + 1 \in Int
  <2> HIDE DEF from
  <2>1. first <= from
    BY <1>5, <1>6, <1>7, <1>8
  <2>2. from <= now
    BY <1>1, <1>3, <1>8
  <2> QED
    BY <1>1, <1>5, <1>8, <2>1, <2>2
<1>10. Reaches(now, from) /\ Reaches(now + 1, from)
  <2> HIDE DEF from
  <2>1. LET f == CycleFor(FirstDay, budget.settings).start IN
        /\ f <= now /\ now <= LastDay + 1 /\ f <= from /\ from <= LastDay
        /\ f <= now + 1 /\ now + 1 <= LastDay + 1
    BY <1>9 DEF first, s
  <2>2. Reaches(now, from)
    BY <1>1, <1>8, <2>1, DaysAreReached
  <2>3. Reaches(now + 1, from)
    BY <1>8, <1>9, <2>1, DaysAreReached
  <2> QED
    BY <2>2, <2>3
<1> QED
  BY <1>8, <1>10 DEF from, c

LEMMA PromiseKept == EntriesInv => PromiseIsKept
<1> DEFINE daily == budget.summary.perDay
           spent(cat) == [id |-> 0, kind |-> "spend", cat |-> cat, amount |-> daily,
                          day |-> today, auto |-> FALSE]
<1> SUFFICES ASSUME EntriesInv, now = today, daily > 0, today + 1 < budget.cycle.end,
                    \A i \in PotsOf(cats) : HasItsDate(cats[i]),
                    NEW i0 \in DOMAIN budget.flows
             PROVE  BuildBudget(set, cats, txs \cup {spent(budget.flows[i0].id)}, today + 1).summary.perDay >= daily
  BY Zenon DEF PromiseIsKept
<1> DEFINE t == spent(budget.flows[i0].id)
           U == txs \cup {t}
           next == BuildBudget(set, cats, U, now + 1)
           more == More(txs, t)
           days == DaysLeft(budget.cycle, now)
           cash == CashNow(set, txs, now)
           known == CashKnown(set, txs)
<1>1. /\ Given(set, cats, txs, now) /\ budget = BuildBudget(set, cats, txs, now)
      /\ RecordsInv /\ now \in Int /\ set \in BudgetSettings /\ Recorded(txs, now)
      /\ \A i \in DOMAIN cats : cats[i] \in BudgetCategories
      /\ \A i, j \in DOMAIN cats : cats[i].id = cats[j].id => i = j
      /\ IsFiniteSet(DOMAIN cats)
  BY ShownBudget DEF EntriesInv, RecordsInv, HouseholdInv
<1>2. /\ budget.start = StartNow(set, now) /\ budget.cycle = CycleNow(set, now)
      /\ budget.flows = FlowsOn(cats, CyclesNow(set, now), txs)
  BY <1>1, BudgetParts
<1>3. StartNow(set, now) <= now
  BY <1>1, <1>2, TodayIsReplayed
<1>4. PICK pool \in Nat :
        /\ pool = Pool(budget.pots, budget.flows, set.expected, TotalOf(Income(During(txs, budget.cycle))))
        /\ budget.summary.held \in Nat /\ budget.summary.planned \in Nat
        /\ budget.summary.rollover \in Int /\ budget.summary.spent \in Nat
        /\ budget.summary.held = AtLeast(0, cash) /\ budget.summary.planned = SumOf(Balances(budget.pots))
        /\ budget.summary.rollover = SumOf(Carries(budget.flows))
        /\ budget.summary.spent = SumOf(Outlays(budget.flows))
        /\ budget.summary.available = Bounded(known, pool + budget.summary.rollover - budget.summary.spent,
                                              budget.summary.held - AtMost(budget.summary.planned, budget.summary.held))
        /\ days \in Nat \ {0} /\ daily = budget.summary.available \div days
  BY <1>1, HeadlineOf
<1>5. daily \in Nat \ {0}
  <2>1. budget.summary.available \in Int
    BY <1>4 DEF Bounded, AtMost
  <2>2. daily \in Int
    BY <1>4, <2>1, Quotients
  <2> QED
    BY <2>2
<1>6. /\ t.kind = "spend" /\ t.day = now /\ t.amount = daily /\ t.amount \in Nat
      /\ t.cat = budget.flows[i0].id
  BY <1>5
<1> HIDE DEF t, daily
<1>7. SpendsOn(set, cats, txs, now, t)
  BY <1>1, <1>2, <1>3, <1>6 DEF SpendsOn
<1>8. i0 \in FlowsOf(cats) /\ t.cat = cats[i0].id
  <2>1. DOMAIN budget.flows = FlowsOf(cats)
    BY <1>2 DEF FlowsOn
  <2>2. i0 \in FlowsOf(cats)
    BY <2>1
  <2>3. budget.flows[i0].id = cats[i0].id
    <3> DEFINE f == budget.flows[i0]
               g == FlowsOn(cats, CyclesNow(set, now), txs \cup {t})[i0]
    <3>1. f = FlowsOn(cats, CyclesNow(set, now), txs)[i0]
      BY <1>2
    <3>2. g = FlowsOn(cats, CyclesNow(set, now), txs \cup {t})[i0]
      OBVIOUS
    <3> HIDE DEF f, g
    <3>3. f.id = cats[i0].id
      BY <1>7, <2>2, <3>1, <3>2, FlowTomorrow
    <3> QED
      BY <3>3 DEF f
  <2> QED
    BY <1>6, <2>2, <2>3
<1>9. ASSUME NEW i \in PotsOf(cats), NEW k \in 1 .. Len(CyclesNow(set, now))
      PROVE  NextDueOn(PotOf(cats[i], now), CyclesNow(set, now)[k].start)
               = NextDueOn(PotOf(cats[i], now + 1), CyclesNow(set, now)[k].start)
  <2> DEFINE from == CyclesNow(set, now)[k].start
  <2>1. from \in Int /\ Reaches(now, from) /\ Reaches(now + 1, from)
    BY StartsAreReached
  <2>2. cats[i] \in BudgetCategories /\ HasItsDate(cats[i]) /\ now + 1 \in Int
    BY <1>1 DEF PotsOf, Live
  <2> HIDE DEF from
  <2>3. NextDueOn(PotOf(cats[i], now), from) = NextDueOn(PotOf(cats[i], now + 1), from)
    BY <1>1, <2>1, <2>2, DueDateIsFixed
  <2> QED
    BY <2>3 DEF from
<1>10. OnlySpent(budget, next, more)
  <2>1. budget = BuildBudget(set, cats, txs, now) /\ next = BuildBudget(set, cats, txs \cup {t}, now + 1)
    BY <1>1
  <2>2. DatesHold(set, cats, now)
    BY <1>9 DEF DatesHold
  <2>3. IsFiniteSet(DOMAIN cats) /\ Numbered(cats)
    BY <1>1 DEF Numbered
  <2> HIDE DEF next, U, days, cash, known
  <2>4. OnlySpent(BuildBudget(set, cats, txs, now), BuildBudget(set, cats, txs \cup {t}, now + 1), More(txs, t))
    BY <1>7, <1>8, <2>2, <2>3, SumsTomorrow
  <2> QED
    BY <2>1, <2>4
<1>11. CashNow(set, U, now + 1) = cash - more /\ more \in Nat /\ more <= daily
  <2>1. CashNow(set, U, now + 1) = cash - more /\ more \in Nat
    <3>1. CashNow(set, txs \cup {t}, now + 1) = CashNow(set, txs, now) - More(txs, t) /\ More(txs, t) \in Nat
      <4> HIDE DEF U, next, more, cash, known, days
      <4> QED
        BY <1>1, <1>7, CashTomorrow
    <3> QED
      BY <3>1
  <2>2. more <= daily
    BY <1>5, <1>6 DEF More
  <2> QED
    BY <2>1, <2>2
<1>12. Given(set, cats, U, now + 1)
  <2>1. Recorded(U, now)
    BY <1>1, <1>6, OneMoreIsRecorded
  <2> QED
    BY <1>1, <2>1 DEF Given
<1>13. PICK rest \in Nat :
        /\ rest = Pool(next.pots, next.flows, set.expected, TotalOf(Income(During(U, next.cycle))))
        /\ next.summary.held = AtLeast(0, CashNow(set, U, now + 1))
        /\ next.summary.planned = SumOf(Balances(next.pots))
        /\ next.summary.rollover = SumOf(Carries(next.flows))
        /\ next.summary.spent = SumOf(Outlays(next.flows))
        /\ next.summary.available = Bounded(CashKnown(set, U), rest + next.summary.rollover - next.summary.spent,
                                            next.summary.held - AtMost(next.summary.planned, next.summary.held))
        /\ next.summary.perDay = next.summary.available \div DaysLeft(next.cycle, now + 1)
  BY <1>1, <1>12, HeadlineOf
<1>10a. /\ next.cycle = budget.cycle /\ Balances(next.pots) = Balances(budget.pots)
      /\ \A kinds : AsksOf(next.pots, kinds) = AsksOf(budget.pots, kinds)
      /\ Allowances(next.flows) = Allowances(budget.flows) /\ Carries(next.flows) = Carries(budget.flows)
      /\ SumOf(Outlays(next.flows)) = SumOf(Outlays(budget.flows)) + more
  BY <1>10, Zenon DEF OnlySpent
<1>14. Income(During(U, next.cycle)) = Income(During(txs, budget.cycle)) /\ CashKnown(set, U) = known
  BY <1>6, <1>10a DEF Income, During, Between, CashKnown
<1>15. rest = pool
  BY <1>4, <1>10a, <1>13, <1>14 DEF Pool
<1>16. days \in Nat \ {0, 1} /\ DaysLeft(next.cycle, now + 1) = days - 1
  <2>1. IsCycle(budget.cycle)
    BY <1>1, <1>2, ReplayedCycles
  <2> QED
    BY <1>1, <1>10a, <2>1 DEF IsCycle, DaysLeft
<1>17. cash \in Int
  BY <1>1, CashIsWhole
<1>18. known \in BOOLEAN
  BY DEF CashKnown
<1> DEFINE planned == budget.summary.planned
           plan == pool + budget.summary.rollover - budget.summary.spent
           left == next.summary.available
<1>19. plan \in Int /\ planned \in Nat
  BY <1>4
<1>20. rest + next.summary.rollover - next.summary.spent = plan - more
  <2>1. next.summary.rollover = budget.summary.rollover /\ next.summary.spent = budget.summary.spent + more
    BY <1>4, <1>10a, <1>13
  <2> HIDE DEF more, next
  <2> QED
    BY <1>4, <1>11, <1>15, <2>1
<1>21. left = Bounded(known, plan - more, AtLeast(0, cash - more) - AtMost(planned, AtLeast(0, cash - more)))
  <2>1. next.summary.held = AtLeast(0, cash - more) /\ next.summary.planned = planned
    BY <1>4, <1>10a, <1>11, <1>13
  <2> HIDE DEF next, plan, planned, more, cash, known
  <2> QED
    BY <1>13, <1>14, <1>20, <2>1
<1>22. budget.summary.available = Bounded(known, plan, AtLeast(0, cash) - AtMost(planned, AtLeast(0, cash)))
  BY <1>4
<1> HIDE DEF planned, plan, left, known, cash, more, days
<1>23. daily <= left \div (days - 1) /\ left \in Int
  <2> DEFINE avail == budget.summary.available
  <2>1. /\ avail = Bounded(known, plan, AtLeast(0, cash) - AtMost(planned, AtLeast(0, cash)))
        /\ daily = avail \div days
    BY <1>4, <1>22
  <2> HIDE DEF avail
  <2>2. /\ known \in BOOLEAN /\ plan \in Int /\ planned \in Nat /\ cash \in Int
        /\ days \in Nat \ {0, 1} /\ daily \in Nat \ {0} /\ more \in Nat /\ more <= daily
    BY <1>5, <1>11, <1>16, <1>17, <1>18, <1>19
  <2>3. left \in Int /\ daily <= left \div (days - 1)
    BY <1>21, <2>1, <2>2, FigureIsLeft
  <2> QED
    BY <2>3
<1>24. next.summary.perDay = left \div (days - 1)
  BY <1>13, <1>16 DEF left
<1>25. daily <= next.summary.perDay
  BY <1>23, <1>24
<1>26. next.summary.perDay \in Int
  <2> DEFINE m == days - 1
  <2>1. m \in Nat \ {0}
    BY <1>16
  <2> HIDE DEF m
  <2>2. left \div m \in Int
    BY <1>23, <2>1, Quotients
  <2> QED
    BY <1>24, <2>2 DEF m
<1>27. next.summary.perDay >= daily
  <2> HIDE DEF next
  <2> QED
    BY <1>5, <1>25, <1>26
<1> QED
  BY <1>27 DEF t

\* What the app says first stays true: the figure is backed by cash and kept tomorrow, "over
\* budget" is said only after spending, and the verdict agrees with the figures (summary.ts,
\* headline.ts, verdict.ts).
THEOREM HeadlinesStayHonest == BudgetSpec => []HeadlineIsHonest
<1>1. EntriesInv /\ VerdictsAgree => HeadlineIsHonest
  BY HeadlinesAreBacked, PromiseKept, OverIsOverspent DEF HeadlineIsHonest
<1> QED
  BY <1>1, PlayedHousehold, EntriesHold, VerdictsKeepAgreeing, PTL

=============================================================================
