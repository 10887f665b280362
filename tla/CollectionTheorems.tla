------------------------- MODULE CollectionTheorems --------------------------
(***************************************************************************)
(* What the proofs need of finite collections.                               *)
(*                                                                           *)
(* Induction is stated for sets (a set of naturals that has 0 and the        *)
(* successor of each of its members has them all; likewise the subsets of    *)
(* a finite set), so that it can be cited with the set of what has the       *)
(* property.                                                                 *)
(*                                                                           *)
(* Sums of the integers of a function over a finite set, as the models       *)
(* take them with SumFunctionOnSet: the sum does not depend on the order     *)
(* the fold chooses, and changing one value changes the sum by as much.      *)
(*                                                                           *)
(* A finite set of naturals listed in order, and what a filter keeps of a    *)
(* list (Ordered): by their ranks, every member is listed once.              *)
(*                                                                           *)
(* Parts of a list, and parts of parts (CutOf).  Functions defined by        *)
(* recursion over the naturals exist (NatRecursion), so that what a          *)
(* recursive definition computes can be shown by induction.                  *)
(***************************************************************************)
EXTENDS Integers, Sequences, FiniteSets, Functions, Ordered,
        FiniteSetTheorems, SequenceTheorems, WellFoundedInduction, TLAPS

(* Induction over the naturals. *)
LEMMA NatSetInduction ==
    ASSUME NEW A \in SUBSET Nat, 0 \in A, \A n \in A : n + 1 \in A
    PROVE  A = Nat
<1>. DEFINE R == OpToRel(<, Nat)
            B == Nat \ A
<1>1. IsWellFoundedOn(R, Nat)
    BY NatLessThanWellFounded
<1>2. \A x, y \in Nat : y < x => <<y, x>> \in R
    BY DEF OpToRel
<1>. HIDE DEF R
<1>3. SUFFICES ASSUME B # {} PROVE FALSE
    OBVIOUS
<1>4. PICK x \in B : \A y \in B : ~(<<y, x>> \in R)
    BY <1>1, <1>3, WFMin
<1>5. x \in Nat /\ x # 0 /\ x - 1 \in Nat /\ x - 1 < x
    BY <1>4
<1>6. x - 1 \in A
    BY <1>2, <1>4, <1>5
<1>7. (x - 1) + 1 \in A /\ (x - 1) + 1 = x
    BY <1>5, <1>6
<1>. QED BY <1>4, <1>7

(* Induction over the subsets of a finite set. *)
LEMMA SubsetInduction ==
    ASSUME NEW S, IsFiniteSet(S), NEW A, {} \in A,
           \A T \in SUBSET S : (\A x \in T : T \ {x} \in A) => T \in A
    PROVE  \A T \in SUBSET S : T \in A
<1>. DEFINE N == {n \in Nat : \A T \in SUBSET S : Cardinality(T) <= n => T \in A}
<1>0. \A T \in SUBSET S : IsFiniteSet(T) /\ Cardinality(T) \in Nat
    BY FS_Subset, FS_CardinalityType
<1>1. 0 \in N
    <2>. SUFFICES ASSUME NEW T \in SUBSET S, Cardinality(T) <= 0 PROVE T \in A
        OBVIOUS
    <2>1. Cardinality(T) = 0
        BY <1>0
    <2>. QED BY <1>0, <2>1, FS_EmptySet
<1>2. ASSUME NEW n \in N PROVE n + 1 \in N
    <2>. SUFFICES ASSUME NEW T \in SUBSET S, Cardinality(T) <= n + 1 PROVE T \in A
        OBVIOUS
    <2>1. ASSUME NEW x \in T PROVE T \ {x} \in A
        <3>1. Cardinality(T \ {x}) = Cardinality(T) - 1
            BY <1>0, FS_RemoveElement
        <3>2. Cardinality(T \ {x}) <= n /\ T \ {x} \in SUBSET S
            BY <1>0, <3>1
        <3>. QED BY <3>2
    <2>. QED BY <2>1
<1>3. N = Nat
    <2>. HIDE DEF N
    <2>1. N \in SUBSET Nat
        BY DEF N
    <2>. QED BY <1>1, <1>2, <2>1, NatSetInduction
<1>4. SUFFICES ASSUME NEW T \in SUBSET S PROVE T \in A
    OBVIOUS
<1>5. Cardinality(T) \in N
    BY <1>0, <1>3
<1>. QED BY <1>0, <1>5

------------------------------------------------------------------------------
(* Some(s) is the element the fold takes first. *)
Some(s) == CHOOSE x \in s : TRUE

(* g sums f over the sets of D, one element at a time. *)
Sums(g, f, D) ==
    g = [s \in D |-> IF s = {} THEN 0 ELSE f[Some(s)] + g[s \ {Some(s)}]]

(* Such a function exists. *)
LEMMA SumsExist ==
    ASSUME NEW S, IsFiniteSet(S), NEW f
    PROVE  \E g : Sums(g, f, SUBSET S)
<1>. DEFINE D(n) == {s \in SUBSET S : Cardinality(s) <= n}
            N == {n \in Nat : \E g : Sums(g, f, D(n))}
<1>0. \A s \in SUBSET S : IsFiniteSet(s) /\ Cardinality(s) \in Nat /\ Cardinality(s) <= Cardinality(S)
    BY FS_Subset, FS_CardinalityType
<1>0a. \A s \in SUBSET S : s # {} =>
         /\ Some(s) \in s
         /\ s \ {Some(s)} \in SUBSET S
         /\ Cardinality(s \ {Some(s)}) = Cardinality(s) - 1
    <2>. SUFFICES ASSUME NEW s \in SUBSET S, s # {}
                  PROVE  Some(s) \in s /\ Cardinality(s \ {Some(s)}) = Cardinality(s) - 1
        OBVIOUS
    <2>1. Some(s) \in s
        BY DEF Some
    <2>. QED BY <1>0, <2>1, FS_RemoveElement
<1>1. 0 \in N
    <2>. DEFINE g == [s \in D(0) |-> 0]
    <2>1. \A s \in D(0) : s = {}
        BY <1>0, FS_EmptySet
    <2>2. g = [s \in D(0) |-> IF s = {} THEN 0 ELSE f[Some(s)] + g[s \ {Some(s)}]]
        BY <2>1
    <2>3. Sums(g, f, D(0))
        BY <2>2 DEF Sums
    <2>. QED BY <2>3
<1>2. ASSUME NEW n \in N PROVE n + 1 \in N
    <2>1. PICK g : Sums(g, f, D(n))
        OBVIOUS
    <2>. DEFINE h == [s \in D(n + 1) |-> IF s = {} THEN 0 ELSE f[Some(s)] + g[s \ {Some(s)}]]
    <2>2. \A s \in D(n) : s \in D(n + 1) /\ h[s] = g[s]
        <3>1. \A s \in D(n) : s \in D(n + 1)
            BY <1>0
        <3>2. \A s \in D(n) : g[s] = IF s = {} THEN 0 ELSE f[Some(s)] + g[s \ {Some(s)}]
            BY <2>1 DEF Sums
        <3>. QED BY <3>1, <3>2
    <2>3. \A s \in D(n + 1) : s # {} => s \ {Some(s)} \in D(n)
        BY <1>0, <1>0a
    <2>4. \A s \in D(n + 1) : h[s] = IF s = {} THEN 0 ELSE f[Some(s)] + h[s \ {Some(s)}]
        BY <2>2, <2>3
    <2>5. h = [s \in D(n + 1) |-> h[s]]
        OBVIOUS
    <2>. HIDE DEF h
    <2>6. Sums(h, f, D(n + 1))
        BY <2>4, <2>5 DEF Sums
    <2>7. \E k : Sums(k, f, D(n + 1))
        BY <2>6
    <2>8. n + 1 \in Nat
        OBVIOUS
    <2>. QED BY <2>7, <2>8
<1>3. N = Nat
    <2>. HIDE DEF N
    <2>1. N \in SUBSET Nat
        BY DEF N
    <2>. QED BY <1>1, <1>2, <2>1, NatSetInduction
<1>4. Cardinality(S) \in Nat /\ D(Cardinality(S)) = SUBSET S
    BY <1>0, FS_CardinalityType
<1>5. Cardinality(S) \in N
    BY <1>3, <1>4
<1>. QED BY <1>4, <1>5

(* What Sums says of one set. *)
LEMMA SumsOf ==
    ASSUME NEW S, NEW f, NEW g, Sums(g, f, SUBSET S), NEW T \in SUBSET S
    PROVE  /\ T = {} => g[T] = 0
           /\ T # {} => Some(T) \in T /\ g[T] = f[Some(T)] + g[T \ {Some(T)}]
<1>1. g[T] = IF T = {} THEN 0 ELSE f[Some(T)] + g[T \ {Some(T)}]
    BY DEF Sums
<1>2. T # {} => Some(T) \in T
    BY DEF Some
<1>. QED BY <1>1, <1>2

(* The empty sum. *)
LEMMA SumsEmpty ==
    ASSUME NEW S, NEW f, NEW g, Sums(g, f, SUBSET S)
    PROVE  {} \in SUBSET S /\ g[{}] = 0
<1>1. {} \in SUBSET S
    OBVIOUS
<1>. QED BY <1>1 DEF Sums

(* The library's fold is such a sum. *)
LEMMA FoldIsSum ==
    ASSUME NEW S, IsFiniteSet(S), NEW f
    PROVE  \E g : Sums(g, f, SUBSET S) /\ SumFunctionOnSet(f, S) = g[S]
<1>. DEFINE G == CHOOSE g : Sums(g, f, SUBSET S)
<1>1. Sums(G, f, SUBSET S)
    BY SumsExist
<1>2. SumFunctionOnSet(f, S) = G[S]
    BY DEF SumFunctionOnSet, FoldFunctionOnSet, MapThenFoldSet, Sums, Some
<1>. QED BY <1>1, <1>2

(* A sum is an integer. *)
LEMMA SumsType ==
    ASSUME NEW S, IsFiniteSet(S), NEW f, \A x \in S : f[x] \in Int,
           NEW g, Sums(g, f, SUBSET S)
    PROVE  \A T \in SUBSET S : g[T] \in Int
<1>. DEFINE A == {T \in SUBSET S : g[T] \in Int}
<1>1. {} \in A
    BY SumsEmpty
<1>2. ASSUME NEW T \in SUBSET S, \A x \in T : T \ {x} \in A PROVE T \in A
    <2>1. CASE T = {}
        BY <1>1, <2>1
    <2>2. CASE T # {}
        <3>1. Some(T) \in T /\ g[T] = f[Some(T)] + g[T \ {Some(T)}]
            BY <2>2, SumsOf
        <3>2. f[Some(T)] \in Int /\ g[T \ {Some(T)}] \in Int
            BY <1>2, <3>1
        <3>. QED BY <3>1, <3>2
    <2>. QED BY <2>1, <2>2
<1>. HIDE DEF A
<1>3. \A T \in SUBSET S : T \in A
    BY <1>1, <1>2, SubsetInduction
<1>. QED BY <1>3 DEF A

(* Any element may be taken first. *)
LEMMA SumsTake ==
    ASSUME NEW S, IsFiniteSet(S), NEW f, \A x \in S : f[x] \in Int,
           NEW g, Sums(g, f, SUBSET S)
    PROVE  \A T \in SUBSET S : \A x \in T : g[T] = f[x] + g[T \ {x}]
<1>. DEFINE A == {T \in SUBSET S : \A x \in T : g[T] = f[x] + g[T \ {x}]}
<1>1. {} \in A
    OBVIOUS
<1>2. ASSUME NEW T \in SUBSET S, \A x \in T : T \ {x} \in A PROVE T \in A
    <2>. SUFFICES ASSUME NEW x \in T PROVE g[T] = f[x] + g[T \ {x}]
        OBVIOUS
    <2>. DEFINE c == Some(T)
    <2>1. c \in T /\ g[T] = f[c] + g[T \ {c}]
        BY SumsOf
    <2>. HIDE DEF c
    <2>2. CASE x = c
        BY <2>1, <2>2
    <2>3. CASE x # c
        <3>. DEFINE U == (T \ {c}) \ {x}
        <3>1. U \in SUBSET S /\ U = (T \ {x}) \ {c}
            OBVIOUS
        <3>. HIDE DEF U
        <3>2. g[T \ {c}] = f[x] + g[U]
            BY <1>2, <2>1, <2>3 DEF U
        <3>3. g[T \ {x}] = f[c] + g[U]
            BY <1>2, <2>1, <2>3, <3>1
        <3>4. f[x] \in Int /\ f[c] \in Int /\ g[U] \in Int
            BY <2>1, <3>1, SumsType
        <3>. QED BY <2>1, <3>2, <3>3, <3>4
    <2>. QED BY <2>2, <2>3
<1>. HIDE DEF A
<1>3. \A T \in SUBSET S : T \in A
    BY <1>1, <1>2, SubsetInduction
<1>. QED BY <1>3 DEF A

(* Only the values on the set matter. *)
LEMMA SumsAgree ==
    ASSUME NEW S, IsFiniteSet(S), NEW f, NEW h, NEW g, NEW k,
           Sums(g, f, SUBSET S), Sums(k, h, SUBSET S)
    PROVE  \A T \in SUBSET S : (\A x \in T : f[x] = h[x]) => g[T] = k[T]
<1>. DEFINE A == {T \in SUBSET S : (\A x \in T : f[x] = h[x]) => g[T] = k[T]}
<1>0. {} \in SUBSET S /\ g[{}] = 0 /\ k[{}] = 0
    BY SumsEmpty
<1>1. {} \in A
    BY <1>0
<1>2. ASSUME NEW T \in SUBSET S, \A x \in T : T \ {x} \in A PROVE T \in A
    <2>. SUFFICES ASSUME T # {}, \A x \in T : f[x] = h[x] PROVE g[T] = k[T]
        BY <1>1
    <2>1. Some(T) \in T /\ g[T] = f[Some(T)] + g[T \ {Some(T)}]
                       /\ k[T] = h[Some(T)] + k[T \ {Some(T)}]
        BY SumsOf
    <2>2. g[T \ {Some(T)}] = k[T \ {Some(T)}]
        BY <1>2, <2>1
    <2>. QED BY <2>1, <2>2
<1>. HIDE DEF A
<1>3. \A T \in SUBSET S : T \in A
    BY <1>1, <1>2, SubsetInduction
<1>. QED BY <1>3 DEF A

------------------------------------------------------------------------------
(* The sum of integers is an integer. *)
LEMMA SumType ==
    ASSUME NEW S, IsFiniteSet(S), NEW f, \A x \in S : f[x] \in Int
    PROVE  SumFunctionOnSet(f, S) \in Int
<1>1. PICK g : Sums(g, f, SUBSET S) /\ SumFunctionOnSet(f, S) = g[S]
    BY FoldIsSum
<1>. QED BY <1>1, SumsType

(* Functions that agree on a set have the same sum over it. *)
LEMMA SumSame ==
    ASSUME NEW S, IsFiniteSet(S), NEW f, NEW h, \A x \in S : f[x] = h[x]
    PROVE  SumFunctionOnSet(f, S) = SumFunctionOnSet(h, S)
<1>1. PICK g : Sums(g, f, SUBSET S) /\ SumFunctionOnSet(f, S) = g[S]
    BY FoldIsSum
<1>2. PICK k : Sums(k, h, SUBSET S) /\ SumFunctionOnSet(h, S) = k[S]
    BY FoldIsSum
<1>. QED BY <1>1, <1>2, SumsAgree

(* Changing one value changes the sum by as much, whatever order the fold  *)
(* takes the elements in.                                                  *)
THEOREM SumChange ==
    ASSUME NEW S, IsFiniteSet(S), NEW f, NEW h, NEW a \in S, NEW d \in Int,
           \A x \in S : f[x] \in Int,
           h[a] = f[a] + d, \A x \in S \ {a} : h[x] = f[x]
    PROVE  SumFunctionOnSet(h, S) = SumFunctionOnSet(f, S) + d
<1>1. PICK g : Sums(g, f, SUBSET S) /\ SumFunctionOnSet(f, S) = g[S]
    BY FoldIsSum
<1>2. PICK k : Sums(k, h, SUBSET S) /\ SumFunctionOnSet(h, S) = k[S]
    BY FoldIsSum
<1>3. \A x \in S : h[x] \in Int
    OBVIOUS
<1>. DEFINE R == S \ {a}
<1>4. R \in SUBSET S /\ S \in SUBSET S
    OBVIOUS
<1>5. g[S] = f[a] + g[R] /\ k[S] = h[a] + k[R]
    BY <1>1, <1>2, <1>3, <1>4, SumsTake
<1>6. g[R] = k[R]
    BY <1>1, <1>2, <1>4, SumsAgree
<1>7. g[R] \in Int
    BY <1>1, <1>4, SumsType
<1>. HIDE DEF R
<1>8. f[a] \in Int
    OBVIOUS
<1>. QED BY <1>1, <1>2, <1>5, <1>6, <1>7, <1>8

(* A function that is n on A and 0 elsewhere sums to n for each of A. *)
THEOREM SumIndicator ==
    ASSUME NEW S, IsFiniteSet(S), NEW n \in Nat, NEW A \in SUBSET S, NEW f,
           \A x \in S : f[x] = IF x \in A THEN n ELSE 0
    PROVE  SumFunctionOnSet(f, S) = n * Cardinality(A)
<1>1. PICK g : Sums(g, f, SUBSET S) /\ SumFunctionOnSet(f, S) = g[S]
    BY FoldIsSum
<1>. DEFINE B == {T \in SUBSET S : g[T] = n * Cardinality(T \cap A)}
<1>2. {} \in B
    <2>1. {} \cap A = {} /\ Cardinality({}) = 0 /\ {} \in SUBSET S
        BY FS_EmptySet
    <2>2. g[{}] = 0
        BY <1>1, SumsEmpty
    <2>3. n * 0 = 0
        OBVIOUS
    <2>. QED BY <2>1, <2>2, <2>3
<1>3. ASSUME NEW T \in SUBSET S, \A x \in T : T \ {x} \in B PROVE T \in B
    <2>1. CASE T = {}
        BY <1>2, <2>1
    <2>2. CASE T # {}
        <3>. DEFINE c == Some(T)
                    P == T \ {c}
                    Q == T \cap A
                    m == Cardinality(Q)
        <3>1. c \in T /\ g[T] = f[c] + g[P]
            BY <1>1, <2>2, SumsOf
        <3>2. g[P] = n * Cardinality(P \cap A)
            BY <1>3, <3>1
        <3>3. IsFiniteSet(Q) /\ m \in Nat
            <4>1. Q \in SUBSET S
                OBVIOUS
            <4>2. IsFiniteSet(Q)
                BY <4>1, FS_Subset
            <4>. QED BY <4>2, FS_CardinalityType
        <3>. HIDE DEF c
        <3>4. CASE c \in A
            <4>1. P \cap A = Q \ {c} /\ c \in Q
                BY <3>1, <3>4
            <4>. HIDE DEF P, Q
            <4>2. Cardinality(Q \ {c}) = m - 1
                BY <3>3, <4>1, FS_RemoveElement
            <4>3. f[c] = n
                BY <3>1, <3>4
            <4>. HIDE DEF m
            <4>4. n + n * (m - 1) = n * m
                BY <3>3
            <4>5. g[T] = n + n * (m - 1)
                BY <3>1, <3>2, <4>1, <4>2, <4>3
            <4>. QED BY <4>4, <4>5 DEF m, Q
        <3>5. CASE c \notin A
            <4>1. P \cap A = Q
                BY <3>5
            <4>2. f[c] = 0
                BY <3>1, <3>5
            <4>. HIDE DEF P, Q
            <4>3. g[P] = n * m
                BY <3>2, <4>1
            <4>. HIDE DEF m
            <4>4. g[T] = n * m
                BY <3>1, <3>3, <4>2, <4>3
            <4>. QED BY <4>4 DEF m, Q
        <3>. QED BY <3>4, <3>5
    <2>. QED BY <2>1, <2>2
<1>. HIDE DEF B
<1>4. \A T \in SUBSET S : T \in B
    BY <1>2, <1>3, SubsetInduction
<1>5. S \cap A = A /\ S \in B
    BY <1>4
<1>. QED BY <1>1, <1>5 DEF B

------------------------------------------------------------------------------
(* Members in order, and filtered lists.                                   *)


LEMMA UpToFinite == ASSUME NEW n \in Nat PROVE IsFiniteSet(1..n) /\ Cardinality(1..n) = n
<1>1. 1 \in Int /\ n \in Int
    OBVIOUS
<1>. QED BY <1>1, FS_Interval

(* before[x]: those that precede x in a strict order of S. *)
Precedence(S, before) ==
    /\ before \in [S -> SUBSET S]
    /\ \A x \in S : x \notin before[x]
    /\ \A x, y \in S : x # y => \/ x \in before[y] /\ before[x] \subseteq before[y]
                                \/ y \in before[x] /\ before[y] \subseteq before[x]

(* Each place from 0 on is somebody's. *)
Ranked(S, before) ==
    /\ Cardinality(S) \in Nat
    /\ \A x \in S : Cardinality(before[x]) \in 0..(Cardinality(S) - 1)
    /\ \A x, y \in S : x \in before[y] => Cardinality(before[x]) < Cardinality(before[y])
    /\ \A i \in 0..(Cardinality(S) - 1) : \E x \in S : Cardinality(before[x]) = i
    /\ \A x, y \in S : Cardinality(before[x]) = Cardinality(before[y]) => x = y

(* Of finitely many things in a strict order, each has a place of its own  *)
(* and each place is taken.                                                *)
LEMMA RanksReached ==
    ASSUME NEW S, IsFiniteSet(S), NEW before, Precedence(S, before)
    PROVE  Ranked(S, before)
<1>0. /\ before \in [S -> SUBSET S]
      /\ \A x \in S : x \notin before[x]
      /\ \A x, y \in S : x # y => \/ x \in before[y] /\ before[x] \subseteq before[y]
                                  \/ y \in before[x] /\ before[y] \subseteq before[x]
    BY DEF Precedence
<1>. DEFINE n == Cardinality(S)
            rank == [x \in S |-> Cardinality(before[x]) + 1]
<1>1. n \in Nat
    BY FS_CardinalityType
<1>2. ASSUME NEW x \in S
      PROVE  IsFiniteSet(before[x]) /\ Cardinality(before[x]) \in Nat /\ Cardinality(before[x]) < n
    <2>1. before[x] \in SUBSET (S \ {x}) /\ IsFiniteSet(S \ {x}) /\ Cardinality(S \ {x}) = n - 1
        BY <1>0, FS_RemoveElement
    <2>. HIDE DEF n
    <2>2. IsFiniteSet(before[x]) /\ Cardinality(before[x]) <= Cardinality(S \ {x})
        BY <2>1, FS_Subset
    <2>3. Cardinality(before[x]) \in Nat
        BY <2>2, FS_CardinalityType
    <2>. QED BY <1>1, <2>1, <2>2, <2>3
<1>3. ASSUME NEW x \in S, NEW y \in S, x \in before[y]
      PROVE  Cardinality(before[x]) < Cardinality(before[y])
    <2>1. before[x] \in SUBSET before[y] /\ before[x] # before[y]
        BY <1>0, <1>3
    <2>2. Cardinality(before[x]) <= Cardinality(before[y]) /\ Cardinality(before[x]) # Cardinality(before[y])
        BY <1>2, <2>1, FS_Subset
    <2>3. Cardinality(before[x]) \in Nat /\ Cardinality(before[y]) \in Nat
        BY <1>2
    <2>. QED BY <2>2, <2>3
<1>4. ASSUME NEW x \in S, NEW y \in S, Cardinality(before[x]) = Cardinality(before[y]) PROVE x = y
    <2>1. Cardinality(before[x]) \in Nat /\ Cardinality(before[y]) \in Nat
        BY <1>2
    <2>2. x \notin before[y] /\ y \notin before[x]
        BY <1>3, <1>4, <2>1
    <2>. QED BY <1>0, <2>2
<1>5. rank \in [S -> 1..n]
    <2>. HIDE DEF n
    <2>. QED BY <1>1, <1>2
<1>6. ASSUME NEW x \in S, NEW y \in S, rank[x] = rank[y] PROVE x = y
    <2>1. rank[x] = Cardinality(before[x]) + 1 /\ rank[y] = Cardinality(before[y]) + 1
        OBVIOUS
    <2>2. Cardinality(before[x]) \in Nat /\ Cardinality(before[y]) \in Nat
        BY <1>2
    <2>3. \A a, b \in Nat : a + 1 = b + 1 => a = b
        OBVIOUS
    <2>. HIDE DEF rank
    <2>4. Cardinality(before[x]) = Cardinality(before[y])
        BY <1>6, <2>1, <2>2, <2>3
    <2>. QED BY <1>4, <2>4
<1>7. rank \in Surjection(S, 1..n)
    <2>1. IsFiniteSet(1..n) /\ Cardinality(1..n) = n
        BY <1>1, UpToFinite
    <2>. HIDE DEF rank
    <2>2. rank \in Injection(S, 1..n)
        BY <1>5, <1>6 DEF Injection, IsInjective
    <2>. QED BY <2>1, <2>2, FS_Injection
<1>8. ASSUME NEW i \in 0..(n - 1) PROVE \E x \in S : Cardinality(before[x]) = i
    <2>1. i + 1 \in 1..n
        BY <1>1
    <2>2. PICK x \in S : rank[x] = i + 1
        BY <1>7, <2>1 DEF Surjection
    <2>3. rank[x] = Cardinality(before[x]) + 1 /\ Cardinality(before[x]) \in Nat
        BY <1>2
    <2>. HIDE DEF rank, n
    <2>4. Cardinality(before[x]) = i
        BY <1>1, <2>2, <2>3
    <2>. QED BY <2>4
<1>9. \A x \in S : Cardinality(before[x]) \in 0..(n - 1)
    BY <1>1, <1>2
<1>. QED BY <1>1, <1>3, <1>4, <1>8, <1>9 DEF Ranked

(* The place of a member of a set of naturals in its list is the number of *)
(* members below it.                                                       *)
LEMMA InOrderRanks ==
    ASSUME NEW S \in SUBSET Nat, IsFiniteSet(S)
    PROVE  /\ \A i \in 1..Cardinality(S) :
                InOrder(S)[i] \in S /\ Cardinality({y \in S : y < InOrder(S)[i]}) = i - 1
           /\ \A x \in S : \A i \in 1..Cardinality(S) :
                Cardinality({y \in S : y < x}) = i - 1 => InOrder(S)[i] = x
           /\ InOrder(S) \in Seq(S) /\ Len(InOrder(S)) = Cardinality(S)
           /\ Cardinality(S) \in Nat /\ DOMAIN InOrder(S) = 1..Cardinality(S)
           /\ \A x \in S : \E i \in 1..Cardinality(S) : InOrder(S)[i] = x
           /\ \A i, j \in 1..Cardinality(S) : i < j => InOrder(S)[i] < InOrder(S)[j]
<1>. DEFINE n == Cardinality(S)
            before == [x \in S |-> {y \in S : y < x}]
            s == InOrder(S)
<1>1. \A x, y \in S : x \in Nat /\ y \in Nat /\ (x # y => x < y \/ y < x) /\ ~(x < x)
    OBVIOUS
<1>2. \A x, y, z \in S : x < y /\ y < z => x < z
    OBVIOUS
<1>3. \A x \in S : before[x] = {y \in S : y < x}
    OBVIOUS
<1>4. /\ n \in Nat
      /\ \A x \in S : Cardinality(before[x]) \in 0..(n - 1)
      /\ \A x, y \in S : x \in before[y] => Cardinality(before[x]) < Cardinality(before[y])
      /\ \A i \in 0..(n - 1) : \E x \in S : Cardinality(before[x]) = i
      /\ \A x, y \in S : Cardinality(before[x]) = Cardinality(before[y]) => x = y
    <2>1. before \in [S -> SUBSET S] /\ \A x \in S : x \notin before[x]
        BY <1>1
    <2>2. \A x, y \in S : x # y => \/ x \in before[y] /\ before[x] \subseteq before[y]
                                   \/ y \in before[x] /\ before[y] \subseteq before[x]
        BY <1>1, <1>2, <1>3
    <2>. HIDE DEF before
    <2>3. Precedence(S, before)
        BY <2>1, <2>2 DEF Precedence
    <2>4. Ranked(S, before)
        BY <2>3, RanksReached
    <2>. QED BY <2>4 DEF Ranked
<1>5. ASSUME NEW i \in 1..n PROVE Nth(S, i) \in S /\ Cardinality(before[Nth(S, i)]) = i - 1
    <2>1. i - 1 \in 0..(n - 1)
        BY <1>4
    <2>2. PICK x \in S : Cardinality(before[x]) = i - 1
        BY <1>4, <2>1
    <2>3. Cardinality({y \in S : y < x}) = i - 1
        BY <1>3, <2>2
    <2>4. Nth(S, i) \in S /\ Cardinality({y \in S : y < Nth(S, i)}) = i - 1
        BY <2>3 DEF Nth
    <2>. QED BY <1>3, <2>4
<1>6. s = [i \in 1..n |-> Nth(S, i)]
    BY DEF InOrder
<1>7. s \in [1..n -> S]
    BY <1>5, <1>6
<1>. HIDE DEF s, n, before
<1>8. s \in Seq(S) /\ Len(s) = n /\ DOMAIN s = 1..n
    BY <1>4, <1>7
<1>9. \A i \in 1..n : s[i] \in S /\ Cardinality(before[s[i]]) = i - 1
    BY <1>5, <1>6
<1>10. ASSUME NEW x \in S PROVE \E i \in 1..n : s[i] = x
    <2>. DEFINE i == Cardinality(before[x]) + 1
    <2>1. i \in 1..n /\ i - 1 = Cardinality(before[x])
        BY <1>4
    <2>. HIDE DEF i
    <2>2. s[i] \in S /\ Cardinality(before[s[i]]) = Cardinality(before[x])
        BY <1>9, <2>1
    <2>3. s[i] = x
        BY <1>4, <2>2
    <2>. QED BY <2>1, <2>3
<1>11. ASSUME NEW i \in 1..n, NEW j \in 1..n, i < j PROVE s[i] < s[j]
    <2>1. s[i] \in S /\ s[j] \in S /\ Cardinality(before[s[i]]) = i - 1 /\ Cardinality(before[s[j]]) = j - 1
        BY <1>9
    <2>1a. i \in Int /\ j \in Int
        BY <1>4
    <2>1b. ~(Cardinality(before[s[j]]) < Cardinality(before[s[i]])) /\ s[i] # s[j]
        BY <1>11, <2>1, <2>1a
    <2>2. s[j] \notin before[s[i]] /\ s[i] # s[j]
        BY <1>4, <2>1, <2>1b
    <2>3. ~(s[j] < s[i])
        BY <1>3, <2>1, <2>2
    <2>. QED BY <1>1, <2>1, <2>2, <2>3
<1>12. \A i \in 1..n : s[i] \in S /\ Cardinality({y \in S : y < s[i]}) = i - 1
    BY <1>3, <1>9
<1>13. ASSUME NEW x \in S, NEW i \in 1..n, Cardinality({y \in S : y < x}) = i - 1 PROVE s[i] = x
    <2>1. Cardinality(before[x]) = i - 1 /\ s[i] \in S /\ Cardinality(before[s[i]]) = i - 1
        BY <1>3, <1>9, <1>13
    <2>2. Cardinality(before[x]) = Cardinality(before[s[i]])
        BY <2>1
    <2>. QED BY <1>4, <2>1, <2>2
<1>. QED BY <1>4, <1>8, <1>10, <1>11, <1>12, <1>13 DEF s, n

(* InOrder lists each member of a finite set of naturals once, smallest    *)
(* first.                                                                  *)
THEOREM InOrderLists ==
    ASSUME NEW S \in SUBSET Nat, IsFiniteSet(S)
    PROVE  /\ InOrder(S) \in Seq(S) /\ Len(InOrder(S)) = Cardinality(S)
           /\ Cardinality(S) \in Nat /\ DOMAIN InOrder(S) = 1..Cardinality(S)
           /\ \A x \in S : \E i \in 1..Cardinality(S) : InOrder(S)[i] = x
           /\ \A i, j \in 1..Cardinality(S) : i < j => InOrder(S)[i] < InOrder(S)[j]
BY InOrderRanks

(* Kept(s, P) holds the s[i] with i in P, in the order of s. *)
THEOREM KeptLists ==
    ASSUME NEW T, NEW s \in Seq(T), NEW P \in SUBSET (1..Len(s))
    PROVE  /\ Cardinality(P) \in Nat /\ Cardinality(P) <= Len(s)
           /\ Kept(s, P) \in Seq(T) /\ Len(Kept(s, P)) = Cardinality(P)
           /\ InOrder(P) \in [1..Cardinality(P) -> P]
           /\ \A i \in 1..Cardinality(P) : Kept(s, P)[i] = s[InOrder(P)[i]]
           /\ \A i, j \in 1..Cardinality(P) : i < j => InOrder(P)[i] < InOrder(P)[j]
           /\ \A x \in P : \E i \in 1..Cardinality(P) : InOrder(P)[i] = x
<1>. DEFINE p == InOrder(P)
            n == Cardinality(P)
<1>1. IsFiniteSet(1..Len(s)) /\ Cardinality(1..Len(s)) = Len(s)
    <2>1. Len(s) \in Nat
        OBVIOUS
    <2>. QED BY <2>1, UpToFinite
<1>2. P \in SUBSET Nat /\ IsFiniteSet(P) /\ n <= Len(s)
    <2>1. IsFiniteSet(P) /\ Cardinality(P) <= Cardinality(1..Len(s))
        BY <1>1, FS_Subset
    <2>2. P \in SUBSET Nat
        OBVIOUS
    <2>. QED BY <1>1, <2>1, <2>2
<1>3. /\ p \in Seq(P) /\ Len(p) = n /\ n \in Nat /\ DOMAIN p = 1..n
      /\ \A x \in P : \E i \in 1..n : p[i] = x
      /\ \A i, j \in 1..n : i < j => p[i] < p[j]
    BY <1>2, InOrderLists
<1>4. \A i \in 1..n : Kept(s, P)[i] = s[p[i]]
    BY DEF Kept, InOrder
<1>. HIDE DEF p, n
<1>5. p \in [1..n -> P]
    BY <1>3
<1>6. \A i \in 1..n : s[p[i]] \in T
    <2>1. \A x \in 1..Len(s) : s[x] \in T
        OBVIOUS
    <2>2. \A i \in 1..n : p[i] \in 1..Len(s)
        BY <1>5
    <2>. QED BY <2>1, <2>2
<1>7. Kept(s, P) \in [1..n -> T]
    BY <1>4, <1>6 DEF Kept, n
<1>8. Kept(s, P) \in Seq(T) /\ Len(Kept(s, P)) = n
    BY <1>3, <1>7
<1>. QED BY <1>2, <1>3, <1>4, <1>5, <1>8 DEF n, p

(* Filtering a list at two sets of positions, one behind the other. *)
LEMMA KeptJoined ==
    ASSUME NEW T, NEW s \in Seq(T), NEW A \in SUBSET (1..Len(s)), NEW B \in SUBSET (1..Len(s)),
           \A x \in A, y \in B : x < y
    PROVE  Kept(s, A \cup B) = Kept(s, A) \o Kept(s, B)
<1>. DEFINE C == A \cup B
            k == Cardinality(A)
            m == Cardinality(B)
<1>1. Len(s) \in Nat /\ IsFiniteSet(1..Len(s))
    <2>1. Len(s) \in Nat
        OBVIOUS
    <2>. QED BY <2>1, UpToFinite
<1>2. A \in SUBSET Nat /\ B \in SUBSET Nat /\ C \in SUBSET Nat /\ C \in SUBSET (1..Len(s))
    OBVIOUS
<1>3. IsFiniteSet(A) /\ IsFiniteSet(B) /\ IsFiniteSet(C) /\ k \in Nat /\ m \in Nat
    <2>1. IsFiniteSet(A) /\ IsFiniteSet(B) /\ IsFiniteSet(C)
        BY <1>1, <1>2, FS_Subset
    <2>. QED BY <2>1, FS_CardinalityType
<1>4. A \cap B = {}
    BY <1>2
<1>5. ASSUME NEW D \in SUBSET B PROVE Cardinality(A \cup D) = k + Cardinality(D)
    <2>1. IsFiniteSet(D) /\ A \cap D = {}
        BY <1>3, <1>4, FS_Subset
    <2>2. Cardinality(A \cup D) = Cardinality(A) + Cardinality(D) - Cardinality(A \cap D)
        BY <1>3, <2>1, FS_Union
    <2>3. Cardinality(A \cap D) = 0
        BY <2>1, FS_EmptySet
    <2>4. Cardinality(D) \in Nat
        BY <2>1, FS_CardinalityType
    <2>. QED BY <1>3, <2>2, <2>3, <2>4
<1>6. Cardinality(C) = k + m
    BY <1>5
<1>7. ASSUME NEW i \in 1..k PROVE InOrder(C)[i] = InOrder(A)[i]
    <2>. DEFINE x == InOrder(A)[i]
    <2>1. x \in A /\ Cardinality({y \in A : y < x}) = i - 1
        BY <1>2, <1>3, InOrderRanks
    <2>. HIDE DEF x
    <2>2. {y \in C : y < x} = {y \in A : y < x}
        <3>1. \A y \in B : ~(y < x)
            BY <1>2, <2>1
        <3>. QED BY <3>1
    <2>3. Cardinality({y \in C : y < x}) = i - 1 /\ i \in 1..Cardinality(C) /\ x \in C
        <3>1. i \in 1..Cardinality(C)
            <4>. HIDE DEF C, k, m
            <4>. QED BY <1>3, <1>6
        <3>2. Cardinality({y \in C : y < x}) = i - 1
            <4>. HIDE DEF C, k, m
            <4>. QED BY <2>1, <2>2, Zenon
        <3>. QED BY <2>1, <3>1, <3>2
    <2>. HIDE DEF C
    <2>4. InOrder(C)[i] = x
        BY <1>2, <1>3, <2>3, InOrderRanks
    <2>. QED BY <2>4 DEF x
<1>8. ASSUME NEW i \in 1..m PROVE InOrder(C)[k + i] = InOrder(B)[i]
    <2>. DEFINE x == InOrder(B)[i]
                D == {y \in B : y < x}
    <2>1. x \in B /\ Cardinality(D) = i - 1
        BY <1>2, <1>3, InOrderRanks
    <2>. HIDE DEF x
    <2>2. {y \in C : y < x} = A \cup D
        BY <1>2, <2>1
    <2>2a. D \in SUBSET B
        OBVIOUS
    <2>. HIDE DEF D
    <2>2b. Cardinality(A \cup D) = k + (i - 1)
        BY <1>5, <2>1, <2>2a
    <2>3. Cardinality({y \in C : y < x}) = (k + i) - 1 /\ k + i \in 1..Cardinality(C) /\ x \in C
        <3>1. k + i \in 1..Cardinality(C) /\ k + (i - 1) = (k + i) - 1
            <4>. HIDE DEF C, k, m
            <4>. QED BY <1>3, <1>6
        <3>2. Cardinality({y \in C : y < x}) = (k + i) - 1
            <4>. HIDE DEF C, k, m
            <4>. QED BY <2>2, <2>2b, <3>1, Zenon
        <3>. QED BY <2>1, <3>1, <3>2
    <2>. HIDE DEF C
    <2>4. InOrder(C)[k + i] = x
        BY <1>2, <1>3, <2>3, InOrderRanks
    <2>. QED BY <2>4 DEF x
<1>9. /\ Kept(s, C) \in Seq(T) /\ Len(Kept(s, C)) = k + m
      /\ \A i \in 1..(k + m) : Kept(s, C)[i] = s[InOrder(C)[i]]
    <2>. HIDE DEF C, k, m
    <2>. QED BY <1>2, <1>6, KeptLists
<1>10. /\ Kept(s, A) \in Seq(T) /\ Len(Kept(s, A)) = k /\ \A i \in 1..k : Kept(s, A)[i] = s[InOrder(A)[i]]
       /\ Kept(s, B) \in Seq(T) /\ Len(Kept(s, B)) = m /\ \A i \in 1..m : Kept(s, B)[i] = s[InOrder(B)[i]]
    BY KeptLists
<1>. HIDE DEF C, k, m
<1>11. PICK a, b, c : a = Kept(s, A) /\ b = Kept(s, B) /\ c = Kept(s, C)
    OBVIOUS
<1>12. /\ a \in Seq(T) /\ b \in Seq(T) /\ c \in Seq(T) /\ Len(a) = k /\ Len(b) = m /\ Len(c) = k + m
       /\ \A i \in 1..k : c[i] = a[i]
       /\ \A i \in 1..m : c[k + i] = b[i]
    <2>1. \A i \in 1..k : i \in 1..(k + m)
        BY <1>3
    <2>2. \A i \in 1..m : k + i \in 1..(k + m)
        BY <1>3
    <2>3. \A i \in 1..k : c[i] = a[i]
        BY <1>7, <1>9, <1>10, <1>11, <2>1
    <2>4. \A i \in 1..m : c[k + i] = b[i]
        BY <1>8, <1>9, <1>10, <1>11, <2>2
    <2>. QED BY <1>9, <1>10, <1>11, <2>3, <2>4
<1>13. c = a \o b
    <2>1. a \o b \in Seq(T) /\ Len(a \o b) = k + m
          /\ \A i \in 1..(k + m) : (a \o b)[i] = IF i <= k THEN a[i] ELSE b[i - k]
        BY <1>3, <1>12
    <2>2. ASSUME NEW i \in 1..(k + m) PROVE c[i] = (a \o b)[i]
        <3>1. CASE i <= k
            <4>1. i \in 1..k
                BY <1>3, <3>1
            <4>. QED BY <1>12, <2>1, <3>1, <4>1
        <3>2. CASE ~(i <= k)
            <4>1. i - k \in 1..m /\ k + (i - k) = i
                BY <1>3, <3>2
            <4>2. c[k + (i - k)] = b[i - k]
                BY <1>12, <4>1
            <4>. QED BY <2>1, <3>2, <4>1, <4>2
        <3>. QED BY <3>1, <3>2
    <2>3. k + m \in Nat
        BY <1>3
    <2>4. c = [i \in 1..(k + m) |-> c[i]] /\ a \o b = [i \in 1..(k + m) |-> (a \o b)[i]]
        <3>1. \A q \in Seq(T) : q = [i \in 1..Len(q) |-> q[i]]
            OBVIOUS
        <3>2. a \o b \in Seq(T) /\ Len(a \o b) = k + m
            BY <2>1
        <3>3. PICK d : d = a \o b
            OBVIOUS
        <3>4. d = [i \in 1..(k + m) |-> d[i]]
            BY <3>1, <3>2, <3>3, Zenon
        <3>5. c = [i \in 1..(k + m) |-> c[i]]
            BY <1>12, <3>1
        <3>. QED BY <3>3, <3>4, <3>5, Zenon
    <2>5. [i \in 1..(k + m) |-> c[i]] = [i \in 1..(k + m) |-> (a \o b)[i]]
        BY <2>2, Zenon
    <2>. QED BY <2>4, <2>5, Zenon
<1>. QED BY <1>11, <1>13 DEF C

(* Lists that agree at the positions. *)
LEMMA KeptSame ==
    ASSUME NEW T, NEW s \in Seq(T), NEW t \in Seq(T), NEW P \in SUBSET (1..Len(s)),
           P \subseteq 1..Len(t), \A i \in P : s[i] = t[i]
    PROVE  Kept(s, P) = Kept(t, P)
<1>. DEFINE n == Cardinality(P)
            p == InOrder(P)
<1>1. /\ n \in Nat /\ p \in [1..n -> P]
      /\ Kept(s, P) \in Seq(T) /\ Len(Kept(s, P)) = n /\ \A i \in 1..n : Kept(s, P)[i] = s[p[i]]
      /\ Kept(t, P) \in Seq(T) /\ Len(Kept(t, P)) = n /\ \A i \in 1..n : Kept(t, P)[i] = t[p[i]]
    <2>1. P \in SUBSET (1..Len(t))
        OBVIOUS
    <2>2. /\ n \in Nat /\ p \in [1..n -> P]
          /\ Kept(s, P) \in Seq(T) /\ Len(Kept(s, P)) = n /\ \A i \in 1..n : Kept(s, P)[i] = s[p[i]]
        BY KeptLists
    <2>3. Kept(t, P) \in Seq(T) /\ Len(Kept(t, P)) = n /\ \A i \in 1..n : Kept(t, P)[i] = t[p[i]]
        BY <2>1, KeptLists, Zenon
    <2>. QED BY <2>2, <2>3, Zenon
<1>. HIDE DEF n, p
<1>2. \A i \in 1..n : s[p[i]] = t[p[i]]
    BY <1>1
<1>. QED BY <1>1, <1>2, SeqEqual

(* One more position, behind the others. *)
LEMMA KeptLast ==
    ASSUME NEW T, NEW s \in Seq(T), NEW A \in SUBSET (1..Len(s)), NEW i \in 1..Len(s),
           \A x \in A : x < i
    PROVE  Kept(s, A \cup {i}) = Append(Kept(s, A), s[i])
<1>1. Kept(s, A \cup {i}) = Kept(s, A) \o Kept(s, {i})
    <2>1. {i} \in SUBSET (1..Len(s)) /\ \A x \in A, y \in {i} : x < y
        OBVIOUS
    <2>. QED BY <2>1, KeptJoined
<1>2. Cardinality({i}) = 1
    BY FS_Singleton
<1>3. Kept(s, {i}) = <<s[i]>>
    <2>1. /\ Kept(s, {i}) \in Seq(T) /\ Len(Kept(s, {i})) = 1
          /\ InOrder({i})[1] \in {i} /\ Kept(s, {i})[1] = s[InOrder({i})[1]]
        <3>1. {i} \in SUBSET (1..Len(s))
            OBVIOUS
        <3>2. /\ Kept(s, {i}) \in Seq(T) /\ Len(Kept(s, {i})) = Cardinality({i})
              /\ InOrder({i}) \in [1..Cardinality({i}) -> {i}]
              /\ \A j \in 1..Cardinality({i}) : Kept(s, {i})[j] = s[InOrder({i})[j]]
            BY <3>1, KeptLists
        <3>3. PICK z, q, c : z = Kept(s, {i}) /\ q = InOrder({i}) /\ c = Cardinality({i})
            OBVIOUS
        <3>4. c = 1 /\ z \in Seq(T) /\ Len(z) = c /\ q \in [1..c -> {i}] /\ \A j \in 1..c : z[j] = s[q[j]]
            BY <1>2, <3>2, <3>3, Zenon
        <3>5. 1 \in 1..c
            BY <3>4
        <3>6. Len(z) = 1 /\ q[1] \in {i} /\ z[1] = s[q[1]]
            BY <3>4, <3>5
        <3>. QED BY <3>3, <3>4, <3>6, Zenon
    <2>2. Kept(s, {i})[1] = s[i]
        BY <2>1
    <2>3. PICK z : z = Kept(s, {i})
        OBVIOUS
    <2>. QED BY <2>1, <2>2, <2>3
<1>4. Kept(s, A) \in Seq(T)
    BY KeptLists, Zenon
<1>4a. s[i] \in T
    OBVIOUS
<1>5. Append(Kept(s, A), s[i]) = Kept(s, A) \o <<s[i]>>
    BY <1>4, <1>4a, AppendIsConcat
<1>. QED BY <1>1, <1>3, <1>5, Zenon

(* No position, and the first n. *)
LEMMA KeptNone == ASSUME NEW s PROVE Kept(s, {}) = <<>>
<1>1. Cardinality({}) = 0
    BY FS_EmptySet
<1>2. Kept(s, {}) = [i \in 1..0 |-> s[Nth({}, i)]]
    BY <1>1 DEF Kept
<1>3. 1..0 = {}
    OBVIOUS
<1>. QED BY <1>2, <1>3

LEMMA KeptFirst ==
    ASSUME NEW T, NEW s \in Seq(T)
    PROVE  \A n \in 0..Len(s) : Len(Kept(s, 1..n)) = n /\ \A j \in 1..n : Kept(s, 1..n)[j] = s[j]
<1>. DEFINE F(n) == Len(Kept(s, 1..n)) = n /\ \A j \in 1..n : Kept(s, 1..n)[j] = s[j]
            N == {n \in Nat : n <= Len(s) => F(n)}
<1>1. 0 \in N
    <2>1. 1..0 = {}
        OBVIOUS
    <2>2. Kept(s, 1..0) = <<>>
        BY <2>1, KeptNone
    <2>. QED BY <2>2
<1>2. ASSUME NEW n \in N PROVE n + 1 \in N
    <2>. SUFFICES ASSUME n + 1 <= Len(s) PROVE F(n + 1)
        OBVIOUS
    <2>1. n \in Nat /\ F(n) /\ Len(s) \in Nat
        OBVIOUS
    <2>2. 1..n \in SUBSET (1..Len(s)) /\ n + 1 \in 1..Len(s) /\ \A x \in 1..n : x < n + 1
        BY <2>1
    <2>3. 1..(n + 1) = (1..n) \cup {n + 1}
        BY <2>1
    <2>4. Kept(s, (1..n) \cup {n + 1}) = Append(Kept(s, 1..n), s[n + 1])
        BY <2>2, KeptLast
    <2>5. Kept(s, 1..n) \in Seq(T)
        BY <2>2, KeptLists
    <2>6. Kept(s, 1..(n + 1)) = Append(Kept(s, 1..n), s[n + 1])
        BY <2>3, <2>4
    <2>7. PICK z \in Seq(T) : z = Kept(s, 1..n)
        BY <2>5
    <2>8. Len(z) = n /\ \A j \in 1..n : z[j] = s[j]
        BY <2>1, <2>7
    <2>9. s[n + 1] \in T
        BY <2>2
    <2>10. PICK x \in T : x = s[n + 1]
        BY <2>9
    <2>11. Len(Append(z, x)) = n + 1 /\ \A j \in 1..(n + 1) : Append(z, x)[j] = s[j]
        BY <2>1, <2>8, <2>10
    <2>. QED BY <2>6, <2>7, <2>10, <2>11
<1>3. N = Nat
    <2>. HIDE DEF N
    <2>1. N \in SUBSET Nat
        BY DEF N
    <2>. QED BY <1>1, <1>2, <2>1, NatSetInduction
<1>. QED BY <1>3

------------------------------------------------------------------------------
(* Parts of a list.                                                        *)

(* The t entries of s behind the first m. *)
LEMMA CutOf ==
    ASSUME NEW T, NEW s \in Seq(T), NEW m \in Nat, NEW t \in Nat, m + t <= Len(s)
    PROVE  /\ SubSeq(s, m + 1, m + t) \in Seq(T) /\ Len(SubSeq(s, m + 1, m + t)) = t
           /\ \A j \in 1..t : SubSeq(s, m + 1, m + t)[j] = s[m + j]
<1>1. PICK a \in Int, b \in Int : a = m + 1 /\ b = m + t
    OBVIOUS
<1>2. \A j \in a..b : s[j] \in T
    BY <1>1
<1>3. /\ SubSeq(s, a, b) \in Seq(T) /\ Len(SubSeq(s, a, b)) = IF a <= b THEN b - a + 1 ELSE 0
      /\ \A j \in 1..(b - a + 1) : SubSeq(s, a, b)[j] = s[a + j - 1]
    BY <1>2, SubSeqProperties
<1>4. PICK y : y = SubSeq(s, a, b)
    OBVIOUS
<1>5. b - a + 1 = t /\ (IF a <= b THEN b - a + 1 ELSE 0) = t /\ \A j \in 1..t : a + j - 1 = m + j
    BY <1>1
<1>6. y \in Seq(T) /\ Len(y) = t /\ \A j \in 1..t : y[j] = s[m + j]
    BY <1>3, <1>4, <1>5
<1>. QED BY <1>1, <1>4, <1>6

(* The first entries of a part. *)
LEMMA CutOfCut ==
    ASSUME NEW T, NEW s \in Seq(T), NEW m \in Nat, NEW t \in Nat, m + t <= Len(s), NEW r \in 0..t
    PROVE  SubSeq(SubSeq(s, m + 1, m + t), 1, r) = SubSeq(s, m + 1, m + r)
<1>1. PICK x \in Seq(T) : /\ x = SubSeq(s, m + 1, m + t) /\ Len(x) = t
                          /\ \A j \in 1..t : x[j] = s[m + j]
    <2>1. /\ SubSeq(s, m + 1, m + t) \in Seq(T) /\ Len(SubSeq(s, m + 1, m + t)) = t
          /\ \A j \in 1..t : SubSeq(s, m + 1, m + t)[j] = s[m + j]
        BY CutOf
    <2>. QED BY <2>1
<1>2. PICK y \in Seq(T) : /\ y = SubSeq(s, m + 1, m + r) /\ Len(y) = r
                          /\ \A j \in 1..r : y[j] = s[m + j]
    <2>1. r \in Nat /\ m + r <= Len(s)
        OBVIOUS
    <2>2. /\ SubSeq(s, m + 1, m + r) \in Seq(T) /\ Len(SubSeq(s, m + 1, m + r)) = r
          /\ \A j \in 1..r : SubSeq(s, m + 1, m + r)[j] = s[m + j]
        BY <2>1, CutOf
    <2>. QED BY <2>2
<1>3. PICK z \in Seq(T) : /\ z = SubSeq(x, 1, r) /\ Len(z) = r
                          /\ \A j \in 1..r : z[j] = x[j]
    <2>1. 0 \in Nat /\ r \in Nat /\ 0 + r <= Len(x)
        BY <1>1
    <2>2. /\ SubSeq(x, 0 + 1, 0 + r) \in Seq(T) /\ Len(SubSeq(x, 0 + 1, 0 + r)) = r
          /\ \A j \in 1..r : SubSeq(x, 0 + 1, 0 + r)[j] = x[0 + j]
        BY <2>1, CutOf
    <2>3. 0 + 1 = 1 /\ 0 + r = r /\ \A j \in 1..r : 0 + j = j
        OBVIOUS
    <2>. QED BY <2>2, <2>3
<1>4. y = z
    <2>1. \A j \in 1..r : j \in 1..t
        OBVIOUS
    <2>2. \A j \in 1..r : y[j] = z[j]
        BY <1>1, <1>2, <1>3, <2>1
    <2>. QED BY <1>2, <1>3, <2>2, SeqEqual
<1>. QED BY <1>1, <1>2, <1>3, <1>4

------------------------------------------------------------------------------
(* Functions defined by recursion.                                         *)

(* Definition by recursion on the naturals: f[n + 1] is step[n] of f[n]. *)
Iterates(f, base, step, n) ==
    f[0] = base /\ \A i \in 0..(n - 1) : f[i + 1] = step[i][f[i]]

Recursion(f, V, base, step) ==
    f \in [Nat -> V] /\ f[0] = base /\ \A n \in Nat : f[n + 1] = step[n][f[n]]

THEOREM NatRecursion ==
    ASSUME NEW V, NEW base \in V, NEW step \in [Nat -> [V -> V]]
    PROVE  \E f : Recursion(f, V, base, step)
<1>. DEFINE A(n) == {f \in [0..n -> V] : Iterates(f, base, step, n)}
            N == {n \in Nat : A(n) # {}}
<1>1. 0 \in N
    <2>1. PICK f : f = [i \in 0..0 |-> base]
        OBVIOUS
    <2>2. f \in [0..0 -> V] /\ f[0] = base /\ 0..(0 - 1) = {}
        BY <2>1
    <2>. QED BY <2>2 DEF Iterates
<1>2. ASSUME NEW n \in N PROVE n + 1 \in N
    <2>0. n \in Nat
        OBVIOUS
    <2>1. PICK f \in [0..n -> V] : Iterates(f, base, step, n)
        OBVIOUS
    <2>2. PICK g : g = [i \in 0..(n + 1) |-> IF i = n + 1 THEN step[n][f[n]] ELSE f[i]]
        OBVIOUS
    <2>3. step[n] \in [V -> V] /\ f[n] \in V
        BY <2>0
    <2>4. \A i \in 0..(n + 1) : i # n + 1 => i \in 0..n
        BY <2>0
    <2>5. g \in [0..(n + 1) -> V]
        BY <2>2, <2>3, <2>4
    <2>6. g[n + 1] = step[n][f[n]] /\ \A i \in 0..n : g[i] = f[i]
        BY <2>0, <2>2
    <2>7. Iterates(g, base, step, n + 1)
        <3>1. g[0] = base
            BY <2>0, <2>1, <2>6 DEF Iterates
        <3>2. ASSUME NEW i \in 0..((n + 1) - 1) PROVE g[i + 1] = step[i][g[i]]
            <4>1. i \in 0..n /\ (i = n \/ (i \in 0..(n - 1) /\ i + 1 \in 0..n))
                <5>1. i \in Nat /\ i <= n
                    BY <2>0
                <5>. QED BY <2>0, <5>1
            <4>2. CASE i = n
                BY <2>6, <4>1, <4>2
            <4>3. CASE i \in 0..(n - 1) /\ i + 1 \in 0..n
                BY <2>1, <2>6, <4>1, <4>3 DEF Iterates
            <4>. QED BY <4>1, <4>2, <4>3
        <3>. QED BY <3>1, <3>2 DEF Iterates
    <2>. QED BY <2>0, <2>5, <2>7
<1>3. N = Nat
    <2>. HIDE DEF N
    <2>1. N \in SUBSET Nat
        BY DEF N
    <2>. QED BY <1>1, <1>2, <2>1, NatSetInduction
<1>4. ASSUME NEW n \in Nat, NEW m \in Nat, NEW f \in A(n), NEW g \in A(m)
      PROVE  \A i \in Nat : i <= n /\ i <= m => f[i] = g[i]
    <2>. DEFINE E == {i \in Nat : i <= n /\ i <= m => f[i] = g[i]}
    <2>1. 0 \in E
        BY DEF Iterates
    <2>2. ASSUME NEW i \in E PROVE i + 1 \in E
        <3>. SUFFICES ASSUME i + 1 <= n, i + 1 <= m PROVE f[i + 1] = g[i + 1]
            OBVIOUS
        <3>1. i \in 0..(n - 1) /\ i \in 0..(m - 1) /\ f[i] = g[i]
            OBVIOUS
        <3>2. f[i + 1] = step[i][f[i]] /\ g[i + 1] = step[i][g[i]]
            BY <3>1 DEF Iterates
        <3>. QED BY <3>1, <3>2
    <2>3. E = Nat
        <3>. HIDE DEF E
        <3>1. E \in SUBSET Nat
            BY DEF E
        <3>. QED BY <2>1, <2>2, <3>1, NatSetInduction
    <2>. QED BY <2>3
<1>. DEFINE a(n) == CHOOSE f : f \in A(n)
            F == [n \in Nat |-> a(n)[n]]
<1>5. \A n \in Nat : a(n) \in A(n)
    BY <1>3
<1>. HIDE DEF a
<1>6. ASSUME NEW n \in Nat PROVE F[n] \in V
    <2>1. a(n) \in [0..n -> V] /\ n \in 0..n
        BY <1>5
    <2>. QED BY <2>1
<1>7. F[0] = base
    <2>1. a(0) \in A(0)
        BY <1>5
    <2>. QED BY <2>1 DEF Iterates
<1>8. ASSUME NEW n \in Nat PROVE F[n + 1] = step[n][F[n]]
    <2>1. n + 1 \in Nat /\ n \in 0..((n + 1) - 1)
        OBVIOUS
    <2>2. a(n + 1) \in A(n + 1) /\ a(n) \in A(n)
        BY <1>5, <2>1
    <2>3. a(n + 1)[n + 1] = step[n][a(n + 1)[n]]
        BY <2>1, <2>2 DEF Iterates
    <2>4. a(n + 1)[n] = a(n)[n]
        <3>. HIDE DEF A
        <3>. QED BY <1>4, <2>1, <2>2
    <2>. QED BY <2>1, <2>3, <2>4
<1>9. F \in [Nat -> V]
    BY <1>6
<1>. HIDE DEF F
<1>10. Recursion(F, V, base, step)
    BY <1>7, <1>8, <1>9 DEF Recursion
<1>. QED BY <1>10

==============================================================================
