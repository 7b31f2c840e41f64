----------------------- MODULE LedgerTransfers_proofs -----------------------
(***************************************************************************)
(* Proofs about LedgerTransfers, for any orders, accounts, word and bound  *)
(* on the calls.                                                           *)
(*                                                                         *)
(* Sums over the journal are folds, and batches are taken by a recursive   *)
(* function, so the file begins with induction on the size of a finite set *)
(* (stated on sets of numbers and of subsets) and what it gives for sums.  *)
(* Then come what create_transfers does to any batch and to a chain, the   *)
(* legs that are built and what each moves, and the inductive invariant.   *)
(***************************************************************************)
EXTENDS LedgerTransfers, FiniteSetTheorems, SequenceTheorems, TLAPS

-----------------------------------------------------------------------------
(* Induction and sums.                                                     *)

\* A non-empty set of numbers has a smallest element.
LEMMA SmallestElement ==
    ASSUME NEW S \in SUBSET Nat, S # {}
    PROVE  \E n \in S : \A m \in S : n <= m
<1> DEFINE R == OpToRel(<, Nat)
<1>1. IsWellFoundedOn(R, Nat)
    BY NatLessThanWellFounded
<1>2. PICK n \in S : \A m \in S : ~(<<m, n>> \in R)
    <2> HIDE DEF R
    <2> QED BY <1>1, WFMin
<1>3. \A m \in S : m \in Nat /\ n \in Nat /\ ~(m < n)
    BY <1>2 DEF OpToRel
<1> QED
    BY <1>3

\* Induction, on a set of numbers instead of a predicate.
LEMMA InductiveSet ==
    ASSUME NEW S, 0 \in S, \A n \in Nat : n \in S => n + 1 \in S
    PROVE  Nat \subseteq S
<1> SUFFICES ASSUME Nat \ S # {} PROVE FALSE
    OBVIOUS
<1>1. PICK n \in Nat \ S : \A m \in Nat \ S : n <= m
    BY SmallestElement
<1>2. n - 1 \in Nat /\ n - 1 \in S
    BY <1>1
<1> QED
    BY <1>2, <1>1

Pick(T) == CHOOSE x \in T : TRUE

\* What SumFunctionOnSet iterates over the subsets of S.
SumUpTo(w, S) ==
    CHOOSE f : f = [T \in SUBSET S |->
                       IF T = {} THEN 0 ELSE w[Pick(T)] + f[T \ {Pick(T)}]]

\* The library's sum is the recursive sum over the subsets of S.
LEMMA SumIs == ASSUME NEW w, NEW S PROVE SumFunctionOnSet(w, S) = SumUpTo(w, S)[S]
BY DEF SumFunctionOnSet, FoldFunctionOnSet, MapThenFoldSet, SumUpTo, Pick

\* Without the element picked, a set is smaller by one.
LEMMA PickOne ==
    ASSUME NEW T, T # {}, IsFiniteSet(T)
    PROVE  /\ Pick(T) \in T /\ IsFiniteSet(T \ {Pick(T)})
           /\ Cardinality(T) \in Nat /\ Cardinality(T \ {Pick(T)}) \in Nat
           /\ Cardinality(T) = Cardinality(T \ {Pick(T)}) + 1
<1>1. Pick(T) \in T
    BY DEF Pick
<1>2. IsFiniteSet(T \ {Pick(T)}) /\ Cardinality(T \ {Pick(T)}) = Cardinality(T) - 1
    BY <1>1, FS_RemoveElement
<1>3. Cardinality(T) \in Nat /\ Cardinality(T \ {Pick(T)}) \in Nat
    BY <1>2, FS_CardinalityType
<1> QED
    BY <1>1, <1>2, <1>3

\* The recursion is well-founded on the subsets of a finite set.
LEMMA SumUpToAt ==
    ASSUME NEW w, NEW S, IsFiniteSet(S), NEW V \in SUBSET S
    PROVE  /\ V = {} => SumUpTo(w, S)[V] = 0
           /\ V # {} => SumUpTo(w, S)[V] = w[Pick(V)] + SumUpTo(w, S)[V \ {Pick(V)}]
<1> DEFINE Level(n) == {T \in SUBSET S : Cardinality(T) <= n}
           Fits(g, n) == g = [T \in Level(n) |->
               IF T = {} THEN 0 ELSE w[Pick(T)] + g[T \ {Pick(T)}]]
           Good == {n \in Nat : \E g : Fits(g, n)}
<1>1. \A T \in SUBSET S : IsFiniteSet(T) /\ Cardinality(T) \in Nat
    BY FS_Subset, FS_CardinalityType
<1>2. 0 \in Good
    <2>1. \A T \in Level(0) : T = {}
        BY <1>1, FS_EmptySet
    <2>2. Fits([T \in Level(0) |-> 0], 0)
        BY <2>1
    <2> QED
        BY <2>2
<1>3. ASSUME NEW n \in Nat, n \in Good PROVE n + 1 \in Good
    <2>1. PICK g : Fits(g, n)
        BY <1>3
    <2> DEFINE h == [T \in Level(n + 1) |->
                        IF T = {} THEN 0 ELSE w[Pick(T)] + g[T \ {Pick(T)}]]
    <2>2. Level(n) \subseteq Level(n + 1)
        BY <1>1
    <2>3. \A T \in Level(n) : h[T] = g[T]
        BY <2>1, <2>2
    <2>4. ASSUME NEW T \in Level(n + 1), T # {} PROVE T \ {Pick(T)} \in Level(n)
        BY <2>4, <1>1, PickOne
    <2>5. Fits(h, n + 1)
        <3> SUFFICES ASSUME NEW T \in Level(n + 1), T # {}
                     PROVE  g[T \ {Pick(T)}] = h[T \ {Pick(T)}]
            OBVIOUS
        <3> QED
            BY <2>3, <2>4
    <2> HIDE DEF h, Fits
    <2> QED
        BY <2>5
<1>4. Nat \subseteq Good
    <2> HIDE DEF Good
    <2> QED
        BY <1>2, <1>3, InductiveSet
<1>9. PICK g : Fits(g, Cardinality(S))
    <2> HIDE DEF Fits
    <2> QED
        BY <1>1, <1>4
<1>5. Level(Cardinality(S)) = SUBSET S
    BY FS_Subset
<1>6. PICK f : f = SumUpTo(w, S)
    OBVIOUS
<1>7. f = [T \in SUBSET S |-> IF T = {} THEN 0 ELSE w[Pick(T)] + f[T \ {Pick(T)}]]
    BY <1>9, <1>5, <1>6 DEF SumUpTo
<1>8. f[V] = IF V = {} THEN 0 ELSE w[Pick(V)] + f[V \ {Pick(V)}]
    BY <1>7
<1> QED
    BY <1>6, <1>8

\* The recursive sum at T is the same whatever set it is taken in.
LEMMA SumUpToSame ==
    ASSUME NEW w, NEW S, IsFiniteSet(S), NEW T \in SUBSET S
    PROVE  SumUpTo(w, S)[T] = SumUpTo(w, T)[T]
<1> DEFINE Good == {n \in Nat : \A U \in SUBSET S : \A V \in SUBSET U :
                        Cardinality(V) = n => SumUpTo(w, U)[V] = SumUpTo(w, V)[V]}
<1>1. \A U \in SUBSET S : IsFiniteSet(U) /\ Cardinality(U) \in Nat
    BY FS_Subset, FS_CardinalityType
<1>2. 0 \in Good
    <2> SUFFICES ASSUME NEW U \in SUBSET S, NEW V \in SUBSET U, Cardinality(V) = 0
                 PROVE  SumUpTo(w, U)[V] = SumUpTo(w, V)[V]
        OBVIOUS
    <2>1. V = {} /\ V \in SUBSET S
        BY <1>1, FS_EmptySet
    <2>2. SumUpTo(w, U)[V] = 0 /\ SumUpTo(w, V)[V] = 0
        BY <2>1, <1>1, SumUpToAt
    <2> QED
        BY <2>2
<1>3. ASSUME NEW n \in Nat, n \in Good PROVE n + 1 \in Good
    <2> SUFFICES ASSUME NEW U \in SUBSET S, NEW V \in SUBSET U, Cardinality(V) = n + 1
                 PROVE  SumUpTo(w, U)[V] = SumUpTo(w, V)[V]
        OBVIOUS
    <2> DEFINE R == V \ {Pick(V)}
    <2>1. V # {} /\ V \in SUBSET S /\ IsFiniteSet(V) /\ IsFiniteSet(U)
        BY <1>1, FS_EmptySet
    <2>2. Cardinality(R) = n /\ R \in SUBSET V /\ R \in SUBSET U
        BY <2>1, PickOne
    <2>3. SumUpTo(w, U)[R] = SumUpTo(w, V)[R]
        BY <1>3, <2>1, <2>2
    <2>4. /\ SumUpTo(w, U)[V] = w[Pick(V)] + SumUpTo(w, U)[R]
          /\ SumUpTo(w, V)[V] = w[Pick(V)] + SumUpTo(w, V)[R]
        BY <2>1, SumUpToAt
    <2> QED
        BY <2>3, <2>4
<1> HIDE DEF Good
<1>4. Cardinality(T) \in Good
    BY <1>1, <1>2, <1>3, InductiveSet
<1> QED
    BY <1>4, <1>1 DEF Good

LEMMA SumEmpty == ASSUME NEW w PROVE SumFunctionOnSet(w, {}) = 0
BY SumIs, SumUpToAt, FS_EmptySet

LEMMA SumPick ==
    ASSUME NEW w, NEW S, IsFiniteSet(S), S # {}
    PROVE  SumFunctionOnSet(w, S) = w[Pick(S)] + SumFunctionOnSet(w, S \ {Pick(S)})
<1>1. SumUpTo(w, S)[S] = w[Pick(S)] + SumUpTo(w, S)[S \ {Pick(S)}]
    BY SumUpToAt
<1>2. SumUpTo(w, S)[S \ {Pick(S)}] = SumUpTo(w, S \ {Pick(S)})[S \ {Pick(S)}]
    BY SumUpToSame
<1> QED
    BY <1>1, <1>2, SumIs


\* Sums of naturals are naturals.
LEMMA SumNat ==
    ASSUME NEW w, NEW S, IsFiniteSet(S), \A x \in S : w[x] \in Nat
    PROVE  SumFunctionOnSet(w, S) \in Nat
<1> DEFINE Good == {n \in Nat : \A T \in SUBSET S :
                        Cardinality(T) = n => SumFunctionOnSet(w, T) \in Nat}
<1>1. \A T \in SUBSET S : IsFiniteSet(T) /\ Cardinality(T) \in Nat
    BY FS_Subset, FS_CardinalityType
<1>2. 0 \in Good
    BY <1>1, FS_EmptySet, SumEmpty
<1>3. ASSUME NEW n \in Nat, n \in Good PROVE n + 1 \in Good
    <2> SUFFICES ASSUME NEW T \in SUBSET S, Cardinality(T) = n + 1
                 PROVE  SumFunctionOnSet(w, T) \in Nat
        OBVIOUS
    <2>1. T # {} /\ IsFiniteSet(T)
        BY <1>1, FS_EmptySet
    <2>2. Cardinality(T \ {Pick(T)}) = n /\ Pick(T) \in S
        BY <2>1, PickOne
    <2>3. SumFunctionOnSet(w, T \ {Pick(T)}) \in Nat /\ w[Pick(T)] \in Nat
        BY <1>3, <2>2
    <2> QED
        BY <2>1, <2>3, SumPick
<1> HIDE DEF Good
<1>4. Cardinality(S) \in Good
    BY <1>1, <1>2, <1>3, InductiveSet
<1> QED
    BY <1>4 DEF Good

\* The order in which the elements are taken does not matter.
LEMMA SumRemove ==
    ASSUME NEW w, NEW S, IsFiniteSet(S), \A x \in S : w[x] \in Nat, NEW y \in S
    PROVE  SumFunctionOnSet(w, S) = w[y] + SumFunctionOnSet(w, S \ {y})
<1> DEFINE Good == {n \in Nat : \A T \in SUBSET S : \A x \in T : Cardinality(T) = n =>
                        SumFunctionOnSet(w, T) = w[x] + SumFunctionOnSet(w, T \ {x})}
<1>1. \A T \in SUBSET S : IsFiniteSet(T) /\ Cardinality(T) \in Nat
    BY FS_Subset, FS_CardinalityType
<1>2. 0 \in Good
    BY <1>1, FS_EmptySet
<1>3. ASSUME NEW n \in Nat, n \in Good PROVE n + 1 \in Good
    <2> SUFFICES ASSUME NEW T \in SUBSET S, NEW x \in T, Cardinality(T) = n + 1
                 PROVE  SumFunctionOnSet(w, T) = w[x] + SumFunctionOnSet(w, T \ {x})
        OBVIOUS
    <2> DEFINE p == Pick(T)
    <2>1. IsFiniteSet(T) /\ p \in T /\ Cardinality(T \ {p}) = n
        BY <1>1, PickOne
    <2>2. SumFunctionOnSet(w, T) = w[p] + SumFunctionOnSet(w, T \ {p})
        BY <2>1, SumPick
    <2> HIDE DEF p
    <2>3. CASE x = p
        BY <2>2, <2>3
    <2>4. CASE x # p
        <3>1. x \in T \ {p} /\ p \in T \ {x}
            BY <2>1, <2>4
        <3>2. Cardinality(T \ {x}) = Cardinality(T) - 1
            BY <1>1, FS_RemoveElement
        <3>3. /\ SumFunctionOnSet(w, T \ {p}) = w[x] + SumFunctionOnSet(w, (T \ {p}) \ {x})
              /\ SumFunctionOnSet(w, T \ {x}) = w[p] + SumFunctionOnSet(w, (T \ {x}) \ {p})
            BY <3>1, <3>2, <2>1, <1>3
        <3>4. (T \ {p}) \ {x} = (T \ {x}) \ {p}
            OBVIOUS
        <3>5. w[x] \in Nat /\ w[p] \in Nat
            BY <2>1
        <3>6. SumFunctionOnSet(w, (T \ {x}) \ {p}) \in Nat
            BY <1>1, SumNat
        <3> QED
            BY <2>2, <3>3, <3>4, <3>5, <3>6
    <2> QED
        BY <2>3, <2>4
<1> HIDE DEF Good
<1>4. Cardinality(S) \in Good
    BY <1>1, <1>2, <1>3, InductiveSet
<1> QED
    BY <1>4 DEF Good

\* Induction over the subsets of a finite set, one element at a time.
LEMMA ElementByElement ==
    ASSUME NEW S, IsFiniteSet(S), NEW F, {} \in F,
           \A T \in SUBSET S : \A x \in S \ T : T \in F => T \union {x} \in F
    PROVE  S \in F
<1> DEFINE Good == {n \in Nat : \A T \in SUBSET S : Cardinality(T) = n => T \in F}
<1>1. \A T \in SUBSET S : IsFiniteSet(T) /\ Cardinality(T) \in Nat
    BY FS_Subset, FS_CardinalityType
<1>2. 0 \in Good
    BY <1>1, FS_EmptySet
<1>3. ASSUME NEW n \in Nat, n \in Good PROVE n + 1 \in Good
    <2> SUFFICES ASSUME NEW T \in SUBSET S, Cardinality(T) = n + 1 PROVE T \in F
        OBVIOUS
    <2>1. T # {} /\ IsFiniteSet(T)
        BY <1>1, FS_EmptySet
    <2>2. PICK x \in T : Cardinality(T \ {x}) = Cardinality(T) - 1
        BY <2>1, FS_RemoveElement
    <2>3. x \in T /\ Cardinality(T \ {x}) = n
        BY <2>2
    <2>4. T \ {x} \in F /\ T \ {x} \in SUBSET S /\ x \in S \ (T \ {x})
        BY <1>3, <2>3
    <2>5. (T \ {x}) \union {x} = T
        BY <2>3
    <2> QED
        BY <2>4, <2>5
<1> HIDE DEF Good
<1>4. Cardinality(S) \in Good
    BY <1>1, <1>2, <1>3, InductiveSet
<1> QED
    BY <1>4 DEF Good

\* An element more adds its value.
LEMMA SumAdd ==
    ASSUME NEW w, NEW S, IsFiniteSet(S), NEW y, y \notin S, w[y] \in Nat,
           \A x \in S : w[x] \in Nat
    PROVE  SumFunctionOnSet(w, S \union {y}) = SumFunctionOnSet(w, S) + w[y]
<1>1. IsFiniteSet(S \union {y}) /\ (S \union {y}) \ {y} = S
    BY FS_AddElement
<1>2. SumFunctionOnSet(w, S \union {y}) = w[y] + SumFunctionOnSet(w, S)
    BY <1>1, SumRemove
<1> QED
    BY <1>2, SumNat

\* Weights count only where they are summed.
LEMMA SumSame ==
    ASSUME NEW v, NEW w, NEW S, IsFiniteSet(S), \A x \in S : v[x] = w[x] /\ w[x] \in Nat
    PROVE  SumFunctionOnSet(v, S) = SumFunctionOnSet(w, S)
<1> DEFINE F == {T \in SUBSET S : SumFunctionOnSet(v, T) = SumFunctionOnSet(w, T)}
<1>1. {} \in F
    BY SumEmpty
<1>2. ASSUME NEW T \in SUBSET S, NEW x \in S \ T, T \in F PROVE T \union {x} \in F
    <2>1. IsFiniteSet(T)
        BY FS_Subset
    <2>2. SumFunctionOnSet(v, T \union {x}) = SumFunctionOnSet(v, T) + v[x]
        BY <2>1, SumAdd
    <2>3. SumFunctionOnSet(w, T \union {x}) = SumFunctionOnSet(w, T) + w[x]
        BY <2>1, SumAdd
    <2> QED
        BY <1>2, <2>2, <2>3
<1> HIDE DEF F
<1>3. S \in F
    BY <1>1, <1>2, ElementByElement
<1> QED
    BY <1>3 DEF F

\* The sum over two disjoint sets.
LEMMA SumUnion ==
    ASSUME NEW w, NEW S, IsFiniteSet(S), NEW T, IsFiniteSet(T), S \cap T = {},
           \A x \in S \union T : w[x] \in Nat
    PROVE  SumFunctionOnSet(w, S \union T) = SumFunctionOnSet(w, S) + SumFunctionOnSet(w, T)
<1> DEFINE F == {U \in SUBSET T : SumFunctionOnSet(w, S \union U)
                                     = SumFunctionOnSet(w, S) + SumFunctionOnSet(w, U)}
<1>1. {} \in F
    BY SumEmpty, SumNat
<1>2. ASSUME NEW U \in SUBSET T, NEW x \in T \ U, U \in F PROVE U \union {x} \in F
    <2>1. IsFiniteSet(U) /\ IsFiniteSet(S \union U) /\ x \notin S \union U
        BY FS_Subset, FS_Union
    <2>2. SumFunctionOnSet(w, (S \union U) \union {x}) = SumFunctionOnSet(w, S \union U) + w[x]
        BY <2>1, SumAdd
    <2>3. SumFunctionOnSet(w, U \union {x}) = SumFunctionOnSet(w, U) + w[x]
        BY <2>1, SumAdd
    <2>4. SumFunctionOnSet(w, S) \in Nat /\ SumFunctionOnSet(w, U) \in Nat /\ w[x] \in Nat
        BY <2>1, SumNat
    <2>5. (S \union U) \union {x} = S \union (U \union {x})
        OBVIOUS
    <2>6. SumFunctionOnSet(w, S \union U) = SumFunctionOnSet(w, S) + SumFunctionOnSet(w, U)
        BY <1>2
    <2>7. SumFunctionOnSet(w, S \union (U \union {x}))
              = SumFunctionOnSet(w, S) + SumFunctionOnSet(w, U \union {x})
        <3> DEFINE a == SumFunctionOnSet(w, S)
                   b == SumFunctionOnSet(w, U)
                   c == w[x]
        <3>1. a \in Nat /\ b \in Nat /\ c \in Nat
            BY <2>4
        <3> HIDE DEF a, b, c
        <3>2. (a + b) + c = a + (b + c)
            BY <3>1
        <3> QED
            BY <3>2, <2>2, <2>3, <2>5, <2>6, Zenon DEF a, b, c
    <2> QED
        BY <2>7
<1> HIDE DEF F
<1>3. T \in F
    BY <1>1, <1>2, ElementByElement
<1> QED
    BY <1>3 DEF F

-----------------------------------------------------------------------------
(* Amounts.                                                                *)

LEMMA AmountsEmpty == AmountsOf({}) = 0
BY SumEmpty DEF AmountsOf

LEMMA AmountsAdd ==
    ASSUME NEW S, IsFiniteSet(S), NEW y, y \notin S, y.amount \in Nat,
           \A x \in S : x.amount \in Nat
    PROVE  AmountsOf(S \union {y}) = AmountsOf(S) + y.amount
<1> DEFINE v == [t \in S |-> t.amount]
           w == [t \in S \union {y} |-> t.amount]
<1>1. SumFunctionOnSet(w, S \union {y}) = SumFunctionOnSet(w, S) + y.amount
    <2>1. w[y] = y.amount /\ \A x \in S : w[x] = x.amount
        OBVIOUS
    <2> HIDE DEF w
    <2> QED
        BY <2>1, SumAdd
<1>2. SumFunctionOnSet(v, S) = SumFunctionOnSet(w, S)
    <2>1. \A x \in S : v[x] = x.amount /\ w[x] = x.amount
        OBVIOUS
    <2> HIDE DEF v, w
    <2> QED
        BY <2>1, SumSame
<1> QED
    BY <1>1, <1>2 DEF AmountsOf

LEMMA AmountsNat ==
    ASSUME NEW S, IsFiniteSet(S), \A x \in S : x.amount \in Nat
    PROVE  AmountsOf(S) \in Nat
<1> DEFINE w == [t \in S |-> t.amount]
<1>1. \A x \in S : w[x] \in Nat
    OBVIOUS
<1> HIDE DEF w
<1>2. SumFunctionOnSet(w, S) \in Nat
    BY <1>1, SumNat
<1> QED
    BY <1>2 DEF AmountsOf, w

LEMMA AmountsUnion ==
    ASSUME NEW S, IsFiniteSet(S), NEW T, IsFiniteSet(T), S \cap T = {},
           \A x \in S \union T : x.amount \in Nat
    PROVE  AmountsOf(S \union T) = AmountsOf(S) + AmountsOf(T)
<1> DEFINE u == [t \in S |-> t.amount]
           v == [t \in T |-> t.amount]
           w == [t \in S \union T |-> t.amount]
<1>1. /\ \A x \in S : u[x] = x.amount /\ w[x] = x.amount
      /\ \A x \in T : v[x] = x.amount /\ w[x] = x.amount
    OBVIOUS
<1> HIDE DEF u, v, w
<1>2. SumFunctionOnSet(w, S \union T) = SumFunctionOnSet(w, S) + SumFunctionOnSet(w, T)
    BY <1>1, SumUnion
<1>3. SumFunctionOnSet(u, S) = SumFunctionOnSet(w, S)
    BY <1>1, SumSame
<1>4. SumFunctionOnSet(v, T) = SumFunctionOnSet(w, T)
    BY <1>1, SumSame
<1> QED
    BY <1>2, <1>3, <1>4 DEF AmountsOf, u, v, w

\* More transfers move no less.
LEMMA AmountsMonotone ==
    ASSUME NEW T, IsFiniteSet(T), NEW S \in SUBSET T, \A x \in T : x.amount \in Nat
    PROVE  AmountsOf(S) <= AmountsOf(T)
<1>1. IsFiniteSet(S) /\ IsFiniteSet(T \ S)
    BY FS_Subset
<1>2. S \union (T \ S) = T
    OBVIOUS
<1>3. AmountsOf(T) = AmountsOf(S) + AmountsOf(T \ S)
    BY <1>1, <1>2, AmountsUnion
<1>4. AmountsOf(S) \in Nat /\ AmountsOf(T \ S) \in Nat
    BY <1>1, AmountsNat
<1> QED
    BY <1>3, <1>4

LEMMA DstAmountsAdd ==
    ASSUME NEW S, IsFiniteSet(S), NEW y, y \notin S, y.dstAmount \in Nat,
           \A x \in S : x.dstAmount \in Nat
    PROVE  DstAmountsOf(S \union {y}) = DstAmountsOf(S) + y.dstAmount
<1> DEFINE v == [t \in S |-> t.dstAmount]
           w == [t \in S \union {y} |-> t.dstAmount]
<1>1. /\ w[y] = y.dstAmount
      /\ \A x \in S : v[x] = x.dstAmount /\ w[x] = x.dstAmount
    OBVIOUS
<1> HIDE DEF v, w
<1>2. SumFunctionOnSet(w, S \union {y}) = SumFunctionOnSet(w, S) + y.dstAmount
    BY <1>1, SumAdd
<1>3. SumFunctionOnSet(v, S) = SumFunctionOnSet(w, S)
    BY <1>1, SumSame
<1> QED
    BY <1>2, <1>3 DEF DstAmountsOf, v, w

LEMMA DstAmountsNat ==
    ASSUME NEW S, IsFiniteSet(S), \A x \in S : x.dstAmount \in Nat
    PROVE  DstAmountsOf(S) \in Nat
<1> DEFINE w == [t \in S |-> t.dstAmount]
<1>1. \A x \in S : w[x] \in Nat
    OBVIOUS
<1> HIDE DEF w
<1>2. SumFunctionOnSet(w, S) \in Nat
    BY <1>1, SumNat
<1> QED
    BY <1>2 DEF DstAmountsOf, w

-----------------------------------------------------------------------------
(* create_transfers.                                                       *)

Start == [entries |-> journal, base |-> journal, broken |-> FALSE,
          ok |-> TRUE, failed |-> spent]

\* The states of a call before its first event and after each.
Run(events, f) ==
    /\ f[0] = Start
    /\ \A n \in 1 .. Len(events) : f[n] = Take(events, f[n - 1], n)

\* A call runs through its events: the recursion is well defined.
LEMMA CallRuns ==
    ASSUME NEW events, Len(events) \in Nat
    PROVE  \E f : Run(events, f) /\ create_transfers(events) = f[Len(events)]
<1> DEFINE Fits(g, k) == g = [n \in 0 .. k |->
                                 IF n = 0 THEN Start ELSE Take(events, g[n - 1], n)]
           Good == {k \in Nat : \E g : Fits(g, k)}
<1>1. 0 \in Good
    <2>1. Fits([n \in 0 .. 0 |-> Start], 0)
        OBVIOUS
    <2> QED
        BY <2>1
<1>2. ASSUME NEW k \in Nat, k \in Good PROVE k + 1 \in Good
    <2>1. PICK g : Fits(g, k)
        BY <1>2
    <2> DEFINE h == [n \in 0 .. k + 1 |->
                        IF n = 0 THEN Start ELSE Take(events, g[n - 1], n)]
    <2>2. \A n \in 0 .. k : h[n] = g[n]
        BY <2>1
    <2>3. Fits(h, k + 1)
        <3> DEFINE A(n) == IF n = 0 THEN Start ELSE Take(events, g[n - 1], n)
                   B(n) == IF n = 0 THEN Start ELSE Take(events, h[n - 1], n)
        <3>1. ASSUME NEW n \in 0 .. k + 1 PROVE A(n) = B(n)
            <4>1. CASE n = 0
                BY <4>1
            <4>2. CASE n # 0
                <5>1. n - 1 \in 0 .. k
                    BY <4>2
                <5>2. h[n - 1] = g[n - 1]
                    BY <5>1, <2>2
                <5> HIDE DEF h
                <5> QED
                    BY <5>2
            <4> QED
                BY <4>1, <4>2
        <3>2. h = [n \in 0 .. k + 1 |-> A(n)]
            OBVIOUS
        <3> HIDE DEF h, A, B
        <3>3. h = [n \in 0 .. k + 1 |-> B(n)]
            BY <3>1, <3>2
        <3> QED
            BY <3>3 DEF B
    <2> HIDE DEF h, Fits
    <2> QED
        BY <2>3
<1> DEFINE K == Len(events)
<1>3. PICK g : Fits(g, K)
    <2> HIDE DEF Good, Fits
    <2>1. K \in Good
        BY <1>1, <1>2, InductiveSet
    <2> QED
        BY <2>1 DEF Good
<1> DEFINE after == CHOOSE f : Fits(f, K)
<1>4. Fits(after, K)
    <2> HIDE DEF Fits
    <2> QED
        BY <1>3
<1>5. create_transfers(events) = after[K]
    BY DEF create_transfers, Start
<1>6. Run(events, after)
    <2> HIDE DEF after
    <2> QED
        BY <1>4 DEF Run
<1> QED
    BY <1>5, <1>6

\* What a call keeps of the journal: entries name open accounts, no id is taken
\* twice, and none that was refused.
JournalOK(entries, failed) ==
    /\ \A t \in entries : /\ {t.debit, t.credit} \subseteq {a.id : a \in accounts}
                          /\ t.id \notin failed
    /\ \A t, u \in entries : t.id = u.id => t = u

\* After n events.
BatchInv(events, s, n) ==
    /\ s = [entries |-> s.entries, base |-> s.base, broken |-> s.broken,
            ok |-> s.ok, failed |-> s.failed]
    /\ s.ok \in BOOLEAN
    /\ journal \subseteq s.base
    /\ s.base \subseteq s.entries
    /\ s.entries \subseteq journal \union {events[i] : i \in 1 .. n}
    /\ s.ok => s.entries = journal \union {events[i] : i \in 1 .. n}
    /\ JournalOK(s.entries, s.failed)

\* What the state after n events owes to the state after n - 1.
LEMMA BatchStep ==
    ASSUME NEW events, Len(events) \in Nat, NEW n \in 1 .. Len(events), NEW s,
           BatchInv(events, s, n - 1)
    PROVE  BatchInv(events, Take(events, s, n), n)
<1> DEFINE e == events[n]
           base == IF Linked(events, n - 1) THEN s.base ELSE s.entries
           broken == Linked(events, n - 1) /\ s.broken
           open == n = Len(events) /\ Linked(events, n)
           never == broken \/ open \/ Invalid(s.entries, s.failed, e)
           failed == IF never THEN s.failed ELSE s.failed \union {e.id}
           r == Take(events, s, n)
           Up(k) == {events[i] : i \in 1 .. k}
<1>1. Up(n) = Up(n - 1) \union {e}
    <2>1. 1 .. n = (1 .. n - 1) \union {n}
        OBVIOUS
    <2> QED
        BY <2>1
<1>2. CASE never \/ Transient(s.entries, e)
    <2>1. r = [entries |-> base, base |-> base, broken |-> TRUE, ok |-> FALSE,
               failed |-> failed]
        BY <1>2 DEF Take
    <2>2. journal \subseteq base /\ base \subseteq s.entries
        BY DEF BatchInv
    <2>3. JournalOK(base, failed)
        <3>1. ~never => \A t \in s.entries : t.id # e.id
            BY DEF Invalid
        <3> HIDE DEF never, base, e
        <3> QED
            BY <2>2, <3>1 DEF BatchInv, JournalOK
    <2>4. s.entries \subseteq journal \union Up(n)
        BY <1>1 DEF BatchInv
    <2> HIDE DEF failed, base, Up, r
    <2> QED
        BY <2>1, <2>2, <2>3, <2>4 DEF BatchInv, Up, r
<1>3. CASE ~never /\ ~Transient(s.entries, e)
    <2>1. r = [s EXCEPT !.entries = @ \union {e}, !.base = base, !.broken = FALSE]
        BY <1>3 DEF Take
    <2>2. r = [entries |-> s.entries \union {e}, base |-> base, broken |-> FALSE,
               ok |-> s.ok, failed |-> s.failed]
        <3> HIDE DEF base, e, r
        <3> QED
            BY <2>1 DEF BatchInv
    <2>3. journal \subseteq base /\ base \subseteq s.entries \union {e}
        BY DEF BatchInv
    <2>4. JournalOK(s.entries \union {e}, s.failed)
        <3>1. e.id \notin s.failed /\ \A t \in s.entries : t.id # e.id
            BY <1>3 DEF Invalid
        <3>2. {e.debit, e.credit} \subseteq {a.id : a \in accounts}
            BY <1>3 DEF Transient
        <3> HIDE DEF e
        <3> QED
            BY <3>1, <3>2 DEF BatchInv, JournalOK
    <2>5. /\ s.entries \union {e} \subseteq journal \union Up(n)
          /\ s.ok => s.entries \union {e} = journal \union Up(n)
        <3> HIDE DEF e
        <3> QED
            BY <1>1 DEF BatchInv
    <2>6. s.ok \in BOOLEAN
        BY DEF BatchInv
    <2> HIDE DEF base, e, Up, r
    <2> QED
        BY <2>2, <2>3, <2>4, <2>5, <2>6 DEF BatchInv, Up, r
<1> QED
    BY <1>2, <1>3

\* Whatever the flags of a batch: the journal only grows, by events of the
\* batch, by all of them when the call succeeds, and no id is taken twice.
LEMMA BatchOutcome ==
    ASSUME NEW events, Len(events) \in Nat, JournalOK(journal, spent)
    PROVE  LET r == create_transfers(events)
               all == {events[i] : i \in 1 .. Len(events)}
           IN /\ journal \subseteq r.entries
              /\ r.entries \subseteq journal \union all
              /\ r.ok \in BOOLEAN
              /\ r.ok => r.entries = journal \union all
              /\ JournalOK(r.entries, r.failed)
<1>1. PICK f : Run(events, f) /\ create_transfers(events) = f[Len(events)]
    BY CallRuns
<1> DEFINE Good == {n \in Nat : n \in 0 .. Len(events) => BatchInv(events, f[n], n)}
<1>2. 0 \in Good
    <2>1. f[0] = Start
        BY <1>1 DEF Run
    <2>2. {events[i] : i \in 1 .. 0} = {}
        OBVIOUS
    <2>3. BatchInv(events, Start, 0)
        BY <2>2 DEF BatchInv, Start
    <2> QED
        BY <2>1, <2>3
<1>3. ASSUME NEW n \in Nat, n \in Good PROVE n + 1 \in Good
    <2> SUFFICES ASSUME n + 1 \in 0 .. Len(events)
                 PROVE  BatchInv(events, f[n + 1], n + 1)
        OBVIOUS
    <2>1. n \in 0 .. Len(events) /\ n + 1 \in 1 .. Len(events) /\ (n + 1) - 1 = n
        OBVIOUS
    <2>2. BatchInv(events, f[n], n)
        BY <1>3, <2>1
    <2>3. f[n + 1] = Take(events, f[n], n + 1)
        BY <1>1, <2>1 DEF Run
    <2> QED
        BY <2>1, <2>2, <2>3, BatchStep
<1> HIDE DEF Good
<1>4. Len(events) \in Good
    BY <1>2, <1>3, InductiveSet
<1>5. BatchInv(events, f[Len(events)], Len(events))
    BY <1>4 DEF Good
<1> QED
    BY <1>1, <1>5 DEF BatchInv

\* Events of which all but the last are linked.
IsChain(events) ==
    /\ Len(events) \in Nat \ {0}
    /\ \A n \in 1 .. Len(events) : "linked" \in events[n].flags <=> n < Len(events)

\* After n events of a chain: all of them are new, or nothing happened.
ChainInv(events, s, n) ==
    /\ s = [entries |-> s.entries, base |-> s.base, broken |-> s.broken,
            ok |-> s.ok, failed |-> s.failed]
    /\ s.base = journal
    /\ \/ /\ ~s.broken /\ s.ok
          /\ s.entries = journal \union {events[i] : i \in 1 .. n}
          /\ \A i \in 1 .. n : \A t \in journal : t.id # events[i].id
          /\ \A i, j \in 1 .. n : events[i].id = events[j].id => i = j
       \/ /\ n > 0
          /\ s.broken /\ ~s.ok
          /\ s.entries = journal

\* A chain enters whole or leaves the journal as it was.
LEMMA ChainStep ==
    ASSUME NEW events, IsChain(events), NEW n \in 1 .. Len(events), NEW s,
           ChainInv(events, s, n - 1)
    PROVE  ChainInv(events, Take(events, s, n), n)
<1> DEFINE e == events[n]
           base == IF Linked(events, n - 1) THEN s.base ELSE s.entries
           broken == Linked(events, n - 1) /\ s.broken
           open == n = Len(events) /\ Linked(events, n)
           never == broken \/ open \/ Invalid(s.entries, s.failed, e)
           failed == IF never THEN s.failed ELSE s.failed \union {e.id}
           r == Take(events, s, n)
           Up(k) == {events[i] : i \in 1 .. k}
<1> Len(events) \in Nat /\ n \in Nat /\ n > 0 /\ n - 1 \in Nat
    BY DEF IsChain
<1>1. Linked(events, n - 1) <=> n > 1
    BY DEF IsChain, Linked
<1>2. Up(n) = Up(n - 1) \union {e} /\ Up(0) = {}
    <2>1. 1 .. n = (1 .. n - 1) \union {n} /\ 1 .. 0 = {}
        OBVIOUS
    <2> QED
        BY <2>1
<1>3. base = journal
    <2>1. CASE n > 1
        BY <2>1, <1>1 DEF ChainInv
    <2>2. CASE n = 1
        <3>1. n - 1 = 0 /\ ~Linked(events, n - 1)
            BY <2>2, <1>1
        <3>2. ChainInv(events, s, 0)
            BY <3>1
        <3>3. s.entries = journal \union Up(0)
            BY <3>2, <1>2 DEF ChainInv
        <3> QED
            BY <3>1, <3>3, <1>2
    <2> QED
        BY <2>1, <2>2
<1>4. CASE never \/ Transient(s.entries, e)
    <2>1. r = [entries |-> base, base |-> base, broken |-> TRUE, ok |-> FALSE,
               failed |-> failed]
        BY <1>4 DEF Take
    <2> HIDE DEF failed, base, r
    <2> QED
        BY <2>1, <1>3 DEF ChainInv, r
<1>5. CASE ~never /\ ~Transient(s.entries, e)
    <2>1. r = [s EXCEPT !.entries = @ \union {e}, !.base = base, !.broken = FALSE]
        BY <1>5 DEF Take
    <2>2. r = [entries |-> s.entries \union {e}, base |-> base, broken |-> FALSE,
               ok |-> s.ok, failed |-> s.failed]
        <3> HIDE DEF base, e, r
        <3> QED
            BY <2>1 DEF ChainInv
    <2>3. ~s.broken
        BY <1>1, <1>5 DEF ChainInv
    <2>4. \A t \in s.entries : t.id # e.id
        BY <1>5 DEF Invalid
    <2>5. /\ s.ok
          /\ s.entries = journal \union Up(n - 1)
          /\ \A i \in 1 .. n - 1 : \A t \in journal : t.id # events[i].id
          /\ \A i, j \in 1 .. n - 1 : events[i].id = events[j].id => i = j
        BY <2>3 DEF ChainInv
    <2>6. s.entries \union {e} = journal \union Up(n)
        BY <2>5, <1>2
    <2>7. \A i \in 1 .. n : i = n \/ i \in 1 .. n - 1
        OBVIOUS
    <2>8. \A i \in 1 .. n - 1 : events[i].id # e.id
        BY <2>4, <2>5
    <2>9. \A i \in 1 .. n : \A t \in journal : t.id # events[i].id
        BY <2>4, <2>5, <2>7
    <2>10. \A i, j \in 1 .. n : events[i].id = events[j].id => i = j
        BY <2>5, <2>7, <2>8
    <2> HIDE DEF base, e, Up, r
    <2> QED
        BY <2>2, <2>5, <2>6, <2>9, <2>10, <1>3 DEF ChainInv, Up, r
<1> QED
    BY <1>4, <1>5

\* A chain is all or nothing; what it adds had ids of its own.
LEMMA ChainOutcome ==
    ASSUME NEW events, IsChain(events)
    PROVE  LET r == create_transfers(events)
               all == {events[i] : i \in 1 .. Len(events)}
           IN \/ r.entries = journal /\ ~r.ok
              \/ /\ r.entries = journal \union all /\ r.ok
                 /\ \A i \in 1 .. Len(events) : \A t \in journal : t.id # events[i].id
                 /\ \A i, j \in 1 .. Len(events) : events[i].id = events[j].id => i = j
<1> Len(events) \in Nat
    BY DEF IsChain
<1>1. PICK f : Run(events, f) /\ create_transfers(events) = f[Len(events)]
    BY CallRuns
<1> DEFINE Good == {n \in Nat : n \in 0 .. Len(events) => ChainInv(events, f[n], n)}
<1>2. 0 \in Good
    <2>1. f[0] = Start
        BY <1>1 DEF Run
    <2>2. {events[i] : i \in 1 .. 0} = {} /\ 1 .. 0 = {}
        OBVIOUS
    <2>3. ChainInv(events, Start, 0)
        BY <2>2 DEF ChainInv, Start
    <2> QED
        BY <2>1, <2>3
<1>3. ASSUME NEW n \in Nat, n \in Good PROVE n + 1 \in Good
    <2> SUFFICES ASSUME n + 1 \in 0 .. Len(events)
                 PROVE  ChainInv(events, f[n + 1], n + 1)
        OBVIOUS
    <2>1. n \in 0 .. Len(events) /\ n + 1 \in 1 .. Len(events) /\ (n + 1) - 1 = n
        OBVIOUS
    <2>2. ChainInv(events, f[n], n)
        BY <1>3, <2>1
    <2>3. f[n + 1] = Take(events, f[n], n + 1)
        BY <1>1, <2>1 DEF Run
    <2> QED
        BY <2>1, <2>2, <2>3, ChainStep
<1> HIDE DEF Good
<1>4. Len(events) \in Good
    BY <1>2, <1>3, InductiveSet
<1>5. ChainInv(events, f[Len(events)], Len(events))
    BY <1>4 DEF Good
<1> QED
    BY <1>1, <1>5 DEF ChainInv

-----------------------------------------------------------------------------
(* The legs that are built.                                                *)

LEMMA Concat11 == ASSUME NEW a, NEW b PROVE <<a>> \o <<b>> = <<a, b>>
<1> DEFINE S == {a, b}
           s == <<a>>
           t == <<b>>
           u == <<a, b>>
<1>1. s \in Seq(S) /\ t \in Seq(S) /\ u \in Seq(S)
    OBVIOUS
<1>2. Len(s) = 1 /\ Len(t) = 1 /\ Len(u) = 2
    OBVIOUS
<1>3. s[1] = a /\ t[1] = b /\ u[1] = a /\ u[2] = b
    OBVIOUS
<1> HIDE DEF s, t, u, S
<1> DEFINE v == s \o t
<1>4. v \in Seq(S) /\ Len(v) = 2 /\ v[1] = a /\ v[2] = b
    BY <1>1, <1>2, <1>3, ConcatProperties
<1> HIDE DEF v
<1>5. v = u
    <2>1. \A i \in 1 .. Len(v) : v[i] = u[i]
        <3>1. \A i \in 1 .. 2 : i = 1 \/ i = 2
            OBVIOUS
        <3> QED
            BY <1>3, <1>4, <3>1
    <2> QED
        BY <1>1, <1>2, <1>4, <2>1, SeqEqual
<1> QED
    BY <1>5 DEF s, t, u, v

LEMMA Concat21 == ASSUME NEW a, NEW b, NEW c PROVE <<a, b>> \o <<c>> = <<a, b, c>>
<1> DEFINE S == {a, b, c}
           s == <<a, b>>
           t == <<c>>
           u == <<a, b, c>>
<1>1. s \in Seq(S) /\ t \in Seq(S) /\ u \in Seq(S)
    OBVIOUS
<1>2. Len(s) = 2 /\ Len(t) = 1 /\ Len(u) = 3
    OBVIOUS
<1>3. s[1] = a /\ s[2] = b /\ t[1] = c /\ u[1] = a /\ u[2] = b /\ u[3] = c
    OBVIOUS
<1> HIDE DEF s, t, u, S
<1> DEFINE v == s \o t
<1>4. v \in Seq(S) /\ Len(v) = 3 /\ v[1] = a /\ v[2] = b /\ v[3] = c
    <2>1. /\ v \in Seq(S) /\ Len(v) = Len(s) + Len(t)
          /\ \A i \in 1 .. Len(s) + Len(t) :
                v[i] = IF i <= Len(s) THEN s[i] ELSE t[i - Len(s)]
        BY <1>1, ConcatProperties, Zenon
    <2> HIDE DEF v
    <2>2. Len(v) = 3 /\ v[1] = s[1] /\ v[2] = s[2] /\ v[3] = t[1]
        BY <2>1, <1>2
    <2> QED
        BY <2>1, <2>2, <1>3
<1> HIDE DEF v
<1>5. v = u
    <2>1. \A i \in 1 .. Len(v) : v[i] = u[i]
        <3>1. \A i \in 1 .. 3 : i = 1 \/ i = 2 \/ i = 3
            OBVIOUS
        <3> QED
            BY <1>3, <1>4, <3>1
    <2> QED
        BY <1>1, <1>2, <1>4, <2>1, SeqEqual
<1> QED
    BY <1>5 DEF s, t, u, v

LEMMA ConcatNone == ASSUME NEW a PROVE <<a>> \o <<>> = <<a>> /\ <<>> \o <<a>> = <<a>>
<1>1. <<a>> \in Seq({a})
    OBVIOUS
<1> QED
    BY <1>1, ConcatEmptySeq

LEMMA LinkThree ==
    ASSUME NEW a, NEW b, NEW c
    PROVE  LinkAllButLast(<<a>> \o <<b>> \o <<c>>)
               = <<WithFlag(a, "linked"), WithFlag(b, "linked"), c>>
<1>1. <<a>> \o <<b>> \o <<c>> = <<a, b, c>>
    <2>1. <<a>> \o <<b>> = <<a, b>>
        BY Concat11
    <2>2. <<a, b>> \o <<c>> = <<a, b, c>>
        BY Concat21
    <2> QED
        BY <2>1, <2>2, Zenon
<1>2. LinkAllButLast(<<a, b, c>>) = <<WithFlag(a, "linked"), WithFlag(b, "linked"), c>>
    BY DEF LinkAllButLast
<1> QED
    BY <1>1, <1>2

LEMMA LinkTwo ==
    ASSUME NEW a, NEW c
    PROVE  /\ LinkAllButLast(<<a>> \o <<>> \o <<c>>) = <<WithFlag(a, "linked"), c>>
           /\ LinkAllButLast(<<a>> \o <<c>>) = <<WithFlag(a, "linked"), c>>
           /\ LinkAllButLast(<<a, c>>) = <<WithFlag(a, "linked"), c>>
<1>1. <<a>> \o <<>> \o <<c>> = <<a, c>> /\ <<a>> \o <<c>> = <<a, c>>
    BY Concat11, ConcatNone
<1>2. LinkAllButLast(<<a, c>>) = <<WithFlag(a, "linked"), c>>
    BY DEF LinkAllButLast
<1> QED
    BY <1>1, <1>2

LEMMA LinkOne ==
    ASSUME NEW c
    PROVE  LinkAllButLast(<<>> \o <<c>>) = <<c>>
<1>1. <<>> \o <<c>> = <<c>>
    BY ConcatNone
<1>2. LinkAllButLast(<<c>>) = <<c>>
    BY DEF LinkAllButLast
<1> QED
    BY <1>1, <1>2

\* t is the n-th transfer of order o, from debit to credit.
Posts(t, o, n, debit, credit, amount) ==
    t = [ID |-> <<o.name, n>>, DebitAccount |-> debit, CreditAccount |-> credit,
         Amount |-> amount, Ledger |-> t.Ledger, Flags |-> t.Flags,
         UserData128 |-> t.UserData128]

IsLeg(ts, length) == Len(ts) = length /\ DOMAIN ts = 1 .. length

SimpleShape(o, ts) ==
    LET pendingOut == System("PENDING_OUTBOUND", o.srcCurrency)
        revenue == System("FEE_REVENUE", o.srcCurrency)
        settlement == System("REGIONAL_SETTLEMENT", o.srcCurrency)
        net == Minus(o.amount, o.feeAmount)
    IN \/ /\ o.feeAmount > 0 /\ IsLeg(ts, 3)
          /\ Posts(ts[1], o, 1, Wallet(o), pendingOut, o.amount)
          /\ Posts(ts[2], o, 2, pendingOut, revenue, o.feeAmount)
          /\ Posts(ts[3], o, 3, pendingOut, settlement, net)
       \/ /\ o.feeAmount = 0 /\ IsLeg(ts, 2)
          /\ Posts(ts[1], o, 1, Wallet(o), pendingOut, o.amount)
          /\ Posts(ts[2], o, 3, pendingOut, settlement, net)

SourceShape(o, ts) ==
    LET pendingOut == System("PENDING_OUTBOUND", o.srcCurrency)
        position == System("FX_SETTLEMENT", o.srcCurrency)
    IN /\ IsLeg(ts, 2)
       /\ Posts(ts[1], o, 1, Wallet(o), pendingOut, o.amount)
       /\ Posts(ts[2], o, 2, pendingOut, position, o.amount)

DestinationShape(o, ts) ==
    LET position == System("FX_SETTLEMENT", o.dstCurrency)
        revenue == System("FEE_REVENUE", o.dstCurrency)
        settlement == System("REGIONAL_SETTLEMENT", o.dstCurrency)
        net == Minus(o.dstAmount, o.feeAmount)
    IN \/ /\ o.feeAmount > 0 /\ IsLeg(ts, 2)
          /\ Posts(ts[1], o, 3, position, revenue, o.feeAmount)
          /\ Posts(ts[2], o, 4, position, settlement, net)
       \/ /\ o.feeAmount = 0 /\ IsLeg(ts, 1)
          /\ Posts(ts[1], o, 4, position, settlement, net)

TopUpShape(o, ts) ==
    LET pendingIn == System("PENDING_INBOUND", o.srcCurrency)
        revenue == System("FEE_REVENUE", o.srcCurrency)
    IN /\ IsLeg(ts, 2)
       /\ Posts(ts[1], o, 1, pendingIn, Wallet(o), Minus(o.amount, o.feeAmount))
       /\ Posts(ts[2], o, 2, pendingIn, revenue, o.feeAmount)

Shape(o, l, ts) ==
    \/ o.kind = "simple" /\ l = 1 /\ SimpleShape(o, ts)
    \/ o.kind = "fx" /\ l = 1 /\ SourceShape(o, ts)
    \/ o.kind = "fx" /\ l = 2 /\ DestinationShape(o, ts)
    \/ o.kind = "batch" /\ l = 1 /\ TopUpShape(o, ts)

\* The last transfer ends the chain, and payouts and conversions are chains
\* already when they are built.
Flagged(o, ts) ==
    /\ "linked" \notin ts[Len(ts)].Flags
    /\ o.kind # "batch" =>
          \A n \in 1 .. Len(ts) : n < Len(ts) => "linked" \in ts[n].Flags

\* The fields of an order that amounts are computed from.
LEMMA OrderTypes ==
    ASSUME NEW o \in Orders
    PROVE  /\ o.kind \in {"simple", "fx", "batch"}
           /\ o.amount \in Nat /\ o.amount < Word
           /\ o.dstAmount \in Nat /\ o.dstAmount < Word
           /\ o.feeAmount \in Nat /\ o.feeAmount < Word
BY OrdersAssumption, WordAssumption

\* By how much a subtraction that wraps misses the difference.
Excess(a, b) == IF b > a THEN Word ELSE 0

\* What is subtracted wraps only below zero, and then by one word.
LEMMA MinusRange ==
    ASSUME NEW a \in Nat, NEW b \in Nat
    PROVE  /\ Minus(a, b) \in 0 .. Word - 1
           /\ a < Word /\ b < Word => Minus(a, b) = a - b + Excess(a, b)
<1> Word \in Nat /\ Word > 0
    BY WordAssumption
<1>1. (a - b) % Word \in 0 .. Word - 1
    OBVIOUS
<1>2. ASSUME a < Word, b <= a PROVE (a - b) % Word = a - b
    BY <1>2
<1>3. ASSUME b < Word, b > a PROVE (a - b) % Word = (a - b) + Word
    BY <1>3
<1> QED
    BY <1>1, <1>2, <1>3 DEF Minus, Excess

\* SimpleTransferChain, as the transfers it returns.
LEMMA SimpleBuilt ==
    ASSUME NEW o \in Orders
    PROVE  SimpleShape(o, SimpleTransferChain(o))
           /\ (o.kind # "batch" => Flagged(o, SimpleTransferChain(o)))
<1> DEFINE pendingOut == System("PENDING_OUTBOUND", o.srcCurrency)
           post(n, debit, credit, amount) ==
               NewTransfer(o, n, debit, credit, amount, o.srcCurrency)
           a == post(1, Wallet(o), pendingOut, o.amount)
           b == post(2, pendingOut, System("FEE_REVENUE", o.srcCurrency), o.feeAmount)
           c == post(3, pendingOut, System("REGIONAL_SETTLEMENT", o.srcCurrency),
                     Minus(o.amount, o.feeAmount))
<1>1. /\ Posts(WithFlag(a, "linked"), o, 1, Wallet(o), pendingOut, o.amount)
      /\ Posts(WithFlag(b, "linked"), o, 2, pendingOut,
               System("FEE_REVENUE", o.srcCurrency), o.feeAmount)
      /\ Posts(c, o, 3, pendingOut, System("REGIONAL_SETTLEMENT", o.srcCurrency),
               Minus(o.amount, o.feeAmount))
    BY DEF Posts, WithFlag, NewTransfer
<1>2. /\ "linked" \in WithFlag(a, "linked").Flags
      /\ "linked" \in WithFlag(b, "linked").Flags
      /\ "linked" \notin c.Flags
    BY DEF WithFlag, NewTransfer
<1> DEFINE x == WithFlag(a, "linked")
           y == WithFlag(b, "linked")
           ts == SimpleTransferChain(o)
<1>3. CASE o.feeAmount > 0
    <2>1. ts = LinkAllButLast(<<a>> \o <<b>> \o <<c>>)
        BY <1>3, Zenon DEF SimpleTransferChain, BuildLinked
    <2>2. ts = <<x, y, c>>
        BY <2>1, LinkThree, Zenon
    <2> HIDE DEF ts, x, y, c
    <2>3. IsLeg(ts, 3) /\ ts[1] = x /\ ts[2] = y /\ ts[3] = c
        BY <2>2 DEF IsLeg
    <2>4. SimpleShape(o, ts)
        BY <2>3, <1>1, <1>3 DEF SimpleShape, x, y, c
    <2>5. Flagged(o, ts)
        <3>1. \A n \in 1 .. Len(ts) : n < Len(ts) => n = 1 \/ n = 2
            BY <2>3 DEF IsLeg
        <3> QED
            BY <2>3, <3>1, <1>2 DEF Flagged, IsLeg, x, y
    <2> QED
        BY <2>4, <2>5 DEF ts
<1>4. CASE ~(o.feeAmount > 0)
    <2>1. ts = LinkAllButLast(<<a>> \o <<>> \o <<c>>)
        BY <1>4, Zenon DEF SimpleTransferChain, BuildLinked
    <2>2. ts = <<x, c>>
        BY <2>1, LinkTwo, Zenon
    <2> HIDE DEF ts, x, y, c
    <2>3. IsLeg(ts, 2) /\ ts[1] = x /\ ts[2] = c
        BY <2>2 DEF IsLeg
    <2>4. SimpleShape(o, ts)
        <3>1. o.feeAmount = 0
            BY <1>4, OrderTypes
        <3> QED
            BY <2>3, <1>1, <3>1 DEF SimpleShape, x, c
    <2>5. Flagged(o, ts)
        <3>1. \A n \in 1 .. Len(ts) : n < Len(ts) => n = 1
            BY <2>3 DEF IsLeg
        <3> QED
            BY <2>3, <3>1, <1>2 DEF Flagged, IsLeg, x
    <2> QED
        BY <2>4, <2>5 DEF ts
<1> QED
    BY <1>3, <1>4

LEMMA PostsFields ==
    ASSUME NEW t, NEW o, NEW n, NEW debit, NEW credit, NEW amount,
           Posts(t, o, n, debit, credit, amount)
    PROVE  /\ t.ID = <<o.name, n>> /\ t.DebitAccount = debit
           /\ t.CreditAccount = credit /\ t.Amount = amount
<1> DEFINE r(x, y, z) ==
        [ID |-> <<o.name, n>>, DebitAccount |-> debit, CreditAccount |-> credit,
         Amount |-> amount, Ledger |-> x, Flags |-> y, UserData128 |-> z]
<1>1. PICK x, y, z : t = r(x, y, z)
    BY Zenon DEF Posts
<1>2. /\ r(x, y, z).ID = <<o.name, n>> /\ r(x, y, z).DebitAccount = debit
      /\ r(x, y, z).CreditAccount = credit /\ r(x, y, z).Amount = amount
    OBVIOUS
<1> QED
    BY <1>1, <1>2, Zenon

LEMMA MarkOne ==
    ASSUME NEW t, NEW o, NEW n, NEW debit, NEW credit, NEW amount,
           Posts(t, o, n, debit, credit, amount)
    PROVE  /\ Posts(WithFlag(t, "linked"), o, n, debit, credit, amount)
           /\ "linked" \in WithFlag(t, "linked").Flags
<1> DEFINE r == [ID |-> <<o.name, n>>, DebitAccount |-> debit, CreditAccount |-> credit,
                 Amount |-> amount, Ledger |-> t.Ledger, Flags |-> t.Flags,
                 UserData128 |-> t.UserData128]
           u == [ID |-> <<o.name, n>>, DebitAccount |-> debit, CreditAccount |-> credit,
                 Amount |-> amount, Ledger |-> t.Ledger, Flags |-> t.Flags \union {"linked"},
                 UserData128 |-> t.UserData128]
<1>1. t = r
    BY DEF Posts
<1>2. WithFlag(r, "linked") = u
    BY DEF WithFlag
<1>3. WithFlag(t, "linked") = u
    BY <1>1, <1>2, Zenon
<1>4. u = [ID |-> <<o.name, n>>, DebitAccount |-> debit, CreditAccount |-> credit,
           Amount |-> amount, Ledger |-> u.Ledger, Flags |-> u.Flags,
           UserData128 |-> u.UserData128] /\ "linked" \in u.Flags
    OBVIOUS
<1> HIDE DEF u
<1> QED
    BY <1>3, <1>4 DEF Posts

LEMMA CorrelateOne ==
    ASSUME NEW t, NEW id, NEW o, NEW n, NEW debit, NEW credit, NEW amount,
           Posts(t, o, n, debit, credit, amount)
    PROVE  LET u == [t EXCEPT !.UserData128 = id] IN
           Posts(u, o, n, debit, credit, amount) /\ u.Flags = t.Flags
<1> DEFINE r == [ID |-> <<o.name, n>>, DebitAccount |-> debit, CreditAccount |-> credit,
                 Amount |-> amount, Ledger |-> t.Ledger, Flags |-> t.Flags,
                 UserData128 |-> t.UserData128]
           u == [ID |-> <<o.name, n>>, DebitAccount |-> debit, CreditAccount |-> credit,
                 Amount |-> amount, Ledger |-> t.Ledger, Flags |-> t.Flags,
                 UserData128 |-> id]
<1>1. t = r
    BY DEF Posts
<1>2. [r EXCEPT !.UserData128 = id] = u
    OBVIOUS
<1>3. [t EXCEPT !.UserData128 = id] = u
    BY <1>1, <1>2, Zenon
<1>4. u = [ID |-> <<o.name, n>>, DebitAccount |-> debit, CreditAccount |-> credit,
           Amount |-> amount, Ledger |-> u.Ledger, Flags |-> u.Flags,
           UserData128 |-> u.UserData128] /\ u.Flags = t.Flags
    OBVIOUS
<1> HIDE DEF u
<1> QED
    BY <1>3, <1>4 DEF Posts

\* SourceChain, as the transfers it returns.
LEMMA SourceBuilt ==
    ASSUME NEW o \in Orders
    PROVE  SourceShape(o, SourceChain(o)) /\ Flagged(o, SourceChain(o))
<1> DEFINE pendingOut == System("PENDING_OUTBOUND", o.srcCurrency)
           position == System("FX_SETTLEMENT", o.srcCurrency)
           a == NewTransfer(o, 1, Wallet(o), pendingOut, o.amount, o.srcCurrency)
           c == NewTransfer(o, 2, pendingOut, position, o.amount, o.srcCurrency)
           x == [WithFlag(a, "linked") EXCEPT !.UserData128 = o.name]
           z == [c EXCEPT !.UserData128 = o.name]
           ts == SourceChain(o)
<1>0. /\ Posts(a, o, 1, Wallet(o), pendingOut, o.amount)
      /\ Posts(c, o, 2, pendingOut, position, o.amount)
      /\ "linked" \notin c.Flags
    BY DEF Posts, NewTransfer
<1>1. /\ Posts(x, o, 1, Wallet(o), pendingOut, o.amount)
      /\ Posts(z, o, 2, pendingOut, position, o.amount)
      /\ "linked" \in x.Flags /\ "linked" \notin z.Flags
    <2> DEFINE w == WithFlag(a, "linked")
    <2> HIDE DEF a, c
    <2>1. Posts(w, o, 1, Wallet(o), pendingOut, o.amount) /\ "linked" \in w.Flags
        BY <1>0, MarkOne
    <2> HIDE DEF w
    <2>2. Posts([w EXCEPT !.UserData128 = o.name], o, 1, Wallet(o), pendingOut, o.amount)
          /\ [w EXCEPT !.UserData128 = o.name].Flags = w.Flags
        BY <2>1, CorrelateOne, Zenon
    <2>3. Posts(z, o, 2, pendingOut, position, o.amount) /\ z.Flags = c.Flags
        BY <1>0, CorrelateOne, Zenon
    <2> QED
        BY <1>0, <2>1, <2>2, <2>3, Zenon DEF w
<1>3. ts = Correlated(LinkAllButLast(<<a, c>>), o.name)
    BY Zenon DEF SourceChain, BuildLinked
<1>4. ts = Correlated(<<WithFlag(a, "linked"), c>>, o.name)
    BY <1>3, LinkTwo, Zenon
<1>5. Correlated(<<WithFlag(a, "linked"), c>>, o.name) = <<x, z>>
    <2> DEFINE w == WithFlag(a, "linked")
    <2> HIDE DEF w, c
    <2> QED
        BY DEF Correlated
<1> HIDE DEF ts, x, z
<1>6. IsLeg(ts, 2) /\ ts[1] = x /\ ts[2] = z
    BY <1>4, <1>5 DEF IsLeg
<1>7. SourceShape(o, ts)
    BY <1>6, <1>1 DEF SourceShape
<1>8. Flagged(o, ts)
    <2>1. \A n \in 1 .. Len(ts) : n < Len(ts) => n = 1
        BY <1>6 DEF IsLeg
    <2> QED
        BY <1>6, <2>1, <1>1 DEF Flagged, IsLeg
<1> QED
    BY <1>7, <1>8 DEF ts

\* DestinationChain, as the transfers it returns.
LEMMA DestinationBuilt ==
    ASSUME NEW o \in Orders
    PROVE  DestinationShape(o, DestinationChain(o)) /\ Flagged(o, DestinationChain(o))
<1> DEFINE position == System("FX_SETTLEMENT", o.dstCurrency)
           revenue == System("FEE_REVENUE", o.dstCurrency)
           settlement == System("REGIONAL_SETTLEMENT", o.dstCurrency)
           net == Minus(o.dstAmount, o.feeAmount)
           a == NewTransfer(o, 3, position, revenue, o.feeAmount, o.dstCurrency)
           c == NewTransfer(o, 4, position, settlement, net, o.dstCurrency)
           x == [WithFlag(a, "linked") EXCEPT !.UserData128 = o.name]
           z == [c EXCEPT !.UserData128 = o.name]
           ts == DestinationChain(o)
<1>0. /\ Posts(a, o, 3, position, revenue, o.feeAmount)
      /\ Posts(c, o, 4, position, settlement, net)
      /\ "linked" \notin c.Flags
    BY DEF Posts, NewTransfer
<1>1. /\ Posts(x, o, 3, position, revenue, o.feeAmount)
      /\ Posts(z, o, 4, position, settlement, net)
      /\ "linked" \in x.Flags /\ "linked" \notin z.Flags
    <2> DEFINE w == WithFlag(a, "linked")
    <2> HIDE DEF a, c
    <2>1. Posts(w, o, 3, position, revenue, o.feeAmount) /\ "linked" \in w.Flags
        BY <1>0, MarkOne
    <2> HIDE DEF w
    <2>2. Posts([w EXCEPT !.UserData128 = o.name], o, 3, position, revenue, o.feeAmount)
          /\ [w EXCEPT !.UserData128 = o.name].Flags = w.Flags
        BY <2>1, CorrelateOne, Zenon
    <2>3. Posts(z, o, 4, position, settlement, net) /\ z.Flags = c.Flags
        BY <1>0, CorrelateOne, Zenon
    <2> QED
        BY <1>0, <2>1, <2>2, <2>3, Zenon DEF w
<1>3. CASE o.feeAmount > 0
    <2>1. ts = Correlated(LinkAllButLast(<<a>> \o <<c>>), o.name)
        BY <1>3, Zenon DEF DestinationChain, DestinationSteps, BuildLinked
    <2>2. ts = Correlated(<<WithFlag(a, "linked"), c>>, o.name)
        BY <2>1, LinkTwo, Zenon
    <2>3. Correlated(<<WithFlag(a, "linked"), c>>, o.name) = <<x, z>>
        <3> DEFINE w == WithFlag(a, "linked")
        <3> HIDE DEF w, c
        <3> QED
            BY DEF Correlated
    <2> HIDE DEF ts, x, z
    <2>4. IsLeg(ts, 2) /\ ts[1] = x /\ ts[2] = z
        BY <2>2, <2>3 DEF IsLeg
    <2>5. DestinationShape(o, ts)
        BY <2>4, <1>1, <1>3 DEF DestinationShape
    <2>6. Flagged(o, ts)
        <3>1. \A n \in 1 .. Len(ts) : n < Len(ts) => n = 1
            BY <2>4 DEF IsLeg
        <3> QED
            BY <2>4, <3>1, <1>1 DEF Flagged, IsLeg
    <2> QED
        BY <2>5, <2>6 DEF ts
<1>4. CASE ~(o.feeAmount > 0)
    <2>1. ts = Correlated(LinkAllButLast(<<>> \o <<c>>), o.name)
        BY <1>4, Zenon DEF DestinationChain, DestinationSteps, BuildLinked
    <2>2. ts = Correlated(<<c>>, o.name)
        BY <2>1, LinkOne, Zenon
    <2>3. Correlated(<<c>>, o.name) = <<z>>
        <3> HIDE DEF c
        <3> QED
            BY DEF Correlated
    <2> HIDE DEF ts, x, z
    <2>4. IsLeg(ts, 1) /\ ts[1] = z
        BY <2>2, <2>3 DEF IsLeg
    <2>5. DestinationShape(o, ts)
        <3>1. o.feeAmount = 0
            BY <1>4, OrderTypes
        <3> QED
            BY <2>4, <1>1, <3>1 DEF DestinationShape
    <2>6. Flagged(o, ts)
        <3>1. \A n \in 1 .. Len(ts) : ~(n < Len(ts))
            BY <2>4 DEF IsLeg
        <3> QED
            BY <2>4, <3>1, <1>1 DEF Flagged, IsLeg
    <2> QED
        BY <2>5, <2>6 DEF ts
<1> QED
    BY <1>3, <1>4

\* TransferBuilder's top-up, as the transfers it returns.
LEMMA TopUpBuilt ==
    ASSUME NEW o \in Orders, o.kind = "batch"
    PROVE  TopUpShape(o, TopUp(o)) /\ Flagged(o, TopUp(o))
<1> DEFINE pendingIn == System("PENDING_INBOUND", o.srcCurrency)
           revenue == System("FEE_REVENUE", o.srcCurrency)
           x == NewTransfer(o, 1, pendingIn, Wallet(o), Minus(o.amount, o.feeAmount),
                            o.srcCurrency)
           z == NewTransfer(o, 2, pendingIn, revenue, o.feeAmount, o.srcCurrency)
           ts == TopUp(o)
<1>1. /\ Posts(x, o, 1, pendingIn, Wallet(o), Minus(o.amount, o.feeAmount))
      /\ Posts(z, o, 2, pendingIn, revenue, o.feeAmount)
      /\ "linked" \notin z.Flags
    BY DEF Posts, NewTransfer
<1>2. ts = <<x, z>>
    BY DEF TopUp
<1> HIDE DEF ts, x, z
<1>3. IsLeg(ts, 2) /\ ts[1] = x /\ ts[2] = z
    BY <1>2 DEF IsLeg
<1>4. TopUpShape(o, ts) /\ Flagged(o, ts)
    BY <1>1, <1>3 DEF TopUpShape, Flagged, IsLeg
<1> QED
    BY <1>4 DEF ts

\* Every leg that is built, with its marks.
LEMMA LegsBuilt ==
    ASSUME NEW o \in Orders
    PROVE  /\ DOMAIN LegsOf(o) = IF o.kind = "fx" THEN {1, 2} ELSE {1}
           /\ \A l \in DOMAIN LegsOf(o) : Shape(o, l, LegsOf(o)[l]) /\ Flagged(o, LegsOf(o)[l])
<1> o.kind \in {"simple", "fx", "batch"}
    BY OrderTypes
<1>1. CASE o.kind = "simple"
    <2> DEFINE c == SimpleTransferChain(o)
    <2>1. LegsOf(o) = <<c>>
        BY <1>1 DEF LegsOf
    <2>2. SimpleShape(o, c) /\ Flagged(o, c)
        BY <1>1, SimpleBuilt
    <2> HIDE DEF c
    <2> QED
        BY <2>1, <2>2, <1>1 DEF Shape
<1>2. CASE o.kind = "fx"
    <2> DEFINE c == SourceChain(o)
               d == DestinationChain(o)
    <2>1. LegsOf(o) = <<c, d>>
        BY <1>2 DEF LegsOf, FXTransferChains
    <2>2. SourceShape(o, c) /\ Flagged(o, c) /\ DestinationShape(o, d) /\ Flagged(o, d)
        BY SourceBuilt, DestinationBuilt
    <2> HIDE DEF c, d
    <2>3. DOMAIN <<c, d>> = {1, 2} /\ <<c, d>>[1] = c /\ <<c, d>>[2] = d
        OBVIOUS
    <2> QED
        BY <2>1, <2>2, <2>3, <1>2 DEF Shape
<1>3. CASE o.kind = "batch"
    <2> DEFINE c == TopUp(o)
    <2>1. LegsOf(o) = <<c>>
        BY <1>3 DEF LegsOf
    <2>2. TopUpShape(o, c) /\ Flagged(o, c)
        BY <1>3, TopUpBuilt
    <2> HIDE DEF c
    <2> QED
        BY <2>1, <2>2, <1>3 DEF Shape
<1> QED
    BY <1>1, <1>2, <1>3

\* Marking a leg changes flags only, and makes it a chain.
LEMMA Marking ==
    ASSUME NEW ts, NEW length \in {1, 2, 3}, IsLeg(ts, length)
    PROVE  LET us == LinkAllButLast(ts) IN
           /\ IsLeg(us, length)
           /\ us[length] = ts[length]
           /\ \A n \in 1 .. length : n < length => us[n] = WithFlag(ts[n], "linked")
<1> DEFINE us == LinkAllButLast(ts)
<1>1. DOMAIN us = 1 .. length /\ us \in Seq({us[n] : n \in 1 .. length})
    BY DEF LinkAllButLast, IsLeg
<1>2. Len(us) = length
    BY <1>1
<1> QED
    BY <1>1, <1>2 DEF LinkAllButLast, IsLeg

\* The same transfers but for their flags.
SameIDs(ts, us) ==
    /\ DOMAIN us = DOMAIN ts /\ Len(us) = Len(ts)
    /\ \A n \in DOMAIN ts : us[n].ID = ts[n].ID

\* Marking a built leg again changes no leg but the top-up's, which it links.
LEMMA MarkedShape ==
    ASSUME NEW o \in Orders, NEW l, NEW ts, Shape(o, l, ts), Flagged(o, ts)
    PROVE  LET us == LinkAllButLast(ts) IN
           /\ Shape(o, l, us) /\ Flagged(o, us)
           /\ SameIDs(ts, us)
           /\ \A n \in 1 .. Len(us) : "linked" \in us[n].Flags <=> n < Len(us)
<1> DEFINE us == LinkAllButLast(ts)
<1>1. PICK length \in {1, 2, 3} : IsLeg(ts, length)
    BY DEF Shape, SimpleShape, SourceShape, DestinationShape, TopUpShape
<1>2. /\ IsLeg(us, length)
      /\ us[length] = ts[length]
      /\ \A n \in 1 .. length : n < length => us[n] = WithFlag(ts[n], "linked")
    BY <1>1, Marking
<1> HIDE DEF us
<1>3. ASSUME NEW n \in 1 .. length, NEW k, NEW debit, NEW credit, NEW amount,
             Posts(ts[n], o, k, debit, credit, amount)
      PROVE  Posts(us[n], o, k, debit, credit, amount)
    <2>1. CASE n < length
        BY <2>1, <1>2, <1>3, MarkOne
    <2>2. CASE ~(n < length)
        <3>1. n = length
            BY <2>2
        <3> QED
            BY <3>1, <1>2, <1>3
    <2> QED
        BY <2>1, <2>2
<1>4. Len(ts) = length /\ Len(us) = length
    BY <1>1, <1>2 DEF IsLeg
<1>5. SimpleShape(o, ts) => SimpleShape(o, us)
    <2>1. 1 \in 1 .. length /\ (length = 2 => 2 \in 1 .. length)
          /\ (length = 3 => 2 \in 1 .. length /\ 3 \in 1 .. length)
        OBVIOUS
    <2> QED
        BY <1>1, <1>2, <1>3, <1>4, <2>1 DEF SimpleShape, IsLeg
<1>6. SourceShape(o, ts) => SourceShape(o, us)
    BY <1>1, <1>2, <1>3, <1>4 DEF SourceShape, IsLeg
<1>7. DestinationShape(o, ts) => DestinationShape(o, us)
    BY <1>1, <1>2, <1>3, <1>4 DEF DestinationShape, IsLeg
<1>8. TopUpShape(o, ts) => TopUpShape(o, us)
    BY <1>1, <1>2, <1>3, <1>4 DEF TopUpShape, IsLeg
<1>9. Shape(o, l, us)
    BY <1>5, <1>6, <1>7, <1>8 DEF Shape
<1>10. \A n \in 1 .. length : us[n].ID = ts[n].ID /\ (n < length => "linked" \in us[n].Flags)
    <2> SUFFICES ASSUME NEW n \in 1 .. length
                 PROVE  us[n].ID = ts[n].ID /\ (n < length => "linked" \in us[n].Flags)
        OBVIOUS
    <2>1. PICK k, debit, credit, amount : Posts(ts[n], o, k, debit, credit, amount)
        <3>1. n = 1 \/ n = 2 \/ n = 3
            OBVIOUS
        <3> QED
            BY <3>1, <1>4 DEF Shape, SimpleShape, SourceShape, DestinationShape,
                TopUpShape, IsLeg
    <2>2. us[n].ID = ts[n].ID
        <3>1. Posts(us[n], o, k, debit, credit, amount)
            BY <2>1, <1>3, Zenon
        <3> DEFINE t == ts[n]
                   u == us[n]
        <3>2. Posts(t, o, k, debit, credit, amount) /\ Posts(u, o, k, debit, credit, amount)
            BY <2>1, <3>1
        <3> HIDE DEF t, u
        <3>3. u.ID = <<o.name, k>> /\ t.ID = <<o.name, k>>
            BY <3>2, PostsFields
        <3> QED
            BY <3>3 DEF t, u
    <2>3. n < length => "linked" \in us[n].Flags
        BY <2>1, <1>2, MarkOne
    <2> QED
        BY <2>2, <2>3
<1>11. "linked" \notin us[length].Flags
    BY <1>2, <1>4 DEF Flagged
<1>12. /\ DOMAIN us = DOMAIN ts /\ DOMAIN ts = 1 .. length
    BY <1>1, <1>2 DEF IsLeg
<1>13. \A n \in 1 .. length : "linked" \in us[n].Flags <=> n < length
    BY <1>10, <1>11
<1>14. Flagged(o, us)
    BY <1>4, <1>11, <1>13 DEF Flagged
<1> QED
    BY <1>4, <1>9, <1>10, <1>12, <1>13, <1>14 DEF us, SameIDs

-----------------------------------------------------------------------------
(* What entries move.                                                      *)

\* A finite set of entries, the amounts of which can be summed.
IsBook(J) == IsFiniteSet(J) /\ \A t \in J : t.amount \in Nat

Net(J, id) == Credits(J, id) - Debits(J, id)

PendingOut(c) == System("PENDING_OUTBOUND", c)
Position(c) == System("FX_SETTLEMENT", c)

\* Accounts of different types or owners are different accounts.
LEMMA AccountsDiffer ==
    ASSUME NEW t, NEW u, NEW c, NEW d, NEW o
    PROVE  /\ System(t, c) = System(u, d) <=> t = u /\ c = d
           /\ System(t, c).type = t
           /\ Wallet(o).type = "TENANT_WALLET"
           /\ t # "TENANT_WALLET" => Wallet(o) # System(t, c)
<1>1. System(t, c).type = t /\ System(t, c).currency = c
    BY DEF System, NewAccountID
<1>2. System(u, d).type = u /\ System(u, d).currency = d
    BY DEF System, NewAccountID
<1>3. Wallet(o).type = "TENANT_WALLET"
    BY DEF Wallet, NewAccountID
<1> QED
    BY <1>1, <1>2, <1>3

LEMMA BookParts ==
    ASSUME NEW J, IsBook(J), NEW id
    PROVE  /\ Debits(J, id) \in Nat /\ Credits(J, id) \in Nat /\ PaidFrom(J, id) \in Nat
           /\ Net(J, id) \in Int
<1> DEFINE A == {t \in J : t.debit = id}
           B == {t \in J : t.credit = id}
           C == {t \in J : t.debit = id /\ t.credit.type = "PENDING_OUTBOUND"}
<1>1. IsFiniteSet(A) /\ IsFiniteSet(B) /\ IsFiniteSet(C)
    BY FS_Subset DEF IsBook
<1>2. AmountsOf(A) \in Nat /\ AmountsOf(B) \in Nat /\ AmountsOf(C) \in Nat
    <2>1. /\ \A t \in A : t.amount \in Nat
          /\ \A t \in B : t.amount \in Nat
          /\ \A t \in C : t.amount \in Nat
        BY DEF IsBook
    <2> HIDE DEF A, B, C
    <2> QED
        BY <1>1, <2>1, AmountsNat
<1> QED
    BY <1>2 DEF Debits, Credits, PaidFrom, Net

\* One more entry counts where it debits and where it credits.
LEMMA BookAdd ==
    ASSUME NEW J, IsBook(J), NEW e, e \notin J, e.amount \in Nat, NEW id
    PROVE  /\ IsBook(J \union {e})
           /\ Net(J \union {e}, id)
                 = Net(J, id) + (IF e.credit = id THEN e.amount ELSE 0)
                              - (IF e.debit = id THEN e.amount ELSE 0)
           /\ PaidFrom(J \union {e}, id)
                 = PaidFrom(J, id)
                   + (IF e.debit = id /\ e.credit.type = "PENDING_OUTBOUND"
                        THEN e.amount ELSE 0)
<1> DEFINE A(K) == {t \in K : t.debit = id}
           B(K) == {t \in K : t.credit = id}
           C(K) == {t \in K : t.debit = id /\ t.credit.type = "PENDING_OUTBOUND"}
           K == J \union {e}
<1>1. IsBook(K)
    BY FS_AddElement DEF IsBook
<1>2. /\ IsFiniteSet(A(J)) /\ IsFiniteSet(B(J)) /\ IsFiniteSet(C(J))
      /\ \A t \in A(J) \union B(J) \union C(J) : t.amount \in Nat
      /\ e \notin A(J) /\ e \notin B(J) /\ e \notin C(J)
    BY FS_Subset DEF IsBook
<1>3. AmountsOf(A(K)) = AmountsOf(A(J)) + (IF e.debit = id THEN e.amount ELSE 0)
    <2>1. CASE e.debit = id
        <3>1. A(K) = A(J) \union {e}
            BY <2>1
        <3> HIDE DEF A
        <3> QED
            BY <3>1, <2>1, <1>2, AmountsAdd
    <2>2. CASE e.debit # id
        <3>1. A(K) = A(J)
            BY <2>2
        <3>2. AmountsOf(A(J)) \in Nat
            BY <1>2, AmountsNat
        <3> HIDE DEF A
        <3> QED
            BY <3>1, <3>2, <2>2
    <2> QED
        BY <2>1, <2>2
<1>4. AmountsOf(B(K)) = AmountsOf(B(J)) + (IF e.credit = id THEN e.amount ELSE 0)
    <2>1. CASE e.credit = id
        <3>1. B(K) = B(J) \union {e}
            BY <2>1
        <3> HIDE DEF B
        <3> QED
            BY <3>1, <2>1, <1>2, AmountsAdd
    <2>2. CASE e.credit # id
        <3>1. B(K) = B(J)
            BY <2>2
        <3>2. AmountsOf(B(J)) \in Nat
            BY <1>2, AmountsNat
        <3> HIDE DEF B
        <3> QED
            BY <3>1, <3>2, <2>2
    <2> QED
        BY <2>1, <2>2
<1>5. AmountsOf(C(K)) = AmountsOf(C(J))
          + (IF e.debit = id /\ e.credit.type = "PENDING_OUTBOUND" THEN e.amount ELSE 0)
    <2>1. CASE e.debit = id /\ e.credit.type = "PENDING_OUTBOUND"
        <3>1. C(K) = C(J) \union {e}
            BY <2>1
        <3> HIDE DEF C
        <3> QED
            BY <3>1, <2>1, <1>2, AmountsAdd
    <2>2. CASE ~(e.debit = id /\ e.credit.type = "PENDING_OUTBOUND")
        <3>1. C(K) = C(J)
            BY <2>2
        <3>2. AmountsOf(C(J)) \in Nat
            BY <1>2, AmountsNat
        <3> HIDE DEF C
        <3> QED
            BY <3>1, <3>2, <2>2
    <2> QED
        BY <2>1, <2>2
<1>6. AmountsOf(A(J)) \in Nat /\ AmountsOf(B(J)) \in Nat
    BY <1>2, AmountsNat
<1> HIDE DEF A, B, C
<1> DEFINE p == IF e.credit = id THEN e.amount ELSE 0
           q == IF e.debit = id THEN e.amount ELSE 0
<1>7. p \in Nat /\ q \in Nat
    OBVIOUS
<1>8. AmountsOf(B(K)) - AmountsOf(A(K)) = AmountsOf(B(J)) - AmountsOf(A(J)) + p - q
    <2> HIDE DEF p, q
    <2> QED
        BY <1>3, <1>4, <1>6, <1>7 DEF p, q
<1> QED
    BY <1>1, <1>5, <1>8 DEF Net, Debits, Credits, PaidFrom, A, B, C

\* Entries of other accounts do not count.
LEMMA BookOthers ==
    ASSUME NEW J, NEW D, NEW id, \A t \in D : t.debit # id
    PROVE  /\ PaidFrom(J \union D, id) = PaidFrom(J, id)
           /\ (\A t \in D : t.credit # id) => Net(J \union D, id) = Net(J, id)
<1>1. /\ {t \in J \union D : t.debit = id} = {t \in J : t.debit = id}
      /\ {t \in J \union D : t.debit = id /\ t.credit.type = "PENDING_OUTBOUND"}
            = {t \in J : t.debit = id /\ t.credit.type = "PENDING_OUTBOUND"}
    OBVIOUS
<1>2. (\A t \in D : t.credit # id) =>
          {t \in J \union D : t.credit = id} = {t \in J : t.credit = id}
    OBVIOUS
<1> QED
    BY <1>1, <1>2, Zenon DEF Net, Debits, Credits, PaidFrom

-----------------------------------------------------------------------------
(* What a leg moves.                                                       *)

\* The request with the transfers ts, and the entries it may leave.
Events(ts) == [n \in DOMAIN ts |-> toTigerBeetle(ts[n])]
All(ts) == {Events(ts)[n] : n \in 1 .. Len(Events(ts))}

\* The entry of the n-th transfer of order o.
Enters(e, o, n, debit, credit, amount) ==
    e.id = <<o.name, n>> /\ e.debit = debit /\ e.credit = credit /\ e.amount = amount

LEMMA PostsEnters ==
    ASSUME NEW t, NEW o, NEW n, NEW debit, NEW credit, NEW amount,
           Posts(t, o, n, debit, credit, amount)
    PROVE  Enters(toTigerBeetle(t), o, n, debit, credit, amount)
<1>1. /\ t.ID = <<o.name, n>> /\ t.DebitAccount = debit
      /\ t.CreditAccount = credit /\ t.Amount = amount
    BY PostsFields
<1> QED
    BY <1>1 DEF Enters, toTigerBeetle

LEMMA EventsOf ==
    ASSUME NEW ts, NEW length \in {1, 2, 3}, IsLeg(ts, length)
    PROVE  /\ Len(Events(ts)) = length /\ DOMAIN Events(ts) = 1 .. length
           /\ \A n \in 1 .. length : /\ Events(ts)[n] = toTigerBeetle(ts[n])
                                     /\ Events(ts)[n].id = ts[n].ID
                                     /\ Events(ts)[n].flags = ts[n].Flags
           /\ length = 1 => All(ts) = {Events(ts)[1]}
           /\ length = 2 => All(ts) = {Events(ts)[1]} \union {Events(ts)[2]}
           /\ length = 3 => All(ts) = ({Events(ts)[1]} \union {Events(ts)[2]})
                                         \union {Events(ts)[3]}
<1> DEFINE es == Events(ts)
<1>1. DOMAIN es = 1 .. length /\ es \in Seq({es[n] : n \in 1 .. length})
    BY DEF Events, IsLeg
<1>2. \A n \in 1 .. length : es[n] = toTigerBeetle(ts[n])
    BY DEF Events, IsLeg
<1>3. \A n \in 1 .. length : es[n].id = ts[n].ID /\ es[n].flags = ts[n].Flags
    <2>1. \A t : toTigerBeetle(t).id = t.ID /\ toTigerBeetle(t).flags = t.Flags
        BY DEF toTigerBeetle
    <2> HIDE DEF es
    <2> QED
        BY <1>2, <2>1
<1> HIDE DEF es
<1>4. Len(es) = length
    BY <1>1
<1>5. /\ 1 .. 1 = {1} /\ 1 .. 2 = {1, 2} /\ 1 .. 3 = {1, 2, 3}
    OBVIOUS
<1>6. All(ts) = {es[n] : n \in 1 .. length}
    BY <1>4 DEF All, es
<1>7. /\ length = 1 => All(ts) = {es[1]}
      /\ length = 2 => All(ts) = {es[1]} \union {es[2]}
      /\ length = 3 => All(ts) = ({es[1]} \union {es[2]}) \union {es[3]}
    BY <1>5, <1>6
<1> QED
    BY <1>1, <1>2, <1>3, <1>4, <1>7 DEF es

\* Book K is book J after one entry.
Shift(J, K, debit, credit, amount) ==
    /\ IsBook(K)
    /\ \A id : /\ Net(J, id) \in Int /\ Net(K, id) \in Int
               /\ PaidFrom(J, id) \in Nat /\ PaidFrom(K, id) \in Nat
               /\ Net(K, id) = Net(J, id) + (IF credit = id THEN amount ELSE 0)
                                          - (IF debit = id THEN amount ELSE 0)
               /\ PaidFrom(K, id)
                     = PaidFrom(J, id)
                       + (IF debit = id /\ credit.type = "PENDING_OUTBOUND"
                            THEN amount ELSE 0)

LEMMA EnterOne ==
    ASSUME NEW J, IsBook(J), NEW e, e \notin J, NEW o, NEW n, NEW debit, NEW credit,
           NEW amount \in Nat, Enters(e, o, n, debit, credit, amount)
    PROVE  Shift(J, J \union {e}, debit, credit, amount)
<1>1. e.amount = amount /\ e.debit = debit /\ e.credit = credit
    BY DEF Enters
<1>2. IsBook(J \union {e})
    BY <1>1, BookAdd
<1> QED
    BY <1>1, <1>2, BookAdd, BookParts DEF Shift

\* What posting leg l of order o adds to the net of an FX position.
Brought(o, l, c) == IF o.kind = "fx" /\ l = 1 /\ o.srcCurrency = c THEN o.amount ELSE 0
PaidOut(o, l, c) ==
    IF o.kind = "fx" /\ l = 2 /\ o.dstCurrency = c
      THEN o.dstAmount + Excess(o.dstAmount, o.feeAmount) ELSE 0

\* What it takes from PENDING_OUTBOUND beyond what it brings there.
Overpaid(o, l, c) ==
    IF o.kind = "simple" /\ l = 1 /\ o.srcCurrency = c
      THEN Excess(o.amount, o.feeAmount) ELSE 0

Taken(o, l, w) == IF l = 1 /\ Wallet(o) = w THEN o.amount ELSE 0

\* The entries of a leg have ids of their own, none of them in the journal J.
Fresh(ts, J) ==
    /\ \A i, j \in 1 .. Len(ts) : Events(ts)[i].id = Events(ts)[j].id => i = j
    /\ \A i \in 1 .. Len(ts) : \A t \in J : t.id # Events(ts)[i].id

SimpleMoved(o, J, K) ==
    /\ IsBook(K)
    /\ \A c : Net(K, Position(c)) = Net(J, Position(c))
    /\ \A c : Net(K, PendingOut(c))
            = Net(J, PendingOut(c))
              - (IF o.srcCurrency = c THEN Excess(o.amount, o.feeAmount) ELSE 0)
    /\ \A p \in Orders : PaidFrom(K, Wallet(p))
            = PaidFrom(J, Wallet(p)) + (IF Wallet(o) = Wallet(p) THEN o.amount ELSE 0)

\* What the transfers of a simple chain move, account by account.
LEMMA SimpleMoves ==
    ASSUME NEW o \in Orders, NEW ts, SimpleShape(o, ts), NEW J, IsBook(J), Fresh(ts, J)
    PROVE  SimpleMoved(o, J, J \union All(ts))
<1> DEFINE e(n) == Events(ts)[n]
           out == System("PENDING_OUTBOUND", o.srcCurrency)
           revenue == System("FEE_REVENUE", o.srcCurrency)
           settlement == System("REGIONAL_SETTLEMENT", o.srcCurrency)
           net == Minus(o.amount, o.feeAmount)
           J1 == J \union {e(1)}
           J2 == J1 \union {e(2)}
           J3 == J2 \union {e(3)}
           excess == Excess(o.amount, o.feeAmount)
<1>1. /\ o.amount \in Nat /\ o.feeAmount \in Nat /\ net \in Nat /\ excess \in Nat
      /\ net = o.amount - o.feeAmount + excess
      /\ o.feeAmount = 0 => excess = 0
    <2>1. /\ o.amount \in Nat /\ o.amount < Word /\ o.feeAmount \in Nat /\ o.feeAmount < Word
        BY OrderTypes
    <2>2. net \in 0 .. Word - 1 /\ net = o.amount - o.feeAmount + excess
        BY <2>1, MinusRange
    <2>3. excess \in Nat /\ (o.feeAmount = 0 => excess = 0)
        BY <2>1, WordAssumption DEF Excess
    <2> HIDE DEF net, excess
    <2> QED
        BY <2>1, <2>2, <2>3
<1>2. \A c : /\ out = PendingOut(c) <=> o.srcCurrency = c
             /\ revenue # PendingOut(c) /\ settlement # PendingOut(c)
             /\ Wallet(o) # PendingOut(c)
             /\ out # Position(c) /\ revenue # Position(c) /\ settlement # Position(c)
             /\ Wallet(o) # Position(c)
    BY AccountsDiffer DEF PendingOut, Position
<1>3. \A p \in Orders : /\ out # Wallet(p) /\ revenue # Wallet(p) /\ settlement # Wallet(p)
    BY AccountsDiffer
<1>4. out.type = "PENDING_OUTBOUND" /\ settlement.type # "PENDING_OUTBOUND"
      /\ revenue.type # "PENDING_OUTBOUND"
    BY AccountsDiffer
<1>5. CASE o.feeAmount > 0 /\ IsLeg(ts, 3)
    <2>1. /\ Posts(ts[1], o, 1, Wallet(o), out, o.amount)
          /\ Posts(ts[2], o, 2, out, revenue, o.feeAmount)
          /\ Posts(ts[3], o, 3, out, settlement, net)
        BY <1>5 DEF SimpleShape, IsLeg
    <2>2. /\ e(1) = toTigerBeetle(ts[1]) /\ e(2) = toTigerBeetle(ts[2])
          /\ e(3) = toTigerBeetle(ts[3]) /\ J \union All(ts) = J3
        BY <1>5, EventsOf
    <2>3. Len(ts) = 3
        BY <1>5 DEF IsLeg
    <2>4. e(1) \notin J /\ e(2) \notin J1 /\ e(3) \notin J2
        BY <2>3 DEF Fresh
    <2> HIDE DEF e, out, revenue, settlement, net, excess
    <2>5. /\ Enters(e(1), o, 1, Wallet(o), out, o.amount)
          /\ Enters(e(2), o, 2, out, revenue, o.feeAmount)
          /\ Enters(e(3), o, 3, out, settlement, net)
        BY <2>1, <2>2, PostsEnters
    <2>6. Shift(J, J1, Wallet(o), out, o.amount)
        BY <2>4, <2>5, <1>1, EnterOne
    <2>7. Shift(J1, J2, out, revenue, o.feeAmount)
        <3> HIDE DEF J1
        <3>1. IsBook(J1)
            BY <2>6 DEF Shift
        <3> QED
            BY <2>4, <2>5, <1>1, <3>1, EnterOne
    <2>8. Shift(J2, J3, out, settlement, net)
        <3> HIDE DEF J2
        <3>1. IsBook(J2)
            BY <2>7 DEF Shift
        <3> QED
            BY <2>4, <2>5, <1>1, <3>1, EnterOne
    <2> HIDE DEF J1, J2, J3
    <2>9. ASSUME NEW c PROVE Net(J3, Position(c)) = Net(J, Position(c))
        BY <2>6, <2>7, <2>8, <1>2 DEF Shift
    <2>10. ASSUME NEW c
           PROVE  Net(J3, PendingOut(c))
                      = Net(J, PendingOut(c)) - (IF o.srcCurrency = c THEN excess ELSE 0)
        <3> DEFINE id == PendingOut(c)
        <3>1. CASE o.srcCurrency = c
            <4>1. Net(J1, id) = Net(J, id) + o.amount /\ Net(J, id) \in Int
                BY <3>1, <2>6, <1>1, <1>2 DEF Shift
            <4>2. Net(J2, id) = Net(J1, id) - o.feeAmount /\ Net(J1, id) \in Int
                BY <3>1, <2>7, <1>1, <1>2 DEF Shift
            <4>3. Net(J3, id) = Net(J2, id) - net /\ Net(J2, id) \in Int
                BY <3>1, <2>8, <1>1, <1>2 DEF Shift
            <4> QED
                BY <3>1, <4>1, <4>2, <4>3, <1>1
        <3>2. CASE o.srcCurrency # c
            BY <3>2, <2>6, <2>7, <2>8, <1>2 DEF Shift
        <3> QED
            BY <3>1, <3>2
    <2>11. ASSUME NEW p \in Orders
           PROVE  PaidFrom(J3, Wallet(p)) = PaidFrom(J, Wallet(p))
                      + (IF Wallet(o) = Wallet(p) THEN o.amount ELSE 0)
        BY <2>6, <2>7, <2>8, <1>1, <1>3, <1>4 DEF Shift
    <2>12. IsBook(J3)
        BY <2>8 DEF Shift
    <2> QED
        BY <2>2, <2>9, <2>10, <2>11, <2>12 DEF SimpleMoved, excess
<1>6. CASE o.feeAmount = 0 /\ IsLeg(ts, 2)
    <2>1. /\ Posts(ts[1], o, 1, Wallet(o), out, o.amount)
          /\ Posts(ts[2], o, 3, out, settlement, net)
        BY <1>6 DEF SimpleShape, IsLeg
    <2>2. /\ e(1) = toTigerBeetle(ts[1]) /\ e(2) = toTigerBeetle(ts[2])
          /\ J \union All(ts) = J2
        BY <1>6, EventsOf
    <2>3. Len(ts) = 2
        BY <1>6 DEF IsLeg
    <2>4. e(1) \notin J /\ e(2) \notin J1
        BY <2>3 DEF Fresh
    <2> HIDE DEF e, out, revenue, settlement, net, excess
    <2>5. /\ Enters(e(1), o, 1, Wallet(o), out, o.amount)
          /\ Enters(e(2), o, 3, out, settlement, net)
        BY <2>1, <2>2, PostsEnters
    <2>6. Shift(J, J1, Wallet(o), out, o.amount)
        BY <2>4, <2>5, <1>1, EnterOne
    <2>7. Shift(J1, J2, out, settlement, net)
        <3> HIDE DEF J1
        <3>1. IsBook(J1)
            BY <2>6 DEF Shift
        <3> QED
            BY <2>4, <2>5, <1>1, <3>1, EnterOne
    <2> HIDE DEF J1, J2
    <2>8. ASSUME NEW c PROVE Net(J2, Position(c)) = Net(J, Position(c))
        BY <2>6, <2>7, <1>2 DEF Shift
    <2>9. ASSUME NEW c
          PROVE  Net(J2, PendingOut(c))
                     = Net(J, PendingOut(c)) - (IF o.srcCurrency = c THEN excess ELSE 0)
        <3> DEFINE id == PendingOut(c)
        <3>1. CASE o.srcCurrency = c
            <4>1. Net(J1, id) = Net(J, id) + o.amount /\ Net(J, id) \in Int
                BY <3>1, <2>6, <1>1, <1>2 DEF Shift
            <4>2. Net(J2, id) = Net(J1, id) - net /\ Net(J1, id) \in Int
                BY <3>1, <2>7, <1>1, <1>2 DEF Shift
            <4> QED
                BY <3>1, <4>1, <4>2, <1>1, <1>6
        <3>2. CASE o.srcCurrency # c
            BY <3>2, <2>6, <2>7, <1>2 DEF Shift
        <3> QED
            BY <3>1, <3>2
    <2>10. ASSUME NEW p \in Orders
           PROVE  PaidFrom(J2, Wallet(p)) = PaidFrom(J, Wallet(p))
                      + (IF Wallet(o) = Wallet(p) THEN o.amount ELSE 0)
        BY <2>6, <2>7, <1>1, <1>3, <1>4 DEF Shift
    <2>11. IsBook(J2)
        BY <2>7 DEF Shift
    <2> QED
        BY <2>2, <2>8, <2>9, <2>10, <2>11 DEF SimpleMoved, excess
<1> QED
    BY <1>5, <1>6 DEF SimpleShape

SourceMoved(o, J, K) ==
    /\ IsBook(K)
    /\ \A c : Net(K, Position(c))
            = Net(J, Position(c)) + (IF o.srcCurrency = c THEN o.amount ELSE 0)
    /\ \A c : Net(K, PendingOut(c)) = Net(J, PendingOut(c))
    /\ \A p \in Orders : PaidFrom(K, Wallet(p))
            = PaidFrom(J, Wallet(p)) + (IF Wallet(o) = Wallet(p) THEN o.amount ELSE 0)

\* What the transfers of a source chain move.
LEMMA SourceMoves ==
    ASSUME NEW o \in Orders, NEW ts, SourceShape(o, ts), NEW J, IsBook(J), Fresh(ts, J)
    PROVE  SourceMoved(o, J, J \union All(ts))
<1> DEFINE e(n) == Events(ts)[n]
           out == System("PENDING_OUTBOUND", o.srcCurrency)
           position == System("FX_SETTLEMENT", o.srcCurrency)
           J1 == J \union {e(1)}
           J2 == J1 \union {e(2)}
<1>1. o.amount \in Nat
    BY OrderTypes
<1>2. \A c : /\ out = PendingOut(c) <=> o.srcCurrency = c
             /\ position = Position(c) <=> o.srcCurrency = c
             /\ position # PendingOut(c) /\ Wallet(o) # PendingOut(c)
             /\ out # Position(c) /\ Wallet(o) # Position(c)
    BY AccountsDiffer DEF PendingOut, Position
<1>3. /\ out.type = "PENDING_OUTBOUND" /\ position.type # "PENDING_OUTBOUND"
      /\ \A p \in Orders : out # Wallet(p)
    BY AccountsDiffer
<1>4. IsLeg(ts, 2) /\ Len(ts) = 2
    BY DEF SourceShape, IsLeg
<1>5. /\ Posts(ts[1], o, 1, Wallet(o), out, o.amount)
      /\ Posts(ts[2], o, 2, out, position, o.amount)
    BY DEF SourceShape
<1>6. /\ e(1) = toTigerBeetle(ts[1]) /\ e(2) = toTigerBeetle(ts[2])
      /\ J \union All(ts) = J2
    BY <1>4, EventsOf
<1>7. e(1) \notin J /\ e(2) \notin J1
    BY <1>4 DEF Fresh
<1> HIDE DEF e, out, position
<1>8. /\ Enters(e(1), o, 1, Wallet(o), out, o.amount)
      /\ Enters(e(2), o, 2, out, position, o.amount)
    BY <1>5, <1>6, PostsEnters
<1>9. Shift(J, J1, Wallet(o), out, o.amount)
    BY <1>7, <1>8, <1>1, EnterOne
<1>10. Shift(J1, J2, out, position, o.amount)
    <2> HIDE DEF J1
    <2>1. IsBook(J1)
        BY <1>9 DEF Shift
    <2> QED
        BY <1>7, <1>8, <1>1, <2>1, EnterOne
<1> HIDE DEF J1, J2
<1>11. ASSUME NEW c
       PROVE  Net(J2, Position(c))
                  = Net(J, Position(c)) + (IF o.srcCurrency = c THEN o.amount ELSE 0)
    BY <1>9, <1>10, <1>1, <1>2 DEF Shift
<1>12. ASSUME NEW c PROVE Net(J2, PendingOut(c)) = Net(J, PendingOut(c))
    <2>1. CASE o.srcCurrency = c
        BY <2>1, <1>9, <1>10, <1>1, <1>2 DEF Shift
    <2>2. CASE o.srcCurrency # c
        BY <2>2, <1>9, <1>10, <1>2 DEF Shift
    <2> QED
        BY <2>1, <2>2
<1>13. ASSUME NEW p \in Orders
       PROVE  PaidFrom(J2, Wallet(p)) = PaidFrom(J, Wallet(p))
                  + (IF Wallet(o) = Wallet(p) THEN o.amount ELSE 0)
    BY <1>9, <1>10, <1>1, <1>3 DEF Shift
<1>14. IsBook(J2)
    BY <1>10 DEF Shift
<1> QED
    BY <1>6, <1>11, <1>12, <1>13, <1>14 DEF SourceMoved

DestinationMoved(o, J, K) ==
    /\ IsBook(K)
    /\ \A c : Net(K, Position(c))
            = Net(J, Position(c)) - (IF o.dstCurrency = c
                                       THEN o.dstAmount + Excess(o.dstAmount, o.feeAmount)
                                       ELSE 0)
    /\ \A c : Net(K, PendingOut(c)) = Net(J, PendingOut(c))
    /\ \A p \in Orders : PaidFrom(K, Wallet(p)) = PaidFrom(J, Wallet(p))

\* What the transfers of a destination chain move.
LEMMA DestinationMoves ==
    ASSUME NEW o \in Orders, NEW ts, DestinationShape(o, ts), NEW J, IsBook(J), Fresh(ts, J)
    PROVE  DestinationMoved(o, J, J \union All(ts))
<1> DEFINE e(n) == Events(ts)[n]
           position == System("FX_SETTLEMENT", o.dstCurrency)
           revenue == System("FEE_REVENUE", o.dstCurrency)
           settlement == System("REGIONAL_SETTLEMENT", o.dstCurrency)
           net == Minus(o.dstAmount, o.feeAmount)
           J1 == J \union {e(1)}
           J2 == J1 \union {e(2)}
           paid == o.dstAmount + Excess(o.dstAmount, o.feeAmount)
<1>1. /\ o.dstAmount \in Nat /\ o.feeAmount \in Nat /\ net \in Nat /\ paid \in Nat
      /\ net = paid - o.feeAmount
    <2>1. /\ o.dstAmount \in Nat /\ o.dstAmount < Word
          /\ o.feeAmount \in Nat /\ o.feeAmount < Word
        BY OrderTypes
    <2>2. Excess(o.dstAmount, o.feeAmount) \in Nat
        BY <2>1, WordAssumption DEF Excess
    <2>3. net \in 0 .. Word - 1
          /\ net = o.dstAmount - o.feeAmount + Excess(o.dstAmount, o.feeAmount)
        BY <2>1, MinusRange
    <2> HIDE DEF net
    <2> QED
        BY <2>1, <2>2, <2>3
<1>2. \A c : /\ position = Position(c) <=> o.dstCurrency = c
             /\ revenue # Position(c) /\ settlement # Position(c)
             /\ position # PendingOut(c) /\ revenue # PendingOut(c)
             /\ settlement # PendingOut(c)
    BY AccountsDiffer DEF PendingOut, Position
<1>3. \A p \in Orders : position # Wallet(p)
    BY AccountsDiffer
<1>4. CASE o.feeAmount > 0 /\ IsLeg(ts, 2)
    <2>1. /\ Posts(ts[1], o, 3, position, revenue, o.feeAmount)
          /\ Posts(ts[2], o, 4, position, settlement, net)
        BY <1>4 DEF DestinationShape, IsLeg
    <2>2. /\ e(1) = toTigerBeetle(ts[1]) /\ e(2) = toTigerBeetle(ts[2])
          /\ J \union All(ts) = J2
        BY <1>4, EventsOf
    <2>3. Len(ts) = 2
        BY <1>4 DEF IsLeg
    <2>4. e(1) \notin J /\ e(2) \notin J1
        BY <2>3 DEF Fresh
    <2> HIDE DEF e, position, revenue, settlement, net, paid
    <2>5. /\ Enters(e(1), o, 3, position, revenue, o.feeAmount)
          /\ Enters(e(2), o, 4, position, settlement, net)
        BY <2>1, <2>2, PostsEnters
    <2>6. Shift(J, J1, position, revenue, o.feeAmount)
        BY <2>4, <2>5, <1>1, EnterOne
    <2>7. Shift(J1, J2, position, settlement, net)
        <3> HIDE DEF J1
        <3>1. IsBook(J1)
            BY <2>6 DEF Shift
        <3> QED
            BY <2>4, <2>5, <1>1, <3>1, EnterOne
    <2> HIDE DEF J1, J2
    <2>8. ASSUME NEW c
          PROVE  Net(J2, Position(c))
                     = Net(J, Position(c)) - (IF o.dstCurrency = c THEN paid ELSE 0)
        <3> DEFINE id == Position(c)
        <3>1. CASE o.dstCurrency = c
            <4>1. Net(J1, id) = Net(J, id) - o.feeAmount /\ Net(J, id) \in Int
                BY <3>1, <2>6, <1>1, <1>2 DEF Shift
            <4>2. Net(J2, id) = Net(J1, id) - net /\ Net(J1, id) \in Int
                BY <3>1, <2>7, <1>1, <1>2 DEF Shift
            <4> QED
                BY <4>1, <4>2, <1>1, <3>1
        <3>2. CASE o.dstCurrency # c
            BY <3>2, <2>6, <2>7, <1>2 DEF Shift
        <3> QED
            BY <3>1, <3>2
    <2>9. ASSUME NEW c PROVE Net(J2, PendingOut(c)) = Net(J, PendingOut(c))
        BY <2>6, <2>7, <1>2 DEF Shift
    <2>10. ASSUME NEW p \in Orders PROVE PaidFrom(J2, Wallet(p)) = PaidFrom(J, Wallet(p))
        BY <2>6, <2>7, <1>3 DEF Shift
    <2>11. IsBook(J2)
        BY <2>7 DEF Shift
    <2> QED
        BY <2>2, <2>8, <2>9, <2>10, <2>11 DEF DestinationMoved, paid
<1>5. CASE o.feeAmount = 0 /\ IsLeg(ts, 1)
    <2>1. Posts(ts[1], o, 4, position, settlement, net)
        BY <1>5 DEF DestinationShape, IsLeg
    <2>2. e(1) = toTigerBeetle(ts[1]) /\ J \union All(ts) = J1
        BY <1>5, EventsOf
    <2>3. Len(ts) = 1
        BY <1>5 DEF IsLeg
    <2>4. e(1) \notin J
        BY <2>3 DEF Fresh
    <2> HIDE DEF e, position, revenue, settlement, net, paid
    <2>5. Enters(e(1), o, 4, position, settlement, net)
        BY <2>1, <2>2, PostsEnters
    <2>6. Shift(J, J1, position, settlement, net)
        BY <2>4, <2>5, <1>1, EnterOne
    <2> HIDE DEF J1
    <2>7. net = paid
        BY <1>1, <1>5
    <2>8. ASSUME NEW c
          PROVE  Net(J1, Position(c))
                     = Net(J, Position(c)) - (IF o.dstCurrency = c THEN paid ELSE 0)
        BY <2>6, <2>7, <1>1, <1>2 DEF Shift
    <2>9. ASSUME NEW c PROVE Net(J1, PendingOut(c)) = Net(J, PendingOut(c))
        BY <2>6, <1>2 DEF Shift
    <2>10. ASSUME NEW p \in Orders PROVE PaidFrom(J1, Wallet(p)) = PaidFrom(J, Wallet(p))
        BY <2>6, <1>3 DEF Shift
    <2>11. IsBook(J1)
        BY <2>6 DEF Shift
    <2> QED
        BY <2>2, <2>8, <2>9, <2>10, <2>11 DEF DestinationMoved, paid
<1> QED
    BY <1>4, <1>5 DEF DestinationShape

\* A leg of a payout or a conversion, all of which is new to the journal.
LEMMA LegMoves ==
    ASSUME NEW o \in Orders, NEW l, NEW ts, Shape(o, l, ts), o.kind # "batch",
           NEW J, IsBook(J), Fresh(ts, J)
    PROVE  /\ IsBook(J \union All(ts))
           /\ \A c : Net(J \union All(ts), Position(c))
                   = Net(J, Position(c)) + Brought(o, l, c) - PaidOut(o, l, c)
           /\ \A c : Net(J \union All(ts), PendingOut(c))
                   = Net(J, PendingOut(c)) - Overpaid(o, l, c)
           /\ \A p \in Orders : PaidFrom(J \union All(ts), Wallet(p))
                   = PaidFrom(J, Wallet(p)) + Taken(o, l, Wallet(p))
<1> DEFINE K == J \union All(ts)
<1>1. /\ \A c : Net(J, Position(c)) \in Int /\ Net(J, PendingOut(c)) \in Int
      /\ \A p \in Orders : PaidFrom(J, Wallet(p)) \in Nat
    BY BookParts
<1>2. /\ o.amount \in Nat /\ o.dstAmount \in Nat
      /\ Excess(o.dstAmount, o.feeAmount) \in Nat
    BY OrderTypes, WordAssumption DEF Excess
<1>3. CASE o.kind = "simple" /\ l = 1 /\ SimpleShape(o, ts)
    <2>1. /\ IsBook(K)
          /\ \A c : Net(K, Position(c)) = Net(J, Position(c))
          /\ \A c : Net(K, PendingOut(c))
                 = Net(J, PendingOut(c))
                   - (IF o.srcCurrency = c THEN Excess(o.amount, o.feeAmount) ELSE 0)
          /\ \A p \in Orders : PaidFrom(K, Wallet(p))
                 = PaidFrom(J, Wallet(p)) + (IF Wallet(o) = Wallet(p) THEN o.amount ELSE 0)
        <3>1. SimpleMoved(o, J, K)
            BY <1>3, SimpleMoves
        <3> QED
            BY <3>1, Zenon DEF SimpleMoved
    <2> HIDE DEF K
    <2>2. ASSUME NEW c
          PROVE  Net(K, Position(c)) = Net(J, Position(c)) + Brought(o, l, c) - PaidOut(o, l, c)
        BY <1>1, <1>3, <2>1 DEF Brought, PaidOut
    <2>3. \A c : Net(K, PendingOut(c)) = Net(J, PendingOut(c)) - Overpaid(o, l, c)
        BY <1>3, <2>1, Zenon DEF Overpaid
    <2>4. \A p \in Orders : PaidFrom(K, Wallet(p)) = PaidFrom(J, Wallet(p)) + Taken(o, l, Wallet(p))
        BY <1>3, <2>1, Zenon DEF Taken
    <2> QED
        BY <2>1, <2>2, <2>3, <2>4, Zenon DEF K
<1>4. CASE o.kind = "fx" /\ l = 1 /\ SourceShape(o, ts)
    <2>1. /\ IsBook(K)
          /\ \A c : Net(K, Position(c))
                 = Net(J, Position(c)) + (IF o.srcCurrency = c THEN o.amount ELSE 0)
          /\ \A c : Net(K, PendingOut(c)) = Net(J, PendingOut(c))
          /\ \A p \in Orders : PaidFrom(K, Wallet(p))
                 = PaidFrom(J, Wallet(p)) + (IF Wallet(o) = Wallet(p) THEN o.amount ELSE 0)
        <3>1. SourceMoved(o, J, K)
            BY <1>4, SourceMoves
        <3> QED
            BY <3>1, Zenon DEF SourceMoved
    <2> HIDE DEF K
    <2>2. ASSUME NEW c
          PROVE  Net(K, Position(c)) = Net(J, Position(c)) + Brought(o, l, c) - PaidOut(o, l, c)
        BY <1>1, <1>2, <1>4, <2>1 DEF Brought, PaidOut
    <2>4. ASSUME NEW c
          PROVE  Net(K, PendingOut(c)) = Net(J, PendingOut(c)) - Overpaid(o, l, c)
        BY <1>1, <1>4, <2>1 DEF Overpaid
    <2>3. \A p \in Orders : PaidFrom(K, Wallet(p)) = PaidFrom(J, Wallet(p)) + Taken(o, l, Wallet(p))
        BY <1>4, <2>1, Zenon DEF Taken
    <2> QED
        BY <2>1, <2>2, <2>3, <2>4, Zenon DEF K
<1>5. CASE o.kind = "fx" /\ l = 2 /\ DestinationShape(o, ts)
    <2>1. /\ IsBook(K)
          /\ \A c : Net(K, Position(c))
                 = Net(J, Position(c)) - (IF o.dstCurrency = c
                                            THEN o.dstAmount + Excess(o.dstAmount, o.feeAmount)
                                            ELSE 0)
          /\ \A c : Net(K, PendingOut(c)) = Net(J, PendingOut(c))
          /\ \A p \in Orders : PaidFrom(K, Wallet(p)) = PaidFrom(J, Wallet(p))
        <3>1. DestinationMoved(o, J, K)
            BY <1>5, DestinationMoves
        <3> QED
            BY <3>1, Zenon DEF DestinationMoved
    <2> HIDE DEF K
    <2>2. ASSUME NEW c
          PROVE  Net(K, Position(c)) = Net(J, Position(c)) + Brought(o, l, c) - PaidOut(o, l, c)
        BY <1>1, <1>2, <1>5, <2>1 DEF Brought, PaidOut
    <2>4. ASSUME NEW c
          PROVE  Net(K, PendingOut(c)) = Net(J, PendingOut(c)) - Overpaid(o, l, c)
        BY <1>1, <1>5, <2>1 DEF Overpaid
    <2>3. ASSUME NEW p \in Orders
          PROVE  PaidFrom(K, Wallet(p)) = PaidFrom(J, Wallet(p)) + Taken(o, l, Wallet(p))
        <3>1. Taken(o, l, Wallet(p)) = 0
            BY <1>5 DEF Taken
        <3> QED
            BY <1>1, <2>1, <3>1
    <2> QED
        BY <2>1, <2>2, <2>3, <2>4, Zenon DEF K
<1>6. \/ o.kind = "simple" /\ l = 1 /\ SimpleShape(o, ts)
      \/ o.kind = "fx" /\ l = 1 /\ SourceShape(o, ts)
      \/ o.kind = "fx" /\ l = 2 /\ DestinationShape(o, ts)
    BY DEF Shape
<1> QED
    BY <1>3, <1>4, <1>5, <1>6, Zenon

-----------------------------------------------------------------------------
(* Posting a leg.                                                          *)

\* What posting any leg that is built adds to the balances.
LEMMA LegTransfers ==
    ASSUME NEW o \in Orders, NEW l, NEW ts, Shape(o, l, ts)
    PROVE  /\ \E length \in {1, 2, 3} : IsLeg(ts, length)
           /\ l \in {1, 2}
           /\ \A n \in 1 .. Len(ts) : \E k, debit, credit, amount :
                /\ Posts(ts[n], o, k, debit, credit, amount)
                /\ amount \in 0 .. Word - 1
                /\ o.kind = "fx" => (l = 1 <=> k \in {1, 2}) /\ (l = 2 <=> k \in {3, 4})
                /\ o.kind # "fx" => l = 1
                /\ o.kind = "batch" => credit.type # "PENDING_OUTBOUND"
                /\ o.kind = "batch" => \A c : /\ debit # PendingOut(c) /\ credit # PendingOut(c)
                                              /\ debit # Position(c) /\ credit # Position(c)
                /\ o.kind = "batch" => \A p \in Orders : debit # Wallet(p)
<1> DEFINE src == Minus(o.amount, o.feeAmount)
           dst == Minus(o.dstAmount, o.feeAmount)
           Good(t) == \E k, debit, credit, amount :
                /\ Posts(t, o, k, debit, credit, amount)
                /\ amount \in 0 .. Word - 1
                /\ o.kind = "fx" => (l = 1 <=> k \in {1, 2}) /\ (l = 2 <=> k \in {3, 4})
                /\ o.kind # "fx" => l = 1
                /\ o.kind = "batch" => credit.type # "PENDING_OUTBOUND"
                /\ o.kind = "batch" => \A c : /\ debit # PendingOut(c) /\ credit # PendingOut(c)
                                              /\ debit # Position(c) /\ credit # Position(c)
                /\ o.kind = "batch" => \A p \in Orders : debit # Wallet(p)
<1>1. /\ o.amount \in 0 .. Word - 1 /\ o.feeAmount \in 0 .. Word - 1
      /\ src \in 0 .. Word - 1 /\ dst \in 0 .. Word - 1
    <2>1. /\ o.amount \in Nat /\ o.amount < Word /\ o.feeAmount \in Nat
          /\ o.feeAmount < Word /\ o.dstAmount \in Nat /\ Word \in Nat
        BY OrderTypes, WordAssumption
    <2>2. src \in 0 .. Word - 1 /\ dst \in 0 .. Word - 1
        BY <2>1, MinusRange
    <2> QED
        BY <2>1, <2>2
<1> HIDE DEF src, dst
<1>2. CASE o.kind = "simple" /\ l = 1 /\ SimpleShape(o, ts)
    <2>1. ASSUME NEW t, NEW k, NEW debit, NEW credit, NEW amount \in 0 .. Word - 1,
                 Posts(t, o, k, debit, credit, amount)
          PROVE  Good(t)
        BY <1>2, <2>1
    <2> HIDE DEF Good
    <2>2. CASE IsLeg(ts, 3)
        <3>1. Good(ts[1]) /\ Good(ts[2]) /\ Good(ts[3])
            BY <1>1, <1>2, <2>1, <2>2 DEF SimpleShape, IsLeg, src
        <3>2. Len(ts) = 3 /\ \A n \in 1 .. 3 : n = 1 \/ n = 2 \/ n = 3
            BY <2>2 DEF IsLeg
        <3> QED
            BY <1>2, <2>2, <3>1, <3>2 DEF Good
    <2>3. CASE IsLeg(ts, 2)
        <3>1. Good(ts[1]) /\ Good(ts[2])
            BY <1>1, <1>2, <2>1, <2>3 DEF SimpleShape, IsLeg, src
        <3>2. Len(ts) = 2 /\ \A n \in 1 .. 2 : n = 1 \/ n = 2
            BY <2>3 DEF IsLeg
        <3> QED
            BY <1>2, <2>3, <3>1, <3>2 DEF Good
    <2> QED
        BY <1>2, <2>2, <2>3 DEF SimpleShape
<1>3. CASE o.kind = "fx" /\ l = 1 /\ SourceShape(o, ts)
    <2>1. ASSUME NEW t, NEW k \in {1, 2}, NEW debit, NEW credit, NEW amount \in 0 .. Word - 1,
                 Posts(t, o, k, debit, credit, amount)
          PROVE  Good(t)
        BY <1>3, <2>1
    <2> HIDE DEF Good
    <2>2. IsLeg(ts, 2) /\ Good(ts[1]) /\ Good(ts[2])
        BY <1>1, <1>3, <2>1 DEF SourceShape
    <2>3. Len(ts) = 2 /\ \A n \in 1 .. 2 : n = 1 \/ n = 2
        BY <2>2 DEF IsLeg
    <2> QED
        BY <1>3, <2>2, <2>3 DEF Good
<1>4. CASE o.kind = "fx" /\ l = 2 /\ DestinationShape(o, ts)
    <2>1. ASSUME NEW t, NEW k \in {3, 4}, NEW debit, NEW credit, NEW amount \in 0 .. Word - 1,
                 Posts(t, o, k, debit, credit, amount)
          PROVE  Good(t)
        BY <1>4, <2>1
    <2> HIDE DEF Good
    <2>2. CASE IsLeg(ts, 2)
        <3>1. Good(ts[1]) /\ Good(ts[2])
            BY <1>1, <1>4, <2>1, <2>2 DEF DestinationShape, IsLeg, dst
        <3>2. Len(ts) = 2 /\ \A n \in 1 .. 2 : n = 1 \/ n = 2
            BY <2>2 DEF IsLeg
        <3> QED
            BY <1>4, <2>2, <3>1, <3>2 DEF Good
    <2>3. CASE IsLeg(ts, 1)
        <3>1. Good(ts[1])
            BY <1>1, <1>4, <2>1, <2>3 DEF DestinationShape, IsLeg, dst
        <3>2. Len(ts) = 1 /\ \A n \in 1 .. 1 : n = 1
            BY <2>3 DEF IsLeg
        <3> QED
            BY <1>4, <2>3, <3>1, <3>2 DEF Good
    <2> QED
        BY <1>4, <2>2, <2>3 DEF DestinationShape
<1>5. CASE o.kind = "batch" /\ l = 1 /\ TopUpShape(o, ts)
    <2> DEFINE pendingIn == System("PENDING_INBOUND", o.srcCurrency)
               revenue == System("FEE_REVENUE", o.srcCurrency)
    <2>1. /\ Wallet(o).type # "PENDING_OUTBOUND" /\ revenue.type # "PENDING_OUTBOUND"
          /\ \A c : /\ pendingIn # PendingOut(c) /\ revenue # PendingOut(c)
                    /\ Wallet(o) # PendingOut(c)
                    /\ pendingIn # Position(c) /\ revenue # Position(c)
                    /\ Wallet(o) # Position(c)
          /\ \A p \in Orders : pendingIn # Wallet(p)
        BY AccountsDiffer DEF PendingOut, Position
    <2> HIDE DEF pendingIn, revenue
    <2>2. ASSUME NEW t, NEW k, NEW credit \in {Wallet(o), revenue},
                 NEW amount \in 0 .. Word - 1, Posts(t, o, k, pendingIn, credit, amount)
          PROVE  Good(t)
        BY <1>5, <2>1, <2>2
    <2> HIDE DEF Good
    <2>3. IsLeg(ts, 2) /\ Good(ts[1]) /\ Good(ts[2])
        BY <1>1, <1>5, <2>2 DEF TopUpShape, src, pendingIn, revenue
    <2>4. Len(ts) = 2 /\ \A n \in 1 .. 2 : n = 1 \/ n = 2
        BY <2>3 DEF IsLeg
    <2> QED
        BY <1>5, <2>3, <2>4 DEF Good
<1> QED
    BY <1>2, <1>3, <1>4, <1>5 DEF Shape

\* The entries of a leg.
LEMMA LegEntries ==
    ASSUME NEW o \in Orders, NEW l, NEW ts, Shape(o, l, ts)
    PROVE  /\ IsFiniteSet(All(ts))
           /\ \A e \in All(ts) : /\ e.amount \in 0 .. Word - 1
                                 /\ \E k : e.id = <<o.name, k>>
           /\ o.kind = "batch" =>
                \A e \in All(ts) :
                    /\ \A c : /\ e.debit # PendingOut(c) /\ e.credit # PendingOut(c)
                              /\ e.debit # Position(c) /\ e.credit # Position(c)
                    /\ \A p \in Orders : e.debit # Wallet(p)
           /\ \A n \in 1 .. Len(ts) : Events(ts)[n] \in All(ts)
           /\ Len(ts) \in 1 .. 3 /\ DOMAIN ts = 1 .. Len(ts)
           /\ Len(Events(ts)) = Len(ts)
<1>1. PICK length \in {1, 2, 3} : IsLeg(ts, length)
    BY LegTransfers
<1>2. /\ Len(ts) = length /\ DOMAIN ts = 1 .. length /\ Len(Events(ts)) = length
      /\ \A n \in 1 .. length : Events(ts)[n] = toTigerBeetle(ts[n])
    BY <1>1, EventsOf DEF IsLeg
<1>3. All(ts) = {Events(ts)[n] : n \in 1 .. length}
    BY <1>2 DEF All
<1>4. IsFiniteSet(All(ts))
    <2> DEFINE e(n) == Events(ts)[n]
    <2>1. /\ length = 1 => All(ts) = {e(1)}
          /\ length = 2 => All(ts) = {e(1)} \union {e(2)}
          /\ length = 3 => All(ts) = ({e(1)} \union {e(2)}) \union {e(3)}
        BY <1>1, EventsOf
    <2> HIDE DEF e
    <2>2. \A x : IsFiniteSet({x})
        BY FS_Singleton
    <2>3. IsFiniteSet({e(1)} \union {e(2)})
        BY <2>2, FS_Union
    <2>4. IsFiniteSet(({e(1)} \union {e(2)}) \union {e(3)})
        BY <2>2, <2>3, FS_Union
    <2> QED
        BY <2>1, <2>2, <2>3, <2>4
<1>5. ASSUME NEW e \in All(ts)
      PROVE  /\ e.amount \in 0 .. Word - 1
             /\ \E k : e.id = <<o.name, k>>
             /\ o.kind = "batch" =>
                  /\ \A c : /\ e.debit # PendingOut(c) /\ e.credit # PendingOut(c)
                            /\ e.debit # Position(c) /\ e.credit # Position(c)
                  /\ \A p \in Orders : e.debit # Wallet(p)
    <2>1. PICK n \in 1 .. length : e = toTigerBeetle(ts[n])
        BY <1>2, <1>3
    <2>2. PICK k, debit, credit, amount :
             /\ Posts(ts[n], o, k, debit, credit, amount)
             /\ amount \in 0 .. Word - 1
             /\ o.kind = "batch" => \A c : /\ debit # PendingOut(c) /\ credit # PendingOut(c)
                                           /\ debit # Position(c) /\ credit # Position(c)
             /\ o.kind = "batch" => \A p \in Orders : debit # Wallet(p)
        BY <1>2, LegTransfers
    <2>3. Enters(e, o, k, debit, credit, amount)
        BY <2>1, <2>2, PostsEnters
    <2> QED
        BY <2>2, <2>3 DEF Enters
<1> QED
    BY <1>2, <1>3, <1>4, <1>5

-----------------------------------------------------------------------------
(* The inductive invariant.                                                *)

Built == {o \in Orders : chains[o] # <<>>}

\* Legs keep their shape and their marks.
ChainsInv ==
    /\ chains = [o \in Orders |-> chains[o]]
    /\ IsFiniteSet(Built)
    /\ \A o \in Built :
          /\ DOMAIN chains[o] = IF o.kind = "fx" THEN {1, 2} ELSE {1}
          /\ \A l \in DOMAIN chains[o] : Shape(o, l, chains[o][l]) /\ Flagged(o, chains[o][l])

\* Entries come from legs that were built.
JournalInv ==
    /\ IsFiniteSet(journal)
    /\ \A t \in journal : /\ t.amount \in 0 .. Word - 1
                          /\ \E o \in Built : \E k : t.id = <<o.name, k>>
    /\ JournalOK(journal, spent)

LedgerInv ==
    /\ ChainsInv
    /\ JournalInv
    /\ accounts \subseteq Opened \union Openable
    /\ told \subseteq [order : Names, leg : {1, 2}, ok : BOOLEAN]
    /\ calls \in 0 .. MaxCalls

\* What is posted for leg l of order o: the leg, marked or as it stands.
Request(o, l, ts) ==
    /\ o \in Built /\ l \in DOMAIN chains[o]
    /\ ts = chains[o][l] \/ ts = LinkAllButLast(chains[o][l])
    /\ Post(o, l, ts)

\* The batch of a request is a built leg, marked or not.
LEMMA RequestShape ==
    ASSUME LedgerInv, NEW o, NEW l, NEW ts, Request(o, l, ts)
    PROVE  /\ o \in Orders /\ Shape(o, l, ts) /\ Flagged(o, ts)
           /\ SameIDs(chains[o][l], ts)
<1>1. o \in Orders /\ Shape(o, l, chains[o][l]) /\ Flagged(o, chains[o][l])
    BY DEF LedgerInv, ChainsInv, Request, Built
<1>2. CASE ts = chains[o][l]
    BY <1>1, <1>2 DEF SameIDs
<1>3. CASE ts = LinkAllButLast(chains[o][l])
    <2> DEFINE us == chains[o][l]
    <2>1. Shape(o, l, us) /\ Flagged(o, us)
        BY <1>1
    <2> HIDE DEF us
    <2> DEFINE vs == LinkAllButLast(us)
    <2>2. Shape(o, l, vs) /\ Flagged(o, vs)
        BY <1>1, <2>1, MarkedShape
    <2>3. SameIDs(us, vs)
        BY <1>1, <2>1, MarkedShape
    <2> HIDE DEF vs
    <2>4. ts = vs
        BY <1>3 DEF us, vs
    <2> QED
        BY <1>1, <2>2, <2>3, <2>4 DEF us
<1> QED
    BY <1>2, <1>3 DEF Request

\* Marked transfers are a chain.
LEMMA MarkedIsChain ==
    ASSUME NEW o \in Orders, NEW l, NEW ts, Shape(o, l, ts),
           \A n \in 1 .. Len(ts) : "linked" \in ts[n].Flags <=> n < Len(ts)
    PROVE  IsChain(Events(ts))
<1>1. PICK length \in {1, 2, 3} : IsLeg(ts, length)
    BY LegTransfers
<1>2. /\ Len(ts) = length /\ Len(Events(ts)) = length
      /\ \A n \in 1 .. length : Events(ts)[n].flags = ts[n].Flags
    BY <1>1, EventsOf DEF IsLeg
<1> QED
    BY <1>2 DEF IsChain

\* What one request does to the journal.
Effect(o, ts) ==
    /\ journal \subseteq journal'
    /\ journal' \subseteq journal \union All(ts)
    /\ JournalOK(journal', spent')
    /\ o.kind # "batch" => \/ journal' = journal
                           \/ journal' = journal \union All(ts) /\ Fresh(ts, journal)
    /\ (\A n \in 1 .. Len(ts) : "linked" \in ts[n].Flags <=> n < Len(ts)) =>
           \/ journal' = journal
           \/ journal' = journal \union All(ts) /\ Fresh(ts, journal)

\* What the caller may be told of it.
Answer(o, l, ts) ==
    \/ told' = told
    \/ \E ok \in BOOLEAN :
          /\ told' = told \union {[order |-> o.name, leg |-> l, ok |-> ok]}
          /\ ok => journal' = journal \union All(ts)

\* What a request does to the journal, and what it may answer.
LEMMA RequestEffect ==
    ASSUME LedgerInv, NEW o, NEW l, NEW ts, Request(o, l, ts)
    PROVE  /\ Effect(o, ts) /\ Answer(o, l, ts)
           /\ accounts' = accounts /\ calls' \in 0 .. MaxCalls
<1> DEFINE r == create_transfers(Events(ts))
           marked == \A n \in 1 .. Len(ts) : "linked" \in ts[n].Flags <=> n < Len(ts)
<1>1. /\ o \in Orders /\ Shape(o, l, ts) /\ Flagged(o, ts)
    BY RequestShape
<1>2. /\ Len(Events(ts)) = Len(ts) /\ Len(ts) \in 1 .. 3
    BY <1>1, LegEntries
<1>3. /\ journal' = r.entries /\ spent' = r.failed
      /\ \/ told' = told \union {[order |-> o.name, leg |-> l, ok |-> r.ok]}
         \/ told' = told
      /\ accounts' = accounts /\ calls < MaxCalls /\ calls' = calls + 1
    BY DEF Request, Post, Events
<1>4. calls' \in 0 .. MaxCalls
    BY <1>3, WordAssumption DEF LedgerInv
<1>5. JournalOK(journal, spent)
    BY DEF LedgerInv, JournalInv
<1>6. /\ journal \subseteq r.entries
      /\ r.entries \subseteq journal \union All(ts)
      /\ r.ok \in BOOLEAN
      /\ r.ok => r.entries = journal \union All(ts)
      /\ JournalOK(r.entries, r.failed)
    <2> DEFINE es == Events(ts)
    <2>1. Len(es) \in Nat
        BY <1>2
    <2>2. All(ts) = {es[i] : i \in 1 .. Len(es)}
        BY DEF All
    <2> HIDE DEF es
    <2> QED
        BY <2>1, <2>2, <1>5, BatchOutcome DEF es
<1>7. marked => \/ r.entries = journal
                \/ r.entries = journal \union All(ts) /\ Fresh(ts, journal)
    <2> SUFFICES ASSUME marked
                 PROVE  \/ r.entries = journal
                        \/ r.entries = journal \union All(ts) /\ Fresh(ts, journal)
        OBVIOUS
    <2>1. IsChain(Events(ts))
        BY <1>1, MarkedIsChain
    <2> DEFINE es == Events(ts)
    <2>2. /\ All(ts) = {es[i] : i \in 1 .. Len(es)} /\ Len(es) = Len(ts)
        BY <1>2 DEF All
    <2> HIDE DEF es
    <2>3. IsChain(es)
        BY <2>1 DEF es
    <2>4. LET s == create_transfers(es)
              all == {es[i] : i \in 1 .. Len(es)}
          IN \/ s.entries = journal /\ ~s.ok
             \/ /\ s.entries = journal \union all /\ s.ok
                /\ \A i \in 1 .. Len(es) : \A t \in journal : t.id # es[i].id
                /\ \A i, j \in 1 .. Len(es) : es[i].id = es[j].id => i = j
        BY <2>3, ChainOutcome
    <2> QED
        BY <2>2, <2>4 DEF Fresh, es
<1>8. o.kind # "batch" => marked
    BY <1>1, <1>2 DEF Flagged
<1> HIDE DEF r, marked
<1>9. Effect(o, ts)
    BY <1>3, <1>6, <1>7, <1>8 DEF Effect, marked
<1>10. Answer(o, l, ts)
    BY <1>3, <1>6 DEF Answer
<1> QED
    BY <1>3, <1>4, <1>9, <1>10

\* The two ways to post: the legs are left as they are, or one of them is marked.
Remarked(o, l) ==
    \/ chains' = chains
    \/ chains' = [chains EXCEPT ![o][l] = LinkAllButLast(@)]

\* Legs may be marked; their transfers stay.
LegsKept ==
    /\ ChainsInv' /\ Built' = Built
    /\ \A q \in Built : /\ DOMAIN chains'[q] = DOMAIN chains[q]
                        /\ \A k \in DOMAIN chains[q] : SameIDs(chains[q][k], chains'[q][k])

\* A step opens an account, builds an order, posts a leg, or stutters.
LEMMA NextCases ==
    ASSUME LedgerInv, Next
    PROVE  \/ \E a \in Openable : CreateAccount(a)
           \/ \E o \in Orders : Build(o)
           \/ \E o, l, ts : Request(o, l, ts) /\ Remarked(o, l)
<1>1. ASSUME NEW o \in Orders, NEW l \in DOMAIN chains[o]
      PROVE  /\ CreateTransfers(o, l) => \E ts : Request(o, l, ts) /\ Remarked(o, l)
             /\ CreateLinkedTransfers(o, l) => \E ts : Request(o, l, ts) /\ Remarked(o, l)
    <2>1. o \in Built
        <3>1. DOMAIN <<>> = {}
            OBVIOUS
        <3> QED
            BY <3>1 DEF Built
    <2>2. CreateTransfers(o, l) => Request(o, l, chains[o][l]) /\ Remarked(o, l)
        BY <2>1 DEF CreateTransfers, Request, Remarked
    <2>3. CreateLinkedTransfers(o, l) =>
              Request(o, l, LinkAllButLast(chains[o][l])) /\ Remarked(o, l)
        BY <2>1 DEF CreateLinkedTransfers, Request, Remarked
    <2> QED
        BY <2>2, <2>3
<1> QED
    BY <1>1 DEF Next

\* A request leaves every built leg built, up to its flags.
LEMMA LegsAreKept ==
    ASSUME LedgerInv, NEW o, NEW l, NEW ts, Request(o, l, ts), Remarked(o, l)
    PROVE  LegsKept
<1>1. /\ o \in Built /\ l \in DOMAIN chains[o] /\ o \in Orders
      /\ chains = [q \in Orders |-> chains[q]] /\ IsFiniteSet(Built)
      /\ \A q \in Built :
            /\ DOMAIN chains[q] = IF q.kind = "fx" THEN {1, 2} ELSE {1}
            /\ \A k \in DOMAIN chains[q] : Shape(q, k, chains[q][k]) /\ Flagged(q, chains[q][k])
    BY DEF LedgerInv, ChainsInv, Request, Built
<1>2. CASE chains' = chains
    <2>1. Built' = Built
        BY <1>2 DEF Built
    <2>2. ChainsInv'
        BY <1>1, <1>2, <2>1 DEF ChainsInv
    <2>3. \A q \in Built : \A k \in DOMAIN chains[q] : SameIDs(chains[q][k], chains'[q][k])
        BY <1>2 DEF SameIDs
    <2> QED
        BY <1>2, <2>1, <2>2, <2>3 DEF LegsKept
<1>3. CASE chains' = [chains EXCEPT ![o][l] = LinkAllButLast(@)]
    <2> DEFINE us == chains[o][l]
               vs == LinkAllButLast(us)
    <2>1. Shape(o, l, us) /\ Flagged(o, us)
        BY <1>1
    <2>2. Shape(o, l, vs) /\ Flagged(o, vs) /\ SameIDs(us, vs)
        <3> HIDE DEF us
        <3> QED
            BY <1>1, <2>1, MarkedShape
    <2> HIDE DEF vs
    <2>3. /\ chains' = [q \in Orders |-> chains'[q]]
          /\ \A q \in Orders : q # o => chains'[q] = chains[q]
          /\ chains'[o] = [chains[o] EXCEPT ![l] = vs]
        BY <1>1, <1>3 DEF vs
    <2>4. /\ DOMAIN chains'[o] = DOMAIN chains[o]
          /\ chains'[o][l] = vs
          /\ \A k \in DOMAIN chains[o] : k # l => chains'[o][k] = chains[o][k]
        BY <1>1, <2>3
    <2>5. Built' = Built
        <3>1. chains'[o] # <<>>
            <4>1. DOMAIN <<>> = {}
                OBVIOUS
            <4> QED
                BY <1>1, <2>4, <4>1
        <3> QED
            BY <1>1, <2>3, <3>1 DEF Built
    <2>6. ASSUME NEW q \in Built
          PROVE  /\ DOMAIN chains'[q] = DOMAIN chains[q]
                 /\ \A k \in DOMAIN chains[q] :
                       /\ SameIDs(chains[q][k], chains'[q][k])
                       /\ Shape(q, k, chains'[q][k]) /\ Flagged(q, chains'[q][k])
        <3>1. CASE q = o
            <4>1. \A k \in DOMAIN chains[o] :
                      /\ SameIDs(chains[o][k], chains'[o][k])
                      /\ Shape(o, k, chains'[o][k]) /\ Flagged(o, chains'[o][k])
                <5> SUFFICES ASSUME NEW k \in DOMAIN chains[o]
                             PROVE  /\ SameIDs(chains[o][k], chains'[o][k])
                                    /\ Shape(o, k, chains'[o][k])
                                    /\ Flagged(o, chains'[o][k])
                    OBVIOUS
                <5>1. CASE k = l
                    BY <5>1, <2>2, <2>4
                <5>2. CASE k # l
                    BY <5>2, <1>1, <2>4 DEF SameIDs
                <5> QED
                    BY <5>1, <5>2
            <4> QED
                BY <3>1, <2>4, <4>1
        <3>2. CASE q # o
            <4>1. chains'[q] = chains[q]
                BY <3>2, <2>3 DEF Built
            <4> QED
                BY <4>1, <1>1 DEF SameIDs
        <3> QED
            BY <3>1, <3>2
    <2>7. ChainsInv'
        BY <1>1, <2>3, <2>5, <2>6 DEF ChainsInv
    <2> QED
        BY <2>5, <2>6, <2>7 DEF LegsKept
<1> QED
    BY <1>2, <1>3 DEF Remarked

\* LedgerInv holds at the start.
LEMMA InitLedgerInv == Init => LedgerInv
<1> SUFFICES ASSUME Init PROVE LedgerInv
    OBVIOUS
<1> USE DEF Init
<1>1. ChainsInv
    <2>1. Built = {}
        BY DEF Built
    <2> QED
        BY <2>1, FS_EmptySet DEF ChainsInv
<1>2. JournalInv
    BY FS_EmptySet DEF JournalInv, JournalOK
<1> QED
    BY <1>1, <1>2, WordAssumption DEF LedgerInv

\* Opening an account keeps LedgerInv.
LEMMA AccountKeepsInv ==
    ASSUME LedgerInv, NEW a \in Openable, CreateAccount(a)
    PROVE  LedgerInv'
<1>1. /\ accounts' = accounts \union {a}
      /\ UNCHANGED <<journal, spent, chains, told, calls>>
    BY DEF CreateAccount
<1>2. ChainsInv' /\ Built' = Built
    BY <1>1 DEF LedgerInv, ChainsInv, Built
<1>3. JournalOK(journal, spent)'
    <2>1. JournalOK(journal, spent)
        BY DEF LedgerInv, JournalInv
    <2> QED
        BY <1>1, <2>1 DEF JournalOK
<1>4. JournalInv'
    BY <1>1, <1>2, <1>3 DEF LedgerInv, JournalInv
<1> QED
    BY <1>1, <1>2, <1>4 DEF LedgerInv

\* Building an order keeps LedgerInv.
LEMMA BuildKeepsInv ==
    ASSUME LedgerInv, NEW o \in Orders, Build(o)
    PROVE  LedgerInv' /\ Built' = Built \union {o} /\ o \notin Built
           /\ \A q \in Built : chains'[q] = chains[q]
<1>1. /\ chains[o] = <<>>
      /\ chains' = [chains EXCEPT ![o] = LegsOf(o)]
      /\ UNCHANGED <<accounts, journal, spent, told, calls>>
      /\ chains = [q \in Orders |-> chains[q]]
    BY DEF Build, LedgerInv, ChainsInv
<1>2. /\ chains' = [q \in Orders |-> chains'[q]]
      /\ chains'[o] = LegsOf(o)
      /\ \A q \in Orders : q # o => chains'[q] = chains[q]
    BY <1>1
<1>3. /\ DOMAIN LegsOf(o) = IF o.kind = "fx" THEN {1, 2} ELSE {1}
      /\ \A l \in DOMAIN LegsOf(o) : Shape(o, l, LegsOf(o)[l]) /\ Flagged(o, LegsOf(o)[l])
    BY LegsBuilt
<1>4. LegsOf(o) # <<>>
    <2>1. DOMAIN <<>> = {}
        OBVIOUS
    <2> QED
        BY <1>3, <2>1
<1>5. o \notin Built /\ Built' = Built \union {o}
    BY <1>1, <1>2, <1>4 DEF Built
<1>6. IsFiniteSet(Built')
    BY <1>5, FS_AddElement DEF LedgerInv, ChainsInv
<1>7. ChainsInv'
    <2>1. ASSUME NEW q \in Built'
          PROVE  /\ DOMAIN chains'[q] = IF q.kind = "fx" THEN {1, 2} ELSE {1}
                 /\ \A l \in DOMAIN chains'[q] :
                       Shape(q, l, chains'[q][l]) /\ Flagged(q, chains'[q][l])
        <3>1. CASE q = o
            BY <3>1, <1>2, <1>3
        <3>2. CASE q # o
            <4>1. q \in Built /\ chains'[q] = chains[q]
                BY <3>2, <1>2, <1>5 DEF Built
            <4> QED
                BY <4>1 DEF LedgerInv, ChainsInv
        <3> QED
            BY <3>1, <3>2
    <2> QED
        BY <1>2, <1>6, <2>1 DEF ChainsInv
<1>8. JournalInv'
    BY <1>1, <1>5 DEF LedgerInv, JournalInv, JournalOK
<1>9. LedgerInv'
    BY <1>1, <1>7, <1>8 DEF LedgerInv
<1> QED
    BY <1>2, <1>5, <1>9 DEF Built

\* Posting a leg keeps LedgerInv.
LEMMA RequestKeepsInv ==
    ASSUME LedgerInv, NEW o, NEW l, NEW ts, Request(o, l, ts), Remarked(o, l)
    PROVE  LedgerInv'
<1>1. LegsKept
    BY LegsAreKept
<1>2. /\ Effect(o, ts) /\ Answer(o, l, ts)
      /\ accounts' = accounts /\ calls' \in 0 .. MaxCalls
    BY RequestEffect
<1>3. /\ o \in Built /\ o \in Orders /\ Shape(o, l, ts)
    BY RequestShape DEF Request
<1>4. /\ IsFiniteSet(All(ts))
      /\ \A e \in All(ts) : e.amount \in 0 .. Word - 1 /\ \E k : e.id = <<o.name, k>>
      /\ l \in {1, 2}
    BY <1>3, LegEntries, LegTransfers
<1>5. JournalInv'
    <2>1. IsFiniteSet(journal')
        <3>1. IsFiniteSet(journal \union All(ts))
            BY <1>4, FS_Union DEF LedgerInv, JournalInv
        <3> QED
            BY <3>1, <1>2, FS_Subset DEF Effect
    <2>2. ASSUME NEW t \in journal'
          PROVE  /\ t.amount \in 0 .. Word - 1
                 /\ \E q \in Built' : \E k : t.id = <<q.name, k>>
        <3>1. t \in journal \/ t \in All(ts)
            BY <1>2 DEF Effect
        <3> QED
            BY <3>1, <1>1, <1>3, <1>4 DEF LedgerInv, JournalInv, LegsKept
    <2>3. JournalOK(journal, spent)'
        BY <1>2 DEF Effect, JournalOK
    <2> QED
        BY <2>1, <2>2, <2>3 DEF JournalInv
<1>6. told' \subseteq [order : Names, leg : {1, 2}, ok : BOOLEAN]
    BY <1>2, <1>3, <1>4 DEF Answer, LedgerInv, Names
<1> QED
    BY <1>1, <1>2, <1>5, <1>6 DEF LedgerInv, LegsKept

\* LedgerInv is inductive.
LEMMA LedgerInvKept == LedgerInv /\ [Next]_vars => LedgerInv'
<1> SUFFICES ASSUME LedgerInv, [Next]_vars PROVE LedgerInv'
    OBVIOUS
<1>1. CASE Next
    BY <1>1, NextCases, AccountKeepsInv, BuildKeepsInv, RequestKeepsInv
<1>2. CASE UNCHANGED vars
    <2>1. Built' = Built
        BY <1>2 DEF vars, Built
    <2> QED
        BY <1>2, <2>1 DEF vars, LedgerInv, ChainsInv, JournalInv, JournalOK
<1> QED
    BY <1>1, <1>2

\* The inductive invariant: every leg that is built has the shape its builder
\* gives it, and every entry of the journal comes from such a leg, once.
THEOREM LedgerIsSound == Spec => []LedgerInv
BY InitLedgerInv, LedgerInvKept, PTL DEF Spec

-----------------------------------------------------------------------------
(* Which legs are posted.                                                  *)

\* Legs share no ids.
LEMMA LegsApart ==
    ASSUME NEW o \in Orders, NEW l, NEW ts, Shape(o, l, ts),
           NEW q \in Orders, NEW k, NEW us, Shape(q, k, us),
           NEW n \in 1 .. Len(ts), NEW m \in 1 .. Len(us), ts[n].ID = us[m].ID
    PROVE  o = q /\ l = k
<1>1. PICK i, d1, c1, a1 :
          /\ Posts(ts[n], o, i, d1, c1, a1)
          /\ o.kind = "fx" => (l = 1 <=> i \in {1, 2}) /\ (l = 2 <=> i \in {3, 4})
          /\ o.kind # "fx" => l = 1
    BY LegTransfers
<1>2. PICK j, d2, c2, a2 :
          /\ Posts(us[m], q, j, d2, c2, a2)
          /\ q.kind = "fx" => (k = 1 <=> j \in {1, 2}) /\ (k = 2 <=> j \in {3, 4})
          /\ q.kind # "fx" => k = 1
    BY LegTransfers
<1> DEFINE t == ts[n]
           u == us[m]
<1>3. Posts(t, o, i, d1, c1, a1) /\ Posts(u, q, j, d2, c2, a2) /\ t.ID = u.ID
    BY <1>1, <1>2
<1> HIDE DEF t, u
<1>4. t.ID = <<o.name, i>> /\ u.ID = <<q.name, j>>
    BY <1>3, PostsFields
<1>5. o.name = q.name /\ i = j
    <2>1. \A a, b, x, y : <<a, x>> = <<b, y>> => a = b /\ x = y
        OBVIOUS
    <2>2. <<o.name, i>> = <<q.name, j>>
        BY <1>3, <1>4
    <2> QED
        BY <2>1, <2>2, Zenon
<1>6. o = q
    BY <1>5, OrdersAssumption
<1>7. l \in {1, 2} /\ k \in {1, 2}
    BY LegTransfers
<1> QED
    BY <1>1, <1>2, <1>5, <1>6, <1>7

\* A leg that is posted was built.
LEMMA PostedIsBuilt ==
    ASSUME NEW o \in Orders, NEW l, Posted(o, l)
    PROVE  o \in Built
<1>1. DOMAIN <<>> = {}
    OBVIOUS
<1> QED
    BY <1>1 DEF Posted, Built

\* The entries a request leaves carry the ids of its transfers.
LEMMA EntryIDs ==
    ASSUME NEW o \in Orders, NEW l, NEW ts, Shape(o, l, ts)
    PROVE  /\ \A e \in All(ts) : \E n \in 1 .. Len(ts) : e.id = ts[n].ID
           /\ \A n \in 1 .. Len(ts) : Events(ts)[n].id = ts[n].ID /\ Events(ts)[n] \in All(ts)
           /\ DOMAIN ts = 1 .. Len(ts) /\ Len(ts) \in 1 .. 3
<1>1. PICK length \in {1, 2, 3} : IsLeg(ts, length)
    BY LegTransfers
<1>2. /\ Len(ts) = length /\ Len(Events(ts)) = length
      /\ \A n \in 1 .. length : Events(ts)[n].id = ts[n].ID
    BY <1>1, EventsOf DEF IsLeg
<1>3. All(ts) = {Events(ts)[n] : n \in 1 .. length}
    BY <1>2 DEF All
<1>4. DOMAIN ts = 1 .. Len(ts) /\ Len(ts) \in 1 .. 3
    BY <1>1, LegEntries
<1> QED
    BY <1>2, <1>3, <1>4

\* A request says nothing of other legs.
LEMMA OtherLegs ==
    ASSUME LedgerInv, NEW o, NEW l, NEW ts, Request(o, l, ts), Remarked(o, l),
           NEW q \in Orders, NEW k, ~(q = o /\ k = l)
    PROVE  Posted(q, k)' <=> Posted(q, k)
<1>1. LegsKept
    BY LegsAreKept
<1>2. journal \subseteq journal' /\ journal' \subseteq journal \union All(ts)
    BY RequestEffect DEF Effect
<1>3. o \in Orders /\ Shape(o, l, ts)
    BY RequestShape
<1>4. CASE q \in Built /\ k \in DOMAIN chains[q]
    <2> DEFINE us == chains[q][k]
               vs == chains'[q][k]
    <2>1. Shape(q, k, us) /\ SameIDs(us, vs) /\ k \in DOMAIN chains'[q]
        BY <1>1, <1>4 DEF LegsKept, LedgerInv, ChainsInv
    <2>2. /\ Posted(q, k) <=> \A m \in DOMAIN us : \E t \in journal : t.id = us[m].ID
          /\ Posted(q, k)' <=> \A m \in DOMAIN vs : \E t \in journal' : t.id = vs[m].ID
        BY <1>4, <2>1 DEF Posted
    <2> HIDE DEF us, vs
    <2>3. DOMAIN us = 1 .. Len(us)
        BY <2>1, EntryIDs
    <2>4. ASSUME NEW m \in DOMAIN us, NEW e \in All(ts) PROVE e.id # us[m].ID
        <3>1. PICK n \in 1 .. Len(ts) : e.id = ts[n].ID
            BY <1>3, EntryIDs
        <3>2. q \in Orders /\ m \in 1 .. Len(us)
            BY <2>3
        <3>3. ts[n].ID # us[m].ID
            BY <1>3, <2>1, <3>2, LegsApart
        <3> QED
            BY <3>1, <3>3
    <2>5. DOMAIN vs = DOMAIN us /\ \A m \in DOMAIN us : vs[m].ID = us[m].ID
        BY <2>1 DEF SameIDs
    <2> QED
        BY <1>2, <2>2, <2>4, <2>5
<1>5. CASE ~(q \in Built /\ k \in DOMAIN chains[q])
    <2>1. ~Posted(q, k)
        BY <1>5, PostedIsBuilt DEF Posted
    <2>2. ~Posted(q, k)'
        <3>1. Posted(q, k)' => q \in Built'
            <4>1. DOMAIN <<>> = {}
                OBVIOUS
            <4> QED
                BY <4>1 DEF Posted, Built
        <3>2. Posted(q, k)' => k \in DOMAIN chains'[q]
            BY DEF Posted
        <3> QED
            BY <3>1, <3>2, <1>1, <1>5 DEF LegsKept
    <2> QED
        BY <2>1, <2>2
<1> QED
    BY <1>4, <1>5

\* The leg itself is posted once all its entries are in the journal.
LEMMA OwnLeg ==
    ASSUME LedgerInv, NEW o, NEW l, NEW ts, Request(o, l, ts), Remarked(o, l)
    PROVE  /\ Posted(o, l) => Posted(o, l)'
           /\ journal' = journal => (Posted(o, l)' <=> Posted(o, l))
           /\ journal' = journal \union All(ts) => Posted(o, l)'
           /\ Fresh(ts, journal) => ~Posted(o, l)
<1>1. LegsKept
    BY LegsAreKept
<1>2. journal \subseteq journal'
    BY RequestEffect DEF Effect
<1> DEFINE us == chains[o][l]
           vs == chains'[o][l]
<1>3. o \in Orders /\ Shape(o, l, ts) /\ SameIDs(us, ts)
    BY RequestShape
<1>4. SameIDs(us, vs) /\ l \in DOMAIN chains[o] /\ l \in DOMAIN chains'[o]
    BY <1>1 DEF LegsKept, Request
<1>5. /\ Posted(o, l) <=> \A m \in DOMAIN us : \E t \in journal : t.id = us[m].ID
      /\ Posted(o, l)' <=> \A m \in DOMAIN vs : \E t \in journal' : t.id = vs[m].ID
    BY <1>4 DEF Posted
<1> HIDE DEF us, vs
<1>6. /\ DOMAIN us = 1 .. Len(ts) /\ DOMAIN vs = 1 .. Len(ts) /\ Len(ts) \in 1 .. 3
      /\ \A m \in 1 .. Len(ts) : us[m].ID = ts[m].ID /\ vs[m].ID = ts[m].ID
    BY <1>3, <1>4, EntryIDs DEF SameIDs
<1>7. \A n \in 1 .. Len(ts) : Events(ts)[n].id = ts[n].ID /\ Events(ts)[n] \in All(ts)
    BY <1>3, EntryIDs
<1>8. Fresh(ts, journal) => ~Posted(o, l)
    BY <1>5, <1>6, <1>7 DEF Fresh
<1> QED
    BY <1>2, <1>5, <1>6, <1>7, <1>8

\* Building a leg posts nothing.
LEMMA BuildPostsNothing ==
    ASSUME LedgerInv, NEW o \in Orders, Build(o), NEW q \in Orders, NEW k
    PROVE  Posted(q, k)' <=> Posted(q, k)
<1>1. /\ LedgerInv' /\ Built' = Built \union {o} /\ o \notin Built
      /\ \A p \in Built : chains'[p] = chains[p]
      /\ journal' = journal
    BY BuildKeepsInv DEF Build
<1>2. CASE q \in Built
    BY <1>1, <1>2 DEF Posted
<1>3. CASE q = o
    <2>1. ~Posted(q, k)
        BY <1>1, <1>3, PostedIsBuilt
    <2>2. ~Posted(q, k)'
        <3> SUFFICES ASSUME Posted(q, k)' PROVE FALSE
            OBVIOUS
        <3> DEFINE us == chains'[o][k]
        <3>1. k \in DOMAIN chains'[o] /\ \A n \in DOMAIN us : \E t \in journal : t.id = us[n].ID
            BY <1>1, <1>3 DEF Posted
        <3>2. Shape(o, k, us)
            BY <1>1, <3>1 DEF LedgerInv, ChainsInv
        <3> HIDE DEF us
        <3>3. 1 \in DOMAIN us /\ 1 \in 1 .. Len(us)
            BY <3>2, EntryIDs
        <3>4. PICK t \in journal : t.id = us[1].ID
            BY <3>1, <3>3
        <3>5. PICK i, d, c, a : Posts(us[1], o, i, d, c, a)
            BY <3>2, <3>3, LegTransfers
        <3> DEFINE u == us[1]
        <3>6. Posts(u, o, i, d, c, a) /\ t.id = u.ID
            BY <3>4, <3>5
        <3> HIDE DEF u
        <3>7. t.id = <<o.name, i>>
            BY <3>6, PostsFields
        <3>8. PICK p \in Built : \E j : t.id = <<p.name, j>>
            BY <3>4 DEF LedgerInv, JournalInv
        <3>9. p.name = o.name /\ p \in Orders
            BY <3>7, <3>8 DEF Built
        <3> QED
            BY <3>9, <1>1, OrdersAssumption
    <2> QED
        BY <2>1, <2>2
<1>4. CASE q \notin Built /\ q # o
    <2>1. ~Posted(q, k)
        BY <1>4, PostedIsBuilt
    <2>2. ~Posted(q, k)'
        <3>1. q \notin Built'
            BY <1>1, <1>4
        <3>2. DOMAIN <<>> = {}
            OBVIOUS
        <3> QED
            BY <3>1, <3>2 DEF Posted, Built
    <2> QED
        BY <2>1, <2>2
<1> QED
    BY <1>2, <1>3, <1>4

-----------------------------------------------------------------------------
(* What a step changes: nothing that counts, or one leg of a payout or of a *)
(* conversion is posted.                                                   *)

Pays(o) == o.kind \in {"simple", "fx"}

Quiet ==
    /\ \A c : /\ Net(journal', PendingOut(c)) = Net(journal, PendingOut(c))
              /\ Net(journal', Position(c)) = Net(journal, Position(c))
    /\ \A p \in Orders : PaidFrom(journal', Wallet(p)) = PaidFrom(journal, Wallet(p))
    /\ \A q \in Orders : Pays(q) => \A k : Posted(q, k)' <=> Posted(q, k)

PostsLeg(o, l) ==
    /\ o \in Orders /\ Pays(o) /\ l \in {1, 2} /\ (l = 2 => o.kind = "fx")
    /\ ~Posted(o, l)
    /\ \A q \in Orders : \A k :
          Posted(q, k)' <=> (Posted(q, k) \/ (q = o /\ k = l))
    /\ \A c : /\ Net(journal', PendingOut(c))
                   = Net(journal, PendingOut(c)) - Overpaid(o, l, c)
              /\ Net(journal', Position(c))
                   = Net(journal, Position(c)) + Brought(o, l, c) - PaidOut(o, l, c)
    /\ \A p \in Orders : PaidFrom(journal', Wallet(p))
                             = PaidFrom(journal, Wallet(p)) + Taken(o, l, Wallet(p))

\* A step is quiet, or it posts one leg that was not posted before.
LEMMA StepEffect ==
    ASSUME LedgerInv, [Next]_vars
    PROVE  Quiet \/ \E o, l : PostsLeg(o, l)
<1>1. CASE UNCHANGED vars
    BY <1>1, Zenon DEF vars, Quiet, Posted
<1>2. ASSUME NEW a \in Openable, CreateAccount(a) PROVE Quiet
    <2>1. journal' = journal /\ chains' = chains
        BY <1>2 DEF CreateAccount
    <2> QED
        BY <2>1, Zenon DEF Quiet, Posted
<1>3. ASSUME NEW o \in Orders, Build(o) PROVE Quiet
    <2>1. journal' = journal
        BY <1>3 DEF Build
    <2>2. \A q \in Orders : \A k : Posted(q, k)' <=> Posted(q, k)
        BY <1>3, BuildPostsNothing
    <2> QED
        BY <2>1, <2>2 DEF Quiet
<1>4. ASSUME NEW o, NEW l, NEW ts, Request(o, l, ts), Remarked(o, l)
      PROVE  Quiet \/ PostsLeg(o, l)
    <2>1. Effect(o, ts)
        BY <1>4, RequestEffect
    <2>2. /\ o \in Orders /\ Shape(o, l, ts) /\ o.kind \in {"simple", "fx", "batch"}
        BY <1>4, RequestShape, OrderTypes
    <2>3. \A q \in Orders : \A k : ~(q = o /\ k = l) => (Posted(q, k)' <=> Posted(q, k))
        BY <1>4, OtherLegs
    <2>4. /\ Posted(o, l) => Posted(o, l)'
          /\ journal' = journal => (Posted(o, l)' <=> Posted(o, l))
          /\ journal' = journal \union All(ts) => Posted(o, l)'
          /\ Fresh(ts, journal) => ~Posted(o, l)
        BY <1>4, OwnLeg
    <2>5. CASE o.kind = "batch"
        <3> DEFINE D == journal' \ journal
        <3>1. journal' = journal \union D /\ D \subseteq All(ts)
            BY <2>1 DEF Effect
        <3>2. \A e \in D :
                  /\ \A c : /\ e.debit # PendingOut(c) /\ e.credit # PendingOut(c)
                            /\ e.debit # Position(c) /\ e.credit # Position(c)
                  /\ \A p \in Orders : e.debit # Wallet(p)
            BY <2>2, <2>5, <3>1, LegEntries
        <3> HIDE DEF D
        <3>3. ASSUME NEW c
              PROVE  /\ Net(journal', PendingOut(c)) = Net(journal, PendingOut(c))
                     /\ Net(journal', Position(c)) = Net(journal, Position(c))
            <4>1. ASSUME NEW id \in {PendingOut(c), Position(c)}
                  PROVE  Net(journal', id) = Net(journal, id)
                <5>1. /\ \A e \in D : e.debit # id
                      /\ \A e \in D : e.credit # id
                    BY <3>2
                <5>2. Net(journal \union D, id) = Net(journal, id)
                    BY <5>1, BookOthers
                <5> QED
                    BY <3>1, <5>2
            <4> QED
                BY <4>1
        <3>4. ASSUME NEW p \in Orders
              PROVE  PaidFrom(journal', Wallet(p)) = PaidFrom(journal, Wallet(p))
            <4> DEFINE id == Wallet(p)
            <4>1. \A e \in D : e.debit # id
                BY <3>2
            <4> HIDE DEF id
            <4>2. PaidFrom(journal \union D, id) = PaidFrom(journal, id)
                BY <4>1, BookOthers
            <4> QED
                BY <3>1, <4>2 DEF id
        <3>5. ASSUME NEW q \in Orders, Pays(q), NEW k PROVE Posted(q, k)' <=> Posted(q, k)
            BY <2>3, <2>5, <3>5 DEF Pays
        <3> QED
            BY <3>3, <3>4, <3>5 DEF Quiet
    <2>6. CASE o.kind # "batch" /\ journal' = journal
        <3>1. \A q \in Orders : \A k : Posted(q, k)' <=> Posted(q, k)
            BY <2>3, <2>4, <2>6
        <3> QED
            BY <2>6, <3>1, Zenon DEF Quiet
    <2>7. CASE o.kind # "batch" /\ journal' = journal \union All(ts) /\ Fresh(ts, journal)
        <3>1. IsBook(journal)
            BY WordAssumption DEF LedgerInv, JournalInv, IsBook
        <3>2. /\ \A c : Net(journal \union All(ts), Position(c))
                     = Net(journal, Position(c)) + Brought(o, l, c) - PaidOut(o, l, c)
              /\ \A c : Net(journal \union All(ts), PendingOut(c))
                     = Net(journal, PendingOut(c)) - Overpaid(o, l, c)
              /\ \A p \in Orders : PaidFrom(journal \union All(ts), Wallet(p))
                     = PaidFrom(journal, Wallet(p)) + Taken(o, l, Wallet(p))
            BY <2>2, <2>7, <3>1, LegMoves
        <3>3. l \in {1, 2} /\ (l = 2 => o.kind = "fx")
            BY <2>2 DEF Shape
        <3>4. Pays(o)
            BY <2>2, <2>7 DEF Pays
        <3>5. \A q \in Orders : \A k : Posted(q, k)' <=> (Posted(q, k) \/ (q = o /\ k = l))
            BY <2>2, <2>3, <2>4, <2>7
        <3> QED
            BY <2>2, <2>4, <2>7, <3>2, <3>3, <3>4, <3>5, Zenon DEF PostsLeg
    <2> QED
        BY <2>1, <2>5, <2>6, <2>7 DEF Effect
<1> QED
    BY <1>1, <1>2, <1>3, <1>4, NextCases

-----------------------------------------------------------------------------
(* Theorems.                                                               *)

\* In every state, entries name open accounts, carry 64-bit amounts under ids
\* that are taken once and were not refused, and no leg ends in an open chain
\* (internal/ledger/transfer.go, client.go).
THEOREM TypeCorrect == Spec => []TypeOK
<1>1. LedgerInv => TypeOK
    <2> SUFFICES ASSUME LedgerInv PROVE TypeOK
        OBVIOUS
    <2>1. ASSUME NEW o \in Orders, NEW l \in DOMAIN chains[o]
          PROVE  "linked" \notin Last(chains[o][l]).Flags
        <3>1. DOMAIN <<>> = {}
            OBVIOUS
        <3>2. o \in Built
            BY <3>1 DEF Built
        <3> QED
            BY <3>2 DEF LedgerInv, ChainsInv, Flagged, Last
    <2>2. \A t \in journal :
              /\ {t.debit, t.credit} \subseteq {a.id : a \in accounts}
              /\ t.amount \in 0 .. Word - 1
              /\ t.id \notin spent
        BY DEF LedgerInv, JournalInv, JournalOK
    <2>3. \A t, u \in journal : t.id = u.id => t = u
        BY DEF LedgerInv, JournalInv, JournalOK
    <2> QED
        BY <2>1, <2>2, <2>3 DEF LedgerInv, TypeOK
<1> QED
    BY <1>1, LedgerIsSound, PTL

\* CreateLinkedTransfers accepts every transfer it is given or none
\* (client.go:160): the marks make a chain, and the ids it adds are new.
THEOREM LinkedCallsAllOrNothing == Spec => LinkedCallsAreAtomic
<1>1. ASSUME LedgerInv, NEW o \in Orders, NEW l \in DOMAIN chains[o],
             CreateLinkedTransfers(o, l)
      PROVE  journal' = journal \/ Cardinality(journal' \ journal) = Len(chains[o][l])
    <2> DEFINE us == chains[o][l]
               ts == LinkAllButLast(us)
    <2>1. Request(o, l, ts)
        <3>1. DOMAIN <<>> = {}
            OBVIOUS
        <3> QED
            BY <1>1, <3>1 DEF CreateLinkedTransfers, Request, Built
    <2>2. Shape(o, l, us) /\ Flagged(o, us)
        BY <1>1, <2>1 DEF Request, LedgerInv, ChainsInv
    <2> HIDE DEF us
    <2>3. /\ Shape(o, l, ts) /\ SameIDs(us, ts)
          /\ \A n \in 1 .. Len(ts) : "linked" \in ts[n].Flags <=> n < Len(ts)
        BY <2>2, MarkedShape
    <2> HIDE DEF ts
    <2>4. \/ journal' = journal
          \/ journal' = journal \union All(ts) /\ Fresh(ts, journal)
        BY <1>1, <2>1, <2>3, RequestEffect DEF Effect
    <2>5. CASE journal' = journal \union All(ts) /\ Fresh(ts, journal)
        <3>1. /\ Len(ts) \in 1 .. 3 /\ Len(Events(ts)) = Len(ts)
            BY <2>3, LegEntries
        <3>2. All(ts) = {Events(ts)[n] : n \in 1 .. Len(ts)}
            BY <3>1 DEF All
        <3>3. journal' \ journal = All(ts)
            BY <2>5, <3>2 DEF Fresh
        <3>4. Cardinality(All(ts)) = Len(ts)
            <4> DEFINE f == [n \in 1 .. Len(ts) |-> Events(ts)[n]]
            <4>1. f \in Bijection(1 .. Len(ts), All(ts))
                <5>1. f \in [1 .. Len(ts) -> All(ts)]
                    BY <3>2
                <5>2. ASSUME NEW i \in 1 .. Len(ts), NEW j \in 1 .. Len(ts), f[i] = f[j]
                      PROVE  i = j
                    BY <2>5, <5>2 DEF Fresh
                <5>3. \A e \in All(ts) : \E n \in 1 .. Len(ts) : f[n] = e
                    BY <3>2
                <5> HIDE DEF f
                <5> QED
                    BY <5>1, <5>2, <5>3 DEF Bijection, Injection, Surjection, IsInjective
            <4>2. ASSUME NEW k \in 1 .. 3
                  PROVE  IsFiniteSet(1 .. k) /\ Cardinality(1 .. k) = k
                <5>1. k \in Int /\ 1 \in Int /\ ~(1 > k) /\ (k - 1) + 1 = k
                    OBVIOUS
                <5>2. /\ IsFiniteSet(1 .. k)
                      /\ Cardinality(1 .. k) = IF 1 > k THEN 0 ELSE (k - 1) + 1
                    BY <5>1, FS_Interval, Zenon
                <5> QED
                    BY <5>1, <5>2
            <4>3. ExistsBijection(1 .. Len(ts), All(ts))
                BY <4>1 DEF ExistsBijection
            <4> HIDE DEF f
            <4> QED
                BY <3>1, <4>2, <4>3, FS_Bijection
        <3>5. Len(ts) = Len(us)
            BY <2>3 DEF SameIDs
        <3> QED
            BY <3>3, <3>4, <3>5 DEF us
    <2> QED
        BY <2>4, <2>5
<1> DEFINE Atomic ==
        \A o \in Orders : \A l \in DOMAIN chains[o] :
            CreateLinkedTransfers(o, l) =>
                \/ journal' = journal
                \/ Cardinality(journal' \ journal) = Len(chains[o][l])
<1>2. LedgerInv => Atomic
    BY <1>1
<1>3. Spec => [][Atomic]_vars
    <2> HIDE DEF Atomic
    <2> QED
        BY <1>2, LedgerIsSound, PTL
<1> QED
    BY <1>3 DEF LinkedCallsAreAtomic

\* A caller told of success finds every transfer of the call in the journal,
\* then and later: accepted entries stay, and marking a leg keeps its ids.
THEOREM OkMeansPosted == Spec => []AnsweredOkIsPosted
<1>1. Init => AnsweredOkIsPosted
    BY DEF Init, AnsweredOkIsPosted
<1>2. LedgerInv /\ AnsweredOkIsPosted /\ [Next]_vars => AnsweredOkIsPosted'
    <2> SUFFICES ASSUME LedgerInv, AnsweredOkIsPosted, [Next]_vars
                 PROVE  AnsweredOkIsPosted'
        OBVIOUS
    <2>1. ASSUME told' = told,
                 \A o \in Orders : \A l : Posted(o, l) => Posted(o, l)'
          PROVE  AnsweredOkIsPosted'
        BY <2>1 DEF AnsweredOkIsPosted
    <2>2. CASE UNCHANGED vars
        <3>1. told' = told /\ \A o, l : Posted(o, l)' <=> Posted(o, l)
            BY <2>2, Zenon DEF vars, Posted
        <3> QED
            BY <2>1, <3>1
    <2>3. ASSUME NEW a \in Openable, CreateAccount(a) PROVE AnsweredOkIsPosted'
        <3>1. told' = told /\ journal' = journal /\ chains' = chains
            BY <2>3 DEF CreateAccount
        <3>2. \A o, l : Posted(o, l)' <=> Posted(o, l)
            BY <3>1, Zenon DEF Posted
        <3> QED
            BY <2>1, <3>1, <3>2
    <2>4. ASSUME NEW o \in Orders, Build(o) PROVE AnsweredOkIsPosted'
        <3>1. told' = told
            BY <2>4 DEF Build
        <3>2. \A q \in Orders : \A k : Posted(q, k)' <=> Posted(q, k)
            BY <2>4, BuildPostsNothing
        <3> QED
            BY <2>1, <3>1, <3>2
    <2>5. ASSUME NEW o, NEW l, NEW ts, Request(o, l, ts), Remarked(o, l)
          PROVE  AnsweredOkIsPosted'
        <3>1. Answer(o, l, ts) /\ o \in Orders
            BY <2>5, RequestEffect, RequestShape
        <3>2. \A q \in Orders : \A k : Posted(q, k) => Posted(q, k)'
            BY <2>5, OtherLegs, OwnLeg
        <3>3. journal' = journal \union All(ts) => Posted(o, l)'
            BY <2>5, OwnLeg
        <3>4. CASE told' = told
            BY <3>2, <3>4, <2>1
        <3>5. CASE \E ok \in BOOLEAN :
                     /\ told' = told \union {[order |-> o.name, leg |-> l, ok |-> ok]}
                     /\ ok => journal' = journal \union All(ts)
            <4> PICK ok \in BOOLEAN :
                     /\ told' = told \union {[order |-> o.name, leg |-> l, ok |-> ok]}
                     /\ ok => journal' = journal \union All(ts)
                BY <3>5
            <4> SUFFICES ASSUME NEW a \in told', a.ok, NEW q \in Orders, q.name = a.order
                         PROVE  Posted(q, a.leg)'
                BY DEF AnsweredOkIsPosted
            <4>1. CASE a \in told
                BY <4>1, <3>2 DEF AnsweredOkIsPosted
            <4>2. CASE a = [order |-> o.name, leg |-> l, ok |-> ok]
                <5>1. ok /\ q.name = o.name /\ a.leg = l
                    BY <4>2
                <5>2. q = o
                    BY <5>1, <3>1, OrdersAssumption
                <5> QED
                    BY <5>1, <5>2, <3>3
            <4> QED
                BY <4>1, <4>2
        <3> QED
            BY <3>1, <3>4, <3>5 DEF Answer
    <2> QED
        BY <2>2, <2>3, <2>4, <2>5, NextCases
<1> QED
    BY <1>1, <1>2, LedgerIsSound, PTL DEF Spec

\* Every payout and conversion that is posted took its amount from the wallet,
\* and nothing else did.
PaidInv ==
    \A p \in Orders :
        PaidFrom(journal, Wallet(p))
            = AmountsOf({q \in Orders : Pays(q) /\ Wallet(q) = Wallet(p) /\ Posted(q, 1)})

\* PaidInv is inductive.
LEMMA PaidInvKept ==
    ASSUME LedgerInv, PaidInv, [Next]_vars
    PROVE  PaidInv'
<1> SUFFICES ASSUME NEW p \in Orders
             PROVE  PaidFrom(journal', Wallet(p))
                        = AmountsOf({q \in Orders : Pays(q) /\ Wallet(q) = Wallet(p)
                                                    /\ Posted(q, 1)'})
    BY DEF PaidInv
<1> DEFINE A == {q \in Orders : Pays(q) /\ Wallet(q) = Wallet(p) /\ Posted(q, 1)}
           B == {q \in Orders : Pays(q) /\ Wallet(q) = Wallet(p) /\ Posted(q, 1)'}
<1>1. PaidFrom(journal, Wallet(p)) = AmountsOf(A)
    BY DEF PaidInv
<1>2. CASE Quiet
    <2>1. A = B /\ PaidFrom(journal', Wallet(p)) = PaidFrom(journal, Wallet(p))
        BY <1>2 DEF Quiet
    <2> HIDE DEF A
    <2> QED
        BY <1>1, <2>1
<1>3. ASSUME NEW o, NEW l, PostsLeg(o, l)
      PROVE  PaidFrom(journal', Wallet(p)) = AmountsOf(B)
    <2>1. /\ o \in Orders /\ Pays(o) /\ ~Posted(o, l)
          /\ \A q \in Orders : \A k : Posted(q, k)' <=> (Posted(q, k) \/ (q = o /\ k = l))
          /\ PaidFrom(journal', Wallet(p))
                 = PaidFrom(journal, Wallet(p)) + Taken(o, l, Wallet(p))
        BY <1>3 DEF PostsLeg
    <2>2. IsFiniteSet(A) /\ \A q \in A : q.amount \in Nat
        <3>1. A \subseteq Built
            BY PostedIsBuilt
        <3>2. \A q \in Orders : q.amount \in Nat
            BY OrderTypes
        <3> QED
            BY <3>1, <3>2, FS_Subset DEF LedgerInv, ChainsInv
    <2>3. AmountsOf(A) \in Nat /\ o.amount \in Nat
        <3> HIDE DEF A
        <3> QED
            BY <2>1, <2>2, AmountsNat, OrderTypes
    <2>4. CASE l = 1 /\ Wallet(o) = Wallet(p)
        <3>1. B = A \union {o} /\ o \notin A
            BY <2>1, <2>4
        <3>2. Taken(o, l, Wallet(p)) = o.amount
            BY <2>4 DEF Taken
        <3> HIDE DEF A, B
        <3>3. AmountsOf(A \union {o}) = AmountsOf(A) + o.amount
            BY <2>2, <2>3, <3>1, AmountsAdd
        <3> QED
            BY <1>1, <2>1, <3>1, <3>2, <3>3
    <2>5. CASE ~(l = 1 /\ Wallet(o) = Wallet(p))
        <3>1. B = A
            BY <2>1, <2>5
        <3>2. Taken(o, l, Wallet(p)) = 0
            BY <2>5 DEF Taken
        <3> HIDE DEF A, B
        <3> QED
            BY <1>1, <2>1, <2>3, <3>1, <3>2
    <2> QED
        BY <2>4, <2>5
<1> QED
    BY <1>2, <1>3, StepEffect

\* An order takes from its wallet at most what it says, once, however often
\* it is posted: the second time its ids are taken (transfer.go:34).
THEOREM PaidOnce == Spec => []PaidAtMostOnce
<1>1. Init => PaidInv
    <2> SUFFICES ASSUME Init, NEW p \in Orders
                 PROVE  PaidFrom(journal, Wallet(p))
                            = AmountsOf({q \in Orders : Pays(q) /\ Wallet(q) = Wallet(p)
                                                        /\ Posted(q, 1)})
        BY DEF PaidInv
    <2>1. {t \in journal : t.debit = Wallet(p) /\ t.credit.type = "PENDING_OUTBOUND"} = {}
        BY DEF Init
    <2>2. \A q \in Orders : ~Posted(q, 1)
        <3>1. \A q \in Orders : q \notin Built
            BY DEF Init, Built
        <3> QED
            BY <3>1, PostedIsBuilt
    <2>3. {q \in Orders : Pays(q) /\ Wallet(q) = Wallet(p) /\ Posted(q, 1)} = {}
        BY <2>2
    <2> QED
        BY <2>1, <2>3 DEF PaidFrom
<1>2. LedgerInv /\ PaidInv => PaidAtMostOnce
    <2> SUFFICES ASSUME LedgerInv, PaidInv, NEW o \in Orders
                 PROVE  PaidFrom(journal, Wallet(o))
                            <= AmountsOf({p \in Orders : /\ Wallet(p) = Wallet(o)
                                                         /\ p.kind \in {"simple", "fx"}
                                                         /\ chains[p] # <<>>})
        BY DEF PaidAtMostOnce
    <2> DEFINE A == {q \in Orders : Pays(q) /\ Wallet(q) = Wallet(o) /\ Posted(q, 1)}
               B == {p \in Orders : /\ Wallet(p) = Wallet(o)
                                    /\ p.kind \in {"simple", "fx"}
                                    /\ chains[p] # <<>>}
    <2>1. PaidFrom(journal, Wallet(o)) = AmountsOf(A)
        BY DEF PaidInv
    <2>2. A \subseteq B /\ B \subseteq Built
        BY PostedIsBuilt DEF Built, Pays
    <2>3. IsFiniteSet(B) /\ \A p \in B : p.amount \in Nat
        <3>1. \A q \in Orders : q.amount \in Nat
            BY OrderTypes
        <3> QED
            BY <2>2, <3>1, FS_Subset DEF LedgerInv, ChainsInv
    <2> HIDE DEF A, B
    <2>4. AmountsOf(A) <= AmountsOf(B)
        BY <2>2, <2>3, AmountsMonotone
    <2> QED
        BY <2>1, <2>4 DEF A, B
<1>3. LedgerInv /\ PaidInv /\ [Next]_vars => PaidInv'
    BY PaidInvKept
<1> QED
    BY <1>1, <1>2, <1>3, LedgerIsSound, PTL DEF Spec

\* n words, as a number.
WordsOf(n) == Word * n

LEMMA WordsAdd ==
    ASSUME NEW n \in Nat
    PROVE  WordsOf(n) \in Int /\ WordsOf(n + 1) = WordsOf(n) + Word /\ WordsOf(0) = 0
<1> Word \in Nat
    BY WordAssumption
<1> QED
    BY DEF WordsOf

\* One more element is one word more, and no more elements are none.
LEMMA WordsOfCard ==
    ASSUME NEW S, IsFiniteSet(S), NEW T, IsFiniteSet(T), NEW x,
           T = S \/ (T = S \union {x} /\ x \notin S)
    PROVE  /\ WordsOf(Cardinality(S)) \in Int
           /\ WordsOf(Cardinality(T))
                  = WordsOf(Cardinality(S)) + (IF T = S THEN 0 ELSE Word)
<1>1. Cardinality(S) \in Nat
    BY FS_CardinalityType
<1>2. WordsOf(Cardinality(S)) \in Int /\ WordsOf(Cardinality(S) + 1) = WordsOf(Cardinality(S)) + Word
    BY <1>1, WordsAdd
<1>3. CASE T = S
    BY <1>2, <1>3
<1>4. CASE T = S \union {x} /\ x \notin S
    <2>1. Cardinality(T) = Cardinality(S) + 1
        BY <1>4, FS_AddElement
    <2>2. T # S
        BY <1>4
    <2> QED
        BY <1>2, <2>1, <2>2
<1> QED
    BY <1>3, <1>4

\* The net of PENDING_OUTBOUND is what wrapped payouts took too much of it.
PendingInv ==
    \A c : Net(journal, PendingOut(c)) = 0 - WordsOf(Cardinality(WrappedPayouts(c)))

\* Payouts that were posted were built, so there are finitely many.
LEMMA WrappedPayoutsFinite ==
    ASSUME LedgerInv, NEW c
    PROVE  IsFiniteSet(WrappedPayouts(c))
<1>1. WrappedPayouts(c) \subseteq Built
    BY PostedIsBuilt DEF WrappedPayouts
<1> QED
    BY <1>1, FS_Subset DEF LedgerInv, ChainsInv

\* PendingInv is inductive.
LEMMA PendingKept ==
    ASSUME LedgerInv, PendingInv, [Next]_vars
    PROVE  PendingInv'
<1> SUFFICES ASSUME NEW c
             PROVE  Net(journal', PendingOut(c))
                        = 0 - WordsOf(Cardinality(WrappedPayouts(c)'))
    BY DEF PendingInv
<1> DEFINE W == WrappedPayouts(c)
           W1 == WrappedPayouts(c)'
           net == Net(journal, PendingOut(c))
<1>1. net = 0 - WordsOf(Cardinality(W))
    BY DEF PendingInv
<1>2. IsFiniteSet(W)
    BY WrappedPayoutsFinite
<1>3. /\ W = {o \in Orders : /\ o.kind = "simple" /\ o.srcCurrency = c
                              /\ o.feeAmount > o.amount /\ Posted(o, 1)}
      /\ W1 = {o \in Orders : /\ o.kind = "simple" /\ o.srcCurrency = c
                               /\ o.feeAmount > o.amount /\ Posted(o, 1)'}
    BY DEF WrappedPayouts
<1> HIDE DEF W, W1, net
<1>4. CASE Quiet
    <2>1. W1 = W
        BY <1>3, <1>4 DEF Quiet, Pays
    <2>2. Net(journal', PendingOut(c)) = net
        BY <1>4 DEF Quiet, net
    <2> QED
        BY <1>1, <2>1, <2>2 DEF W1
<1>5. ASSUME NEW o, NEW l, PostsLeg(o, l)
      PROVE  Net(journal', PendingOut(c)) = 0 - WordsOf(Cardinality(W1))
    <2>1. /\ o \in Orders /\ ~Posted(o, l)
          /\ \A q \in Orders : \A k : Posted(q, k)' <=> (Posted(q, k) \/ (q = o /\ k = l))
          /\ Net(journal', PendingOut(c)) = net - Overpaid(o, l, c)
        BY <1>5 DEF PostsLeg, net
    <2>2. Word \in Nat /\ Word > 0
        BY WordAssumption
    <2>3. CASE o.kind = "simple" /\ l = 1 /\ o.srcCurrency = c /\ o.feeAmount > o.amount
        <3>1. W1 = W \union {o} /\ o \notin W
            BY <1>3, <2>1, <2>3
        <3>2. Overpaid(o, l, c) = Word
            BY <2>3 DEF Overpaid, Excess
        <3>3. W1 # W /\ IsFiniteSet(W1)
            BY <1>2, <3>1, FS_AddElement
        <3>4. /\ WordsOf(Cardinality(W)) \in Int
              /\ WordsOf(Cardinality(W1)) = WordsOf(Cardinality(W)) + Word
            BY <1>2, <3>1, <3>3, WordsOfCard
        <3> QED
            BY <1>1, <2>1, <2>2, <3>2, <3>4
    <2>4. CASE ~(o.kind = "simple" /\ l = 1 /\ o.srcCurrency = c /\ o.feeAmount > o.amount)
        <3>1. W1 = W
            BY <1>3, <2>1, <2>4
        <3>2. Overpaid(o, l, c) = 0
            BY <2>4 DEF Overpaid, Excess
        <3>3. WordsOf(Cardinality(W)) \in Int
            BY <1>2, WordsOfCard
        <3> QED
            BY <1>1, <2>1, <3>1, <3>2, <3>3
    <2> QED
        BY <2>3, <2>4
<1> QED
    BY <1>4, <1>5, StepEffect DEF W1

\* Between calls PENDING_OUTBOUND holds nothing (types.go:19): the chains that
\* credit it debit the same amount, save those whose fee exceeds the amount, as
\* transfer.go:310 subtracts without looking, and which debit a word more.
THEOREM PendingNets == Spec => []PendingOutboundNets
<1>1. Init => PendingInv
    <2> SUFFICES ASSUME Init, NEW c
                 PROVE  Net(journal, PendingOut(c)) = 0 - WordsOf(Cardinality(WrappedPayouts(c)))
        BY DEF PendingInv
    <2>1. Debits({}, PendingOut(c)) = 0 /\ Credits({}, PendingOut(c)) = 0
        BY AmountsEmpty DEF Debits, Credits
    <2>2. \A q \in Orders : q \notin Built
        BY DEF Init, Built
    <2>3. WrappedPayouts(c) = {}
        BY <2>2, PostedIsBuilt DEF WrappedPayouts
    <2>4. WordsOf(Cardinality({})) = 0
        BY FS_EmptySet, WordsAdd
    <2> QED
        BY <2>1, <2>3, <2>4 DEF Init, Net
<1>2. LedgerInv /\ PendingInv /\ [Next]_vars => PendingInv'
    BY PendingKept
<1>3. LedgerInv /\ PendingInv => PendingOutboundNets
    <2> SUFFICES ASSUME LedgerInv, PendingInv, NEW c
                 PROVE  Debits(journal, PendingOut(c))
                            = Credits(journal, PendingOut(c))
                              + Word * Cardinality(WrappedPayouts(c))
        BY DEF PendingOutboundNets, PendingOut
    <2> DEFINE words == WordsOf(Cardinality(WrappedPayouts(c)))
    <2>1. IsBook(journal)
        BY WordAssumption DEF LedgerInv, JournalInv, IsBook
    <2>2. Debits(journal, PendingOut(c)) \in Nat /\ Credits(journal, PendingOut(c)) \in Nat
        BY <2>1, BookParts
    <2>3. Net(journal, PendingOut(c)) = 0 - words
        BY DEF PendingInv
    <2>4. words \in Int /\ words = Word * Cardinality(WrappedPayouts(c))
        <3>1. words \in Int
            BY WrappedPayoutsFinite, WordsOfCard
        <3> QED
            BY <3>1, Zenon DEF WordsOf
    <2> HIDE DEF words
    <2>5. Debits(journal, PendingOut(c)) = Credits(journal, PendingOut(c)) + words
        BY <2>2, <2>3, <2>4 DEF Net
    <2> QED
        BY <2>4, <2>5, Zenon
<1> QED
    BY <1>1, <1>2, <1>3, LedgerIsSound, PTL DEF Spec

\* The conversions out of currency c, and into it, of which the leg is posted.
SourcesIn(c) == {o \in FXOrders : o.srcCurrency = c /\ Posted(o, 1)}
DestinationsIn(c) == {o \in FXOrders : o.dstCurrency = c /\ Posted(o, 2)}

ExposureInv ==
    \A c : Net(journal, Position(c))
               = AmountsOf(SourcesIn(c)) - DstAmountsOf(DestinationsIn(c))
                 - WordsOf(Cardinality(WrappedConversions(c)))

\* The sums ExposureInv is about are finite sums of naturals.
LEMMA ExposureSums ==
    ASSUME LedgerInv, NEW c
    PROVE  /\ IsFiniteSet(SourcesIn(c)) /\ \A q \in SourcesIn(c) : q.amount \in Nat
           /\ IsFiniteSet(DestinationsIn(c)) /\ \A q \in DestinationsIn(c) : q.dstAmount \in Nat
           /\ IsFiniteSet(WrappedConversions(c))
           /\ AmountsOf(SourcesIn(c)) \in Nat /\ DstAmountsOf(DestinationsIn(c)) \in Nat
<1>1. /\ SourcesIn(c) \subseteq Built /\ DestinationsIn(c) \subseteq Built
      /\ WrappedConversions(c) \subseteq Built
    BY PostedIsBuilt DEF SourcesIn, DestinationsIn, WrappedConversions, FXOrders
<1>2. /\ IsFiniteSet(SourcesIn(c)) /\ IsFiniteSet(DestinationsIn(c))
      /\ IsFiniteSet(WrappedConversions(c))
    BY <1>1, FS_Subset DEF LedgerInv, ChainsInv
<1>3. \A q \in Built : q.amount \in Nat /\ q.dstAmount \in Nat
    BY OrderTypes DEF Built
<1> QED
    BY <1>1, <1>2, <1>3, AmountsNat, DstAmountsNat

\* ExposureInv is inductive.
LEMMA ExposureKept ==
    ASSUME LedgerInv, ExposureInv, [Next]_vars
    PROVE  ExposureInv'
<1> SUFFICES ASSUME NEW c
             PROVE  Net(journal', Position(c))
                        = AmountsOf(SourcesIn(c)') - DstAmountsOf(DestinationsIn(c)')
                          - WordsOf(Cardinality(WrappedConversions(c)'))
    BY DEF ExposureInv
<1> DEFINE S == SourcesIn(c)
           D == DestinationsIn(c)
           S1 == SourcesIn(c)'
           D1 == DestinationsIn(c)'
           W == WrappedConversions(c)
           W1 == WrappedConversions(c)'
           net == Net(journal, Position(c))
           words == WordsOf(Cardinality(W))
           words1 == WordsOf(Cardinality(W1))
<1>1. net = AmountsOf(S) - DstAmountsOf(D) - words
    BY DEF ExposureInv
<1>2. /\ IsFiniteSet(S) /\ \A q \in S : q.amount \in Nat
      /\ IsFiniteSet(D) /\ \A q \in D : q.dstAmount \in Nat
      /\ AmountsOf(S) \in Nat /\ DstAmountsOf(D) \in Nat
      /\ IsFiniteSet(W)
    BY ExposureSums
<1>3. /\ S1 = {o \in FXOrders : o.srcCurrency = c /\ Posted(o, 1)'}
      /\ D1 = {o \in FXOrders : o.dstCurrency = c /\ Posted(o, 2)'}
      /\ S = {o \in FXOrders : o.srcCurrency = c /\ Posted(o, 1)}
      /\ D = {o \in FXOrders : o.dstCurrency = c /\ Posted(o, 2)}
      /\ W = {o \in FXOrders : /\ o.dstCurrency = c
                                /\ o.feeAmount > o.dstAmount /\ Posted(o, 2)}
      /\ W1 = {o \in FXOrders : /\ o.dstCurrency = c
                                 /\ o.feeAmount > o.dstAmount /\ Posted(o, 2)'}
    BY DEF SourcesIn, DestinationsIn, WrappedConversions
<1>4. FXOrders \subseteq Orders /\ \A o \in FXOrders : Pays(o)
    BY DEF FXOrders, Pays
<1> HIDE DEF S, D, S1, D1, W, W1, net
<1>7. words \in Int /\ (W1 = W => words1 = words)
    BY <1>2, WordsOfCard
<1> HIDE DEF words, words1
<1>5. CASE Quiet
    <2>1. S1 = S /\ D1 = D /\ W1 = W
        BY <1>3, <1>4, <1>5 DEF Quiet
    <2>2. Net(journal', Position(c)) = net
        BY <1>5 DEF Quiet, net
    <2> QED
        BY <1>1, <1>7, <2>1, <2>2 DEF S1, D1, W1, words1
<1>6. ASSUME NEW o, NEW l, PostsLeg(o, l)
      PROVE  Net(journal', Position(c)) = AmountsOf(S1) - DstAmountsOf(D1) - words1
    <2>1. /\ o \in Orders /\ l \in {1, 2} /\ (l = 2 => o.kind = "fx") /\ ~Posted(o, l)
          /\ \A q \in Orders : \A k : Posted(q, k)' <=> (Posted(q, k) \/ (q = o /\ k = l))
          /\ Net(journal', Position(c)) = net + Brought(o, l, c) - PaidOut(o, l, c)
        BY <1>6 DEF PostsLeg, net
    <2>2. /\ o.amount \in Nat /\ o.dstAmount \in Nat /\ o.feeAmount \in Nat
          /\ Word \in Nat /\ Word > 0
        BY <2>1, OrderTypes, WordAssumption
    <2>3. CASE o.kind = "fx" /\ l = 1 /\ o.srcCurrency = c
        <3>1. S1 = S \union {o} /\ o \notin S /\ D1 = D /\ W1 = W
            BY <1>3, <1>4, <2>1, <2>3 DEF FXOrders
        <3>2. AmountsOf(S \union {o}) = AmountsOf(S) + o.amount
            BY <1>2, <2>2, <3>1, AmountsAdd
        <3>3. Brought(o, l, c) = o.amount /\ PaidOut(o, l, c) = 0
            BY <2>3 DEF Brought, PaidOut
        <3> QED
            BY <1>1, <1>2, <1>7, <2>1, <2>2, <3>1, <3>2, <3>3
    <2>4. CASE o.kind = "fx" /\ l = 2 /\ o.dstCurrency = c
        <3>1. D1 = D \union {o} /\ o \notin D /\ S1 = S
            BY <1>3, <1>4, <2>1, <2>4 DEF FXOrders
        <3>2. DstAmountsOf(D \union {o}) = DstAmountsOf(D) + o.dstAmount
            BY <1>2, <2>2, <3>1, DstAmountsAdd
        <3> DEFINE excess == Excess(o.dstAmount, o.feeAmount)
        <3>3. Brought(o, l, c) = 0 /\ PaidOut(o, l, c) = o.dstAmount + excess
            BY <2>4 DEF Brought, PaidOut
        <3>4. words1 = words + excess /\ excess \in Nat
            <4>1. CASE o.feeAmount > o.dstAmount
                <5>1. W1 = W \union {o} /\ o \notin W
                    BY <1>3, <1>4, <2>1, <2>4, <4>1 DEF FXOrders
                <5>2. W1 # W /\ IsFiniteSet(W1)
                    BY <1>2, <5>1, FS_AddElement
                <5>3. words1 = words + Word
                    BY <1>2, <5>1, <5>2, WordsOfCard DEF words, words1
                <5> QED
                    BY <2>2, <4>1, <5>3 DEF Excess
            <4>2. CASE ~(o.feeAmount > o.dstAmount)
                <5>1. W1 = W
                    BY <1>3, <1>4, <2>1, <4>2
                <5>2. excess = 0
                    BY <4>2 DEF Excess
                <5> QED
                    BY <1>7, <5>1, <5>2
            <4> QED
                BY <4>1, <4>2
        <3> HIDE DEF excess
        <3> QED
            BY <1>1, <1>2, <1>7, <2>1, <2>2, <3>1, <3>2, <3>3, <3>4
    <2>5. CASE /\ ~(o.kind = "fx" /\ l = 1 /\ o.srcCurrency = c)
               /\ ~(o.kind = "fx" /\ l = 2 /\ o.dstCurrency = c)
        <3>1. D1 = D /\ S1 = S /\ W1 = W
            BY <1>3, <1>4, <2>1, <2>5 DEF FXOrders
        <3>2. Brought(o, l, c) = 0 /\ PaidOut(o, l, c) = 0
            BY <2>5 DEF Brought, PaidOut
        <3> QED
            BY <1>1, <1>2, <1>7, <2>1, <3>1, <3>2
    <2> QED
        BY <2>3, <2>4, <2>5
<1> QED
    BY <1>5, <1>6, StepEffect DEF S1, D1, W1, words1

\* "The FX_POSITION accounts track the platform's currency exposure"
\* (transfer.go:192): their balance is what source legs brought in less what
\* destination legs paid out, and a word less for each of these whose fee
\* exceeds what it is taken from (transfer.go:256 subtracts without looking).
THEOREM ExposureTracked == Spec => []ExposureIsTheOpenPairs
<1>1. Init => ExposureInv
    <2> SUFFICES ASSUME Init, NEW c
                 PROVE  Net(journal, Position(c))
                            = AmountsOf(SourcesIn(c)) - DstAmountsOf(DestinationsIn(c))
                              - WordsOf(Cardinality(WrappedConversions(c)))
        BY DEF ExposureInv
    <2>1. \A q \in Orders : q \notin Built
        BY DEF Init, Built
    <2>2. SourcesIn(c) = {} /\ DestinationsIn(c) = {} /\ WrappedConversions(c) = {}
        BY <2>1, PostedIsBuilt DEF SourcesIn, DestinationsIn, WrappedConversions, FXOrders
    <2>5. WordsOf(Cardinality({})) = 0
        BY FS_EmptySet, WordsAdd
    <2>3. AmountsOf({}) = 0 /\ DstAmountsOf({}) = 0
        <3>1. DstAmountsOf({}) = 0
            BY SumEmpty DEF DstAmountsOf
        <3> QED
            BY <3>1, AmountsEmpty
    <2>4. Debits({}, Position(c)) = 0 /\ Credits({}, Position(c)) = 0
        BY AmountsEmpty DEF Debits, Credits
    <2> QED
        BY <2>2, <2>3, <2>4, <2>5 DEF Init, Net
<1>2. LedgerInv /\ ExposureInv /\ [Next]_vars => ExposureInv'
    BY ExposureKept
<1>3. ExposureInv => ExposureIsTheOpenPairs
    BY Zenon DEF ExposureInv, ExposureIsTheOpenPairs, Net, Position, SourcesIn, DestinationsIn,
                 WordsOf
<1> QED
    BY <1>1, <1>2, <1>3, LedgerIsSound, PTL DEF Spec

=============================================================================
