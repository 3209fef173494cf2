----------------------------- MODULE SumProofs -----------------------------
(***************************************************************************)
(* What a sum over a finite set is, for the counters and bags the models   *)
(* add up: FoldFunctionOnSet(+, 0, f, S) and BagCardinality.  Both unroll  *)
(* to a function defined by recursion on the subsets of S.  Its existence  *)
(* and its laws are shown by minimal counterexamples: the library's        *)
(* WFMin needs no predicate, where its induction rules do.                 *)
(***************************************************************************)
EXTENDS Integers, FiniteSets, Functions, Bags, FiniteSetTheorems, TLAPS

(* The sum of a function over a set. *)
SumOf(f, S) == FoldFunctionOnSet(+, 0, f, S)

-----------------------------------------------------------------------------
(* Minimal elements *)

(* A nonempty set of subsets of a finite set has one that stops being a     *)
(* member when any element is taken from it.                                *)
LEMMA MinimalSubset ==
    ASSUME NEW S, IsFiniteSet(S), NEW T, T \subseteq SUBSET S, T # {}
    PROVE  \E s \in T : \A x \in s : s \ {x} \notin T
  <1>1. IsWellFoundedOn(StrictSubsetOrdering(S), FiniteSubsetsOf(S))
    BY FS_StrictSubsetOrderingWellFounded
  <1>2. T \subseteq FiniteSubsetsOf(S)
    BY FS_Subset DEF FiniteSubsetsOf
  <1>3. PICK s \in T : \A t \in T : ~(<<t, s>> \in StrictSubsetOrdering(S))
    BY <1>1, <1>2, WFMin
  <1>4. ASSUME NEW x \in s, s \ {x} \in T PROVE FALSE
    BY <1>3, <1>4 DEF StrictSubsetOrdering
  <1> QED BY <1>3, <1>4

(* A nonempty set of numbers has a least element: its initial segments are  *)
(* finite sets.                                                             *)
LEMMA LeastNumber ==
    ASSUME NEW T, T \subseteq Nat, T # {}
    PROVE  \E x \in T : \A y \in T : x <= y
  <1> DEFINE Segments == {0 .. n : n \in T}
  <1>1. IsWellFoundedOn(StrictSubsetOrdering(Nat), FiniteSubsetsOf(Nat))
    BY FS_StrictSubsetOrderingWellFounded
  <1>2. \A n \in Nat : IsFiniteSet(0 .. n)
    BY FS_Interval
  <1>3. Segments # {} /\ Segments \subseteq FiniteSubsetsOf(Nat)
    BY <1>2 DEF FiniteSubsetsOf
  <1>4. \E s \in Segments : \A t \in Segments : ~(<<t, s>> \in StrictSubsetOrdering(Nat))
    <2> HIDE DEF Segments
    <2> QED BY <1>1, <1>3, WFMin
  <1>5. PICK x \in T :
            \A t \in Segments : ~(<<t, 0 .. x>> \in StrictSubsetOrdering(Nat))
    BY <1>4
  <1>6. ASSUME NEW y \in T, ~(x <= y) PROVE FALSE
    <2>1. ~(<<0 .. y, 0 .. x>> \in StrictSubsetOrdering(Nat))
      BY <1>5
    <2>2. /\ 0 .. y \subseteq 0 .. x /\ x \notin 0 .. y /\ x \in 0 .. x
          /\ 0 .. y \subseteq Nat /\ 0 .. x \subseteq Nat
      BY <1>6
    <2> QED BY <2>1, <2>2 DEF StrictSubsetOrdering
  <1> QED BY <1>6

-----------------------------------------------------------------------------
(* The recursion under the fold *)

(* One step of the recursion: what its value at s is, from a function g     *)
(* that has the values at the smaller sets.                                 *)
Picked(s) == CHOOSE x \in s : TRUE
Unrolled(f, g, s) == IF s = {} THEN 0 ELSE f[Picked(s)] + g[s \ {Picked(s)}]
Recursion(f, g, D) == g = [s \in D |-> Unrolled(f, g, s)]
Sums(f, S) == CHOOSE g : Recursion(f, g, SUBSET S)

(* The fold and the cardinality of a bag are this recursion, at the top.    *)
LEMMA FoldIsRecursion ==
    ASSUME NEW f, NEW S
    PROVE  SumOf(f, S) = Sums(f, S)[S]
  BY DEF SumOf, FoldFunctionOnSet, MapThenFoldSet, Sums, Recursion, Unrolled, Picked

LEMMA BagIsRecursion ==
    ASSUME NEW B
    PROVE  BagCardinality(B) = Sums(B, DOMAIN B)[DOMAIN B]
  BY DEF BagCardinality, Sums, Recursion, Unrolled, Picked

(* The recursion has a solution: built up by the size of the sets.          *)
LEMMA RecursionSolved ==
    ASSUME NEW f, NEW S, IsFiniteSet(S)
    PROVE  Recursion(f, Sums(f, S), SUBSET S)
  <1> DEFINE Layer(n) == {s \in SUBSET S : Cardinality(s) <= n}
             Bad == {n \in Nat : ~ \E g : Recursion(f, g, Layer(n))}
  <1>1. \A s \in SUBSET S : Cardinality(s) \in Nat
    BY FS_Subset, FS_CardinalityType
  <1>2. Bad = {}
    <2>1. SUFFICES ASSUME Bad # {} PROVE FALSE
      OBVIOUS
    <2>2. PICK n \in Bad : \A m \in Bad : n <= m
      <3> HIDE DEF Bad
      <3>1. Bad \subseteq Nat
        BY DEF Bad
      <3> QED BY <2>1, <3>1, LeastNumber
    <2>3. CASE n = 0
      <3>1. \A s \in Layer(0) : s = {}
        BY <1>1, FS_Subset, FS_EmptySet
      <3>2. Recursion(f, [s \in Layer(0) |-> 0], Layer(0))
        BY <3>1 DEF Recursion, Unrolled
      <3> QED BY <2>3, <3>2
    <2>4. CASE n # 0
      <3>1. n - 1 \in Nat /\ n - 1 \notin Bad
        <4>1. n \in Nat /\ \A m \in Bad : n <= m
          BY <2>2
        <4> HIDE DEF Bad
        <4> QED BY <4>1, <2>4
      <3>2. PICK g : Recursion(f, g, Layer(n - 1))
        BY <3>1
      <3> DEFINE h == [s \in Layer(n) |-> Unrolled(f, g, s)]
      <3>3. \A s \in Layer(n) : s # {} => s \ {Picked(s)} \in Layer(n - 1)
        <4> SUFFICES ASSUME NEW s \in Layer(n), s # {}
                     PROVE  s \ {Picked(s)} \in Layer(n - 1)
          OBVIOUS
        <4>1. Picked(s) \in s /\ IsFiniteSet(s) /\ Cardinality(s) \in Nat
          BY <1>1, FS_Subset DEF Picked
        <4>2. Cardinality(s \ {Picked(s)}) = Cardinality(s) - 1
          BY <4>1, FS_RemoveElement
        <4> QED BY <4>1, <4>2, <3>1
      <3>4. \A s \in Layer(n - 1) : s \in Layer(n) /\ h[s] = g[s]
        BY <1>1, <3>1, <3>2 DEF Recursion
      <3>5. \A s \in Layer(n) : Unrolled(f, g, s) = Unrolled(f, h, s)
        BY <3>3, <3>4 DEF Unrolled
      <3>6. Recursion(f, h, Layer(n))
        BY <3>5 DEF Recursion
      <3> QED BY <3>6
    <2> QED BY <2>3, <2>4
  <1>3. Layer(Cardinality(S)) = SUBSET S
    BY <1>1, FS_Subset
  <1>4. Cardinality(S) \in Nat
    BY FS_CardinalityType
  <1>5. \E g : Recursion(f, g, SUBSET S)
    BY <1>2, <1>3, <1>4
  <1> QED BY <1>5 DEF Sums

(* Its value at a set depends on the function on that set only.             *)
LEMMA RecursionAgrees ==
    ASSUME NEW f, NEW g, NEW S, NEW T, NEW s, IsFiniteSet(S), IsFiniteSet(T),
           s \subseteq S, s \subseteq T, \A x \in s : f[x] = g[x]
    PROVE  Sums(f, S)[s] = Sums(g, T)[s]
  <1> DEFINE Bad == {t \in SUBSET s : Sums(f, S)[t] # Sums(g, T)[t]}
  <1>1. SUFFICES ASSUME Bad # {} PROVE FALSE
    OBVIOUS
  <1>2. IsFiniteSet(s)
    BY FS_Subset
  <1>3. PICK t \in Bad : \A x \in t : t \ {x} \notin Bad
    <2> HIDE DEF Bad
    <2>1. Bad \subseteq SUBSET s
      BY DEF Bad
    <2> QED BY <1>1, <1>2, <2>1, MinimalSubset
  <1>4. /\ Sums(f, S)[t] = Unrolled(f, Sums(f, S), t)
        /\ Sums(g, T)[t] = Unrolled(g, Sums(g, T), t)
    <2>1. t \in SUBSET S /\ t \in SUBSET T
      OBVIOUS
    <2>2. Recursion(f, Sums(f, S), SUBSET S) /\ Recursion(g, Sums(g, T), SUBSET T)
      BY RecursionSolved
    <2> QED BY <2>1, <2>2 DEF Recursion
  <1>5. CASE t = {}
    BY <1>4, <1>5 DEF Unrolled
  <1>6. CASE t # {}
    <2>1. Picked(t) \in t /\ Picked(t) \in s
      BY <1>6 DEF Picked
    <2>2. Sums(f, S)[t \ {Picked(t)}] = Sums(g, T)[t \ {Picked(t)}]
      BY <1>3, <2>1
    <2> QED BY <1>3, <1>4, <1>6, <2>1, <2>2 DEF Unrolled
  <1> QED BY <1>5, <1>6

-----------------------------------------------------------------------------
(* The laws of sums *)

(* The cardinality of a bag is the sum of its copies. *)
LEMMA BagIsSum ==
    ASSUME NEW B
    PROVE  BagCardinality(B) = SumOf(B, DOMAIN B)
  BY FoldIsRecursion, BagIsRecursion

(* Nothing adds up to 0. *)
LEMMA SumEmpty ==
    ASSUME NEW f
    PROVE  SumOf(f, {}) = 0
  <1>1. Recursion(f, Sums(f, {}), SUBSET {})
    BY FS_EmptySet, RecursionSolved
  <1> QED BY <1>1, FoldIsRecursion DEF Recursion, Unrolled

(* Equal terms, equal sums. *)
LEMMA SumCongruence ==
    ASSUME NEW f, NEW g, NEW S, IsFiniteSet(S), \A x \in S : f[x] = g[x]
    PROVE  SumOf(f, S) = SumOf(g, S)
  <1>1. Sums(f, S)[S] = Sums(g, S)[S]
    <2>1. S \subseteq S
      OBVIOUS
    <2> QED BY <2>1, RecursionAgrees
  <1> QED BY <1>1, FoldIsRecursion

(* Some element can be split off: the one the fold takes first.             *)
LEMMA SumSplitsOff ==
    ASSUME NEW f, NEW S, IsFiniteSet(S), S # {}
    PROVE  \E x \in S : SumOf(f, S) = f[x] + SumOf(f, S \ {x})
  <1>1. Picked(S) \in S
    BY DEF Picked
  <1>2. Recursion(f, Sums(f, S), SUBSET S)
    BY RecursionSolved
  <1>3. Sums(f, S)[S] = f[Picked(S)] + Sums(f, S)[S \ {Picked(S)}]
    BY <1>2 DEF Recursion, Unrolled
  <1>4. Sums(f, S)[S \ {Picked(S)}] = Sums(f, S \ {Picked(S)})[S \ {Picked(S)}]
    <2> SUFFICES ASSUME NEW s, s \subseteq S PROVE Sums(f, S)[s] = Sums(f, s)[s]
      OBVIOUS
    <2>1. IsFiniteSet(s) /\ s \subseteq s /\ \A x \in s : f[x] = f[x]
      BY FS_Subset
    <2> QED BY <2>1, RecursionAgrees
  <1> QED BY <1>1, <1>3, <1>4, FoldIsRecursion

Counts(f, S) == \A x \in S : f[x] \in Nat

(* A sum of naturals is one. *)
LEMMA SumType ==
    ASSUME NEW f, NEW S, IsFiniteSet(S), Counts(f, S)
    PROVE  SumOf(f, S) \in Nat
  <1> DEFINE Bad == {s \in SUBSET S : SumOf(f, s) \notin Nat}
  <1>1. SUFFICES ASSUME Bad # {} PROVE FALSE
    OBVIOUS
  <1>2. PICK s \in Bad : \A x \in s : s \ {x} \notin Bad
    <2> HIDE DEF Bad
    <2>1. Bad \subseteq SUBSET S
      BY DEF Bad
    <2> QED BY <1>1, <2>1, MinimalSubset
  <1>3. s # {}
    BY <1>2, SumEmpty
  <1>4. IsFiniteSet(s)
    BY FS_Subset
  <1>5. PICK x \in s : SumOf(f, s) = f[x] + SumOf(f, s \ {x})
    BY <1>3, <1>4, SumSplitsOff
  <1>6. SumOf(f, s \ {x}) \in Nat /\ f[x] \in Nat
    BY <1>2 DEF Counts
  <1> QED BY <1>2, <1>5, <1>6

(* Any element can be split off. *)
LEMMA SumRemove ==
    ASSUME NEW f, NEW S, IsFiniteSet(S), Counts(f, S), NEW y \in S
    PROVE  SumOf(f, S) = f[y] + SumOf(f, S \ {y})
  <1> DEFINE Splits(s) == \A z \in s : SumOf(f, s) = f[z] + SumOf(f, s \ {z})
             Bad == {s \in SUBSET S : ~Splits(s)}
  <1>1. SUFFICES ASSUME Bad # {} PROVE FALSE
    OBVIOUS
  <1>2. PICK s \in Bad : \A x \in s : s \ {x} \notin Bad
    <2> HIDE DEF Bad
    <2>1. Bad \subseteq SUBSET S
      BY DEF Bad
    <2> QED BY <1>1, <2>1, MinimalSubset
  <1>3. PICK z \in s : SumOf(f, s) # f[z] + SumOf(f, s \ {z})
    OBVIOUS
  <1>4. IsFiniteSet(s) /\ s \subseteq S
    BY FS_Subset
  <1>5. PICK x \in s : SumOf(f, s) = f[x] + SumOf(f, s \ {x})
    BY <1>4, SumSplitsOff
  <1>6. SumOf(f, s \ {x}) = f[z] + SumOf(f, (s \ {x}) \ {z})
    BY <1>2, <1>3, <1>4, <1>5
  <1>7. SumOf(f, s \ {z}) = f[x] + SumOf(f, (s \ {z}) \ {x})
    BY <1>2, <1>3, <1>4, <1>5
  <1>8. (s \ {z}) \ {x} = (s \ {x}) \ {z}
    OBVIOUS
  <1>9. SumOf(f, (s \ {x}) \ {z}) \in Nat /\ f[x] \in Nat /\ f[z] \in Nat
    <2>1. IsFiniteSet((s \ {x}) \ {z}) /\ Counts(f, (s \ {x}) \ {z})
      BY <1>4, FS_Subset DEF Counts
    <2> QED BY <1>4, <2>1, SumType DEF Counts
  <1>10. SumOf(f, s \ {z}) = f[x] + SumOf(f, (s \ {x}) \ {z})
    BY <1>7, <1>8
  <1> QED BY <1>3, <1>5, <1>6, <1>9, <1>10

(* A new element adds its term. *)
LEMMA SumAdd ==
    ASSUME NEW f, NEW S, IsFiniteSet(S), NEW y, y \notin S, Counts(f, S \cup {y})
    PROVE  SumOf(f, S \cup {y}) = f[y] + SumOf(f, S)
  <1>1. IsFiniteSet(S \cup {y}) /\ (S \cup {y}) \ {y} = S
    BY FS_AddElement
  <1>2. SumOf(f, S \cup {y}) = f[y] + SumOf(f, (S \cup {y}) \ {y})
    BY <1>1, SumRemove
  <1> QED BY <1>1, <1>2

(* A sum changes by what one of its terms changes by.                       *)
LEMMA SumChange ==
    ASSUME NEW f, NEW g, NEW S, IsFiniteSet(S), Counts(f, S), Counts(g, S),
           NEW y \in S, \A x \in S \ {y} : g[x] = f[x]
    PROVE  SumOf(g, S) + f[y] = SumOf(f, S) + g[y]
  <1>1. SumOf(f, S) = f[y] + SumOf(f, S \ {y}) /\ SumOf(g, S) = g[y] + SumOf(g, S \ {y})
    BY SumRemove
  <1>2. IsFiniteSet(S \ {y}) /\ Counts(f, S \ {y})
    BY FS_Subset DEF Counts
  <1>3. SumOf(f, S \ {y}) = SumOf(g, S \ {y}) /\ SumOf(f, S \ {y}) \in Nat
    BY <1>2, SumCongruence, SumType
  <1>4. f[y] \in Nat /\ g[y] \in Nat
    BY DEF Counts
  <1> QED BY <1>1, <1>3, <1>4

(* The sum over two disjoint sets. *)
LEMMA SumUnion ==
    ASSUME NEW f, NEW S, NEW T, IsFiniteSet(S), IsFiniteSet(T), S \cap T = {},
           Counts(f, S \cup T)
    PROVE  SumOf(f, S \cup T) = SumOf(f, S) + SumOf(f, T)
  <1> DEFINE Bad == {s \in SUBSET S : SumOf(f, s \cup T) # SumOf(f, s) + SumOf(f, T)}
  <1>1. SUFFICES ASSUME Bad # {} PROVE FALSE
    OBVIOUS
  <1>2. PICK s \in Bad : \A x \in s : s \ {x} \notin Bad
    <2> HIDE DEF Bad
    <2>1. Bad \subseteq SUBSET S
      BY DEF Bad
    <2> QED BY <1>1, <2>1, MinimalSubset
  <1>3. IsFiniteSet(s) /\ IsFiniteSet(s \cup T) /\ Counts(f, s) /\ Counts(f, s \cup T)
          /\ Counts(f, T)
    BY FS_Subset, FS_Union DEF Counts
  <1>4. SumOf(f, T) \in Nat
    BY <1>3, SumType
  <1>5. CASE s = {}
    BY <1>2, <1>4, <1>5, SumEmpty
  <1>6. CASE s # {}
    <2>1. PICK x \in s : TRUE
      BY <1>6
    <2>2. (s \cup T) \ {x} = (s \ {x}) \cup T
      BY <2>1
    <2>3. SumOf(f, s \cup T) = f[x] + SumOf(f, (s \ {x}) \cup T)
      BY <1>3, <2>1, <2>2, SumRemove
    <2>4. SumOf(f, s) = f[x] + SumOf(f, s \ {x})
      BY <1>3, <2>1, SumRemove
    <2>5. SumOf(f, (s \ {x}) \cup T) = SumOf(f, s \ {x}) + SumOf(f, T)
      BY <1>2, <2>1
    <2>6. SumOf(f, s \ {x}) \in Nat /\ f[x] \in Nat
      <3>1. IsFiniteSet(s \ {x}) /\ Counts(f, s \ {x})
        BY <1>3, FS_Subset DEF Counts
      <3> QED BY <1>3, <2>1, <3>1, SumType DEF Counts
    <2> QED BY <1>2, <1>4, <2>3, <2>4, <2>5, <2>6
  <1> QED BY <1>5, <1>6

(* A sum over fewer elements is no larger.                                  *)
LEMMA SumMonotone ==
    ASSUME NEW f, NEW S, NEW T, IsFiniteSet(S), T \subseteq S, Counts(f, S)
    PROVE  SumOf(f, T) <= SumOf(f, S)
  <1>1. IsFiniteSet(T) /\ IsFiniteSet(S \ T) /\ T \cup (S \ T) = S
    BY FS_Subset
  <1>2. Counts(f, T) /\ Counts(f, S \ T)
    BY DEF Counts
  <1>3. SumOf(f, S) = SumOf(f, T) + SumOf(f, S \ T)
    <2>1. T \cap (S \ T) = {}
      OBVIOUS
    <2>2. SumOf(f, T \cup (S \ T)) = SumOf(f, T) + SumOf(f, S \ T)
      BY <1>1, <2>1, SumUnion
    <2> QED BY <1>1, <2>2
  <1>4. SumOf(f, T) \in Nat /\ SumOf(f, S \ T) \in Nat
    BY <1>1, <1>2, SumType
  <1> QED BY <1>3, <1>4

(* Larger terms, larger sum. *)
LEMMA SumPointwise ==
    ASSUME NEW f, NEW g, NEW S, IsFiniteSet(S), Counts(f, S), Counts(g, S),
           \A x \in S : f[x] <= g[x]
    PROVE  SumOf(f, S) <= SumOf(g, S)
  <1> DEFINE Bad == {s \in SUBSET S : ~(SumOf(f, s) <= SumOf(g, s))}
  <1>1. SUFFICES ASSUME Bad # {} PROVE FALSE
    OBVIOUS
  <1>2. PICK s \in Bad : \A x \in s : s \ {x} \notin Bad
    <2> HIDE DEF Bad
    <2>1. Bad \subseteq SUBSET S
      BY DEF Bad
    <2> QED BY <1>1, <2>1, MinimalSubset
  <1>3. IsFiniteSet(s) /\ Counts(f, s) /\ Counts(g, s)
    BY FS_Subset DEF Counts
  <1>4. s # {}
    BY <1>2, SumEmpty
  <1>5. PICK x \in s : TRUE
    BY <1>4
  <1>6. SumOf(f, s) = f[x] + SumOf(f, s \ {x}) /\ SumOf(g, s) = g[x] + SumOf(g, s \ {x})
    BY <1>3, SumRemove
  <1>7. SumOf(f, s \ {x}) <= SumOf(g, s \ {x}) /\ f[x] <= g[x]
    BY <1>2
  <1>8. IsFiniteSet(s \ {x}) /\ Counts(f, s \ {x}) /\ Counts(g, s \ {x})
    BY <1>3, FS_Subset DEF Counts
  <1>9. SumOf(f, s \ {x}) \in Nat /\ SumOf(g, s \ {x}) \in Nat /\ f[x] \in Nat /\ g[x] \in Nat
    BY <1>3, <1>5, <1>8, SumType DEF Counts
  <1> QED BY <1>2, <1>6, <1>7, <1>9

LEMMA FiniteImage ==
    ASSUME NEW S, NEW h, IsFiniteSet(S)
    PROVE  IsFiniteSet({h[x] : x \in S})
  <1> DEFINE onto == [x \in S |-> h[x]]
  <1>1. onto \in Surjection(S, {h[x] : x \in S})
    BY DEF Surjection
  <1> QED BY <1>1, FS_Surjection

(* Renaming the elements one to one leaves the sum alone.                   *)
LEMMA SumRenamed ==
    ASSUME NEW f, NEW g, NEW S, NEW h, IsFiniteSet(S), Counts(g, S),
           \A x \in S : g[x] = f[h[x]],
           \A x, y \in S : h[x] = h[y] => x = y
    PROVE  SumOf(f, {h[x] : x \in S}) = SumOf(g, S)
  <1> DEFINE Image(s) == {h[x] : x \in s}
             Bad == {s \in SUBSET S : SumOf(f, Image(s)) # SumOf(g, s)}
  <1>1. SUFFICES ASSUME Bad # {} PROVE FALSE
    OBVIOUS
  <1>2. PICK s \in Bad : \A x \in s : s \ {x} \notin Bad
    <2> HIDE DEF Bad
    <2>1. Bad \subseteq SUBSET S
      BY DEF Bad
    <2> QED BY <1>1, <2>1, MinimalSubset
  <1>3. IsFiniteSet(s) /\ Counts(g, s)
    BY FS_Subset DEF Counts
  <1>4. s # {}
    <2>1. Image({}) = {}
      OBVIOUS
    <2> QED BY <1>2, <2>1, SumEmpty
  <1>5. PICK x \in s : TRUE
    BY <1>4
  <1>6. IsFiniteSet(Image(s)) /\ Counts(f, Image(s))
    <2>1. IsFiniteSet(Image(s))
      BY <1>3, FiniteImage
    <2>2. Counts(f, Image(s))
      BY <1>3 DEF Counts
    <2> QED BY <2>1, <2>2
  <1>7. Image(s) \ {h[x]} = Image(s \ {x})
    BY <1>5
  <1>8. SumOf(f, Image(s)) = f[h[x]] + SumOf(f, Image(s \ {x}))
    <2>1. h[x] \in Image(s)
      BY <1>5
    <2> HIDE DEF Image
    <2>2. SumOf(f, Image(s)) = f[h[x]] + SumOf(f, Image(s) \ {h[x]})
      BY <1>6, <2>1, SumRemove
    <2> QED BY <1>7, <2>2
  <1>9. SumOf(g, s) = g[x] + SumOf(g, s \ {x})
    BY <1>3, <1>5, SumRemove
  <1> QED BY <1>2, <1>5, <1>8, <1>9

(* Zeros add up to 0. *)
LEMMA SumZero ==
    ASSUME NEW f, NEW S, IsFiniteSet(S), \A x \in S : f[x] = 0
    PROVE  SumOf(f, S) = 0
  <1> DEFINE Bad == {s \in SUBSET S : SumOf(f, s) # 0}
  <1>1. SUFFICES ASSUME Bad # {} PROVE FALSE
    OBVIOUS
  <1>2. PICK s \in Bad : \A x \in s : s \ {x} \notin Bad
    <2> HIDE DEF Bad
    <2>1. Bad \subseteq SUBSET S
      BY DEF Bad
    <2> QED BY <1>1, <2>1, MinimalSubset
  <1>3. s # {} /\ IsFiniteSet(s)
    BY <1>2, SumEmpty, FS_Subset
  <1>4. PICK x \in s : SumOf(f, s) = f[x] + SumOf(f, s \ {x})
    BY <1>3, SumSplitsOff
  <1>5. f[x] = 0 /\ SumOf(f, s \ {x}) = 0
    BY <1>2
  <1> QED BY <1>2, <1>4, <1>5

(* No term is above the sum. *)
LEMMA TermBelowSum ==
    ASSUME NEW f, NEW S, IsFiniteSet(S), Counts(f, S), NEW x \in S
    PROVE  f[x] <= SumOf(f, S)
  <1>1. SumOf(f, S) = f[x] + SumOf(f, S \ {x})
    BY SumRemove
  <1>2. IsFiniteSet(S \ {x}) /\ Counts(f, S \ {x})
    BY FS_Subset DEF Counts
  <1>3. SumOf(f, S \ {x}) \in Nat /\ f[x] \in Nat
    BY <1>2, SumType DEF Counts
  <1> QED BY <1>1, <1>3


(* The sum of sums. *)
LEMMA SumPlus ==
    ASSUME NEW f, NEW g, NEW h, NEW S, IsFiniteSet(S), Counts(f, S), Counts(g, S),
           \A x \in S : h[x] = f[x] + g[x]
    PROVE  SumOf(h, S) = SumOf(f, S) + SumOf(g, S)
  <1> DEFINE Bad == {s \in SUBSET S : SumOf(h, s) # SumOf(f, s) + SumOf(g, s)}
  <1>1. SUFFICES ASSUME Bad # {} PROVE FALSE
    OBVIOUS
  <1>2. PICK s \in Bad : \A x \in s : s \ {x} \notin Bad
    <2> HIDE DEF Bad
    <2>1. Bad \subseteq SUBSET S
      BY DEF Bad
    <2> QED BY <1>1, <2>1, MinimalSubset
  <1>3. IsFiniteSet(s) /\ Counts(f, s) /\ Counts(g, s) /\ Counts(h, s)
    BY FS_Subset DEF Counts
  <1>4. s # {}
    BY <1>2, SumEmpty
  <1>5. PICK x \in s : TRUE
    BY <1>4
  <1>6. /\ SumOf(f, s) = f[x] + SumOf(f, s \ {x})
        /\ SumOf(g, s) = g[x] + SumOf(g, s \ {x})
        /\ SumOf(h, s) = h[x] + SumOf(h, s \ {x})
    BY <1>3, SumRemove
  <1>7. SumOf(h, s \ {x}) = SumOf(f, s \ {x}) + SumOf(g, s \ {x}) /\ h[x] = f[x] + g[x]
    BY <1>2, <1>5
  <1>8. IsFiniteSet(s \ {x}) /\ Counts(f, s \ {x}) /\ Counts(g, s \ {x})
    BY <1>3, FS_Subset DEF Counts
  <1>9. SumOf(f, s \ {x}) \in Nat /\ SumOf(g, s \ {x}) \in Nat /\ f[x] \in Nat /\ g[x] \in Nat
    BY <1>3, <1>5, <1>8, SumType DEF Counts
  <1> QED BY <1>2, <1>6, <1>7, <1>9

-----------------------------------------------------------------------------
(* Sums that count the members of a set *)

ClassOf(X, b, a) == {x \in X : b[x] = a}
ClassesIn(X, b, S) == {x \in X : b[x] \in S}

(* Sorting a finite set into classes: the sizes of the classes add up.      *)
LEMMA SumOfClasses ==
    ASSUME NEW X, IsFiniteSet(X), NEW b, NEW S, IsFiniteSet(S), NEW f,
           \A a \in S : f[a] = Cardinality(ClassOf(X, b, a))
    PROVE  SumOf(f, S) = Cardinality(ClassesIn(X, b, S))
  <1> USE DEF ClassOf, ClassesIn
  <1> DEFINE Class(a) == {x \in X : b[x] = a}
             In(s) == {x \in X : b[x] \in s}
             Bad == {s \in SUBSET S : SumOf(f, s) # Cardinality(In(s))}
  <1>1. SUFFICES ASSUME Bad # {} PROVE FALSE
    <2>1. S \in SUBSET S
      OBVIOUS
    <2> QED BY <2>1
  <1>2. PICK s \in Bad : \A x \in s : s \ {x} \notin Bad
    <2> HIDE DEF Bad
    <2>1. Bad \subseteq SUBSET S
      BY DEF Bad
    <2> QED BY <1>1, <2>1, MinimalSubset
  <1>3. \A a \in s : IsFiniteSet(Class(a)) /\ Cardinality(Class(a)) \in Nat
    BY FS_Subset, FS_CardinalityType
  <1>4. \A t \in SUBSET s : IsFiniteSet(In(t)) /\ Cardinality(In(t)) \in Nat
    BY FS_Subset, FS_CardinalityType
  <1>5. IsFiniteSet(s) /\ Counts(f, s)
    BY <1>3, FS_Subset DEF Counts
  <1>6. s # {}
    <2>1. In({}) = {}
      OBVIOUS
    <2> QED BY <1>2, <2>1, SumEmpty, FS_EmptySet
  <1>7. PICK a \in s : TRUE
    BY <1>6
  <1>8. SumOf(f, s) = f[a] + SumOf(f, s \ {a})
    BY <1>5, SumRemove
  <1>9. SumOf(f, s \ {a}) = Cardinality(In(s \ {a})) /\ f[a] = Cardinality(Class(a))
    BY <1>2
  <1>10. In(s) = Class(a) \cup In(s \ {a}) /\ Class(a) \cap In(s \ {a}) = {}
    BY <1>7
  <1>11. Cardinality(In(s)) = Cardinality(Class(a)) + Cardinality(In(s \ {a}))
    <2>1. IsFiniteSet(Class(a)) /\ IsFiniteSet(In(s \ {a}))
      BY <1>3, <1>4
    <2> HIDE DEF Class, In
    <2>2. Cardinality(Class(a) \cup In(s \ {a})) =
              Cardinality(Class(a)) + Cardinality(In(s \ {a}))
                  - Cardinality(Class(a) \cap In(s \ {a}))
      BY <2>1, FS_Union
    <2>4. Cardinality(Class(a) \cap In(s \ {a})) = 0
      BY <1>10, FS_EmptySet
    <2>3. Cardinality(Class(a)) \in Nat /\ Cardinality(In(s \ {a})) \in Nat
      BY <2>1, FS_CardinalityType
    <2> QED BY <1>10, <2>2, <2>3, <2>4
  <1> QED BY <1>2, <1>8, <1>9, <1>11

(* The cells under a step function are as many as its sum. *)
Cells(f, S) == {c \in S \X Nat : 1 <= c[2] /\ c[2] <= f[c[1]]}

LEMMA SumOfCells ==
    ASSUME NEW S, IsFiniteSet(S), NEW f, Counts(f, S)
    PROVE  IsFiniteSet(Cells(f, S)) /\ Cardinality(Cells(f, S)) = SumOf(f, S)
  <1> DEFINE Good(s) == /\ IsFiniteSet(Cells(f, s))
                        /\ Cardinality(Cells(f, s)) = SumOf(f, s)
             Bad == {s \in SUBSET S : ~Good(s)}
  <1>1. SUFFICES ASSUME Bad # {} PROVE FALSE
    <2>1. S \in SUBSET S
      OBVIOUS
    <2> QED BY <2>1
  <1>2. PICK s \in Bad : \A x \in s : s \ {x} \notin Bad
    <2> HIDE DEF Bad
    <2>1. Bad \subseteq SUBSET S
      BY DEF Bad
    <2> QED BY <1>1, <2>1, MinimalSubset
  <1>3. IsFiniteSet(s) /\ Counts(f, s)
    BY FS_Subset DEF Counts
  <1>4. s # {}
    <2>1. Cells(f, {}) = {}
      BY DEF Cells
    <2> QED BY <1>2, <2>1, SumEmpty, FS_EmptySet
  <1>5. PICK a \in s : TRUE
    BY <1>4
  <1> DEFINE column == {a} \X (1 .. f[a])
  <1>6. f[a] \in Nat
    BY <1>3, <1>5 DEF Counts
  <1>7. IsFiniteSet(column) /\ Cardinality(column) = f[a]
    <2>1. IsFiniteSet({a}) /\ Cardinality({a}) = 1
      BY FS_Singleton
    <2>2. IsFiniteSet(1 .. f[a]) /\ Cardinality(1 .. f[a]) = f[a]
      BY <1>6, FS_Interval
    <2>3. IsFiniteSet(column) /\ Cardinality(column) = 1 * f[a]
      BY <2>1, <2>2, FS_Product
    <2> QED BY <1>6, <2>3
  <1>8. /\ Cells(f, s) = column \cup Cells(f, s \ {a})
        /\ column \cap Cells(f, s \ {a}) = {}
    BY <1>5, <1>6 DEF Cells
  <1>9. IsFiniteSet(Cells(f, s \ {a})) /\ Cardinality(Cells(f, s \ {a})) = SumOf(f, s \ {a})
    BY <1>2, <1>5
  <1>10. SumOf(f, s) = f[a] + SumOf(f, s \ {a})
    BY <1>3, SumRemove
  <1>11. Good(s)
    <2> HIDE DEF column
    <2>1. /\ IsFiniteSet(column \cup Cells(f, s \ {a}))
          /\ Cardinality(column \cup Cells(f, s \ {a})) =
                 Cardinality(column) + Cardinality(Cells(f, s \ {a})) - 0
      <3> DEFINE rest == Cells(f, s \ {a})
      <3> HIDE DEF rest
      <3>1. /\ IsFiniteSet(column) /\ IsFiniteSet(rest) /\ column \cap rest = {}
        BY <1>7, <1>8, <1>9 DEF rest
      <3>2. /\ IsFiniteSet(column \cup rest)
            /\ Cardinality(column \cup rest) =
                   Cardinality(column) + Cardinality(rest) - Cardinality(column \cap rest)
        BY <3>1, FS_Union
      <3>3. Cardinality(column \cap rest) = 0
        BY <3>1, FS_EmptySet
      <3> QED BY <3>2, <3>3 DEF rest
    <2>2. Cardinality(Cells(f, s \ {a})) \in Nat
      BY <1>9, FS_CardinalityType
    <2> QED BY <1>6, <1>7, <1>8, <1>9, <1>10, <2>1, <2>2
  <1> QED BY <1>2, <1>11

-----------------------------------------------------------------------------
(* Sums over intervals: counters by age *)

LEMMA SumSplitsAt ==
    ASSUME NEW f, NEW a \in Int, NEW b \in Int, NEW c \in Int, a <= b + 1, b <= c,
           Counts(f, a .. c)
    PROVE  SumOf(f, a .. c) = SumOf(f, a .. b) + SumOf(f, b + 1 .. c)
  <1>1. /\ a .. c = (a .. b) \cup (b + 1 .. c) /\ (a .. b) \cap (b + 1 .. c) = {}
    OBVIOUS
  <1>2. IsFiniteSet(a .. b) /\ IsFiniteSet(b + 1 .. c)
    BY FS_Interval
  <1> QED BY <1>1, <1>2, SumUnion

(* Counters that age keep their sums, an age later. *)
LEMMA SumShifts ==
    ASSUME NEW f, NEW g, NEW a \in Int, NEW b \in Int, Counts(f, a .. b),
           \A x \in a .. b : g[x + 1] = f[x]
    PROVE  SumOf(g, a + 1 .. b + 1) = SumOf(f, a .. b)
  <1> DEFINE h == [x \in a .. b |-> x + 1]
  <1>1. {h[x] : x \in a .. b} = a + 1 .. b + 1
    <2>1. \A y \in a + 1 .. b + 1 : y - 1 \in a .. b /\ h[y - 1] = y
      OBVIOUS
    <2>2. \A x \in a .. b : h[x] \in a + 1 .. b + 1
      OBVIOUS
    <2> QED BY <2>1, <2>2
  <1>2. \A x, y \in a .. b : h[x] = h[y] => x = y
    OBVIOUS
  <1>3. \A x \in a .. b : f[x] = g[h[x]]
    OBVIOUS
  <1>4. IsFiniteSet(a .. b)
    BY FS_Interval
  <1>5. SumOf(g, {h[x] : x \in a .. b}) = SumOf(f, a .. b)
    <2> DEFINE S == a .. b
    <2>1. /\ IsFiniteSet(S) /\ Counts(f, S) /\ \A x \in S : f[x] = g[h[x]]
          /\ \A x, y \in S : h[x] = h[y] => x = y
      BY <1>2, <1>3, <1>4
    <2> HIDE DEF h, S
    <2>2. SumOf(g, {h[x] : x \in S}) = SumOf(f, S)
      BY <2>1, SumRenamed
    <2> QED BY <2>2 DEF S
  <1> QED BY <1>1, <1>5

(* A counter of age 0 begins with nothing. *)
LEMMA SumFromZero ==
    ASSUME NEW f, NEW g, NEW n \in Int, n >= -1, Counts(f, 0 .. n),
           g[0] = 0, \A x \in 0 .. n : g[x + 1] = f[x]
    PROVE  SumOf(g, 0 .. n + 1) = SumOf(f, 0 .. n)
  <1>1. \A x \in 0 .. n + 1 : x = 0 \/ (x - 1 \in 0 .. n /\ g[x] = f[x - 1])
    <2> SUFFICES ASSUME NEW x \in 0 .. n + 1, x # 0
                 PROVE  x - 1 \in 0 .. n /\ g[x] = f[x - 1]
      OBVIOUS
    <2>1. x - 1 \in 0 .. n /\ (x - 1) + 1 = x
      OBVIOUS
    <2> QED BY <2>1
  <1>2. Counts(g, 0 .. n + 1)
    BY <1>1 DEF Counts
  <1>3. IsFiniteSet(0 .. n + 1) /\ 0 \in 0 .. n + 1 /\ (0 .. n + 1) \ {0} = 0 + 1 .. n + 1
    <2>1. n + 1 \in Int
      OBVIOUS
    <2>2. IsFiniteSet(0 .. n + 1)
      BY <2>1, FS_Interval
    <2>3. (0 .. n + 1) \ {0} = 0 + 1 .. n + 1
      OBVIOUS
    <2> QED BY <2>2, <2>3
  <1>4. SumOf(g, 0 .. n + 1) = 0 + SumOf(g, 0 + 1 .. n + 1)
    <2>1. SumOf(g, 0 .. n + 1) = g[0] + SumOf(g, (0 .. n + 1) \ {0})
      BY <1>2, <1>3, SumRemove
    <2> QED BY <1>3, <2>1
  <1>5. SumOf(g, 0 + 1 .. n + 1) = SumOf(f, 0 .. n)
    BY SumShifts
  <1>6. SumOf(f, 0 .. n) \in Nat
    BY FS_Interval, SumType
  <1> QED BY <1>4, <1>5, <1>6

=============================================================================
