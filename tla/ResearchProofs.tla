------------------------------- MODULE ResearchProofs -------------------------------
(***************************************************************************)
(* Proofs about the research workflow: the enrichment queue for any        *)
(* topics, batches, researchers, pages and interruption; the requests of   *)
(* the topic batches, the difficulty run and the typed run, and what they  *)
(* cost, for any topics, threads and budgets and however often a process   *)
(* is killed; the normalizer for any responses and corrections.  A charge  *)
(* is a sum over topics, so the module starts with what SumFunction is.    *)
(***************************************************************************)
EXTENDS Research, TLAPS, FiniteSetTheorems, WellFoundedInduction

(***************************************************************************)
(* Sums over finite sets: SumFunctionOnSet is what its definition says.    *)
(***************************************************************************)

\* Some numbers have a least one, which is what Min returns.
LEMMA LeastNumber ==
    ASSUME NEW S, S \subseteq Nat, S # {}
    PROVE  \E x \in S : \A y \in S : x <= y
<1>1. PICK x \in S : \A y \in S : ~(<<y, x>> \in OpToRel(<, Nat))
  BY NatLessThanWellFounded, WFMin, Zenon
<1>2. ASSUME NEW y \in S
      PROVE  x <= y
  <2>1. ~(<<y, x>> \in OpToRel(<, Nat))
    BY <1>1
  <2>2. ~(y < x)
    BY <2>1 DEF OpToRel
  <2> QED BY <2>2
<1> QED BY <1>2

LEMMA LeastPosition ==
    ASSUME NEW S, S \subseteq Nat, S # {}
    PROVE  Min(S) \in S /\ \A y \in S : Min(S) <= y
BY LeastNumber DEF Min

\* Among finite sets there is one of which no proper subset is among them.
LEMMA SmallestSet ==
    ASSUME NEW T, T # {}, \A s \in T : IsFiniteSet(s)
    PROVE  \E s \in T : \A r \in SUBSET s : r = s \/ r \notin T
<1> DEFINE C == {Cardinality(s) : s \in T}
<1>1. C \subseteq Nat /\ C # {}
    BY FS_CardinalityType
<1>2. PICK n \in C : \A m \in C : n <= m
    <2> HIDE DEF C
    <2>1. QED BY <1>1, LeastNumber
<1>3. PICK s \in T : Cardinality(s) = n
    OBVIOUS
<1>4. ASSUME NEW r \in SUBSET s, r # s, r \in T
      PROVE  FALSE
    <2>1. Cardinality(r) <= n /\ Cardinality(r) # n
        BY <1>3, <1>4, FS_Subset
    <2>2. Cardinality(r) \in C /\ n <= Cardinality(r)
        BY <1>2, <1>4
    <2>3. Cardinality(r) \in Nat /\ n \in Nat
        BY <1>1, <2>2
    <2>4. QED BY <2>1, <2>2, <2>3
<1>5. QED BY <1>4

Pick(s) == CHOOSE x \in s : TRUE
Summed(f, g, s) == IF s = {} THEN 0 ELSE f[Pick(s)] + g[s \ {Pick(s)}]
IsSum(f, D, g) == g = [s \in SUBSET D |-> Summed(f, g, s)]

LEMMA SumIsChosen ==
    ASSUME NEW f, NEW D
    PROVE  SumFunctionOnSet(f, D) = (CHOOSE g : IsSum(f, D, g))[D]
BY DEF SumFunctionOnSet, FoldFunctionOnSet, MapThenFoldSet, IsSum, Summed, Pick

\* Two functions that follow the definition agree wherever both are defined.
LEMMA SumUnique ==
    ASSUME NEW f, NEW D, NEW E, IsFiniteSet(D), E \subseteq D,
           NEW g, NEW h, IsSum(f, D, g), IsSum(f, E, h)
    PROVE  \A s \in SUBSET E : g[s] = h[s]
<1> DEFINE T == {s \in SUBSET E : g[s] # h[s]}
<1>1. SUFFICES ASSUME T # {} PROVE FALSE
    OBVIOUS
<1>2. \A s \in T : IsFiniteSet(s)
    BY FS_Subset
<1>3. PICK s \in T : \A r \in SUBSET s : r = s \/ r \notin T
    <2> HIDE DEF T
    <2>1. QED BY <1>1, <1>2, SmallestSet
<1>4. s \in SUBSET E /\ s \in SUBSET D /\ g[s] # h[s]
    BY <1>3
<1>5. g[s] = Summed(f, g, s) /\ h[s] = Summed(f, h, s)
    BY <1>4 DEF IsSum
<1>6. CASE s = {}
    BY <1>4, <1>5, <1>6 DEF Summed
<1>7. CASE s # {}
    <2>1. Pick(s) \in s
        BY <1>7 DEF Pick
    <2> DEFINE r == s \ {Pick(s)}
    <2>2. r \in SUBSET s /\ r # s
        BY <2>1
    <2>3. g[r] = h[r]
        BY <1>3, <1>4, <2>2
    <2>4. QED BY <1>4, <1>5, <1>7, <2>3 DEF Summed
<1>8. QED BY <1>6, <1>7

LEMMA SumExists ==
    ASSUME NEW f, NEW D, IsFiniteSet(D)
    PROVE  \E g : IsSum(f, D, g)
<1> DEFINE Has(s) == \E g : IsSum(f, s, g)
           T == {s \in SUBSET D : ~Has(s)}
<1>1. SUFFICES ASSUME T # {} PROVE FALSE
    BY SMT
<1>2. \A s \in T : IsFiniteSet(s)
    BY FS_Subset
<1>3. PICK s \in T : \A r \in SUBSET s : r = s \/ r \notin T
    <2> HIDE DEF T
    <2>1. QED BY <1>1, <1>2, SmallestSet
<1>4. s \in SUBSET D /\ ~Has(s)
    BY <1>3
<1>5. \A r \in SUBSET s : r # s => Has(r)
    BY <1>3, <1>4
<1> DEFINE Of(r) == CHOOSE g : IsSum(f, r, g)
           total == [r \in SUBSET s |-> IF r = {} THEN 0 ELSE f[Pick(r)] + Of(r \ {Pick(r)})[r \ {Pick(r)}]]
<1> HIDE DEF T
<1>6. ASSUME NEW r \in SUBSET s, r # s
      PROVE  IsSum(f, r, Of(r)) /\ IsFiniteSet(r)
    <2>1. Has(r)
        BY <1>5, <1>6
    <2>2. IsFiniteSet(r)
        BY <1>4, FS_Subset
    <2>3. QED BY <2>1, <2>2
<1> HIDE DEF Of
<1>7. ASSUME NEW r \in SUBSET s, r # s
      PROVE  total[r] = Of(r)[r]
    <2>1. IsSum(f, r, Of(r)) /\ IsFiniteSet(r)
        BY <1>6, <1>7
    <2>2. Of(r)[r] = Summed(f, Of(r), r)
        BY <2>1 DEF IsSum
    <2>3. CASE r = {}
        BY <2>2, <2>3 DEF Summed
    <2>4. CASE r # {}
        <3> DEFINE q == r \ {Pick(r)}
        <3>1. Pick(r) \in r
            BY <2>4 DEF Pick
        <3>2. q \in SUBSET s /\ q # s /\ q \subseteq r
            BY <3>1
        <3>3. IsSum(f, q, Of(q))
            BY <1>6, <3>2
        <3>4. Of(r)[q] = Of(q)[q]
            <4> HIDE DEF q
            <4>1. QED BY <2>1, <3>2, <3>3, SumUnique
        <3>5. total[r] = f[Pick(r)] + Of(q)[q]
            BY <2>4
        <3>6. QED BY <2>2, <2>4, <3>4, <3>5 DEF Summed
    <2>5. QED BY <2>3, <2>4
<1>8. \A r \in SUBSET s : total[r] = Summed(f, total, r)
    <2> SUFFICES ASSUME NEW r \in SUBSET s PROVE total[r] = Summed(f, total, r)
        OBVIOUS
    <2>1. CASE r = {}
        BY <2>1 DEF Summed
    <2>2. CASE r # {}
        <3> DEFINE q == r \ {Pick(r)}
        <3>1. Pick(r) \in r
            BY <2>2 DEF Pick
        <3>2. q \in SUBSET s /\ q # s
            BY <3>1
        <3>3. total[q] = Of(q)[q]
            <4> HIDE DEF q, total
            <4>1. QED BY <1>7, <3>2
        <3>4. total[r] = f[Pick(r)] + Of(q)[q]
            BY <2>2
        <3> HIDE DEF total
        <3>5. QED BY <2>2, <3>3, <3>4 DEF Summed
    <2>3. QED BY <2>1, <2>2
<1>9. IsSum(f, s, total)
    <2>1. DOMAIN total = SUBSET s /\ total = [r \in SUBSET s |-> total[r]]
        OBVIOUS
    <2> HIDE DEF total
    <2>2. QED BY <1>8, <2>1 DEF IsSum
<1>10. QED BY <1>4, <1>9

\* What one needs to know of a sum: it is of nothing, or of an element and the rest.
LEMMA SumIs ==
    ASSUME NEW f, NEW D, IsFiniteSet(D)
    PROVE  SumFunctionOnSet(f, D) =
             IF D = {} THEN 0 ELSE f[Pick(D)] + SumFunctionOnSet(f, D \ {Pick(D)})
<1> DEFINE Of(r) == CHOOSE g : IsSum(f, r, g)
           q == D \ {Pick(D)}
<1>1. IsSum(f, D, Of(D)) /\ IsSum(f, q, Of(q))
    <2>1. IsFiniteSet(q)
        BY FS_Subset
    <2> HIDE DEF q
    <2>2. QED BY <2>1, SumExists
<1>2. SumFunctionOnSet(f, D) = Of(D)[D] /\ SumFunctionOnSet(f, q) = Of(q)[q]
    BY SumIsChosen
<1> HIDE DEF Of
<1>3. Of(D)[D] = Summed(f, Of(D), D)
    BY <1>1 DEF IsSum
<1>4. Of(D)[q] = Of(q)[q]
    <2>1. q \subseteq D
        OBVIOUS
    <2> HIDE DEF q
    <2>2. QED BY <1>1, <2>1, SumUnique
<1>5. QED BY <1>2, <1>3, <1>4 DEF Summed

\* Induction over the parts of a finite set.
LEMMA PartByPart ==
    ASSUME NEW D, IsFiniteSet(D), NEW T, {} \in T,
           \A s \in SUBSET D : s # {} /\ Pick(s) \in s /\ (\A r \in SUBSET s : r = s \/ r \in T) => s \in T
    PROVE  D \in T
<1> DEFINE U == {s \in SUBSET D : s \notin T}
<1>1. SUFFICES ASSUME U # {} PROVE FALSE
    OBVIOUS
<1>2. \A s \in U : IsFiniteSet(s)
    BY FS_Subset
<1>3. PICK s \in U : \A r \in SUBSET s : r = s \/ r \notin U
    <2> HIDE DEF U
    <2>1. QED BY <1>1, <1>2, SmallestSet
<1>4. s \in SUBSET D /\ s \notin T /\ s # {}
    BY <1>3
<1>5. Pick(s) \in s
    BY <1>4 DEF Pick
<1>6. \A r \in SUBSET s : r = s \/ r \in T
    BY <1>3, <1>4
<1>7. QED BY <1>4, <1>5, <1>6

LEMMA SumStep ==
    ASSUME NEW f, NEW s, IsFiniteSet(s), s # {}
    PROVE  SumFunctionOnSet(f, s) = f[Pick(s)] + SumFunctionOnSet(f, s \ {Pick(s)})
BY SumIs

LEMMA SumOfNone ==
    ASSUME NEW f
    PROVE  SumFunctionOnSet(f, {}) = 0
BY SumIs, FS_EmptySet

LEMMA SumIsNat ==
    ASSUME NEW f, NEW D, IsFiniteSet(D), \A x \in D : f[x] \in Nat
    PROVE  SumFunctionOnSet(f, D) \in Nat
<1> DEFINE T == {s \in SUBSET D : SumFunctionOnSet(f, s) \in Nat}
<1>1. {} \in T
    BY SumOfNone
<1>2. ASSUME NEW s \in SUBSET D, s # {}, Pick(s) \in s, \A r \in SUBSET s : r = s \/ r \in T
      PROVE  s \in T
    <2>1. SumFunctionOnSet(f, s) = f[Pick(s)] + SumFunctionOnSet(f, s \ {Pick(s)})
        BY <1>2, FS_Subset, SumStep
    <2>2. f[Pick(s)] \in Nat /\ SumFunctionOnSet(f, s \ {Pick(s)}) \in Nat
        BY <1>2
    <2>3. QED BY <2>1, <2>2
<1>3. D \in T
    <2> HIDE DEF T
    <2>1. QED BY <1>1, <1>2, PartByPart
<1>4. QED BY <1>3

\* Smaller summands have a smaller sum.
LEMMA SumMonotone ==
    ASSUME NEW f, NEW h, NEW D, IsFiniteSet(D),
           \A x \in D : f[x] \in Nat /\ h[x] \in Nat /\ f[x] <= h[x]
    PROVE  SumFunctionOnSet(f, D) <= SumFunctionOnSet(h, D)
<1> DEFINE T == {s \in SUBSET D : SumFunctionOnSet(f, s) <= SumFunctionOnSet(h, s)}
<1>1. {} \in T
    <2>1. SumFunctionOnSet(f, {}) = 0 /\ SumFunctionOnSet(h, {}) = 0
        BY SumOfNone
    <2>2. QED BY <2>1
<1>2. ASSUME NEW s \in SUBSET D, s # {}, Pick(s) \in s, \A r \in SUBSET s : r = s \/ r \in T
      PROVE  s \in T
    <2> DEFINE r == s \ {Pick(s)}
    <2>1. /\ SumFunctionOnSet(f, s) = f[Pick(s)] + SumFunctionOnSet(f, r)
          /\ SumFunctionOnSet(h, s) = h[Pick(s)] + SumFunctionOnSet(h, r)
        BY <1>2, FS_Subset, SumStep
    <2>2. SumFunctionOnSet(f, r) \in Nat /\ SumFunctionOnSet(h, r) \in Nat
        <3>1. IsFiniteSet(r) /\ r \subseteq D
            BY FS_Subset
        <3> HIDE DEF r
        <3>2. QED BY <3>1, SumIsNat
    <2>3. f[Pick(s)] \in Nat /\ h[Pick(s)] \in Nat /\ f[Pick(s)] <= h[Pick(s)]
        BY <1>2
    <2>4. SumFunctionOnSet(f, r) <= SumFunctionOnSet(h, r)
        BY <1>2
    <2>5. QED BY <2>1, <2>2, <2>3, <2>4
<1>3. D \in T
    <2> HIDE DEF T
    <2>1. QED BY <1>1, <1>2, PartByPart
<1>4. QED BY <1>3

LEMMA SumSame ==
    ASSUME NEW f, NEW h, NEW D, IsFiniteSet(D), \A x \in D : f[x] \in Nat /\ h[x] = f[x]
    PROVE  SumFunctionOnSet(f, D) = SumFunctionOnSet(h, D)
<1>1. SumFunctionOnSet(f, D) \in Nat /\ SumFunctionOnSet(h, D) \in Nat
    BY SumIsNat
<1>2. SumFunctionOnSet(f, D) <= SumFunctionOnSet(h, D)
    BY SumMonotone
<1>3. SumFunctionOnSet(h, D) <= SumFunctionOnSet(f, D)
    BY SumMonotone
<1>4. QED BY <1>1, <1>2, <1>3

\* Any element can be taken out.
LEMMA SumTakes ==
    ASSUME NEW f, NEW D, IsFiniteSet(D), \A x \in D : f[x] \in Nat, NEW y \in D
    PROVE  SumFunctionOnSet(f, D) = f[y] + SumFunctionOnSet(f, D \ {y})
<1> DEFINE Takes(s, x) == SumFunctionOnSet(f, s) = f[x] + SumFunctionOnSet(f, s \ {x})
           T == {s \in SUBSET D : \A x \in s : Takes(s, x)}
<1>1. {} \in T
    OBVIOUS
<1>2. ASSUME NEW s \in SUBSET D, s # {}, Pick(s) \in s, \A r \in SUBSET s : r = s \/ r \in T, NEW x \in s
      PROVE  Takes(s, x)
    <2> DEFINE p == Pick(s)
               rest == s \ {p, x}
    <2>1. Takes(s, p)
        BY <1>2, FS_Subset, SumStep
    <2>2. CASE x = p
        BY <2>1, <2>2
    <2>3. CASE x # p
        <3>1. s \ {p} \in T /\ s \ {x} \in T
            BY <1>2
        <3>2. Takes(s \ {p}, x) /\ Takes(s \ {x}, p)
            BY <1>2, <2>3, <3>1
        <3>3. (s \ {p}) \ {x} = rest /\ (s \ {x}) \ {p} = rest
            OBVIOUS
        <3>4. SumFunctionOnSet(f, rest) \in Nat /\ f[p] \in Nat /\ f[x] \in Nat
            <4>1. IsFiniteSet(rest) /\ rest \subseteq D
                BY FS_Subset
            <4> HIDE DEF rest
            <4>2. QED BY <1>2, <4>1, SumIsNat
        <3>5. SumFunctionOnSet(f, s \ {p}) = f[x] + SumFunctionOnSet(f, rest)
            BY <3>2, <3>3
        <3>6. SumFunctionOnSet(f, s \ {x}) = f[p] + SumFunctionOnSet(f, rest)
            BY <3>2, <3>3
        <3>7. SumFunctionOnSet(f, s) = f[p] + SumFunctionOnSet(f, s \ {p})
            BY <2>1
        <3> HIDE DEF rest, p
        <3>8. SumFunctionOnSet(f, s) = f[x] + SumFunctionOnSet(f, s \ {x})
            BY <3>4, <3>5, <3>6, <3>7
        <3>9. QED BY <3>8
    <2>4. QED BY <2>2, <2>3
<1>3. D \in T
    <2>1. \A s \in SUBSET D : s # {} /\ Pick(s) \in s /\ (\A r \in SUBSET s : r = s \/ r \in T) => s \in T
        BY <1>2
    <2> HIDE DEF T
    <2>2. QED BY <1>1, <2>1, PartByPart
<1>4. QED BY <1>3

\* One summand changes.
LEMMA SumChanges ==
    ASSUME NEW f, NEW h, NEW D, IsFiniteSet(D), \A x \in D : f[x] \in Nat /\ h[x] \in Nat,
           NEW y \in D, \A x \in D \ {y} : h[x] = f[x]
    PROVE  SumFunctionOnSet(h, D) + f[y] = SumFunctionOnSet(f, D) + h[y]
<1> DEFINE rest == D \ {y}
<1>1. IsFiniteSet(rest) /\ rest \subseteq D
    BY FS_Subset
<1>2. SumFunctionOnSet(h, D) = h[y] + SumFunctionOnSet(h, rest) /\ SumFunctionOnSet(f, D) = f[y] + SumFunctionOnSet(f, rest)
    BY SumTakes
<1>3. \A x \in rest : f[x] \in Nat /\ h[x] = f[x]
    OBVIOUS
<1> HIDE DEF rest
<1>4. SumFunctionOnSet(f, rest) = SumFunctionOnSet(h, rest) /\ SumFunctionOnSet(f, rest) \in Nat
    BY <1>1, <1>3, SumSame, SumIsNat
<1>5. QED BY <1>2, <1>4

\* The sum over a part and over what is left.
LEMMA SumSplits ==
    ASSUME NEW f, NEW D, IsFiniteSet(D), \A x \in D : f[x] \in Nat, NEW E \in SUBSET D
    PROVE  SumFunctionOnSet(f, D) = SumFunctionOnSet(f, E) + SumFunctionOnSet(f, D \ E)
<1> DEFINE Splits(s) == SumFunctionOnSet(f, D) = SumFunctionOnSet(f, s) + SumFunctionOnSet(f, D \ s)
           T == {s \in SUBSET D : Splits(s)}
<1>1. {} \in T
    <2>1. SumFunctionOnSet(f, D) \in Nat /\ SumFunctionOnSet(f, {}) = 0 /\ D \ {} = D
        BY SumIsNat, SumOfNone
    <2>2. QED BY <2>1
<1>2. ASSUME NEW s \in SUBSET D, s # {}, Pick(s) \in s, \A r \in SUBSET s : r = s \/ r \in T
      PROVE  s \in T
    <2> DEFINE p == Pick(s)
               less == s \ {p}
               more == D \ less
    <2>1. Splits(less)
        BY <1>2
    <2>2. IsFiniteSet(s) /\ IsFiniteSet(less) /\ IsFiniteSet(more) /\ p \in more /\ more \ {p} = D \ s /\ more \subseteq D /\ less \subseteq D
        BY <1>2, FS_Subset
    <2>3. SumFunctionOnSet(f, s) = f[p] + SumFunctionOnSet(f, less)
        BY <1>2, <2>2, SumTakes
    <2>4. SumFunctionOnSet(f, more) = f[p] + SumFunctionOnSet(f, more \ {p})
        <3> HIDE DEF more, p
        <3>1. QED BY <2>2, SumTakes
    <2>5. f[p] \in Nat /\ SumFunctionOnSet(f, less) \in Nat /\ SumFunctionOnSet(f, D \ s) \in Nat
        <3>1. IsFiniteSet(D \ s)
            BY FS_Subset
        <3> HIDE DEF less, p
        <3>2. QED BY <1>2, <2>2, <3>1, SumIsNat DEF p
    <2>6. SumFunctionOnSet(f, D) = SumFunctionOnSet(f, less) + SumFunctionOnSet(f, more)
        BY <2>1
    <2>7. SumFunctionOnSet(f, more) = f[p] + SumFunctionOnSet(f, D \ s)
        BY <2>2, <2>4
    <2> HIDE DEF less, more, p
    <2>8. SumFunctionOnSet(f, D) = SumFunctionOnSet(f, s) + SumFunctionOnSet(f, D \ s)
        BY <2>3, <2>5, <2>6, <2>7
    <2>9. QED BY <2>8
<1>3. E \in T
    <2>1. IsFiniteSet(E)
        BY FS_Subset
    <2>2. \A s \in SUBSET E : s # {} /\ Pick(s) \in s /\ (\A r \in SUBSET s : r = s \/ r \in T) => s \in T
        BY <1>2
    <2> HIDE DEF T
    <2>3. QED BY <1>1, <2>1, <2>2, PartByPart
<1>4. QED BY <1>3

\* Summands of at most k each.
LEMMA SumBounded ==
    ASSUME NEW f, NEW k \in Nat, NEW D, IsFiniteSet(D), \A x \in D : f[x] \in 0..k
    PROVE  SumFunctionOnSet(f, D) <= k * Cardinality(D)
<1> DEFINE T == {s \in SUBSET D : SumFunctionOnSet(f, s) <= k * Cardinality(s)}
<1>1. {} \in T
    <2>1. SumFunctionOnSet(f, {}) = 0 /\ Cardinality({}) = 0 /\ k * 0 = 0
        BY SumOfNone, FS_EmptySet
    <2>2. QED BY <2>1
<1>2. ASSUME NEW s \in SUBSET D, s # {}, Pick(s) \in s, \A r \in SUBSET s : r = s \/ r \in T
      PROVE  s \in T
    <2> DEFINE p == Pick(s)
               less == s \ {p}
    <2>1. SumFunctionOnSet(f, less) <= k * Cardinality(less)
        BY <1>2
    <2>2. IsFiniteSet(s) /\ IsFiniteSet(less) /\ less \subseteq D
        BY FS_Subset
    <2>3. SumFunctionOnSet(f, s) = f[p] + SumFunctionOnSet(f, less)
        BY <1>2, <2>2, SumStep
    <2>4. f[p] \in 0..k /\ SumFunctionOnSet(f, less) \in Nat
        <3> HIDE DEF less, p
        <3>1. QED BY <1>2, <2>2, SumIsNat DEF p
    <2>5. Cardinality(s) = Cardinality(less) + 1 /\ Cardinality(less) \in Nat
        <3>1. Cardinality(less) = Cardinality(s) - 1 /\ Cardinality(s) \in Nat /\ Cardinality(less) \in Nat
            BY <1>2, <2>2, FS_RemoveElement, FS_CardinalityType
        <3>2. QED BY <3>1
    <2>6. k * (Cardinality(less) + 1) = k * Cardinality(less) + k /\ k * Cardinality(less) \in Nat
        <3> HIDE DEF less
        <3>1. QED BY <2>5
    <2>7. SumFunctionOnSet(f, s) <= k * Cardinality(s)
        <3> HIDE DEF less, p
        <3>1. QED BY <2>1, <2>3, <2>4, <2>5, <2>6
    <2>8. QED BY <2>7
<1>3. D \in T
    <2> HIDE DEF T
    <2>1. QED BY <1>1, <1>2, PartByPart
<1>4. QED BY <1>3

(***************************************************************************)
(* The enrichment queue: every topic keeps one owner and no page of the    *)
(* site is lost.                                                           *)
(***************************************************************************)

Batch == DOMAIN Divided
BatchRow == [topic_ids : SUBSET Unwritten, worker : Researcher \union {Nobody}, status : {"pending", "assigned", "accepted", "absorbed"}]
Acceptance == [status : {"prepared", "accepted"}, page : Page]
\* The shape of the queue and of what a command holds.
QueueTypeOK ==
    /\ batches \in [Batch -> BatchRow]
    /\ DOMAIN acceptances \subseteq Unwritten
    /\ \A t \in DOMAIN acceptances : acceptances[t] \in Acceptance
    /\ DOMAIN assignments \subseteq Batch
    /\ command = [kind |-> command.kind, batch |-> command.batch, worker |-> command.worker,
                  pages |-> command.pages, fresh |-> command.fresh]
    /\ command.batch \in Nat /\ command.worker \in Researcher \union {Nobody}

\* A topic is in one batch until it is on record as imported, and then in none.
Owned ==
    /\ \A t \in DOMAIN acceptances : Owners(t) = {}
    /\ \A t \in Unwritten \ DOMAIN acceptances : \E b : Owners(t) = {b}
    /\ \A b \in DOMAIN assignments : assignments[b] = batches[b].topic_ids

\* An imported page never differs from the site's, and is there once it counts as accepted.
Imported ==
    \A t \in DOMAIN acceptances :
        /\ t \in DOMAIN content => content[t] = acceptances[t].page
        /\ acceptances[t].status = "accepted" => t \in DOMAIN content

\* An import under way writes pages it has put on record, over nothing else.
Underway ==
    command.kind \in {"write", "confirm"} =>
        /\ command.fresh \subseteq DOMAIN command.pages
        /\ \A t \in DOMAIN command.pages :
             /\ t \in DOMAIN acceptances /\ acceptances[t].page = command.pages[t]
             /\ t \in DOMAIN content => content[t] = command.pages[t]
             /\ command.kind = "confirm" => t \in DOMAIN content

QueueInv == QueueTypeOK /\ Owned /\ Imported /\ Underway

----------------------------------------------------------------------------
\* What the assumption says of the batches.
LEMMA BatchesDivide ==
    /\ Batch \subseteq Nat /\ Seeded \subseteq Batch /\ Unwritten \intersect Written = {}
    /\ \A b \in Batch : Divided[b] \subseteq Unwritten
    /\ \A t \in Unwritten : \E b \in Batch : t \in Divided[b]
    /\ \A b, c \in Batch : b # c => Divided[b] \intersect Divided[c] = {}
BY ResearchQueueAssumption DEF Batch

\* Laying one function over another.
LEMMA OntoIs ==
    ASSUME NEW f, NEW g
    PROVE  /\ DOMAIN Onto(f, g) = DOMAIN f \union DOMAIN g
           /\ \A x \in DOMAIN g : Onto(f, g)[x] = g[x]
           /\ \A x \in DOMAIN f \ DOMAIN g : Onto(f, g)[x] = f[x]
BY DEF Onto

\* A step that leaves each batch its topics leaves them their owners.
LEMMA OwnersStay ==
    ASSUME QueueTypeOK, batches' \in [Batch -> BatchRow], \A b \in Batch : batches'[b].topic_ids = batches[b].topic_ids
    PROVE  \A t : Owners(t)' = Owners(t)
BY DEF QueueTypeOK, Owners

\* Accepting a batch, and assigning or releasing it.
SetStatus(b, s) == [batches EXCEPT ![b].status = s]
SetRow(b, s, w) == [batches EXCEPT ![b].status = s, ![b].worker = w]

\* Claiming, releasing and accepting change the status and the worker of a batch alone.
LEMMA RowChanges ==
    ASSUME QueueTypeOK, NEW b \in Nat, NEW s \in {"pending", "assigned", "accepted", "absorbed"},
           NEW w \in Researcher \union {Nobody}
    PROVE  /\ SetStatus(b, s) \in [Batch -> BatchRow]
           /\ \A x \in Batch : SetStatus(b, s)[x].topic_ids = batches[x].topic_ids
           /\ SetRow(b, s, w) \in [Batch -> BatchRow]
           /\ \A x \in Batch : SetRow(b, s, w)[x].topic_ids = batches[x].topic_ids
<1>1. /\ [batches EXCEPT ![b].status = s] \in [Batch -> BatchRow]
      /\ \A x \in Batch : [batches EXCEPT ![b].status = s][x].topic_ids = batches[x].topic_ids
  BY DEF QueueTypeOK, BatchRow
<1> DEFINE f == [batches EXCEPT ![b].status = s]
<1>2. /\ [f EXCEPT ![b].worker = w] \in [Batch -> BatchRow]
      /\ \A x \in Batch : [f EXCEPT ![b].worker = w][x].topic_ids = f[x].topic_ids
  <2> HIDE DEF f
  <2>1. f \in [Batch -> BatchRow]
    BY <1>1 DEF f
  <2> QED BY <2>1 DEF BatchRow
<1>3. SetRow(b, s, w) = [f EXCEPT ![b].worker = w] /\ SetStatus(b, s) = f
  BY DEF SetRow, SetStatus
<1> QED BY <1>1, <1>2, <1>3

----------------------------------------------------------------------------
\* What an import may take: topics whose one batch nobody has touched, and pages that replace nothing.
LEMMA ImportTakes ==
    ASSUME QueueInv, NEW S \in SUBSET Unwritten, NEW pages \in Pages(S), integrate(pages)
    PROVE  /\ \A b \in Batch : batches'[b].topic_ids = batches[b].topic_ids \ (S \ DOMAIN acceptances)
           /\ batches' \in [Batch -> BatchRow]
           /\ \A b \in DOMAIN assignments : batches'[b].topic_ids = batches[b].topic_ids
           /\ \A t \in S \intersect DOMAIN content : content[t] = pages[t]
           /\ \A t \in S \intersect DOMAIN acceptances : acceptances[t].page = pages[t]
<1> DEFINE fresh == S \ DOMAIN acceptances
           left(b) == batches[b].topic_ids \ fresh
<1>1. DOMAIN pages = S /\ DOMAIN batches = Batch
  BY DEF Pages, QueueInv, QueueTypeOK
<1>2. batches' = [b \in Batch |->
                    [batches[b] EXCEPT
                       !.topic_ids = left(b),
                       !.status = IF left(b) = {} /\ batches[b].topic_ids # {} THEN "absorbed" ELSE @]]
  BY <1>1 DEF integrate
<1>3. ASSUME NEW b \in Batch
      PROVE  batches'[b] \in BatchRow /\ batches'[b].topic_ids = left(b)
  <2> DEFINE row == [batches[b] EXCEPT !.topic_ids = left(b)]
             s == IF left(b) = {} /\ batches[b].topic_ids # {} THEN "absorbed" ELSE batches[b].status
  <2>1. batches[b] \in BatchRow
    BY DEF QueueInv, QueueTypeOK
  <2>2. row \in BatchRow /\ row.topic_ids = left(b)
    BY <2>1 DEF BatchRow
  <2>3. s \in {"pending", "assigned", "accepted", "absorbed"}
    BY <2>1 DEF BatchRow
  <2>4. batches'[b] = [row EXCEPT !.status = s]
    BY <1>2
  <2> HIDE DEF row, s, left
  <2> QED BY <2>2, <2>3, <2>4 DEF BatchRow
<1>4. Importable(pages)
  BY DEF integrate
<1>5. ASSUME NEW b \in DOMAIN assignments
      PROVE  batches'[b].topic_ids = batches[b].topic_ids
  <2>1. b \in Batch
    BY DEF QueueInv, QueueTypeOK
  <2>2. ASSUME NEW t \in fresh, t \in batches[b].topic_ids
        PROVE  FALSE
    <3>1. \A c \in Owners(t) : Untouched(c)
      BY <1>1, <1>4, <2>2 DEF Importable, MayImport
    <3>2. b \in Owners(t)
      BY <1>1, <2>1, <2>2 DEF Owners
    <3> QED BY <3>1, <3>2 DEF Untouched
  <2> QED BY <1>3, <2>1, <2>2
<1>6. \A t \in S \intersect DOMAIN acceptances : acceptances[t].page = pages[t]
  BY <1>1, <1>4 DEF Importable, MayImport
<1>7. \A t \in S \intersect DOMAIN content : content[t] = pages[t]
  BY <1>1, <1>4 DEF Importable, WouldOverwrite
<1>8. DOMAIN batches' = Batch /\ batches' \in [Batch -> BatchRow]
  BY <1>2, <1>3
<1> QED BY <1>3, <1>5, <1>6, <1>7, <1>8

\* An import leaves every topic its owner and puts the pages on record before it writes them.
LEMMA ImportStep ==
    ASSUME QueueInv, NEW S \in SUBSET Unwritten, NEW pages \in Pages(S), integrate(pages)
    PROVE  QueueInv'
<1> DEFINE fresh == S \ DOMAIN acceptances
           prepared == [t \in fresh |-> [status |-> "prepared", page |-> pages[t]]]
<1>1. DOMAIN pages = S /\ \A t \in S : pages[t] \in Page
  BY DEF Pages
<1>2. acceptances' = Onto(acceptances, prepared) /\ UNCHANGED <<assignments, content>> /\ Free
  BY <1>1 DEF integrate
<1>3. /\ DOMAIN acceptances' = DOMAIN acceptances \union fresh
      /\ \A t \in fresh : acceptances'[t] = [status |-> "prepared", page |-> pages[t]]
      /\ \A t \in DOMAIN acceptances : acceptances'[t] = acceptances[t]
  <2>1. DOMAIN prepared = fresh /\ \A t \in fresh : prepared[t] = [status |-> "prepared", page |-> pages[t]]
    OBVIOUS
  <2>2. \A t \in DOMAIN acceptances : t \in DOMAIN acceptances \ fresh
    OBVIOUS
  <2> HIDE DEF fresh, prepared
  <2>3. /\ DOMAIN Onto(acceptances, prepared) = DOMAIN acceptances \union DOMAIN prepared
        /\ \A t \in DOMAIN prepared : Onto(acceptances, prepared)[t] = prepared[t]
        /\ \A t \in DOMAIN acceptances \ DOMAIN prepared : Onto(acceptances, prepared)[t] = acceptances[t]
    BY OntoIs
  <2>4. acceptances' = Onto(acceptances, prepared)
    BY <1>2
  <2> QED BY <2>1, <2>2, <2>3, <2>4
<1>4. \/ command' = command
      \/ \E F \in SUBSET S :
           command' = [kind |-> "write", batch |-> 0, worker |-> Nobody, pages |-> pages, fresh |-> F]
  <2> DEFINE F == fresh \union {t \in DOMAIN pages \ fresh : acceptances[t].status = "prepared"}
  <2>1. F \in SUBSET S
    BY <1>1
  <2>2. command' = command
        \/ command' = [kind |-> "write", batch |-> 0, worker |-> Nobody, pages |-> pages, fresh |-> F]
    BY <1>1 DEF integrate, Runs
  <2> QED BY <2>1, <2>2
<1>f. fresh \subseteq S /\ fresh \intersect DOMAIN acceptances = {} /\ S \subseteq fresh \union DOMAIN acceptances
  OBVIOUS
<1>t. /\ batches' \in [Batch -> BatchRow]
      /\ \A b \in Batch : batches'[b].topic_ids = batches[b].topic_ids \ fresh
  BY ImportTakes
<1> HIDE DEF fresh, prepared
<1>5. QueueTypeOK'
  <2>1. \A t \in DOMAIN acceptances' : acceptances'[t] \in Acceptance
    <3>1. \A t \in fresh : acceptances'[t] \in Acceptance
      BY <1>1, <1>3, <1>f DEF Acceptance
    <3>2. \A t \in DOMAIN acceptances : acceptances'[t] \in Acceptance
      BY <1>3 DEF QueueInv, QueueTypeOK
    <3> QED BY <1>3, <3>1, <3>2
  <2>2. /\ command' = [kind |-> command'.kind, batch |-> command'.batch, worker |-> command'.worker,
                       pages |-> command'.pages, fresh |-> command'.fresh]
        /\ command'.batch \in Nat /\ command'.worker \in Researcher \union {Nobody}
    <3>1. CASE command' = command
      BY <3>1 DEF QueueInv, QueueTypeOK
    <3>2. CASE command' # command
      BY <1>4, <3>2
    <3> QED BY <3>1, <3>2
  <2>3. DOMAIN acceptances' \subseteq Unwritten /\ DOMAIN assignments' \subseteq Batch
    BY <1>2, <1>3, <1>f DEF QueueInv, QueueTypeOK
  <2> QED BY <1>t, <2>1, <2>2, <2>3 DEF QueueTypeOK
<1>6. Owned'
  <2>1. DOMAIN batches = Batch /\ DOMAIN batches' = Batch
    BY <1>t DEF QueueInv, QueueTypeOK
  <2>2. \A t \in fresh : Owners(t)' = {}
    BY <2>1, <1>t DEF Owners
  <2>3. \A t : t \notin fresh => Owners(t)' = Owners(t)
    BY <2>1, <1>t DEF Owners
  <2>4. \A b \in DOMAIN assignments' : assignments'[b] = batches'[b].topic_ids
    BY <1>2, ImportTakes DEF QueueInv, Owned
  <2> QED BY <1>3, <2>2, <2>3, <2>4 DEF QueueInv, Owned
<1>7. Imported'
  <2>1. ASSUME NEW t \in fresh
        PROVE  /\ t \in DOMAIN content' => content'[t] = acceptances'[t].page
               /\ acceptances'[t].status # "accepted"
    BY <1>2, <1>3, <1>f, ImportTakes
  <2>2. ASSUME NEW t \in DOMAIN acceptances
        PROVE  /\ t \in DOMAIN content' => content'[t] = acceptances'[t].page
               /\ acceptances'[t].status = "accepted" => t \in DOMAIN content'
    BY <1>2, <1>3 DEF QueueInv, Imported
  <2> QED BY <1>3, <2>1, <2>2 DEF Imported
<1>8. Underway'
  <2>1. CASE command' = command
    BY <1>2, <2>1 DEF Underway, Free, NoCommand
  <2>2. ASSUME NEW F \in SUBSET S,
               command' = [kind |-> "write", batch |-> 0, worker |-> Nobody, pages |-> pages, fresh |-> F]
        PROVE  Underway'
    <3>1. command'.kind = "write" /\ command'.pages = pages /\ command'.fresh \subseteq S
      BY <2>2
    <3>2. \A t \in S : t \in DOMAIN acceptances' /\ acceptances'[t].page = pages[t]
      <4>1. \A t \in fresh : t \in DOMAIN acceptances' /\ acceptances'[t].page = pages[t]
        BY <1>3
      <4>2. \A t \in S \intersect DOMAIN acceptances : t \in DOMAIN acceptances' /\ acceptances'[t].page = pages[t]
        BY <1>3, ImportTakes
      <4> QED BY <1>f, <4>1, <4>2
    <3> QED BY <1>1, <1>2, <3>1, <3>2, ImportTakes DEF Underway
  <2> QED BY <1>4, <2>1, <2>2
<1> QED BY <1>5, <1>6, <1>7, <1>8 DEF QueueInv

\* A step that only changes the state of batches, or the researchers' files, keeps all of it.
LEMMA RowStep ==
    ASSUME QueueInv, batches' \in [Batch -> BatchRow],
           \A b \in Batch : batches'[b].topic_ids = batches[b].topic_ids,
           UNCHANGED <<acceptances, assignments, content>>, command' \in {command, NoCommand}
    PROVE  QueueInv'
<1>1. QueueTypeOK'
  BY DEF QueueInv, QueueTypeOK, NoCommand
<1>2. Owned'
  BY OwnersStay DEF QueueInv, QueueTypeOK, Owned
<1>3. Imported' /\ Underway'
  BY DEF QueueInv, Imported, Underway, NoCommand
<1> QED BY <1>1, <1>2, <1>3 DEF QueueInv

\* Every step keeps the owners of the topics and what is on record of the imports.
LEMMA QueueStep == QueueInv /\ [QueueNext]_queueVars => QueueInv'
<1> SUFFICES ASSUME QueueInv, [QueueNext]_queueVars
             PROVE  QueueInv'
  OBVIOUS
<1>0. QueueTypeOK /\ Owned /\ Imported /\ Underway /\ batches \in [Batch -> BatchRow]
  BY DEF QueueInv, QueueTypeOK
<1>1. CASE UNCHANGED queueVars
  BY <1>0, <1>1, RowStep DEF queueVars
<1>2. ASSUME NEW w \in Researcher, claim(w)
      PROVE  QueueInv'
  <2> DEFINE choice == IF Unfinished(w) # {} THEN Unfinished(w) ELSE Claimable
             b == Min(choice)
  <2>1. /\ choice # {}
        /\ assignments' = Onto(assignments, [x \in {b} |-> batches[b].topic_ids])
        /\ command' = [kind |-> "claim", batch |-> b, worker |-> w, pages |-> <<>>, fresh |-> {}]
        /\ UNCHANGED <<batches, acceptances, content>>
    BY <1>2 DEF claim, assignment, Runs
  <2>2. choice \subseteq Batch /\ Batch \subseteq Nat
    BY <1>0, BatchesDivide DEF Unfinished, Claimable
  <2> HIDE DEF choice
  <2>3. b \in Batch /\ b \in Nat
    BY <2>1, <2>2, LeastPosition
  <2> HIDE DEF b
  <2>4. DOMAIN assignments' \subseteq Batch /\ \A x \in DOMAIN assignments' : assignments'[x] = batches[x].topic_ids
    BY <1>0, <2>1, <2>3 DEF Onto, Owned, QueueTypeOK
  <2>5. QueueTypeOK'
    BY <1>0, <2>1, <2>3, <2>4 DEF QueueTypeOK
  <2>6. Owned'
    BY <1>0, <2>1, <2>4, OwnersStay DEF Owned, QueueTypeOK
  <2>7. Imported' /\ Underway'
    BY <1>0, <2>1 DEF Imported, Underway
  <2> QED BY <2>5, <2>6, <2>7 DEF QueueInv
<1>3. CASE Assign
  <2>1. /\ batches' = SetRow(command.batch, "assigned", command.worker)
        /\ command' = NoCommand /\ UNCHANGED <<acceptances, assignments, content>>
    BY <1>3 DEF Assign, SetRow
  <2>2. command.batch \in Nat /\ command.worker \in Researcher \union {Nobody}
    BY <1>0 DEF QueueTypeOK
  <2>3. batches' \in [Batch -> BatchRow] /\ \A x \in Batch : batches'[x].topic_ids = batches[x].topic_ids
    BY <1>0, <2>1, <2>2, RowChanges
  <2> QED BY <2>1, <2>3, RowStep
<1>4. ASSUME NEW b \in DOMAIN batches, WriteResults(b)
      PROVE  QueueInv'
  BY <1>0, <1>4, RowStep DEF WriteResults
<1>5. ASSUME NEW b \in DOMAIN batches, release(b)
      PROVE  QueueInv'
  <2>1. /\ batches' = SetRow(b, "pending", Nobody)
        /\ command' = command /\ UNCHANGED <<acceptances, assignments, content>>
    BY <1>5 DEF release, SetRow
  <2>2. b \in Nat
    BY <1>0, BatchesDivide
  <2>3. batches' \in [Batch -> BatchRow] /\ \A x \in Batch : batches'[x].topic_ids = batches[x].topic_ids
    BY <1>0, <2>1, <2>2, RowChanges
  <2> QED BY <2>1, <2>3, RowStep
<1>6. ASSUME NEW b \in DOMAIN batches, accept(b)
      PROVE  QueueInv'
  <2>1. /\ DOMAIN results[b] = batches[b].topic_ids
        /\ content' = Onto(content, results[b])
        /\ command' = [kind |-> "accept", batch |-> b, worker |-> Nobody, pages |-> <<>>, fresh |-> {}]
        /\ UNCHANGED <<batches, acceptances, assignments>>
    BY <1>6 DEF accept, Runs
  <2>2. b \in Nat
    BY <1>0, BatchesDivide
  <2>3. QueueTypeOK'
    BY <1>0, <2>1, <2>2 DEF QueueTypeOK
  <2>4. Owned'
    BY <1>0, <2>1, OwnersStay DEF Owned, QueueTypeOK
  <2>5. \A t \in DOMAIN acceptances : t \notin DOMAIN results[b]
    BY <1>0, <1>6, <2>1 DEF Owned, Owners
  <2>6. \A t \in DOMAIN acceptances :
          (t \in DOMAIN content' <=> t \in DOMAIN content) /\ (t \in DOMAIN content => content'[t] = content[t])
    BY <2>1, <2>5 DEF Onto
  <2>7. Imported'
    BY <1>0, <2>1, <2>6 DEF Imported
  <2>8. Underway'
    BY <2>1 DEF Underway
  <2> QED BY <2>3, <2>4, <2>7, <2>8 DEF QueueInv
<1>7. CASE Accept
  <2>1. /\ batches' = SetStatus(command.batch, "accepted")
        /\ command' = NoCommand /\ UNCHANGED <<acceptances, assignments, content>>
    BY <1>7 DEF Accept, SetStatus
  <2>2. command.batch \in Nat /\ Nobody \in Researcher \union {Nobody}
    BY <1>0 DEF QueueTypeOK
  <2>3. batches' \in [Batch -> BatchRow] /\ \A x \in Batch : batches'[x].topic_ids = batches[x].topic_ids
    BY <1>0, <2>1, <2>2, RowChanges
  <2> QED BY <2>1, <2>3, RowStep
<1>8. ASSUME NEW S \in SUBSET Unwritten, NEW pages \in Pages(S), integrate(pages)
      PROVE  QueueInv'
  BY <1>8, ImportStep
<1>9. CASE WritePages
  <2>1. /\ command.kind = "write"
        /\ content' = Onto(content, command.pages)
        /\ command' = [command EXCEPT !.kind = "confirm"]
        /\ UNCHANGED <<batches, acceptances, assignments>>
    BY <1>9 DEF WritePages
  <2>2. command' = [kind |-> "confirm", batch |-> command.batch, worker |-> command.worker,
                    pages |-> command.pages, fresh |-> command.fresh]
    BY <1>0, <2>1 DEF QueueTypeOK
  <2>3. \A t \in DOMAIN command.pages :
          /\ t \in DOMAIN acceptances /\ acceptances[t].page = command.pages[t]
          /\ t \in DOMAIN content' /\ content'[t] = command.pages[t]
    BY <1>0, <2>1 DEF Underway, Onto
  <2>4. \A t \in DOMAIN acceptances \ DOMAIN command.pages :
          (t \in DOMAIN content' <=> t \in DOMAIN content) /\ (t \in DOMAIN content => content'[t] = content[t])
    BY <2>1 DEF Onto
  <2>5. QueueTypeOK'
    BY <1>0, <2>1, <2>2 DEF QueueTypeOK
  <2>6. Owned'
    BY <1>0, <2>1, OwnersStay DEF Owned, QueueTypeOK
  <2>7. Imported'
    BY <1>0, <2>1, <2>3, <2>4 DEF Imported
  <2>8. Underway'
    BY <1>0, <2>1, <2>2, <2>3 DEF Underway
  <2> QED BY <2>5, <2>6, <2>7, <2>8 DEF QueueInv
<1>10. CASE Confirm
  <2>1. /\ command.kind = "confirm" /\ command' = NoCommand
        /\ acceptances' = [t \in DOMAIN acceptances |->
              IF t \in command.fresh THEN [acceptances[t] EXCEPT !.status = "accepted"] ELSE acceptances[t]]
        /\ UNCHANGED <<batches, assignments, content>>
    BY <1>10 DEF Confirm
  <2>2. ASSUME NEW t \in DOMAIN acceptances
        PROVE  /\ acceptances'[t] \in Acceptance
               /\ acceptances'[t].page = acceptances[t].page
               /\ acceptances'[t].status = "accepted" => t \in command.fresh \/ acceptances[t].status = "accepted"
    <3>1. acceptances[t] \in Acceptance
      BY <1>0 DEF QueueTypeOK
    <3> QED BY <2>1, <3>1 DEF Acceptance
  <2>3. DOMAIN acceptances' = DOMAIN acceptances
    BY <2>1
  <2>4. QueueTypeOK'
    BY <1>0, <2>1, <2>2, <2>3 DEF QueueTypeOK, NoCommand
  <2>5. Owned'
    BY <1>0, <2>1, <2>3, OwnersStay DEF Owned, QueueTypeOK
  <2>6. Imported'
    BY <1>0, <2>1, <2>2, <2>3 DEF Imported, Underway
  <2>7. Underway'
    BY <2>1 DEF Underway, NoCommand
  <2> QED BY <2>4, <2>5, <2>6, <2>7 DEF QueueInv
<1>11. CASE Interrupted
  BY <1>0, <1>11, RowStep DEF Interrupted
<1> QED BY <1>1, <1>2, <1>3, <1>4, <1>5, <1>6, <1>7, <1>8, <1>9, <1>10, <1>11 DEF QueueNext

LEMMA QueueStart == QueueInit => QueueInv
<1> SUFFICES ASSUME QueueInit
             PROVE  QueueInv
  OBVIOUS
<1>1. PICK S \in SUBSET Seeded : assignments = [b \in S |-> Divided[b]]
  BY DEF QueueInit
<1>2. batches = [b \in Batch |->
                   [topic_ids |-> Divided[b], worker |-> Nobody,
                    status |-> IF b \in DOMAIN assignments THEN "assigned" ELSE "pending"]]
  BY DEF QueueInit, Batch
<1>3. \A b \in Batch : batches[b].topic_ids = Divided[b] /\ Divided[b] \subseteq Unwritten
  BY <1>2, BatchesDivide
<1>4. batches \in [Batch -> BatchRow]
  BY <1>2, <1>3 DEF BatchRow
<1>5. acceptances = <<>> /\ DOMAIN acceptances = {} /\ command = NoCommand
  BY DEF QueueInit
<1>6. QueueTypeOK
  BY <1>1, <1>4, <1>5, BatchesDivide DEF QueueTypeOK, NoCommand
<1>7. ASSUME NEW t \in Unwritten
      PROVE  \E b : Owners(t) = {b}
  <2>1. PICK b \in Batch : t \in Divided[b]
    BY BatchesDivide
  <2>2. \A c \in Batch : t \in Divided[c] => c = b
    BY <2>1, BatchesDivide
  <2>3. Owners(t) = {c \in Batch : t \in batches[c].topic_ids}
    BY <1>4 DEF Owners
  <2>4. Owners(t) = {b}
    BY <1>3, <2>1, <2>2, <2>3
  <2> QED BY <2>4
<1>8. Owned
  BY <1>1, <1>3, <1>5, <1>7, BatchesDivide DEF Owned
<1>9. Imported /\ Underway
  BY <1>5 DEF Imported, Underway, NoCommand
<1> QED BY <1>6, <1>8, <1>9 DEF QueueInv

\* The invariant counts the owners as the property does.
LEMMA OwnersCounted == QueueInv => OneOwner
<1> SUFFICES ASSUME QueueInv
             PROVE  OneOwner
  OBVIOUS
<1>1. ASSUME NEW t \in Unwritten
      PROVE  Cardinality(Owners(t)) + (IF t \in DOMAIN acceptances THEN 1 ELSE 0) = 1
  <2>1. CASE t \in DOMAIN acceptances
    BY <2>1, FS_EmptySet DEF QueueInv, Owned
  <2>2. CASE t \notin DOMAIN acceptances
    <3>1. PICK b : Owners(t) = {b}
      BY <2>2 DEF QueueInv, Owned
    <3> QED BY <2>2, <3>1, FS_Singleton
  <2> QED BY <2>1, <2>2
<1>2. ASSUME NEW t \in DOMAIN acceptances
      PROVE  Importable([x \in {t} |-> acceptances[t].page])
  <2>1. t \notin Written
    BY BatchesDivide DEF QueueInv, QueueTypeOK
  <2>2. MayImport(t, acceptances[t].page)
    BY DEF QueueInv, Imported, MayImport
  <2>3. ~WouldOverwrite([x \in {t} |-> acceptances[t].page])
    BY DEF QueueInv, Imported, WouldOverwrite
  <2> QED BY <2>1, <2>2, <2>3 DEF Importable
<1> QED BY <1>1, <1>2 DEF OneOwner, QueueInv, Owned

\* Every topic has one owner, what was handed out stays handed out, and an import on record can be
\* completed (claim, enrich_topics.py:193-225; main, integrate_luna_topics.py:140-190).
THEOREM TopicsHaveOneOwner == QueueSpec => []OneOwner
BY QueueStart, QueueStep, OwnersCounted, PTL DEF QueueSpec

\* No page of the site is changed or taken away (WouldOverwrite before every write).
THEOREM PagesStay == QueueSpec => PagesAreFinal
<1> DEFINE Kept == \A t \in DOMAIN content : t \in DOMAIN content' /\ content'[t] = content[t]
<1>1. ASSUME QueueInv, [QueueNext]_queueVars
      PROVE  Kept
  <2>1. CASE content' = content
    BY <2>1
  <2>2. ASSUME NEW b, accept(b)
        PROVE  Kept
    BY <2>2 DEF accept, WouldOverwrite, Onto
  <2>3. CASE WritePages
    BY <1>1, <2>3 DEF WritePages, QueueInv, Underway, Onto
  <2> QED BY <1>1, <2>1, <2>2, <2>3 DEF QueueNext, queueVars, claim, Assign, WriteResults, release, Accept,
          integrate, Confirm, Interrupted
<1> QED BY <1>1, QueueStart, QueueStep, PTL DEF QueueSpec, PagesAreFinal

(***************************************************************************)
(* The one-topic batches: no topic's request is sent twice.                *)
(***************************************************************************)

ResponseRow == [status : {"none", "answered", "http_error", "transport_error", "worker_error"}, cost : Nat]

TopicTypeOK ==
    /\ responses \in [Numbered -> ResponseRow]
    /\ requested \in [Numbered -> Nat]
    /\ untried \subseteq Numbered /\ DOMAIN pending \subseteq Numbered
    /\ ~running => untried = {} /\ DOMAIN pending = {}

\* What was requested is on record, or its marker is still there.
Accounted == \A t \in Numbered : requested[t] <= 1 /\ (requested[t] = 1 => Recorded(t) \/ t \in markers)

\* A topic that is yet to be requested was never requested.
Fresh ==
    /\ \A t \in untried : requested[t] = 0 /\ t \notin DOMAIN pending
    /\ \A t \in DOMAIN pending :
         /\ pending[t] \in {"marking", "calling"} => requested[t] = 0
         /\ pending[t] = "calling" => t \in markers
         /\ pending[t] = "recorded" => Recorded(t)

TopicInv == TopicTypeOK /\ Accounted /\ Fresh

----------------------------------------------------------------------------
\* A thread goes on, the others staying where they are.
LEMMA PendingMoves ==
    ASSUME NEW t \in DOMAIN pending, NEW step, pending' = [pending EXCEPT ![t] = step]
    PROVE  /\ DOMAIN pending' = DOMAIN pending
           /\ pending'[t] = step
           /\ \A x \in DOMAIN pending \ {t} : pending'[x] = pending[x]
OBVIOUS

\* An outcome is recorded and the others are kept.
Keeps(t) ==
    /\ responses' \in [Numbered -> ResponseRow]
    /\ \A x \in Numbered : Recorded(x) => Recorded(x)'
    /\ responses'[t] # responses[t] => Recorded(t)'

LEMMA AnswerKept ==
    ASSUME TopicTypeOK, NEW t \in Numbered, NEW c \in Charge,
           responses' = [responses EXCEPT ![t] = [status |-> "answered", cost |-> c]]
    PROVE  Keeps(t)
<1>1. [status |-> "answered", cost |-> c] \in ResponseRow
  BY TopicBatchAssumption DEF ResponseRow
<1> QED BY <1>1 DEF TopicTypeOK, Keeps, Recorded

LEMMA FailureKept ==
    ASSUME TopicTypeOK, NEW t \in Numbered, NEW s \in {"http_error", "transport_error", "worker_error"},
           responses' = [responses EXCEPT ![t].status = s]
    PROVE  Keeps(t) /\ Recorded(t)'
<1> DEFINE row == [responses[t] EXCEPT !.status = s]
<1>1. responses[t] \in ResponseRow
  BY DEF TopicTypeOK
<1>2. row \in ResponseRow /\ row.status = s
  BY <1>1 DEF ResponseRow
<1>3. responses' = [responses EXCEPT ![t] = row]
  OBVIOUS
<1> HIDE DEF row
<1> QED BY <1>2, <1>3 DEF TopicTypeOK, Keeps, Recorded

LEMMA TopicStep == TopicInv /\ [TopicNext]_topicVars => TopicInv'
<1> SUFFICES ASSUME TopicInv, [TopicNext]_topicVars
             PROVE  TopicInv'
  OBVIOUS
<1>0. TopicTypeOK /\ Accounted /\ Fresh
  BY DEF TopicInv
<1>1. CASE UNCHANGED topicVars
  BY <1>1 DEF topicVars, topicFiles, TopicInv, TopicTypeOK, Accounted, Fresh, Recorded
<1>2. CASE Run
  <2>1. UNCHANGED topicFiles /\ untried' = {t \in Numbered : ~Recorded(t)} /\ DOMAIN pending' = {} /\ running' = TRUE
    BY <1>2 DEF Run
  <2>2. \A t \in untried' : requested[t] = 0
    <3>1. \A t \in untried' : t \in Numbered /\ ~Recorded(t) /\ t \notin markers
      BY <1>2, <2>1 DEF Run, Resolved
    <3> QED BY <1>0, <3>1 DEF Accounted, TopicTypeOK
  <2> QED BY <1>0, <2>1, <2>2 DEF topicFiles, TopicInv, TopicTypeOK, Accounted, Fresh, Recorded
<1>3. CASE Dispatch
  <2> DEFINE t == Min(untried)
  <2>1. untried # {} /\ running /\ UNCHANGED <<running, topicFiles>>
    BY <1>3 DEF Dispatch, Filling
  <2>2. t \in untried
    <3>1. untried \subseteq Nat
      BY <1>0, TopicBatchAssumption DEF TopicTypeOK, Numbered
    <3> QED BY <2>1, <3>1, LeastPosition
  <2>3. \/ UNCHANGED <<untried, pending>>
        \/ /\ untried' = untried \ {t}
           /\ pending' = [x \in DOMAIN pending \union {t} |-> IF x = t THEN "marking" ELSE pending[x]]
    BY <1>3 DEF Dispatch
  <2> HIDE DEF t
  <2>4. CASE UNCHANGED <<untried, pending>>
    BY <1>0, <2>1, <2>4 DEF topicFiles, TopicInv, TopicTypeOK, Accounted, Fresh, Recorded
  <2>5. CASE /\ untried' = untried \ {t}
             /\ pending' = [x \in DOMAIN pending \union {t} |-> IF x = t THEN "marking" ELSE pending[x]]
    BY <1>0, <2>1, <2>2, <2>5 DEF topicFiles, TopicInv, TopicTypeOK, Accounted, Fresh, Recorded
  <2> QED BY <2>3, <2>4, <2>5
<1>4. CASE Stop \/ Killed
  BY <1>0, <1>4 DEF Stop, Killed, Idle, topicFiles, TopicInv, TopicTypeOK, Accounted, Fresh, Recorded
<1>5. ASSUME NEW t \in DOMAIN pending, MarkTopic(t)
      PROVE  TopicInv'
  <2>1. /\ pending[t] = "marking" /\ markers' = markers \union {t}
        /\ pending' = [pending EXCEPT ![t] = "calling"]
        /\ UNCHANGED <<running, responses, requested, untried>>
    BY <1>5 DEF MarkTopic
  <2> QED BY <1>0, <2>1, PendingMoves DEF TopicInv, TopicTypeOK, Accounted, Fresh, Recorded
<1>6. ASSUME NEW t \in DOMAIN pending, Call(t)
      PROVE  TopicInv'
  <2>1. /\ pending[t] = "calling" /\ requested' = [requested EXCEPT ![t] = @ + 1]
        /\ pending' = [pending EXCEPT ![t] = "called"]
        /\ UNCHANGED <<running, responses, markers, untried>>
    BY <1>6 DEF Call
  <2>2. t \in Numbered /\ requested[t] = 0 /\ t \in markers /\ t \notin untried
    BY <1>0, <2>1 DEF TopicTypeOK, Fresh
  <2>3. requested' \in [Numbered -> Nat] /\ requested'[t] = 1
        /\ \A x \in Numbered \ {t} : requested'[x] = requested[x]
    BY <1>0, <2>1, <2>2 DEF TopicTypeOK
  <2> QED BY <1>0, <2>1, <2>2, <2>3, PendingMoves DEF TopicInv, TopicTypeOK, Accounted, Fresh, Recorded
<1>7. ASSUME NEW t \in DOMAIN pending, run_one(t)
      PROVE  TopicInv'
  <2>1. /\ pending[t] = "called"
        /\ pending' = [pending EXCEPT ![t] = IF responses'[t] = responses[t] THEN "raised" ELSE "recorded"]
        /\ UNCHANGED <<running, markers, requested, untried>>
    BY <1>7 DEF run_one
  <2>2. t \in Numbered
    BY <1>0 DEF TopicTypeOK
  <2>3. Keeps(t)
    <3>1. CASE \E c \in Charge : responses' = [responses EXCEPT ![t] = [status |-> "answered", cost |-> c]]
      BY <1>0, <2>2, <3>1, AnswerKept
    <3>2. CASE \E s \in {"http_error", "transport_error"} : responses' = [responses EXCEPT ![t].status = s]
      BY <1>0, <2>2, <3>2, FailureKept
    <3>3. CASE UNCHANGED responses
      BY <1>0, <3>3 DEF TopicTypeOK, Keeps, Recorded
    <3> QED BY <1>7, <3>1, <3>2, <3>3 DEF run_one
  <2> DEFINE step == IF responses'[t] = responses[t] THEN "raised" ELSE "recorded"
  <2>4. step \in {"raised", "recorded"} /\ (step = "recorded" => Recorded(t)')
    BY <2>3 DEF Keeps
  <2>5. pending' = [pending EXCEPT ![t] = step]
    BY <2>1
  <2> HIDE DEF step
  <2>6. /\ DOMAIN pending' = DOMAIN pending /\ pending'[t] = step
        /\ \A x \in DOMAIN pending \ {t} : pending'[x] = pending[x]
    BY <2>5, PendingMoves
  <2>7. TopicTypeOK'
    BY <1>0, <2>1, <2>3, <2>6 DEF TopicTypeOK, Keeps
  <2>8. Accounted'
    BY <1>0, <2>1, <2>3 DEF Accounted, Keeps
  <2>9. Fresh'
    BY <1>0, <2>1, <2>3, <2>4, <2>6 DEF TopicTypeOK, Fresh, Keeps
  <2> QED BY <2>7, <2>8, <2>9 DEF TopicInv
<1>8. ASSUME NEW t \in DOMAIN pending, run_recorded(t)
      PROVE  TopicInv'
  <2>1. /\ pending[t] = "recorded" /\ markers' = markers \ {t}
        /\ pending' = [pending EXCEPT ![t] = "returned"]
        /\ UNCHANGED <<running, responses, requested, untried>>
    BY <1>8 DEF run_recorded
  <2> QED BY <1>0, <2>1, PendingMoves DEF TopicInv, TopicTypeOK, Accounted, Fresh, Recorded
<1>9. ASSUME NEW t \in DOMAIN pending, Settle(t)
      PROVE  TopicInv'
  <2>1. /\ responses' = IF pending[t] = "raised" THEN [responses EXCEPT ![t].status = "worker_error"] ELSE responses
        /\ pending' = [x \in DOMAIN pending \ {t} |-> pending[x]]
        /\ UNCHANGED <<running, markers, requested, untried>>
    BY <1>9 DEF Settle
  <2>2. Keeps(t)
    <3>1. CASE responses' = [responses EXCEPT ![t].status = "worker_error"]
      BY <1>0, <3>1, FailureKept DEF TopicTypeOK
    <3>2. CASE responses' = responses
      BY <1>0, <3>2 DEF TopicTypeOK, Keeps, Recorded
    <3> QED BY <2>1, <3>1, <3>2
  <2>3. DOMAIN pending' = DOMAIN pending \ {t} /\ \A x \in DOMAIN pending' : pending'[x] = pending[x]
    BY <2>1
  <2> QED BY <1>0, <2>1, <2>2, <2>3 DEF TopicInv, TopicTypeOK, Accounted, Fresh, Keeps
<1>10. CASE Wait
  BY <1>0, <1>10 DEF Wait, topicFiles, TopicInv, TopicTypeOK, Accounted, Fresh, Recorded
<1> QED BY <1>1, <1>2, <1>3, <1>4, <1>5, <1>6, <1>7, <1>8, <1>9, <1>10 DEF TopicNext

LEMMA TopicStart == TopicInit => TopicInv
<1> SUFFICES ASSUME TopicInit
             PROVE  TopicInv
  OBVIOUS
<1>1. NoResponse \in ResponseRow
  BY DEF NoResponse, ResponseRow
<1> QED BY <1>1 DEF TopicInit, TopicInv, TopicTypeOK, Accounted, Fresh, Recorded

\* No topic's request is sent twice (run_recorded and main, luna_topic_batch.py).
THEOREM TopicsAreRequestedOnce == TopicSpec => []RequestedOnce
<1>1. TopicInv => RequestedOnce
  BY DEF TopicInv, Accounted, RequestedOnce
<1> QED BY <1>1, TopicStart, TopicStep, PTL DEF TopicSpec

----------------------------------------------------------------------------
(* The guardrail.                                                          *)

Costs == [t \in Numbered |-> responses[t].cost]

\* Topics not under way have cost what is spent, and those under way can cost what is held.
SpendingInv ==
    /\ \A t \in Numbered : responses[t].cost \in 0..Held /\ (~Recorded(t) => responses[t].cost = 0)
    /\ \A t \in untried : ~Recorded(t)
    /\ \A t \in DOMAIN pending : pending[t] \in {"marking", "calling", "called", "raised"} => ~Recorded(t)
    /\ Charged <= Guardrail
    /\ running => /\ spent = SumFunctionOnSet(Costs, Numbered \ DOMAIN pending)
                  /\ spent + Held * Cardinality(DOMAIN pending) <= Guardrail

LEMMA NumberedFinite == IsFiniteSet(Numbered) /\ \A P \in SUBSET Numbered : IsFiniteSet(P) /\ Cardinality(P) \in Nat
<1>1. IsFiniteSet(Numbered)
    BY TopicBatchAssumption, FS_Interval DEF Numbered
<1>2. QED BY <1>1, FS_Subset, FS_CardinalityType

\* What is spent and what is held cover what the answers under way may yet cost.
LEMMA HeldCovers ==
    ASSUME NEW f, \A t \in Numbered : f[t] \in 0..Held, NEW P \in SUBSET Numbered,
           SumFunctionOnSet(f, Numbered \ P) + Held * Cardinality(P) <= Guardrail
    PROVE  SumFunctionOnSet(f, Numbered) <= Guardrail
<1>1. IsFiniteSet(Numbered) /\ IsFiniteSet(P) /\ IsFiniteSet(Numbered \ P) /\ Cardinality(P) \in Nat
    BY NumberedFinite
<1>2. Held \in Nat /\ Guardrail \in Nat
    BY TopicBatchAssumption
<1>3. \A t \in Numbered : f[t] \in Nat
    BY <1>2
<1>4. SumFunctionOnSet(f, Numbered) = SumFunctionOnSet(f, P) + SumFunctionOnSet(f, Numbered \ P)
    BY <1>1, <1>3, SumSplits
<1>5. SumFunctionOnSet(f, P) <= Held * Cardinality(P)
    BY <1>1, <1>2, SumBounded
<1>6. SumFunctionOnSet(f, P) \in Nat /\ SumFunctionOnSet(f, Numbered \ P) \in Nat
    BY <1>1, <1>3, SumIsNat
<1>7. Held * Cardinality(P) \in Nat
    BY <1>1, <1>2
<1>8. QED BY <1>2, <1>4, <1>5, <1>6, <1>7

LEMMA ChargedIs == Charged = SumFunctionOnSet(Costs, Numbered)
BY DEF Charged, Costs, SumFunction

\* The cost of one topic under way may change, and no other.
LEMMA CostsMove ==
    ASSUME SpendingInv, TopicTypeOK, running, NEW t \in DOMAIN pending,
           DOMAIN pending' = DOMAIN pending, UNCHANGED spent,
           \A x \in Numbered : responses'[x].cost \in 0..Held,
           \A x \in Numbered \ {t} : responses'[x].cost = responses[x].cost
    PROVE  /\ Charged' <= Guardrail
           /\ spent' = SumFunctionOnSet(Costs', Numbered \ DOMAIN pending')
           /\ spent' + Held * Cardinality(DOMAIN pending') <= Guardrail
<1> DEFINE P == DOMAIN pending
<1>1. P \in SUBSET Numbered /\ t \in P
    BY DEF TopicTypeOK
<1>2. \A x \in Numbered : Costs[x] \in Nat /\ Costs'[x] \in 0..Held
    BY TopicBatchAssumption DEF SpendingInv, Costs
<1>3. \A x \in Numbered \ P : Costs[x] \in Nat /\ Costs'[x] = Costs[x]
    BY <1>1, <1>2 DEF Costs
<1>4. SumFunctionOnSet(Costs, Numbered \ P) = SumFunctionOnSet(Costs', Numbered \ P)
    <2>1. IsFiniteSet(Numbered \ P)
        BY NumberedFinite
    <2> HIDE DEF P
    <2>2. QED BY <1>3, <2>1, SumSame
<1>5. spent = SumFunctionOnSet(Costs', Numbered \ P) /\ spent + Held * Cardinality(P) <= Guardrail
    BY <1>4 DEF SpendingInv
<1>6. SumFunctionOnSet(Costs', Numbered) <= Guardrail
    <2> HIDE DEF P
    <2>1. QED BY <1>1, <1>2, <1>5, HeldCovers
<1>7. Charged' = SumFunctionOnSet(Costs', Numbered)
    BY DEF Charged, Costs, SumFunction
<1>8. QED BY <1>5, <1>6, <1>7

LEMMA SpendingStep ==
    ASSUME TopicInv, SpendingInv, [TopicNext]_topicVars
    PROVE  SpendingInv'
<1>0. TopicTypeOK /\ Fresh
    BY DEF TopicInv
<1>1. CASE UNCHANGED <<running, responses, untried, spent, pending>>
    BY <1>1 DEF SpendingInv, Recorded, Charged, Costs
<1>2. CASE Run
    <2>1. DOMAIN pending' = {}
        BY <1>2 DEF Run
    <2>2. spent' = Charged /\ UNCHANGED responses /\ untried' = {t \in Numbered : ~Recorded(t)}
        BY <1>2 DEF Run, topicFiles
    <2>3. spent' = SumFunctionOnSet(Costs', Numbered \ DOMAIN pending')
        BY <2>1, <2>2, ChargedIs DEF Costs
    <2>4. Held * Cardinality(DOMAIN pending') = 0
        BY <2>1, FS_EmptySet, TopicBatchAssumption
    <2>5. Charged' = Charged /\ Charged \in Nat
        <3>1. Charged \in Nat
            <4>1. \A t \in Numbered : Costs[t] \in Nat
                BY TopicBatchAssumption DEF SpendingInv, Costs
            <4>2. QED BY <4>1, ChargedIs, NumberedFinite, SumIsNat
        <3>2. QED BY <2>2, <3>1 DEF Charged
    <2>6. spent' + Held * Cardinality(DOMAIN pending') <= Guardrail
        BY <2>2, <2>4, <2>5, TopicBatchAssumption DEF SpendingInv
    <2>7. QED BY <2>1, <2>2, <2>3, <2>5, <2>6 DEF SpendingInv, Recorded
<1>3. CASE Dispatch
    <2> DEFINE t == Min(untried)
               P == DOMAIN pending
    <2>1. untried # {} /\ running /\ UNCHANGED <<running, responses, spent>>
        BY <1>3 DEF Dispatch, Filling, topicFiles
    <2>2. t \in untried /\ t \in Numbered
        <3>1. untried \subseteq Nat /\ untried \subseteq Numbered
            BY <1>0, TopicBatchAssumption DEF TopicTypeOK, Numbered
        <3>2. QED BY <2>1, <3>1, LeastPosition
    <2>3. CASE UNCHANGED <<untried, pending>>
        BY <2>1, <2>3, <1>1
    <2>4. CASE ~UNCHANGED <<untried, pending>>
        <3>1. /\ can_dispatch(spent, Cardinality(P))
              /\ untried' = untried \ {t}
              /\ pending' = [x \in P \union {t} |-> IF x = t THEN "marking" ELSE pending[x]]
            BY <1>3, <2>4 DEF Dispatch
        <3> HIDE DEF t
        <3>2. DOMAIN pending' = P \union {t} /\ t \notin P /\ P \subseteq Numbered
            BY <1>0, <2>2, <3>1 DEF TopicTypeOK, Fresh
        <3>3. \A x \in Numbered : Costs[x] \in Nat
            BY TopicBatchAssumption DEF SpendingInv, Costs
        <3>4. Costs[t] = 0
            BY <2>2 DEF SpendingInv, Costs
        <3>5. SumFunctionOnSet(Costs, Numbered \ P) = SumFunctionOnSet(Costs, Numbered \ (P \union {t}))
            <4> DEFINE rest == Numbered \ P
            <4>1. IsFiniteSet(rest) /\ t \in rest /\ rest \subseteq Numbered /\ rest \ {t} = Numbered \ (P \union {t})
                BY <2>2, <3>2, NumberedFinite
            <4>2. IsFiniteSet(rest \ {t})
                BY <4>1, NumberedFinite
            <4> HIDE DEF rest
            <4>3. SumFunctionOnSet(Costs, rest) = Costs[t] + SumFunctionOnSet(Costs, rest \ {t})
                BY <3>3, <4>1, SumTakes
            <4>4. SumFunctionOnSet(Costs, rest \ {t}) \in Nat
                BY <3>3, <4>1, <4>2, SumIsNat
            <4>5. SumFunctionOnSet(Costs, rest) = SumFunctionOnSet(Costs, rest \ {t})
                BY <3>4, <4>3, <4>4
            <4>6. QED BY <4>1, <4>5 DEF rest
        <3>6. Cardinality(P \union {t}) = Cardinality(P) + 1
            BY <3>2, NumberedFinite, FS_AddElement
        <3>7. /\ spent' = SumFunctionOnSet(Costs', Numbered \ DOMAIN pending')
              /\ spent' + Held * Cardinality(DOMAIN pending') <= Guardrail
            BY <2>1, <3>1, <3>2, <3>5, <3>6 DEF SpendingInv, Costs, can_dispatch
        <3>8. Charged' = Charged
            BY <2>1 DEF Charged
        <3>9. QED BY <2>1, <2>2, <3>1, <3>2, <3>7, <3>8 DEF SpendingInv, Recorded
    <2>5. QED BY <2>3, <2>4
<1>4. CASE Stop \/ Killed
    <2>1. ~running' /\ untried' = {} /\ DOMAIN pending' = {} /\ UNCHANGED responses
        BY <1>4 DEF Stop, Killed, Idle, topicFiles
    <2>2. QED BY <2>1 DEF SpendingInv, Recorded, Charged
<1>5. ASSUME NEW t \in DOMAIN pending, MarkTopic(t) \/ Call(t) \/ run_recorded(t)
      PROVE  SpendingInv'
    <2>1. PICK step \in {"calling", "called", "returned"} :
            /\ pending' = [pending EXCEPT ![t] = step]
            /\ step # "returned" => ~Recorded(t)
        BY <1>5 DEF MarkTopic, Call, run_recorded, SpendingInv
    <2>2. UNCHANGED <<running, responses, untried, spent>>
        BY <1>5 DEF MarkTopic, Call, run_recorded
    <2>3. \A x \in DOMAIN pending' : pending'[x] \in {"marking", "calling", "called", "raised"} => ~Recorded(x)'
        BY <2>1, <2>2, PendingMoves DEF SpendingInv, Recorded
    <2>4. DOMAIN pending' = DOMAIN pending /\ Costs' = Costs /\ Charged' = Charged
        BY <2>1, <2>2 DEF Costs, Charged
    <2>5. QED BY <2>2, <2>3, <2>4 DEF SpendingInv, Recorded
<1>6. ASSUME NEW t \in DOMAIN pending, run_one(t)
      PROVE  SpendingInv'
    <2>1. /\ pending[t] = "called" /\ t \in Numbered /\ t \notin untried /\ running
          /\ pending' = [pending EXCEPT ![t] = IF responses'[t] = responses[t] THEN "raised" ELSE "recorded"]
          /\ UNCHANGED <<running, untried, spent>>
        BY <1>0, <1>6 DEF run_one, TopicTypeOK, Fresh
    <2>2. ~Recorded(t) /\ responses[t] \in ResponseRow /\ responses[t].cost = 0
        BY <1>0, <2>1 DEF SpendingInv, TopicTypeOK
    <2>3. /\ \A x \in Numbered \ {t} : responses'[x] = responses[x]
          /\ responses'[t].cost \in 0..Held /\ (responses'[t].status = "none" => responses'[t].cost = 0)
        <3>1. CASE UNCHANGED responses
            BY <2>1, <2>2, <3>1, TopicBatchAssumption
        <3>2. CASE \E c \in Charge : responses' = [responses EXCEPT ![t] = [status |-> "answered", cost |-> c]]
            BY <1>0, <2>1, <3>2, TopicBatchAssumption DEF TopicTypeOK
        <3>3. CASE \E s \in {"http_error", "transport_error"} : responses' = [responses EXCEPT ![t].status = s]
            <4>1. PICK s \in {"http_error", "transport_error"} : responses' = [responses EXCEPT ![t].status = s]
                BY <3>3
            <4>2. responses'[t] = [responses[t] EXCEPT !.status = s]
                BY <1>0, <2>1, <4>1 DEF TopicTypeOK
            <4>3. responses'[t].cost = 0 /\ 0 \in 0..Held
                BY <2>2, <4>2, TopicBatchAssumption DEF ResponseRow
            <4>4. QED BY <1>0, <2>1, <4>1, <4>3 DEF TopicTypeOK
        <3>4. QED BY <1>6, <3>1, <3>2, <3>3 DEF run_one
    <2>4. /\ DOMAIN pending' = DOMAIN pending
          /\ pending'[t] = "raised" => responses'[t] = responses[t]
          /\ pending'[t] \in {"raised", "recorded"}
          /\ \A x \in DOMAIN pending \ {t} : pending'[x] = pending[x]
        BY <2>1
    <2>5. \A x \in Numbered : responses'[x].cost \in 0..Held /\ (responses'[x].status = "none" => responses'[x].cost = 0)
        BY <2>3 DEF SpendingInv, Recorded
    <2>6. \A x \in DOMAIN pending' : pending'[x] \in {"marking", "calling", "called", "raised"} => responses'[x].status = "none"
        BY <1>0, <2>2, <2>3, <2>4 DEF SpendingInv, Recorded, TopicTypeOK
    <2>7. \A x \in untried' : responses'[x].status = "none"
        BY <1>0, <2>1, <2>3 DEF SpendingInv, Recorded, TopicTypeOK
    <2>8. /\ Charged' <= Guardrail
          /\ spent' = SumFunctionOnSet(Costs', Numbered \ DOMAIN pending')
          /\ spent' + Held * Cardinality(DOMAIN pending') <= Guardrail
        BY <1>0, <2>1, <2>3, <2>4, <2>5, CostsMove
    <2>9. QED BY <2>5, <2>6, <2>7, <2>8 DEF SpendingInv, Recorded
<1>7. ASSUME NEW t \in DOMAIN pending, Settle(t)
      PROVE  SpendingInv'
    <2> DEFINE P == DOMAIN pending
    <2>1. /\ responses' = IF pending[t] = "raised" THEN [responses EXCEPT ![t].status = "worker_error"] ELSE responses
          /\ spent' = spent + responses'[t].cost
          /\ pending' = [x \in P \ {t} |-> pending[x]]
          /\ UNCHANGED <<running, untried>>
        BY <1>7 DEF Settle
    <2>2. t \in Numbered /\ t \notin untried /\ running /\ P \subseteq Numbered /\ responses[t] \in ResponseRow
        BY <1>0 DEF TopicTypeOK, Fresh
    <2>3. /\ \A x \in Numbered : responses'[x].cost = responses[x].cost
          /\ \A x \in Numbered \ {t} : responses'[x] = responses[x]
          /\ responses'[t].status = "none" => responses[t].status = "none"
        <3>1. CASE responses' = [responses EXCEPT ![t].status = "worker_error"]
            <4>1. responses'[t] = [responses[t] EXCEPT !.status = "worker_error"]
                BY <1>0, <2>2, <3>1 DEF TopicTypeOK
            <4>2. responses'[t].cost = responses[t].cost /\ responses'[t].status = "worker_error"
                BY <2>2, <4>1 DEF ResponseRow
            <4>3. QED BY <1>0, <3>1, <4>2 DEF TopicTypeOK
        <3>2. CASE responses' = responses
            BY <3>2
        <3>3. QED BY <2>1, <3>1, <3>2
    <2>4. DOMAIN pending' = P \ {t} /\ \A x \in P \ {t} : pending'[x] = pending[x]
        BY <2>1
    <2>5. Costs' = Costs
        BY <2>3 DEF Costs
    <2>6. \A x \in Numbered : Costs[x] \in Nat /\ Costs[x] \in 0..Held
        BY TopicBatchAssumption DEF SpendingInv, Costs
    <2>7. spent' = SumFunctionOnSet(Costs', Numbered \ DOMAIN pending')
        <3> DEFINE rest == Numbered \ (P \ {t})
        <3>1. IsFiniteSet(rest) /\ t \in rest /\ rest \ {t} = Numbered \ P /\ rest \subseteq Numbered
            BY <2>2, NumberedFinite
        <3> HIDE DEF rest, P
        <3>2. SumFunctionOnSet(Costs, rest) = Costs[t] + SumFunctionOnSet(Costs, rest \ {t})
            BY <2>6, <3>1, SumTakes
        <3>3. SumFunctionOnSet(Costs, Numbered \ P) = spent
            BY <2>2 DEF SpendingInv, P
        <3>4. responses'[t].cost = Costs[t]
            BY <2>2, <2>3 DEF Costs
        <3>5. spent \in Nat
            <4>1. IsFiniteSet(Numbered \ P)
                BY NumberedFinite
            <4>2. QED BY <2>6, <3>3, <4>1, SumIsNat
        <3>6. spent' = SumFunctionOnSet(Costs, rest)
            BY <2>1, <2>2, <2>6, <3>1, <3>2, <3>3, <3>4, <3>5
        <3>7. QED BY <2>4, <2>5, <3>6 DEF rest
    <2>8. spent' + Held * Cardinality(DOMAIN pending') <= Guardrail
        <3> DEFINE n == Cardinality(P)
                   c == Costs[t]
        <3>1. Cardinality(DOMAIN pending') = n - 1 /\ n \in Nat /\ n - 1 \in Nat
            <4>1. IsFiniteSet(P) /\ n \in Nat /\ IsFiniteSet(P \ {t}) /\ Cardinality(P \ {t}) \in Nat
                BY <2>2, NumberedFinite
            <4>2. Cardinality(P \ {t}) = n - 1
                BY <4>1, FS_RemoveElement
            <4>3. QED BY <2>4, <4>1, <4>2
        <3>2. c \in 0..Held /\ spent' = spent + c /\ Held \in Nat /\ Guardrail \in Nat
            BY <2>1, <2>2, <2>3, <2>6, TopicBatchAssumption DEF Costs
        <3>3. spent + Held * n <= Guardrail /\ spent \in Nat
            <4>1. spent = SumFunctionOnSet(Costs, Numbered \ P) /\ spent + Held * n <= Guardrail
                BY <2>2 DEF SpendingInv
            <4>2. IsFiniteSet(Numbered \ P)
                BY NumberedFinite
            <4> HIDE DEF P
            <4>3. QED BY <2>6, <4>1, <4>2, SumIsNat
        <3> HIDE DEF n, c
        <3>4. Held * n = Held * (n - 1) + Held /\ Held * (n - 1) \in Nat
            BY <3>1, <3>2
        <3>5. spent + c + Held * (n - 1) <= Guardrail
            BY <3>1, <3>2, <3>3, <3>4
        <3>6. QED BY <3>1, <3>2, <3>5
    <2>9. Charged' = Charged
        BY <2>5 DEF Charged, Costs
    <2>10. \A x \in DOMAIN pending' : pending'[x] \in {"marking", "calling", "called", "raised"} => responses'[x].status = "none"
        BY <2>2, <2>3, <2>4 DEF SpendingInv, Recorded
    <2>11. \A x \in untried' : responses'[x].status = "none"
        BY <1>0, <2>1, <2>2, <2>3 DEF SpendingInv, Recorded, TopicTypeOK
    <2>12. \A x \in Numbered : responses'[x].cost \in 0..Held /\ (responses'[x].status = "none" => responses'[x].cost = 0)
        BY <2>2, <2>3 DEF SpendingInv, Recorded
    <2>13. QED BY <2>7, <2>8, <2>9, <2>10, <2>11, <2>12 DEF SpendingInv, Recorded
<1>8. CASE Wait \/ UNCHANGED topicVars
    BY <1>1, <1>8 DEF Wait, topicVars, topicFiles
<1>9. QED BY <1>2, <1>3, <1>4, <1>5, <1>6, <1>7, <1>8 DEF TopicNext

\* The answers of the topic batches never cost more than the guardrail, whatever number of
\* requests is under way and whenever a process is killed (can_dispatch, luna_topic_batch.py).
THEOREM GuardrailHolds == TopicSpec => []WithinGuardrail
<1>1. TopicInit => TopicInv /\ SpendingInv
    <2> SUFFICES ASSUME TopicInit PROVE TopicInv /\ SpendingInv
        OBVIOUS
    <2>1. responses = [t \in Numbered |-> NoResponse] /\ untried = {} /\ DOMAIN pending = {} /\ ~running
        BY DEF TopicInit
    <2>2. \A t \in Numbered : responses[t].cost = 0
        BY <2>1 DEF NoResponse
    <2>3. Held \in Nat /\ Guardrail \in Nat /\ 0 \in 0..Held
        BY TopicBatchAssumption
    <2>4. Charged <= Guardrail
        <3>1. \A t \in Numbered : Costs[t] \in 0..0
            BY <2>2 DEF Costs
        <3>2. SumFunctionOnSet(Costs, Numbered) <= 0 * Cardinality(Numbered)
            BY <3>1, NumberedFinite, SumBounded
        <3>3. SumFunctionOnSet(Costs, Numbered) \in Nat
            BY <3>1, NumberedFinite, SumIsNat
        <3>4. 0 * Cardinality(Numbered) = 0
            BY NumberedFinite
        <3>5. QED BY <2>3, <3>2, <3>3, <3>4, ChargedIs
    <2>5. SpendingInv
        BY <2>1, <2>2, <2>3, <2>4 DEF SpendingInv
    <2>6. QED BY <2>5, TopicStart
<1>2. TopicInv /\ SpendingInv /\ [TopicNext]_topicVars => TopicInv' /\ SpendingInv'
    BY TopicStep, SpendingStep
<1>3. SpendingInv => WithinGuardrail
    BY DEF SpendingInv, WithinGuardrail
<1>4. QED BY <1>1, <1>2, <1>3, PTL DEF TopicSpec

(***************************************************************************)
(* The difficulty run: no question is sent twice, and what is published is *)
(* the service's judgement of the bank as it is.                           *)
(***************************************************************************)

PostStatus == {"sent", "lost", "in_progress", "completed", "expired"}
Outputs == {<<>>} \union UNION {[S -> Line] : S \in SUBSET Question}
PostRow == [part : SUBSET Question, status : PostStatus, output : Outputs]
PartRow == [id : Nat, status : PostStatus]

\* The parts never overlap, and once an invocation works on them they hold every question.
PartsOK ==
    /\ parts \subseteq SUBSET Question
    /\ \A p, r \in parts : p # r => p \intersect r = {}
    /\ parts # {} => \A q \in Question : \E p \in parts : q \in p
    /\ action # "none" => parts # {}

\* A batch is requested for a whole part that bears the marker, and once for each.
PostsOK ==
    /\ posts \in Seq(PostRow)
    /\ \A i \in DOMAIN posts : posts[i].part \in parts /\ posts[i].part \in marked
    /\ \A i, j \in DOMAIN posts : i # j => posts[i].part # posts[j].part

\* The threads that are about to send a part are the first to do so.
ThreadsOK ==
    /\ DOMAIN thread \subseteq parts
    /\ action = "none" => DOMAIN thread = {}
    /\ \A p \in DOMAIN thread :
         /\ thread[p] = "marked" => p \in marked
         /\ thread[p] \in {"uploading", "uploaded", "marked"} => \A i \in DOMAIN posts : posts[i].part # p

SendInv == PartsOK /\ PostsOK /\ ThreadsOK

----------------------------------------------------------------------------
\* What the cut into chunks yields: parts that share no question and hold them all.
LEMMA FreshParts ==
    /\ {Chunk(q) : q \in Question} \subseteq SUBSET Question
    /\ \A p, r \in {Chunk(q) : q \in Question} : p # r => p \intersect r = {}
    /\ \A q \in Question : \E p \in {Chunk(x) : x \in Question} : q \in p
<1>1. {Chunk(q) : q \in Question} \subseteq SUBSET Question
  BY DEF Chunk
<1>2. ASSUME NEW a \in Question, NEW b \in Question, NEW x \in Chunk(a), x \in Chunk(b)
      PROVE  Chunk(a) = Chunk(b)
  <2>1. (a - 1) \div PartSize = (b - 1) \div PartSize
    BY <1>2, Zenon DEF Chunk
  <2> QED BY <2>1, Zenon DEF Chunk
<1>3. \A q \in Question : q \in Chunk(q)
  BY Zenon DEF Chunk
<1> QED BY <1>1, <1>2, <1>3

\* A cut keeps the parts of the index when there is one.
LEMMA PreparedParts ==
    ASSUME PartsOK
    PROVE  /\ prepare_parts \subseteq SUBSET Question
           /\ \A p, r \in prepare_parts : p # r => p \intersect r = {}
           /\ parts # {} => prepare_parts = parts
           /\ \A q \in Question : \E p \in prepare_parts : q \in p
           /\ prepare_parts # {}
<1>1. 1 \in Question
  BY DifficultyBatchAssumption DEF Question
<1> QED BY <1>1, FreshParts DEF prepare_parts, PartsOK

\* Splitting a part yields pieces of it that do not overlap, and leaves a part alone that was sent.
LEMMA HalvesOfAPart ==
    ASSUME NEW p
    PROVE  /\ \A h \in Halves(p) : h \subseteq p
           /\ \A h, g \in Halves(p) : h # g => h \intersect g = {}
           /\ \A q \in p : \E h \in Halves(p) : q \in h
           /\ p \in marked => Halves(p) = {p}
<1>1. Lower(p) \subseteq p
  BY DEF Lower
<1>2. CASE Halves(p) = {p}
  BY <1>2
<1>3. CASE Halves(p) = {Lower(p), p \ Lower(p)} /\ Unattempted(p)
  BY <1>1, <1>3 DEF Unattempted
<1> QED BY <1>2, <1>3 DEF Halves

\* Appending a request changes no earlier one.
LEMMA AppendedPost ==
    ASSUME posts \in Seq(PostRow), NEW row \in PostRow
    PROVE  /\ Append(posts, row) \in Seq(PostRow)
           /\ DOMAIN Append(posts, row) = DOMAIN posts \union {Len(posts) + 1}
           /\ Len(posts) + 1 \notin DOMAIN posts
           /\ Append(posts, row)[Len(posts) + 1] = row
           /\ \A i \in DOMAIN posts : Append(posts, row)[i] = posts[i]
<1> HIDE DEF PostRow
<1> QED OBVIOUS

\* What the service does to a request leaves its part, and every other request, as they were.
ServiceStep(i) ==
    /\ posts[i].status \in {"sent", "in_progress"}
    /\ posts' \in Seq(PostRow) /\ DOMAIN posts' = DOMAIN posts
    /\ posts'[i].part = posts[i].part
    /\ posts'[i].status \in {"in_progress", "lost"} \union Terminal
    /\ posts[i].status = "in_progress" => posts'[i].status \in Terminal
    /\ \A j \in DOMAIN posts \ {i} : posts'[j] = posts[j]

\* A row of the list replaced by another.
LEMMA ReplacedPost ==
    ASSUME posts \in Seq(PostRow), NEW i \in DOMAIN posts, NEW row \in PostRow
    PROVE  /\ [posts EXCEPT ![i] = row] \in Seq(PostRow)
           /\ DOMAIN [posts EXCEPT ![i] = row] = DOMAIN posts
           /\ [posts EXCEPT ![i] = row][i] = row
           /\ \A j \in DOMAIN posts \ {i} : [posts EXCEPT ![i] = row][j] = posts[j]
<1> HIDE DEF PostRow
<1> QED OBVIOUS

LEMMA ArriveStep ==
    ASSUME posts \in Seq(PostRow), NEW i \in DOMAIN posts, Arrive(i)
    PROVE  ServiceStep(i)
<1>1. PICK s \in {"in_progress", "lost"} : posts' = [posts EXCEPT ![i].status = s]
  BY DEF Arrive
<1> DEFINE row == [posts[i] EXCEPT !.status = s]
<1>2. posts[i] \in PostRow
  <2> HIDE DEF PostRow
  <2> QED OBVIOUS
<1>3. row \in PostRow /\ row.part = posts[i].part /\ row.status = s
  BY <1>2 DEF PostRow, PostStatus
<1>4. posts' = [posts EXCEPT ![i] = row]
  BY <1>1
<1>5. posts[i].status = "sent"
  BY DEF Arrive
<1> HIDE DEF row
<1> QED BY <1>3, <1>4, <1>5, ReplacedPost DEF ServiceStep

LEMMA JudgeStep ==
    ASSUME posts \in Seq(PostRow), NEW i \in DOMAIN posts, Judge(i)
    PROVE  ServiceStep(i)
<1>1. posts[i] \in PostRow
  <2> HIDE DEF PostRow
  <2> QED OBVIOUS
<1>2. PICK s \in Terminal, out \in [posts[i].part -> Line] :
        posts' = [posts EXCEPT ![i].status = s, ![i].output = out]
  BY DEF Judge
<1> DEFINE row == [part |-> posts[i].part, status |-> s, output |-> out]
<1>3. out \in Outputs
  BY <1>1 DEF Outputs, PostRow
<1>4. row \in PostRow /\ row.part = posts[i].part /\ row.status = s
  BY <1>1, <1>3 DEF PostRow, PostStatus, Terminal
<1>5. [[posts[i] EXCEPT !.status = s] EXCEPT !.output = out] = row
  <2>1. [posts[i] EXCEPT !.status = s] = [part |-> posts[i].part, status |-> s, output |-> posts[i].output]
    BY <1>1 DEF PostRow
  <2>2. [[part |-> posts[i].part, status |-> s, output |-> posts[i].output] EXCEPT !.output = out] = row
    OBVIOUS
  <2> QED BY <2>1, <2>2
<1>6. posts' = [posts EXCEPT ![i] = row]
  BY <1>2, <1>5
<1>7. posts[i].status = "in_progress"
  BY DEF Judge
<1> HIDE DEF row
<1> QED BY <1>4, <1>6, <1>7, ReplacedPost DEF ServiceStep, Terminal

----------------------------------------------------------------------------
\* What becomes of one thread, the others going on as they were.
LEMMA ThreadMoves ==
    ASSUME ThreadsOK, NEW p \in DOMAIN thread, NEW step, Goes(p, step)
    PROVE  /\ DOMAIN thread' = DOMAIN thread
           /\ thread'[p] = step
           /\ \A r \in DOMAIN thread \ {p} : thread'[r] = thread[r]
BY DEF Goes

\* No step of the run or of the service lets two requests share a part.
LEMMA SendStep == SendInv /\ [BatchNext]_batchVars => SendInv'
<1> SUFFICES ASSUME SendInv, [BatchNext]_batchVars
             PROVE  SendInv'
  OBVIOUS
<1> USE DEF SendInv
<1>1. CASE UNCHANGED <<parts, posts, marked, action, thread>>
  BY <1>1 DEF PartsOK, PostsOK, ThreadsOK
<1>2. CASE split_pending
  <2>1. PartsOK'
    <3>1. parts' = UNION {Halves(p) : p \in prepare_parts} /\ action' = "none"
      BY <1>2 DEF split_pending
    <3>2. ASSUME NEW h \in parts', NEW g \in parts', h # g
          PROVE  h \intersect g = {}
      <4>1. PICK p \in prepare_parts : h \in Halves(p)
        BY <3>1
      <4>2. PICK r \in prepare_parts : g \in Halves(r)
        BY <3>1
      <4>3. CASE p = r
        BY <3>2, <4>1, <4>2, <4>3, HalvesOfAPart
      <4>4. CASE p # r
        <5>1. h \subseteq p /\ g \subseteq r
          BY <4>1, <4>2, HalvesOfAPart
        <5>2. p \intersect r = {}
          BY <4>4, PreparedParts
        <5> QED BY <5>1, <5>2
      <4> QED BY <4>3, <4>4
    <3>3. parts' \subseteq SUBSET Question
      BY <3>1, PreparedParts, HalvesOfAPart
    <3>4. ASSUME NEW q \in Question
          PROVE  \E h \in parts' : q \in h
      <4>1. PICK p \in prepare_parts : q \in p
        BY PreparedParts
      <4>2. PICK h \in Halves(p) : q \in h
        BY <4>1, HalvesOfAPart
      <4> QED BY <3>1, <4>2
    <3> QED BY <3>1, <3>2, <3>3, <3>4 DEF PartsOK
  <2>2. posts' = posts /\ marked' = marked /\ action' = "none" /\ DOMAIN thread' = {}
    BY <1>2 DEF split_pending, ThreadsOK
  <2>3. ASSUME NEW i \in DOMAIN posts
        PROVE  posts[i].part \in parts'
    <3>1. posts[i].part \in prepare_parts /\ posts[i].part \in marked
      BY PreparedParts DEF PostsOK
    <3>2. posts[i].part \in Halves(posts[i].part)
      BY <3>1, HalvesOfAPart
    <3> QED BY <1>2, <3>1, <3>2 DEF split_pending
  <2> QED BY <2>1, <2>2, <2>3 DEF PostsOK, ThreadsOK
<1>3. ASSUME NEW a \in {"submit", "collect"}, operate_parts(a)
      PROVE  SendInv'
  <2>1. /\ parts' = prepare_parts
        /\ thread' = [p \in prepare_parts |-> "queued"]
        /\ action' # "none"
        /\ posts' = posts /\ marked' = marked
    BY <1>3 DEF operate_parts
  <2>2. PartsOK'
    BY <2>1, PreparedParts DEF PartsOK
  <2>3. \A i \in DOMAIN posts : posts[i].part \in parts'
    BY <2>1, PreparedParts DEF PostsOK
  <2> QED BY <2>1, <2>2, <2>3 DEF PostsOK, ThreadsOK
<1>4. ASSUME NEW p \in DOMAIN thread, Take(p) \/ Reconcile(p) \/ Upload(p) \/ Reply(p) \/ Fails(p) \/ collect(p)
      PROVE  SendInv'
  <2>1. UNCHANGED <<parts, posts, marked, action>>
    BY <1>4 DEF Take, Reconcile, Upload, Reply, Fails, collect, batchFiles
  <2>2. PICK step \in {"collecting", "done", "uploading", "reconciling", "uploaded", "error"} :
          /\ Goes(p, step)
          /\ step = "uploading" => p \notin marked
          /\ step = "uploaded" => thread[p] = "uploading"
    BY <1>4 DEF Take, Reconcile, Upload, Reply, Fails, collect, MayPost, Unattempted, At
  <2>3. step \in {"uploading", "uploaded"} => \A i \in DOMAIN posts : posts[i].part # p
    BY <2>2 DEF PostsOK, ThreadsOK
  <2> QED BY <2>1, <2>2, <2>3, ThreadMoves DEF PartsOK, PostsOK, ThreadsOK
<1>5. ASSUME NEW p \in DOMAIN thread, Mark(p)
      PROVE  SendInv'
  <2>1. UNCHANGED <<parts, posts, action>> /\ marked' = marked \union {p} /\ Goes(p, "marked") /\ thread[p] = "uploaded"
    BY <1>5 DEF Mark, At
  <2> QED BY <2>1, ThreadMoves DEF PartsOK, PostsOK, ThreadsOK
<1>6. ASSUME NEW p \in DOMAIN thread, Post(p)
      PROVE  SendInv'
  <2> DEFINE row == [part |-> p, status |-> "sent", output |-> <<>>]
  <2>1. UNCHANGED <<parts, marked, action>> /\ posts' = Append(posts, row) /\ Goes(p, "posted")
    BY <1>6 DEF Post, batchFiles
  <2>2. row \in PostRow /\ row.part = p
    BY DEF PostRow, PostStatus, Outputs, ThreadsOK, PartsOK
  <2>3. p \in marked /\ p \in parts /\ \A i \in DOMAIN posts : posts[i].part # p
    BY <1>6 DEF Post, At, ThreadsOK
  <2> HIDE DEF row
  <2>4. PostsOK'
    BY <2>1, <2>2, <2>3, AppendedPost DEF PostsOK
  <2>5. ThreadsOK'
    <3>1. ASSUME NEW r \in DOMAIN thread', thread'[r] \in {"uploading", "uploaded", "marked"}, NEW i \in DOMAIN posts'
          PROVE  posts'[i].part # r
      <4>1. r # p /\ r \in DOMAIN thread /\ thread'[r] = thread[r]
        BY <2>1, <3>1, ThreadMoves
      <4> QED BY <2>1, <2>2, <3>1, <4>1, AppendedPost DEF PostsOK, ThreadsOK
    <3> QED BY <2>1, <3>1, ThreadMoves DEF ThreadsOK
  <2> QED BY <2>1, <2>4, <2>5 DEF PartsOK
<1>7. CASE summarize
  BY <1>7 DEF summarize, Ended, PartsOK, PostsOK, ThreadsOK
<1>8. CASE Annotate \/ Return \/ Die
  BY <1>8 DEF Annotate, Return, Die, batchFiles, PartsOK, PostsOK, ThreadsOK
<1>9. ASSUME NEW i \in DOMAIN posts, Arrive(i) \/ Judge(i)
      PROVE  SendInv'
  <2>1. ServiceStep(i)
    BY <1>9, ArriveStep, JudgeStep DEF PostsOK
  <2>2. UNCHANGED <<parts, marked, action, thread>>
    BY <1>9 DEF Arrive, Judge, batchFiles
  <2>3. \A j \in DOMAIN posts : posts'[j].part = posts[j].part
    BY <2>1 DEF ServiceStep
  <2> QED BY <2>1, <2>2, <2>3 DEF ServiceStep, PartsOK, PostsOK, ThreadsOK
<1>10. CASE UNCHANGED batchVars \/ Prepare \/ publish \/ \E q \in Question : Revise(q)
  BY <1>1, <1>10 DEF batchVars, batchFiles, Prepare, publish, Revise
<1> QED BY <1>2, <1>3, <1>4, <1>5, <1>6, <1>7, <1>8, <1>9, <1>10 DEF BatchNext

LEMMA SendStart == BatchInit => SendInv
BY DEF BatchInit, SendInv, PartsOK, PostsOK, ThreadsOK

\* No question is ever sent to the service twice (submit, question_difficulty_batch.py:186-216).
THEOREM QuestionsAreBatchedOnce == BatchSpec => []BatchedOnce
<1>1. SendInv => BatchedOnce
  BY DEF SendInv, PartsOK, PostsOK, BatchedOnce
<1> QED BY <1>1, SendStart, SendStep, PTL DEF BatchSpec

----------------------------------------------------------------------------
\* Every batch.json names an accepted request for its part, and calls it ended only if it has.
RecordsOK ==
    \A p \in DOMAIN batch :
        /\ batch[p].id \in DOMAIN posts /\ posts[batch[p].id].part = p /\ Accepted(batch[p].id)
        /\ batch[p].status \in Terminal => posts[batch[p].id].status \in Terminal

\* A collecting invocation has a batch.json for each part it is done with; by the time it writes
\* the annotations it has an ended one for every part.
CollectOK ==
    /\ action # "none" => DOMAIN thread = parts
    /\ action = "collect" => \A p \in DOMAIN thread : thread[p] = "done" => p \in DOMAIN batch
    /\ action = "annotating" => \A p \in parts :
          /\ p \in DOMAIN batch /\ batch[p].status \in Terminal
          /\ thread[p] \in {"done", "error"}

\* Every annotation is what an ended request for its question says.
AnnotationsOK ==
    /\ DOMAIN source = Question
    /\ \A q \in DOMAIN annotations : \E i \in DOMAIN posts :
          q \in posts[i].part /\ posts[i].status \in Terminal /\ annotations[q].difficulty = posts[i].output[q]

PublishInv == SendInv /\ RecordsOK /\ CollectOK /\ AnnotationsOK

\* The requests, once accepted, keep what is known of them.
LEMMA AcceptedStays ==
    ASSUME PublishInv, NEW i \in DOMAIN posts, ServiceStep(i), UNCHANGED <<source, batch, annotations>>
    PROVE  RecordsOK' /\ AnnotationsOK'
<1>1. \A j \in DOMAIN posts : posts'[j].part = posts[j].part
  BY DEF ServiceStep
<1>2. \A j \in DOMAIN posts : Accepted(j) => Accepted(j)'
  BY DEF ServiceStep, Accepted, Terminal
<1>3. \A j \in DOMAIN posts : posts[j].status \in Terminal => posts'[j] = posts[j]
  BY DEF ServiceStep, Terminal
<1>4. DOMAIN posts' = DOMAIN posts
  BY DEF ServiceStep
<1>5. RecordsOK'
  BY <1>1, <1>2, <1>3, <1>4 DEF PublishInv, RecordsOK
<1>6. AnnotationsOK'
  BY <1>3, <1>4 DEF PublishInv, AnnotationsOK
<1> QED BY <1>5, <1>6

\* A batch.json written for a request of its part.
LEMMA RecordedStays ==
    ASSUME PublishInv, NEW p, NEW i \in DOMAIN posts, posts[i].part = p, Accepted(i), Record(p, i), UNCHANGED posts
    PROVE  /\ RecordsOK'
           /\ DOMAIN batch' = DOMAIN batch \union {p}
           /\ \A x \in DOMAIN batch \ {p} : batch'[x] = batch[x]
<1>1. /\ DOMAIN batch' = DOMAIN batch \union {p}
      /\ \A x \in DOMAIN batch \ {p} : batch'[x] = batch[x]
      /\ batch'[p] = [id |-> i, status |-> posts[i].status]
  BY DEF Record
<1>2. \A j : Accepted(j)' = Accepted(j)
  BY DEF Accepted
<1> QED BY <1>1, <1>2 DEF PublishInv, RecordsOK

\* At the end of a collection each question has the answer of an ended request for its part.
LEMMA OutputsAreAnswers ==
    ASSUME PublishInv, action = "annotating", NEW q \in DOMAIN parse_outputs
    PROVE  \E i \in DOMAIN posts :
              /\ q \in posts[i].part /\ posts[i].status \in Terminal
              /\ parse_outputs[q].difficulty = posts[i].output[q]
<1>1. q \in Question /\ parse_outputs[q].difficulty = Output(q)
  BY DEF parse_outputs
<1> DEFINE p == CHOOSE x \in parts : q \in x
<1>2. p \in parts /\ q \in p
  BY <1>1 DEF PublishInv, SendInv, PartsOK
<1>3. Output(q) = posts[batch[p].id].output[q]
  BY DEF Output
<1> HIDE DEF p
<1>4. /\ p \in DOMAIN batch /\ batch[p].status \in Terminal
      /\ batch[p].id \in DOMAIN posts /\ posts[batch[p].id].part = p
      /\ posts[batch[p].id].status \in Terminal
  BY <1>2 DEF PublishInv, CollectOK, RecordsOK
<1> QED BY <1>1, <1>2, <1>3, <1>4

\* No step of the run or of the service loses the origin of an annotation.
LEMMA PublishStep == PublishInv /\ [BatchNext]_batchVars => PublishInv'
<1> SUFFICES ASSUME PublishInv, [BatchNext]_batchVars
             PROVE  PublishInv'
  OBVIOUS
<1>0. SendInv /\ RecordsOK /\ CollectOK /\ AnnotationsOK /\ SendInv' /\ ThreadsOK
  BY SendStep DEF PublishInv, SendInv
<1>1. ASSUME UNCHANGED <<posts, batch, annotations>>, DOMAIN source' = DOMAIN source
      PROVE  RecordsOK' /\ AnnotationsOK'
  <2>1. \A j : Accepted(j)' = Accepted(j)
    BY <1>1 DEF Accepted
  <2> QED BY <1>0, <1>1, <2>1 DEF RecordsOK, AnnotationsOK
<1>2. CASE UNCHANGED batchVars \/ Prepare \/ publish \/ \E q \in Question : Revise(q)
  <2>1. UNCHANGED <<posts, batch, annotations, parts, action, thread>> /\ DOMAIN source' = DOMAIN source
    BY <1>2 DEF batchVars, batchFiles, Prepare, publish, Revise
  <2> QED BY <1>0, <1>1, <2>1 DEF PublishInv, CollectOK
<1>3. CASE split_pending
  BY <1>0, <1>1, <1>3 DEF PublishInv, split_pending, CollectOK
<1>4. ASSUME NEW a \in {"submit", "collect"}, operate_parts(a)
      PROVE  PublishInv'
  <2>1. CollectOK'
    BY <1>4 DEF operate_parts, CollectOK
  <2> QED BY <1>0, <1>1, <1>4, <2>1 DEF PublishInv, operate_parts
<1>5. ASSUME NEW p \in DOMAIN thread, Take(p) \/ Upload(p) \/ Mark(p) \/ Fails(p)
      PROVE  PublishInv'
  <2>1. UNCHANGED <<source, posts, batch, annotations, parts, action>>
    BY <1>5 DEF Take, Upload, Mark, Fails, batchFiles
  <2>2. PICK step \in {"collecting", "done", "uploading", "reconciling", "uploaded", "marked", "error"} :
          Goes(p, step) /\ (action = "collect" => step # "done")
    BY <1>5 DEF Take, Upload, Mark, Fails
  <2>3. thread[p] \notin {"done", "error"}
    BY <1>5 DEF Take, Upload, Mark, Fails, At
  <2> QED BY <1>0, <1>1, <2>1, <2>2, <2>3, ThreadMoves DEF PublishInv, CollectOK
<1>6. ASSUME NEW p \in DOMAIN thread, Reconcile(p) \/ Reply(p) \/ collect(p)
      PROVE  PublishInv'
  <2>1. UNCHANGED <<source, posts, annotations, parts, action>> /\ thread[p] \notin {"done", "error"}
    BY <1>6 DEF Reconcile, Reply, collect, At
  <2>2. CASE Goes(p, "error") /\ UNCHANGED batch
    BY <1>0, <1>1, <2>1, <2>2, ThreadMoves DEF PublishInv, CollectOK
  <2>3. ASSUME NEW i \in DOMAIN posts, posts[i].part = p, Accepted(i), Record(p, i), Goes(p, "done")
        PROVE  PublishInv'
    <3>1. RecordsOK' /\ DOMAIN batch' = DOMAIN batch \union {p}
      BY <2>1, <2>3, RecordedStays
    <3>2. action # "annotating"
      BY <1>0, <2>1 DEF CollectOK
    <3>3. CollectOK'
      BY <1>0, <2>1, <2>3, <3>1, <3>2, ThreadMoves DEF CollectOK
    <3>4. AnnotationsOK'
      BY <1>0, <2>1 DEF AnnotationsOK
    <3> QED BY <1>0, <3>1, <3>3, <3>4 DEF PublishInv
  <2>4. (Goes(p, "error") /\ UNCHANGED batch)
        \/ \E i \in DOMAIN posts : posts[i].part = p /\ Accepted(i) /\ Record(p, i) /\ Goes(p, "done")
    BY <1>0, <1>6 DEF Reconcile, Reply, collect, Matches, RecordsOK
  <2> QED BY <2>2, <2>3, <2>4
<1>7. ASSUME NEW p \in DOMAIN thread, Post(p)
      PROVE  PublishInv'
  <2> DEFINE row == [part |-> p, status |-> "sent", output |-> <<>>]
  <2>1. UNCHANGED <<source, batch, annotations, parts, action>> /\ posts' = Append(posts, row) /\ Goes(p, "posted")
        /\ thread[p] \notin {"done", "error"}
    BY <1>7 DEF Post, batchFiles, At
  <2>2. row \in PostRow
    BY <1>0 DEF SendInv, PostRow, PostStatus, Outputs, ThreadsOK, PartsOK
  <2> HIDE DEF row
  <2>3. DOMAIN posts \subseteq DOMAIN posts' /\ \A i \in DOMAIN posts : posts'[i] = posts[i]
    BY <1>0, <2>1, <2>2, AppendedPost DEF SendInv, PostsOK
  <2>4. \A i \in DOMAIN posts : Accepted(i)' = Accepted(i)
    BY <2>3 DEF Accepted
  <2>5. RecordsOK' /\ AnnotationsOK'
    BY <1>0, <2>1, <2>3, <2>4 DEF RecordsOK, AnnotationsOK
  <2>6. CollectOK'
    BY <1>0, <2>1, ThreadMoves DEF CollectOK
  <2> QED BY <1>0, <2>5, <2>6 DEF PublishInv
<1>8. CASE summarize
  <2>1. CollectOK'
    BY <1>0, <1>8 DEF summarize, Ended, AllTerminal, CollectOK
  <2> QED BY <1>0, <1>1, <1>8, <2>1 DEF PublishInv, summarize
<1>9. CASE Annotate
  <2>1. UNCHANGED <<source, posts, batch>> /\ annotations' = parse_outputs /\ action' = "none" /\ action = "annotating"
    BY <1>9 DEF Annotate
  <2>2. AnnotationsOK'
    BY <1>0, <2>1, OutputsAreAnswers DEF AnnotationsOK
  <2>3. RecordsOK'
    BY <1>0, <2>1 DEF RecordsOK, Accepted
  <2> QED BY <1>0, <2>1, <2>2, <2>3 DEF PublishInv, CollectOK
<1>10. CASE Return \/ Die
  BY <1>0, <1>1, <1>10 DEF PublishInv, Return, Die, batchFiles, CollectOK
<1>11. ASSUME NEW i \in DOMAIN posts, Arrive(i) \/ Judge(i)
      PROVE  PublishInv'
  <2>1. ServiceStep(i)
    BY <1>0, <1>11, ArriveStep, JudgeStep DEF SendInv, PostsOK
  <2>2. UNCHANGED <<source, batch, annotations, parts, action, thread>>
    BY <1>11 DEF Arrive, Judge, batchFiles
  <2> QED BY <1>0, <2>1, <2>2, AcceptedStays DEF PublishInv, CollectOK
<1> QED BY <1>2, <1>3, <1>4, <1>5, <1>6, <1>7, <1>8, <1>9, <1>10, <1>11 DEF BatchNext

LEMMA PublishStart == BatchInit => PublishInv
BY SendStart DEF BatchInit, PublishInv, RecordsOK, CollectOK, AnnotationsOK, None

\* What a step publishes is the judgement of every question as the bank words it.
LEMMA PublishesJudgements ==
    ASSUME PublishInv, publish
    PROVE  published' = published \/
             (/\ published = None
              /\ DOMAIN published' = Question
              /\ \A q \in Question :
                   /\ published'[q].source = source[q]
                   /\ \E i \in DOMAIN posts :
                        q \in posts[i].part /\ Accepted(i) /\ published'[q].difficulty = posts[i].output[q])
<1>1. source = [q \in DOMAIN annotations |-> annotations[q].source] /\ published' = annotations
      /\ published \in {None, annotations}
  BY DEF publish, StillCurrent
<1>2. DOMAIN annotations = Question
  BY <1>1 DEF PublishInv, AnnotationsOK
<1>3. \A q \in Question : annotations[q].source = source[q]
  BY <1>1, <1>2
<1>4. \A q \in Question : \E i \in DOMAIN posts :
        q \in posts[i].part /\ Accepted(i) /\ annotations[q].difficulty = posts[i].output[q]
  BY <1>2 DEF PublishInv, AnnotationsOK, Accepted, Terminal
<1> QED BY <1>1, <1>2, <1>3, <1>4

\* What is published is complete, judged by the service, of the bank as it is, and final
\* (publish, question_difficulty_batch.py:330-345).
THEOREM PublishesOnlyJudgements == BatchSpec => PublishedAsJudged
<1>1. ASSUME PublishInv, [BatchNext]_batchVars, published' # published
      PROVE  publish
  BY <1>1 DEF BatchNext, batchVars, batchFiles, Prepare, split_pending, operate_parts, Take, Reconcile, Upload,
       Mark, Post, Reply, Fails, collect, summarize, Annotate, Return, Die, Revise, Arrive, Judge
<1>2. PublishInv /\ [BatchNext]_batchVars =>
        (published' # published =>
          /\ published = None
          /\ DOMAIN published' = Question
          /\ \A q \in Question :
               /\ published'[q].source = source[q]
               /\ \E i \in DOMAIN posts :
                    q \in posts[i].part /\ Accepted(i) /\ published'[q].difficulty = posts[i].output[q])
  BY <1>1, PublishesJudgements
<1> QED BY <1>2, PublishStart, PublishStep, PTL DEF BatchSpec, PublishedAsJudged

(***************************************************************************)
(* The topic normalizer: what is shipped is clean, for any responses and   *)
(* any sequence of corrections.                                            *)
(***************************************************************************)

\* What is known of a page while it is corrected.  A defect a correction may repair is a
\* defect of the page as long as its problem is on the list; the others stay on the list.
Drafted ==
    /\ DOMAIN page.text = Block /\ DOMAIN page.urls = Block
    /\ evidence = page.refs
    /\ \A b \in Block :
          /\ page.urls[b] \subseteq page.refs
          /\ page.urls[b] = {} => Unsupported(b) \in blocked \/ "missing text or citations" \in blocked
          /\ page.text[b] = "" => "missing text or citations" \in blocked
    /\ page.text["o1"] \notin Fits =>
          "overview length" \in blocked \/ "missing text or citations" \in blocked
    /\ ~response.sound => "other" \in blocked
    /\ (\E i \in DOMAIN response.refs : ~response.refs[i].complete) => "reference incomplete" \in blocked
    /\ Len(response.refs) # Cardinality(ListedUrls) => "duplicate reference" \in blocked

NormalizeInv == (phase = "correcting" => Drafted) /\ ShippedIsClean

\* A response is read into a page whose defects are all listed.
LEMMA ReadIsDrafted ==
    ASSUME normalize_record
    PROVE  Drafted'
<1>1. \A b \in Block : Citations(b) \subseteq ListedUrls
    BY DEF Citations, Meant, canonical_url
<1>2. /\ page'.refs = ListedUrls /\ evidence' = ListedUrls /\ response' = response
      /\ DOMAIN page'.text = Block /\ DOMAIN page'.urls = Block
      /\ \A b \in Block : /\ page'.text[b] = IF Unreadable(b) THEN "" ELSE response.text[b]
                          /\ page'.urls[b] = IF Unreadable(b) THEN {} ELSE Citations(b)
    BY DEF normalize_record
<1>3. /\ \A b \in Block : _block(b) \subseteq blocked'
      /\ response.text["o1"] \notin Fits => "overview length" \in blocked'
      /\ ~(\A i \in DOMAIN response.refs : response.refs[i].complete) => "reference incomplete" \in blocked'
      /\ Len(response.refs) # Cardinality(ListedUrls) => "duplicate reference" \in blocked'
      /\ ~response.sound => "other" \in blocked'
    BY DEF normalize_record
<1>4. \A b \in Block :
        /\ Unreadable(b) => "missing text or citations" \in blocked'
        /\ ~Unreadable(b) => response.text[b] # ""
        /\ ~Unreadable(b) /\ Citations(b) = {} => Unsupported(b) \in blocked'
    BY <1>3 DEF _block, Unreadable
<1>5. \A b \in Block : (Unsupported(b))' = Unsupported(b)
    BY DEF Unsupported
<1>6. ListedUrls' = ListedUrls
    BY <1>2 DEF ListedUrls
<1>7. /\ \A b \in Block :
            /\ page'.urls[b] \subseteq page'.refs
            /\ page'.urls[b] = {} => Unsupported(b) \in blocked' \/ "missing text or citations" \in blocked'
            /\ page'.text[b] = "" => "missing text or citations" \in blocked'
      /\ page'.text["o1"] \notin Fits =>
            "overview length" \in blocked' \/ "missing text or citations" \in blocked'
    BY <1>1, <1>2, <1>3, <1>4 DEF Block
<1>8. QED BY <1>2, <1>3, <1>5, <1>6, <1>7 DEF Drafted

\* A correction, taken or refused, leaves it so.
LEMMA CorrectionsKeepDrafted ==
    ASSUME Drafted, _apply_corrections
    PROVE  Drafted'
<1>1. PICK p \in Patch : IF Refused(p) THEN Blocks("correction") ELSE Patched(p)
    BY DEF _apply_corrections
<1>2. response' = response /\ ListedUrls' = ListedUrls
    BY DEF _apply_corrections, ListedUrls
<1>3. CASE Refused(p)
    BY <1>1, <1>2, <1>3 DEF Blocks, Drafted, Unsupported
<1>4. CASE ~Refused(p)
    <2> DEFINE refs == page.refs \union Added(p)
               urls == [page.urls EXCEPT ![p.block] = NewUrls(p)]
               dropped == {u \in p.removals : u \in refs \intersect (evidence \union Added(p)) /\ ~StillCited(u, urls)}
    <2>1. /\ page'.refs = refs \ dropped /\ page'.urls = urls
          /\ page'.text = [page.text EXCEPT ![p.block] = p.new_text]
          /\ evidence' = (evidence \union Added(p)) \ dropped
          /\ blocked \subseteq blocked'
        BY <1>1, <1>4 DEF Patched
    <2>2. /\ p.new_text # "" /\ NewUrls(p) # {} /\ NewUrls(p) \subseteq refs
          /\ p.block = "o1" => p.new_text \in Fits
        BY <1>4 DEF Refused
    <2>3. DOMAIN page'.text = Block /\ DOMAIN page'.urls = Block /\ evidence' = page'.refs
        BY <2>1 DEF Drafted
    <2>4. \A b \in Block :
            /\ urls[b] = IF b = p.block THEN NewUrls(p) ELSE page.urls[b]
            /\ page'.text[b] = IF b = p.block THEN p.new_text ELSE page.text[b]
        BY <2>1 DEF Drafted
    <2>5. \A b \in Block : urls[b] \subseteq refs
        BY <2>2, <2>4 DEF Drafted
    <2>6. \A b \in Block : urls[b] \intersect dropped = {}
        BY DEF StillCited
    <2> HIDE DEF refs, urls, dropped
    <2>7. \A b \in Block : page'.urls[b] \subseteq page'.refs
        BY <2>1, <2>5, <2>6
    <2>8. \A b \in Block :
            /\ page'.urls[b] = {} => Unsupported(b) \in blocked' \/ "missing text or citations" \in blocked'
            /\ page'.text[b] = "" => "missing text or citations" \in blocked'
        BY <2>1, <2>2, <2>4 DEF Drafted
    <2>9. page'.text["o1"] \notin Fits =>
            "overview length" \in blocked' \/ "missing text or citations" \in blocked'
        BY <2>1, <2>2, <2>4 DEF Drafted, Block
    <2>10. \A b \in Block : (Unsupported(b))' = Unsupported(b)
        BY DEF Unsupported
    <2>11. /\ ~response.sound => "other" \in blocked'
           /\ (\E i \in DOMAIN response.refs : ~response.refs[i].complete) => "reference incomplete" \in blocked'
           /\ Len(response.refs) # Cardinality(ListedUrls) => "duplicate reference" \in blocked'
        BY <2>1 DEF Drafted
    <2>12. QED BY <1>2, <2>3, <2>7, <2>8, <2>9, <2>10, <2>11 DEF Drafted
<1>5. QED BY <1>3, <1>4

\* With no problem left the page is clean: only citation problems are ever cleared, and only
\* when every block of the page cites what it lists.
LEMMA NothingLeftIsClean ==
    ASSUME Drafted, Cleared = {}
    PROVE  /\ validate_payload /\ page.text["o1"] \in Fits /\ response.sound
           /\ \A i \in DOMAIN response.refs : response.refs[i].complete
           /\ Cardinality(ListedUrls) = Len(response.refs)
<1>1. blocked \subseteq CitationProblems
    BY DEF Cleared
<1>2. \A x \in {"missing text or citations", "overview length", "other", "reference incomplete",
                "duplicate reference"} : x \notin CitationProblems
    BY DEF CitationProblems
<1>3. /\ \A b \in Block : page.text[b] # "" /\ page.urls[b] \subseteq page.refs
      /\ page.text["o1"] \in Fits /\ response.sound /\ evidence = page.refs
      /\ \A i \in DOMAIN response.refs : response.refs[i].complete
      /\ Cardinality(ListedUrls) = Len(response.refs)
    BY <1>1, <1>2 DEF Drafted
<1>4. \A b \in Block : page.urls[b] # {}
    <2>1. CASE applied > 0 /\ AllListed
        BY <1>3, <2>1 DEF AllListed
    <2>2. CASE ~(applied > 0 /\ AllListed)
        BY <2>2 DEF Cleared, Drafted
    <2>3. QED BY <2>1, <2>2
<1>5. page.refs # {}
    BY <1>3, <1>4 DEF Block
<1>6. QED BY <1>3, <1>4, <1>5, NormalizeAssumption DEF validate_payload

\* A topic is shipped only with a page that the import accepts and whose references are
\* complete and listed once, whatever was saved and however it was corrected.
THEOREM CleanIsShipped == NormalizeSpec => []ShippedIsClean
<1>1. NormalizeInit => NormalizeInv
    BY DEF NormalizeInit, NormalizeInv, ShippedIsClean
<1>2. NormalizeInv /\ [NormalizeNext]_normalizeVars => NormalizeInv'
    <2> SUFFICES ASSUME NormalizeInv, [NormalizeNext]_normalizeVars
                 PROVE  NormalizeInv'
        OBVIOUS
    <2>1. CASE normalize_record
        <3>1. phase' = "correcting"
            BY <2>1 DEF normalize_record
        <3>2. QED BY <2>1, <3>1, ReadIsDrafted DEF NormalizeInv, ShippedIsClean
    <2>2. CASE _apply_corrections
        <3>1. phase = "correcting" /\ phase' = "correcting"
            BY <2>2 DEF _apply_corrections
        <3>2. QED BY <2>2, <3>1, CorrectionsKeepDrafted DEF NormalizeInv, ShippedIsClean
    <2>3. CASE normalize
        <3>1. /\ Drafted /\ phase' # "correcting"
              /\ UNCHANGED <<response, page, evidence, applied>>
            BY <2>3 DEF normalize, NormalizeInv
        <3>2. CASE phase' = "shipped"
            <4>1. Cleared = {}
                BY <2>3, <3>2 DEF normalize
            <4>2. /\ validate_payload /\ page.text["o1"] \in Fits /\ response.sound
                  /\ \A i \in DOMAIN response.refs : response.refs[i].complete
                  /\ Cardinality(ListedUrls) = Len(response.refs)
                BY <3>1, <4>1, NothingLeftIsClean
            <4>3. validate_payload' /\ ListedUrls' = ListedUrls
                BY <3>1, <4>2 DEF validate_payload, ListedUrls
            <4>4. QED BY <3>1, <3>2, <4>2, <4>3 DEF NormalizeInv, ShippedIsClean
        <3>3. CASE phase' # "shipped"
            BY <3>1, <3>3 DEF NormalizeInv, ShippedIsClean
        <3>4. QED BY <3>2, <3>3
    <2>4. CASE UNCHANGED normalizeVars
        BY <2>4 DEF normalizeVars, NormalizeInv, Drafted, ShippedIsClean, validate_payload,
                    ListedUrls, Unsupported
    <2>5. QED BY <2>1, <2>2, <2>3, <2>4 DEF NormalizeNext
<1>3. NormalizeInv => ShippedIsClean
    BY DEF NormalizeInv
<1>4. QED BY <1>1, <1>2, <1>3, PTL DEF NormalizeSpec

(***************************************************************************)
(* The pilot of the typed questions: one request for each topic of its     *)
(* sample, within its budget, wherever an invocation dies.                 *)
(***************************************************************************)

Steps == {"asked", "kept", "recorded"}

PilotTypeOK ==
    /\ pilotRunning \in BOOLEAN /\ drafts \in [Sample -> Draft]
    /\ pilotAsked \in [Sample -> Nat] /\ pilotMarkers \subseteq Sample
    /\ toDraft \subseteq Sample /\ DOMAIN drafting \subseteq Sample
    /\ \A t \in DOMAIN drafting : drafting[t] \in Steps
    /\ ~pilotRunning => toDraft = {} /\ DOMAIN drafting = {}

\* What was asked is on record, or its marker is still there; a topic yet to be started was
\* not asked, and a thread past the answer has its record.
DraftsOnce ==
    /\ \A t \in Sample : pilotAsked[t] <= 1 /\ (pilotAsked[t] = 1 => drafts[t] # "none" \/ t \in pilotMarkers)
    /\ \A t \in toDraft : pilotAsked[t] = 0
    /\ \A t \in DOMAIN drafting : /\ drafting[t] # "asked" => drafts[t] # "none"
                                  /\ drafting[t] = "kept" => drafts[t] = "unread"

\* What is paid for, and what this invocation may still be charged for.
Committed == Paid \union toDraft \union {t \in DOMAIN drafting : drafting[t] = "asked"}

PilotInv == PilotTypeOK /\ DraftsOnce /\ Cardinality(Committed) <= PilotBudget

LEMMA SampleFinite == IsFiniteSet(Sample) /\ \A S \in SUBSET Sample : IsFiniteSet(S) /\ Cardinality(S) \in Nat
<1>1. IsFiniteSet(1..Topics)
    BY TypedPilotAssumption, FS_Interval
<1>2. IsFiniteSet(Sample)
    BY <1>1, TypedPilotAssumption, FS_Subset
<1>3. QED BY <1>2, FS_Subset, FS_CardinalityType

\* Committing to no more keeps within the budget.
LEMMA CommitsLess ==
    ASSUME PilotInv, Committed' \subseteq Committed
    PROVE  Cardinality(Committed') <= PilotBudget
<1>1. Committed \in SUBSET Sample
    BY DEF PilotInv, PilotTypeOK, Committed, Paid
<1>2. IsFiniteSet(Committed) /\ Cardinality(Committed) \in Nat /\ Cardinality(Committed') \in Nat
    BY <1>1, SampleFinite
<1>3. Cardinality(Committed') <= Cardinality(Committed)
    BY <1>2, FS_Subset
<1>4. QED BY <1>2, <1>3, TypedPilotAssumption DEF PilotInv

LEMMA DraftingMoves ==
    ASSUME NEW t \in DOMAIN drafting, NEW step, drafting' = [drafting EXCEPT ![t] = step]
    PROVE  /\ DOMAIN drafting' = DOMAIN drafting /\ drafting'[t] = step
           /\ \A u \in DOMAIN drafting \ {t} : drafting'[u] = drafting[u]
OBVIOUS

LEMMA PilotStep == PilotInv /\ [PilotNext]_pilotVars => PilotInv'
<1> SUFFICES ASSUME PilotInv, [PilotNext]_pilotVars PROVE PilotInv'
    OBVIOUS
<1>0. PilotTypeOK /\ DraftsOnce
    BY DEF PilotInv
<1>1. CASE UNCHANGED pilotVars
    BY <1>1 DEF pilotVars, pilotFiles, PilotInv, PilotTypeOK, DraftsOnce, Committed, Paid
<1>2. CASE run_pilot
    <2> DEFINE left(last) == {t \in Sample : drafts[t] = "none" /\ t <= last}
    <2>1. PICK last \in Sample :
            /\ ~pilotRunning /\ pilotMarkers = {}
            /\ Cardinality(Paid) + Cardinality(left(last)) <= PilotBudget
            /\ pilotRunning' = TRUE /\ toDraft' = left(last)
            /\ UNCHANGED <<drafts, pilotMarkers, pilotAsked, drafting>>
        BY <1>2 DEF run_pilot, pilotFiles
    <2> DEFINE S == left(last)
    <2>2. S \subseteq Sample /\ \A t \in S : drafts[t] = "none"
        OBVIOUS
    <2>3. toDraft' = S /\ Cardinality(Paid) + Cardinality(S) <= PilotBudget
        BY <2>1
    <2> HIDE DEF S, left
    <2>4. PilotTypeOK'
        BY <1>0, <2>1, <2>2, <2>3 DEF PilotTypeOK
    <2>5. DraftsOnce'
        <3>1. \A t \in S : pilotAsked[t] = 0
            BY <1>0, <2>1, <2>2 DEF PilotTypeOK, DraftsOnce
        <3>2. QED BY <1>0, <2>1, <2>3, <3>1 DEF DraftsOnce
    <2>6. Committed' = Paid \union S
        BY <1>0, <2>1, <2>3 DEF PilotTypeOK, Committed, Paid
    <2>7. Cardinality(Paid \union S) <= PilotBudget
        <3>1. Paid \in SUBSET Sample
            BY DEF Paid
        <3>2. IsFiniteSet(Paid) /\ IsFiniteSet(S) /\ Paid \intersect S \in SUBSET Sample
            BY <2>2, <3>1, SampleFinite
        <3>3. Cardinality(Paid \union S) = Cardinality(Paid) + Cardinality(S) - Cardinality(Paid \intersect S)
            BY <3>2, FS_Union
        <3>4. Cardinality(Paid) \in Nat /\ Cardinality(S) \in Nat /\ Cardinality(Paid \intersect S) \in Nat
            BY <2>2, <3>1, <3>2, SampleFinite
        <3>5. QED BY <2>3, <3>3, <3>4, TypedPilotAssumption
    <2>8. QED BY <2>4, <2>5, <2>6, <2>7 DEF PilotInv
<1>3. CASE ask_pilot
    <2> DEFINE t == Min(toDraft)
    <2>1. /\ toDraft # {} /\ toDraft' = toDraft \ {t} /\ pilotMarkers' = pilotMarkers \union {t}
          /\ pilotAsked' = [pilotAsked EXCEPT ![t] = @ + 1]
          /\ drafting' = [u \in DOMAIN drafting \union {t} |-> IF u = t THEN "asked" ELSE drafting[u]]
          /\ UNCHANGED <<pilotRunning, drafts>>
        BY <1>3 DEF ask_pilot
    <2>2. t \in toDraft /\ t \in Sample
        <3>1. toDraft \subseteq Nat /\ toDraft \subseteq Sample
            BY <1>0, TypedPilotAssumption DEF PilotTypeOK
        <3>2. QED BY <2>1, <3>1, LeastPosition
    <2> HIDE DEF t
    <2>3. /\ pilotAsked' \in [Sample -> Nat] /\ pilotAsked'[t] = 1
          /\ \A u \in Sample \ {t} : pilotAsked'[u] = pilotAsked[u]
        BY <1>0, <2>1, <2>2 DEF PilotTypeOK, DraftsOnce
    <2>4. /\ DOMAIN drafting' = DOMAIN drafting \union {t} /\ drafting'[t] = "asked"
          /\ \A u \in DOMAIN drafting \ {t} : drafting'[u] = drafting[u]
        BY <2>1
    <2>5. PilotTypeOK'
        BY <1>0, <2>1, <2>2, <2>3, <2>4 DEF PilotTypeOK, Steps
    <2>6. DraftsOnce'
        BY <1>0, <2>1, <2>2, <2>3, <2>4 DEF PilotTypeOK, DraftsOnce
    <2>7. Committed' \subseteq Committed
        BY <2>1, <2>2, <2>4 DEF Committed, Paid
    <2>8. QED BY <2>5, <2>6, <2>7, CommitsLess DEF PilotInv
<1>4. ASSUME NEW t \in DOMAIN drafting, PilotAnswered(t) \/ validate_draft(t)
      PROVE  PilotInv'
    <2>1. PICK r \in Draft, step \in Steps :
            /\ drafting[t] \in {"asked", "kept"} /\ r # "none" /\ step # "asked"
            /\ step = "kept" => r = "unread"
            /\ drafts' = [drafts EXCEPT ![t] = r] /\ drafting' = [drafting EXCEPT ![t] = step]
            /\ UNCHANGED <<pilotRunning, pilotMarkers, pilotAsked, toDraft>>
        <3>1. CASE PilotAnswered(t)
            <4>1. PICK r \in {"unread", "refused", "unknown"} :
                    /\ drafts' = [drafts EXCEPT ![t] = r]
                    /\ drafting' = [drafting EXCEPT ![t] = IF r = "unread" THEN "kept" ELSE "recorded"]
                BY <3>1 DEF PilotAnswered
            <4>2. (IF r = "unread" THEN "kept" ELSE "recorded") \in Steps \ {"asked"}
                BY DEF Steps
            <4>3. QED BY <3>1, <4>1, <4>2 DEF PilotAnswered, Draft, PaidDraft
        <3>2. CASE validate_draft(t)
            BY <3>2 DEF validate_draft, Steps, Draft, PaidDraft, ValidDraft
        <3>3. QED BY <1>4, <3>1, <3>2
    <2>2. t \in Sample
        BY <1>0 DEF PilotTypeOK
    <2>3. /\ drafts' \in [Sample -> Draft] /\ drafts'[t] = r
          /\ \A u \in Sample \ {t} : drafts'[u] = drafts[u]
        BY <1>0, <2>1, <2>2 DEF PilotTypeOK
    <2>4. /\ DOMAIN drafting' = DOMAIN drafting /\ drafting'[t] = step
          /\ \A u \in DOMAIN drafting \ {t} : drafting'[u] = drafting[u]
        BY <2>1, DraftingMoves
    <2>5. PilotTypeOK'
        BY <1>0, <2>1, <2>3, <2>4 DEF PilotTypeOK
    <2>6. DraftsOnce'
        <3>1. \A u \in Sample : pilotAsked[u] <= 1 /\ (pilotAsked[u] = 1 => drafts'[u] # "none" \/ u \in pilotMarkers)
            BY <1>0, <2>1, <2>2, <2>3 DEF DraftsOnce
        <3>2. \A u \in DOMAIN drafting' : /\ drafting'[u] # "asked" => drafts'[u] # "none"
                                          /\ drafting'[u] = "kept" => drafts'[u] = "unread"
            <4> SUFFICES ASSUME NEW u \in DOMAIN drafting
                         PROVE  /\ drafting'[u] # "asked" => drafts'[u] # "none"
                                /\ drafting'[u] = "kept" => drafts'[u] = "unread"
                BY <2>4
            <4>1. CASE u = t
                BY <2>1, <2>3, <2>4, <4>1
            <4>2. CASE u # t
                <5>1. u \in Sample /\ drafts'[u] = drafts[u] /\ drafting'[u] = drafting[u]
                    BY <1>0, <2>3, <2>4, <4>2 DEF PilotTypeOK
                <5>2. QED BY <1>0, <5>1 DEF DraftsOnce
            <4>3. QED BY <4>1, <4>2
        <3>3. QED BY <1>0, <2>1, <3>1, <3>2 DEF DraftsOnce
    <2>7. Committed' \subseteq Committed
        <3>1. t \in Committed
            <4>1. CASE drafting[t] = "asked"
                BY <4>1 DEF Committed
            <4>2. CASE drafting[t] = "kept"
                <5>1. drafts[t] = "unread"
                    BY <1>0, <1>4, <4>2 DEF DraftsOnce
                <5>2. QED BY <2>2, <5>1 DEF Committed, Paid, PaidDraft
            <4>3. QED BY <2>1, <4>1, <4>2
        <3>2. QED BY <2>1, <2>3, <2>4, <3>1 DEF Committed, Paid
    <2>8. QED BY <2>5, <2>6, <2>7, CommitsLess DEF PilotInv
<1>5. ASSUME NEW t \in DOMAIN drafting, PilotUnmark(t)
      PROVE  PilotInv'
    <2>1. /\ drafting[t] = "recorded" /\ pilotMarkers' = pilotMarkers \ {t}
          /\ drafting' = [u \in DOMAIN drafting \ {t} |-> drafting[u]]
          /\ UNCHANGED <<pilotRunning, drafts, pilotAsked, toDraft>>
        BY <1>5 DEF PilotUnmark
    <2>2. DOMAIN drafting' = DOMAIN drafting \ {t} /\ \A u \in DOMAIN drafting' : drafting'[u] = drafting[u]
        BY <2>1
    <2>3. PilotTypeOK' /\ DraftsOnce'
        <3>1. PilotTypeOK'
            BY <1>0, <2>1, <2>2 DEF PilotTypeOK
        <3>2. drafts[t] # "none"
            BY <1>0, <1>5, <2>1 DEF DraftsOnce
        <3>3. \A u \in Sample : pilotAsked[u] = 1 => drafts[u] # "none" \/ u \in pilotMarkers'
            BY <1>0, <2>1, <3>2 DEF DraftsOnce
        <3>4. \A u \in DOMAIN drafting' : /\ drafting'[u] # "asked" => drafts[u] # "none"
                                          /\ drafting'[u] = "kept" => drafts[u] = "unread"
            BY <1>0, <2>2 DEF DraftsOnce
        <3>5. QED BY <1>0, <2>1, <3>1, <3>3, <3>4 DEF DraftsOnce
    <2>4. Committed' \subseteq Committed
        BY <2>1, <2>2 DEF Committed, Paid
    <2>5. QED BY <2>3, <2>4, CommitsLess DEF PilotInv
<1>6. CASE PilotFinish \/ PilotCrash
    <2>1. /\ pilotRunning' = FALSE /\ toDraft' = {} /\ DOMAIN drafting' = {}
          /\ UNCHANGED <<drafts, pilotMarkers, pilotAsked>>
        BY <1>6 DEF PilotFinish, PilotCrash, PilotStops, pilotFiles
    <2>2. PilotTypeOK' /\ DraftsOnce' /\ Committed' \subseteq Committed
        BY <1>0, <2>1 DEF PilotTypeOK, DraftsOnce, Committed, Paid
    <2>3. QED BY <2>2, CommitsLess DEF PilotInv
<1>7. ASSUME NEW t \in Sample, InspectPilot(t)
      PROVE  PilotInv'
    <2>1. PilotTypeOK' /\ DraftsOnce' /\ Committed' \subseteq Committed
        BY <1>0, <1>7 DEF InspectPilot, PilotTypeOK, DraftsOnce, Committed, Paid
    <2>2. QED BY <2>1, CommitsLess DEF PilotInv
<1>8. QED BY <1>1, <1>2, <1>3, <1>4, <1>5, <1>6, <1>7 DEF PilotNext

LEMMA PilotStart == PilotInit => PilotInv
<1> SUFFICES ASSUME PilotInit PROVE PilotInv
    OBVIOUS
<1>1. drafts = [t \in Sample |-> "none"] /\ toDraft = {} /\ DOMAIN drafting = {}
    BY DEF PilotInit
<1>2. PilotTypeOK /\ DraftsOnce
    <2>1. "none" \in Draft
        BY DEF Draft
    <2>2. drafts \in [Sample -> Draft] /\ pilotAsked \in [Sample -> Nat] /\ \A t \in Sample : pilotAsked[t] = 0
        BY <1>1, <2>1 DEF PilotInit
    <2>3. pilotRunning = FALSE /\ pilotMarkers = {}
        BY DEF PilotInit
    <2>4. PilotTypeOK
        BY <1>1, <2>2, <2>3 DEF PilotTypeOK
    <2>5. DraftsOnce
        BY <1>1, <2>2 DEF DraftsOnce
    <2>6. QED BY <2>4, <2>5
<1>3. Committed = {}
    BY <1>1 DEF Committed, Paid, PaidDraft, ValidDraft
<1>4. Cardinality(Committed) = 0
    BY <1>3, FS_EmptySet
<1>5. QED BY <1>2, <1>4, TypedPilotAssumption DEF PilotInv

LEMMA PilotKeepsToIt ==
    ASSUME PilotInv
    PROVE  PilotAskedOnce /\ PilotWithinBudget
<1>1. Paid \subseteq Committed /\ Committed \in SUBSET Sample
    BY DEF PilotInv, PilotTypeOK, Committed, Paid
<1>2. /\ IsFiniteSet(Committed) /\ Cardinality(Paid) \in Nat /\ Cardinality(Committed) \in Nat
      /\ Cardinality(Committed) <= PilotBudget
    BY <1>1, SampleFinite DEF PilotInv
<1>3. Cardinality(Paid) <= Cardinality(Committed)
    BY <1>1, <1>2, FS_Subset
<1>4. QED BY <1>2, <1>3, TypedPilotAssumption DEF PilotInv, DraftsOnce, PilotAskedOnce, PilotWithinBudget

(***************************************************************************)
(* The full run: no request is sent twice, for any topics, threads,        *)
(* attempts and budgets, and wherever an invocation dies.                  *)
(***************************************************************************)

Verdicts == Answer \union {"transient", "denied"}
Table == [Stage -> [Topic -> Seq(Verdicts)]]
Place == [stage : Stage, attempt : Nat \ {0},
          step : Steps \union {"look", "finishing", "done"}]

TypedTypeOK ==
    /\ mode \in {"off", "init", "full"} /\ initialized \in BOOLEAN
    /\ records \in Table
    /\ DOMAIN inflight \subseteq Stage \X Topic
    /\ DOMAIN asked \subseteq Stage \X Topic \X (Nat \ {0})
    /\ queue \subseteq Topic /\ DOMAIN active \subseteq Topic /\ queue \intersect DOMAIN active = {}
    /\ \A t \in DOMAIN active : active[t] \in Place

\* Attempt a at a stage of a topic is called for: those before it failed for the moment, and
\* only a flagged generation is corrected.
CalledFor(table, s, t, a) ==
    /\ \A i \in 1..a - 1 : i \in DOMAIN table[s][t] /\ table[s][t][i] = "transient"
    /\ s = "correction" => \E i \in DOMAIN table["generation"][t] : table["generation"][t][i] = "flagged"

\* What is asked was called for, and its answer is on file or its marker still is.
OnFile(calls, table, marks) ==
    \A c \in DOMAIN calls :
        /\ calls[c] = 1
        /\ CalledFor(table, c[1], c[2], c[3])
        /\ \/ c[3] \in DOMAIN table[c[1]][c[2]]
           \/ <<c[1], c[2]>> \in DOMAIN marks /\ marks[<<c[1], c[2]>>] = c[3]

\* Where a thread stands with a topic.
StandsAt(table, t, p) ==
    /\ CalledFor(table, p.stage, t, p.attempt)
    /\ p.step = "asked" => Len(table[p.stage][t]) = p.attempt - 1
    /\ p.step = "kept" =>
          p.attempt \in DOMAIN table[p.stage][t] /\ table[p.stage][t][p.attempt] = "unread"
    /\ p.step = "recorded" => p.attempt \in DOMAIN table[p.stage][t]

\* While an invocation runs, the markers are those of its own requests.
OwnMarks(marks, places) ==
    \A m \in DOMAIN marks :
        /\ m[2] \in DOMAIN places
        /\ places[m[2]].stage = m[1] /\ places[m[2]].attempt = marks[m]
        /\ places[m[2]].step \in Steps

\* Until the full run has its manifest it has asked nothing, and has no answer but the copied ones.
Unstarted ==
    /\ DOMAIN asked = {} /\ DOMAIN inflight = {}
    /\ \A t \in Topic : /\ records["correction"][t] = <<>>
                        /\ t \notin reused => records["generation"][t] = <<>>

\* What was copied from the pilot stays as it is, and is never asked for.
Copied(table, copies) == \A t \in copies : t \in Topic /\ table["generation"][t] \in {<<"clean">>, <<"flagged">>}
NotAsked(calls, copies) == \A c \in DOMAIN calls : c[1] = "generation" => c[2] \notin copies

TypedInv ==
    /\ TypedTypeOK
    /\ OnFile(asked, records, inflight)
    /\ \A t \in DOMAIN active : StandsAt(records, t, active[t])
    /\ IF mode = "full" THEN OwnMarks(inflight, active) ELSE DOMAIN active = {}
    /\ mode = "full" => initialized
    /\ mode = "init" => ~initialized
    /\ ~initialized => Unstarted
    /\ Copied(records, reused) /\ NotAsked(asked, reused)

\* New answers are kept behind the old ones, and a verdict stays.
Grows(old, new) ==
    \A s \in Stage, t \in Topic : \A i \in DOMAIN old[s][t] :
        i \in DOMAIN new[s][t] /\ (old[s][t][i] # "unread" => new[s][t][i] = old[s][t][i])

LEMMA StillCalledFor ==
    ASSUME NEW old, NEW new, Grows(old, new), NEW s \in Stage, NEW t \in Topic, NEW a,
           CalledFor(old, s, t, a)
    PROVE  CalledFor(new, s, t, a)
<1>1. "generation" \in Stage
    BY DEF Stage
<1>2. QED BY <1>1 DEF Grows, CalledFor

LEMMA StillOnFile ==
    ASSUME NEW old, NEW new, Grows(old, new), NEW calls, DOMAIN calls \subseteq Stage \X Topic \X (Nat \ {0}),
           NEW marks, OnFile(calls, old, marks)
    PROVE  OnFile(calls, new, marks)
<1> SUFFICES ASSUME NEW c \in DOMAIN calls
             PROVE  /\ calls[c] = 1 /\ CalledFor(new, c[1], c[2], c[3])
                    /\ \/ c[3] \in DOMAIN new[c[1]][c[2]]
                       \/ <<c[1], c[2]>> \in DOMAIN marks /\ marks[<<c[1], c[2]>>] = c[3]
    BY DEF OnFile
<1>1. c[1] \in Stage /\ c[2] \in Topic
    OBVIOUS
<1>2. CalledFor(new, c[1], c[2], c[3])
    BY <1>1, StillCalledFor DEF OnFile
<1>3. QED BY <1>1, <1>2 DEF OnFile, Grows

\* What follows from a record is called for.
LEMMA AfterIsCalledFor ==
    ASSUME NEW table \in Table, NEW s \in Stage, NEW t \in Topic, NEW a \in Nat \ {0},
           CalledFor(table, s, t, a), a \in DOMAIN table[s][t]
    PROVE  LET p == After(s, a, table[s][t][a]) IN
           /\ p \in Place /\ StandsAt(table, t, p)
           /\ p.step \in {"look", "finishing"}
<1> DEFINE r == table[s][t][a]
           p == After(s, a, r)
<1>2. CASE r = "transient" /\ a < Attempts
    <2>1. p = Step(s, a + 1, "look")
        BY <1>2 DEF After
    <2>2. CalledFor(table, s, t, a + 1)
        <3>1. \A i \in 1..(a + 1) - 1 : i \in 1..a - 1 \/ i = a
            OBVIOUS
        <3>2. QED BY <1>2, <3>1 DEF CalledFor
    <2>3. QED BY <1>2, <2>1, <2>2 DEF Step, Place, StandsAt
<1>3. CASE s = "generation" /\ r = "flagged"
    <2>1. p = Step("correction", 1, "look")
        BY <1>3 DEF After
    <2>2. CalledFor(table, "correction", t, 1)
        BY <1>3 DEF CalledFor
    <2>3. QED BY <1>3, <2>1, <2>2 DEF Step, Place, StandsAt, Stage
<1>4. CASE ~(r = "transient" /\ a < Attempts) /\ ~(s = "generation" /\ r = "flagged")
    <2>1. p = Step(s, a, "finishing")
        BY <1>4 DEF After
    <2>2. QED BY <1>4, <2>1 DEF Step, Place, StandsAt
<1>5. QED BY <1>2, <1>3, <1>4

\* A thread moves on with its topic and writes no other's files.
LEMMA TopicMoves ==
    ASSUME TypedInv, mode = "full", NEW t \in DOMAIN active, NEW p \in Place,
           active' = [active EXCEPT ![t] = p], UNCHANGED <<mode, initialized, queue, reused>>,
           records' \in Table,
           \A s \in Stage, u \in Topic \ {t} : records'[s][u] = records[s][u],
           StandsAt(records', t, p),
           DOMAIN inflight' \subseteq Stage \X Topic,
           DOMAIN asked' \subseteq Stage \X Topic \X (Nat \ {0}),
           OnFile(asked', records', inflight'), OwnMarks(inflight', active'),
           Copied(records', reused), NotAsked(asked', reused)
    PROVE  TypedInv'
<1>1. /\ DOMAIN active' = DOMAIN active /\ active'[t] = p
      /\ \A u \in DOMAIN active \ {t} : active'[u] = active[u]
    OBVIOUS
<1>2. TypedTypeOK'
    BY <1>1 DEF TypedInv, TypedTypeOK
<1>3. \A u \in DOMAIN active' : StandsAt(records', u, active'[u])
    <2> SUFFICES ASSUME NEW u \in DOMAIN active, u # t
                 PROVE  StandsAt(records', u, active[u])
        BY <1>1
    <2>1. u \in Topic /\ active[u] \in Place /\ StandsAt(records, u, active[u])
        BY DEF TypedInv, TypedTypeOK
    <2>2. \A s \in Stage : records'[s][u] = records[s][u]
        BY <2>1
    <2>3. active[u].stage \in Stage /\ "generation" \in Stage
        BY <2>1 DEF Place, Stage
    <2>4. QED BY <2>1, <2>2, <2>3 DEF StandsAt, CalledFor
<1>4. QED BY <1>2, <1>3 DEF TypedInv

\* What is known of the topic a thread works on.
LEMMA ThreadKnows ==
    ASSUME TypedInv, NEW t \in DOMAIN active
    PROVE  /\ mode = "full" /\ t \in Topic /\ Here(t) \in Stage /\ Try(t) \in Nat \ {0}
           /\ active[t] \in Place /\ active[t] = Step(Here(t), Try(t), active[t].step)
           /\ StandsAt(records, t, active[t])
           /\ records \in Table /\ records[Here(t)][t] \in Seq(Verdicts)
           /\ OnFile(asked, records, inflight) /\ OwnMarks(inflight, active)
           /\ DOMAIN inflight \subseteq Stage \X Topic
           /\ DOMAIN asked \subseteq Stage \X Topic \X (Nat \ {0})
           /\ Copied(records, reused) /\ NotAsked(asked, reused)
           /\ active[t].step \notin Steps => \A m \in DOMAIN inflight : m[2] # t
<1>1. mode = "full" /\ t \in Topic /\ active[t] \in Place
    BY DEF TypedInv, TypedTypeOK
<1>2. Here(t) \in Stage /\ Try(t) \in Nat \ {0} /\ active[t] = Step(Here(t), Try(t), active[t].step)
    BY <1>1 DEF Place, Here, Try, Step
<1>3. records \in Table /\ StandsAt(records, t, active[t])
    BY DEF TypedInv, TypedTypeOK
<1>4. records[Here(t)][t] \in Seq(Verdicts)
    BY <1>1, <1>2, <1>3 DEF Table
<1>5. OwnMarks(inflight, active)
    BY <1>1 DEF TypedInv
<1>6. QED BY <1>1, <1>2, <1>3, <1>4, <1>5 DEF TypedInv, TypedTypeOK, OwnMarks

\* The generation that was copied needs no request: a thread finds it on record.
LEMMA CopyIsFound ==
    ASSUME TypedInv, NEW t \in DOMAIN active, Here(t) = "generation",
           \/ active[t].step \in {"asked", "kept"}
           \/ active[t].step = "look" /\ Try(t) \notin DOMAIN records["generation"][t]
    PROVE  t \notin reused
<1> SUFFICES ASSUME t \in reused PROVE FALSE
    OBVIOUS
<1> DEFINE row == records["generation"][t]
           a == Try(t)
<1>1. row \in {<<"clean">>, <<"flagged">>}
    BY ThreadKnows DEF Copied
<1>2. Len(row) = 1 /\ DOMAIN row = {1} /\ row[1] \in {"clean", "flagged"}
    BY <1>1
<1>3. /\ a \in Nat \ {0} /\ \A i \in 1..a - 1 : i \in DOMAIN row /\ row[i] = "transient"
      /\ active[t].step = "asked" => Len(row) = a - 1
      /\ active[t].step = "kept" => a \in DOMAIN row /\ row[a] = "unread"
    BY ThreadKnows DEF StandsAt, CalledFor, Here, Try
<1> HIDE DEF row, a
<1>4. a = 1
    <2>1. a # 1 => 1 \in 1..a - 1
        BY <1>3
    <2>2. row[1] # "transient"
        BY <1>2
    <2>3. QED BY <1>3, <2>1, <2>2
<1>5. a \in DOMAIN row
    BY <1>2, <1>4
<1>6. QED BY <1>2, <1>3, <1>4, <1>5 DEF row, a

LEMMA ReplayStep ==
    ASSUME TypedInv, NEW t \in DOMAIN active, Replay(t)
    PROVE  TypedInv'
<1> DEFINE s == Here(t)
           a == Try(t)
           p == After(s, a, records[s][t][a])
<1>1. /\ active[t].step = "look" /\ a \in DOMAIN records[s][t] /\ active' = [active EXCEPT ![t] = p]
      /\ UNCHANGED <<mode, initialized, queue, records, inflight, asked, reused>>
    BY DEF Replay, Moves, typedFiles
<1>2. CalledFor(records, s, t, a)
    BY ThreadKnows DEF StandsAt, Here, Try
<1>3. p \in Place /\ StandsAt(records, t, p)
    BY <1>1, <1>2, ThreadKnows, AfterIsCalledFor
<1> HIDE DEF p
<1>4. OwnMarks(inflight, active')
    BY <1>1, ThreadKnows DEF OwnMarks, Steps
<1>5. QED BY <1>1, <1>3, <1>4, ThreadKnows, TopicMoves

LEMMA AskStep ==
    ASSUME TypedInv, NEW t \in DOMAIN active, Ask(t)
    PROVE  TypedInv'
<1> DEFINE s == Here(t)
           a == Try(t)
           call == <<s, t, a>>
           p == [active[t] EXCEPT !.step = "asked"]
<1>1. /\ active[t].step = "look" /\ a \notin DOMAIN records[s][t] /\ active' = [active EXCEPT ![t] = p]
      /\ inflight' = With(inflight, <<s, t>>, a)
      /\ asked' = With(asked, call, IF call \in DOMAIN asked THEN asked[call] + 1 ELSE 1)
      /\ UNCHANGED <<mode, initialized, queue, records, reused>>
    BY DEF Ask, Moves, Stays
<1>2. CalledFor(records, s, t, a)
    BY ThreadKnows DEF StandsAt, Here, Try
<1>3. \A m \in DOMAIN inflight : m[2] # t
    BY <1>1, ThreadKnows DEF Steps
<1>4. call \notin DOMAIN asked
    <2> SUFFICES ASSUME call \in DOMAIN asked PROVE FALSE
        OBVIOUS
    <2>1. a \in DOMAIN records[s][t] \/ <<s, t>> \in DOMAIN inflight
        BY ThreadKnows DEF OnFile
    <2>2. QED BY <1>1, <1>3, <2>1
<1>5. /\ DOMAIN asked' = DOMAIN asked \union {call} /\ asked'[call] = 1
      /\ \A c \in DOMAIN asked : asked'[c] = asked[c]
      /\ DOMAIN inflight' = DOMAIN inflight \union {<<s, t>>} /\ inflight'[<<s, t>>] = a
      /\ \A m \in DOMAIN inflight : inflight'[m] = inflight[m]
    <2>1. <<s, t>> \notin DOMAIN inflight
        BY <1>3
    <2>2. QED BY <1>1, <1>4, <2>1 DEF With
<1>6. p.stage = s /\ p.attempt = a /\ p.step = "asked" /\ p \in Place
    BY ThreadKnows DEF Here, Try, Place, Steps
<1>7. Len(records[s][t]) = a - 1
    <2>1. Len(records[s][t]) \in Nat /\ DOMAIN records[s][t] = 1..Len(records[s][t]) /\ a \in Nat \ {0}
        BY ThreadKnows
    <2>2. a - 1 \in DOMAIN records[s][t] \/ a = 1
        BY <1>2, <2>1 DEF CalledFor
    <2>3. QED BY <1>1, <2>1, <2>2
<1> HIDE DEF p
<1>8. StandsAt(records, t, p)
    BY <1>2, <1>6, <1>7 DEF StandsAt
<1>9. OnFile(asked', records, inflight')
    <2> SUFFICES ASSUME NEW c \in DOMAIN asked'
                 PROVE  /\ asked'[c] = 1 /\ CalledFor(records, c[1], c[2], c[3])
                        /\ \/ c[3] \in DOMAIN records[c[1]][c[2]]
                           \/ <<c[1], c[2]>> \in DOMAIN inflight' /\ inflight'[<<c[1], c[2]>>] = c[3]
        BY DEF OnFile
    <2>1. CASE c = call
        BY <1>2, <1>5, <2>1
    <2>2. CASE c \in DOMAIN asked
        BY <1>5, <2>2, ThreadKnows DEF OnFile
    <2>3. QED BY <1>5, <2>1, <2>2
<1>10. OwnMarks(inflight', active')
    <2> SUFFICES ASSUME NEW m \in DOMAIN inflight'
                 PROVE  /\ m[2] \in DOMAIN active'
                        /\ active'[m[2]].stage = m[1] /\ active'[m[2]].attempt = inflight'[m]
                        /\ active'[m[2]].step \in Steps
        BY DEF OwnMarks
    <2>1. CASE m = <<s, t>>
        BY <1>1, <1>5, <1>6, <2>1 DEF Steps
    <2>2. CASE m \in DOMAIN inflight
        BY <1>1, <1>3, <1>5, <2>2, ThreadKnows DEF OwnMarks
    <2>3. QED BY <1>5, <2>1, <2>2
<1>11. NotAsked(asked', reused)
    <2>1. s = "generation" => t \notin reused
        BY <1>1, CopyIsFound
    <2>2. QED BY <1>5, <2>1, ThreadKnows DEF NotAsked
<1>12. DOMAIN inflight' \subseteq Stage \X Topic /\ DOMAIN asked' \subseteq Stage \X Topic \X (Nat \ {0})
    BY <1>5, ThreadKnows
<1>13. QED BY <1>1, <1>6, <1>8, <1>9, <1>10, <1>11, <1>12, ThreadKnows, TopicMoves
\* An answer is filed, or looked at: the thread writes the file of its own request.
LEMMA ThreadWrites ==
    ASSUME TypedInv, NEW t \in DOMAIN active, active[t].step \in {"asked", "kept"},
           NEW row \in Seq(Verdicts), NEW step \in {"kept", "recorded"},
           records' = [records EXCEPT ![Here(t)][t] = row],
           \A i \in DOMAIN records[Here(t)][t] :
              i \in DOMAIN row /\ (records[Here(t)][t][i] # "unread" => row[i] = records[Here(t)][t][i]),
           Try(t) \in DOMAIN row, step = "kept" => row[Try(t)] = "unread",
           active' = [active EXCEPT ![t] = [active[t] EXCEPT !.step = step]],
           UNCHANGED <<mode, initialized, inflight, asked, queue, reused>>
    PROVE  TypedInv'
<1> DEFINE s == Here(t)
           a == Try(t)
           p == [active[t] EXCEPT !.step = step]
<1>1. /\ records' \in Table /\ records'[s][t] = row /\ Grows(records, records')
      /\ \A r \in Stage, u \in Topic : (r = s /\ u = t) \/ records'[r][u] = records[r][u]
    <2>1. records \in Table /\ s \in Stage /\ t \in Topic
        BY ThreadKnows
    <2>2. /\ records' \in Table /\ records'[s][t] = row
          /\ \A r \in Stage, u \in Topic : (r = s /\ u = t) \/ records'[r][u] = records[r][u]
        BY <2>1 DEF Table
    <2> HIDE DEF s
    <2>3. \A i \in DOMAIN records[s][t] :
             i \in DOMAIN records'[s][t]
             /\ (records[s][t][i] # "unread" => records'[s][t][i] = records[s][t][i])
        BY <2>2 DEF s
    <2>4. Grows(records, records')
        <3> SUFFICES ASSUME NEW r \in Stage, NEW u \in Topic, NEW i \in DOMAIN records[r][u]
                     PROVE  /\ i \in DOMAIN records'[r][u]
                            /\ records[r][u][i] # "unread" => records'[r][u][i] = records[r][u][i]
            BY DEF Grows
        <3>1. CASE r = s /\ u = t
            BY <2>3, <3>1
        <3>2. CASE ~(r = s /\ u = t)
            BY <2>2, <3>2
        <3>3. QED BY <3>1, <3>2
    <2>5. QED BY <2>2, <2>4
<1>2. p.stage = s /\ p.attempt = a /\ p.step = step /\ p \in Place
    BY ThreadKnows DEF Here, Try, Place, Steps
<1> HIDE DEF p
<1>3. CalledFor(records, s, t, a)
    BY ThreadKnows DEF StandsAt, Here, Try
<1>4. CalledFor(records', s, t, a)
    BY <1>1, <1>3, ThreadKnows, StillCalledFor
<1>5. StandsAt(records', t, p)
    BY <1>1, <1>2, <1>3, <1>4 DEF StandsAt
<1>6. OnFile(asked, records', inflight)
    BY <1>1, ThreadKnows, StillOnFile
<1>7. active' = [active EXCEPT ![t] = p]
    BY DEF p
<1>8. OwnMarks(inflight, active')
    BY <1>2, <1>7, ThreadKnows DEF OwnMarks, Here, Try, Steps
<1>9. Copied(records', reused)
    <2>1. s = "generation" => t \notin reused
        BY CopyIsFound
    <2>2. \A u \in reused : u \in Topic /\ records'["generation"][u] = records["generation"][u]
        BY <1>1, <2>1, ThreadKnows DEF Copied, Stage
    <2>3. QED BY <2>2, ThreadKnows DEF Copied
<1>10. \A r \in Stage, u \in Topic \ {t} : records'[r][u] = records[r][u]
    BY <1>1
<1>11. QED BY <1>1, <1>2, <1>5, <1>6, <1>7, <1>8, <1>9, <1>10, ThreadKnows, TopicMoves

LEMMA AnsweredStep ==
    ASSUME TypedInv, NEW t \in DOMAIN active, Answered(t)
    PROVE  TypedInv'
<1> DEFINE old == records[Here(t)][t]
<1>1. PICK r \in {"unread", "transient", "denied"} :
        /\ records' = [records EXCEPT ![Here(t)][t] = Append(old, r)]
        /\ active' = [active EXCEPT ![t] =
                         [active[t] EXCEPT !.step = IF r = "unread" THEN "kept" ELSE "recorded"]]
    BY ThreadKnows DEF Answered, Stays, Moves, Table
<1>2. active[t].step = "asked" /\ UNCHANGED <<mode, initialized, inflight, asked, queue, reused>>
    BY DEF Answered
<1>3. old \in Seq(Verdicts) /\ r \in Verdicts
    BY ThreadKnows DEF Verdicts, Answer
<1>4. Len(old) = Try(t) - 1 /\ Try(t) \in Nat \ {0}
    BY <1>2, ThreadKnows DEF StandsAt, Here, Try
<1> HIDE DEF old
<1>5. /\ Append(old, r) \in Seq(Verdicts) /\ Try(t) \in DOMAIN Append(old, r)
      /\ Append(old, r)[Try(t)] = r
      /\ \A i \in DOMAIN old : i \in DOMAIN Append(old, r) /\ Append(old, r)[i] = old[i]
    BY <1>3, <1>4
<1> DEFINE step == IF r = "unread" THEN "kept" ELSE "recorded"
<1>6. step \in {"kept", "recorded"} /\ (step = "kept" => r = "unread")
    OBVIOUS
<1>7. active' = [active EXCEPT ![t] = [active[t] EXCEPT !.step = step]]
    BY <1>1
<1> HIDE DEF step
<1>8. QED BY <1>1, <1>2, <1>5, <1>6, <1>7, ThreadWrites DEF old

LEMMA ValidateStep ==
    ASSUME TypedInv, NEW t \in DOMAIN active, validate(t)
    PROVE  TypedInv'
<1> DEFINE old == records[Here(t)][t]
<1>1. PICK r \in Valid(Here(t)) \union {"invalid"} :
        records' = [records EXCEPT ![Here(t)][t] = [old EXCEPT ![Try(t)] = r]]
    BY ThreadKnows DEF validate, Table
<1>2. /\ active[t].step = "kept" /\ UNCHANGED <<mode, initialized, inflight, asked, queue, reused>>
      /\ active' = [active EXCEPT ![t] = [active[t] EXCEPT !.step = "recorded"]]
    BY DEF validate, Stays, Moves
<1>3. old \in Seq(Verdicts) /\ r \in Verdicts
    BY ThreadKnows DEF Verdicts, Answer, Valid, ValidDraft
<1>4. Try(t) \in DOMAIN old /\ old[Try(t)] = "unread"
    BY <1>2, ThreadKnows DEF StandsAt, Here, Try
<1> HIDE DEF old
<1> DEFINE row == [old EXCEPT ![Try(t)] = r]
<1>5. /\ row \in Seq(Verdicts) /\ Try(t) \in DOMAIN row
      /\ \A i \in DOMAIN old : i \in DOMAIN row /\ (old[i] # "unread" => row[i] = old[i])
    BY <1>3, <1>4
<1>6. records' = [records EXCEPT ![Here(t)][t] = row]
    BY <1>1
<1> HIDE DEF row
<1>7. QED BY <1>2, <1>5, <1>6, ThreadWrites DEF old

LEMMA UnmarkStep ==
    ASSUME TypedInv, NEW t \in DOMAIN active, Unmark(t)
    PROVE  TypedInv'
<1> DEFINE s == Here(t)
           a == Try(t)
           p == After(s, a, records[s][t][a])
<1>1. /\ active[t].step = "recorded" /\ active' = [active EXCEPT ![t] = p]
      /\ inflight' = Without(inflight, <<s, t>>)
      /\ UNCHANGED <<mode, initialized, queue, records, asked, reused>>
    BY DEF Unmark, Moves
<1>2. /\ CalledFor(records, s, t, a)
      /\ a \in DOMAIN records[s][t]
    BY <1>1, ThreadKnows DEF StandsAt, Here, Try
<1>3. p \in Place /\ StandsAt(records, t, p)
    BY <1>2, ThreadKnows, AfterIsCalledFor
<1> HIDE DEF p
<1>4. /\ DOMAIN inflight' = DOMAIN inflight \ {<<s, t>>}
      /\ \A m \in DOMAIN inflight' : inflight'[m] = inflight[m]
    BY <1>1 DEF Without
<1>5. \A m \in DOMAIN inflight : m[2] = t => m = <<s, t>> /\ inflight[m] = a
    BY ThreadKnows DEF OwnMarks, Here, Try
<1>6. OwnMarks(inflight', active')
    BY <1>1, <1>4, <1>5, ThreadKnows DEF OwnMarks
<1>7. OnFile(asked, records, inflight')
    <2> SUFFICES ASSUME NEW c \in DOMAIN asked
                 PROVE  /\ asked[c] = 1 /\ CalledFor(records, c[1], c[2], c[3])
                        /\ \/ c[3] \in DOMAIN records[c[1]][c[2]]
                           \/ <<c[1], c[2]>> \in DOMAIN inflight' /\ inflight'[<<c[1], c[2]>>] = c[3]
        BY DEF OnFile
    <2>1. CASE <<c[1], c[2]>> = <<s, t>>
        BY <1>2, <1>5, <2>1, ThreadKnows DEF OnFile
    <2>2. CASE <<c[1], c[2]>> # <<s, t>>
        BY <1>4, <2>2, ThreadKnows DEF OnFile
    <2>3. QED BY <2>1, <2>2
<1>8. QED BY <1>1, <1>3, <1>4, <1>6, <1>7, ThreadKnows, TopicMoves

LEMMA ProcessTopicStep ==
    ASSUME TypedInv, NEW t \in DOMAIN active, process_topic(t)
    PROVE  TypedInv'
<1> DEFINE p == [active[t] EXCEPT !.step = "done"]
<1>1. /\ active[t].step = "finishing" /\ active' = [active EXCEPT ![t] = p]
      /\ UNCHANGED <<mode, initialized, records, inflight, asked, queue, reused>>
    BY DEF process_topic, Stays, Moves
<1>2. p.stage = Here(t) /\ p.attempt = Try(t) /\ p.step = "done" /\ p \in Place
    BY ThreadKnows DEF Here, Try, Place, Steps
<1> HIDE DEF p
<1>3. StandsAt(records, t, p)
    BY <1>2, ThreadKnows DEF StandsAt, Here, Try
<1>4. OwnMarks(inflight, active')
    BY <1>1, ThreadKnows DEF OwnMarks, Steps
<1>5. QED BY <1>1, <1>2, <1>3, <1>4, ThreadKnows, TopicMoves

\* Starting and ending invocations, and what the main thread does.
LEMMA RunFullStep ==
    ASSUME TypedInv, run_full
    PROVE  TypedInv'
<1>1. /\ mode = "off" /\ initialized /\ mode' = "full" /\ queue' \subseteq Topic /\ DOMAIN active' = {}
      /\ UNCHANGED <<initialized, records, inflight, asked, reused, active>>
    BY DEF run_full, NewQueue, typedFiles, TypedInv
<1>2. TypedTypeOK'
    BY <1>1 DEF TypedInv, TypedTypeOK
<1>3. OwnMarks(inflight, active')
    BY DEF run_full, NoMarker, OwnMarks
<1>4. QED BY <1>1, <1>2, <1>3 DEF TypedInv

LEMMA EndStep ==
    ASSUME TypedInv, Finish \/ Crash
    PROVE  TypedInv'
<1>1. mode' = "off" /\ queue' = {} /\ DOMAIN active' = {}
    <2>1. active' = <<>>
        BY DEF Finish, Crash, Ends
    <2>2. QED BY <2>1 DEF Finish, Crash, Ends
<1>2. UNCHANGED <<initialized, records, inflight, asked, reused>>
    BY DEF Finish, Crash, Ends, typedFiles
<1>3. TypedTypeOK'
    BY <1>1, <1>2 DEF TypedInv, TypedTypeOK
<1>4. Unstarted' <=> Unstarted
    BY <1>2 DEF Unstarted
<1>5. QED BY <1>1, <1>2, <1>3, <1>4 DEF TypedInv

LEMMA StartTopicStep ==
    ASSUME TypedInv, StartTopic
    PROVE  TypedInv'
<1>1. mode = "full" /\ MayStart /\ UNCHANGED <<mode, initialized, records, inflight, asked, reused>>
    BY DEF StartTopic, typedFiles
<1>2. CASE UNCHANGED <<queue, active>>
    BY <1>1, <1>2 DEF TypedInv, TypedTypeOK
<1>3. CASE ~UNCHANGED <<queue, active>>
    <2> DEFINE p == Step("generation", 1, "look")
    <2>1. queue' = queue \ {First} /\ active' = With(active, First, p)
        BY <1>3 DEF StartTopic
    <2>2. First \in queue /\ First \in Topic /\ First \notin DOMAIN active
        <3>1. queue \subseteq Topic /\ queue \intersect DOMAIN active = {} /\ queue # {}
            BY <1>1 DEF TypedInv, TypedTypeOK, MayStart
        <3>2. Topic \subseteq Nat
            BY TypedPilotAssumption DEF Topic
        <3>3. QED BY <3>1, <3>2, LeastPosition DEF First
    <2> DEFINE f == First
    <2>3. p \in Place /\ StandsAt(records, f, p) /\ p.step = "look"
        <3>1. CalledFor(records, p.stage, f, 1)
            BY DEF CalledFor, Step
        <3>2. QED BY <1>1, <3>1 DEF StandsAt, Place, Step, Stage, TypedInv, TypedTypeOK
    <2> HIDE DEF p, f
    <2>4. /\ DOMAIN active' = DOMAIN active \union {f} /\ active'[f] = p
          /\ \A t \in DOMAIN active : active'[t] = active[t]
          /\ queue' = queue \ {f} /\ f \in queue /\ f \in Topic
        BY <2>1, <2>2 DEF With, f
    <2>5. TypedTypeOK'
        BY <1>1, <2>3, <2>4 DEF TypedInv, TypedTypeOK
    <2>6. OwnMarks(inflight, active')
        BY <1>1, <2>4 DEF TypedInv, OwnMarks
    <2>7. \A t \in DOMAIN active' : StandsAt(records, t, active'[t])
        BY <2>3, <2>4 DEF TypedInv
    <2>8. QED BY <1>1, <2>5, <2>6, <2>7 DEF TypedInv
<1>4. QED BY <1>2, <1>3

LEMMA CollectStep ==
    ASSUME TypedInv, Collect
    PROVE  TypedInv'
<1> DEFINE done == {t \in DOMAIN active : active[t].step = "done"}
<1>1. /\ active' = [t \in DOMAIN active \ done |-> active[t]]
      /\ UNCHANGED <<mode, initialized, records, inflight, asked, queue, reused>>
    BY DEF Collect, typedFiles
<1>2. DOMAIN active' = DOMAIN active \ done /\ \A u \in DOMAIN active' : active'[u] = active[u]
    BY <1>1
<1>3. TypedTypeOK'
    BY <1>1, <1>2 DEF TypedInv, TypedTypeOK
<1>4. mode = "full" /\ OwnMarks(inflight, active')
    <2>1. mode = "full" /\ OwnMarks(inflight, active)
        BY DEF Collect, TypedInv
    <2>2. \A m \in DOMAIN inflight : m[2] \notin done
        BY <2>1 DEF OwnMarks, Steps
    <2> HIDE DEF done
    <2>3. QED BY <1>2, <2>1, <2>2 DEF OwnMarks
<1>5. QED BY <1>1, <1>2, <1>3, <1>4 DEF TypedInv

LEMMA InspectStep ==
    ASSUME TypedInv, NEW s \in Stage, NEW t \in Topic, <<s, t>> \in DOMAIN inflight, Inspect(s, t)
    PROVE  TypedInv'
<1>1. /\ mode = "off" /\ inflight[<<s, t>>] \in DOMAIN records[s][t]
      /\ inflight' = Without(inflight, <<s, t>>)
      /\ UNCHANGED <<mode, initialized, records, asked, queue, active, reused>>
    BY DEF Inspect
<1>2. /\ DOMAIN inflight' = DOMAIN inflight \ {<<s, t>>}
      /\ \A m \in DOMAIN inflight' : inflight'[m] = inflight[m]
    BY <1>1 DEF Without
<1>3. TypedTypeOK'
    BY <1>1, <1>2 DEF TypedInv, TypedTypeOK
<1>4. OnFile(asked, records, inflight')
    <2> SUFFICES ASSUME NEW c \in DOMAIN asked
                 PROVE  /\ asked[c] = 1 /\ CalledFor(records, c[1], c[2], c[3])
                        /\ \/ c[3] \in DOMAIN records[c[1]][c[2]]
                           \/ <<c[1], c[2]>> \in DOMAIN inflight' /\ inflight'[<<c[1], c[2]>>] = c[3]
        BY DEF OnFile
    <2>1. OnFile(asked, records, inflight)
        BY DEF TypedInv
    <2>2. CASE <<c[1], c[2]>> = <<s, t>>
        BY <1>1, <2>1, <2>2 DEF OnFile
    <2>3. CASE <<c[1], c[2]>> # <<s, t>>
        BY <1>2, <2>1, <2>3 DEF OnFile
    <2>4. QED BY <2>2, <2>3
<1>5. ~initialized => Unstarted'
    BY <1>1, <1>2 DEF TypedInv, Unstarted
<1>6. QED BY <1>1, <1>3, <1>4, <1>5 DEF TypedInv

\* Preparing the manifest: nothing has been asked yet.
LEMMA PrepareStep ==
    ASSUME TypedInv, initialize \/ Freeze
    PROVE  TypedInv'
<1>1. /\ UNCHANGED <<records, inflight, asked, reused, active>> /\ mode # "full" /\ mode' # "full"
      /\ (mode' = "init" => ~initialized') /\ mode' \in {"off", "init"} /\ initialized' \in BOOLEAN
      /\ ~initialized /\ queue' \subseteq Topic
    <2>1. CASE initialize
        <3>1. /\ UNCHANGED <<records, inflight, asked, reused, active, initialized>>
              /\ mode = "off" /\ ~initialized /\ mode' = "init" /\ queue' = Topic
            BY <2>1 DEF initialize, NewQueue, typedFiles
        <3>2. initialized \in BOOLEAN
            BY DEF TypedInv, TypedTypeOK
        <3>3. initialized' \in BOOLEAN /\ ~initialized'
            BY <3>1, <3>2, Zenon
        <3>4. QED BY <3>1, <3>3
    <2>2. CASE Freeze
        <3>1. /\ UNCHANGED <<records, inflight, asked, reused, active, queue>>
              /\ mode = "init" /\ mode' = "off" /\ initialized' = TRUE
            BY <2>2 DEF Freeze
        <3>2. queue \subseteq Topic /\ ~initialized
            BY <3>1 DEF TypedInv, TypedTypeOK
        <3>3. QED BY <3>1, <3>2
    <2>3. QED BY <2>1, <2>2
<1>2. DOMAIN active = {} /\ TypedTypeOK
    BY <1>1 DEF TypedInv
<1>3. TypedTypeOK'
    <2>1. active' = active /\ mode' \in {"off", "init", "full"}
        BY <1>1
    <2>2. QED BY <1>1, <1>2, <2>1 DEF TypedTypeOK
<1>4. Unstarted' <=> Unstarted
    BY <1>1 DEF Unstarted
<1>5. QED BY <1>1, <1>2, <1>3, <1>4 DEF TypedInv

TakenOver(table, copies, t) ==
    IF t \in copies THEN table["generation"][t] \in {<<"clean">>, <<"flagged">>} ELSE table["generation"][t] = <<>>

\* The answers there are, in this state and in the next, when a draft is taken over.
LEMMA CopyWrites ==
    ASSUME TypedInv, CopyDraft
    PROVE  /\ records' \in Table /\ UNCHANGED <<mode, initialized, inflight, asked, outcomes, active>>
           /\ mode = "init" /\ ~initialized /\ DOMAIN active = {} /\ queue' \subseteq queue
           /\ \A t \in Topic : records'["correction"][t] = <<>>
           /\ \A t \in Topic : TakenOver(records', reused', t)
           /\ reused' \subseteq Topic
<1> DEFINE f == First
<1>1. /\ UNCHANGED <<mode, initialized, inflight, asked, outcomes, active>> /\ mode = "init" /\ ~initialized
      /\ DOMAIN active = {} /\ queue' \subseteq queue
    BY DEF CopyDraft, TypedInv
<1>2. /\ records \in Table /\ reused \subseteq Topic
      /\ \A t \in Topic : records["correction"][t] = <<>>
      /\ \A t \in Topic : TakenOver(records, reused, t)
    BY <1>1 DEF TypedInv, TypedTypeOK, Unstarted, Copied, TakenOver
<1>3. f \in Topic
    <2>1. queue \subseteq Topic /\ queue # {} /\ Topic \subseteq Nat
        BY TypedPilotAssumption DEF CopyDraft, TypedInv, TypedTypeOK, Topic
    <2>2. QED BY <2>1, LeastPosition DEF First
<1>4. CASE UNCHANGED <<records, reused>>
    BY <1>1, <1>2, <1>4
<1>5. CASE ~UNCHANGED <<records, reused>>
    <2>1. /\ drafts[f] \in ValidDraft /\ reused' = reused \union {f}
          /\ records' = [records EXCEPT !["generation"][f] = <<drafts[f]>>]
        BY <1>5 DEF CopyDraft
    <2> DEFINE row == <<drafts[f]>>
    <2>2. row \in {<<"clean">>, <<"flagged">>} /\ row \in Seq(Verdicts)
        BY <2>1 DEF ValidDraft, Verdicts, Answer
    <2>3. records' = [records EXCEPT !["generation"][f] = row]
        BY <2>1
    <2> HIDE DEF row, f
    <2>4. /\ records' \in Table /\ records'["generation"][f] = row
          /\ \A s \in Stage, t \in Topic : ~(s = "generation" /\ t = f) => records'[s][t] = records[s][t]
        BY <1>2, <1>3, <2>2, <2>3 DEF Table, Stage
    <2>5. \A t \in Topic : records'["correction"][t] = <<>>
        BY <1>2, <2>4 DEF Stage
    <2>6. \A t \in Topic : TakenOver(records', reused', t)
        <3> SUFFICES ASSUME NEW t \in Topic
                     PROVE  TakenOver(records', reused', t)
            OBVIOUS
        <3>1. CASE t = f
            BY <2>1, <2>2, <2>4, <3>1 DEF TakenOver
        <3>2. CASE t # f
            <4>1. records'["generation"][t] = records["generation"][t] /\ (t \in reused' <=> t \in reused)
                BY <2>1, <2>4, <3>2 DEF Stage
            <4>2. QED BY <1>2, <4>1 DEF TakenOver
        <3>3. QED BY <3>1, <3>2
    <2>7. reused' \subseteq Topic
        BY <1>2, <1>3, <2>1
    <2>8. QED BY <1>1, <2>4, <2>5, <2>6, <2>7
<1>6. QED BY <1>4, <1>5

LEMMA CopyStep ==
    ASSUME TypedInv, CopyDraft
    PROVE  TypedInv'
<1>1. DOMAIN asked = {} /\ DOMAIN inflight = {} /\ queue' \subseteq Topic
    BY CopyWrites DEF TypedInv, Unstarted, TypedTypeOK
<1>2. TypedTypeOK'
    BY <1>1, CopyWrites DEF TypedInv, TypedTypeOK
<1>3. Unstarted' /\ OnFile(asked', records', inflight')
    BY <1>1, CopyWrites DEF Unstarted, OnFile, TakenOver
<1>4. Copied(records', reused') /\ NotAsked(asked', reused')
    BY <1>1, CopyWrites DEF Copied, NotAsked, TakenOver
<1>5. QED BY <1>2, <1>3, <1>4, CopyWrites DEF TypedInv

LEMMA TypedStart == TypedInit => TypedInv
<1> SUFFICES ASSUME TypedInit PROVE TypedInv
    OBVIOUS
<1>1. DOMAIN inflight = {} /\ DOMAIN asked = {} /\ DOMAIN active = {}
    BY DEF TypedInit
<1>2. \A s \in Stage, t \in Topic : records[s][t] = <<>>
    BY DEF TypedInit
<1>3. records \in Table
    BY DEF TypedInit, Table
<1>4. TypedTypeOK
    BY <1>1, <1>3 DEF TypedInit, TypedTypeOK
<1>5. QED BY <1>1, <1>2, <1>4 DEF TypedInit, TypedInv, OnFile, Unstarted, Copied, NotAsked, Stage

LEMMA TypedStep == TypedInv /\ [TypedNext]_typedVars => TypedInv'
<1> SUFFICES ASSUME TypedInv, [TypedNext]_typedVars PROVE TypedInv'
    OBVIOUS
<1>1. CASE UNCHANGED fullVars
    BY <1>1 DEF fullVars, TypedInv, TypedTypeOK, Unstarted
<1>2. ASSUME NEW t \in DOMAIN active,
             Replay(t) \/ Ask(t) \/ Answered(t) \/ validate(t) \/ Unmark(t) \/ process_topic(t)
      PROVE  TypedInv'
    BY <1>2, ReplayStep, AskStep, AnsweredStep, ValidateStep, UnmarkStep, ProcessTopicStep
<1>3. CASE FullNext
    BY <1>2, <1>3, RunFullStep, PrepareStep, CopyStep, StartTopicStep, CollectStep, EndStep, InspectStep
       DEF FullNext
<1>4. QED BY <1>1, <1>3 DEF TypedNext, typedVars

\* The pilot goes its own way beside the full run.
LEMMA PilotApart == TypedSpec => PilotInit /\ [][PilotNext]_pilotVars
<1>1. TypedInit => PilotInit
    BY DEF TypedInit
<1>2. [TypedNext]_typedVars => [PilotNext]_pilotVars
    BY DEF TypedNext, typedVars
<1>3. QED BY <1>1, <1>2, PTL DEF TypedSpec

\* Each script sends a request of its own at most once, the full run an attempt only after the one
\* before it has failed for the moment, a correction only of a flagged generation, and no request
\* for a generation it has copied from the pilot (stage_call and initialize,
\* typed_question_full.py; run_one, typed_question_pilot.py).
THEOREM TypedRequestsOnce == TypedSpec => []AskedOnce
<1>1. TypedInv /\ PilotInv => AskedOnce
    BY PilotKeepsToIt DEF TypedInv, OnFile, CalledFor, NotAsked, AskedOnce
<1>2. QED BY <1>1, TypedStart, TypedStep, PilotStart, PilotStep, PilotApart, PTL DEF TypedSpec

(***************************************************************************)
(* The budgets of the typed runs: what the answers have cost stays within  *)
(* them, although an invocation that died left charges no outcome counts.  *)
(***************************************************************************)

\* Only the last attempt at a stage has a verdict, and there are no more than allowed.
Tried(table) ==
    \A s \in Stage, t \in Topic :
        /\ Len(table[s][t]) <= Attempts
        /\ \A i \in DOMAIN table[s][t] : i < Len(table[s][t]) => table[s][t][i] = "transient"

\* Nothing is left to be asked about a topic.
Concluded(table, t) ==
    \E s \in Stage : \E a \in DOMAIN table[s][t] :
        /\ CalledFor(table, s, t, a)
        /\ After(s, a, table[s][t][a]).step = "finishing"

\* An outcome is of a concluded topic and says what it has cost.
Reported ==
    /\ DOMAIN outcomes = Topic
    /\ \A t \in Topic :
         /\ outcomes[t].cost \in Nat
         /\ outcomes[t].status # "none" => Concluded(records, t) /\ outcomes[t].cost = CostOf(t)
    /\ ~initialized => \A t \in Topic : outcomes[t].status = "none"

\* A thread asks nothing about a topic that has its outcome.
Orderly(table, outs, t, p) ==
    /\ p.attempt <= Attempts
    /\ p.step = "finishing" => Concluded(table, t)
    /\ p.step = "done" => outs[t].status # "none"
    /\ outs[t].status # "none" => p.step \in {"look", "finishing", "done"}

Open == {t \in Topic : outcomes[t].status = "none"}

\* Topics are started in their order, so those without an outcome that may have been charged
\* are among the first: at most the topics up to the last one begun.
Begun(t) == CostOf(t) > 0 \/ t \in DOMAIN active
Reached == {t \in Open : \E u \in Open : t <= u /\ Begun(u)}

Covers(charges, open, reached) ==
    SumFunctionOnSet(charges, Topic \ open) + Reserve * Cardinality(reached) <= Budget

Planned ==
    /\ Covers(Charges, Open, Reached)
    /\ mode = "full" => /\ Open \subseteq queue \union DOMAIN active
                        /\ known \in [Topic -> Nat]
                        /\ \A t \in (Topic \ Open) \ DOMAIN active : known[t] = CostOf(t)

BudgetInv ==
    /\ Tried(records) /\ Reported /\ Planned
    /\ \A t \in DOMAIN active : Orderly(records, outcomes, t, active[t])

----------------------------------------------------------------------------
LEMMA TopicFinite == IsFiniteSet(Topic) /\ \A S \in SUBSET Topic : IsFiniteSet(S) /\ Cardinality(S) \in Nat
<1>1. IsFiniteSet(Topic)
    BY TypedPilotAssumption, FS_Interval DEF Topic
<1>2. QED BY <1>1, FS_Subset, FS_CardinalityType

LEMMA TimesMonotone ==
    ASSUME NEW k \in Nat, NEW m \in Nat, NEW n \in Nat, m <= n
    PROVE  k * m \in Nat /\ k * n \in Nat /\ k * m <= k * n
<1> DEFINE d == n - m
<1>1. d \in Nat /\ n = m + d
    OBVIOUS
<1> HIDE DEF d
<1>2. k * n = k * m + k * d /\ k * d \in Nat /\ k * m \in Nat
    BY <1>1
<1>3. QED BY <1>1, <1>2

Answers(table, s, t) == Cardinality({i \in DOMAIN table[s][t] : table[s][t][i] \in Answer})

\* A stage is paid for once at most.
LEMMA OneAnswer ==
    ASSUME NEW table \in Table, Tried(table), NEW s \in Stage, NEW t \in Topic
    PROVE  Answers(table, s, t) \in 0..1 /\ (table[s][t] = <<>> => Answers(table, s, t) = 0)
<1> DEFINE A == {i \in DOMAIN table[s][t] : table[s][t][i] \in Answer}
           n == Len(table[s][t])
<1>1. table[s][t] \in Seq(Verdicts)
    BY DEF Table
<1>2. A \subseteq {n}
    BY <1>1 DEF Tried, Answer
<1>3. A = {} \/ A = {n}
    BY <1>2
<1>4. Cardinality({}) = 0 /\ Cardinality({n}) = 1
    BY FS_EmptySet, FS_Singleton
<1>5. table[s][t] = <<>> => A = {}
    OBVIOUS
<1>6. Answers(table, s, t) = Cardinality(A)
    BY DEF Answers
<1>7. CASE A = {}
    <2>1. Answers(table, s, t) = 0
        BY <1>4, <1>6, <1>7
    <2>2. QED BY <2>1
<1>8. CASE A = {n}
    <2>1. Answers(table, s, t) = 1 /\ table[s][t] # <<>>
        BY <1>4, <1>5, <1>6, <1>8
    <2>2. QED BY <2>1
<1>9. QED BY <1>3, <1>7, <1>8

LEMMA CostsBounded ==
    ASSUME NEW table \in Table, Tried(table), NEW t \in Topic, NEW taken
    PROVE  (IF t \in taken THEN 0 ELSE Answers(table, "generation", t)) + Answers(table, "correction", t) \in 0..2
<1>1. Answers(table, "generation", t) \in 0..1 /\ Answers(table, "correction", t) \in 0..1
    BY OneAnswer DEF Stage
<1>2. QED BY <1>1

\* What the charges are, in this state and in the next.
LEMMA ChargesAre ==
    ASSUME TypedTypeOK, Tried(records)
    PROVE  \A t \in Topic : CostOf(t) \in 0..2 /\ Charges[t] = CostOf(t)
<1> SUFFICES ASSUME NEW t \in Topic
             PROVE  CostOf(t) \in 0..2 /\ Charges[t] = CostOf(t)
    OBVIOUS
<1>1. records \in Table
    BY DEF TypedTypeOK
<1>2. CostOf(t) = (IF t \in reused THEN 0 ELSE Answers(records, "generation", t)) + Answers(records, "correction", t)
    BY DEF CostOf, Cost, Answers
<1>3. QED BY <1>1, <1>2, CostsBounded DEF Charges

\* A concluded topic is never asked about: the next attempt a thread looks for is on record.
LEMMA LooksAtRecord ==
    ASSUME NEW table \in Table, Tried(table), NEW t \in Topic, Concluded(table, t),
           NEW p \in Place, StandsAt(table, t, p), p.attempt <= Attempts
    PROVE  p.attempt \in DOMAIN table[p.stage][t]
<1> DEFINE b == p.attempt
<1>0. PICK s \in Stage : \E a \in DOMAIN table[s][t] :
        CalledFor(table, s, t, a) /\ After(s, a, table[s][t][a]).step = "finishing"
    BY DEF Concluded
<1>1. PICK a \in DOMAIN table[s][t] :
        CalledFor(table, s, t, a) /\ After(s, a, table[s][t][a]).step = "finishing"
    BY <1>0
<1>2. p.stage \in Stage /\ b \in Nat \ {0} /\ b <= Attempts
    BY DEF StandsAt, Place
<1>3. table[s][t] \in Seq(Verdicts) /\ table[p.stage][t] \in Seq(Verdicts) /\ table["generation"][t] \in Seq(Verdicts)
    BY <1>2 DEF Table, Stage
<1>4. ~(table[s][t][a] = "transient" /\ a < Attempts) /\ ~(s = "generation" /\ table[s][t][a] = "flagged")
    BY <1>1 DEF After, Step
<1>5. \A i \in 1..b - 1 : i \in DOMAIN table[p.stage][t] /\ table[p.stage][t][i] = "transient"
    BY DEF StandsAt, CalledFor
<1>6. SUFFICES ASSUME b \notin DOMAIN table[p.stage][t] PROVE FALSE
    OBVIOUS
<1>7. Len(table[p.stage][t]) = b - 1
    <2>1. Len(table[p.stage][t]) < b
        BY <1>2, <1>3, <1>6
    <2>2. b # 1 => b - 1 \in DOMAIN table[p.stage][t]
        BY <1>2, <1>5
    <2>3. QED BY <1>2, <1>3, <2>1, <2>2
<1>8. CASE p.stage = s
    <2>1. a \in 1..b - 1
        BY <1>3, <1>7, <1>8
    <2>2. table[s][t][a] = "transient" /\ a < Attempts
        BY <1>2, <1>5, <1>8, <2>1, TypedRunAssumption
    <2>3. QED BY <1>4, <2>2
<1>9. CASE p.stage = "generation" /\ s = "correction"
    <2>1. PICK i \in DOMAIN table["generation"][t] : table["generation"][t][i] = "flagged"
        BY <1>1, <1>9 DEF CalledFor
    <2>2. i \in 1..b - 1
        BY <1>3, <1>7, <1>9, <2>1
    <2>3. QED BY <1>5, <1>9, <2>1, <2>2
<1>10. CASE p.stage = "correction" /\ s = "generation"
    <2>1. PICK i \in DOMAIN table["generation"][t] : table["generation"][t][i] = "flagged"
        BY <1>10 DEF StandsAt, CalledFor
    <2>2. i # a /\ i \in Nat /\ a \in Nat
        BY <1>3, <1>4, <1>10, <2>1
    <2>3. CASE i < a
        <3>1. table["generation"][t][i] = "transient"
            BY <1>1, <1>3, <1>10, <2>1, <2>2, <2>3 DEF CalledFor
        <3>2. QED BY <2>1, <3>1
    <2>4. CASE a < i
        <3>1. i <= Len(table["generation"][t]) /\ Len(table["generation"][t]) <= Attempts
            BY <1>3, <2>1 DEF Tried, Stage
        <3>2. a < Len(table["generation"][t]) /\ a < Attempts
            BY <1>3, <2>2, <2>4, <3>1, TypedRunAssumption
        <3>3. table["generation"][t][a] = "transient"
            BY <1>1, <1>10, <3>2 DEF Tried, Stage
        <3>4. QED BY <1>4, <1>10, <3>2, <3>3
    <2>5. QED BY <2>2, <2>3, <2>4
<1>11. QED BY <1>1, <1>2, <1>8, <1>9, <1>10 DEF Stage

\* What follows from a record keeps the order.
LEMMA AfterIsOrderly ==
    ASSUME NEW table, NEW s \in Stage, NEW t \in Topic, NEW a \in DOMAIN table[s][t], a \in Nat, a <= Attempts,
           CalledFor(table, s, t, a), NEW outs
    PROVE  Orderly(table, outs, t, After(s, a, table[s][t][a]))
<1> DEFINE r == table[s][t][a]
           p == After(s, a, r)
<1>2. CASE r = "transient" /\ a < Attempts
    <2>1. p = Step(s, a + 1, "look")
        BY <1>2 DEF After
    <2>2. a + 1 <= Attempts
        BY <1>2, TypedRunAssumption
    <2> HIDE DEF p
    <2>3. QED BY <2>1, <2>2 DEF Step, Orderly, p
<1>3. CASE s = "generation" /\ r = "flagged"
    <2>1. p = Step("correction", 1, "look")
        BY <1>3 DEF After
    <2>2. 1 <= Attempts
        BY TypedRunAssumption
    <2> HIDE DEF p
    <2>3. QED BY <2>1, <2>2 DEF Step, Orderly, p
<1>4. CASE ~(r = "transient" /\ a < Attempts) /\ ~(s = "generation" /\ r = "flagged")
    <2>1. p = Step(s, a, "finishing")
        BY <1>4 DEF After
    <2>2. p.step = "finishing" /\ p.attempt = a /\ p.stage = s
        BY <2>1 DEF Step
    <2>3. Concluded(table, t)
        BY <1>4, <2>2 DEF Concluded
    <2> HIDE DEF p
    <2>4. QED BY <2>2, <2>3 DEF Orderly, p
<1>5. QED BY <1>2, <1>3, <1>4

LEMMA StillConcluded ==
    ASSUME NEW old, NEW new, NEW t, \A s \in Stage : new[s][t] = old[s][t], Concluded(old, t)
    PROVE  Concluded(new, t)
<1>0. PICK s \in Stage : \E a \in DOMAIN old[s][t] :
        CalledFor(old, s, t, a) /\ After(s, a, old[s][t][a]).step = "finishing"
    BY DEF Concluded
<1>1. PICK a \in DOMAIN old[s][t] :
        CalledFor(old, s, t, a) /\ After(s, a, old[s][t][a]).step = "finishing"
    BY <1>0
<1>2. new[s][t] = old[s][t] /\ new["generation"][t] = old["generation"][t]
    BY DEF Stage
<1>3. CalledFor(new, s, t, a)
    BY <1>1, <1>2 DEF CalledFor
<1>4. QED BY <1>1, <1>2, <1>3 DEF Concluded

----------------------------------------------------------------------------
(* What the steps do to the plan.                                          *)

LEMMA FilesKept ==
    ASSUME UNCHANGED <<records, outcomes, reused>>
    PROVE  /\ Charges' = Charges /\ Open' = Open
           /\ \A t \in Topic : CostOf(t)' = CostOf(t)
           /\ (initialized => initialized') => (Reported => Reported')
<1>1. \A t \in Topic : CostOf(t)' = CostOf(t)
    BY DEF CostOf, Cost
<1>2. Charges' = Charges
    BY DEF Charges, CostOf, Cost
<1>3. Open' = Open
    BY DEF Open
<1>4. (initialized => initialized') => (Reported => Reported')
    BY <1>1 DEF Reported
<1>5. QED BY <1>1, <1>2, <1>3, <1>4

LEMMA CoversLess ==
    ASSUME NEW charges, \A t \in Topic : charges[t] \in Nat, NEW open, NEW more \in SUBSET Topic,
           NEW less \in SUBSET more, Covers(charges, open, more)
    PROVE  Covers(charges, open, less)
<1>1. IsFiniteSet(more) /\ Cardinality(more) \in Nat /\ Cardinality(less) \in Nat /\ IsFiniteSet(Topic \ open)
    BY TopicFinite
<1>2. Cardinality(less) <= Cardinality(more)
    BY <1>1, FS_Subset
<1>3. Reserve \in Nat /\ Budget \in Nat
    BY TypedRunAssumption
<1>4. /\ Reserve * Cardinality(less) \in Nat /\ Reserve * Cardinality(more) \in Nat
      /\ Reserve * Cardinality(less) <= Reserve * Cardinality(more)
    BY <1>1, <1>2, <1>3, TimesMonotone
<1>5. SumFunctionOnSet(charges, Topic \ open) \in Nat
    BY <1>1, SumIsNat
<1>6. QED BY <1>3, <1>4, <1>5 DEF Covers

LEMMA BudgetParts ==
    ASSUME TypedInv, BudgetInv
    PROVE  /\ TypedTypeOK /\ Tried(records) /\ Reported /\ Planned
           /\ \A t \in Topic : Charges[t] \in Nat /\ Charges[t] \in 0..2 /\ Charges[t] = CostOf(t)
           /\ Open \subseteq Topic /\ Reached \subseteq Open
<1>1. TypedTypeOK /\ Tried(records)
    BY DEF TypedInv, BudgetInv
<1>2. QED BY <1>1, ChargesAre DEF BudgetInv, Open, Reached

\* A thread goes on, and no file but markers changes.
LEMMA ThreadKeepsBudget ==
    ASSUME TypedInv, BudgetInv, NEW t \in DOMAIN active, NEW p, active' = [active EXCEPT ![t] = p],
           Orderly(records, outcomes, t, p),
           UNCHANGED <<mode, initialized, reused, records, outcomes, queue, known>>
    PROVE  BudgetInv'
<1>1. /\ DOMAIN active' = DOMAIN active /\ active'[t] = p
      /\ \A u \in DOMAIN active \ {t} : active'[u] = active[u]
    OBVIOUS
<1>2. /\ Charges' = Charges /\ Open' = Open
      /\ \A u \in Topic : CostOf(u)' = CostOf(u)
      /\ Reported'
    BY FilesKept DEF BudgetInv
<1>3. Reached' = Reached
    BY <1>1, <1>2 DEF Reached, Begun, Open
<1>4. Planned'
    BY <1>1, <1>2, <1>3 DEF BudgetInv, Planned
<1>5. \A u \in DOMAIN active' : Orderly(records, outcomes, u, active'[u])
    BY <1>1 DEF BudgetInv
<1>6. QED BY <1>2, <1>4, <1>5 DEF BudgetInv

LEMMA ReplayKeepsBudget ==
    ASSUME TypedInv, BudgetInv, NEW t \in DOMAIN active, Replay(t) \/ Unmark(t)
    PROVE  BudgetInv'
<1> DEFINE s == Here(t)
           a == Try(t)
           p == After(s, a, records[s][t][a])
<1>1. /\ active' = [active EXCEPT ![t] = p]
      /\ active[t].step \in {"look", "recorded"}
      /\ active[t].step = "look" => a \in DOMAIN records[s][t]
      /\ UNCHANGED <<mode, initialized, reused, records, outcomes, queue, known>>
    BY DEF Replay, Unmark, Moves, typedFiles
<1>2. a \in DOMAIN records[s][t] /\ CalledFor(records, s, t, a)
    BY <1>1, ThreadKnows DEF StandsAt, Here, Try
<1>3. t \in Topic /\ s \in Stage /\ a \in Nat
    BY ThreadKnows
<1>4. a <= Attempts
    BY DEF BudgetInv, Orderly, Here, Try
<1> HIDE DEF s, a
<1>5. Orderly(records, outcomes, t, p)
    BY <1>2, <1>3, <1>4, AfterIsOrderly
<1> HIDE DEF p
<1>6. QED BY <1>1, <1>5, ThreadKeepsBudget

LEMMA AskKeepsBudget ==
    ASSUME TypedInv, BudgetInv, NEW t \in DOMAIN active, Ask(t)
    PROVE  BudgetInv'
<1> DEFINE p == [active[t] EXCEPT !.step = "asked"]
<1>1. /\ active' = [active EXCEPT ![t] = p] /\ Try(t) \notin DOMAIN records[Here(t)][t]
      /\ UNCHANGED <<mode, initialized, reused, records, outcomes, queue, known>>
    BY DEF Ask, Stays, Moves
<1>2. active[t] \in Place /\ StandsAt(records, t, active[t]) /\ t \in Topic
    BY ThreadKnows
<1>3. p.stage = active[t].stage /\ p.attempt = active[t].attempt /\ p.step = "asked"
    BY <1>2 DEF Place
<1>4. active[t].attempt <= Attempts
    BY DEF BudgetInv, Orderly
<1>5. ASSUME outcomes[t].status # "none"
      PROVE  FALSE
    <2>1. Concluded(records, t) /\ records \in Table /\ Tried(records)
        BY <1>2, <1>5 DEF BudgetInv, Reported, TypedInv, TypedTypeOK
    <2>2. active[t].attempt \in DOMAIN records[active[t].stage][t]
        BY <1>2, <1>4, <1>5, <2>1, LooksAtRecord
    <2>3. QED BY <1>1, <2>2 DEF Here, Try
<1> HIDE DEF p
<1>6. Orderly(records, outcomes, t, p)
    BY <1>3, <1>4, <1>5 DEF Orderly
<1>7. QED BY <1>1, <1>6, ThreadKeepsBudget

\* An answer to a thread's request is kept or validated.
LEMMA WriteKeepsBudget ==
    ASSUME TypedInv, BudgetInv, TypedInv', Tried(records'), NEW t \in DOMAIN active,
           outcomes[t].status = "none",
           DOMAIN active' = DOMAIN active, \A u \in DOMAIN active \ {t} : active'[u] = active[u],
           active'[t].stage = Here(t), active'[t].attempt = Try(t), active'[t].step \in {"kept", "recorded"},
           \A s \in Stage, u \in Topic : ~(s = Here(t) /\ u = t) => records'[s][u] = records[s][u],
           UNCHANGED <<mode, initialized, reused, outcomes, queue, known>>
    PROVE  BudgetInv'
<1>1. /\ t \in Topic /\ Here(t) \in Stage /\ mode = "full" /\ initialized
      /\ records \in Table /\ Tried(records) /\ Reported /\ Planned
    BY ThreadKnows, BudgetParts DEF TypedInv
<1>2. records' \in Table
    BY DEF TypedInv, TypedTypeOK
<1>3. Open' = Open /\ Open \subseteq Topic /\ t \in Open
    BY <1>1 DEF Open
<1>4. \A u \in Topic : Charges'[u] \in Nat /\ Charges'[u] \in 0..2 /\ Charges'[u] = CostOf(u)'
    <2> SUFFICES ASSUME NEW u \in Topic
                 PROVE  Charges'[u] \in Nat /\ Charges'[u] \in 0..2 /\ Charges'[u] = CostOf(u)'
        OBVIOUS
    <2>1. CostOf(u)' = (IF u \in reused' THEN 0 ELSE Answers(records', "generation", u)) + Answers(records', "correction", u)
        BY DEF CostOf, Cost, Answers
    <2>2. Charges'[u] = CostOf(u)'
        BY DEF Charges, CostOf, Cost
    <2>3. QED BY <1>2, <2>1, <2>2, CostsBounded
<1>5. \A u \in Topic \ {t} : CostOf(u)' = CostOf(u)
    BY <1>1 DEF CostOf, Cost, Stage
<1>6. \A u \in Topic \ {t} : Concluded(records, u) => Concluded(records', u)
    BY StillConcluded
<1>7. \A u \in DOMAIN active : u \in Topic /\ Orderly(records, outcomes, u, active[u])
    BY <1>1 DEF BudgetInv, TypedInv, TypedTypeOK
<1>8. Reached' = Reached
    BY <1>1, <1>3, <1>5 DEF Reached, Begun, Open
<1>9. SumFunctionOnSet(Charges, Topic \ Open) = SumFunctionOnSet(Charges', Topic \ Open)
    <2>1. \A u \in Topic \ Open : Charges[u] \in Nat /\ Charges'[u] = Charges[u]
        BY <1>3, <1>4, <1>5, BudgetParts
    <2>2. IsFiniteSet(Topic \ Open)
        BY TopicFinite
    <2>3. QED BY <2>1, <2>2, SumSame
<1>10. Planned'
    BY <1>1, <1>3, <1>5, <1>8, <1>9 DEF Planned, Covers
<1>11. Reported'
    BY <1>1, <1>5, <1>6 DEF Reported
<1>12. \A u \in DOMAIN active' : Orderly(records', outcomes', u, active'[u])
    <2>1. Orderly(records', outcomes', t, active'[t])
        BY <1>7 DEF Orderly, Here, Try
    <2>2. QED BY <1>6, <1>7, <2>1 DEF Orderly
<1>13. QED BY <1>10, <1>11, <1>12 DEF BudgetInv

LEMMA AnsweredKeepsBudget ==
    ASSUME TypedInv, BudgetInv, NEW t \in DOMAIN active, Answered(t)
    PROVE  BudgetInv'
<1> DEFINE s == Here(t)
           old == records[s][t]
<1>1. PICK r \in {"unread", "transient", "denied"} :
        /\ records' = [records EXCEPT ![s][t] = Append(old, r)]
        /\ active' = [active EXCEPT ![t] =
                         [active[t] EXCEPT !.step = IF r = "unread" THEN "kept" ELSE "recorded"]]
    BY ThreadKnows DEF Answered, Stays, Moves, Table
<1>2. active[t].step = "asked" /\ UNCHANGED <<mode, initialized, reused, outcomes, queue, known>>
    BY DEF Answered
<1>3. /\ t \in Topic /\ s \in Stage /\ records \in Table /\ active[t] \in Place
      /\ Try(t) \in Nat \ {0} /\ Try(t) <= Attempts /\ CalledFor(records, s, t, Try(t))
      /\ Len(old) = Try(t) - 1
    BY <1>2, ThreadKnows DEF BudgetInv, Orderly, StandsAt, Here, Try
<1>4. old \in Seq(Verdicts) /\ r \in Verdicts
    BY <1>3 DEF Verdicts, Answer, Table
<1>5. TypedInv'
    BY AnsweredStep
<1>6. outcomes[t].status = "none"
    BY <1>2 DEF BudgetInv, Orderly
<1>7. /\ DOMAIN active' = DOMAIN active /\ \A u \in DOMAIN active \ {t} : active'[u] = active[u]
      /\ active'[t].stage = s /\ active'[t].attempt = Try(t) /\ active'[t].step \in {"kept", "recorded"}
    BY <1>1, <1>3 DEF Place, Here, Try
<1>8. /\ records'[s][t] = Append(old, r)
      /\ \A x \in Stage, u \in Topic : ~(x = s /\ u = t) => records'[x][u] = records[x][u]
    BY <1>1, <1>3 DEF Table
<1> DEFINE row == Append(old, r)
<1>9. Len(row) = Try(t) /\ row # <<>> /\ \A i \in DOMAIN row : i < Len(row) => row[i] = "transient"
    <2>1. \A i \in 1..Try(t) - 1 : old[i] = "transient"
        BY <1>3 DEF CalledFor
    <2> HIDE DEF old
    <2>2. QED BY <1>3, <1>4, <2>1
<1>10. Tried(records')
    <2> HIDE DEF row
    <2> SUFFICES ASSUME NEW x \in Stage, NEW u \in Topic
                 PROVE  /\ Len(records'[x][u]) <= Attempts
                        /\ \A i \in DOMAIN records'[x][u] : i < Len(records'[x][u]) => records'[x][u][i] = "transient"
        BY DEF Tried
    <2>1. CASE x = s /\ u = t
        <3>1. records'[x][u] = row
            BY <1>8, <2>1 DEF row
        <3>2. QED BY <1>3, <1>9, <2>1, <3>1
    <2>2. CASE ~(x = s /\ u = t)
        BY <1>8, <2>2 DEF BudgetInv, Tried
    <2>3. QED BY <2>1, <2>2
<1>11. QED BY <1>2, <1>3, <1>5, <1>6, <1>7, <1>8, <1>10, WriteKeepsBudget

LEMMA ValidateKeepsBudget ==
    ASSUME TypedInv, BudgetInv, NEW t \in DOMAIN active, validate(t)
    PROVE  BudgetInv'
<1> DEFINE s == Here(t)
           a == Try(t)
           old == records[s][t]
<1>1. PICK r \in Valid(s) \union {"invalid"} :
        records' = [records EXCEPT ![s][t] = [old EXCEPT ![a] = r]]
    BY ThreadKnows DEF validate, Table
<1>2. /\ active[t].step = "kept" /\ UNCHANGED <<mode, initialized, reused, outcomes, queue, known>>
      /\ active' = [active EXCEPT ![t] = [active[t] EXCEPT !.step = "recorded"]]
    BY DEF validate, Stays, Moves
<1>3. /\ t \in Topic /\ s \in Stage /\ records \in Table /\ active[t] \in Place
      /\ a \in DOMAIN old /\ old[a] = "unread" /\ Tried(records)
    BY <1>2, ThreadKnows DEF BudgetInv, StandsAt, Here, Try
<1>4. old \in Seq(Verdicts) /\ r \in Answer /\ r \in Verdicts
    BY <1>3 DEF Verdicts, Answer, Valid, ValidDraft, Table
<1>5. TypedInv'
    BY ValidateStep
<1>6. outcomes[t].status = "none"
    BY <1>2 DEF BudgetInv, Orderly
<1>7. /\ DOMAIN active' = DOMAIN active /\ \A u \in DOMAIN active \ {t} : active'[u] = active[u]
      /\ active'[t].stage = s /\ active'[t].attempt = a /\ active'[t].step \in {"kept", "recorded"}
    BY <1>2, <1>3 DEF Place, Here, Try
<1> DEFINE row == [old EXCEPT ![a] = r]
<1>8. /\ records'[s][t] = row
      /\ \A x \in Stage, u \in Topic : ~(x = s /\ u = t) => records'[x][u] = records[x][u]
    BY <1>1, <1>3 DEF Table
<1>9. /\ DOMAIN row = DOMAIN old /\ row # <<>> /\ row[a] = r /\ Len(row) = Len(old)
      /\ \A i \in DOMAIN old \ {a} : row[i] = old[i]
    <2>1. row \in Seq(Verdicts) /\ Len(row) = Len(old) /\ DOMAIN row = DOMAIN old
        BY <1>3, <1>4
    <2>2. QED BY <1>3, <1>4, <2>1
<1>10. a = Len(old) /\ Len(old) <= Attempts
    <2>1. a <= Len(old) /\ a \in Nat /\ Len(old) \in Nat
        BY <1>3, <1>4
    <2>2. QED BY <1>3, <2>1 DEF Tried
<1>11. Tried(records')
    <2> SUFFICES ASSUME NEW x \in Stage, NEW u \in Topic
                 PROVE  /\ Len(records'[x][u]) <= Attempts
                        /\ \A i \in DOMAIN records'[x][u] : i < Len(records'[x][u]) => records'[x][u][i] = "transient"
        BY DEF Tried
    <2>1. CASE x = s /\ u = t
        <3>1. \A i \in DOMAIN old : i < Len(old) => old[i] = "transient"
            BY <1>3 DEF Tried
        <3>2. \A i \in DOMAIN row : i < Len(row) => row[i] = "transient"
            <4>1. ~(a < Len(old))
                BY <1>10, <1>4
            <4> HIDE DEF row, old
            <4>2. QED BY <1>9, <3>1, <4>1
        <3>3. records'[x][u] = row
            BY <1>8, <2>1
        <3> HIDE DEF row, old
        <3>4. QED BY <1>9, <1>10, <2>1, <3>2, <3>3
    <2>2. CASE ~(x = s /\ u = t)
        BY <1>3, <1>8, <2>2 DEF Tried
    <2>3. QED BY <2>1, <2>2
<1> HIDE DEF row, old
<1>12. QED BY <1>2, <1>3, <1>5, <1>6, <1>7, <1>8, <1>11, WriteKeepsBudget

\* A finished topic has its outcome, whose cost is no more than was set aside.
LEMMA ProcessTopicKeepsBudget ==
    ASSUME TypedInv, BudgetInv, NEW t \in DOMAIN active, process_topic(t)
    PROVE  BudgetInv'
<1> DEFINE p == [active[t] EXCEPT !.step = "done"]
           status == Status(Here(t), records[Here(t)][t][Try(t)])
           row == [status |-> status, cost |-> CostOf(t)]
<1>1. /\ active[t].step = "finishing" /\ active' = [active EXCEPT ![t] = p]
      /\ outcomes' = [outcomes EXCEPT ![t] = row]
      /\ UNCHANGED <<mode, initialized, reused, records, queue, known>>
    BY DEF process_topic, Stays, Moves
<1>2. /\ t \in Topic /\ active[t] \in Place /\ StandsAt(records, t, active[t])
      /\ Orderly(records, outcomes, t, active[t])
    BY ThreadKnows DEF BudgetInv
<1>3. p.stage = active[t].stage /\ p.attempt = active[t].attempt /\ p.step = "done"
    BY <1>2 DEF Place
<1>4. Concluded(records, t)
    BY <1>1, <1>2 DEF Orderly
<1>5. mode = "full" /\ initialized
    BY ThreadKnows DEF TypedInv
<1>6. row.status # "none" /\ row.cost = CostOf(t)
    BY DEF Status
<1> HIDE DEF row, p
<1>7. outcomes'[t] = row /\ DOMAIN outcomes' = Topic /\ \A u \in Topic \ {t} : outcomes'[u] = outcomes[u]
    BY <1>1, <1>2 DEF BudgetInv, Reported
<1>8. /\ Charges' = Charges /\ \A u \in Topic : CostOf(u)' = CostOf(u)
    BY <1>1 DEF Charges, CostOf, Cost
<1>9. /\ DOMAIN active' = DOMAIN active /\ active'[t] = p
      /\ \A u \in DOMAIN active \ {t} : active'[u] = active[u]
    BY <1>1
<1>10. /\ Reported /\ Planned /\ Tried(records) /\ Open \subseteq Topic /\ Reached \subseteq Open
       /\ \A u \in Topic : Charges[u] \in Nat /\ Charges[u] \in 0..2 /\ Charges[u] = CostOf(u)
       /\ DOMAIN active \subseteq Topic /\ initialized
    BY <1>5, BudgetParts DEF TypedInv, TypedTypeOK
<1>11. Reported'
    <2>1. \A u \in Topic : outcomes'[u].cost \in Nat
        BY <1>2, <1>6, <1>7, <1>10 DEF Reported
    <2>2. \A u \in Topic : outcomes'[u].status # "none" => Concluded(records, u) /\ outcomes'[u].cost = CostOf(u)
        BY <1>4, <1>6, <1>7, <1>10 DEF Reported
    <2>3. QED BY <1>1, <1>7, <1>8, <1>10, <2>1, <2>2 DEF Reported
<1>12. Open' = Open \ {t}
    BY <1>2, <1>6, <1>7 DEF Open
<1>13. Covers(Charges, Open', Reached')
    <2>1. \A u \in Topic : Begun(u)' <=> Begun(u)
        BY <1>1, <1>8, <1>9 DEF Begun
    <2>2. CASE t \notin Open
        <3>1. Open' = Open /\ Reached' = Reached
            BY <1>10, <1>12, <2>1, <2>2 DEF Reached
        <3>2. QED BY <1>10, <3>1 DEF Planned
    <2>3. CASE t \in Open
        <3> DEFINE n == Cardinality(Reached)
                   rest == Topic \ Open
                   all == Topic \ Open'
                   left == Reached \ {t}
        <3>1. t \in Reached
            BY <1>2, <1>5, <2>3, TypedPilotAssumption DEF Reached, Begun, Topic
        <3>2. Reached' \subseteq left
            BY <1>10, <1>12, <2>1 DEF Reached
        <3>3. all \ {t} = rest /\ t \in all /\ IsFiniteSet(all) /\ IsFiniteSet(rest) /\ all \subseteq Topic
            BY <1>2, <1>12, <2>3, TopicFinite
        <3>4. SumFunctionOnSet(Charges, all) = Charges[t] + SumFunctionOnSet(Charges, rest)
            <4> HIDE DEF all, rest
            <4>1. QED BY <1>10, <3>3, SumTakes
        <3>5. SumFunctionOnSet(Charges, rest) \in Nat /\ Charges[t] \in 0..2
            BY <1>2, <1>10, <3>3, SumIsNat
        <3>6. Cardinality(left) = n - 1 /\ n \in Nat /\ n - 1 \in Nat
            <4>1. IsFiniteSet(Reached) /\ n \in Nat /\ Cardinality(left) \in Nat
                BY <1>10, TopicFinite
            <4>2. Cardinality(left) = n - 1
                BY <3>1, <4>1, FS_RemoveElement
            <4>3. QED BY <4>1, <4>2
        <3>7. SumFunctionOnSet(Charges, rest) + Reserve * n <= Budget
            BY <1>10 DEF Planned, Covers
        <3>8. Reserve \in Nat /\ Reserve >= 2 /\ Budget \in Nat
            BY TypedRunAssumption
        <3>9. Reserve * n = Reserve * (n - 1) + Reserve /\ Reserve * (n - 1) \in Nat
            <4> HIDE DEF n
            <4>1. QED BY <3>6, <3>8
        <3>10. SumFunctionOnSet(Charges, all) + Reserve * (n - 1) <= Budget
            <4> HIDE DEF n, all, rest
            <4>1. QED BY <3>4, <3>5, <3>7, <3>8, <3>9
        <3>11. Covers(Charges, Open', left)
            BY <3>6, <3>10 DEF Covers
        <3>12. left \in SUBSET Topic
            BY <1>10
        <3> HIDE DEF left
        <3>13. QED BY <1>10, <3>2, <3>11, <3>12, CoversLess
    <2>4. QED BY <2>2, <2>3
<1>14. Planned'
    <2>1. Open' \subseteq queue \union DOMAIN active /\ known \in [Topic -> Nat]
        BY <1>5, <1>10, <1>12 DEF Planned
    <2>2. \A u \in (Topic \ Open') \ DOMAIN active : known[u] = CostOf(u)
        BY <1>5, <1>10, <1>12 DEF Planned
    <2>3. QED BY <1>1, <1>8, <1>9, <1>13, <2>1, <2>2 DEF Planned
<1>15. \A u \in DOMAIN active' : Orderly(records, outcomes', u, active'[u])
    <2>1. Orderly(records, outcomes', t, active'[t])
        BY <1>2, <1>3, <1>6, <1>7, <1>9 DEF Orderly
    <2>2. \A u \in DOMAIN active \ {t} : Orderly(records, outcomes', u, active'[u])
        BY <1>7, <1>9, <1>10 DEF BudgetInv, Orderly
    <2>3. QED BY <1>9, <2>1, <2>2
<1>16. QED BY <1>1, <1>10, <1>11, <1>14, <1>15 DEF BudgetInv

\* Counting the finished topics.
LEMMA CollectKeepsBudget ==
    ASSUME TypedInv, BudgetInv, Collect
    PROVE  BudgetInv'
<1> DEFINE done == {t \in DOMAIN active : active[t].step = "done"}
<1>1. /\ mode = "full" /\ active' = [t \in DOMAIN active \ done |-> active[t]]
      /\ known' = [t \in Topic |-> IF t \in done THEN outcomes[t].cost ELSE known[t]]
      /\ UNCHANGED <<mode, initialized, reused, records, outcomes, queue>>
    BY DEF Collect, typedFiles
<1>2. DOMAIN active' = DOMAIN active \ done /\ \A u \in DOMAIN active' : active'[u] = active[u]
    BY <1>1
<1>3. /\ Charges' = Charges /\ Open' = Open
      /\ \A u \in Topic : CostOf(u)' = CostOf(u)
      /\ Reported'
    BY <1>1, FilesKept DEF BudgetInv
<1>4. Planned /\ Reported /\ DOMAIN active \subseteq Topic
    BY DEF BudgetInv, TypedInv, TypedTypeOK
<1>5. \A t \in done : t \in Topic \ Open /\ outcomes[t].cost = CostOf(t)
    BY <1>4 DEF BudgetInv, Orderly, Open, Reported
<1> HIDE DEF done
<1>6. Reached' = Reached
    BY <1>2, <1>3, <1>5 DEF Reached, Begun, Open
<1>7. Planned'
    <2>1. Open \subseteq queue \union DOMAIN active'
        BY <1>1, <1>2, <1>4, <1>5 DEF Planned
    <2>2. known' \in [Topic -> Nat]
        BY <1>1, <1>4 DEF Planned, Reported
    <2>3. \A u \in (Topic \ Open) \ DOMAIN active' : known'[u] = CostOf(u)
        BY <1>1, <1>2, <1>4, <1>5 DEF Planned
    <2>4. QED BY <1>1, <1>3, <1>4, <1>6, <2>1, <2>2, <2>3 DEF Planned
<1>8. \A u \in DOMAIN active' : Orderly(records, outcomes, u, active'[u])
    BY <1>2 DEF BudgetInv
<1>9. QED BY <1>1, <1>3, <1>7, <1>8 DEF BudgetInv

\* One more topic is started: what the main thread knows, and what it sets aside for each topic
\* under way and for this one, cover all that may have been charged.
LEMMA StartTopicKeepsBudget ==
    ASSUME TypedInv, BudgetInv, StartTopic
    PROVE  BudgetInv'
<1>1. /\ mode = "full" /\ queue # {} /\ UNCHANGED <<mode, initialized, reused, records, outcomes, known>>
    BY DEF StartTopic, MayStart, typedFiles
<1>2. /\ Charges' = Charges /\ Open' = Open
      /\ \A u \in Topic : CostOf(u)' = CostOf(u)
      /\ Reported'
    BY <1>1, FilesKept DEF BudgetInv
<1>3. /\ Tried(records) /\ Planned /\ Open \subseteq Topic /\ Reached \subseteq Open
      /\ \A u \in Topic : Charges[u] \in Nat /\ Charges[u] \in 0..2 /\ Charges[u] = CostOf(u)
      /\ queue \subseteq Topic /\ DOMAIN active \subseteq Topic
    BY BudgetParts DEF TypedInv, TypedTypeOK
<1>4. CASE UNCHANGED <<queue, active>>
    <2>1. Reached' = Reached
        BY <1>1, <1>2, <1>4 DEF Reached, Begun, Open
    <2>2. Planned'
        BY <1>1, <1>2, <1>3, <1>4, <2>1 DEF Planned
    <2>3. \A u \in DOMAIN active' : Orderly(records, outcomes, u, active'[u])
        BY <1>4 DEF BudgetInv
    <2>4. QED BY <1>1, <1>2, <1>3, <2>2, <2>3 DEF BudgetInv
<1>5. CASE ~UNCHANGED <<queue, active>>
    <2> DEFINE f == First
               A == DOMAIN active
               p == Step("generation", 1, "look")
    <2>1. queue' = queue \ {f} /\ active' = With(active, f, p) /\ WithinReach
        BY <1>5 DEF StartTopic
    <2>2. f \in queue /\ f \in Topic /\ \A u \in queue : f <= u
        <3>1. queue \subseteq Nat /\ queue # {}
            BY <1>1, <1>3, TypedPilotAssumption DEF Topic
        <3>2. QED BY <1>3, <3>1, LeastPosition DEF First
    <2>3. p.attempt = 1 /\ p.step = "look"
        BY DEF Step
    <2>4. Orderly(records, outcomes, f, p)
        BY <2>3, TypedRunAssumption DEF Orderly
    <2> HIDE DEF f, p
    <2>5. /\ DOMAIN active' = A \union {f} /\ active'[f] = p
          /\ \A u \in A \ {f} : active'[u] = active[u]
        BY <2>1 DEF With
    <2>6. \A u \in DOMAIN active' : Orderly(records, outcomes, u, active'[u])
        BY <2>4, <2>5 DEF BudgetInv
    <2>7. \A u \in Topic : Begun(u)' <=> Begun(u) \/ u = f
        BY <1>1, <1>2, <2>2, <2>5 DEF Begun
    <2>8. Open' \subseteq queue' \union DOMAIN active'
        BY <1>1, <1>2, <1>3, <2>1, <2>5 DEF Planned
    <2>9. known \in [Topic -> Nat] /\ \A u \in (Topic \ Open) \ A : known[u] = CostOf(u)
        BY <1>1, <1>3 DEF Planned
    <2>10. Covers(Charges, Open, Reached')
        <3>1. CASE f \notin Open \/ f \in Reached
            <4>1. Reached' \subseteq Reached
                <5>1. ASSUME NEW u \in Open, NEW v \in Open, u <= v, Begun(v)'
                      PROVE  u \in Reached
                    <6>1. CASE Begun(v)
                        BY <5>1, <6>1 DEF Reached
                    <6>2. CASE v = f /\ f \in Reached
                        <7>1. PICK w \in Open : v <= w /\ Begun(w)
                            BY <6>2 DEF Reached
                        <7>2. u <= w
                            BY <1>3, <5>1, <7>1, TypedPilotAssumption DEF Topic
                        <7>3. QED BY <5>1, <7>1, <7>2 DEF Reached
                    <6>3. QED BY <1>3, <2>7, <3>1, <5>1, <6>1, <6>2
                <5>2. QED BY <1>2, <5>1 DEF Reached
            <4>2. Reached \in SUBSET Topic /\ Covers(Charges, Open, Reached)
                BY <1>3 DEF Planned
            <4>3. QED BY <1>3, <4>1, <4>2, CoversLess
        <3>2. CASE f \in Open /\ f \notin Reached
            <4> DEFINE shut == Topic \ Open
                       near == (A \intersect Open) \union {f}
                       a == Cardinality(A \intersect Open)
                       b == Cardinality(A \ Open)
            <4>1. Reached' \subseteq near
                <5>1. ASSUME NEW u \in Open, NEW v \in Open, u <= v, Begun(v)'
                      PROVE  u \in near
                    <6>1. u \in Nat /\ v \in Nat /\ f \in Nat
                        BY <1>3, <2>2, TypedPilotAssumption DEF Topic
                    <6>2. ~(f <= v /\ Begun(v))
                        BY <3>2, <5>1 DEF Reached
                    <6>3. u <= f
                        <7>1. v = f \/ Begun(v)
                            BY <1>3, <2>7, <5>1
                        <7>2. QED BY <5>1, <6>1, <6>2, <7>1
                    <6>4. u \in queue => u = f
                        BY <2>2, <6>1, <6>3
                    <6>5. u \in queue \union A
                        BY <1>1, <1>3, <5>1 DEF Planned
                    <6>6. QED BY <5>1, <6>4, <6>5
                <5>2. QED BY <1>2, <5>1 DEF Reached
            <4>2. /\ IsFiniteSet(A) /\ IsFiniteSet(A \intersect Open) /\ IsFiniteSet(A \ Open) /\ IsFiniteSet(near)
                  /\ a \in Nat /\ b \in Nat /\ Cardinality(near) \in Nat /\ Cardinality(A) \in Nat
                  /\ IsFiniteSet(shut) /\ IsFiniteSet(shut \ A) /\ near \in SUBSET Topic
                BY <1>3, <2>2, TopicFinite
            <4>3. Cardinality(A) = a + b
                <5> DEFINE X == A \intersect Open
                           Y == A \ Open
                <5>1. X \union Y = A /\ X \intersect Y = {}
                    OBVIOUS
                <5>2. IsFiniteSet(X) /\ IsFiniteSet(Y)
                    BY <4>2
                <5> HIDE DEF X, Y
                <5>3. Cardinality(X \union Y) = Cardinality(X) + Cardinality(Y) - Cardinality(X \intersect Y)
                    BY <5>2, FS_Union
                <5>4. Cardinality(X \intersect Y) = 0 /\ Cardinality(X) \in Nat /\ Cardinality(Y) \in Nat
                    BY <5>1, <5>2, FS_EmptySet, FS_CardinalityType
                <5>5. Cardinality(A) = Cardinality(X) + Cardinality(Y)
                    BY <5>1, <5>3, <5>4
                <5>6. QED BY <5>5 DEF X, Y
            <4>4. Cardinality(near) <= a + 1
                <5> DEFINE X == A \intersect Open
                <5>1. CASE f \in X
                    <6>1. near = X
                        BY <5>1
                    <6>2. QED BY <4>2, <6>1
                <5>2. CASE f \notin X
                    <6> HIDE DEF X
                    <6>1. IsFiniteSet(X)
                        BY <4>2 DEF X
                    <6>2. Cardinality(X \union {f}) = Cardinality(X) + 1
                        BY <5>2, <6>1, FS_AddElement
                    <6>3. QED BY <4>2, <6>2 DEF X
                <5>3. QED BY <5>1, <5>2
            \* What is charged to topics with an outcome, counted or not yet.
            <4>5. SumFunctionOnSet(Charges, shut) <= SumFunctionOnSet(known, Topic) + Reserve * b
                <5> DEFINE late == A \ Open
                           told == shut \ late
                <5>1. late \in SUBSET shut /\ late \subseteq Topic /\ told \in SUBSET Topic /\ IsFiniteSet(late)
                      /\ IsFiniteSet(told) /\ IsFiniteSet(Topic) /\ shut \subseteq Topic /\ b = Cardinality(late)
                    BY <1>3, TopicFinite
                <5>2. \A u \in told : Charges[u] \in Nat /\ known[u] = Charges[u]
                    BY <1>3, <2>9
                <5>3. \A u \in late : Charges[u] \in 0..Reserve
                    <6>1. \A u \in late : Charges[u] \in 0..2
                        BY <1>3
                    <6>2. QED BY <6>1, TypedRunAssumption
                <5>4. \A u \in Topic : known[u] \in Nat /\ Charges[u] \in Nat
                    BY <1>3, <2>9
                <5>5. IsFiniteSet(shut) /\ Reserve \in Nat
                    BY <4>2, TypedRunAssumption
                <5> HIDE DEF late, shut, b
                <5>6. SumFunctionOnSet(Charges, shut) = SumFunctionOnSet(Charges, late) + SumFunctionOnSet(Charges, shut \ late)
                    BY <5>1, <5>4, <5>5, SumSplits
                <5>7. SumFunctionOnSet(Charges, told) = SumFunctionOnSet(known, told)
                    <6> HIDE DEF told
                    <6>1. QED BY <5>1, <5>2, SumSame
                <5>8. SumFunctionOnSet(known, Topic) = SumFunctionOnSet(known, told) + SumFunctionOnSet(known, Topic \ told)
                    <6> HIDE DEF told
                    <6>1. QED BY <5>1, <5>4, SumSplits
                <5>9. SumFunctionOnSet(Charges, late) <= Reserve * b
                    BY <5>1, <5>3, <5>5, SumBounded
                <5>10. /\ SumFunctionOnSet(Charges, late) \in Nat /\ SumFunctionOnSet(known, told) \in Nat
                       /\ SumFunctionOnSet(known, Topic \ told) \in Nat
                    <6>1. IsFiniteSet(Topic \ told)
                        BY TopicFinite
                    <6> HIDE DEF told
                    <6>2. QED BY <5>1, <5>4, <6>1, SumIsNat
                <5>11. Reserve * b \in Nat
                    <6>1. b \in Nat
                        BY <4>2 DEF b
                    <6>2. QED BY <5>5, <6>1
                <5>12. SumFunctionOnSet(Charges, shut) = SumFunctionOnSet(Charges, late) + SumFunctionOnSet(known, told)
                    BY <5>6, <5>7
                <5> HIDE DEF told
                <5>13. QED BY <5>8, <5>9, <5>10, <5>11, <5>12
            <4>6. SumFunctionOnSet(known, Topic) + Reserve * (a + b + 1) <= Budget
                <5>1. DOMAIN known = Topic
                    BY <2>9
                <5>2. QED BY <2>1, <4>3, <5>1 DEF WithinReach, SumFunction
            <4>7. SumFunctionOnSet(known, Topic) \in Nat /\ SumFunctionOnSet(Charges, shut) \in Nat
                BY <1>3, <2>9, <4>2, TopicFinite, SumIsNat
            <4>8. Reserve \in Nat /\ Budget \in Nat
                BY TypedRunAssumption
            <4>9. Reserve * (a + b + 1) = Reserve * b + Reserve * (a + 1) /\ Reserve * b \in Nat /\ Reserve * (a + 1) \in Nat
                <5> HIDE DEF a, b
                <5>1. QED BY <4>2, <4>8
            <4>10. Reserve * Cardinality(near) <= Reserve * (a + 1) /\ Reserve * Cardinality(near) \in Nat
                <5> HIDE DEF a, near
                <5>1. a + 1 \in Nat
                    BY <4>2
                <5>2. QED BY <4>2, <4>4, <4>8, <5>1, TimesMonotone
            <4>11. SumFunctionOnSet(Charges, shut) + Reserve * Cardinality(near) <= Budget
                <5> HIDE DEF a, b, near, shut
                <5>1. QED BY <4>5, <4>6, <4>7, <4>8, <4>9, <4>10
            <4>12. Covers(Charges, Open, near)
                BY <4>11 DEF Covers
            <4> HIDE DEF near
            <4>13. QED BY <1>3, <4>1, <4>2, <4>12, CoversLess
        <3>3. QED BY <3>1, <3>2
    <2>11. Planned'
        BY <1>1, <1>2, <2>5, <2>8, <2>9, <2>10 DEF Planned
    <2>12. QED BY <1>1, <1>2, <1>3, <2>6, <2>11 DEF BudgetInv
<1>6. QED BY <1>4, <1>5

\* Starting and ending invocations.
LEMMA BeginKeepsBudget ==
    ASSUME TypedInv, BudgetInv, run_full
    PROVE  BudgetInv'
<1>1. /\ DOMAIN active = {} /\ UNCHANGED <<initialized, reused, records, outcomes, active>>
      /\ mode' = "full" /\ queue' = {t \in Topic : outcomes[t].status # "completed"}
      /\ known' = [t \in Topic |-> outcomes[t].cost]
    BY DEF run_full, NewQueue, typedFiles, TypedInv
<1>2. /\ Charges' = Charges /\ Open' = Open
      /\ \A u \in Topic : CostOf(u)' = CostOf(u)
      /\ Reported'
    BY <1>1, FilesKept DEF BudgetInv
<1>3. Tried(records) /\ Reported /\ Planned
    BY BudgetParts
<1>4. Reached' = Reached
    BY <1>1, <1>2 DEF Reached, Begun, Open
<1>5. Open \subseteq queue'
    BY <1>1 DEF Open
<1>6. known' \in [Topic -> Nat] /\ \A t \in Topic \ Open : known'[t] = CostOf(t)
    BY <1>1, <1>3 DEF Reported, Open
<1>7. Planned'
    BY <1>1, <1>2, <1>3, <1>4, <1>5, <1>6 DEF Planned
<1>8. QED BY <1>1, <1>2, <1>3, <1>7 DEF BudgetInv

LEMMA EndKeepsBudget ==
    ASSUME TypedInv, BudgetInv, Finish \/ Crash
    PROVE  BudgetInv'
<1>1. /\ mode' = "off" /\ DOMAIN active' = {} /\ UNCHANGED <<initialized, reused, records, outcomes>>
    <2>1. active' = <<>>
        BY DEF Finish, Crash, Ends
    <2>2. QED BY <2>1 DEF Finish, Crash, Ends, typedFiles
<1>2. /\ Charges' = Charges /\ Open' = Open
      /\ \A u \in Topic : CostOf(u)' = CostOf(u)
      /\ Reported'
    BY <1>1, FilesKept DEF BudgetInv
<1>3. /\ Tried(records) /\ Planned /\ Reached \in SUBSET Topic
      /\ \A t \in Topic : Charges[t] \in Nat
    BY BudgetParts
<1>4. Reached' \subseteq Reached
    BY <1>1, <1>2 DEF Reached, Begun, Open
<1>5. Covers(Charges, Open, Reached')
    BY <1>3, <1>4, CoversLess DEF Planned
<1>6. Planned'
    BY <1>1, <1>2, <1>3, <1>5 DEF Planned
<1>7. QED BY <1>1, <1>2, <1>3, <1>6 DEF BudgetInv

\* Before the full run has its manifest nothing is charged to it, and what it takes over is free.
LEMMA NothingCharged ==
    ASSUME NEW charges
    PROVE  Covers(charges, Topic, {})
<1>1. SumFunctionOnSet(charges, {}) = 0 /\ Cardinality({}) = 0
    BY SumOfNone, FS_EmptySet
<1>2. Topic \ Topic = {}
    OBVIOUS
<1>3. Reserve * Cardinality({}) = 0 /\ SumFunctionOnSet(charges, Topic \ Topic) = 0
    BY <1>1, <1>2, TypedRunAssumption
<1>4. QED BY <1>3, TypedRunAssumption DEF Covers

LEMMA CopyKeepsBudget ==
    ASSUME TypedInv, BudgetInv, CopyDraft
    PROVE  BudgetInv'
<1>1. /\ records' \in Table /\ UNCHANGED <<mode, initialized, outcomes, active>>
      /\ mode = "init" /\ ~initialized /\ DOMAIN active = {}
      /\ \A t \in Topic : records'["correction"][t] = <<>>
      /\ \A t \in Topic : TakenOver(records', reused', t)
    BY CopyWrites
<1>2. Reported
    BY BudgetParts
<1>3. Tried(records')
    <2> SUFFICES ASSUME NEW s \in Stage, NEW t \in Topic
                 PROVE  /\ Len(records'[s][t]) <= Attempts
                        /\ \A i \in DOMAIN records'[s][t] : i < Len(records'[s][t]) => records'[s][t][i] = "transient"
        BY DEF Tried
    <2>1. records'[s][t] \in {<<>>, <<"clean">>, <<"flagged">>}
        BY <1>1 DEF Stage, TakenOver
    <2>2. 0 <= Attempts /\ 1 <= Attempts
        BY TypedRunAssumption
    <2> DEFINE row == records'[s][t]
    <2> HIDE DEF row
    <2>3. row \in {<<>>, <<"clean">>, <<"flagged">>}
        BY <2>1 DEF row
    <2>4. Len(row) <= 1 /\ \A i \in DOMAIN row : ~(i < Len(row))
        <3>1. CASE row = <<>>
            BY <3>1
        <3>2. CASE row = <<"clean">>
            BY <3>2
        <3>3. CASE row = <<"flagged">>
            BY <3>3
        <3>4. QED BY <2>3, <3>1, <3>2, <3>3
    <2>5. QED BY <2>2, <2>3, <2>4 DEF row
<1>4. \A t \in Topic : CostOf(t)' = 0
    <2> SUFFICES ASSUME NEW t \in Topic PROVE CostOf(t)' = 0
        OBVIOUS
    <2>1. Answers(records', "correction", t) = 0 /\ (t \notin reused' => Answers(records', "generation", t) = 0)
        BY <1>1, <1>3, OneAnswer DEF Stage, TakenOver
    <2>2. CostOf(t)' = (IF t \in reused' THEN 0 ELSE Answers(records', "generation", t)) + Answers(records', "correction", t)
        BY DEF CostOf, Cost, Answers
    <2>3. QED BY <2>1, <2>2
<1>5. Open' = Topic /\ Reached' = {}
    <2>1. Open' = Topic
        BY <1>1, <1>2 DEF Open, Reported
    <2>2. \A t \in Topic : ~Begun(t)'
        BY <1>1, <1>4 DEF Begun
    <2>3. QED BY <2>1, <2>2 DEF Reached
<1>6. Planned'
    <2>1. Covers(Charges', Topic, {})
        BY NothingCharged
    <2>2. QED BY <1>1, <1>5, <2>1 DEF Planned
<1>7. Reported'
    BY <1>1, <1>2 DEF Reported
<1>8. QED BY <1>1, <1>3, <1>6, <1>7 DEF BudgetInv

\* The rest of preparing, a marker removed, and what the pilot does.
LEMMA OthersKeepBudget ==
    ASSUME TypedInv, BudgetInv, UNCHANGED <<reused, records, outcomes, active>>, initialized => initialized',
           mode' = "full" => mode = "full" /\ UNCHANGED <<queue, known>>
    PROVE  BudgetInv'
<1>1. /\ Charges' = Charges /\ Open' = Open
      /\ \A u \in Topic : CostOf(u)' = CostOf(u)
      /\ Reported'
    BY FilesKept DEF BudgetInv
<1>2. Reached' = Reached
    BY <1>1 DEF Reached, Begun, Open
<1>3. Planned'
    BY <1>1, <1>2 DEF BudgetInv, Planned
<1>4. QED BY <1>1, <1>3 DEF BudgetInv

LEMMA BudgetStart == TypedInit => BudgetInv
<1> SUFFICES ASSUME TypedInit PROVE BudgetInv
    OBVIOUS
<1>1. /\ mode = "off" /\ reused = {} /\ DOMAIN active = {} /\ outcomes = [t \in Topic |-> NoOutcome]
      /\ \A s \in Stage, t \in Topic : records[s][t] = <<>>
    BY DEF TypedInit
<1>2. Tried(records) /\ records \in Table
    <2>1. 0 <= Attempts
        BY TypedRunAssumption
    <2>2. records \in Table
        BY DEF TypedInit, Table
    <2>3. QED BY <1>1, <2>1, <2>2 DEF Tried
<1>3. \A t \in Topic : CostOf(t) = 0
    <2> SUFFICES ASSUME NEW t \in Topic PROVE CostOf(t) = 0
        OBVIOUS
    <2>1. Answers(records, "generation", t) = 0 /\ Answers(records, "correction", t) = 0
        BY <1>1, <1>2, OneAnswer DEF Stage
    <2>2. QED BY <2>1 DEF CostOf, Cost, Answers
<1>4. Open = Topic /\ Reached = {}
    <2>1. Open = Topic
        BY <1>1 DEF Open, NoOutcome
    <2>2. \A t \in Topic : ~Begun(t)
        BY <1>1, <1>3 DEF Begun
    <2>3. QED BY <2>1, <2>2 DEF Reached
<1>5. Planned
    <2>1. Covers(Charges, Topic, {})
        BY NothingCharged
    <2>2. QED BY <1>1, <1>4, <2>1 DEF Planned
<1>6. Reported
    BY <1>1 DEF Reported, NoOutcome
<1>7. QED BY <1>1, <1>2, <1>5, <1>6 DEF BudgetInv

LEMMA BudgetStep == TypedInv /\ BudgetInv /\ [TypedNext]_typedVars => BudgetInv'
<1> SUFFICES ASSUME TypedInv, BudgetInv, [TypedNext]_typedVars PROVE BudgetInv'
    OBVIOUS
<1>1. CASE UNCHANGED fullVars
    BY <1>1, OthersKeepBudget DEF fullVars
<1>2. CASE initialize \/ Freeze \/ \E s \in Stage, t \in Topic : <<s, t>> \in DOMAIN inflight /\ Inspect(s, t)
    <2>1. UNCHANGED <<reused, records, outcomes, active>>
        BY <1>2 DEF initialize, Freeze, Inspect, typedFiles
    <2>2. initialized => initialized'
        BY <1>2 DEF initialize, Freeze, Inspect, typedFiles
    <2>3. mode' = "full" => mode = "full" /\ UNCHANGED <<queue, known>>
        BY <1>2 DEF initialize, Freeze, Inspect, NewQueue
    <2>4. QED BY <2>1, <2>2, <2>3, OthersKeepBudget
<1>3. ASSUME NEW t \in DOMAIN active,
             Replay(t) \/ Ask(t) \/ Answered(t) \/ validate(t) \/ Unmark(t) \/ process_topic(t)
      PROVE  BudgetInv'
    BY <1>3, ReplayKeepsBudget, AskKeepsBudget, AnsweredKeepsBudget, ValidateKeepsBudget,
       ProcessTopicKeepsBudget
<1>4. CASE FullNext
    BY <1>2, <1>3, <1>4, BeginKeepsBudget, EndKeepsBudget, CopyKeepsBudget, StartTopicKeepsBudget,
       CollectKeepsBudget DEF FullNext
<1>5. QED BY <1>1, <1>4 DEF TypedNext, typedVars

\* Topics without an outcome that were charged are among those the plan reaches, and no topic
\* costs more than the reserve.
LEMMA PlanCovers ==
    ASSUME TypedInv, BudgetInv
    PROVE  SumFunction(Charges) <= Budget
<1>1. /\ Planned /\ Open \subseteq Topic /\ Reached \subseteq Open
      /\ \A t \in Topic : /\ Charges[t] \in Nat /\ Charges[t] \in 0..2 /\ Charges[t] = CostOf(t)
    BY BudgetParts
<1> DEFINE rest == Open \ Reached
           n == Cardinality(Reached)
<1>2. \A t \in Open : Begun(t) => t \in Reached
    BY <1>1, TypedPilotAssumption DEF Reached, Topic
<1>3. \A t \in rest : Charges[t] \in 0..0
    BY <1>1, <1>2 DEF Begun
<1>4. \A t \in Reached : Charges[t] \in 0..Reserve
    <2>1. \A t \in Reached : Charges[t] \in 0..2
        BY <1>1
    <2>2. QED BY <2>1, TypedRunAssumption
<1>5. /\ IsFiniteSet(Topic) /\ IsFiniteSet(Open) /\ IsFiniteSet(Reached) /\ IsFiniteSet(rest)
      /\ IsFiniteSet(Topic \ Open) /\ n \in Nat /\ Cardinality(rest) \in Nat
    BY <1>1, TopicFinite
<1>6. Reserve \in Nat /\ Budget \in Nat
    BY TypedRunAssumption
<1>7. SumFunctionOnSet(Charges, Topic) = SumFunctionOnSet(Charges, Open) + SumFunctionOnSet(Charges, Topic \ Open)
    BY <1>1, <1>5, SumSplits
<1>8. SumFunctionOnSet(Charges, Open) = SumFunctionOnSet(Charges, Reached) + SumFunctionOnSet(Charges, rest)
    BY <1>1, <1>5, SumSplits
<1>9. SumFunctionOnSet(Charges, Reached) <= Reserve * n
    BY <1>4, <1>5, <1>6, SumBounded
<1>10. SumFunctionOnSet(Charges, rest) <= 0
    <2> HIDE DEF rest
    <2>1. SumFunctionOnSet(Charges, rest) <= 0 * Cardinality(rest)
        BY <1>3, <1>5, SumBounded
    <2>2. 0 * Cardinality(rest) = 0
        BY <1>5
    <2>3. QED BY <2>1, <2>2
<1>11. /\ SumFunctionOnSet(Charges, Reached) \in Nat /\ SumFunctionOnSet(Charges, rest) \in Nat
       /\ SumFunctionOnSet(Charges, Topic \ Open) \in Nat
    BY <1>1, <1>5, SumIsNat
<1>12. SumFunctionOnSet(Charges, Topic \ Open) + Reserve * n <= Budget /\ Reserve * n \in Nat
    BY <1>1, <1>5, <1>6 DEF Planned, Covers
<1>13. SumFunctionOnSet(Charges, Topic) <= Budget
    <2> HIDE DEF rest, n
    <2>1. QED BY <1>6, <1>7, <1>8, <1>9, <1>10, <1>11, <1>12
<1>14. SumFunction(Charges) = SumFunctionOnSet(Charges, Topic)
    BY DEF SumFunction, Charges
<1>15. QED BY <1>13, <1>14

\* The typed runs stay within their budgets for any topics, threads, attempts and reserve, although
\* an invocation that died leaves charges that no outcome counts (main,
\* typed_question_full.py).
THEOREM BudgetsHold == TypedSpec => []WithinBudget
<1>1. TypedInit => TypedInv /\ BudgetInv
    BY TypedStart, BudgetStart
<1>2. TypedInv /\ BudgetInv /\ [TypedNext]_typedVars => TypedInv' /\ BudgetInv'
    BY TypedStep, BudgetStep
<1>3. PilotInv /\ TypedInv /\ BudgetInv => WithinBudget
    BY PilotKeepsToIt, PlanCovers DEF WithinBudget
<1>4. QED BY <1>1, <1>2, <1>3, PilotStart, PilotStep, PilotApart, PTL DEF TypedSpec

-----------------------------------------------------------------------------
(* The scripts side by side.                                               *)

\* Each of the paid runs goes its own way in the composition.
LEMMA RunsApart == Spec => TypedSpec /\ TopicSpec
<1>1. Init => TypedInit /\ TopicInit
    BY DEF Init
<1>2. [Next]_researchVars => [TypedNext]_typedVars /\ [TopicNext]_topicVars
    BY DEF Next, researchVars
<1>3. QED BY <1>1, <1>2, PTL DEF Spec, TypedSpec, TopicSpec

\* No script sends a paid request of its own twice, and what was charged stays within each one's
\* budget or guardrail (typed_question_pilot.py, typed_question_full.py and luna_topic_batch.py:
\* markers before requests, records before results, reservations).
THEOREM SpendingStaysPlanned == Spec => []SpentAsPlanned
<1>1. AskedOnce /\ WithinBudget /\ RequestedOnce /\ WithinGuardrail => SpentAsPlanned
    BY DEF SpentAsPlanned
<1>2. QED BY <1>1, RunsApart, TypedRequestsOnce, BudgetsHold, TopicsAreRequestedOnce, GuardrailHolds, PTL
=============================================================================
