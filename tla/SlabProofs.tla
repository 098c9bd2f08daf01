----------------------------- MODULE SlabProofs -----------------------------
(***************************************************************************)
(* Proofs about Slab: what slab_init() makes of its constants and what     *)
(* slab_clsid() finds in the result, the inductive invariant that keeps    *)
(* every chunk in one place, and why the limit on the memory holds         *)
(* although mem_malloced has no lock.                                      *)
(***************************************************************************)
EXTENDS Slab, FiniteSetTheorems, NaturalsInduction, WellFoundedInduction, TLAPS

-----------------------------------------------------------------------------
(* The size classes.                                                       *)

\* Every non-empty set of natural numbers has a least element.
LEMMA LeastNumber ==
    ASSUME NEW S \in SUBSET Nat, S # {}
    PROVE  \E m \in S : \A k \in S : m <= k
<1>1. PICK m \in S : \A k \in S : ~ (<<k, m>> \in OpToRel(<, Nat))
  BY WFMin, NatLessThanWellFounded, Zenon
<1>2. \A k \in S : ~ (k < m)
  BY <1>1, Zenon DEF OpToRel
<1> QED
  BY <1>2

\* The size that follows x in the loop of slab_init().
Grown(x) == (Align(x) * FactorNum) \div FactorDen

\* Alignment adds less than CHUNK_ALIGN_BYTES.
LEMMA AlignGrows ==
    ASSUME NEW x \in Nat
    PROVE  /\ Align(x) \in Nat /\ x <= Align(x) /\ Align(x) < x + CHUNK_ALIGN_BYTES
<1>1. CHUNK_ALIGN_BYTES \in Nat \ {0}
  BY SlabClassesAssumption
<1>2. x % CHUNK_ALIGN_BYTES \in 0 .. CHUNK_ALIGN_BYTES - 1
  BY <1>1
<1> QED
  BY <1>1, <1>2 DEF Align

\* Division undoes a product.
LEMMA DivAtLeast ==
    ASSUME NEW a \in Nat, NEW b \in Nat, NEW d \in Nat \ {0}, a >= b * d
    PROVE  a \div d \in Nat /\ a \div d >= b
<1>1. PICK q \in Int : q = a \div d
  OBVIOUS
<1>2. d * q <= a /\ a < d * q + d
  BY <1>1, SMTT(30)
<1>3. CASE q >= b
  <2>1. q \in Nat
    BY <1>3
  <2> QED
    BY <1>1, <1>3, <2>1
<1>4. CASE q <= b - 1
  <2>1. d * q <= d * (b - 1)
    BY <1>4
  <2>2. d * (b - 1) = b * d - d
    OBVIOUS
  <2>3. d * q \in Int /\ b * d \in Int
    OBVIOUS
  <2> QED
    BY <1>2, <2>1, <2>2, <2>3
<1> QED
  BY <1>3, <1>4

\* From TINY_SIZE on, the factor makes a size grow.
LEMMA GrownGrows ==
    ASSUME NEW x \in Nat
    PROVE  Grown(x) \in Nat /\ (x >= TINY_SIZE => Grown(x) > Align(x))
<1>0. /\ FactorNum \in Nat /\ FactorDen \in Nat \ {0} /\ FactorNum > FactorDen /\ TINY_SIZE \in Nat
      /\ TINY_SIZE * (FactorNum - FactorDen) >= FactorDen
  BY SlabClassesAssumption
<1>1. PICK a \in Nat : a = Align(x) /\ x <= a
  BY AlignGrows
<1>2. a * FactorNum \in Nat /\ a * FactorNum >= 0 * FactorDen
  BY <1>0
<1>3. Grown(x) \in Nat
  BY <1>0, <1>1, <1>2, DivAtLeast DEF Grown
<1>4. ASSUME x >= TINY_SIZE PROVE Grown(x) > a
  <2>1. PICK e \in Nat : e = FactorNum - FactorDen
    BY <1>0
  <2>2. a * e >= TINY_SIZE * e
    BY <1>0, <1>1, <1>4, <2>1
  <2>3. a * FactorNum = a * FactorDen + a * e
    BY <1>0, <2>1
  <2>4. (a + 1) * FactorDen = a * FactorDen + FactorDen
    BY <1>0
  <2>5. a * FactorNum \in Nat /\ a * FactorDen \in Nat /\ a * e \in Nat /\ TINY_SIZE * e \in Nat
    BY <1>0
  <2>6. a * FactorNum >= (a + 1) * FactorDen
    BY <1>0, <2>1, <2>2, <2>3, <2>4, <2>5
  <2>7. (a * FactorNum) \div FactorDen >= a + 1
    BY <1>0, <2>5, <2>6, DivAtLeast
  <2> QED
    BY <1>1, <1>3, <2>7 DEF Grown
<1> QED
  BY <1>1, <1>3, <1>4

\* The loop's sizes exist: as many as one likes, one after the other.
LEMMA LoopSizesExist ==
    ASSUME NEW n \in Nat \ {0}
    PROVE  \E f \in [1 .. n -> Nat] : \A i \in 1 .. n : f[i] = IF i = 1 THEN TINY_SIZE ELSE Grown(f[i - 1])
<1> DEFINE Sizes1(m) ==
             \E f \in [1 .. m -> Nat] : \A i \in 1 .. m : f[i] = IF i = 1 THEN TINY_SIZE ELSE Grown(f[i - 1])
           S == {m \in Nat \ {0} : ~Sizes1(m)}
<1>1. SUFFICES S = {}
  OBVIOUS
<1>2. SUFFICES ASSUME S # {} PROVE FALSE
  OBVIOUS
<1>3. S \in SUBSET Nat
  OBVIOUS
<1> HIDE DEF S
<1>4. PICK m \in S : \A k \in S : m <= k
  BY <1>2, <1>3, LeastNumber
<1>5. m \in Nat \ {0} /\ ~Sizes1(m)
  BY <1>4 DEF S
<1>6. m # 1
  <2>1. SUFFICES Sizes1(1)
    BY <1>5
  <2>2. TINY_SIZE \in Nat
    BY SlabClassesAssumption
  <2>3. [i \in 1 .. 1 |-> TINY_SIZE] \in [1 .. 1 -> Nat]
    BY <2>2
  <2>4. \A i \in 1 .. 1 : i = 1 /\ [j \in 1 .. 1 |-> TINY_SIZE][i] = TINY_SIZE
    OBVIOUS
  <2> QED
    BY <2>3, <2>4
<1>7. Sizes1(m - 1)
  <2>1. m - 1 \in Nat \ {0} /\ ~(m <= m - 1)
    BY <1>5, <1>6
  <2>2. m - 1 \notin S
    BY <1>4, <2>1
  <2> QED
    BY <2>1, <2>2 DEF S
<1>8. PICK f \in [1 .. m - 1 -> Nat] :
         \A i \in 1 .. m - 1 : f[i] = IF i = 1 THEN TINY_SIZE ELSE Grown(f[i - 1])
  BY <1>7
<1>9. PICK g : g = [i \in 1 .. m |-> IF i = m THEN Grown(f[m - 1]) ELSE f[i]]
  OBVIOUS
<1>10. m - 1 \in 1 .. m - 1 /\ f[m - 1] \in Nat /\ Grown(f[m - 1]) \in Nat
  BY <1>5, <1>6, <1>8, GrownGrows
<1>11. g \in [1 .. m -> Nat]
  BY <1>5, <1>8, <1>9, <1>10
<1>12. ASSUME NEW i \in 1 .. m PROVE g[i] = IF i = 1 THEN TINY_SIZE ELSE Grown(g[i - 1])
  <2>1. CASE i = m
    BY <1>5, <1>6, <1>9, <2>1
  <2>2. CASE i # m
    <3>1. i \in 1 .. m - 1 /\ g[i] = f[i]
      BY <1>5, <1>9, <2>2
    <3>2. i # 1 => i - 1 \in 1 .. m /\ i - 1 # m
      BY <1>5, <3>1
    <3>3. i # 1 => g[i - 1] = f[i - 1]
      BY <1>9, <3>2
    <3> QED
      BY <1>8, <3>1, <3>3
  <2> QED
    BY <2>1, <2>2
<1> QED
  BY <1>5, <1>11, <1>12

\* The sizes of the loop of slab_init().
LEMMA LoopSizes ==
    /\ LoopSize \in [1 .. POWER_LARGEST -> Nat]
    /\ \A i \in 1 .. POWER_LARGEST : LoopSize[i] = IF i = 1 THEN TINY_SIZE ELSE Grown(LoopSize[i - 1])
<1>0. POWER_LARGEST \in Nat \ {0}
  BY SlabClassesAssumption
<1>1. PICK f \in [1 .. POWER_LARGEST -> Nat] :
         \A i \in 1 .. POWER_LARGEST : f[i] = IF i = 1 THEN TINY_SIZE ELSE Grown(f[i - 1])
  BY <1>0, LoopSizesExist
<1>2. f = [i \in 1 .. POWER_LARGEST |-> IF i = 1 THEN TINY_SIZE ELSE Grown(f[i - 1])]
  BY <1>1
<1>3. LoopSize = [i \in 1 .. POWER_LARGEST |-> IF i = 1 THEN TINY_SIZE ELSE Grown(LoopSize[i - 1])]
  <2> DEFINE Sized(g) == g = [i \in 1 .. POWER_LARGEST |-> IF i = 1 THEN TINY_SIZE ELSE Grown(g[i - 1])]
  <2>1. LoopSize = CHOOSE g : Sized(g)
    BY DEF LoopSize, POWER_SMALLEST, Grown
  <2>2. Sized(f)
    BY <1>2
  <2> HIDE DEF Sized
  <2>3. Sized(LoopSize)
    BY <2>1, <2>2, Zenon
  <2> QED
    BY <2>3 DEF Sized
<1>4. \A i \in 1 .. POWER_LARGEST : LoopSize[i] = IF i = 1 THEN TINY_SIZE ELSE Grown(LoopSize[i - 1])
  BY <1>3
<1> DEFINE S == {i \in 1 .. POWER_LARGEST : LoopSize[i] # f[i]}
<1>5. S = {}
  <2>1. SUFFICES ASSUME S # {} PROVE FALSE
    OBVIOUS
  <2>2. S \in SUBSET Nat
    BY <1>0
  <2>3. PICK m \in S : \A k \in S : m <= k
    BY <2>1, <2>2, LeastNumber
  <2>4. m \in 1 .. POWER_LARGEST /\ LoopSize[m] # f[m]
    BY <2>3
  <2>5. m # 1
    BY <1>1, <1>4, <2>4
  <2>6. m - 1 \in 1 .. POWER_LARGEST /\ ~(m <= m - 1)
    BY <1>0, <2>4, <2>5
  <2>7. LoopSize[m - 1] = f[m - 1]
    BY <2>3, <2>6
  <2> QED
    BY <1>1, <1>4, <2>4, <2>5, <2>7
<1>6. \A i \in 1 .. POWER_LARGEST : LoopSize[i] \in Nat
  BY <1>1, <1>5
<1> QED
  BY <1>3, <1>4, <1>6

\* The loop of slab_init() ends at one class.
LEMMA LargestClass ==
    /\ power_largest \in 1 .. POWER_LARGEST
    /\ \A j \in 1 .. power_largest - 1 : ~LoopEnds(j)
<1> DEFINE S == {i \in 1 .. POWER_LARGEST : LoopEnds(i)}
           Ends(i) == i \in 1 .. POWER_LARGEST /\ LoopEnds(i) /\ \A j \in 1 .. i - 1 : ~LoopEnds(j)
<1>0. POWER_LARGEST \in Nat \ {0}
  BY SlabClassesAssumption
<1>1. POWER_LARGEST \in S /\ S \in SUBSET Nat
  BY <1>0 DEF LoopEnds
<1>2. PICK m \in S : \A k \in S : m <= k
  BY <1>1, LeastNumber
<1>3. Ends(m)
  BY <1>0, <1>2
<1>4. power_largest = CHOOSE i : Ends(i)
  BY DEF power_largest
<1> HIDE DEF Ends
<1>5. Ends(power_largest)
  BY <1>3, <1>4, Zenon
<1> QED
  BY <1>5 DEF Ends

\* No size of the loop is below the smallest chunk's.
LEMMA LoopSizesGrow ==
    \A i \in 1 .. POWER_LARGEST : LoopSize[i] >= TINY_SIZE
<1>0. POWER_LARGEST \in Nat \ {0} /\ TINY_SIZE \in Nat
  BY SlabClassesAssumption
<1> DEFINE S == {i \in 1 .. POWER_LARGEST : ~(LoopSize[i] >= TINY_SIZE)}
<1>1. SUFFICES ASSUME S # {} PROVE FALSE
  OBVIOUS
<1>2. S \in SUBSET Nat
  BY <1>0
<1>3. PICK m \in S : \A k \in S : m <= k
  BY <1>1, <1>2, LeastNumber
<1>4. m \in 1 .. POWER_LARGEST /\ ~(LoopSize[m] >= TINY_SIZE)
  BY <1>3
<1>5. m # 1
  BY <1>0, <1>4, LoopSizes
<1>6. m - 1 \in 1 .. POWER_LARGEST /\ ~(m <= m - 1)
  BY <1>0, <1>4, <1>5
<1>7. LoopSize[m - 1] >= TINY_SIZE /\ LoopSize[m - 1] \in Nat /\ LoopSize[m] = Grown(LoopSize[m - 1])
  BY <1>3, <1>4, <1>5, <1>6, LoopSizes
<1>8. PICK x \in Nat : x = LoopSize[m - 1] /\ x >= TINY_SIZE
  BY <1>7
<1>9. Align(x) \in Nat /\ x <= Align(x) /\ Grown(x) > Align(x) /\ Grown(x) \in Nat
  BY <1>8, AlignGrows, GrownGrows
<1> QED
  BY <1>0, <1>4, <1>7, <1>8, <1>9

\* The classes grow, and a page holds a chunk of every class.
LEMMA ClassSizes ==
    /\ power_largest \in Nat \ {0}
    /\ ClassSize \in [0 .. power_largest -> Nat]
    /\ \A i \in 1 .. power_largest : ClassSize[i - 1] < ClassSize[i]
    /\ \A i \in 1 .. power_largest : 0 < ClassSize[i] /\ ClassSize[i] <= POWER_BLOCK
<1>0. /\ POWER_LARGEST \in Nat \ {0} /\ TINY_SIZE \in Nat \ {0} /\ POWER_BLOCK \in Nat \ {0}
      /\ CHUNK_ALIGN_BYTES \in Nat /\ CHUNK_ALIGN_BYTES <= POWER_BLOCK \div 2
      /\ POWER_BLOCK \div 2 \in Nat /\ 2 * (POWER_BLOCK \div 2) <= POWER_BLOCK
  BY SlabClassesAssumption
<1>1. power_largest \in Nat \ {0} /\ power_largest <= POWER_LARGEST
  BY <1>0, LargestClass
<1>2. \A i \in 0 .. power_largest :
        ClassSize[i] = IF i = 0 THEN 0 ELSE IF i = power_largest THEN POWER_BLOCK ELSE Align(LoopSize[i])
  BY <1>1 DEF ClassSize
<1>3. ASSUME NEW i \in 1 .. power_largest - 1
      PROVE  /\ LoopSize[i] \in Nat /\ LoopSize[i] >= TINY_SIZE
             /\ ClassSize[i] = Align(LoopSize[i]) /\ Align(LoopSize[i]) \in Nat
             /\ LoopSize[i] <= Align(LoopSize[i]) /\ Align(LoopSize[i]) < POWER_BLOCK
  <2>1. i \in 1 .. POWER_LARGEST /\ i \in 0 .. power_largest /\ i # 0 /\ i # power_largest
    BY <1>0, <1>1
  <2>2. PICK x \in Nat : x = LoopSize[i] /\ x >= TINY_SIZE
    BY <2>1, LoopSizes, LoopSizesGrow
  <2>3. x <= POWER_BLOCK \div 2
    <3>1. ~LoopEnds(i)
      BY LargestClass
    <3> QED
      BY <1>0, <2>2, <3>1 DEF LoopEnds
  <2>4. Align(x) \in Nat /\ x <= Align(x) /\ Align(x) < x + CHUNK_ALIGN_BYTES
    BY AlignGrows
  <2> QED
    BY <1>0, <1>2, <2>1, <2>2, <2>3, <2>4
<1>4. \A i \in 0 .. power_largest : ClassSize[i] \in Nat
  <2> SUFFICES ASSUME NEW i \in 0 .. power_largest PROVE ClassSize[i] \in Nat
    OBVIOUS
  <2>1. CASE i = 0 \/ i = power_largest
    BY <1>0, <1>2, <2>1
  <2>2. CASE i # 0 /\ i # power_largest
    <3>1. i \in 1 .. power_largest - 1
      BY <1>1, <2>2
    <3> QED
      BY <1>3, <3>1
  <2> QED
    BY <2>1, <2>2
<1>5. ASSUME NEW i \in 1 .. power_largest
      PROVE  ClassSize[i - 1] < ClassSize[i] /\ 0 < ClassSize[i] /\ ClassSize[i] <= POWER_BLOCK
  <2>0. i \in 0 .. power_largest /\ i # 0 /\ i - 1 \in 0 .. power_largest /\ i - 1 # power_largest
    BY <1>1
  <2>1. CASE i = power_largest
    <3>1. ClassSize[i] = POWER_BLOCK
      BY <1>2, <2>0, <2>1
    <3>2. CASE i = 1
      BY <1>0, <1>2, <2>0, <3>1, <3>2
    <3>3. CASE i # 1
      <4>1. i - 1 \in 1 .. power_largest - 1
        BY <1>1, <3>3
      <4> QED
        BY <1>0, <1>3, <3>1, <4>1
    <3> QED
      BY <3>2, <3>3
  <2>2. CASE i # power_largest
    <3>1. i \in 1 .. power_largest - 1
      BY <1>1, <2>2
    <3>2. CASE i = 1
      BY <1>0, <1>2, <1>3, <2>0, <3>1, <3>2
    <3>3. CASE i # 1
      <4>1. i - 1 \in 1 .. power_largest - 1 /\ i \in 1 .. POWER_LARGEST
        BY <1>0, <1>1, <3>1, <3>3
      <4>2. LoopSize[i] = Grown(LoopSize[i - 1])
        BY <3>3, <4>1, LoopSizes
      <4>3. PICK x \in Nat : x = LoopSize[i - 1] /\ x >= TINY_SIZE /\ ClassSize[i - 1] = Align(x)
        BY <1>3, <4>1
      <4>4. Grown(x) > Align(x) /\ Grown(x) \in Nat /\ Align(x) \in Nat
        BY <4>3, GrownGrows, AlignGrows
      <4>5. Align(Grown(x)) >= Grown(x) /\ ClassSize[i] = Align(Grown(x)) /\ Align(Grown(x)) \in Nat
        BY <1>3, <3>1, <4>2, <4>3, <4>4, AlignGrows
      <4>6. ClassSize[i] <= POWER_BLOCK
        BY <1>0, <1>3, <3>1
      <4> QED
        BY <4>3, <4>4, <4>5, <4>6
    <3> QED
      BY <3>2, <3>3
  <2> QED
    BY <2>1, <2>2
<1>6. ClassSize \in [0 .. power_largest -> Nat]
  BY <1>4 DEF ClassSize
<1> QED
  BY <1>1, <1>5, <1>6

\* A page holds at least one chunk of each class.
LEMMA ChunksPerPage ==
    \A c \in Classes : c \in Nat \ {0} /\ perslab[c] \in Nat \ {0}
<1> SUFFICES ASSUME NEW c \in Classes PROVE c \in Nat \ {0} /\ perslab[c] \in Nat \ {0}
  OBVIOUS
<1>1. power_largest \in Nat /\ c \in 1 .. power_largest /\ c \in 0 .. power_largest
  BY ClassSizes DEF Classes, POWER_SMALLEST
<1>2. PICK s \in Nat \ {0} : s = ClassSize[c] /\ s <= POWER_BLOCK
  BY <1>1, ClassSizes
<1>3. POWER_BLOCK \in Nat /\ POWER_BLOCK >= 1 * s
  BY <1>2, SlabClassesAssumption
<1>4. POWER_BLOCK \div s \in Nat /\ POWER_BLOCK \div s >= 1
  BY <1>2, <1>3, DivAtLeast
<1> QED
  BY <1>1, <1>2, <1>4 DEF perslab

-----------------------------------------------------------------------------
(* slab_clsid(): the binary search.                                        *)

\* One step of the search with the results f of the narrower intervals.
SearchStep(size, f, left, right) ==
    LET res == (left + right) \div 2 IN
    IF left > right THEN power_largest + 1
    ELSE IF size > ClassSize[res] THEN f[<<res + 1, right>>]
    ELSE IF size < ClassSize[res] /\ size <= ClassSize[res - 1] THEN f[<<left, res - 1>>]
    ELSE res

Lefts == 1 .. power_largest + 1
Rights == 0 .. power_largest

\* The middle of an interval lies in it.
LEMMA Middle ==
    ASSUME NEW l \in Lefts, NEW r \in Rights, l <= r
    PROVE  /\ (l + r) \div 2 \in l .. r
           /\ (l + r) \div 2 + 1 \in Lefts /\ (l + r) \div 2 - 1 \in Rights
           /\ r - ((l + r) \div 2 + 1) < r - l /\ ((l + r) \div 2 - 1) - l < r - l
  BY ClassSizes DEF Lefts, Rights

\* The search has a result for every interval.
LEMMA SearchExists ==
    ASSUME NEW size \in Nat, NEW n \in Nat
    PROVE  \E f : \A l \in Lefts, r \in Rights : r - l < n => f[<<l, r>>] = SearchStep(size, f, l, r)
<1> DEFINE Upto1(m) == \E f : \A l \in Lefts, r \in Rights : r - l < m => f[<<l, r>>] = SearchStep(size, f, l, r)
           S == {m \in Nat : ~Upto1(m)}
<1>1. SUFFICES ASSUME S # {} PROVE FALSE
  OBVIOUS
<1>2. S \in SUBSET Nat
  OBVIOUS
<1> HIDE DEF S
<1>3. PICK m \in S : \A k \in S : m <= k
  BY <1>1, <1>2, LeastNumber
<1>4. m \in Nat /\ ~Upto1(m)
  BY <1>3 DEF S
<1>p. power_largest \in Nat
  BY ClassSizes
<1>5. m # 0
  <2>1. SUFFICES Upto1(0)
    BY <1>4
  <2>2. PICK f : f = [at \in Lefts \X Rights |-> power_largest + 1]
    OBVIOUS
  <2>3. ASSUME NEW l \in Lefts, NEW r \in Rights, r - l < 0
        PROVE  f[<<l, r>>] = SearchStep(size, f, l, r)
    <3>1. l > r
      BY <1>p, <2>3 DEF Lefts, Rights
    <3>2. f[<<l, r>>] = power_largest + 1
      BY <2>2
    <3> QED
      BY <3>1, <3>2 DEF SearchStep
  <2> QED
    BY <2>3
<1>6. PICK f : \A l \in Lefts, r \in Rights : r - l < m - 1 => f[<<l, r>>] = SearchStep(size, f, l, r)
  <2>1. m - 1 \in Nat /\ ~(m <= m - 1)
    BY <1>4, <1>5
  <2>2. m - 1 \notin S
    BY <1>3, <2>1
  <2> QED
    BY <2>1, <2>2 DEF S
<1>7. PICK g : g = [at \in Lefts \X Rights |-> SearchStep(size, f, at[1], at[2])]
  OBVIOUS
<1>8. \A l \in Lefts, r \in Rights : g[<<l, r>>] = SearchStep(size, f, l, r)
  BY <1>7
<1>9. ASSUME NEW l \in Lefts, NEW r \in Rights, r - l < m
      PROVE  SearchStep(size, f, l, r) = SearchStep(size, g, l, r)
  <2>1. CASE l > r
    BY <2>1 DEF SearchStep
  <2>2. CASE l <= r
    <3>1. PICK res \in l .. r : /\ res = (l + r) \div 2 /\ res + 1 \in Lefts /\ res - 1 \in Rights
                                /\ r - (res + 1) < r - l /\ (res - 1) - l < r - l
      BY <2>2, Middle
    <3>2. r - (res + 1) < m - 1 /\ (res - 1) - l < m - 1
      BY <1>4, <1>9, <1>p, <3>1 DEF Lefts, Rights
    <3>3. g[<<res + 1, r>>] = f[<<res + 1, r>>] /\ g[<<l, res - 1>>] = f[<<l, res - 1>>]
      BY <1>6, <1>8, <3>1, <3>2
    <3> QED
      BY <3>1, <3>3 DEF SearchStep
  <2> QED
    BY <1>p, <2>1, <2>2 DEF Lefts, Rights
<1> QED
  BY <1>4, <1>8, <1>9

\* slab_clsid() by its search.
LEMMA ClsidSearches ==
    ASSUME NEW size \in Nat \ {0}
    PROVE  \E f : /\ slab_clsid(size) = f[<<1, power_largest>>]
                  /\ \A l \in Lefts, r \in Rights : f[<<l, r>>] = SearchStep(size, f, l, r)
<1>p. power_largest \in Nat \ {0}
  BY ClassSizes
<1> DEFINE Search(f) == f = [at \in Lefts \X Rights |-> SearchStep(size, f, at[1], at[2])]
<1>1. PICK h : \A l \in Lefts, r \in Rights : r - l < power_largest => h[<<l, r>>] = SearchStep(size, h, l, r)
  BY <1>p, SearchExists
<1>2. \A l \in Lefts, r \in Rights : r - l < power_largest
  BY <1>p DEF Lefts, Rights
<1>3. PICK g : g = [at \in Lefts \X Rights |-> h[at]]
  OBVIOUS
<1>4. \A l \in Lefts, r \in Rights : g[<<l, r>>] = h[<<l, r>>]
  BY <1>3
<1>5. \A l \in Lefts, r \in Rights : h[<<l, r>>] = SearchStep(size, g, l, r)
  <2> SUFFICES ASSUME NEW l \in Lefts, NEW r \in Rights PROVE h[<<l, r>>] = SearchStep(size, g, l, r)
    OBVIOUS
  <2>1. h[<<l, r>>] = SearchStep(size, h, l, r)
    BY <1>1, <1>2
  <2>2. CASE l > r
    BY <2>1, <2>2 DEF SearchStep
  <2>3. CASE l <= r
    <3>1. PICK res \in l .. r : res = (l + r) \div 2 /\ res + 1 \in Lefts /\ res - 1 \in Rights
      BY <2>3, Middle
    <3>2. g[<<res + 1, r>>] = h[<<res + 1, r>>] /\ g[<<l, res - 1>>] = h[<<l, res - 1>>]
      BY <1>4, <3>1
    <3> QED
      BY <2>1, <3>1, <3>2 DEF SearchStep
  <2> QED
    BY <1>p, <2>2, <2>3 DEF Lefts, Rights
<1>6. Search(g)
  BY <1>3, <1>5
<1>7. slab_clsid(size) = (CHOOSE f : Search(f))[<<1, power_largest>>]
  BY DEF slab_clsid, SearchStep, Lefts, Rights
<1>8. PICK f : f = CHOOSE e : Search(e)
  OBVIOUS
<1>9. Search(f)
  <2> HIDE DEF Search
  <2> QED
    BY <1>6, <1>8, Zenon
<1>10. \A l \in Lefts, r \in Rights : f[<<l, r>>] = SearchStep(size, f, l, r)
  BY <1>9
<1> QED
  BY <1>7, <1>8, <1>10

\* Class c is the smallest that has room for size, or there is none.
Fits(size, c) ==
    \/ c \in Classes /\ ClassSize[c - 1] < size /\ size <= ClassSize[c]
    \/ c = power_largest + 1 /\ ClassSize[power_largest] < size

\* What is true of the bounds of slab_clsid()'s search at every turn.
Bounds(size, l, r) ==
    /\ l <= r + 1
    /\ ClassSize[l - 1] < size
    /\ r = power_largest \/ size <= ClassSize[r]

\* slab_clsid() finds the smallest class that has room: the search halves the
\* classes between its bounds and never leaves out the one it is looking for.
THEOREM ClsidFinds ==
    ASSUME NEW size \in Nat \ {0}
    PROVE  Fits(size, slab_clsid(size))
<1>p. power_largest \in Nat \ {0} /\ ClassSize \in [0 .. power_largest -> Nat]
  BY ClassSizes
<1>1. PICK f : /\ slab_clsid(size) = f[<<1, power_largest>>]
               /\ \A l \in Lefts, r \in Rights : f[<<l, r>>] = SearchStep(size, f, l, r)
  BY ClsidSearches
<1> DEFINE Wrong(l, r) == Bounds(size, l, r) /\ ~Fits(size, f[<<l, r>>])
           S == {n \in Nat : \E l \in Lefts, r \in Rights : n = r + 1 - l /\ Wrong(l, r)}
<1>2. S = {}
  <2>1. SUFFICES ASSUME S # {} PROVE FALSE
    OBVIOUS
  <2>2. S \in SUBSET Nat
    OBVIOUS
  <2>3. PICK n \in S : \A k \in S : n <= k
    BY <2>1, <2>2, LeastNumber
  <2>4. PICK l \in Lefts, r \in Rights : n = r + 1 - l /\ Wrong(l, r)
    BY <2>3
  <2>t. l \in 1 .. power_largest + 1 /\ r \in 0 .. power_largest
    BY DEF Lefts, Rights
  <2>5. f[<<l, r>>] = SearchStep(size, f, l, r)
    BY <1>1
  <2>6. \A a \in Lefts, b \in Rights : b + 1 - a < n /\ Bounds(size, a, b) => Fits(size, f[<<a, b>>])
    <3> SUFFICES ASSUME NEW a \in Lefts, NEW b \in Rights, b + 1 - a < n, Bounds(size, a, b), Wrong(a, b)
                 PROVE  FALSE
      OBVIOUS
    <3>1. b + 1 - a \in Nat
      BY <1>p, SMTT(40) DEF Bounds, Lefts, Rights
    <3>2. b + 1 - a \in S
      BY <3>1
    <3> QED
      BY <2>2, <2>3, <3>1, <3>2
  <2>7. CASE l > r
    <3>1. f[<<l, r>>] = power_largest + 1 /\ l = r + 1
      BY <2>4, <2>5, <2>7, <2>t DEF SearchStep, Bounds
    <3>2. ClassSize[r] < size /\ ClassSize[r] \in Nat
      BY <1>p, <2>4, <2>t, <3>1 DEF Bounds
    <3>3. r = power_largest
      BY <2>4, <3>2 DEF Bounds
    <3> QED
      BY <2>4, <3>1, <3>2, <3>3 DEF Fits
  <2>8. CASE l <= r
    <3>1. PICK res \in l .. r : /\ res = (l + r) \div 2 /\ res + 1 \in Lefts /\ res - 1 \in Rights
                                /\ r - (res + 1) < r - l /\ (res - 1) - l < r - l
      BY <2>8, Middle
    <3>2. res \in 1 .. power_largest /\ res \in Classes
      BY <1>p, <2>t, <3>1 DEF Classes, POWER_SMALLEST
    <3>3. /\ ClassSize[res - 1] \in Nat /\ ClassSize[res] \in Nat /\ ClassSize[res - 1] < ClassSize[res]
      BY <1>p, <3>2, ClassSizes
    <3>4. f[<<l, r>>] = IF size > ClassSize[res] THEN f[<<res + 1, r>>]
                        ELSE IF size < ClassSize[res] /\ size <= ClassSize[res - 1] THEN f[<<l, res - 1>>]
                        ELSE res
      BY <2>5, <2>8, <2>t, <3>1 DEF SearchStep
    <3>5. CASE size > ClassSize[res]
      <4>1. Bounds(size, res + 1, r)
        BY <2>4, <2>t, <3>1, <3>2, <3>3, <3>5 DEF Bounds
      <4>2. r + 1 - (res + 1) < n
        BY <2>4, <2>t, <3>1, <3>2
      <4> QED
        BY <2>4, <2>6, <3>1, <3>4, <3>5, <4>1, <4>2
    <3>6. CASE ~(size > ClassSize[res]) /\ size < ClassSize[res] /\ size <= ClassSize[res - 1]
      <4>1. Bounds(size, l, res - 1)
        BY <2>4, <2>t, <3>1, <3>2, <3>3, <3>6 DEF Bounds
      <4>2. res - 1 + 1 - l < n
        BY <2>4, <2>t, <3>1, <3>2
      <4> QED
        BY <2>4, <2>6, <3>1, <3>4, <3>6, <4>1, <4>2
    <3>7. CASE ~(size > ClassSize[res]) /\ ~(size < ClassSize[res] /\ size <= ClassSize[res - 1])
      <4>1. f[<<l, r>>] = res
        BY <3>4, <3>7
      <4>2. ClassSize[res - 1] < size /\ size <= ClassSize[res]
        BY <3>3, <3>7
      <4> QED
        BY <2>4, <3>2, <4>1, <4>2 DEF Fits
    <3> QED
      BY <3>5, <3>6, <3>7
  <2> QED
    BY <2>7, <2>8, <2>t
<1>3. 1 \in Lefts /\ power_largest \in Rights /\ power_largest + 1 - 1 \in Nat
  BY <1>p DEF Lefts, Rights
<1>4. Bounds(size, 1, power_largest)
  <2>1. ClassSize[0] = 0
    BY <1>p DEF ClassSize
  <2> QED
    BY <1>p, <2>1 DEF Bounds
<1> QED
  BY <1>1, <1>2, <1>3, <1>4

-----------------------------------------------------------------------------
(* The inductive invariant.                                                *)

\* Chunks of class c that were handed out at least once: the first Used(c).
Used(c) == slabs[c] * perslab[c] - end_page_free[c]
Given(c) == [class: {c}, n: 1 .. Used(c)]

\* Chunks in use have a head that tells where they come from.
HeadOK(q) ==
    /\ \E n \in Sizes : head[q].size = n + HEAD_SIZE
    /\ head[q].is_malloc <=> q.class = 0
    /\ head[q].is_malloc => ClassFor[head[q].size] > power_largest
    /\ ~head[q].is_malloc => q.class \in Classes /\ ClassFor[head[q].size] = q.class

\* A call on its way: what it holds, and the page that it fetches.
CallOK(t) ==
    /\ pc[t] = "idle" => call[t] = NoCall
    /\ pc[t] \in {"alloc", "newslab", "newslab_add"} => call[t].size \in Sizes /\ call[t].new = NoChunk
    /\ pc[t] = "newslab" =>
         Id(t) \in Classes /\ lock[Id(t)] = t /\ slots[Id(t)] = << >> /\ end_page_free[Id(t)] = 0
    /\ pc[t] = "newslab_add" =>
         Id(t) \in Classes /\ lock[Id(t)] = t /\ slots[Id(t)] = << >> /\ end_page_free[Id(t)] = perslab[Id(t)]
    /\ pc[t] = "copy" => call[t].new # NoChunk
    /\ pc[t] \in {"copy", "free"} => call[t].old # NoChunk
    /\ call[t].new # NoChunk =>
         /\ call[t].old # NoChunk /\ call[t].old # call[t].new
         /\ head[call[t].new].size = call[t].size + HEAD_SIZE /\ call[t].size \in Sizes
    /\ pc[t] = "free" /\ call[t].new # NoChunk =>
         call[t].copied = IF call[t].size < head[call[t].old].size THEN call[t].size ELSE head[call[t].old].size

\* A class is locked by the thread that fetches a page for it.
LockOK(c) == lock[c] # None => pc[lock[c]] \in {"newslab", "newslab_add"} /\ Id(lock[c]) = c

\* A chunk that is in use is with a caller or with one thread.
Owned ==
    /\ DOMAIN head = live \cup UNION {Held(t) : t \in Threads}
    /\ \A t \in Threads : Held(t) \cap live = {}
    /\ \A t, u \in Threads : t # u => Held(t) \cap Held(u) = {}
    /\ dropped \cap DOMAIN head = {}

\* The chunks of a class that were handed out are in use, dropped or listed.
ClassOK(c) ==
    /\ end_page_free[c] <= slabs[c] * perslab[c]
    /\ IsInjective(slots[c])
    /\ Listed(c) \cap (DOMAIN head \cup dropped) = {}
    /\ {q \in DOMAIN head \cup dropped : q.class = c} \cup Listed(c) = Given(c)

Inv ==
    /\ TypeOK
    /\ \A t \in Threads : CallOK(t)
    /\ \A c \in Classes : LockOK(c)
    /\ Owned
    /\ \A q \in DOMAIN head : HeadOK(q)
    /\ \A q \in dropped : q.class \in Classes
    /\ \A c \in Classes : ClassOK(c)

-----------------------------------------------------------------------------
(* What the steps have in common.                                          *)

\* A chunk is not NoChunk, and two chunks with the same fields are the same.
LEMMA Chunks ==
    /\ NoChunk \notin Chunk
    /\ \A q \in Chunk : q.class \in Classes \cup {0} /\ q.n \in Nat \ {0} /\ q = [class |-> q.class, n |-> q.n]
    /\ \A c \in Classes \cup {0}, n \in Nat \ {0} : [class |-> c, n |-> n] \in Chunk
  BY DEF Chunk, NoChunk

\* Neither malloc()'s 0 nor slab_clsid()'s "none" is a class.
LEMMA ClassesAreNumbers ==
    /\ 0 \notin Classes /\ power_largest + 1 \notin Classes /\ power_largest \in Nat \ {0}
    /\ \A c \in Classes : c \in Nat /\ c <= power_largest
  BY ClassSizes DEF Classes, POWER_SMALLEST

\* The class of a size that is asked for.
LEMMA ClassOfSize ==
    ASSUME NEW n \in Sizes
    PROVE  Fits(n + HEAD_SIZE, ClassFor[n + HEAD_SIZE])
<1>1. n + HEAD_SIZE \in Nat \ {0}
  BY SlabAssumption
<1>2. ClassFor[n + HEAD_SIZE] = slab_clsid(n + HEAD_SIZE)
  BY DEF ClassFor
<1> QED
  BY <1>1, <1>2, ClsidFinds

\* The other threads' calls.
LEMMA OthersHold ==
    ASSUME NEW t \in Threads, \A u \in Threads \ {t} : call'[u] = call[u]
    PROVE  \A u \in Threads \ {t} : Held(u)' = Held(u)
  BY DEF Held

\* Chunks in use have one owner after thread t has taken the chunks of New
\* into use, given up those of Gone, and divided the rest with the callers.
LEMMA OwnedStep ==
    ASSUME Owned, NEW t \in Threads, \A u \in Threads \ {t} : Held(u)' = Held(u),
           NEW New, NEW Gone,
           New \cap (DOMAIN head \cup dropped) = {},
           Gone \subseteq live \cup Held(t),
           live' \cup Held(t)' = (live \cup Held(t) \cup New) \ Gone,
           live' \cap Held(t)' = {},
           DOMAIN head' = (DOMAIN head \cup New) \ Gone,
           dropped' \subseteq dropped \cup Gone
    PROVE  Owned'
<1>1. ASSUME NEW u \in Threads, u # t
      PROVE  /\ Held(u)' = Held(u) /\ Held(u) \subseteq DOMAIN head
             /\ Held(u) \cap (live \cup Held(t)) = {}
             /\ Held(u) \cap (live' \cup Held(t)') = {}
             /\ Held(u) \cap Gone = {} /\ Held(u) \cap New = {}
  <2>1. Held(u)' = Held(u)
    BY <1>1
  <2>2. Held(u) \subseteq DOMAIN head /\ Held(u) \cap (live \cup Held(t)) = {}
    BY <1>1 DEF Owned
  <2> QED
    BY <2>1, <2>2
<1>2. live \cup Held(t) \subseteq DOMAIN head
  BY DEF Owned
<1>3. DOMAIN head' = live' \cup UNION {Held(u)' : u \in Threads}
  <2>1. ASSUME NEW q \in DOMAIN head' PROVE q \in live' \cup UNION {Held(u)' : u \in Threads}
    <3>1. CASE q \in New
      <4>1. q \in live' \cup Held(t)'
        BY <2>1, <3>1
      <4> QED
        BY <4>1
    <3>2. CASE q \notin New
      <4>1. q \in DOMAIN head /\ q \notin Gone
        BY <2>1, <3>2
      <4>2. CASE q \in live \cup Held(t)
        <5>1. q \in live' \cup Held(t)'
          BY <4>1, <4>2
        <5> QED
          BY <5>1
      <4>3. CASE q \notin live \cup Held(t)
        <5>1. PICK u \in Threads : q \in Held(u)
          BY <4>1, <4>3 DEF Owned
        <5>2. u # t
          BY <4>3, <5>1
        <5>3. q \in Held(u)'
          BY <1>1, <5>1, <5>2
        <5> QED
          BY <5>3
      <4> QED
        BY <4>2, <4>3
    <3> QED
      BY <3>1, <3>2
  <2>2. live' \cup Held(t)' \subseteq DOMAIN head'
    BY <1>2
  <2>3. \A u \in Threads : Held(u)' \subseteq DOMAIN head'
    BY <1>1, <2>2
  <2>4. ASSUME NEW q \in live' \cup UNION {Held(u)' : u \in Threads} PROVE q \in DOMAIN head'
    <3>1. CASE q \in live'
      BY <2>2, <3>1
    <3>2. CASE q \notin live'
      <4>1. PICK u \in Threads : q \in Held(u)'
        BY <2>4, <3>2
      <4> QED
        BY <2>3, <4>1
    <3> QED
      BY <3>1, <3>2
  <2> QED
    BY <2>1, <2>4
<1>4. \A u \in Threads : Held(u)' \cap live' = {}
  BY <1>1
<1>5. \A u, v \in Threads : u # v => Held(u)' \cap Held(v)' = {}
  <2> SUFFICES ASSUME NEW u \in Threads, NEW v \in Threads, u # v PROVE Held(u)' \cap Held(v)' = {}
    OBVIOUS
  <2>1. CASE u = t
    BY <1>1, <2>1
  <2>2. CASE v = t
    BY <1>1, <2>2
  <2>3. CASE u # t /\ v # t
    BY <1>1, <2>3 DEF Owned
  <2> QED
    BY <2>1, <2>2, <2>3
<1>6. dropped' \cap DOMAIN head' = {}
  BY DEF Owned
<1> QED
  BY <1>3, <1>4, <1>5, <1>6 DEF Owned

\* The call of a thread u, when the step of t leaves alone what u has.
LEMMA CallFrame ==
    ASSUME TypeOK, NEW u \in Threads, CallOK(u),
           pc'[u] = pc[u], call'[u] = call[u],
           \A q \in Held(u) : head'[q] = head[q],
           \A c \in Classes :
               lock[c] = u => lock'[c] = u /\ slots'[c] = slots[c] /\ end_page_free'[c] = end_page_free[c]
    PROVE  CallOK(u)'
<1>1. Id(u)' = Id(u)
  BY DEF Id
<1>2. call[u].new # NoChunk => head'[call[u].new] = head[call[u].new]
  BY DEF Held
<1>3. call[u].old # NoChunk => head'[call[u].old] = head[call[u].old]
  BY DEF Held
<1>4. pc[u] = "newslab" =>
        /\ Id(u) \in Classes /\ lock'[Id(u)] = u /\ slots'[Id(u)] = << >> /\ end_page_free'[Id(u)] = 0
  BY DEF CallOK
<1>5. pc[u] = "newslab_add" =>
        /\ Id(u) \in Classes /\ lock'[Id(u)] = u /\ slots'[Id(u)] = << >>
        /\ end_page_free'[Id(u)] = perslab[Id(u)]
  BY DEF CallOK
<1> QED
  BY <1>1, <1>2, <1>3, <1>4, <1>5 DEF CallOK

\* The locks, when a step of t takes or gives up no lock but for t.
LEMMA LockFrame ==
    ASSUME TypeOK, \A c \in Classes : LockOK(c), NEW t \in Threads,
           \A u \in Threads \ {t} : pc'[u] = pc[u] /\ call'[u] = call[u],
           \A c \in Classes : lock'[c] # None /\ lock'[c] # t => lock'[c] = lock[c],
           \A c \in Classes : lock'[c] = t => pc'[t] \in {"newslab", "newslab_add"} /\ Id(t)' = c
    PROVE  \A c \in Classes : LockOK(c)'
<1> SUFFICES ASSUME NEW c \in Classes, lock'[c] # None
             PROVE  pc'[lock'[c]] \in {"newslab", "newslab_add"} /\ Id(lock[c])' = c
  BY DEF LockOK
<1>1. CASE lock'[c] = t
  <2>1. Id(lock[c])' = Id(t)'
    BY <1>1 DEF Id
  <2> QED
    BY <1>1, <2>1
<1>2. CASE lock'[c] # t
  <2>1. PICK u \in Threads \ {t} : u = lock[c] /\ lock'[c] = u
    BY <1>2 DEF TypeOK
  <2>2. pc[u] \in {"newslab", "newslab_add"} /\ Id(u) = c
    BY <2>1, SlabAssumption DEF LockOK
  <2>3. Id(u)' = Id(u) /\ Id(lock[c])' = Id(u)'
    BY <2>1 DEF Id
  <2> QED
    BY <2>1, <2>2, <2>3
<1> QED
  BY <1>1, <1>2

\* A class whose free list, pages and chunks out of them stay as they are.
LEMMA ClassFrame ==
    ASSUME NEW c \in Classes, ClassOK(c),
           slots'[c] = slots[c], slabs'[c] = slabs[c], end_page_free'[c] = end_page_free[c],
           {q \in DOMAIN head' \cup dropped' : q.class = c} = {q \in DOMAIN head \cup dropped : q.class = c}
    PROVE  ClassOK(c)'
<1>1. Listed(c)' = Listed(c) /\ Given(c)' = Given(c)
  BY DEF Listed, Given, Used
<1>2. Listed(c) \subseteq Given(c)
  BY DEF ClassOK
<1>3. \A q \in Given(c) : q.class = c
  BY DEF Given
<1>4. Listed(c)' \cap (DOMAIN head' \cup dropped') = {}
  <2> SUFFICES ASSUME NEW q \in Listed(c), q \in DOMAIN head' \cup dropped' PROVE FALSE
    BY <1>1
  <2>1. q.class = c
    BY <1>2, <1>3
  <2>2. q \in DOMAIN head \cup dropped
    BY <2>1
  <2> QED
    BY <2>2 DEF ClassOK
<1>5. IsInjective(slots[c])'
  BY DEF ClassOK, IsInjective
<1>6. (end_page_free[c] <= slabs[c] * perslab[c])'
  BY DEF ClassOK
<1>7. ({q \in DOMAIN head \cup dropped : q.class = c} \cup Listed(c) = Given(c))'
  BY <1>1 DEF ClassOK
<1> QED
  BY <1>4, <1>5, <1>6, <1>7 DEF ClassOK

\* The head of a chunk does not change while the chunk is in use.
LEMMA HeadFrame ==
    ASSUME NEW q, HeadOK(q), head'[q] = head[q]
    PROVE  HeadOK(q)'
  BY DEF HeadOK

\* A thread holds only chunks in use.
LEMMA HeldInUse ==
    ASSUME Inv, NEW t \in Threads
    PROVE  /\ Held(t) \subseteq DOMAIN head /\ live \subseteq DOMAIN head
           /\ call[t].old # NoChunk => call[t].old \in DOMAIN head
           /\ call[t].new # NoChunk => call[t].new \in DOMAIN head
  BY DEF Inv, Owned, Held

-----------------------------------------------------------------------------
\* slab_init() establishes the invariant.
THEOREM InvInit == Init => Inv
<1> SUFFICES ASSUME Init PROVE Inv
  OBVIOUS
<1>1. \A t \in Threads : call[t] = NoCall /\ pc[t] = "idle" /\ Held(t) = {}
  BY DEF Init, Held, NoCall
<1>2. TypeOK
  <2>1. NoCall \in [size: Nat, old: Chunk \cup {NoChunk}, new: Chunk \cup {NoChunk}, copied: Nat]
    BY DEF NoCall
  <2>2. DOMAIN head = {}
    BY DEF Init
  <2> QED
    BY <2>1, <2>2 DEF Init, TypeOK, Places
<1>3. \A t \in Threads : CallOK(t)
  BY <1>1 DEF CallOK, NoCall
<1>4. \A c \in Classes : LockOK(c)
  BY DEF Init, LockOK
<1>5. DOMAIN head = {} /\ dropped = {}
  BY DEF Init
<1>6. Owned
  BY <1>1, <1>5 DEF Init, Owned
<1>7. ASSUME NEW c \in Classes PROVE ClassOK(c)
  <2>1. slots[c] = << >> /\ slabs[c] = 0 /\ end_page_free[c] = 0 /\ dropped = {}
    BY DEF Init
  <2>2. Used(c) = 0
    BY <2>1, ChunksPerPage DEF Used
  <2>3. Given(c) = {}
    BY <2>2 DEF Given
  <2>4. Listed(c) = {} /\ IsInjective(slots[c])
    BY <2>1 DEF Listed, Range, IsInjective
  <2> QED
    BY <1>5, <2>1, <2>3, <2>4, ChunksPerPage DEF ClassOK
<1> QED
  BY <1>2, <1>3, <1>4, <1>5, <1>6, <1>7 DEF Inv

\* The invariant after a step of thread t that takes the chunks of New into
\* use and gives up those of Gone: what is left to show of each action.
LEMMA ThreadStep ==
    ASSUME Inv, TypeOK', NEW t \in Threads,
           \A u \in Threads \ {t} : pc'[u] = pc[u] /\ call'[u] = call[u],
           CallOK(t)',
           \A c \in Classes : lock[c] # None /\ lock[c] # t =>
               lock'[c] = lock[c] /\ slots'[c] = slots[c] /\ end_page_free'[c] = end_page_free[c],
           \A c \in Classes : lock'[c] # None /\ lock'[c] # t => lock'[c] = lock[c],
           \A c \in Classes : lock'[c] = t => pc'[t] \in {"newslab", "newslab_add"} /\ Id(t)' = c,
           NEW New, NEW Gone,
           New \cap (DOMAIN head \cup dropped) = {},
           Gone \subseteq live \cup Held(t),
           live' \cup Held(t)' = (live \cup Held(t) \cup New) \ Gone,
           live' \cap Held(t)' = {},
           DOMAIN head' = (DOMAIN head \cup New) \ Gone,
           dropped' \subseteq dropped \cup Gone,
           \A q \in DOMAIN head \cap DOMAIN head' : head'[q] = head[q],
           \A q \in New : HeadOK(q)',
           \A q \in dropped' : q.class \in Classes,
           \A c \in Classes : ClassOK(c)'
    PROVE  Inv'
<1>0. TypeOK /\ Owned /\ (\A u \in Threads : CallOK(u)) /\ (\A c \in Classes : LockOK(c))
  BY DEF Inv
<1>1. \A u \in Threads \ {t} : Held(u)' = Held(u)
  BY OthersHold
<1>2. Owned'
  BY <1>0, <1>1, OwnedStep
<1>3. ASSUME NEW u \in Threads, u # t PROVE CallOK(u)'
  <2>1. \A q \in Held(u) : head'[q] = head[q]
    <3>1. Held(u) \subseteq DOMAIN head /\ Held(u) \subseteq DOMAIN head'
      BY <1>0, <1>1, <1>2, <1>3 DEF Owned
    <3> QED
      BY <3>1
  <2>2. u # None
    BY SlabAssumption
  <2> QED
    BY <1>0, <1>3, <2>1, <2>2, CallFrame
<1>4. \A u \in Threads : CallOK(u)'
  BY <1>3
<1>5. \A c \in Classes : LockOK(c)'
  BY <1>0, LockFrame
<1>6. \A q \in DOMAIN head' : HeadOK(q)'
  <2> SUFFICES ASSUME NEW q \in DOMAIN head' PROVE HeadOK(q)'
    OBVIOUS
  <2>1. CASE q \in New
    BY <2>1
  <2>2. CASE q \notin New
    <3>1. q \in DOMAIN head /\ head'[q] = head[q]
      BY <2>2
    <3>2. HeadOK(q)
      BY <3>1 DEF Inv
    <3> QED
      BY <3>1, <3>2, HeadFrame
  <2> QED
    BY <2>1, <2>2
<1> QED
  BY <1>2, <1>4, <1>5, <1>6 DEF Inv

CallRecord == [size: Nat, old: Chunk \cup {NoChunk}, new: Chunk \cup {NoChunk}, copied: Nat]

\* A step that changes only what a thread and its caller have.
LEMMA QuietStep ==
    ASSUME Inv, NEW t \in Threads, NEW X \in {"idle", "alloc", "copy", "free"}, NEW k \in CallRecord,
           pc[t] \notin {"newslab", "newslab_add"},
           pc' = [pc EXCEPT ![t] = X], call' = [call EXCEPT ![t] = k],
           UNCHANGED <<listvars, pagevars, lock, mem_malloced, head, racevars, dropped>>,
           live' \cup Held(t)' = live \cup Held(t), live' \cap Held(t)' = {},
           CallOK(t)'
    PROVE  Inv'
<1>0. TypeOK /\ Owned
  BY DEF Inv
<1>u. /\ slots' = slots /\ sl_total' = sl_total /\ end_page_free' = end_page_free /\ slabs' = slabs
      /\ list_size' = list_size /\ lock' = lock /\ mem_malloced' = mem_malloced /\ head' = head
      /\ seen' = seen /\ overlapped' = overlapped /\ raced' = raced /\ dropped' = dropped
  BY DEF listvars, pagevars, racevars
<1>1. TypeOK'
  <2>1. live' \subseteq Chunk
    <3>1. live' \subseteq DOMAIN head
      BY <1>0 DEF Owned
    <3> QED
      BY <1>0, <3>1 DEF TypeOK
  <2>2. pc' \in [Threads -> Places] /\ call' \in [Threads -> CallRecord]
    BY <1>0 DEF TypeOK, Places, CallRecord
  <2> QED
    BY <1>0, <1>u, <2>1, <2>2 DEF TypeOK, CallRecord
<1>2. \A u \in Threads \ {t} : pc'[u] = pc[u] /\ call'[u] = call[u]
  BY <1>0 DEF TypeOK
<1>3. \A c \in Classes : lock[c] # t
  BY SlabAssumption DEF Inv, LockOK
<1>4. \A c \in Classes : ClassOK(c)'
  <2> SUFFICES ASSUME NEW c \in Classes PROVE ClassOK(c)'
    OBVIOUS
  <2>1. ClassOK(c)
    BY DEF Inv
  <2> QED
    BY <1>u, <2>1, ClassFrame
<1>5. \A c \in Classes :
        /\ lock[c] # None /\ lock[c] # t =>
              lock'[c] = lock[c] /\ slots'[c] = slots[c] /\ end_page_free'[c] = end_page_free[c]
        /\ lock'[c] # None /\ lock'[c] # t => lock'[c] = lock[c]
        /\ lock'[c] = t => pc'[t] \in {"newslab", "newslab_add"} /\ Id(t)' = c
  BY <1>u, <1>3
<1> DEFINE New == {}
           Gone == {}
<1>6. /\ New \cap (DOMAIN head \cup dropped) = {}
      /\ Gone \subseteq live \cup Held(t)
      /\ live' \cup Held(t)' = (live \cup Held(t) \cup New) \ Gone
      /\ DOMAIN head' = (DOMAIN head \cup New) \ Gone
      /\ dropped' \subseteq dropped \cup Gone
      /\ \A q \in DOMAIN head \cap DOMAIN head' : head'[q] = head[q]
      /\ \A q \in New : HeadOK(q)'
      /\ \A q \in dropped' : q.class \in Classes
  BY <1>u DEF Inv
<1> QED
  BY <1>1, <1>2, <1>4, <1>5, <1>6, ThreadStep

\* slab_alloc(), slab_realloc() and slab_free() are called.
LEMMA CallStep ==
    ASSUME Inv, NEW t \in Threads, Call(t)
    PROVE  Inv'
<1>0. TypeOK /\ Owned /\ call[t] = NoCall /\ pc[t] = "idle"
  BY DEF Inv, CallOK, Call
<1>1. PICK n \in Sizes, p \in live \cup {NoChunk} :
        /\ call' = [call EXCEPT ![t] = [size |-> n, old |-> p, new |-> NoChunk, copied |-> 0]]
        /\ live' = live \ {p}
  BY DEF Call
<1>2. [size |-> n, old |-> p, new |-> NoChunk, copied |-> 0] \in CallRecord
  BY <1>0, SlabAssumption DEF TypeOK, CallRecord
<1>3. pc' = [pc EXCEPT ![t] = "alloc"]
  BY DEF Call, Goto
<1>4. Held(t) = {} /\ Held(t)' = {p} \ {NoChunk} /\ NoChunk \notin live
  BY <1>0, <1>1, Chunks DEF Held, NoCall, TypeOK
<1>5. call'[t] = [size |-> n, old |-> p, new |-> NoChunk, copied |-> 0] /\ pc'[t] = "alloc"
  BY <1>0, <1>1, <1>3 DEF TypeOK
<1>6. CallOK(t)'
  BY <1>5 DEF CallOK
<1>7. live' \cup Held(t)' = live \cup Held(t) /\ live' \cap Held(t)' = {}
  BY <1>1, <1>4
<1>8. UNCHANGED <<listvars, pagevars, lock, mem_malloced, head, racevars, dropped>>
  BY DEF Call
<1> QED
  BY <1>0, <1>1, <1>2, <1>3, <1>6, <1>7, <1>8, QuietStep

\* slab_free() is called.
LEMMA FreeCallStep ==
    ASSUME Inv, NEW t \in Threads, FreeCall(t)
    PROVE  Inv'
<1>0. TypeOK /\ Owned /\ call[t] = NoCall /\ pc[t] = "idle"
  BY DEF Inv, CallOK, FreeCall
<1>1. PICK p \in live : call' = [call EXCEPT ![t].old = p] /\ live' = live \ {p}
  BY DEF FreeCall
<1>2. PICK k : k = [size |-> 0, old |-> p, new |-> NoChunk, copied |-> 0]
  OBVIOUS
<1>3. k \in CallRecord /\ call' = [call EXCEPT ![t] = k] /\ p # NoChunk
  <2>1. p \in Chunk /\ p # NoChunk
    BY <1>0, <1>1, Chunks DEF TypeOK
  <2>2. k \in CallRecord
    BY <1>2, <2>1 DEF CallRecord
  <2>3. [call[t] EXCEPT !.old = p] = k
    BY <1>0, <1>2 DEF NoCall
  <2> QED
    BY <1>1, <2>1, <2>2, <2>3
<1>4. pc' = [pc EXCEPT ![t] = "free"]
  BY DEF FreeCall, Goto
<1>5. call'[t] = k /\ pc'[t] = "free"
  BY <1>0, <1>3, <1>4 DEF TypeOK
<1>6. Held(t) = {} /\ Held(t)' = {p}
  BY <1>0, <1>2, <1>3, <1>5 DEF Held, NoCall
<1>7. CallOK(t)'
  BY <1>2, <1>3, <1>5 DEF CallOK
<1>8. live' \cup Held(t)' = live \cup Held(t) /\ live' \cap Held(t)' = {}
  BY <1>1, <1>6
<1>9. UNCHANGED <<listvars, pagevars, lock, mem_malloced, head, racevars, dropped>>
  BY DEF FreeCall
<1> QED
  BY <1>0, <1>3, <1>4, <1>7, <1>8, <1>9, QuietStep

\* _slab_realloc() copies.
LEMMA ReallocCopyStep ==
    ASSUME Inv, NEW t \in Threads, ReallocCopy(t)
    PROVE  Inv'
<1>0. TypeOK /\ Owned /\ CallOK(t) /\ pc[t] = "copy"
  BY DEF Inv, ReallocCopy
<1>1. call[t] \in CallRecord /\ call[t].old # NoChunk /\ call[t].new # NoChunk
  BY <1>0 DEF TypeOK, CallRecord, CallOK
<1>2. head[call[t].old].size \in Nat
  BY <1>0, <1>1, HeldInUse DEF TypeOK, SlabHead
<1>3. PICK m \in Nat :
        m = IF call[t].size < head[call[t].old].size THEN call[t].size ELSE head[call[t].old].size
  BY <1>1, <1>2 DEF CallRecord
<1>4. PICK k : k = [call[t] EXCEPT !.copied = m]
  OBVIOUS
<1>5. /\ k \in CallRecord /\ k.old = call[t].old /\ k.new = call[t].new /\ k.size = call[t].size
      /\ k.copied = m
  BY <1>1, <1>4 DEF CallRecord
<1>6. call' = [call EXCEPT ![t] = k]
  BY <1>0, <1>3, <1>4 DEF ReallocCopy, TypeOK
<1>7. pc' = [pc EXCEPT ![t] = "free"]
  BY DEF ReallocCopy, Goto
<1>8. call'[t] = k /\ pc'[t] = "free"
  BY <1>0, <1>6, <1>7 DEF TypeOK
<1>9. Held(t)' = Held(t)
  BY <1>5, <1>8 DEF Held
<1>10. live' = live /\ head' = head
  BY DEF ReallocCopy
<1>11. CallOK(t)'
  BY <1>0, <1>1, <1>3, <1>5, <1>8, <1>10 DEF CallOK
<1>12. live' \cup Held(t)' = live \cup Held(t) /\ live' \cap Held(t)' = {}
  BY <1>0, <1>9, <1>10 DEF Owned
<1>13. UNCHANGED <<listvars, pagevars, lock, mem_malloced, head, racevars, dropped>>
  BY DEF ReallocCopy
<1> QED
  BY <1>0, <1>5, <1>6, <1>7, <1>11, <1>12, <1>13, QuietStep

\* _slab_alloc() returns NULL without having fetched a page.
LEMMA NullStep ==
    ASSUME Inv, NEW t \in Threads, pc[t] = "alloc", ReturnNull(t),
           UNCHANGED <<listvars, pagevars, lock, mem_malloced, head, racevars, dropped>>
    PROVE  Inv'
<1>0. TypeOK /\ Owned /\ CallOK(t)
  BY DEF Inv
<1>1. call[t].new = NoChunk
  BY <1>0 DEF CallOK
<1>2. NoCall \in CallRecord
  BY DEF NoCall, CallRecord
<1>3. pc' = [pc EXCEPT ![t] = "idle"] /\ call' = [call EXCEPT ![t] = NoCall]
  BY DEF ReturnNull, Goto
<1>4. pc'[t] = "idle" /\ call'[t] = NoCall
  BY <1>0, <1>3 DEF TypeOK
<1>5. Held(t)' = {} /\ live' = live \cup Held(t)
  BY <1>1, <1>4 DEF ReturnNull, Held, NoCall
<1>6. CallOK(t)'
  BY <1>4 DEF CallOK, NoCall
<1> QED
  BY <1>0, <1>2, <1>3, <1>5, <1>6, QuietStep

\* Taking the last chunk off a free list, and putting one at its end.
LEMMA ListFront ==
    ASSUME NEW s \in Seq(Chunk), s # << >>, IsInjective(s)
    PROVE  /\ Front(s) \in Seq(Chunk) /\ IsInjective(Front(s))
           /\ Last(s) \in Chunk /\ Last(s) \in Range(s)
           /\ Range(Front(s)) = Range(s) \ {Last(s)}
<1>1. Len(s) \in Nat \ {0} /\ DOMAIN s = 1 .. Len(s)
  OBVIOUS
<1>2. PICK f : f = Front(s)
  OBVIOUS
<1>3. f \in Seq(Chunk) /\ Len(f) = Len(s) - 1 /\ DOMAIN f = 1 .. Len(s) - 1 /\ \A i \in 1 .. Len(s) - 1 : f[i] = s[i]
  BY <1>1, <1>2 DEF Front
<1>4. Last(s) = s[Len(s)] /\ Len(s) \in DOMAIN s
  BY <1>1 DEF Last
<1>5. \A i \in 1 .. Len(s) - 1 : i \in DOMAIN s /\ i # Len(s) /\ s[i] # s[Len(s)]
  <2>1. ASSUME NEW i \in 1 .. Len(s) - 1 PROVE i \in DOMAIN s /\ i # Len(s)
    <3>1. PICK n \in Nat \ {0} : n = Len(s)
      BY <1>1
    <3>2. i \in 1 .. n - 1
      BY <3>1
    <3>3. i \in 1 .. n /\ i # n
      BY <3>2
    <3> QED
      BY <1>1, <3>1, <3>3, Zenon
  <2>2. \A i, j \in DOMAIN s : s[i] = s[j] => i = j
    BY DEF IsInjective
  <2> QED
    BY <1>4, <2>1, <2>2
<1>6. IsInjective(f)
  BY <1>1, <1>3 DEF IsInjective
<1>7. Range(f) = Range(s) \ {Last(s)}
  <2>1. ASSUME NEW i \in DOMAIN f PROVE f[i] \in Range(s) \ {Last(s)}
    BY <1>3, <1>4, <1>5 DEF Range
  <2>2. ASSUME NEW i \in DOMAIN s, s[i] # Last(s) PROVE s[i] \in Range(f)
    <3>1. i \in 1 .. Len(s) - 1
      BY <1>1, <1>4, <2>2
    <3>2. i \in DOMAIN f /\ f[i] = s[i]
      BY <1>3, <3>1
    <3> QED
      BY <3>2 DEF Range
  <2> QED
    BY <2>1, <2>2 DEF Range
<1>8. Last(s) \in Chunk
  BY <1>4
<1>9. Last(s) \in Range(s)
  BY <1>4 DEF Range
<1> QED
  BY <1>2, <1>3, <1>6, <1>7, <1>8, <1>9

\* _slab_free() puts a chunk at the end of a list.
LEMMA ListAppend ==
    ASSUME NEW s \in Seq(Chunk), NEW p \in Chunk, IsInjective(s), p \notin Range(s)
    PROVE  /\ Append(s, p) \in Seq(Chunk) /\ IsInjective(Append(s, p))
           /\ Range(Append(s, p)) = Range(s) \cup {p}
<1>1. Len(s) \in Nat /\ DOMAIN s = 1 .. Len(s)
  OBVIOUS
<1>2. PICK f : f = Append(s, p)
  OBVIOUS
<1>3. /\ f \in Seq(Chunk) /\ DOMAIN f = 1 .. Len(s) + 1 /\ f[Len(s) + 1] = p
      /\ \A i \in 1 .. Len(s) : f[i] = s[i]
  BY <1>1, <1>2
<1>4. \A i \in 1 .. Len(s) : s[i] # p
  BY <1>1 DEF Range
<1>5. \A i \in DOMAIN f : i = Len(s) + 1 \/ i \in 1 .. Len(s)
  BY <1>1, <1>3
<1>6. IsInjective(f)
  <2> SUFFICES ASSUME NEW i \in DOMAIN f, NEW j \in DOMAIN f, f[i] = f[j] PROVE i = j
    BY DEF IsInjective
  <2>1. CASE i = Len(s) + 1
    BY <1>3, <1>4, <1>5, <2>1
  <2>2. CASE j = Len(s) + 1
    BY <1>3, <1>4, <1>5, <2>2
  <2>3. CASE i \in 1 .. Len(s) /\ j \in 1 .. Len(s)
    BY <1>1, <1>3, <2>3 DEF IsInjective
  <2> QED
    BY <1>5, <2>1, <2>2, <2>3
<1>7. Range(f) = Range(s) \cup {p}
  <2>1. ASSUME NEW i \in DOMAIN f PROVE f[i] \in Range(s) \cup {p}
    BY <1>1, <1>3, <1>5 DEF Range
  <2>2. ASSUME NEW i \in DOMAIN s PROVE s[i] \in Range(f)
    <3>1. i \in DOMAIN f /\ f[i] = s[i]
      BY <1>1, <1>3
    <3> QED
      BY <3>1 DEF Range
  <2>3. Len(s) + 1 \in DOMAIN f
    BY <1>1, <1>3
  <2>4. p \in Range(f)
    BY <1>3, <2>3 DEF Range
  <2> QED
    BY <2>1, <2>2, <2>4 DEF Range
<1> QED
  BY <1>2, <1>3, <1>6, <1>7

\* The variables that ReturnChunk() leaves to the action that uses it.
ListsTyped ==
    /\ slots \in [Classes -> Seq(Chunk)]
    /\ sl_total \in [Classes -> Nat]
    /\ end_page_free \in [Classes -> Nat]
    /\ slabs \in [Classes -> Nat]
    /\ list_size \in [Classes -> Nat]
    /\ lock \in [Classes -> Threads \cup {None}]
    /\ mem_malloced \in Nat
    /\ seen \in [Threads -> Nat]
    /\ overlapped \subseteq Threads
    /\ raced \in Nat

\* _slab_alloc() returns chunk p, which was not in use.
LEMMA TakeStep ==
    ASSUME Inv, NEW t \in Threads, pc[t] \in {"alloc", "newslab_add"},
           NEW p \in Chunk, NEW m \in BOOLEAN, ReturnChunk(t, p, m),
           p \notin DOMAIN head \cup dropped,
           m <=> p.class = 0, m => Id(t) > power_largest,
           ~m => p.class \in Classes /\ Id(t) = p.class,
           dropped' = dropped, ListsTyped',
           \A c \in Classes : lock[c] # None /\ lock[c] # t =>
               lock'[c] = lock[c] /\ slots'[c] = slots[c] /\ end_page_free'[c] = end_page_free[c],
           \A c \in Classes : lock'[c] # t /\ (lock'[c] = None \/ lock'[c] = lock[c]),
           \A c \in Classes : ClassOK(c)'
    PROVE  Inv'
<1>0. TypeOK /\ Owned /\ CallOK(t)
  BY DEF Inv
<1>1. call[t].new = NoChunk /\ call[t].size \in Sizes /\ call[t] \in CallRecord
  BY <1>0 DEF CallOK, TypeOK, CallRecord
<1>2. p # NoChunk
  BY Chunks
<1>3. /\ DOMAIN head' = DOMAIN head \cup {p}
      /\ head'[p] = [is_malloc |-> m, size |-> call[t].size + HEAD_SIZE]
      /\ \A q \in DOMAIN head : head'[q] = head[q]
  BY DEF ReturnChunk
<1>4. \A q \in {p} : HeadOK(q)'
  <2>1. head'[p].is_malloc = m /\ head'[p].size = call[t].size + HEAD_SIZE
    BY <1>3
  <2>2. ClassFor[head'[p].size] = Id(t)
    BY <2>1 DEF Id
  <2> QED
    BY <1>1, <2>1, <2>2 DEF HeadOK
<1>5. Held(t) = {call[t].old} \ {NoChunk}
  BY <1>1 DEF Held
<1>6. /\ \A u \in Threads \ {t} : pc'[u] = pc[u] /\ call'[u] = call[u]
      /\ CallOK(t)'
      /\ live' \cup Held(t)' = (live \cup Held(t) \cup {p}) \ {}
      /\ live' \cap Held(t)' = {}
      /\ pc' \in [Threads -> Places] /\ call' \in [Threads -> CallRecord]
  <2>1. CASE call[t].old = NoChunk
    <3>1. /\ pc' = [pc EXCEPT ![t] = "idle"] /\ call' = [call EXCEPT ![t] = NoCall]
          /\ live' = live \cup {p}
      BY <2>1 DEF ReturnChunk, Goto
    <3>2. pc'[t] = "idle" /\ call'[t] = NoCall
      BY <1>0, <3>1 DEF TypeOK
    <3>3. Held(t) = {} /\ Held(t)' = {}
      BY <1>5, <2>1, <3>2 DEF Held, NoCall
    <3>4. NoCall \in CallRecord
      BY DEF NoCall, CallRecord
    <3>5. CallOK(t)'
      BY <3>2 DEF CallOK, NoCall
    <3>6. pc' \in [Threads -> Places] /\ call' \in [Threads -> CallRecord]
      BY <1>0, <3>1, <3>4 DEF TypeOK, Places, CallRecord
    <3>7. \A u \in Threads \ {t} : pc'[u] = pc[u] /\ call'[u] = call[u]
      BY <1>0, <3>1 DEF TypeOK
    <3> QED
      BY <3>1, <3>3, <3>5, <3>6, <3>7
  <2>2. CASE call[t].old # NoChunk
    <3>1. /\ pc' = [pc EXCEPT ![t] = "copy"] /\ call' = [call EXCEPT ![t].new = p]
          /\ live' = live
      BY <2>2 DEF ReturnChunk, Goto
    <3>2. PICK k : k = [call[t] EXCEPT !.new = p]
      OBVIOUS
    <3>3. k \in CallRecord /\ k.new = p /\ k.old = call[t].old /\ k.size = call[t].size
      BY <1>1, <3>2 DEF CallRecord
    <3>4. call' = [call EXCEPT ![t] = k]
      BY <1>0, <3>1, <3>2 DEF TypeOK
    <3>5. pc'[t] = "copy" /\ call'[t] = k
      BY <1>0, <3>1, <3>4 DEF TypeOK
    <3>6. Held(t) = {call[t].old} /\ Held(t)' = {call[t].old, p}
      BY <1>2, <1>5, <2>2, <3>3, <3>5 DEF Held
    <3>7. call[t].old \in DOMAIN head /\ call[t].old \notin live /\ p \notin live
      BY <1>0, <2>2, <3>6, HeldInUse DEF Owned
    <3>8. CallOK(t)'
      BY <1>1, <1>2, <1>3, <2>2, <3>3, <3>5, <3>7 DEF CallOK
    <3>9. pc' \in [Threads -> Places] /\ call' \in [Threads -> CallRecord]
      BY <1>0, <3>1, <3>3, <3>4, ZenonT(60) DEF TypeOK, Places, CallRecord
    <3>10. \A u \in Threads \ {t} : pc'[u] = pc[u] /\ call'[u] = call[u]
      BY <1>0, <3>1, <3>4 DEF TypeOK
    <3> QED
      BY <3>1, <3>6, <3>7, <3>8, <3>9, <3>10
  <2> QED
    BY <2>1, <2>2
<1>7. TypeOK'
  <2>1. live' \subseteq Chunk /\ DOMAIN head' \subseteq Chunk /\ dropped' \subseteq Chunk
    <3>1. live' \subseteq DOMAIN head'
      BY <1>0, <1>3, <1>6 DEF Owned
    <3> QED
      BY <1>0, <1>3, <3>1 DEF TypeOK
  <2>2. \A q \in DOMAIN head' : head'[q] \in SlabHead
    <3>1. head'[p] \in SlabHead
      BY <1>1, <1>3, SlabAssumption DEF SlabHead, CallRecord
    <3> QED
      BY <1>0, <1>3, <3>1 DEF TypeOK
  <2> QED
    BY <1>6, <2>1, <2>2 DEF TypeOK, ListsTyped, CallRecord
<1>8. \A c \in Classes : lock'[c] # None /\ lock'[c] # t => lock'[c] = lock[c]
  OBVIOUS
<1>9. \A c \in Classes : lock'[c] = t => pc'[t] \in {"newslab", "newslab_add"} /\ Id(t)' = c
  OBVIOUS
<1> DEFINE New == {p}
           Gone == {}
<1>10. /\ New \cap (DOMAIN head \cup dropped) = {}
       /\ Gone \subseteq live \cup Held(t)
       /\ live' \cup Held(t)' = (live \cup Held(t) \cup New) \ Gone
       /\ DOMAIN head' = (DOMAIN head \cup New) \ Gone
       /\ dropped' \subseteq dropped \cup Gone
       /\ \A q \in DOMAIN head \cap DOMAIN head' : head'[q] = head[q]
       /\ \A q \in New : HeadOK(q)'
       /\ \A q \in dropped' : q.class \in Classes
  BY <1>3, <1>4, <1>6 DEF Inv
<1> HIDE DEF New, Gone
<1> QED
  BY <1>6, <1>7, <1>8, <1>9, <1>10, ThreadStep

\* The first Used(c) chunks of class c were handed out, and the next was not.
LEMMA UsedChunks ==
    ASSUME Inv, NEW c \in Classes
    PROVE  /\ perslab[c] \in Nat \ {0} /\ slabs[c] \in Nat /\ end_page_free[c] \in Nat
           /\ slabs[c] * perslab[c] \in Nat /\ Used(c) \in Nat
           /\ Used(c) = slabs[c] * perslab[c] - end_page_free[c]
           /\ EndPagePtr(c) = [class |-> c, n |-> Used(c) + 1]
<1>1. perslab[c] \in Nat \ {0} /\ slabs[c] \in Nat /\ end_page_free[c] \in Nat
  BY ChunksPerPage DEF Inv, TypeOK
<1>2. PICK k \in Nat : k = slabs[c] * perslab[c]
  BY <1>1
<1>3. end_page_free[c] <= k
  BY <1>2 DEF Inv, ClassOK
<1> QED
  BY <1>1, <1>2, <1>3 DEF Used, EndPagePtr

\* The first k chunks of a class, one by one.
LEMMA GivenChunks ==
    ASSUME NEW c, NEW q, NEW k \in Nat
    PROVE  q \in [class: {c}, n: 1 .. k] <=> \E n \in 1 .. k : q = [class |-> c, n |-> n]
  OBVIOUS

\* end_page_ptr is a chunk that nobody has.
LEMMA NextChunk ==
    ASSUME Inv, NEW c \in Classes
    PROVE  /\ EndPagePtr(c) \in Chunk /\ EndPagePtr(c).class = c
           /\ EndPagePtr(c) \notin Given(c)
           /\ EndPagePtr(c) \notin DOMAIN head \cup dropped /\ EndPagePtr(c) \notin Listed(c)
<1>1. PICK k \in Nat : k = Used(c) /\ EndPagePtr(c) = [class |-> c, n |-> k + 1]
  BY UsedChunks
<1>2. EndPagePtr(c) \in Chunk /\ EndPagePtr(c).class = c
  BY <1>1, Chunks
<1>3. EndPagePtr(c) \notin Given(c)
  <2>1. k + 1 \notin 1 .. k
    OBVIOUS
  <2> QED
    BY <1>1, <2>1 DEF Given
<1>4. {q \in DOMAIN head \cup dropped : q.class = c} \cup Listed(c) = Given(c)
  BY DEF Inv, ClassOK
<1> QED
  BY <1>2, <1>3, <1>4

\* The next chunk of the last page is handed out.
LEMMA TakeFresh ==
    ASSUME Inv, NEW c \in Classes, end_page_free[c] # 0,
           slots' = slots, slabs' = slabs, end_page_free' = [end_page_free EXCEPT ![c] = @ - 1],
           DOMAIN head' = DOMAIN head \cup {EndPagePtr(c)}, dropped' = dropped
    PROVE  /\ end_page_free' \in [Classes -> Nat]
           /\ \A d \in Classes : ClassOK(d)'
<1>1. /\ end_page_free[c] \in Nat \ {0} /\ slabs[c] * perslab[c] \in Nat /\ Used(c) \in Nat
      /\ Used(c) = slabs[c] * perslab[c] - end_page_free[c]
      /\ EndPagePtr(c) = [class |-> c, n |-> Used(c) + 1]
  BY UsedChunks
<1>2. end_page_free \in [Classes -> Nat] /\ ClassOK(c)
  BY DEF Inv, TypeOK
<1>3. end_page_free'[c] = end_page_free[c] - 1 /\ \A d \in Classes \ {c} : end_page_free'[d] = end_page_free[d]
  BY <1>2
<1>4. end_page_free' \in [Classes -> Nat]
  BY <1>1, <1>2, <1>3
<1>5. EndPagePtr(c).class = c /\ EndPagePtr(c) \notin Listed(c)
  BY NextChunk
<1>6. ASSUME NEW d \in Classes, d # c PROVE ClassOK(d)'
  <2>1. ClassOK(d)
    BY DEF Inv
  <2>2. {q \in DOMAIN head' \cup dropped' : q.class = d} = {q \in DOMAIN head \cup dropped : q.class = d}
    BY <1>5, <1>6
  <2> QED
    BY <1>3, <1>6, <2>1, <2>2, ClassFrame
<1>7. ClassOK(c)'
  <2>1. Used(c)' = Used(c) + 1
    BY <1>1, <1>3 DEF Used
  <2>2. Given(c)' = Given(c) \cup {EndPagePtr(c)}
    <3>1. PICK k \in Nat : k = Used(c)
      BY <1>1
    <3>2. 1 .. k + 1 = (1 .. k) \cup {k + 1}
      BY <3>1
    <3>3. [class: {c}, n: 1 .. k + 1] = [class: {c}, n: 1 .. k] \cup {[class |-> c, n |-> k + 1]}
      <4>1. k + 1 \in Nat
        OBVIOUS
      <4>2. ASSUME NEW q PROVE q \in [class: {c}, n: 1 .. k + 1] <=>
                                 q \in [class: {c}, n: 1 .. k] \/ q = [class |-> c, n |-> k + 1]
        <5>1. q \in [class: {c}, n: 1 .. k + 1] <=> \E n \in 1 .. k + 1 : q = [class |-> c, n |-> n]
          BY <4>1, GivenChunks
        <5>2. q \in [class: {c}, n: 1 .. k] <=> \E n \in 1 .. k : q = [class |-> c, n |-> n]
          BY GivenChunks
        <5> QED
          BY <3>2, <5>1, <5>2
      <4> QED
        BY <4>2, Zenon
    <3> QED
      BY <1>1, <2>1, <3>1, <3>3 DEF Given
  <2>3. Listed(c)' = Listed(c) /\ IsInjective(slots[c])'
    BY <1>2 DEF Listed, ClassOK, IsInjective
  <2>4. (end_page_free[c] <= slabs[c] * perslab[c])'
    BY <1>1, <1>3, <2>1 DEF Used
  <2>5. Listed(c)' \cap (DOMAIN head' \cup dropped') = {}
    BY <1>2, <1>5, <2>3 DEF ClassOK
  <2>6. {q \in DOMAIN head' \cup dropped' : q.class = c} =
          {q \in DOMAIN head \cup dropped : q.class = c} \cup {EndPagePtr(c)}
    BY <1>5
  <2>7. ({q \in DOMAIN head \cup dropped : q.class = c} \cup Listed(c) = Given(c))'
    BY <1>2, <2>2, <2>3, <2>6 DEF ClassOK
  <2> QED
    BY <2>3, <2>4, <2>5, <2>7 DEF ClassOK
<1> QED
  BY <1>4, <1>6, <1>7

\* A chunk on the free list of a class belongs to the class and to nobody.
LEMMA ListedChunks ==
    ASSUME Inv, NEW c \in Classes, NEW p \in Listed(c)
    PROVE  p.class = c /\ p \notin DOMAIN head \cup dropped
<1>1. ClassOK(c)
  BY DEF Inv
<1>2. p \in Given(c) /\ p \notin DOMAIN head \cup dropped
  BY <1>1 DEF ClassOK
<1> QED
  BY <1>2 DEF Given

\* The last chunk of the free list is handed out.
LEMMA TakeListed ==
    ASSUME Inv, NEW c \in Classes, slots[c] # << >>,
           slots' = [slots EXCEPT ![c] = Front(@)], slabs' = slabs, end_page_free' = end_page_free,
           DOMAIN head' = DOMAIN head \cup {Last(slots[c])}, dropped' = dropped
    PROVE  /\ slots' \in [Classes -> Seq(Chunk)]
           /\ \A d \in Classes : ClassOK(d)'
<1>1. slots \in [Classes -> Seq(Chunk)] /\ ClassOK(c)
  BY DEF Inv, TypeOK
<1>2. slots'[c] = Front(slots[c]) /\ \A d \in Classes \ {c} : slots'[d] = slots[d]
  BY <1>1
<1>3. /\ Front(slots[c]) \in Seq(Chunk) /\ IsInjective(Front(slots[c]))
      /\ Last(slots[c]) \in Chunk /\ Last(slots[c]) \in Range(slots[c])
      /\ Range(Front(slots[c])) = Range(slots[c]) \ {Last(slots[c])}
  <2>1. IsInjective(slots[c]) /\ slots[c] \in Seq(Chunk)
    BY <1>1 DEF ClassOK
  <2> QED
    BY <2>1, ListFront
<1>4. Last(slots[c]) \in Listed(c) /\ Last(slots[c]).class = c
  BY <1>3, ListedChunks DEF Listed
<1>5. slots' \in [Classes -> Seq(Chunk)]
  BY <1>1, <1>3
<1>6. ASSUME NEW d \in Classes, d # c PROVE ClassOK(d)'
  <2>1. ClassOK(d)
    BY DEF Inv
  <2>2. {q \in DOMAIN head' \cup dropped' : q.class = d} = {q \in DOMAIN head \cup dropped : q.class = d}
    BY <1>4, <1>6
  <2> QED
    BY <1>2, <1>6, <2>1, <2>2, ClassFrame
<1>7. ClassOK(c)'
  <2>1. Given(c)' = Given(c)
    BY DEF Given, Used
  <2>2. Listed(c)' = Listed(c) \ {Last(slots[c])} /\ IsInjective(slots[c])'
    BY <1>2, <1>3 DEF Listed, IsInjective
  <2>3. (end_page_free[c] <= slabs[c] * perslab[c])'
    BY <1>1 DEF ClassOK
  <2>4. Listed(c)' \cap (DOMAIN head' \cup dropped') = {}
    BY <1>1, <2>2 DEF ClassOK
  <2>5. {q \in DOMAIN head' \cup dropped' : q.class = c} =
          {q \in DOMAIN head \cup dropped : q.class = c} \cup {Last(slots[c])}
    BY <1>4
  <2>6. ({q \in DOMAIN head \cup dropped : q.class = c} \cup Listed(c) = Given(c))'
    BY <1>1, <1>4, <2>1, <2>2, <2>5 DEF ClassOK
  <2> QED
    BY <2>2, <2>3, <2>4, <2>6 DEF ClassOK
<1> QED
  BY <1>5, <1>6, <1>7

\* A chunk in use goes to the end of the free list of its class.
LEMMA PutListed ==
    ASSUME Inv, NEW c \in Classes, NEW p \in DOMAIN head, p.class = c,
           slots' = [slots EXCEPT ![c] = Append(@, p)], slabs' = slabs, end_page_free' = end_page_free,
           DOMAIN head' = DOMAIN head \ {p}, dropped' = dropped
    PROVE  /\ slots' \in [Classes -> Seq(Chunk)]
           /\ \A d \in Classes : ClassOK(d)'
<1>1. slots \in [Classes -> Seq(Chunk)] /\ ClassOK(c) /\ p \in Chunk /\ Owned
  BY DEF Inv, TypeOK
<1>2. slots'[c] = Append(slots[c], p) /\ \A d \in Classes \ {c} : slots'[d] = slots[d]
  BY <1>1
<1>3. p \notin Range(slots[c]) /\ p \notin dropped
  BY <1>1 DEF ClassOK, Listed, Owned
<1>4. /\ Append(slots[c], p) \in Seq(Chunk) /\ IsInjective(Append(slots[c], p))
      /\ Range(Append(slots[c], p)) = Range(slots[c]) \cup {p}
  <2>1. IsInjective(slots[c]) /\ slots[c] \in Seq(Chunk)
    BY <1>1 DEF ClassOK
  <2> QED
    BY <1>1, <1>3, <2>1, ListAppend
<1>5. slots' \in [Classes -> Seq(Chunk)]
  BY <1>1, <1>4
<1>6. ASSUME NEW d \in Classes, d # c PROVE ClassOK(d)'
  <2>1. ClassOK(d)
    BY DEF Inv
  <2>2. {q \in DOMAIN head' \cup dropped' : q.class = d} = {q \in DOMAIN head \cup dropped : q.class = d}
    BY <1>6
  <2> QED
    BY <1>2, <1>6, <2>1, <2>2, ClassFrame
<1>7. ClassOK(c)'
  <2>1. Given(c)' = Given(c)
    BY DEF Given, Used
  <2>2. Listed(c)' = Listed(c) \cup {p} /\ IsInjective(slots[c])'
    BY <1>2, <1>4 DEF Listed, IsInjective
  <2>3. (end_page_free[c] <= slabs[c] * perslab[c])'
    BY <1>1 DEF ClassOK
  <2>4. Listed(c)' \cap (DOMAIN head' \cup dropped') = {}
    BY <1>1, <1>3, <2>2 DEF ClassOK
  <2>5. {q \in DOMAIN head' \cup dropped' : q.class = c} \cup {p} =
          {q \in DOMAIN head \cup dropped : q.class = c}
    OBVIOUS
  <2>6. ({q \in DOMAIN head \cup dropped : q.class = c} \cup Listed(c) = Given(c))'
    BY <1>1, <2>1, <2>2, <2>5 DEF ClassOK
  <2> QED
    BY <2>2, <2>3, <2>4, <2>6 DEF ClassOK
<1> QED
  BY <1>5, <1>6, <1>7

\* It is a chunk of a page.
LEMMA TakeChunkStep ==
    ASSUME Inv, NEW t \in Threads, pc[t] \in {"alloc", "newslab_add"},
           NEW p \in Chunk, ReturnChunk(t, p, FALSE),
           p \notin DOMAIN head \cup dropped,
           p.class # 0, p.class \in Classes, Id(t) = p.class,
           dropped' = dropped, ListsTyped',
           \A c \in Classes : lock[c] # None /\ lock[c] # t =>
               lock'[c] = lock[c] /\ slots'[c] = slots[c] /\ end_page_free'[c] = end_page_free[c],
           \A c \in Classes : lock'[c] # t /\ (lock'[c] = None \/ lock'[c] = lock[c]),
           \A c \in Classes : ClassOK(c)'
    PROVE  Inv'
<1> PICK m \in BOOLEAN : m = FALSE
  OBVIOUS
<1>1. ReturnChunk(t, p, m)
  OBVIOUS
<1>2. (m <=> p.class = 0) /\ (m => Id(t) > power_largest) /\ (~m => p.class \in Classes /\ Id(t) = p.class)
  OBVIOUS
<1> QED
  BY <1>1, <1>2, TakeStep

-----------------------------------------------------------------------------
(* The steps of _slab_alloc().                                             *)

\* malloc() serves what fits no class, or fails.
LEMMA AllocMallocStep ==
    ASSUME Inv, NEW t \in Threads, AllocMalloc(t)
    PROVE  Inv'
<1>0. TypeOK /\ CallOK(t) /\ pc[t] = "alloc" /\ Id(t) > power_largest
  BY DEF Inv, AllocMalloc
<1>u. /\ slots' = slots /\ sl_total' = sl_total /\ end_page_free' = end_page_free /\ slabs' = slabs
      /\ list_size' = list_size /\ lock' = lock /\ mem_malloced' = mem_malloced
      /\ seen' = seen /\ overlapped' = overlapped /\ raced' = raced /\ dropped' = dropped
  BY DEF AllocMalloc, listvars, pagevars, racevars
<1>1. CASE ReturnNull(t) /\ UNCHANGED head
  <2>1. UNCHANGED <<listvars, pagevars, lock, mem_malloced, head, racevars, dropped>>
    BY <1>u, <1>1 DEF listvars, pagevars, racevars
  <2> QED
    BY <1>0, <1>1, <2>1, NullStep
<1>2. ASSUME NEW n \in 1 .. MaxMallocs, [class |-> 0, n |-> n] \notin Mallocs,
             ReturnChunk(t, [class |-> 0, n |-> n], TRUE)
      PROVE  Inv'
  <2>1. PICK p : p = [class |-> 0, n |-> n]
    OBVIOUS
  <2>2. p \in Chunk /\ p.class = 0
    BY <2>1, SlabAssumption, Chunks
  <2>3. p \notin DOMAIN head
    BY <1>2, <2>1, <2>2 DEF Mallocs
  <2>4. p \notin dropped
    BY <2>2, ClassesAreNumbers DEF Inv
  <2>5. ListsTyped'
    BY <1>0, <1>u DEF ListsTyped, TypeOK
  <2>6. DOMAIN head' = DOMAIN head \cup {p}
    BY <1>2, <2>1 DEF ReturnChunk
  <2>7. \A c \in Classes : ClassOK(c)'
    <3> SUFFICES ASSUME NEW c \in Classes PROVE ClassOK(c)'
      OBVIOUS
    <3>1. ClassOK(c) /\ c # 0
      BY ClassesAreNumbers DEF Inv
    <3>2. {q \in DOMAIN head' \cup dropped' : q.class = c} = {q \in DOMAIN head \cup dropped : q.class = c}
      BY <1>u, <2>2, <2>6, <3>1
    <3> QED
      BY <1>u, <3>1, <3>2, ClassFrame
  <2>8. \A c \in Classes : lock[c] # t
    BY <1>0, SlabAssumption DEF Inv, LockOK
  <2> QED
    BY <1>0, <1>u, <1>2, <2>1, <2>2, <2>3, <2>4, <2>5, <2>7, <2>8, TakeStep
<1> QED
  BY <1>1, <1>2 DEF AllocMalloc

\* A thread that allocates has no lock but that of the class it fetches a page
\* for.
LEMMA NoLock ==
    ASSUME Inv, NEW t \in Threads
    PROVE  /\ pc[t] \notin {"newslab", "newslab_add"} => \A c \in Classes : lock[c] # t
           /\ \A c \in Classes : c # Id(t) => lock[c] # t
  BY SlabAssumption DEF Inv, LockOK

\* The last chunk of the free list is handed out.
LEMMA AllocSlotStep ==
    ASSUME Inv, NEW t \in Threads, AllocSlot(t)
    PROVE  Inv'
<1>0. PICK c \in Classes :
        /\ c = Id(t) /\ pc[t] = "alloc" /\ lock[c] = None /\ slots[c] # << >>
        /\ slots' = [slots EXCEPT ![c] = Front(@)]
        /\ ReturnChunk(t, Last(slots[c]), FALSE)
        /\ UNCHANGED <<sl_total, pagevars, lock, mem_malloced, racevars, dropped>>
  BY DEF AllocSlot
<1>u. /\ sl_total' = sl_total /\ end_page_free' = end_page_free /\ slabs' = slabs
      /\ list_size' = list_size /\ lock' = lock /\ mem_malloced' = mem_malloced
      /\ seen' = seen /\ overlapped' = overlapped /\ raced' = raced /\ dropped' = dropped
  BY <1>0 DEF pagevars, racevars
<1>1. TypeOK /\ ClassOK(c)
  BY DEF Inv
<1>2. PICK p : p = Last(slots[c])
  OBVIOUS
<1>3. p \in Chunk /\ p \in Listed(c)
  BY <1>0, <1>1, <1>2, ListFront DEF TypeOK, ClassOK, Listed
<1>4. p.class = c /\ p \notin DOMAIN head \cup dropped /\ c # 0
  BY <1>3, ListedChunks, ClassesAreNumbers
<1>5. DOMAIN head' = DOMAIN head \cup {p}
  BY <1>0, <1>2 DEF ReturnChunk
<1>6. slots' \in [Classes -> Seq(Chunk)] /\ \A d \in Classes : ClassOK(d)'
  BY <1>0, <1>u, <1>2, <1>5, TakeListed
<1>7. ListsTyped'
  BY <1>1, <1>u, <1>6 DEF ListsTyped, TypeOK
<1>8. \A d \in Classes : lock[d] # t
  BY <1>0, NoLock
<1>9. \A d \in Classes : lock[d] # None /\ lock[d] # t =>
          lock'[d] = lock[d] /\ slots'[d] = slots[d] /\ end_page_free'[d] = end_page_free[d]
  BY <1>0, <1>u, <1>1 DEF TypeOK
<1>10. ReturnChunk(t, p, FALSE) /\ ~(p.class = 0)
  BY <1>0, <1>2, <1>4
<1> QED
  BY <1>0, <1>u, <1>3, <1>4, <1>6, <1>7, <1>8, <1>9, <1>10, TakeChunkStep, ZenonT(60)

\* The next chunk of the last page is handed out.
LEMMA AllocEndPageStep ==
    ASSUME Inv, NEW t \in Threads, AllocEndPage(t)
    PROVE  Inv'
<1>0. PICK c \in Classes :
        /\ c = Id(t) /\ pc[t] = "alloc" /\ lock[c] = None /\ end_page_free[c] # 0
        /\ ReturnChunk(t, EndPagePtr(c), FALSE)
        /\ end_page_free' = [end_page_free EXCEPT ![c] = @ - 1]
        /\ UNCHANGED <<listvars, slabs, list_size, lock, mem_malloced, racevars, dropped>>
  BY DEF AllocEndPage
<1>u. /\ slots' = slots /\ sl_total' = sl_total /\ slabs' = slabs
      /\ list_size' = list_size /\ lock' = lock /\ mem_malloced' = mem_malloced
      /\ seen' = seen /\ overlapped' = overlapped /\ raced' = raced /\ dropped' = dropped
  BY <1>0 DEF listvars, racevars
<1>1. TypeOK
  BY DEF Inv
<1>2. PICK p : p = EndPagePtr(c)
  OBVIOUS
<1>3. p \in Chunk /\ p.class = c /\ p \notin DOMAIN head \cup dropped /\ c # 0
  BY <1>2, NextChunk, ClassesAreNumbers
<1>4. DOMAIN head' = DOMAIN head \cup {p}
  BY <1>0, <1>2 DEF ReturnChunk
<1>5. end_page_free' \in [Classes -> Nat] /\ \A d \in Classes : ClassOK(d)'
  BY <1>0, <1>u, <1>2, <1>4, TakeFresh
<1>6. ListsTyped'
  BY <1>1, <1>u, <1>5 DEF ListsTyped, TypeOK
<1>7. \A d \in Classes : lock[d] # t
  BY <1>0, NoLock
<1>8. \A d \in Classes : lock[d] # None /\ lock[d] # t =>
          lock'[d] = lock[d] /\ slots'[d] = slots[d] /\ end_page_free'[d] = end_page_free[d]
  BY <1>0, <1>u, <1>1 DEF TypeOK
<1>9. ReturnChunk(t, p, FALSE)
  BY <1>0, <1>2
<1>10. pc[t] \in {"alloc", "newslab_add"} /\ Id(t) = p.class /\ dropped' = dropped
  BY <1>0, <1>u, <1>3
<1>11. \A d \in Classes : lock'[d] # t /\ (lock'[d] = None \/ lock'[d] = lock[d])
  BY <1>u, <1>7
<1> QED
  BY <1>3, <1>5, <1>6, <1>8, <1>9, <1>10, <1>11, TakeChunkStep

\* The first chunk of a new page is handed out.
LEMMA NewslabAddStep ==
    ASSUME Inv, NEW t \in Threads, NewslabAdd(t)
    PROVE  Inv'
<1>1. TypeOK /\ CallOK(t) /\ pc[t] = "newslab_add"
  BY DEF Inv, NewslabAdd
<1>0. PICK c \in Classes :
        /\ c = Id(t) /\ lock[c] = t /\ end_page_free[c] = perslab[c]
        /\ ReturnChunk(t, EndPagePtr(c), FALSE)
        /\ end_page_free' = [end_page_free EXCEPT ![c] = @ - 1]
        /\ lock' = [lock EXCEPT ![c] = None]
        /\ mem_malloced' = seen[t] + POWER_BLOCK
        /\ seen' = [seen EXCEPT ![t] = 0]
        /\ overlapped' = overlapped \ {t}
  BY <1>1 DEF NewslabAdd, CallOK
<1>u. /\ slots' = slots /\ sl_total' = sl_total /\ slabs' = slabs
      /\ list_size' = list_size /\ raced' = raced /\ dropped' = dropped
  BY DEF NewslabAdd, listvars
<1>2. PICK p : p = EndPagePtr(c)
  OBVIOUS
<1>3. p \in Chunk /\ p.class = c /\ p \notin DOMAIN head \cup dropped /\ c # 0
  BY <1>2, NextChunk, ClassesAreNumbers
<1>4. DOMAIN head' = DOMAIN head \cup {p}
  BY <1>0, <1>2 DEF ReturnChunk
<1>5. end_page_free[c] # 0
  BY <1>0, ChunksPerPage
<1>6. end_page_free' \in [Classes -> Nat] /\ \A d \in Classes : ClassOK(d)'
  BY <1>0, <1>u, <1>2, <1>4, <1>5, TakeFresh
<1>7. ListsTyped'
  <2>1. mem_malloced' \in Nat /\ seen' \in [Threads -> Nat]
    BY <1>0, <1>1, SlabClassesAssumption DEF TypeOK
  <2>2. lock' \in [Classes -> Threads \cup {None}] /\ overlapped' \subseteq Threads
    BY <1>0, <1>1 DEF TypeOK
  <2> QED
    BY <1>1, <1>u, <1>6, <2>1, <2>2 DEF ListsTyped, TypeOK
<1>8. lock'[c] = None /\ \A d \in Classes \ {c} : lock'[d] = lock[d] /\ lock[d] # t
  BY <1>0, <1>1, NoLock DEF TypeOK
<1>9. \A d \in Classes : lock'[d] # t /\ (lock'[d] = None \/ lock'[d] = lock[d])
  BY <1>8, SlabAssumption
<1>10. \A d \in Classes : lock[d] # None /\ lock[d] # t =>
          lock'[d] = lock[d] /\ slots'[d] = slots[d] /\ end_page_free'[d] = end_page_free[d]
  BY <1>0, <1>u, <1>1, <1>8 DEF TypeOK
<1>11. ReturnChunk(t, p, FALSE)
  BY <1>0, <1>2
<1> QED
  BY <1>0, <1>u, <1>1, <1>3, <1>6, <1>7, <1>9, <1>10, <1>11, TakeChunkStep

\* The next page of a class: its chunks are cut, and none is handed out yet.
LEMMA PageClass ==
    ASSUME Inv, NEW c \in Classes, end_page_free[c] = 0,
           slots' = slots, slabs' = [slabs EXCEPT ![c] = @ + 1],
           end_page_free' = [end_page_free EXCEPT ![c] = perslab[c]],
           head' = head, dropped' = dropped
    PROVE  /\ end_page_free' \in [Classes -> Nat] /\ slabs' \in [Classes -> Nat]
           /\ \A d \in Classes : ClassOK(d)'
<1>0. slabs \in [Classes -> Nat] /\ end_page_free \in [Classes -> Nat] /\ ClassOK(c)
  BY DEF Inv, TypeOK
<1>1. PICK s \in Nat, k \in Nat \ {0} : s = slabs[c] /\ k = perslab[c]
  BY <1>0, ChunksPerPage
<1>2. slabs'[c] = s + 1 /\ end_page_free'[c] = k
  BY <1>0, <1>1
<1>3. \A d \in Classes \ {c} : slabs'[d] = slabs[d] /\ end_page_free'[d] = end_page_free[d]
  BY <1>0
<1>4. end_page_free' \in [Classes -> Nat] /\ slabs' \in [Classes -> Nat]
  BY <1>0, <1>1
<1>5. (s + 1) * k = s * k + k /\ s * k \in Nat
  OBVIOUS
<1>6. Used(c)' = Used(c)
  BY <1>1, <1>2, <1>5 DEF Used
<1>7. ASSUME NEW d \in Classes, d # c PROVE ClassOK(d)'
  <2>1. ClassOK(d)
    BY DEF Inv
  <2> QED
    BY <1>3, <1>7, <2>1, ClassFrame
<1>8. ClassOK(c)'
  <2>1. Given(c)' = Given(c)
    BY <1>6 DEF Given
  <2>2. Listed(c)' = Listed(c) /\ IsInjective(slots[c])'
    BY <1>0 DEF Listed, ClassOK, IsInjective
  <2>3. (end_page_free[c] <= slabs[c] * perslab[c])'
    BY <1>1, <1>2, <1>5
  <2>4. Listed(c)' \cap (DOMAIN head' \cup dropped') = {}
    BY <1>0, <2>2 DEF ClassOK
  <2>5. ({q \in DOMAIN head \cup dropped : q.class = c} \cup Listed(c) = Given(c))'
    BY <1>0, <2>1, <2>2 DEF ClassOK
  <2> QED
    BY <2>2, <2>3, <2>4, <2>5 DEF ClassOK
<1> QED
  BY <1>4, <1>7, <1>8

\* slab_list doubles.
LEMMA GrownListTyped ==
    ASSUME TypeOK, NEW c \in Classes
    PROVE  GrownList(c) \in Nat
  BY SlabAssumption DEF TypeOK, GrownList

\* The classes, when no list and no page changes.
LEMMA SameClasses ==
    ASSUME Inv, slots' = slots, slabs' = slabs, end_page_free' = end_page_free,
           DOMAIN head' \cup dropped' = DOMAIN head \cup dropped
    PROVE  \A c \in Classes : ClassOK(c)'
<1> SUFFICES ASSUME NEW c \in Classes PROVE ClassOK(c)'
  OBVIOUS
<1>1. ClassOK(c)
  BY DEF Inv
<1> QED
  BY <1>1, ClassFrame

\* A step that changes no chunk: the lock of a class, its pages, or both.
LEMMA PageStep ==
    ASSUME Inv, NEW t \in Threads, ListsTyped', pc' \in [Threads -> Places], call' \in [Threads -> CallRecord],
           \A u \in Threads \ {t} : pc'[u] = pc[u] /\ call'[u] = call[u],
           CallOK(t)', head' = head, dropped' = dropped,
           live' \cup Held(t)' = live \cup Held(t), live' \cap Held(t)' = {},
           \A c \in Classes : lock[c] # None /\ lock[c] # t =>
               lock'[c] = lock[c] /\ slots'[c] = slots[c] /\ end_page_free'[c] = end_page_free[c],
           \A c \in Classes : lock'[c] # None /\ lock'[c] # t => lock'[c] = lock[c],
           \A c \in Classes : lock'[c] = t => pc'[t] \in {"newslab", "newslab_add"} /\ Id(t)' = c,
           \A c \in Classes : ClassOK(c)'
    PROVE  Inv'
<1>0. TypeOK /\ Owned
  BY DEF Inv
<1>1. TypeOK'
  <2>1. live' \subseteq Chunk
    <3>1. live' \subseteq DOMAIN head
      BY <1>0 DEF Owned
    <3> QED
      BY <1>0, <3>1 DEF TypeOK
  <2> QED
    BY <1>0, <2>1 DEF TypeOK, ListsTyped, CallRecord
<1> DEFINE New == {}
           Gone == {}
<1>2. /\ New \cap (DOMAIN head \cup dropped) = {}
      /\ Gone \subseteq live \cup Held(t)
      /\ live' \cup Held(t)' = (live \cup Held(t) \cup New) \ Gone
      /\ DOMAIN head' = (DOMAIN head \cup New) \ Gone
      /\ dropped' \subseteq dropped \cup Gone
      /\ \A q \in DOMAIN head \cap DOMAIN head' : head'[q] = head[q]
      /\ \A q \in New : HeadOK(q)'
      /\ \A q \in dropped' : q.class \in Classes
  BY DEF Inv
<1> QED
  BY <1>1, <1>2, ThreadStep

\* The limit is reached, or the class is locked to fetch a page.
LEMMA NewslabCheckStep ==
    ASSUME Inv, NEW t \in Threads, NewslabCheck(t)
    PROVE  Inv'
<1>0. PICK c \in Classes :
        /\ c = Id(t) /\ pc[t] = "alloc" /\ lock[c] = None /\ slots[c] = << >> /\ end_page_free[c] = 0
  BY DEF NewslabCheck
<1>1. TypeOK /\ Owned /\ CallOK(t)
  BY DEF Inv
<1>u. /\ slots' = slots /\ sl_total' = sl_total /\ end_page_free' = end_page_free /\ slabs' = slabs
      /\ list_size' = list_size /\ mem_malloced' = mem_malloced /\ head' = head
      /\ seen' = seen /\ raced' = raced /\ dropped' = dropped
  BY DEF NewslabCheck, listvars, pagevars
<1>2. CASE ReturnNull(t) /\ UNCHANGED <<lock, overlapped>>
  <2>1. UNCHANGED <<listvars, pagevars, lock, mem_malloced, head, racevars, dropped>>
    BY <1>u, <1>2 DEF listvars, pagevars, racevars
  <2> QED
    BY <1>0, <1>2, <2>1, NullStep
<1>3. ASSUME lock' = [lock EXCEPT ![c] = t],
             overlapped' = IF Paging = {} THEN overlapped ELSE overlapped \cup Paging \cup {t},
             pc' = [pc EXCEPT ![t] = "newslab"], live' = live, call' = call
      PROVE  Inv'
  <2>1. pc'[t] = "newslab" /\ lock'[c] = t /\ \A d \in Classes \ {c} : lock'[d] = lock[d]
    BY <1>1, <1>3 DEF TypeOK
  <2>2. Id(t)' = c
    BY <1>0, <1>3 DEF Id
  <2>3. CallOK(t)'
    <3>1. call[t].size \in Sizes /\ call[t].new = NoChunk
      BY <1>0, <1>1 DEF CallOK
    <3> QED
      BY <1>0, <1>u, <1>3, <2>1, <2>2, <3>1 DEF CallOK
  <2>4. ListsTyped'
    <3>1. Paging \subseteq Threads
      BY DEF Paging
    <3>2. overlapped' \subseteq Threads /\ lock' \in [Classes -> Threads \cup {None}]
      BY <1>1, <1>3, <3>1 DEF TypeOK
    <3> QED
      BY <1>1, <1>u, <3>2 DEF TypeOK, ListsTyped
  <2>5. pc' \in [Threads -> Places] /\ call' \in [Threads -> CallRecord]
    BY <1>1, <1>3 DEF TypeOK, Places, CallRecord
  <2>6. \A u \in Threads \ {t} : pc'[u] = pc[u] /\ call'[u] = call[u]
    BY <1>1, <1>3 DEF TypeOK
  <2>7. Held(t)' = Held(t) /\ live \cap Held(t) = {}
    BY <1>1, <1>3 DEF Held, Owned
  <2>8. \A d \in Classes : ClassOK(d)'
    BY <1>u, SameClasses
  <2>9. \A d \in Classes : lock[d] # t
    BY <1>0, NoLock
  <2>10. \A d \in Classes :
          /\ lock[d] # None /\ lock[d] # t =>
               lock'[d] = lock[d] /\ slots'[d] = slots[d] /\ end_page_free'[d] = end_page_free[d]
          /\ lock'[d] # None /\ lock'[d] # t => lock'[d] = lock[d]
          /\ lock'[d] = t => pc'[t] \in {"newslab", "newslab_add"} /\ Id(t)' = d
    BY <1>0, <1>u, <2>1, <2>2, <2>9
  <2> QED
    BY <1>u, <1>3, <2>3, <2>4, <2>5, <2>6, <2>7, <2>8, <2>10, PageStep
<1> QED
  BY <1>0, <1>2, <1>3 DEF NewslabCheck, Goto

\* There is no page to be had.
LEMMA NewslabFailsStep ==
    ASSUME Inv, NEW t \in Threads, NewslabFails(t)
    PROVE  Inv'
<1>1. TypeOK /\ Owned /\ CallOK(t) /\ pc[t] = "newslab"
  BY DEF Inv, NewslabFails
<1>0. PICK c \in Classes :
        /\ c = Id(t) /\ lock[c] = t
        /\ list_size' = list_size \/ list_size' = [list_size EXCEPT ![c] = GrownList(c)]
        /\ lock' = [lock EXCEPT ![c] = None]
        /\ overlapped' = overlapped \ {t}
        /\ ReturnNull(t)
  BY <1>1 DEF NewslabFails, CallOK
<1>u. /\ slots' = slots /\ sl_total' = sl_total /\ end_page_free' = end_page_free /\ slabs' = slabs
      /\ mem_malloced' = mem_malloced /\ head' = head
      /\ seen' = seen /\ raced' = raced /\ dropped' = dropped
  BY DEF NewslabFails, listvars
<1>2. /\ pc' = [pc EXCEPT ![t] = "idle"] /\ call' = [call EXCEPT ![t] = NoCall]
      /\ live' = live \cup ({call[t].old} \ {NoChunk})
  BY <1>0 DEF ReturnNull, Goto
<1>3. pc'[t] = "idle" /\ call'[t] = NoCall
  BY <1>1, <1>2 DEF TypeOK
<1>4. call[t].new = NoChunk
  BY <1>1 DEF CallOK
<1>5. Held(t)' = {} /\ live' = live \cup Held(t)
  BY <1>2, <1>3, <1>4 DEF Held, NoCall
<1>6. CallOK(t)'
  BY <1>3 DEF CallOK, NoCall
<1>7. NoCall \in CallRecord
  BY DEF NoCall, CallRecord
<1>8. pc' \in [Threads -> Places] /\ call' \in [Threads -> CallRecord]
  BY <1>1, <1>2, <1>7 DEF TypeOK, Places, CallRecord
<1>9. \A u \in Threads \ {t} : pc'[u] = pc[u] /\ call'[u] = call[u]
  BY <1>1, <1>2 DEF TypeOK
<1>10. ListsTyped'
  <2>1. list_size' \in [Classes -> Nat]
    BY <1>0, <1>1, GrownListTyped DEF TypeOK
  <2>2. overlapped' \subseteq Threads /\ lock' \in [Classes -> Threads \cup {None}]
    BY <1>0, <1>1 DEF TypeOK
  <2> QED
    BY <1>1, <1>u, <2>1, <2>2 DEF TypeOK, ListsTyped
<1>11. lock'[c] = None /\ \A d \in Classes \ {c} : lock'[d] = lock[d] /\ lock[d] # t
  BY <1>0, <1>1, NoLock DEF TypeOK
<1>12. \A d \in Classes :
        /\ lock[d] # None /\ lock[d] # t =>
             lock'[d] = lock[d] /\ slots'[d] = slots[d] /\ end_page_free'[d] = end_page_free[d]
        /\ lock'[d] # None /\ lock'[d] # t => lock'[d] = lock[d]
        /\ lock'[d] = t => pc'[t] \in {"newslab", "newslab_add"} /\ Id(t)' = d
  BY <1>0, <1>u, <1>11, SlabAssumption
<1>13. \A d \in Classes : ClassOK(d)'
  BY <1>u, SameClasses
<1> QED
  BY <1>u, <1>5, <1>6, <1>8, <1>9, <1>10, <1>12, <1>13, PageStep

\* The page is there.
LEMMA NewslabPageStep ==
    ASSUME Inv, NEW t \in Threads, NewslabPage(t)
    PROVE  Inv'
<1>1. TypeOK /\ Owned /\ CallOK(t) /\ pc[t] = "newslab"
  BY DEF Inv, NewslabPage
<1>0. PICK c \in Classes :
        /\ c = Id(t) /\ lock[c] = t /\ slots[c] = << >> /\ end_page_free[c] = 0
        /\ list_size' = [list_size EXCEPT ![c] = GrownList(c)]
        /\ end_page_free' = [end_page_free EXCEPT ![c] = perslab[c]]
        /\ slabs' = [slabs EXCEPT ![c] = @ + 1]
        /\ seen' = [seen EXCEPT ![t] = mem_malloced]
        /\ raced' = raced + (IF t \in overlapped THEN 1 ELSE 0)
  BY <1>1 DEF NewslabPage, CallOK
<1>u. /\ slots' = slots /\ sl_total' = sl_total /\ lock' = lock /\ live' = live /\ call' = call
      /\ mem_malloced' = mem_malloced /\ head' = head /\ overlapped' = overlapped /\ dropped' = dropped
  BY DEF NewslabPage, listvars
<1>2. pc' = [pc EXCEPT ![t] = "newslab_add"]
  BY DEF NewslabPage, Goto
<1>3. pc'[t] = "newslab_add" /\ Id(t)' = c /\ end_page_free'[c] = perslab[c]
  BY <1>0, <1>1, <1>u, <1>2 DEF TypeOK, Id
<1>4. CallOK(t)'
  <2>1. call[t].size \in Sizes /\ call[t].new = NoChunk
    BY <1>1 DEF CallOK
  <2> QED
    BY <1>0, <1>u, <1>3, <2>1 DEF CallOK
<1>5. /\ end_page_free' \in [Classes -> Nat] /\ slabs' \in [Classes -> Nat]
      /\ \A d \in Classes : ClassOK(d)'
  BY <1>0, <1>u, PageClass
<1>6. ListsTyped'
  <2>1. list_size' \in [Classes -> Nat] /\ seen' \in [Threads -> Nat] /\ raced' \in Nat
    BY <1>0, <1>1, GrownListTyped, SMTT(40) DEF TypeOK
  <2> QED
    BY <1>1, <1>u, <1>5, <2>1 DEF TypeOK, ListsTyped
<1>7. pc' \in [Threads -> Places] /\ call' \in [Threads -> CallRecord]
  BY <1>1, <1>u, <1>2 DEF TypeOK, Places, CallRecord
<1>8. \A u \in Threads \ {t} : pc'[u] = pc[u] /\ call'[u] = call[u]
  BY <1>1, <1>u, <1>2 DEF TypeOK
<1>9. Held(t)' = Held(t) /\ live \cap Held(t) = {}
  BY <1>1, <1>u DEF Held, Owned
<1>10. \A d \in Classes \ {c} : lock[d] # t
  BY <1>0, NoLock
<1>11. \A d \in Classes :
        /\ lock[d] # None /\ lock[d] # t =>
             lock'[d] = lock[d] /\ slots'[d] = slots[d] /\ end_page_free'[d] = end_page_free[d]
        /\ lock'[d] # None /\ lock'[d] # t => lock'[d] = lock[d]
        /\ lock'[d] = t => pc'[t] \in {"newslab", "newslab_add"} /\ Id(t)' = d
  BY <1>0, <1>1, <1>u, <1>3, <1>10 DEF TypeOK
<1> QED
  BY <1>u, <1>4, <1>5, <1>6, <1>7, <1>8, <1>9, <1>11, PageStep

-----------------------------------------------------------------------------
(* The steps of _slab_free().                                              *)

\* The old chunk of thread t's call is no longer in use.
LEMMA FreeStep ==
    ASSUME Inv, NEW t \in Threads, pc[t] = "free", FreeReturns(t), ListsTyped',
           dropped' \subseteq dropped \cup {call[t].old},
           \A q \in dropped' : q.class \in Classes,
           lock' = lock, end_page_free' = end_page_free,
           \A c \in Classes : lock[c] # None => slots'[c] = slots[c],
           \A c \in Classes : ClassOK(c)'
    PROVE  Inv'
<1>0. TypeOK /\ Owned /\ CallOK(t) /\ call[t].old # NoChunk
  BY DEF Inv, CallOK
<1>1. PICK p \in DOMAIN head : p = call[t].old
  BY <1>0, HeldInUse
<1>2. /\ pc' = [pc EXCEPT ![t] = "idle"] /\ call' = [call EXCEPT ![t] = NoCall]
      /\ live' = live \cup ({call[t].new} \ {NoChunk})
      /\ DOMAIN head' = DOMAIN head \ {p}
      /\ \A q \in DOMAIN head \ {p} : head'[q] = head[q]
  BY <1>1 DEF FreeReturns, Goto
<1>3. pc'[t] = "idle" /\ call'[t] = NoCall
  BY <1>0, <1>2 DEF TypeOK
<1>4. Held(t)' = {}
  BY <1>3 DEF Held, NoCall
<1>5. p \in Held(t) /\ p # call[t].new /\ p \notin live
  BY <1>0, <1>1 DEF Held, CallOK, Owned
<1>6. live' = (live \cup Held(t)) \ {p}
  BY <1>1, <1>2, <1>5 DEF Held
<1>7. CallOK(t)'
  BY <1>3 DEF CallOK, NoCall
<1>8. TypeOK'
  <2>1. NoCall \in CallRecord
    BY DEF NoCall, CallRecord
  <2>2. pc' \in [Threads -> Places] /\ call' \in [Threads -> CallRecord]
    BY <1>0, <1>2, <2>1 DEF TypeOK, Places, CallRecord
  <2>3. live' \subseteq Chunk /\ DOMAIN head' \subseteq Chunk /\ dropped' \subseteq Chunk
    BY <1>0, <1>1, <1>2, <1>6 DEF TypeOK, Owned
  <2>4. \A q \in DOMAIN head' : head'[q] \in SlabHead
    BY <1>0, <1>2 DEF TypeOK
  <2> QED
    BY <2>2, <2>3, <2>4 DEF TypeOK, ListsTyped, CallRecord
<1>9. \A u \in Threads \ {t} : pc'[u] = pc[u] /\ call'[u] = call[u]
  BY <1>0, <1>2 DEF TypeOK
<1>10. \A c \in Classes : lock[c] # t
  BY NoLock
<1>11. \A c \in Classes :
        /\ lock[c] # None /\ lock[c] # t =>
             lock'[c] = lock[c] /\ slots'[c] = slots[c] /\ end_page_free'[c] = end_page_free[c]
        /\ lock'[c] # None /\ lock'[c] # t => lock'[c] = lock[c]
        /\ lock'[c] = t => pc'[t] \in {"newslab", "newslab_add"} /\ Id(t)' = c
  BY <1>10
<1> DEFINE New == {}
           Gone == {p}
<1>12. /\ New \cap (DOMAIN head \cup dropped) = {}
       /\ Gone \subseteq live \cup Held(t)
       /\ live' \cup Held(t)' = (live \cup Held(t) \cup New) \ Gone
       /\ live' \cap Held(t)' = {}
       /\ DOMAIN head' = (DOMAIN head \cup New) \ Gone
       /\ dropped' \subseteq dropped \cup Gone
       /\ \A q \in DOMAIN head \cap DOMAIN head' : head'[q] = head[q]
       /\ \A q \in New : HeadOK(q)'
  BY <1>1, <1>2, <1>4, <1>5, <1>6
<1> HIDE DEF New, Gone
<1> QED
  BY <1>7, <1>8, <1>9, <1>11, <1>12, ThreadStep

\* A chunk of malloc() is freed.
LEMMA FreeMallocStep ==
    ASSUME Inv, NEW t \in Threads, FreeMalloc(t)
    PROVE  Inv'
<1>0. TypeOK /\ CallOK(t) /\ pc[t] = "free" /\ call[t].old # NoChunk /\ FreeReturns(t)
  BY DEF Inv, CallOK, FreeMalloc
<1>u. /\ slots' = slots /\ sl_total' = sl_total /\ end_page_free' = end_page_free /\ slabs' = slabs
      /\ list_size' = list_size /\ lock' = lock /\ mem_malloced' = mem_malloced
      /\ seen' = seen /\ overlapped' = overlapped /\ raced' = raced /\ dropped' = dropped
  BY DEF FreeMalloc, listvars, pagevars, racevars
<1>1. PICK p \in DOMAIN head : p = call[t].old
  BY <1>0, HeldInUse
<1>2. p.class = 0
  BY <1>1 DEF Inv, HeadOK, FreeMalloc
<1>3. DOMAIN head' = DOMAIN head \ {p}
  BY <1>0, <1>1 DEF FreeReturns
<1>4. ListsTyped'
  BY <1>0, <1>u DEF ListsTyped, TypeOK
<1>5. \A c \in Classes : ClassOK(c)'
  <2> SUFFICES ASSUME NEW c \in Classes PROVE ClassOK(c)'
    OBVIOUS
  <2>1. ClassOK(c) /\ c # 0
    BY ClassesAreNumbers DEF Inv
  <2>2. {q \in DOMAIN head' \cup dropped' : q.class = c} = {q \in DOMAIN head \cup dropped : q.class = c}
    BY <1>u, <1>2, <1>3, <2>1
  <2> QED
    BY <1>u, <2>1, <2>2, ClassFrame
<1>6. \A q \in dropped' : q.class \in Classes
  BY <1>u DEF Inv
<1> QED
  BY <1>0, <1>u, <1>4, <1>5, <1>6, FreeStep

\* The class that _slab_free() finds from the size in the head is the one the
\* chunk was cut for.
LEMMA FreeSlotStep ==
    ASSUME Inv, NEW t \in Threads, FreeSlot(t)
    PROVE  Inv'
<1>0. TypeOK /\ Owned /\ CallOK(t) /\ pc[t] = "free" /\ call[t].old # NoChunk /\ FreeReturns(t)
  BY DEF Inv, CallOK, FreeSlot
<1>u. /\ end_page_free' = end_page_free /\ slabs' = slabs
      /\ list_size' = list_size /\ lock' = lock /\ mem_malloced' = mem_malloced
      /\ seen' = seen /\ overlapped' = overlapped /\ raced' = raced
  BY DEF FreeSlot, pagevars, racevars
<1>1. PICK p \in DOMAIN head : p = call[t].old
  BY <1>0, HeldInUse
<1>2. ~head[p].is_malloc
  BY <1>1 DEF FreeSlot
<1>3. p.class \in Classes /\ ClassFor[head[p].size] = p.class
  BY <1>2 DEF Inv, HeadOK
<1>4. PICK c \in Classes : c = p.class
  BY <1>3
<1>5. /\ lock[c] = None
      /\ \/ /\ slots' = [slots EXCEPT ![c] = Append(@, p)]
            /\ sl_total' = [sl_total EXCEPT ![c] = GrownSlots(c)]
            /\ dropped' = dropped
         \/ dropped' = dropped \cup {p} /\ slots' = slots /\ sl_total' = sl_total
  BY <1>1, <1>3, <1>4 DEF FreeSlot, listvars
<1>6. DOMAIN head' = DOMAIN head \ {p}
  BY <1>0, <1>1 DEF FreeReturns
<1>7. /\ slots' \in [Classes -> Seq(Chunk)] /\ sl_total' \in [Classes -> Nat]
      /\ \A d \in Classes : ClassOK(d)'
  <2>1. CASE /\ slots' = [slots EXCEPT ![c] = Append(@, p)]
             /\ sl_total' = [sl_total EXCEPT ![c] = GrownSlots(c)]
             /\ dropped' = dropped
    <3>1. GrownSlots(c) \in Nat
      BY <1>0, SlabAssumption DEF TypeOK, GrownSlots
    <3>2. sl_total' \in [Classes -> Nat]
      BY <1>0, <2>1, <3>1 DEF TypeOK
    <3> QED
      BY <1>u, <1>4, <1>6, <2>1, <3>2, PutListed
  <2>2. CASE dropped' = dropped \cup {p} /\ slots' = slots /\ sl_total' = sl_total
    <3>1. DOMAIN head' \cup dropped' = DOMAIN head \cup dropped
      BY <1>6, <2>2
    <3>2. \A d \in Classes : ClassOK(d)'
      BY <1>u, <2>2, <3>1, SameClasses
    <3> QED
      BY <1>0, <2>2, <3>2 DEF TypeOK
  <2> QED
    BY <1>5, <2>1, <2>2
<1>8. ListsTyped'
  BY <1>0, <1>u, <1>7 DEF ListsTyped, TypeOK
<1>9. dropped' \subseteq dropped \cup {call[t].old} /\ \A q \in dropped' : q.class \in Classes
  BY <1>1, <1>3, <1>5 DEF Inv
<1>10. \A d \in Classes : lock[d] # None => slots'[d] = slots[d]
  BY <1>0, <1>5 DEF TypeOK
<1> QED
  BY <1>0, <1>u, <1>7, <1>8, <1>9, <1>10, FreeStep

-----------------------------------------------------------------------------
\* The invariant is inductive.
THEOREM InvNext == Inv /\ [Next]_vars => Inv'
<1> SUFFICES ASSUME Inv, [Next]_vars PROVE Inv'
  OBVIOUS
<1>1. ASSUME NEW t \in Threads, Call(t) \/ FreeCall(t) \/ Work(t) PROVE Inv'
  <2>1. CASE Call(t)
    BY <2>1, CallStep
  <2>2. CASE FreeCall(t)
    BY <2>2, FreeCallStep
  <2>3. CASE AllocMalloc(t)
    BY <2>3, AllocMallocStep
  <2>4. CASE AllocSlot(t)
    BY <2>4, AllocSlotStep
  <2>5. CASE AllocEndPage(t)
    BY <2>5, AllocEndPageStep
  <2>6. CASE NewslabCheck(t)
    BY <2>6, NewslabCheckStep
  <2>7. CASE NewslabFails(t)
    BY <2>7, NewslabFailsStep
  <2>8. CASE NewslabPage(t)
    BY <2>8, NewslabPageStep
  <2>9. CASE NewslabAdd(t)
    BY <2>9, NewslabAddStep
  <2>10. CASE ReallocCopy(t)
    BY <2>10, ReallocCopyStep
  <2>11. CASE FreeMalloc(t)
    BY <2>11, FreeMallocStep
  <2>12. CASE FreeSlot(t)
    BY <2>12, FreeSlotStep
  <2> QED
    BY <1>1, <2>1, <2>2, <2>3, <2>4, <2>5, <2>6, <2>7, <2>8, <2>9, <2>10, <2>11, <2>12
       DEF Work, slab_alloc, slab_free
<1>2. CASE UNCHANGED vars
  <2>u. /\ slots' = slots /\ sl_total' = sl_total /\ end_page_free' = end_page_free /\ slabs' = slabs
        /\ list_size' = list_size /\ lock' = lock /\ mem_malloced' = mem_malloced /\ head' = head
        /\ live' = live /\ pc' = pc /\ call' = call
        /\ seen' = seen /\ overlapped' = overlapped /\ raced' = raced /\ dropped' = dropped
    BY <1>2 DEF vars
  <2>1. TypeOK'
    BY <2>u DEF Inv, TypeOK
  <2>2. \A t \in Threads : Held(t)' = Held(t) /\ Id(t)' = Id(t)
    BY <2>u DEF Held, Id
  <2>3. \A t \in Threads : CallOK(t)'
    BY <2>u, <2>2 DEF Inv, CallOK
  <2>4. \A c \in Classes : LockOK(c)'
    BY <2>u DEF Inv, LockOK, Id
  <2>5. Owned'
    BY <2>u, <2>2 DEF Inv, Owned
  <2>6. \A q \in DOMAIN head' : HeadOK(q)'
    BY <2>u, HeadFrame DEF Inv
  <2>7. \A c \in Classes : ClassOK(c)'
    BY <2>u, SameClasses
  <2>8. \A q \in dropped' : q.class \in Classes
    BY <2>u DEF Inv
  <2> QED
    BY <2>1, <2>3, <2>4, <2>5, <2>6, <2>7, <2>8 DEF Inv
<1> QED
  BY <1>1, <1>2 DEF Next

\* The invariant holds in every state that slab.c reaches.
THEOREM Invariance == Spec => []Inv
  BY InvInit, InvNext, PTL DEF Spec

\* Whatever the order of the calls and whichever allocations of libc fail,
\* every variable of slab.c's tables keeps its type; a free list never holds a
\* chunk of another class, and the count of a page's chunks never goes below 0.
THEOREM TypeCorrect == Spec => []TypeOK
<1>1. Inv => TypeOK
  BY DEF Inv
<1> QED
  BY Invariance, <1>1, PTL

\* Each chunk of each page is in exactly one place: no two callers are ever
\* given the same memory, and no chunk is lost but those whose free list could
\* not grow, for any number of threads, classes and sizes.
THEOREM EveryChunkInOnePlace == Spec => []ChunksPartitioned
<1>1. ASSUME Inv PROVE ChunksPartitioned
  <2>0. TypeOK /\ Owned
    BY <1>1 DEF Inv
  <2>1. Out = DOMAIN head \cup dropped
    BY <2>0 DEF Out, Owned
  <2>2. ASSUME NEW c \in Classes
        PROVE  /\ IsInjective(slots[c]) /\ Listed(c) \cap Fresh(c) = {}
               /\ (Listed(c) \cup Fresh(c)) \cap Out = {}
               /\ {q \in Out : q.class = c} \cup Listed(c) \cup Fresh(c) = Cut(c)
    <3>0. ClassOK(c)
      BY <1>1 DEF Inv
    <3>1. PICK k \in Nat, e \in Nat, a \in Nat :
            k = Used(c) /\ e = end_page_free[c] /\ a = slabs[c] * perslab[c]
      BY <1>1, UsedChunks
    <3>2. a = k + e /\ EndPagePtr(c).n = k + 1
      BY <1>1, <3>1, UsedChunks
    <3>3. /\ Fresh(c) = [class: {c}, n: k + 1 .. a] /\ Cut(c) = [class: {c}, n: 1 .. a]
          /\ Given(c) = [class: {c}, n: 1 .. k]
      BY <3>1, <3>2 DEF Fresh, Cut, Given
    <3>4. (1 .. k) \cap (k + 1 .. a) = {} /\ (1 .. k) \cup (k + 1 .. a) = 1 .. a
      BY <3>2
    <3>5. Given(c) \cap Fresh(c) = {} /\ Given(c) \cup Fresh(c) = Cut(c)
      <4>1. Given(c) \cap Fresh(c) = {}
        BY <3>3, <3>4
      <4>2. ASSUME NEW q \in Cut(c) PROVE q \in Given(c) \cup Fresh(c)
        BY <3>3, <3>4
      <4>3. ASSUME NEW q \in Given(c) \cup Fresh(c) PROVE q \in Cut(c)
        BY <3>3, <3>4
      <4> QED
        BY <4>1, <4>2, <4>3
    <3>6. {q \in Out : q.class = c} \cup Listed(c) = Given(c) /\ Listed(c) \cap Out = {} /\ IsInjective(slots[c])
      BY <2>1, <3>0 DEF ClassOK
    <3>7. Fresh(c) \cap Out = {}
      <4> SUFFICES ASSUME NEW q \in Fresh(c), q \in Out PROVE FALSE
        OBVIOUS
      <4>1. q.class = c
        BY <3>3
      <4> QED
        BY <3>5, <3>6, <4>1
    <3> QED
      BY <3>5, <3>6, <3>7
  <2>3. \A t \in Threads : Held(t) \cap (live \cup dropped) = {}
    BY <2>0 DEF Owned
  <2>4. \A t, u \in Threads : t # u => Held(t) \cap Held(u) = {}
    BY <2>0 DEF Owned
  <2>5. live \cap dropped = {}
    BY <2>0 DEF Owned
  <2> QED
    BY <2>2, <2>3, <2>4, <2>5 DEF ChunksPartitioned, NoChunkTwice, ChunksAccounted
<1> QED
  BY Invariance, <1>1, PTL

\* A chunk in use is of the smallest class that has room for its head and what
\* was asked for; what malloc() served fits no class: slab_clsid()'s search is
\* right for every table that slab_init() builds.
THEOREM SmallestClass == Spec => []SmallestClassServes
<1>1. ASSUME Inv PROVE SmallestClassServes
  <2> SUFFICES ASSUME NEW q \in DOMAIN head
               PROVE  IF head[q].is_malloc THEN q.class = 0 /\ head[q].size > ClassSize[power_largest]
                      ELSE head[q].size <= ClassSize[q.class] /\ head[q].size > ClassSize[q.class - 1]
    BY DEF SmallestClassServes
  <2>1. HeadOK(q)
    BY <1>1 DEF Inv
  <2>2. PICK n \in Sizes : head[q].size = n + HEAD_SIZE
    BY <2>1 DEF HeadOK
  <2>3. Fits(head[q].size, ClassFor[head[q].size])
    BY <2>2, ClassOfSize
  <2>4. PICK s \in Nat, d \in {ClassFor[head[q].size]} :
          s = head[q].size /\ d = ClassFor[s] /\ Fits(s, d)
    BY <2>2, <2>3, SlabAssumption
  <2>5. /\ ClassSize \in [0 .. power_largest -> Nat] /\ power_largest \in Nat \ {0}
        /\ Classes = 1 .. power_largest
    BY ClassSizes DEF Classes, POWER_SMALLEST
  <2>6. CASE head[q].is_malloc
    <3>1. q.class = 0 /\ d > power_largest
      BY <2>1, <2>4, <2>6 DEF HeadOK
    <3>2. d \notin Classes
      BY <2>5, <3>1
    <3>3. ClassSize[power_largest] < s /\ ClassSize[power_largest] \in Nat
      BY <2>4, <2>5, <3>2 DEF Fits
    <3> QED
      BY <2>4, <2>6, <3>1, <3>3
  <2>7. CASE ~head[q].is_malloc
    <3>1. q.class \in Classes /\ d = q.class
      BY <2>1, <2>4, <2>7 DEF HeadOK
    <3>2. d # power_largest + 1
      BY <2>5, <3>1
    <3>3. ClassSize[d - 1] < s /\ s <= ClassSize[d] /\ ClassSize[d - 1] \in Nat /\ ClassSize[d] \in Nat
      BY <2>4, <2>5, <3>1, <3>2 DEF Fits
    <3> QED
      BY <2>4, <2>7, <3>1, <3>3
  <2> QED
    BY <2>6, <2>7
<1> QED
  BY Invariance, <1>1, PTL

\* slab_realloc() never copies more than the new chunk has room for, nor less
\* than the smaller of the two requests, although it compares the new size with
\* an old one that includes the head.
THEOREM ReallocCopiesEnough == Spec => []ReallocCopies
<1>1. ASSUME Inv PROVE ReallocCopies
  <2> SUFFICES ASSUME NEW t \in Threads, pc[t] = "free", call[t].new # NoChunk
               PROVE  LET room == head[call[t].new].size - HEAD_SIZE
                          had  == head[call[t].old].size - HEAD_SIZE
                      IN  /\ call[t].copied <= room
                          /\ call[t].copied >= (IF room < had THEN room ELSE had)
    BY DEF ReallocCopies
  <2>1. TypeOK /\ CallOK(t)
    BY <1>1 DEF Inv
  <2>2. /\ head[call[t].new].size = call[t].size + HEAD_SIZE /\ call[t].size \in Nat
        /\ call[t].old # NoChunk
        /\ call[t].copied = IF call[t].size < head[call[t].old].size THEN call[t].size
                            ELSE head[call[t].old].size
    BY <2>1, SlabAssumption DEF CallOK
  <2>3. head[call[t].old].size \in Nat
    BY <1>1, <2>1, <2>2, HeldInUse DEF TypeOK, SlabHead
  <2>4. PICK n \in Nat, o \in Nat, h \in Nat \ {0} :
          n = call[t].size /\ o = head[call[t].old].size /\ h = HEAD_SIZE
    BY <2>2, <2>3, SlabAssumption
  <2>5. n + h - h = n
    OBVIOUS
  <2> QED
    BY <2>2, <2>4, <2>5
<1> QED
  BY Invariance, <1>1, PTL

-----------------------------------------------------------------------------
(* The number of pages.                                                    *)

\* One member of a set, and the sum over s of g, from the sums f over the
\* smaller sets: how TotalPages adds.
Some(s) == CHOOSE x \in s : TRUE
SumStep(g, f, s) == IF s = {} THEN 0 ELSE g[Some(s)] + f[s \ {Some(s)}]
Total(g) == MapThenSumSet(LAMBDA c : g[c], Classes)

\* It is a member.
LEMMA SomeMember ==
    ASSUME NEW s, s # {}
    PROVE  Some(s) \in s
  BY Zenon DEF Some

\* Sets of classes are finite, and smaller without one of their members.
LEMMA ClassSets ==
    ASSUME NEW s \in SUBSET Classes
    PROVE  /\ Cardinality(s) \in Nat
           /\ s = {} => Cardinality(s) = 0
           /\ s # {} => /\ Some(s) \in s /\ Some(s) \in Classes /\ s \ {Some(s)} \in SUBSET Classes
                        /\ Cardinality(s \ {Some(s)}) = Cardinality(s) - 1
                        /\ Cardinality(s) \in Nat \ {0}
<1>1. IsFiniteSet(Classes)
  BY ClassesAreNumbers, FS_Interval DEF Classes, POWER_SMALLEST
<1>2. IsFiniteSet(s)
  BY <1>1, FS_Subset
<1>3. Cardinality(s) \in Nat
  BY <1>2, FS_CardinalityType
<1>4. s = {} <=> Cardinality(s) = 0
  BY <1>2, FS_EmptySet
<1>5. ASSUME s # {} PROVE /\ Some(s) \in s /\ Cardinality(s \ {Some(s)}) = Cardinality(s) - 1
  BY <1>2, <1>5, SomeMember, FS_RemoveElement
<1> QED
  BY <1>3, <1>4, <1>5

\* There are sums over all sets of fewer than n classes.
LEMMA SumsExist ==
    ASSUME NEW g \in [Classes -> Nat], NEW n \in Nat
    PROVE  \E f : \A s \in SUBSET Classes : Cardinality(s) < n => f[s] \in Nat /\ f[s] = SumStep(g, f, s)
<1> DEFINE Sums(m) == \E f : \A s \in SUBSET Classes :
                          Cardinality(s) < m => f[s] \in Nat /\ f[s] = SumStep(g, f, s)
           S == {m \in Nat : ~Sums(m)}
<1>1. SUFFICES ASSUME S # {} PROVE FALSE
  OBVIOUS
<1>2. S \in SUBSET Nat
  OBVIOUS
<1> HIDE DEF S
<1>3. PICK m \in S : \A k \in S : m <= k
  BY <1>1, <1>2, LeastNumber
<1>4. m \in Nat /\ ~Sums(m)
  BY <1>3 DEF S
<1>5. m # 0
  <2>1. ASSUME NEW s \in SUBSET Classes PROVE ~(Cardinality(s) < 0)
    <3>1. Cardinality(s) \in Nat
      BY ClassSets
    <3> QED
      BY <3>1
  <2> QED
    BY <1>4, <2>1
<1>6. PICK f : \A s \in SUBSET Classes : Cardinality(s) < m - 1 => f[s] \in Nat /\ f[s] = SumStep(g, f, s)
  <2>1. m - 1 \in Nat /\ ~(m <= m - 1)
    BY <1>4, <1>5
  <2>2. m - 1 \notin S
    BY <1>3, <2>1
  <2> QED
    BY <2>1, <2>2 DEF S
<1>7. PICK h : h = [s \in SUBSET Classes |-> SumStep(g, f, s)]
  OBVIOUS
<1>8. ASSUME NEW s \in SUBSET Classes, Cardinality(s) < m
      PROVE  h[s] \in Nat /\ h[s] = SumStep(g, h, s)
  <2>1. h[s] = SumStep(g, f, s)
    BY <1>7
  <2>2. CASE s = {}
    BY <2>1, <2>2 DEF SumStep
  <2>3. CASE s # {}
    <3>1. PICK r \in SUBSET Classes, x \in Classes :
            r = s \ {Some(s)} /\ x = Some(s) /\ Cardinality(r) < m - 1
      <4>1. Cardinality(s) \in Nat /\ Cardinality(s \ {Some(s)}) = Cardinality(s) - 1
        BY <2>3, ClassSets
      <4>2. Cardinality(s \ {Some(s)}) < m - 1
        BY <1>4, <1>8, <4>1
      <4> QED
        BY <2>3, <4>2, ClassSets
    <3>2. f[r] \in Nat /\ f[r] = SumStep(g, f, r) /\ h[r] = SumStep(g, f, r)
      BY <1>6, <1>7, <3>1
    <3> QED
      BY <2>1, <2>3, <3>1, <3>2 DEF SumStep
  <2> QED
    BY <2>2, <2>3
<1> QED
  BY <1>4, <1>8

\* Total(g) is the last of these sums.
LEMMA TotalSums ==
    ASSUME NEW g \in [Classes -> Nat]
    PROVE  \E f : /\ Total(g) = f[Classes]
                  /\ \A s \in SUBSET Classes : f[s] \in Nat /\ f[s] = SumStep(g, f, s)
<1> DEFINE Sum(f) == f = [s \in SUBSET Classes |-> SumStep(g, f, s)]
<1>0. Cardinality(Classes) \in Nat
  BY ClassSets
<1>1. PICK h : \A s \in SUBSET Classes :
                 Cardinality(s) < Cardinality(Classes) + 1 => h[s] \in Nat /\ h[s] = SumStep(g, h, s)
  BY <1>0, SumsExist
<1>2. \A s \in SUBSET Classes : h[s] \in Nat /\ h[s] = SumStep(g, h, s)
  <2> SUFFICES ASSUME NEW s \in SUBSET Classes PROVE Cardinality(s) < Cardinality(Classes) + 1
    BY <1>1
  <2>1. IsFiniteSet(Classes)
    BY ClassesAreNumbers, FS_Interval DEF Classes, POWER_SMALLEST
  <2>2. Cardinality(s) <= Cardinality(Classes)
    BY <2>1, FS_Subset
  <2>3. Cardinality(s) \in Nat
    BY ClassSets
  <2> QED
    BY <1>0, <2>2, <2>3
<1>3. PICK e : e = [s \in SUBSET Classes |-> h[s]]
  OBVIOUS
<1>4. \A s \in SUBSET Classes : e[s] = h[s]
  BY <1>3
<1>5. \A s \in SUBSET Classes : h[s] = SumStep(g, e, s)
  <2> SUFFICES ASSUME NEW s \in SUBSET Classes PROVE SumStep(g, h, s) = SumStep(g, e, s)
    BY <1>2
  <2> QED
    BY <1>4, ClassSets DEF SumStep
<1>6. Sum(e)
  BY <1>3, <1>5
<1>7. Total(g) = (CHOOSE f : Sum(f))[Classes]
  BY DEF Total, MapThenSumSet, MapThenFoldSet, SumStep, Some
<1>8. PICK f : f = CHOOSE i : Sum(i)
  OBVIOUS
<1>9. Sum(f)
  <2> HIDE DEF Sum
  <2> QED
    BY <1>6, <1>8, Zenon
<1>10. \A s \in SUBSET Classes : f[s] = SumStep(g, f, s)
  BY <1>9
<1>11. \A s \in SUBSET Classes : f[s] \in Nat
  <2> DEFINE S == {n \in Nat : \E s \in SUBSET Classes : Cardinality(s) = n /\ f[s] \notin Nat}
  <2>1. SUFFICES ASSUME S # {} PROVE FALSE
    BY ClassSets
  <2>2. S \in SUBSET Nat
    OBVIOUS
  <2>3. PICK n \in S : \A k \in S : n <= k
    BY <2>1, <2>2, LeastNumber
  <2>4. PICK s \in SUBSET Classes : Cardinality(s) = n /\ f[s] \notin Nat
    BY <2>3
  <2>5. s # {}
    BY <1>10, <2>4, SMTT(40) DEF SumStep
  <2>6. PICK r \in SUBSET Classes, x \in Classes :
          r = s \ {Some(s)} /\ x = Some(s) /\ Cardinality(r) = n - 1 /\ n \in Nat \ {0}
    BY <2>4, <2>5, ClassSets
  <2>7. f[r] \in Nat
    <3>1. n - 1 \in Nat /\ ~(n <= n - 1)
      BY <2>6
    <3> QED
      BY <2>3, <2>6, <3>1
  <2>8. f[s] = g[x] + f[r]
    BY <1>10, <2>5, <2>6 DEF SumStep
  <2> QED
    BY <2>4, <2>7, <2>8
<1> QED
  BY <1>7, <1>8, <1>10, <1>11

\* One more page of one class is one more page.
LEMMA OneMorePage ==
    ASSUME NEW g \in [Classes -> Nat], NEW c \in Classes
    PROVE  Total(g) \in Nat /\ Total([g EXCEPT ![c] = @ + 1]) = Total(g) + 1
<1>1. PICK k \in [Classes -> Nat] : k = [g EXCEPT ![c] = @ + 1]
  <2>1. g[c] + 1 \in Nat
    OBVIOUS
  <2>2. [g EXCEPT ![c] = g[c] + 1] \in [Classes -> Nat]
    BY <2>1
  <2> QED
    BY <2>2
<1>2. k[c] = g[c] + 1 /\ \A d \in Classes \ {c} : k[d] = g[d]
  BY <1>1
<1>3. PICK f : Total(g) = f[Classes] /\ \A s \in SUBSET Classes : f[s] \in Nat /\ f[s] = SumStep(g, f, s)
  BY TotalSums
<1>4. PICK h : Total(k) = h[Classes] /\ \A s \in SUBSET Classes : h[s] \in Nat /\ h[s] = SumStep(k, h, s)
  BY TotalSums
<1> DEFINE More(s) == h[s] = f[s] + (IF c \in s THEN 1 ELSE 0)
           S == {n \in Nat : \E s \in SUBSET Classes : Cardinality(s) = n /\ ~More(s)}
<1>5. S = {}
  <2>1. SUFFICES ASSUME S # {} PROVE FALSE
    OBVIOUS
  <2>2. S \in SUBSET Nat
    OBVIOUS
  <2>3. PICK n \in S : \A i \in S : n <= i
    BY <2>1, <2>2, LeastNumber
  <2>4. PICK s \in SUBSET Classes : Cardinality(s) = n /\ ~More(s)
    BY <2>3
  <2>5. s # {}
    <3>1. ASSUME s = {} PROVE FALSE
      <4>1. f[{}] = 0 /\ h[{}] = 0
        BY <1>3, <1>4 DEF SumStep
      <4>2. c \notin {}
        OBVIOUS
      <4> QED
        BY <2>4, <3>1, <4>1, <4>2
    <3> QED
      BY <3>1
  <2>6. PICK r \in SUBSET Classes, x \in Classes :
          /\ r = s \ {x} /\ x = Some(s) /\ x \in s /\ Cardinality(r) = n - 1 /\ n \in Nat \ {0}
    BY <2>4, <2>5, ClassSets
  <2>7. More(r)
    <3>1. n - 1 \in Nat /\ ~(n <= n - 1)
      BY <2>6
    <3> QED
      BY <2>3, <2>6, <3>1
  <2>8. f[s] = g[x] + f[r] /\ h[s] = k[x] + h[r]
    BY <1>3, <1>4, <2>5, <2>6 DEF SumStep
  <2>9. f[r] \in Nat /\ h[r] \in Nat /\ g[x] \in Nat /\ k[x] \in Nat
    BY <1>3, <1>4
  <2>10. CASE x = c
    <3>1. c \notin r /\ c \in s
      BY <2>6, <2>10
    <3> QED
      BY <1>2, <2>4, <2>7, <2>8, <2>9, <2>10, <3>1
  <2>11. CASE x # c
    <3>1. c \in r <=> c \in s
      BY <2>6, <2>11
    <3> QED
      BY <1>2, <2>4, <2>7, <2>8, <2>9, <2>11, <3>1
  <2> QED
    BY <2>10, <2>11
<1>6. Cardinality(Classes) \in Nat
  BY ClassSets
<1>7. More(Classes)
  BY <1>5, <1>6
<1> QED
  BY <1>1, <1>3, <1>4, <1>7

\* Before any page is there.
LEMMA NoPages ==
    ASSUME NEW g \in [Classes -> Nat], \A c \in Classes : g[c] = 0
    PROVE  Total(g) = 0
<1>1. PICK f : Total(g) = f[Classes] /\ \A s \in SUBSET Classes : f[s] \in Nat /\ f[s] = SumStep(g, f, s)
  BY TotalSums
<1> DEFINE S == {n \in Nat : \E s \in SUBSET Classes : Cardinality(s) = n /\ f[s] # 0}
<1>2. S = {}
  <2>1. SUFFICES ASSUME S # {} PROVE FALSE
    OBVIOUS
  <2>2. S \in SUBSET Nat
    OBVIOUS
  <2>3. PICK n \in S : \A i \in S : n <= i
    BY <2>1, <2>2, LeastNumber
  <2>4. PICK s \in SUBSET Classes : Cardinality(s) = n /\ f[s] # 0
    BY <2>3
  <2>5. s # {}
    <3>1. ASSUME s = {} PROVE FALSE
      BY <1>1, <2>4, <3>1 DEF SumStep
    <3> QED
      BY <3>1
  <2>6. PICK r \in SUBSET Classes, x \in Classes :
          /\ r = s \ {x} /\ x = Some(s) /\ Cardinality(r) = n - 1 /\ n \in Nat \ {0}
    BY <2>4, <2>5, ClassSets
  <2>7. f[r] = 0
    <3>1. n - 1 \in Nat /\ ~(n <= n - 1)
      BY <2>6
    <3> QED
      BY <2>3, <2>6, <3>1
  <2>8. f[s] = g[x] + f[r]
    BY <1>1, <2>5, <2>6 DEF SumStep
  <2> QED
    BY <2>4, <2>7, <2>8
<1>3. Cardinality(Classes) \in Nat
  BY ClassSets
<1> QED
  BY <1>1, <1>2, <1>3

-----------------------------------------------------------------------------
(* The limit.  A page that is allocated while no other class allocates one *)
(* is counted in mem_malloced when it is added; every other page is in     *)
(* raced.                                                                  *)

Adding == \E u \in Threads : pc[u] = "newslab_add"

LimitInv ==
    /\ \A t \in Paging \ overlapped : Paging = {t}
    /\ POWER_BLOCK * TotalPages <=
          mem_malloced + POWER_BLOCK * raced + (IF Adding THEN POWER_BLOCK ELSE 0)
    /\ \A t \in Threads : pc[t] = "newslab_add" =>
          POWER_BLOCK * TotalPages <= seen[t] + POWER_BLOCK + POWER_BLOCK * raced
    /\ mem_limit # 0 => \A t \in Threads : pc[t] = "newslab" /\ slabs[Id(t)] > 0 =>
          POWER_BLOCK * TotalPages + (IF t \in overlapped THEN 0 ELSE POWER_BLOCK)
            <= mem_limit + POWER_BLOCK * raced

\* TotalPages is the sum over the classes.
LEMMA PagesTotal == TotalPages = Total(slabs)
  BY DEF TotalPages, Total

\* The same after a step.
LEMMA PagesTotalNext == TotalPages' = Total(slabs')
<1>1. (TotalPages = Total(slabs))'
  BY PagesTotal, PTL
<1> QED
  BY <1>1

\* The numbers that the limit is about.
LEMMA LimitNumbers ==
    ASSUME TypeOK
    PROVE  /\ POWER_BLOCK \in Nat /\ mem_limit \in Nat /\ mem_malloced \in Nat /\ raced \in Nat
           /\ seen \in [Threads -> Nat] /\ TotalPages \in Nat
           /\ POWER_BLOCK * TotalPages \in Nat /\ POWER_BLOCK * raced \in Nat
<1>1. POWER_BLOCK \in Nat /\ mem_limit \in Nat
  BY SlabClassesAssumption, SlabAssumption
<1>2. mem_malloced \in Nat /\ raced \in Nat /\ seen \in [Threads -> Nat]
  BY DEF TypeOK
<1>3. slabs \in [Classes -> Nat] /\ 1 \in Classes
  BY ClassSizes DEF TypeOK, Classes, POWER_SMALLEST
<1>4. Total(slabs) \in Nat
  BY <1>3, OneMorePage
<1>5. TotalPages = Total(slabs)
  BY DEF TotalPages, Total
<1> QED
  BY <1>1, <1>2, <1>4, <1>5

\* slab_init() has no page.
LEMMA LimitInit == Init => LimitInv
<1> SUFFICES ASSUME Init PROVE LimitInv
  OBVIOUS
<1>1. \A t \in Threads : pc[t] = "idle"
  BY DEF Init
<1>2. Paging = {} /\ ~Adding
  BY <1>1 DEF Paging, Adding
<1>3. slabs \in [Classes -> Nat] /\ \A c \in Classes : slabs[c] = 0
  BY DEF Init
<1>4. TotalPages = 0
  BY <1>3, NoPages DEF TotalPages, Total
<1>5. mem_malloced = 0 /\ raced = 0 /\ POWER_BLOCK \in Nat
  BY SlabClassesAssumption DEF Init
<1>6. POWER_BLOCK * TotalPages <= mem_malloced + POWER_BLOCK * raced + 0
  BY <1>4, <1>5
<1> QED
  BY <1>1, <1>2, <1>6 DEF LimitInv

\* Steps of a thread that allocates no page.
LEMMA LimitFrame ==
    ASSUME TypeOK, LimitInv, NEW t \in Threads, NEW X \in {"idle", "alloc", "copy", "free"},
           pc[t] \notin {"newslab", "newslab_add"}, pc' = [pc EXCEPT ![t] = X],
           \A u \in Threads \ {t} : call'[u] = call[u],
           slabs' = slabs, mem_malloced' = mem_malloced, raced' = raced, seen' = seen,
           overlapped' = overlapped
    PROVE  LimitInv'
<1>1. pc'[t] = X /\ \A u \in Threads \ {t} : pc'[u] = pc[u]
  BY DEF TypeOK
<1>2. Paging' = Paging
  BY <1>1 DEF Paging
<1>3. Adding' <=> Adding
  BY <1>1 DEF Adding
<1>4. TotalPages' = TotalPages
  BY PagesTotal, PagesTotalNext
<1>5. \A u \in Threads : pc'[u] = "newslab" => u # t /\ pc[u] = "newslab" /\ Id(u)' = Id(u)
  BY <1>1 DEF Id
<1>6. \A u \in Threads : pc'[u] = "newslab_add" => pc[u] = "newslab_add"
  BY <1>1
<1>7. \A u \in Paging' \ overlapped' : Paging' = {u}
  BY <1>2 DEF LimitInv
<1>8. POWER_BLOCK * TotalPages' <=
        mem_malloced' + POWER_BLOCK * raced' + (IF Adding' THEN POWER_BLOCK ELSE 0)
  BY <1>3, <1>4 DEF LimitInv
<1>9. \A u \in Threads : pc'[u] = "newslab_add" =>
        POWER_BLOCK * TotalPages' <= seen'[u] + POWER_BLOCK + POWER_BLOCK * raced'
  BY <1>4, <1>6 DEF LimitInv
<1>10. mem_limit # 0 => \A u \in Threads : pc'[u] = "newslab" /\ slabs'[Id(u)'] > 0 =>
        POWER_BLOCK * TotalPages' + (IF u \in overlapped' THEN 0 ELSE POWER_BLOCK)
          <= mem_limit + POWER_BLOCK * raced'
  BY <1>4, <1>5 DEF LimitInv
<1> QED
  BY <1>7, <1>8, <1>9, <1>10 DEF LimitInv, Id

\* The limit is tested.
LEMMA LimitCheck ==
    ASSUME Inv, LimitInv, NEW t \in Threads, NewslabCheck(t)
    PROVE  LimitInv'
<1>0. TypeOK /\ pc[t] = "alloc"
  BY DEF Inv, NewslabCheck
<1>u. /\ slabs' = slabs /\ mem_malloced' = mem_malloced /\ raced' = raced /\ seen' = seen
  BY DEF NewslabCheck, pagevars
<1>1. CASE ReturnNull(t) /\ UNCHANGED <<lock, overlapped>>
  <2>1. pc' = [pc EXCEPT ![t] = "idle"] /\ \A u \in Threads \ {t} : call'[u] = call[u]
    BY <1>0, <1>1 DEF ReturnNull, Goto, TypeOK
  <2> QED
    BY <1>0, <1>u, <1>1, <2>1, LimitFrame
<1>2. ASSUME ~OverLimit(Id(t)), Id(t) \in Classes,
             overlapped' = IF Paging = {} THEN overlapped ELSE overlapped \cup Paging \cup {t},
             pc' = [pc EXCEPT ![t] = "newslab"], call' = call
      PROVE  LimitInv'
  <2>0. PICK P \in Nat, L \in Nat, M \in Nat, R \in Nat, T \in Nat :
          /\ P = POWER_BLOCK /\ L = mem_limit /\ M = mem_malloced
          /\ R = POWER_BLOCK * raced /\ T = POWER_BLOCK * TotalPages
    BY <1>0, LimitNumbers
  <2>1. pc'[t] = "newslab" /\ \A u \in Threads \ {t} : pc'[u] = pc[u]
    BY <1>0, <1>2 DEF TypeOK
  <2>2. Paging' = Paging \cup {t} /\ t \notin Paging
    BY <1>0, <2>1 DEF Paging
  <2>3. Adding' <=> Adding
    BY <1>0, <2>1 DEF Adding
  <2>4. TotalPages' = TotalPages
    BY <1>u, PagesTotal, PagesTotalNext
  <2>5. \A u \in Threads : Id(u)' = Id(u)
    BY <1>2 DEF Id
  <2>6. \A u \in Paging' \ overlapped' : Paging' = {u}
    BY <1>2, <2>2 DEF LimitInv
  <2>7. POWER_BLOCK * TotalPages' <=
          mem_malloced' + POWER_BLOCK * raced' + (IF Adding' THEN POWER_BLOCK ELSE 0)
    BY <1>u, <2>3, <2>4 DEF LimitInv
  <2>8. \A u \in Threads : pc'[u] = "newslab_add" =>
          POWER_BLOCK * TotalPages' <= seen'[u] + POWER_BLOCK + POWER_BLOCK * raced'
    <3> SUFFICES ASSUME NEW u \in Threads, pc'[u] = "newslab_add"
                 PROVE  POWER_BLOCK * TotalPages' <= seen'[u] + POWER_BLOCK + POWER_BLOCK * raced'
      OBVIOUS
    <3>1. pc[u] = "newslab_add"
      BY <2>1
    <3> QED
      BY <1>u, <2>4, <3>1 DEF LimitInv
  <2>9. ASSUME mem_limit # 0, NEW u \in Threads, pc'[u] = "newslab", slabs'[Id(u)'] > 0
        PROVE  POWER_BLOCK * TotalPages' + (IF u \in overlapped' THEN 0 ELSE POWER_BLOCK)
                 <= mem_limit + POWER_BLOCK * raced'
    <3>1. CASE u = t
      <4>1. M + P <= L
        BY <1>2, <1>u, <2>0, <2>5, <2>9, <3>1 DEF OverLimit
      <4>2. CASE Paging = {}
        <5>1. ~Adding
          BY <4>2 DEF Adding, Paging
        <5>2. T <= M + R
          BY <2>0, <5>1 DEF LimitInv
        <5>3. T + P <= L + R
          BY <4>1, <5>2
        <5> QED
          BY <1>u, <2>0, <2>4, <5>3
      <4>3. CASE Paging # {}
        <5>1. T <= M + R + P
          BY <2>0 DEF LimitInv
        <5>2. T <= L + R
          BY <4>1, <5>1
        <5>3. u \in overlapped'
          BY <1>2, <3>1, <4>3
        <5> QED
          BY <1>u, <2>0, <2>4, <5>2, <5>3
      <4> QED
        BY <4>2, <4>3
    <3>2. CASE u # t
      <4>1. pc[u] = "newslab" /\ slabs[Id(u)] > 0
        BY <1>u, <2>1, <2>5, <2>9, <3>2
      <4>2. T + (IF u \in overlapped THEN 0 ELSE P) <= L + R
        BY <2>0, <2>9, <4>1 DEF LimitInv
      <4>3. u \in Paging /\ u \in overlapped'
        BY <1>2, <4>1 DEF Paging
      <4>4. T + 0 <= L + R
        BY <4>2
      <4> QED
        BY <1>u, <2>0, <2>4, <4>3, <4>4
    <3> QED
      BY <3>1, <3>2
  <2> QED
    BY <2>6, <2>7, <2>8, <2>9 DEF LimitInv, Id
<1> QED
  BY <1>1, <1>2 DEF NewslabCheck, Goto

\* A thread leaves do_slabs_newslab() without a page, or with one that is
\* counted: mem_malloced is then M.
LEMMA LimitLeave ==
    ASSUME Inv, LimitInv, NEW t \in Threads, NEW X \in {"idle", "copy"},
           pc[t] \in {"newslab", "newslab_add"}, pc' = [pc EXCEPT ![t] = X],
           \A u \in Threads \ {t} : call'[u] = call[u] /\ seen'[u] = seen[u],
           slabs' = slabs, raced' = raced, overlapped' = overlapped \ {t},
           POWER_BLOCK * TotalPages <=
             mem_malloced' + POWER_BLOCK * raced + (IF Adding' THEN POWER_BLOCK ELSE 0)
    PROVE  LimitInv'
<1>0. TypeOK
  BY DEF Inv
<1>1. pc'[t] = X /\ \A u \in Threads \ {t} : pc'[u] = pc[u]
  BY <1>0 DEF TypeOK
<1>2. Paging' = Paging \ {t} /\ t \in Paging
  BY <1>1 DEF Paging
<1>3. TotalPages' = TotalPages
  BY PagesTotal, PagesTotalNext
<1>4. \A u \in Paging' \ overlapped' : Paging' = {u}
  BY <1>2 DEF LimitInv
<1>5. \A u \in Threads : pc'[u] = "newslab_add" =>
        POWER_BLOCK * TotalPages' <= seen'[u] + POWER_BLOCK + POWER_BLOCK * raced'
  <2> SUFFICES ASSUME NEW u \in Threads, pc'[u] = "newslab_add"
               PROVE  POWER_BLOCK * TotalPages' <= seen'[u] + POWER_BLOCK + POWER_BLOCK * raced'
    OBVIOUS
  <2>1. u # t /\ pc[u] = "newslab_add"
    BY <1>1
  <2> QED
    BY <1>3, <2>1 DEF LimitInv
<1>6. ASSUME mem_limit # 0, NEW u \in Threads, pc'[u] = "newslab", slabs'[Id(u)'] > 0
      PROVE  POWER_BLOCK * TotalPages' + (IF u \in overlapped' THEN 0 ELSE POWER_BLOCK)
               <= mem_limit + POWER_BLOCK * raced'
  <2>1. u # t /\ pc[u] = "newslab" /\ Id(u)' = Id(u)
    BY <1>1, <1>6 DEF Id
  <2>2. u \in overlapped' <=> u \in overlapped
    BY <2>1
  <2> QED
    BY <1>3, <1>6, <2>1, <2>2 DEF LimitInv
<1>7. POWER_BLOCK * TotalPages' <=
        mem_malloced' + POWER_BLOCK * raced' + (IF Adding' THEN POWER_BLOCK ELSE 0)
  BY <1>3
<1> QED
  BY <1>4, <1>5, <1>6, <1>7 DEF LimitInv, Id

\* There is no page to be had.
LEMMA LimitFails ==
    ASSUME Inv, LimitInv, NEW t \in Threads, NewslabFails(t)
    PROVE  LimitInv'
<1>0. TypeOK /\ pc[t] = "newslab"
  BY DEF Inv, NewslabFails
<1>1. /\ slabs' = slabs /\ mem_malloced' = mem_malloced /\ raced' = raced /\ seen' = seen
      /\ overlapped' = overlapped \ {t}
      /\ pc' = [pc EXCEPT ![t] = "idle"] /\ call' = [call EXCEPT ![t] = NoCall]
  BY DEF NewslabFails, ReturnNull, Goto
<1>2. \A u \in Threads \ {t} : call'[u] = call[u] /\ seen'[u] = seen[u]
  BY <1>0, <1>1 DEF TypeOK
<1>3. Adding' <=> Adding
  BY <1>0, <1>1 DEF Adding, TypeOK
<1>4. POWER_BLOCK * TotalPages <=
        mem_malloced' + POWER_BLOCK * raced + (IF Adding' THEN POWER_BLOCK ELSE 0)
  BY <1>1, <1>3 DEF LimitInv
<1> QED
  BY <1>0, <1>1, <1>2, <1>4, LimitLeave

\* The sum is stored in mem_malloced.
LEMMA LimitAdd ==
    ASSUME Inv, LimitInv, NEW t \in Threads, NewslabAdd(t)
    PROVE  LimitInv'
<1>0. TypeOK /\ pc[t] = "newslab_add"
  BY DEF Inv, NewslabAdd
<1>1. /\ slabs' = slabs /\ mem_malloced' = seen[t] + POWER_BLOCK /\ raced' = raced
      /\ seen' = [seen EXCEPT ![t] = 0] /\ overlapped' = overlapped \ {t}
  BY DEF NewslabAdd
<1>2. PICK X \in {"idle", "copy"} :
        pc' = [pc EXCEPT ![t] = X] /\ \A u \in Threads \ {t} : call'[u] = call[u]
  BY <1>0 DEF NewslabAdd, ReturnChunk, Goto, TypeOK
<1>3. \A u \in Threads \ {t} : call'[u] = call[u] /\ seen'[u] = seen[u]
  BY <1>0, <1>1, <1>2 DEF TypeOK
<1>4. PICK P \in Nat, S \in Nat, R \in Nat, T \in Nat :
        /\ P = POWER_BLOCK /\ S = seen[t] /\ R = POWER_BLOCK * raced /\ T = POWER_BLOCK * TotalPages
  BY <1>0, LimitNumbers
<1>5. T <= S + P + R
  BY <1>0, <1>4 DEF LimitInv
<1>6. T <= (S + P) + R + (IF Adding' THEN P ELSE 0)
  BY <1>5
<1>7. POWER_BLOCK * TotalPages <=
        mem_malloced' + POWER_BLOCK * raced + (IF Adding' THEN POWER_BLOCK ELSE 0)
  BY <1>1, <1>4, <1>6
<1> QED
  BY <1>0, <1>1, <1>2, <1>3, <1>7, LimitLeave

\* A page more: within the limit, or counted in raced.
LEMMA LimitPage ==
    ASSUME Inv, LimitInv, NEW t \in Threads, NewslabPage(t)
    PROVE  /\ LimitInv'
           /\ mem_limit # 0 /\ slabs[Id(t)] > 0 =>
                POWER_BLOCK * TotalPages' <= mem_limit + POWER_BLOCK * raced'
<1>0. TypeOK /\ CallOK(t) /\ pc[t] = "newslab"
  BY DEF Inv, NewslabPage
<1>1. PICK c \in Classes : c = Id(t) /\ lock[c] = t /\ slabs' = [slabs EXCEPT ![c] = @ + 1]
  BY <1>0 DEF CallOK, NewslabPage
<1>2. /\ mem_malloced' = mem_malloced /\ seen' = [seen EXCEPT ![t] = mem_malloced]
      /\ raced' = raced + (IF t \in overlapped THEN 1 ELSE 0)
      /\ overlapped' = overlapped /\ call' = call
      /\ pc' = [pc EXCEPT ![t] = "newslab_add"]
  BY DEF NewslabPage, Goto
<1>3. PICK P \in Nat, L \in Nat, M \in Nat, r \in Nat, n \in Nat, R \in Nat, T \in Nat :
        /\ P = POWER_BLOCK /\ L = mem_limit /\ M = mem_malloced /\ r = raced /\ n = TotalPages
        /\ R = P * r /\ T = P * n
  BY <1>0, LimitNumbers
<1>4. TotalPages' = n + 1
  <2>1. slabs \in [Classes -> Nat]
    BY <1>0 DEF TypeOK
  <2>2. Total(slabs') = Total(slabs) + 1
    BY <1>1, <2>1, OneMorePage
  <2> QED
    BY <1>3, <2>2, PagesTotal, PagesTotalNext
<1>5. POWER_BLOCK * TotalPages' = T + P
  <2>1. P * (n + 1) = P * n + P
    OBVIOUS
  <2> QED
    BY <1>3, <1>4, <2>1
<1>6. POWER_BLOCK * raced' = R + (IF t \in overlapped THEN P ELSE 0)
  <2>1. P * (r + 1) = P * r + P
    OBVIOUS
  <2> QED
    BY <1>2, <1>3, <2>1
<1>7. pc'[t] = "newslab_add" /\ \A u \in Threads \ {t} : pc'[u] = pc[u]
  BY <1>0, <1>2 DEF TypeOK
<1>8. Paging' = Paging /\ Adding' /\ t \in Paging
  BY <1>0, <1>7 DEF Paging, Adding
<1>9. t \notin overlapped => ~Adding
  <2> SUFFICES ASSUME t \notin overlapped, NEW u \in Threads, pc[u] = "newslab_add" PROVE FALSE
    BY DEF Adding
  <2>1. Paging = {t}
    BY <1>8 DEF LimitInv
  <2>2. u \in Paging
    BY DEF Paging
  <2>3. u = t
    BY <2>1, <2>2
  <2> QED
    BY <1>0, <2>3
<1>10. \A u \in Paging' \ overlapped' : Paging' = {u}
  BY <1>2, <1>8 DEF LimitInv
<1>11. T <= M + R + (IF Adding THEN P ELSE 0)
  BY <1>3 DEF LimitInv
<1>12. T + P <= M + (R + (IF t \in overlapped THEN P ELSE 0)) + P
  BY <1>9, <1>11
<1>13. POWER_BLOCK * TotalPages' <=
         mem_malloced' + POWER_BLOCK * raced' + (IF Adding' THEN POWER_BLOCK ELSE 0)
  BY <1>2, <1>3, <1>5, <1>6, <1>8, <1>12
<1>14. \A u \in Threads \ {t} : u \in Paging => t \in overlapped
  BY <1>8 DEF LimitInv
<1>15. ASSUME NEW u \in Threads, pc'[u] = "newslab_add"
       PROVE  POWER_BLOCK * TotalPages' <= seen'[u] + POWER_BLOCK + POWER_BLOCK * raced'
  <2>1. CASE u = t
    <3>1. seen'[t] = M
      BY <1>0, <1>2, <1>3 DEF TypeOK
    <3>2. T + P <= M + P + (R + (IF t \in overlapped THEN P ELSE 0))
      BY <1>12
    <3> QED
      BY <1>3, <1>5, <1>6, <2>1, <3>1, <3>2
  <2>2. CASE u # t
    <3>1. PICK S \in Nat : S = seen[u] /\ seen'[u] = S
      BY <1>0, <1>2, <2>2 DEF TypeOK
    <3>2. pc[u] = "newslab_add" /\ t \in overlapped
      BY <1>7, <1>14, <1>15, <2>2 DEF Paging
    <3>3. T <= S + P + R
      BY <1>3, <3>1, <3>2 DEF LimitInv
    <3>4. T + P <= S + P + (R + P)
      BY <3>3
    <3> QED
      BY <1>3, <1>5, <1>6, <3>1, <3>2, <3>4
  <2> QED
    BY <2>1, <2>2
<1>16. ASSUME mem_limit # 0, NEW u \in Threads, pc'[u] = "newslab", slabs'[Id(u)'] > 0
       PROVE  POWER_BLOCK * TotalPages' + (IF u \in overlapped' THEN 0 ELSE POWER_BLOCK)
                <= mem_limit + POWER_BLOCK * raced'
  <2>1. u # t /\ pc[u] = "newslab" /\ Id(u)' = Id(u) /\ t \in overlapped /\ u \in Paging
    BY <1>2, <1>7, <1>14, <1>16 DEF Paging, Id
  <2>2. Id(u) \in Classes /\ lock[Id(u)] = u
    BY <2>1 DEF Inv, CallOK
  <2>3. Id(u) # c
    BY <1>1, <2>1, <2>2
  <2>4. slabs[Id(u)] > 0
    BY <1>0, <1>1, <1>16, <2>1, <2>2, <2>3 DEF TypeOK
  <2>5. T + (IF u \in overlapped THEN 0 ELSE P) <= L + R
    BY <1>3, <1>16, <2>1, <2>4 DEF LimitInv
  <2>6. (T + P) + (IF u \in overlapped THEN 0 ELSE P) <= L + (R + P)
    BY <2>5
  <2> QED
    BY <1>2, <1>3, <1>5, <1>6, <2>1, <2>6
<1>17. ASSUME mem_limit # 0, slabs[Id(t)] > 0
       PROVE  POWER_BLOCK * TotalPages' <= mem_limit + POWER_BLOCK * raced'
  <2>1. T + (IF t \in overlapped THEN 0 ELSE P) <= L + R
    BY <1>0, <1>3, <1>17 DEF LimitInv
  <2>2. T + P <= L + (R + (IF t \in overlapped THEN P ELSE 0))
    BY <2>1
  <2> QED
    BY <1>3, <1>5, <1>6, <2>2
<1> QED
  BY <1>10, <1>13, <1>15, <1>16, <1>17 DEF LimitInv, Id

\* Every other step leaves the pages alone.
LEMMA LimitOthers ==
    ASSUME Inv, LimitInv, NEW t \in Threads,
           \/ Call(t) \/ FreeCall(t) \/ AllocMalloc(t) \/ AllocSlot(t) \/ AllocEndPage(t)
           \/ ReallocCopy(t) \/ FreeMalloc(t) \/ FreeSlot(t)
    PROVE  LimitInv' /\ slabs' = slabs
<1>0. TypeOK
  BY DEF Inv
<1>1. pc[t] \in {"idle", "alloc", "copy", "free"}
  BY DEF Call, FreeCall, AllocMalloc, AllocSlot, AllocEndPage, ReallocCopy, FreeMalloc, FreeSlot
<1>2. /\ slabs' = slabs /\ mem_malloced' = mem_malloced /\ raced' = raced /\ seen' = seen
      /\ overlapped' = overlapped
  BY DEF Call, FreeCall, AllocMalloc, AllocSlot, AllocEndPage, ReallocCopy, FreeMalloc, FreeSlot,
         pagevars, racevars
<1>3. \E X \in {"idle", "alloc", "copy", "free"} : pc' = [pc EXCEPT ![t] = X]
  BY DEF Call, FreeCall, AllocMalloc, AllocSlot, AllocEndPage, ReallocCopy, FreeMalloc, FreeSlot,
         ReturnNull, ReturnChunk, FreeReturns, Goto
<1>4. \A u \in Threads \ {t} : call'[u] = call[u]
  BY <1>0 DEF Call, FreeCall, AllocMalloc, AllocSlot, AllocEndPage, ReallocCopy, FreeMalloc, FreeSlot,
              ReturnNull, ReturnChunk, FreeReturns, TypeOK
<1> QED
  BY <1>0, <1>1, <1>2, <1>3, <1>4, LimitFrame

\* do_slabs_newslab() tests mem_malloced under the lock of one class and adds
\* to it without one that the classes share.  A class that has a page gets
\* another one only within the limit all the same, save for as many pages as
\* were allocated while another class was allocating one.
THEOREM LimitHolds == Spec => GrowthWithinLimit
<1>1. Init => Inv /\ LimitInv
  BY InvInit, LimitInit
<1> DEFINE Growth == \A c \in Classes :
             mem_limit # 0 /\ slabs[c] > 0 /\ slabs'[c] > slabs[c]
               => POWER_BLOCK * TotalPages' <= mem_limit + POWER_BLOCK * raced'
<1>2. ASSUME Inv, LimitInv, [Next]_vars PROVE LimitInv' /\ Growth
  <2>s. TypeOK
    BY <1>2 DEF Inv
  <2>g. slabs' = slabs => Growth
    <3> SUFFICES ASSUME slabs' = slabs, NEW c \in Classes PROVE ~(slabs'[c] > slabs[c])
      OBVIOUS
    <3>1. slabs[c] \in Nat
      BY <2>s DEF TypeOK
    <3> QED
      BY <3>1
  <2>1. ASSUME NEW t \in Threads, Call(t) \/ FreeCall(t) \/ Work(t) PROVE LimitInv' /\ Growth
    <3>1. CASE \/ Call(t) \/ FreeCall(t) \/ AllocMalloc(t) \/ AllocSlot(t) \/ AllocEndPage(t)
               \/ ReallocCopy(t) \/ FreeMalloc(t) \/ FreeSlot(t)
      BY <1>2, <2>g, <3>1, LimitOthers
    <3>2. CASE NewslabCheck(t)
      <4>1. slabs' = slabs
        BY <3>2 DEF NewslabCheck, pagevars
      <4> QED
        BY <1>2, <2>g, <3>2, <4>1, LimitCheck
    <3>3. CASE NewslabFails(t)
      <4>1. slabs' = slabs
        BY <3>3 DEF NewslabFails
      <4> QED
        BY <1>2, <2>g, <3>3, <4>1, LimitFails
    <3>4. CASE NewslabAdd(t)
      <4>1. slabs' = slabs
        BY <3>4 DEF NewslabAdd
      <4> QED
        BY <1>2, <2>g, <3>4, <4>1, LimitAdd
    <3>5. CASE NewslabPage(t)
      <4>1. LimitInv' /\ (mem_limit # 0 /\ slabs[Id(t)] > 0 =>
              POWER_BLOCK * TotalPages' <= mem_limit + POWER_BLOCK * raced')
        BY <1>2, <3>5, LimitPage
      <4>2. ASSUME NEW c \in Classes, slabs'[c] > slabs[c] PROVE c = Id(t)
        <5>1. slabs' = [slabs EXCEPT ![Id(t)] = @ + 1]
          BY <3>5 DEF NewslabPage
        <5>2. slabs[c] \in Nat
          BY <2>s DEF TypeOK
        <5>3. c # Id(t) => slabs'[c] = slabs[c]
          BY <2>s, <5>1 DEF TypeOK
        <5> QED
          BY <4>2, <5>2, <5>3
      <4> QED
        BY <4>1, <4>2
    <3> QED
      BY <2>1, <3>1, <3>2, <3>3, <3>4, <3>5 DEF Work, slab_alloc, slab_free
  <2>2. CASE UNCHANGED vars
    <3>1. /\ slabs' = slabs /\ mem_malloced' = mem_malloced /\ raced' = raced /\ seen' = seen
          /\ overlapped' = overlapped /\ pc' = pc /\ call' = call
      BY <2>2 DEF vars
    <3>2. Paging' = Paging /\ (Adding' <=> Adding) /\ TotalPages' = TotalPages
      BY <3>1, PagesTotal, PagesTotalNext DEF Paging, Adding
    <3>3. LimitInv'
      BY <1>2, <3>1, <3>2 DEF LimitInv, Id
    <3> QED
      BY <2>g, <3>1, <3>3
  <2> QED
    BY <1>2, <2>1, <2>2 DEF Next
<1>3. Inv /\ [Next]_vars => Inv'
  BY InvNext
<1>5. GrowthWithinLimit <=> [][Growth]_vars
  BY DEF GrowthWithinLimit
<1> HIDE DEF Growth
<1> QED
  BY <1>1, <1>2, <1>3, <1>5, PTL DEF Spec
=============================================================================
