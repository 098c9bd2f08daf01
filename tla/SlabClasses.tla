---------------------------- MODULE SlabClasses ----------------------------
(***************************************************************************)
(* The size classes of the slab allocator, src/slab.c: the table that      *)
(* slab_init() fills and the binary search of slab_clsid() (BSEARCH_BLOCK  *)
(* is defined).                                                            *)
(***************************************************************************)
EXTENDS Integers

CONSTANTS
    POWER_LARGEST,      \* length of slabclass, less one (200)
    POWER_BLOCK,        \* size of a page (4M)
    CHUNK_ALIGN_BYTES,  \* alignment of a chunk (8)
    TINY_SIZE,          \* size of the smallest chunk (16)
    FactorNum,          \* the growth factor, as a fraction (1.125 = 9/8)
    FactorDen

\* Chunks are aligned within a page, and the factor makes the smallest chunk
\* grow by a byte at least.
ASSUME SlabClassesAssumption ==
    /\ POWER_LARGEST \in Nat \ {0, 1}
    /\ POWER_BLOCK \in Nat \ {0}
    /\ CHUNK_ALIGN_BYTES \in Nat \ {0}
    /\ TINY_SIZE \in Nat \ {0}
    /\ FactorNum \in Nat /\ FactorDen \in Nat \ {0} /\ FactorNum > FactorDen
    /\ CHUNK_ALIGN_BYTES <= POWER_BLOCK \div 2
    /\ TINY_SIZE * (FactorNum - FactorDen) >= FactorDen

POWER_SMALLEST == 1

Align(size) ==
    IF size % CHUNK_ALIGN_BYTES = 0 THEN size
    ELSE size + (CHUNK_ALIGN_BYTES - (size % CHUNK_ALIGN_BYTES))

\* The value of size when the loop of slab_init() is about to test it for
\* class i.
LoopSize[i \in 1 .. POWER_LARGEST] ==
    IF i = POWER_SMALLEST THEN TINY_SIZE
    ELSE (Align(LoopSize[i - 1]) * FactorNum) \div FactorDen

\* The loop ends at class i: the last class, which takes a whole page.
LoopEnds(i) == i = POWER_LARGEST \/ LoopSize[i] > POWER_BLOCK \div 2

power_largest ==
    CHOOSE i \in 1 .. POWER_LARGEST : LoopEnds(i) /\ \A j \in 1 .. i - 1 : ~ LoopEnds(j)

\* slabclass[i].size; entry 0 is never filled in.
ClassSize ==
    [i \in 0 .. power_largest |->
        CASE i = 0 -> 0
          [] i = power_largest -> POWER_BLOCK
          [] OTHER -> Align(LoopSize[i])]

Classes == POWER_SMALLEST .. power_largest

\* slabclass[i].perslab
perslab == [i \in Classes |-> POWER_BLOCK \div ClassSize[i]]

\* The defect "the class below is not looked at when the size equals it".
ClsidTakesNext(size) ==
    LET Search[at \in (1 .. power_largest + 1) \X (0 .. power_largest)] ==
            LET left  == at[1]
                right == at[2]
                res   == (left + right) \div 2
            IN
            IF left > right THEN power_largest + 1
            ELSE IF size > ClassSize[res] THEN Search[<<res + 1, right>>]
            ELSE IF size < ClassSize[res] /\ size < ClassSize[res - 1] THEN Search[<<left, res - 1>>]
            ELSE res
    IN  IF size = 0 THEN 0 ELSE Search[<<1, power_largest>>]

\* The class for an object of this size; power_largest + 1 if there is none.
slab_clsid(size) ==
    LET Search[at \in (1 .. power_largest + 1) \X (0 .. power_largest)] ==
            LET left  == at[1]
                right == at[2]
                res   == (left + right) \div 2
            IN
            IF left > right THEN power_largest + 1
            ELSE IF size > ClassSize[res] THEN Search[<<res + 1, right>>]
            ELSE IF size < ClassSize[res] /\ size <= ClassSize[res - 1] THEN Search[<<left, res - 1>>]
            ELSE res
    IN  IF size = 0 THEN 0 ELSE Search[<<1, power_largest>>]
=============================================================================
