----------------------------- MODULE BlockSizes -----------------------------
(***************************************************************************)
(* How storage.c chooses a data file for a record: the table of block      *)
(* sizes that init_storage() builds, one file per size, and the two        *)
(* functions that find the file for a record, calc_block_size() and        *)
(* find_block_file().                                                      *)
(***************************************************************************)
EXTENDS Integers, FiniteSets

CONSTANTS
    BEGINNING_SIZE,     \* smallest block size (128 in storage.c)
    LARGEST_SIZE,       \* largest block size by default (4M)
    MAX_BLOCK_CNT,      \* length of block_size_array (20)
    largest_size,       \* the argument of open_storage()
    INT_MAX             \* largest value of a C int

ASSUME BlockSizesAssumption ==
    /\ BEGINNING_SIZE \in Nat \ {0}
    /\ LARGEST_SIZE \in Nat /\ LARGEST_SIZE >= BEGINNING_SIZE
    /\ MAX_BLOCK_CNT \in Nat \ {0}
    /\ largest_size \in Nat
    /\ INT_MAX \in Nat

PowerOf2Size(i) == BEGINNING_SIZE * 2^i

\* init_storage(): the sizes that do not exceed the limit; a limit below the
\* smallest block stands for the default one.
Limit == IF largest_size < BEGINNING_SIZE THEN LARGEST_SIZE ELSE largest_size

\* The block files, by their index in block_size_array; their number is
\* block_type_count.
Files == {i \in 0 .. MAX_BLOCK_CNT - 1 : PowerOf2Size(i) <= Limit}

\* init_storage() returns -1: the table is too short for the limit.
InitStorageFails == PowerOf2Size(MAX_BLOCK_CNT) <= Limit

block_size_array == [i \in Files |-> PowerOf2Size(i)]

\* The conversion (int)data_size: the low bits, as a signed number.
ToInt(data_size) ==
    LET low == data_size % (2 * (INT_MAX + 1))
    IN  IF low > INT_MAX THEN low - 2 * (INT_MAX + 1) ELSE low

\* The loop doubles a size, at most MAX_BLOCK_CNT times, until the data fits.
\* It runs past the largest file: find_block_file() rejects such a size.
calc_block_size(data_size) ==
    LET fit == {i \in 0 .. MAX_BLOCK_CNT - 1 : PowerOf2Size(i) >= ToInt(data_size)}
    IN  IF fit = {} THEN -1
        ELSE PowerOf2Size(CHOOSE i \in fit : \A j \in fit : i <= j)

find_block_file(block_size) ==
    IF \E i \in Files : block_size = block_size_array[i]
    THEN CHOOSE i \in Files : block_size = block_size_array[i]
    ELSE -1

\* The file update_block() chooses for a record of this size, or -1.
NewBlockId(data_size) == find_block_file(calc_block_size(data_size))
=============================================================================
