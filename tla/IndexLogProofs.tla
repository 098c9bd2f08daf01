--------------------------- MODULE IndexLogProofs ---------------------------
(***************************************************************************)
(* Proofs about IndexLog: the journal holds the appended items in order    *)
(* and, while writes succeed, without a gap, for any number of threads,    *)
(* any size of the buffers and a crash at any point; a reader gets them in *)
(* that order.                                                             *)
(***************************************************************************)
EXTENDS IndexLog, FiniteSetTheorems, SequenceTheorems, NaturalsInduction, WellFoundedInduction, TLAPS

-----------------------------------------------------------------------------
(* The items of the file, block after block.                               *)

\* Every non-empty set of natural numbers has a least element.
LEMMA LeastNumber ==
    ASSUME NEW S \in SUBSET Nat, S # {}
    PROVE  \E m \in S : \A k \in S : m <= k
<1>1. PICK m \in S : \A k \in S : ~ (<<k, m>> \in OpToRel(<, Nat))
  BY WFMin, NatLessThanWellFounded, Zenon
<1>2. \A k \in S : ~ (k < m)
  BY <1>1, Zenon DEF OpToRel
<1> QED
  BY <1>2

\* Concatenation, item by item.
LEMMA Joined ==
    ASSUME NEW X, NEW s \in Seq(X), NEW r \in Seq(X)
    PROVE  /\ s \o r \in Seq(X)
           /\ Len(s) \in Nat /\ Len(r) \in Nat /\ Len(s \o r) = Len(s) + Len(r)
           /\ \A i \in 1 .. Len(s) : (s \o r)[i] = s[i]
           /\ \A i \in 1 .. Len(r) : (s \o r)[Len(s) + i] = r[i]
<1>1. Len(s) \in Nat /\ Len(r) \in Nat /\ s \o r \in Seq(X) /\ Len(s \o r) = Len(s) + Len(r)
  OBVIOUS
<1>2. \A i \in 1 .. Len(s) : (s \o r)[i] = s[i]
  OBVIOUS
<1>3. \A i \in 1 .. Len(r) : (s \o r)[Len(s) + i] = r[i]
  OBVIOUS
<1> QED
  BY <1>1, <1>2, <1>3

\* f collects the sequences of ss, one after the other.
Collects(ss, f, n) == \A i \in 1 .. n : f[i] = IF i = 1 THEN ss[i] ELSE f[i - 1] \o ss[i]

\* There is such an f for every sequence of sequences.
LEMMA CollectsExists ==
    ASSUME NEW X, NEW ss \in Seq(Seq(X)), NEW n \in 1 .. Len(ss)
    PROVE  \E f \in [1 .. n -> Seq(X)] : Collects(ss, f, n)
<1> DEFINE Has(m) == \E f \in [1 .. m -> Seq(X)] : Collects(ss, f, m)
           S == {m \in 1 .. Len(ss) : ~Has(m)}
<1>1. SUFFICES ASSUME S # {} PROVE FALSE
  OBVIOUS
<1>2. S \in SUBSET Nat
  OBVIOUS
<1> HIDE DEF S
<1>3. PICK m \in S : \A k \in S : m <= k
  BY <1>1, <1>2, LeastNumber
<1>4. m \in 1 .. Len(ss) /\ ~Has(m) /\ Len(ss) \in Nat /\ ss[m] \in Seq(X)
  BY <1>3 DEF S
<1>5. m # 1
  <2>1. SUFFICES ASSUME m = 1 PROVE Has(1)
    BY <1>4
  <2>2. PICK f : f = [i \in 1 .. 1 |-> ss[1]]
    OBVIOUS
  <2>3. f \in [1 .. 1 -> Seq(X)]
    BY <1>4, <2>1, <2>2
  <2>4. Collects(ss, f, 1)
    BY <2>2 DEF Collects
  <2> QED
    BY <2>3, <2>4
<1>6. PICK f \in [1 .. m - 1 -> Seq(X)] : Collects(ss, f, m - 1)
  <2>1. m - 1 \in 1 .. Len(ss) /\ ~(m <= m - 1)
    BY <1>4, <1>5
  <2>2. m - 1 \notin S
    BY <1>3, <2>1
  <2> QED
    BY <2>1, <2>2 DEF S
<1>7. f[m - 1] \in Seq(X) /\ m - 1 \in 1 .. m - 1
  BY <1>4, <1>5
<1>8. f[m - 1] \o ss[m] \in Seq(X)
  BY <1>4, <1>7, Joined
<1>9. PICK g : g = [i \in 1 .. m |-> IF i = m THEN f[m - 1] \o ss[m] ELSE f[i]]
  OBVIOUS
<1>10. g \in [1 .. m -> Seq(X)]
  BY <1>4, <1>8, <1>9
<1>11. Collects(ss, g, m)
  <2> SUFFICES ASSUME NEW i \in 1 .. m PROVE g[i] = IF i = 1 THEN ss[i] ELSE g[i - 1] \o ss[i]
    BY DEF Collects
  <2>1. CASE i = m
    <3>0. m \in 1 .. m
      BY <1>4
    <3>1. g[m] = f[m - 1] \o ss[m]
      BY <1>9, <3>0
    <3>2. m - 1 \in 1 .. m /\ m - 1 # m
      BY <1>4, <1>5
    <3>3. g[m - 1] = f[m - 1]
      BY <1>9, <3>2
    <3> QED
      BY <1>5, <2>1, <3>1, <3>3
  <2>2. CASE i # m
    <3>1. i \in 1 .. m - 1 /\ g[i] = f[i]
      BY <1>4, <1>9, <2>2
    <3>2. i # 1 => i - 1 \in 1 .. m /\ i - 1 # m
      BY <1>4, <3>1
    <3>3. i # 1 => g[i - 1] = f[i - 1]
      BY <1>9, <3>2
    <3> QED
      BY <1>6, <3>1, <3>3 DEF Collects
  <2> QED
    BY <2>1, <2>2
<1> QED
  BY <1>4, <1>10, <1>11

\* FlattenSeq() is the last of what is collected.
LEMMA FlattenCollects ==
    ASSUME NEW X, NEW ss \in Seq(Seq(X)), Len(ss) # 0,
           NEW f \in [1 .. Len(ss) -> Seq(X)], Collects(ss, f, Len(ss))
    PROVE  FlattenSeq(ss) = f[Len(ss)]
<1>0. Len(ss) \in Nat \ {0}
  OBVIOUS
<1> DEFINE Is(g) == g = [i \in 1 .. Len(ss) |-> IF i = 1 THEN ss[i] ELSE g[i - 1] \o ss[i]]
<1>1. Is(f)
  BY DEF Collects
<1>2. FlattenSeq(ss) = (CHOOSE g : Is(g))[Len(ss)]
  BY DEF FlattenSeq
<1>3. PICK g : g = CHOOSE h : Is(h)
  OBVIOUS
<1>4. Is(g)
  <2> HIDE DEF Is
  <2> QED
    BY <1>1, <1>3, Zenon
<1>5. \A i \in 1 .. Len(ss) : g[i] = IF i = 1 THEN ss[i] ELSE g[i - 1] \o ss[i]
  BY <1>4
<1> DEFINE S == {i \in 1 .. Len(ss) : g[i] # f[i]}
<1>6. S = {}
  <2>1. SUFFICES ASSUME S # {} PROVE FALSE
    OBVIOUS
  <2>2. S \in SUBSET Nat
    BY <1>0
  <2>3. PICK m \in S : \A k \in S : m <= k
    BY <2>1, <2>2, LeastNumber
  <2>4. m \in 1 .. Len(ss) /\ g[m] # f[m]
    BY <2>3
  <2>5. m # 1
    BY <1>5, <2>4 DEF Collects
  <2>6. m - 1 \in 1 .. Len(ss) /\ ~(m <= m - 1)
    BY <1>0, <2>4, <2>5
  <2>7. g[m - 1] = f[m - 1]
    BY <2>3, <2>6
  <2> QED
    BY <1>5, <2>4, <2>5, <2>7 DEF Collects
<1>7. Len(ss) \in 1 .. Len(ss)
  BY <1>0
<1>8. g[Len(ss)] = f[Len(ss)]
  BY <1>6, <1>7
<1> HIDE DEF Is
<1> QED
  BY <1>2, <1>3, <1>8, Zenon

\* FlattenSeq() of sequences over X is a sequence over X.
LEMMA FlattenType ==
    ASSUME NEW X, NEW ss \in Seq(Seq(X))
    PROVE  FlattenSeq(ss) \in Seq(X) /\ (Len(ss) = 0 => FlattenSeq(ss) = << >>)
<1>1. CASE Len(ss) = 0
  BY <1>1 DEF FlattenSeq
<1>2. CASE Len(ss) # 0
  <2>1. Len(ss) \in 1 .. Len(ss)
    BY <1>2
  <2>2. PICK f \in [1 .. Len(ss) -> Seq(X)] : Collects(ss, f, Len(ss))
    BY <2>1, CollectsExists
  <2>3. FlattenSeq(ss) = f[Len(ss)]
    BY <1>2, <2>2, FlattenCollects
  <2> QED
    BY <1>2, <2>1, <2>3
<1> QED
  BY <1>1, <1>2

\* A sequence more at the end of what is flattened.
LEMMA FlattenAppend ==
    ASSUME NEW X, NEW ss \in Seq(Seq(X)), NEW s \in Seq(X)
    PROVE  FlattenSeq(Append(ss, s)) = FlattenSeq(ss) \o s
<1>0. PICK n \in Nat : n = Len(ss)
  OBVIOUS
<1>1. PICK rr : rr = Append(ss, s)
  OBVIOUS
<1>2. /\ rr \in Seq(Seq(X)) /\ Len(rr) = n + 1 /\ rr[n + 1] = s
      /\ \A i \in 1 .. n : rr[i] = ss[i]
  BY <1>0, <1>1
<1>3. CASE n = 0
  <2>1. PICK g : g = [i \in 1 .. 1 |-> s]
    OBVIOUS
  <2>2. g \in [1 .. Len(rr) -> Seq(X)] /\ Collects(rr, g, Len(rr)) /\ g[1] = s
    BY <1>2, <1>3, <2>1 DEF Collects
  <2>3. FlattenSeq(rr) = s
    <3>1. Len(rr) # 0
      BY <1>2, <1>3
    <3>2. FlattenSeq(rr) = g[Len(rr)]
      BY <1>2, <2>2, <3>1, FlattenCollects
    <3> QED
      BY <1>2, <1>3, <2>2, <3>2
  <2>4. FlattenSeq(ss) = << >>
    BY <1>0, <1>3, FlattenType
  <2>5. << >> \o s = s
    OBVIOUS
  <2> QED
    BY <1>1, <2>3, <2>4, <2>5
<1>4. CASE n # 0
  <2>1. PICK f \in [1 .. n -> Seq(X)] : Collects(ss, f, n)
    BY <1>0, <1>4, CollectsExists
  <2>2. FlattenSeq(ss) = f[n] /\ f[n] \in Seq(X)
    BY <1>0, <1>4, <2>1, FlattenCollects
  <2>3. f[n] \o s \in Seq(X)
    BY <2>2, Joined
  <2>4. PICK g : g = [i \in 1 .. n + 1 |-> IF i = n + 1 THEN f[n] \o s ELSE f[i]]
    OBVIOUS
  <2>5. g \in [1 .. n + 1 -> Seq(X)]
    BY <2>3, <2>4
  <2>6. Collects(rr, g, n + 1)
    <3> SUFFICES ASSUME NEW i \in 1 .. n + 1 PROVE g[i] = IF i = 1 THEN rr[i] ELSE g[i - 1] \o rr[i]
      BY DEF Collects
    <3>1. CASE i = n + 1
      <4>1. g[n + 1] = f[n] \o s
        BY <2>4
      <4>2. n \in 1 .. n + 1 /\ n # n + 1 /\ i # 1 /\ i - 1 = n
        BY <1>4, <3>1
      <4>3. g[n] = f[n]
        BY <2>4, <4>2
      <4> QED
        BY <1>2, <3>1, <4>1, <4>2, <4>3
    <3>2. CASE i # n + 1
      <4>1. i \in 1 .. n /\ g[i] = f[i] /\ rr[i] = ss[i]
        BY <1>2, <2>4, <3>2
      <4>2. i # 1 => i - 1 \in 1 .. n + 1 /\ i - 1 # n + 1
        BY <4>1
      <4>3. i # 1 => g[i - 1] = f[i - 1]
        BY <2>4, <4>2
      <4> QED
        BY <2>1, <4>1, <4>3 DEF Collects
    <3> QED
      BY <3>1, <3>2
  <2>7. FlattenSeq(rr) = g[n + 1]
    <3>1. Len(rr) # 0 /\ g \in [1 .. Len(rr) -> Seq(X)] /\ Collects(rr, g, Len(rr))
      BY <1>2, <2>5, <2>6
    <3>2. FlattenSeq(rr) = g[Len(rr)]
      BY <1>2, <3>1, FlattenCollects
    <3> QED
      BY <1>2, <3>2
  <2> QED
    BY <1>1, <2>2, <2>4, <2>7
<1> QED
  BY <1>3, <1>4

BlockType == [count: 0 .. BUF_ITEMS, items: Seq(Items)]

\* What is written in a file f.
WrittenIn(f) == FlattenSeq([i \in 1 .. Len(f) |-> f[i].items])

\* The items of the journal are what is written in its file.
LEMMA WrittenIs == Written = WrittenIn(file)
  BY DEF Written, WrittenIn

\* The same after a step.
LEMMA WrittenIsNext == Written' = WrittenIn(file')
<1>1. (Written = WrittenIn(file))'
  BY WrittenIs, PTL
<1> QED
  BY <1>1

\* A file without blocks, and a file with one block more.
LEMMA WrittenEmpty == WrittenIn(<< >>) = << >>
<1>1. [i \in 1 .. Len(<< >>) |-> << >>[i].items] = << >>
  OBVIOUS
<1>2. << >> \in Seq(Seq(Nat)) /\ Len(<< >>) = 0
  OBVIOUS
<1>3. FlattenSeq(<< >>) = << >>
  BY <1>2, FlattenType
<1> QED
  BY <1>1, <1>3 DEF WrittenIn

\* What is written after one more block.
LEMMA WrittenAppend ==
    ASSUME NEW f \in Seq(BlockType), NEW b \in BlockType
    PROVE  /\ WrittenIn(f) \in Seq(Items) /\ b.items \in Seq(Items)
           /\ WrittenIn(Append(f, b)) = WrittenIn(f) \o b.items
<1>0. PICK n \in Nat : n = Len(f)
  OBVIOUS
<1>1. PICK ss : ss = [i \in 1 .. n |-> f[i].items]
  OBVIOUS
<1>2. ASSUME NEW i \in 1 .. n PROVE f[i].items \in Seq(Items)
  <2>1. f[i] \in BlockType
    BY <1>0
  <2> QED
    BY <2>1 DEF BlockType
<1>3. ss \in Seq(Seq(Items)) /\ Len(ss) = n
  BY <1>1, <1>2
<1>4. b.items \in Seq(Items)
  BY DEF BlockType
<1>5. PICK g : g = Append(f, b)
  OBVIOUS
<1>6. Len(g) = n + 1 /\ g[n + 1] = b /\ \A i \in 1 .. n : g[i] = f[i]
  BY <1>0, <1>5
<1>7. PICK rr : rr = [i \in 1 .. n + 1 |-> g[i].items]
  OBVIOUS
<1>8. rr = Append(ss, b.items)
  <2>1. Append(ss, b.items) = [i \in 1 .. n + 1 |-> IF i = n + 1 THEN b.items ELSE ss[i]]
    BY <1>3, <1>4
  <2>2. ASSUME NEW i \in 1 .. n + 1 PROVE g[i].items = IF i = n + 1 THEN b.items ELSE ss[i]
    <3>1. CASE i = n + 1
      BY <1>6, <3>1
    <3>2. CASE i # n + 1
      <4>1. i \in 1 .. n
        BY <3>2
      <4> QED
        BY <1>1, <1>6, <3>2, <4>1
    <3> QED
      BY <3>1, <3>2
  <2> QED
    BY <1>7, <2>1, <2>2
<1>9. FlattenSeq(rr) = FlattenSeq(ss) \o b.items
  BY <1>3, <1>4, <1>8, FlattenAppend
<1>10. WrittenIn(f) = FlattenSeq(ss)
  BY <1>0, <1>1 DEF WrittenIn
<1>11. WrittenIn(g) = FlattenSeq(rr)
  BY <1>6, <1>7 DEF WrittenIn
<1>12. FlattenSeq(ss) \in Seq(Items)
  BY <1>3, FlattenType
<1> QED
  BY <1>4, <1>5, <1>9, <1>10, <1>11, <1>12

-----------------------------------------------------------------------------
(* Runs of items.                                                          *)

\* The k items after the m-th.
Run(m, k) == [i \in 1 .. k |-> m + i]

\* The items of s are in order and none is later than the m-th.
Ordered(s, m) ==
    /\ \A i \in 1 .. Len(s) : s[i] <= m
    /\ \A i, j \in 1 .. Len(s) : i < j => s[i] < s[j]

\* A run has k items, the i-th of them m + i.
LEMMA RunType ==
    ASSUME NEW m \in Nat, NEW k \in Nat
    PROVE  /\ Run(m, k) \in Seq(Nat) /\ Len(Run(m, k)) = k
           /\ \A i \in 1 .. k : Run(m, k)[i] = m + i
           /\ UpTo(k) = Run(0, k)
<1>1. PICK r : r = Run(m, k)
  OBVIOUS
<1>2. r = [i \in 1 .. k |-> m + i]
  BY <1>1 DEF Run
<1>3. r \in Seq(Nat) /\ Len(r) = k
  BY <1>2
<1>4. UpTo(k) = Run(0, k)
  BY DEF UpTo, Run
<1> QED
  BY <1>1, <1>2, <1>3, <1>4

\* An item more, and two runs in a row.
LEMMA RunAppend ==
    ASSUME NEW m \in Nat, NEW k \in Nat
    PROVE  Append(Run(m, k), m + k + 1) = Run(m, k + 1)
<1>1. Run(m, k) \in Seq(Nat) /\ Len(Run(m, k)) = k /\ \A i \in 1 .. k : Run(m, k)[i] = m + i
  BY RunType
<1>2. Append(Run(m, k), m + k + 1) = [i \in 1 .. k + 1 |-> IF i = k + 1 THEN m + k + 1 ELSE Run(m, k)[i]]
  BY <1>1
<1>3. ASSUME NEW i \in 1 .. k + 1 PROVE (IF i = k + 1 THEN m + k + 1 ELSE Run(m, k)[i]) = m + i
  BY <1>1
<1> QED
  BY <1>2, <1>3 DEF Run

\* Two runs in a row are one run.
LEMMA RunRun ==
    ASSUME NEW m \in Nat, NEW k \in Nat, NEW l \in Nat
    PROVE  Run(m, k) \o Run(m + k, l) = Run(m, k + l)
<1>1. PICK r \in Seq(Nat) : r = Run(m, k) /\ Len(r) = k /\ \A i \in 1 .. k : r[i] = m + i
  BY RunType
<1>2. PICK s \in Seq(Nat) : s = Run(m + k, l) /\ Len(s) = l /\ \A i \in 1 .. l : s[i] = m + k + i
  <2>1. m + k \in Nat
    OBVIOUS
  <2> QED
    BY <2>1, RunType
<1>3. /\ r \o s \in Seq(Nat) /\ Len(r \o s) = k + l
      /\ \A i \in 1 .. k : (r \o s)[i] = r[i]
      /\ \A i \in 1 .. l : (r \o s)[k + i] = s[i]
  <2>1. /\ r \o s \in Seq(Nat) /\ Len(r \o s) = Len(r) + Len(s)
        /\ \A i \in 1 .. Len(r) : (r \o s)[i] = r[i]
        /\ \A i \in 1 .. Len(s) : (r \o s)[Len(r) + i] = s[i]
    BY Joined
  <2> QED
    BY <1>1, <1>2, <2>1
<1>4. PICK q \in Seq(Nat) : q = Run(m, k + l) /\ Len(q) = k + l /\ \A i \in 1 .. k + l : q[i] = m + i
  <2>1. k + l \in Nat
    OBVIOUS
  <2> QED
    BY <2>1, RunType
<1>5. ASSUME NEW i \in 1 .. k + l PROVE (r \o s)[i] = q[i]
  <2>1. CASE i <= k
    <3>1. i \in 1 .. k
      BY <2>1
    <3> QED
      BY <1>1, <1>3, <1>4, <3>1
  <2>2. CASE i > k
    <3>1. PICK j \in 1 .. l : i = k + j
      <4>1. i - k \in 1 .. l /\ i = k + (i - k)
        BY <2>2
      <4> QED
        BY <4>1
    <3>2. (r \o s)[i] = s[j] /\ s[j] = m + k + j /\ q[i] = m + i
      BY <1>2, <1>3, <1>4, <3>1
    <3> QED
      BY <3>1, <3>2
  <2>3. i <= k \/ i > k
    OBVIOUS
  <2> QED
    BY <2>1, <2>2, <2>3, Zenon
<1>6. r \o s = q
  <2>1. PICK p \in Seq(Nat) : p = r \o s
    BY <1>3
  <2>2. p = [i \in 1 .. Len(p) |-> p[i]] /\ q = [i \in 1 .. Len(q) |-> q[i]]
    OBVIOUS
  <2>3. Len(p) = k + l /\ \A i \in 1 .. k + l : p[i] = q[i]
    BY <1>3, <1>5, <2>1
  <2> QED
    BY <1>4, <2>1, <2>2, <2>3
<1> QED
  BY <1>1, <1>2, <1>4, <1>6

\* Items no later than m stay in order when a run after m follows.
LEMMA RunOrdered ==
    ASSUME NEW s \in Seq(Nat), NEW m \in Nat, NEW k \in Nat, Ordered(s, m)
    PROVE  Ordered(s \o Run(m, k), m + k) /\ s \o Run(m, k) \in Seq(Nat)
<1>0. PICK n \in Nat : n = Len(s)
  OBVIOUS
<1>1. PICK r \in Seq(Nat) : r = Run(m, k) /\ Len(r) = k /\ \A i \in 1 .. k : r[i] = m + i
  BY RunType
<1>2. PICK q \in Seq(Nat) : /\ q = s \o r /\ Len(q) = n + k
                            /\ \A i \in 1 .. n : q[i] = s[i]
                            /\ \A i \in 1 .. k : q[n + i] = r[i]
  <2>1. /\ s \o r \in Seq(Nat) /\ Len(s \o r) = Len(s) + Len(r)
        /\ \A i \in 1 .. Len(s) : (s \o r)[i] = s[i]
        /\ \A i \in 1 .. Len(r) : (s \o r)[Len(s) + i] = r[i]
    BY Joined
  <2> QED
    BY <1>0, <1>1, <2>1
<1>3. ASSUME NEW i \in 1 .. n PROVE q[i] \in Nat /\ q[i] <= m
  BY <1>0, <1>2 DEF Ordered
<1>4. ASSUME NEW i \in n + 1 .. n + k PROVE q[i] = m + (i - n)
  <2>1. i - n \in 1 .. k /\ i = n + (i - n)
    OBVIOUS
  <2> QED
    BY <1>1, <1>2, <2>1
<1>5. ASSUME NEW i \in 1 .. n + k PROVE q[i] <= m + k
  <2>1. CASE i <= n
    <3>1. i \in 1 .. n
      BY <2>1
    <3> QED
      BY <1>3, <3>1
  <2>2. CASE i > n
    <3>1. i \in n + 1 .. n + k
      BY <2>2
    <3> QED
      BY <1>4, <3>1
  <2> QED
    BY <2>1, <2>2
<1>6. ASSUME NEW i \in 1 .. n + k, NEW j \in 1 .. n + k, i < j PROVE q[i] < q[j]
  <2>1. CASE j <= n
    <3>1. i \in 1 .. n /\ j \in 1 .. n
      BY <1>6, <2>1
    <3> QED
      BY <1>0, <1>2, <1>6, <3>1 DEF Ordered
  <2>2. CASE i <= n /\ j > n
    <3>1. i \in 1 .. n /\ j \in n + 1 .. n + k
      BY <2>2
    <3>2. q[i] \in Nat /\ q[i] <= m /\ q[j] = m + (j - n)
      BY <1>3, <1>4, <3>1
    <3> QED
      BY <3>1, <3>2
  <2>3. CASE i > n
    <3>1. i \in n + 1 .. n + k /\ j \in n + 1 .. n + k
      BY <1>6, <2>3
    <3>2. q[i] = m + (i - n) /\ q[j] = m + (j - n)
      BY <1>4, <3>1
    <3> QED
      BY <1>6, <3>2
  <2> QED
    BY <2>1, <2>2, <2>3
<1>7. Ordered(q, m + k)
  BY <1>2, <1>5, <1>6 DEF Ordered
<1> QED
  BY <1>1, <1>2, <1>7

\* A part of a run, and a later bound.
LEMMA RunPrefix ==
    ASSUME NEW m \in Nat, NEW k \in Nat, NEW n \in 0 .. k
    PROVE  SubSeq(Run(m, k), 1, n) = Run(m, n)
<1>1. PICK r \in Seq(Nat) : r = Run(m, k) /\ Len(r) = k /\ \A i \in 1 .. k : r[i] = m + i
  BY RunType
<1>2. SubSeq(r, 1, n) = [i \in 1 .. n |-> r[i]]
  BY <1>1
<1>3. \A i \in 1 .. n : r[i] = m + i
  BY <1>1
<1> QED
  BY <1>1, <1>2, <1>3 DEF Run

\* What is no later than m is no later than any n after m.
LEMMA OrderedLater ==
    ASSUME NEW s \in Seq(Nat), NEW m \in Nat, NEW n \in Nat, m <= n, Ordered(s, m)
    PROVE  Ordered(s, n)
<1>1. ASSUME NEW i \in 1 .. Len(s) PROVE s[i] <= n
  <2>1. s[i] \in Nat /\ s[i] <= m
    BY DEF Ordered
  <2> QED
    BY <2>1
<1> QED
  BY <1>1 DEF Ordered

-----------------------------------------------------------------------------
(* Blocks of the file that were written without a failure.                 *)

\* The last item before block i of a file f, and the last one in it.
Before(f, i) == IF i = 1 THEN 0 ELSE Last(f[i - 1].items)
End(f) == Before(f, Len(f) + 1)

\* The blocks follow each other without a gap, and hold what they say.
BlocksOK(f) ==
    /\ \A i \in 1 .. Len(f) : /\ f[i].items # << >> /\ f[i].count = Len(f[i].items)
                              /\ f[i].items = Run(Before(f, i), Len(f[i].items))
    /\ End(f) \in Nat
    /\ \A i \in 1 .. Len(f) + 1 : Before(f, i) \in Nat
    /\ WrittenIn(f) = Run(0, End(f))

\* A reader r is where what it has got ends.
ReaderOK(f, r) ==
    /\ ~r.lost
    /\ r.got = Run(0, Len(r.got))
    /\ IF r.fetch_id = -1 THEN Len(r.got) = Before(f, r.block + 1)
       ELSE r.fetch_id < Len(f[r.block].items) /\ Len(r.got) = Before(f, r.block) + r.fetch_id

ReaderType == [open: BOOLEAN, block: Nat, fetch_id: Int, got: Seq(Items), lost: BOOLEAN,
               stale: BOOLEAN]

\* The file that index_logger_create() leaves, and a reader that has not begun.
LEMMA BlocksEmpty == BlocksOK(<< >>) /\ End(<< >>) = 0 /\ ReaderOK(<< >>, NoReader) /\ NoReader \in ReaderType
<1>1. Len(<< >>) = 0 /\ End(<< >>) = 0
  BY DEF End, Before
<1>2. Run(0, 0) = << >>
  BY DEF Run
<1>3. \A i \in 1 .. 1 : Before(<< >>, i) = 0
  BY DEF Before
<1>4. BlocksOK(<< >>)
  BY <1>1, <1>2, <1>3, WrittenEmpty DEF BlocksOK
<1>5. ReaderOK(<< >>, NoReader)
  BY <1>2 DEF ReaderOK, NoReader, Before
<1>6. NoReader \in ReaderType
  BY DEF NoReader, ReaderType
<1> QED
  BY <1>1, <1>4, <1>5, <1>6

\* A block more.
LEMMA BlocksAppend ==
    ASSUME NEW f \in Seq(BlockType), NEW b \in BlockType, NEW k \in Nat \ {0}, BlocksOK(f),
           b.count = k, b.items = Run(End(f), k)
    PROVE  /\ BlocksOK(Append(f, b)) /\ End(Append(f, b)) = End(f) + k
           /\ \A i \in 1 .. Len(f) + 1 : Before(Append(f, b), i) = Before(f, i)
<1>0. PICK n \in Nat, e \in Nat : n = Len(f) /\ e = End(f)
  BY DEF BlocksOK
<1>1. PICK g : g = Append(f, b)
  OBVIOUS
<1>2. g \in Seq(BlockType) /\ Len(g) = n + 1 /\ g[n + 1] = b /\ \A i \in 1 .. n : g[i] = f[i]
  BY <1>0, <1>1
<1>3. \A i \in 1 .. n + 1 : Before(g, i) = Before(f, i)
  <2> SUFFICES ASSUME NEW i \in 1 .. n + 1, i # 1 PROVE g[i - 1] = f[i - 1]
    BY DEF Before
  <2>1. i - 1 \in 1 .. n
    OBVIOUS
  <2> QED
    BY <1>2, <2>1
<1>4. /\ b.items \in Seq(Nat) /\ Len(b.items) = k /\ b.items # << >>
      /\ \A i \in 1 .. k : b.items[i] = e + i
  <2>1. k \in Nat /\ k # 0
    OBVIOUS
  <2>2. PICK r \in Seq(Nat) : r = Run(e, k) /\ Len(r) = k /\ \A i \in 1 .. k : r[i] = e + i
    BY <2>1, RunType
  <2>3. b.items = r
    BY <1>0, <2>2
  <2>4. r # << >>
    BY <2>1, <2>2
  <2> QED
    BY <2>2, <2>3, <2>4
<1>5. Last(b.items) = e + k
  BY <1>4 DEF Last
<1>6. End(g) = e + k
  <2>1. n + 1 + 1 # 1 /\ n + 1 + 1 - 1 = n + 1
    OBVIOUS
  <2> QED
    BY <1>2, <1>5, <2>1 DEF End, Before
<1>7. Before(g, n + 1) = e
  BY <1>0, <1>3 DEF End
<1>8. ASSUME NEW i \in 1 .. n + 1
      PROVE  /\ g[i].items # << >> /\ g[i].count = Len(g[i].items)
             /\ g[i].items = Run(Before(g, i), Len(g[i].items))
  <2>1. CASE i = n + 1
    BY <1>0, <1>2, <1>4, <1>7, <2>1
  <2>2. CASE i # n + 1
    <3>1. i \in 1 .. n
      BY <2>2
    <3> QED
      BY <1>0, <1>2, <1>3, <3>1 DEF BlocksOK
  <2> QED
    BY <2>1, <2>2
<1>9. ASSUME NEW i \in 1 .. n + 1 + 1 PROVE Before(g, i) \in Nat
  <2>1. CASE i = n + 1 + 1
    BY <1>2, <1>6, <2>1 DEF End
  <2>2. CASE i # n + 1 + 1
    <3>1. i \in 1 .. n + 1
      BY <2>2
    <3> QED
      BY <1>0, <1>3, <3>1 DEF BlocksOK
  <2> QED
    BY <2>1, <2>2
<1>10. WrittenIn(g) = Run(0, e + k)
  <2>1. WrittenIn(g) = WrittenIn(f) \o b.items
    BY <1>1, WrittenAppend
  <2>2. WrittenIn(f) = Run(0, e)
    BY <1>0 DEF BlocksOK
  <2>3. Run(0, e) \o Run(0 + e, k) = Run(0, e + k)
    BY RunRun, ZenonT(60)
  <2>4. 0 + e = e
    OBVIOUS
  <2>5. b.items = Run(e, k)
    BY <1>0
  <2> QED
    BY <2>1, <2>2, <2>3, <2>4, <2>5, Zenon
<1> QED
  BY <1>0, <1>1, <1>2, <1>3, <1>6, <1>8, <1>9, <1>10 DEF BlocksOK

\* A reader is not disturbed by a block more at the end of the file.
LEMMA ReaderAppend ==
    ASSUME NEW f \in Seq(BlockType), NEW b \in BlockType, NEW r \in ReaderType, ReaderOK(f, r),
           r.block \in 0 .. Len(f), r.fetch_id # -1 => r.block # 0,
           \A i \in 1 .. Len(f) + 1 : Before(Append(f, b), i) = Before(f, i)
    PROVE  ReaderOK(Append(f, b), r)
<1>0. PICK n \in Nat : n = Len(f)
  OBVIOUS
<1>1. PICK g : g = Append(f, b)
  OBVIOUS
<1>2. \A i \in 1 .. n : g[i] = f[i]
  BY <1>0, <1>1
<1>3. CASE r.fetch_id = -1
  <2>1. r.block + 1 \in 1 .. n + 1
    BY <1>0
  <2>2. Before(g, r.block + 1) = Before(f, r.block + 1)
    BY <1>0, <1>1, <2>1
  <2> QED
    BY <1>1, <1>3, <2>2 DEF ReaderOK
<1>4. CASE r.fetch_id # -1
  <2>1. r.block \in 1 .. n /\ r.block \in 1 .. n + 1
    BY <1>0, <1>4
  <2>2. Before(g, r.block) = Before(f, r.block) /\ g[r.block] = f[r.block]
    BY <1>0, <1>1, <1>2, <2>1
  <2> QED
    BY <1>1, <1>4, <2>2 DEF ReaderOK
<1> QED
  BY <1>3, <1>4

-----------------------------------------------------------------------------
(* The inductive invariant.                                                *)

Working == buffer[curr_working_buf]

\* The items that were appended before those of the two buffers.
Base == appended - Len(Working) - Len(BeingStored)

\* Whoever writes a buffer has both locks, and has just emptied the other one.
LockInv ==
    /\ working_lock # None => pc[working_lock] \in {"put", "write"}
    /\ storing_lock # None => pc[storing_lock] = "write"
    /\ \A t \in Threads :
        /\ pc[t] \in {"put", "write"} => working_lock = t
        /\ pc[t] = "write" => storing_lock = t /\ Working = << >> /\ buffer[Storing] # << >>
        /\ pc[t] = "put" => call[t] = "append" /\ Len(Working) < BUF_ITEMS
    /\ ~up => (\A t \in Threads : pc[t] = "idle") /\ Working = << >>

\* The buffers hold the last items, the one that is being stored before the
\* working one.
BufferInv ==
    /\ Base \in Nat
    /\ BeingStored = Run(Base, Len(BeingStored))
    /\ Working = Run(Base + Len(BeingStored), Len(Working))

\* There is a number left for each thread that appends.
CountInv == IsFiniteSet(Appending) /\ appended + Cardinality(Appending) <= MaxItems

\* What is written is older than what is in the buffers.
FileInv ==
    /\ Ordered(WrittenIn(file), Base)
    /\ \A i \in 1 .. Len(file) : Len(file[i].items) <= file[i].count

\* Without a failure there is no gap in the file, nor between file and buffers.
BlocksInv ==
    ~failed => BlocksOK(file) /\ flushed <= End(file) /\ (up => End(file) = Base)

ReaderInv ==
    /\ reader \in ReaderType
    /\ ~reader.open => reader = NoReader
    /\ reader.fetch_id # -1 => reader.block # 0 /\ reader.fetch_id > 0
    /\ reader.block = 0 => reader.got = << >>
    /\ ~failed /\ ~reader.stale => ReaderOK(file, reader)

Inv == TypeOK /\ LockInv /\ BufferInv /\ CountInv /\ FileInv /\ BlocksInv /\ ReaderInv

\* The journal just created satisfies the invariant.
THEOREM InvInit == Init => Inv
<1> SUFFICES ASSUME Init PROVE Inv
  OBVIOUS
<1>0. /\ buffer = [i \in {1, 2} |-> << >>] /\ curr_working_buf = 1 /\ file = << >> /\ reader = NoReader
      /\ appended = 0 /\ flushed = 0 /\ storing_lock = None /\ working_lock = None
      /\ up = TRUE /\ failed = FALSE /\ crashes = 0
      /\ \A t \in Threads : pc[t] = "idle"
  BY DEF Init
<1>1. Working = << >> /\ BeingStored = << >>
  BY <1>0 DEF Working, BeingStored
<1>2. Base = 0 /\ Run(0, 0) = << >>
  <2>1. Len(Working) = 0 /\ Len(BeingStored) = 0
    BY <1>1
  <2>2. Base = 0
    BY <1>0, <2>1 DEF Base
  <2>3. Run(0, 0) = << >>
    BY DEF Run
  <2> QED
    BY <2>2, <2>3
<1>3. TypeOK
  <2>1. /\ buffer \in [{1, 2} -> Seq(Items)] /\ \A i \in {1, 2} : Len(buffer[i]) <= BUF_ITEMS
    BY <1>0, IndexLogAssumption
  <2>2. /\ file \in Seq([count: 0 .. BUF_ITEMS, items: Seq(Items)])
        /\ pc \in [Threads -> {"idle", "lock", "put", "write", "close"}]
        /\ call \in [Threads -> {"append", "flush", "close"}]
    BY DEF Init
  <2>3. appended \in 0 .. MaxItems /\ flushed \in 0 .. MaxItems /\ crashes \in 0 .. MaxCrashes
    BY <1>0, IndexLogAssumption
  <2>4. reader.got \in Seq(Items) /\ reader.fetch_id \in -1 .. BUF_ITEMS /\ reader.block \in 0 .. Len(file)
    BY <1>0, IndexLogAssumption DEF NoReader
  <2> QED
    BY <1>0, <2>1, <2>2, <2>3, <2>4 DEF TypeOK
<1>4. LockInv
  BY <1>0 DEF LockInv
<1>5. BufferInv
  BY <1>1, <1>2 DEF BufferInv
<1>6. CountInv
  <2>1. Appending = {}
    BY <1>0 DEF Appending
  <2> QED
    BY <1>0, <2>1, FS_EmptySet, IndexLogAssumption DEF CountInv
<1>7. FileInv
  BY <1>0, <1>2, WrittenEmpty DEF FileInv, Ordered
<1>8. BlocksInv
  BY <1>0, <1>2, BlocksEmpty DEF BlocksInv
<1>9. ReaderInv
  BY <1>0, BlocksEmpty DEF ReaderInv, NoReader
<1> QED
  BY <1>3, <1>4, <1>5, <1>6, <1>7, <1>8, <1>9 DEF Inv


-----------------------------------------------------------------------------
(* What the invariant says of a state, and what a step may leave alone.    *)

\* Types and bounds of the two buffers, and how many items came before them.
LEMMA Facts ==
    ASSUME Inv
    PROVE  /\ BUF_ITEMS \in Nat \ {0} /\ MaxItems \in Nat /\ appended \in Nat
           /\ Working \in Seq(Items) /\ Len(Working) \in Nat /\ Len(Working) <= BUF_ITEMS
           /\ BeingStored \in Seq(Items) /\ Len(BeingStored) \in Nat /\ Len(BeingStored) <= BUF_ITEMS
           /\ curr_working_buf \in {1, 2} /\ Storing \in {1, 2} /\ Storing # curr_working_buf
           /\ 3 - Storing = curr_working_buf
           /\ Base \in Nat /\ appended = Base + Len(BeingStored) + Len(Working)
           /\ file \in Seq(BlockType)
<1>1. curr_working_buf \in {1, 2} /\ buffer \in [{1, 2} -> Seq(Items)] /\ appended \in 0 .. MaxItems
      /\ (\A i \in {1, 2} : Len(buffer[i]) <= BUF_ITEMS) /\ file \in Seq(BlockType)
  BY DEF Inv, TypeOK, BlockType
<1>2. Storing \in {1, 2} /\ Storing # curr_working_buf /\ 3 - Storing = curr_working_buf
  BY <1>1 DEF Storing
<1>3. BUF_ITEMS \in Nat \ {0} /\ MaxItems \in Nat
  BY IndexLogAssumption
<1>4. Working \in Seq(Items) /\ Len(Working) \in Nat /\ Len(Working) <= BUF_ITEMS
  BY <1>1 DEF Working
<1>5. BeingStored \in Seq(Items) /\ Len(BeingStored) \in Nat /\ Len(BeingStored) <= BUF_ITEMS
  <2>1. CASE storing_lock # None
    BY <1>1, <1>2, <2>1 DEF BeingStored
  <2>2. CASE storing_lock = None
    <3>1. BeingStored = << >>
      BY <2>2 DEF BeingStored
    <3>2. << >> \in Seq(Items) /\ Len(<< >>) = 0
      OBVIOUS
    <3> QED
      BY <1>3, <3>1, <3>2
  <2> QED
    BY <2>1, <2>2
<1>6. Base \in Nat
  BY DEF Inv, BufferInv
<1>7. appended = Base + Len(BeingStored) + Len(Working)
  BY <1>1, <1>3, <1>4, <1>5 DEF Base
<1> QED
  BY <1>1, <1>2, <1>3, <1>4, <1>5, <1>6, <1>7

\* Nobody puts or writes while the working lock is free.
LEMMA Unlocked ==
    ASSUME Inv, working_lock = None
    PROVE  /\ storing_lock = None /\ BeingStored = << >> /\ Len(BeingStored) = 0
           /\ \A u \in Threads : pc[u] # "put" /\ pc[u] # "write"
<1>1. \A u \in Threads : pc[u] # "put" /\ pc[u] # "write"
  BY IndexLogAssumption DEF Inv, LockInv
<1>2. storing_lock = None
  BY <1>1 DEF Inv, TypeOK, LockInv
<1>3. BeingStored = << >> /\ Len(BeingStored) = 0
  BY <1>2 DEF BeingStored
<1> QED
  BY <1>1, <1>2, <1>3

\* A step that moves no item to the file and none out of the buffers.
LEMMA FrameFile ==
    ASSUME Inv, UNCHANGED <<file, failed, up, reader>>, Base' = Base,
           ~failed => flushed' <= End(file)
    PROVE  FileInv' /\ BlocksInv' /\ ReaderInv'
<1>1. FileInv'
  BY DEF Inv, FileInv
<1>2. BlocksInv'
  BY DEF Inv, BlocksInv
<1>3. ReaderInv'
  BY DEF Inv, ReaderInv
<1> QED
  BY <1>1, <1>2, <1>3

\* A step that leaves the buffers alone.
LEMMA FrameBuffers ==
    ASSUME Inv, UNCHANGED <<buffer, curr_working_buf, storing_lock, appended>>
    PROVE  /\ Working' = Working /\ BeingStored' = BeingStored /\ Base' = Base /\ BufferInv'
           /\ Storing' = Storing
<1>1. Working' = Working /\ Storing' = Storing
  BY DEF Working, Storing
<1>2. BeingStored' = BeingStored
  BY <1>1 DEF BeingStored
<1>3. Base' = Base
  BY <1>1, <1>2 DEF Base
<1>4. BufferInv'
  BY <1>1, <1>2, <1>3 DEF Inv, BufferInv
<1> QED
  BY <1>1, <1>2, <1>3, <1>4

\* No thread begins to append.
LEMMA FrameCount ==
    ASSUME Inv, appended' = appended, Appending' \subseteq Appending
    PROVE  CountInv'
<1>1. IsFiniteSet(Appending) /\ appended + Cardinality(Appending) <= MaxItems /\ appended \in Nat /\ MaxItems \in Nat
  BY Facts DEF Inv, CountInv
<1>2. IsFiniteSet(Appending') /\ Cardinality(Appending') <= Cardinality(Appending)
  BY <1>1, FS_Subset
<1>3. Cardinality(Appending) \in Nat /\ Cardinality(Appending') \in Nat
  BY <1>1, <1>2, FS_CardinalityType
<1> QED
  BY <1>1, <1>2, <1>3 DEF CountInv

\* switch_buffer() while nothing is stored: the working items are stored next.
LEMMA Switched ==
    ASSUME Inv, switch_buffer, storing_lock = None, storing_lock' # None, appended' = appended
    PROVE  /\ Working' = << >> /\ BeingStored' = Working /\ buffer'[Storing'] = Working /\ Base' = Base
           /\ BufferInv' /\ curr_working_buf' \in {1, 2}
           /\ buffer' \in [{1, 2} -> Seq(Items)] /\ \A i \in {1, 2} : Len(buffer'[i]) <= BUF_ITEMS
<1>0. PICK c \in {1, 2}, d \in {1, 2} : c = curr_working_buf /\ d = Storing /\ c # d /\ 3 - d = c
  BY Facts
<1>1. buffer \in [{1, 2} -> Seq(Items)] /\ (\A i \in {1, 2} : Len(buffer[i]) <= BUF_ITEMS) /\ BUF_ITEMS \in Nat \ {0}
  BY Facts DEF Inv, TypeOK
<1>2. curr_working_buf' = d /\ buffer' = [buffer EXCEPT ![d] = << >>]
  BY <1>0 DEF switch_buffer
<1>3. Storing' = c
  BY <1>0, <1>2 DEF Storing
<1>4. buffer'[d] = << >> /\ buffer'[c] = Working
  BY <1>0, <1>1, <1>2 DEF Working
<1>5. Working' = << >> /\ BeingStored' = Working
  BY <1>2, <1>3, <1>4 DEF Working, BeingStored
<1>6. BeingStored = << >>
  BY DEF BeingStored
<1>7. Len(<< >>) = 0
  OBVIOUS
<1>8. Base = appended - Len(Working) - 0 /\ Base' = appended - 0 - Len(Working)
  BY <1>5, <1>6, <1>7 DEF Base
<1>9. Base' = Base
  BY <1>8, Facts
<1>10. BufferInv'
  <2>1. Working = Run(Base + Len(BeingStored), Len(Working))
    BY DEF Inv, BufferInv
  <2>2. Base + Len(BeingStored) = Base
    BY <1>6, <1>7, Facts
  <2>3. << >> = Run(Base + Len(Working), 0)
    BY DEF Run
  <2>4. Base' \in Nat
    BY <1>9, Facts
  <2>5. BeingStored' = Run(Base', Len(BeingStored'))
    BY <1>5, <1>9, <2>1, <2>2, Zenon
  <2>6. Working' = Run(Base' + Len(BeingStored'), Len(Working'))
    BY <1>5, <1>7, <1>9, <2>3, Zenon
  <2> QED
    BY <2>4, <2>5, <2>6 DEF BufferInv
<1>11. buffer' \in [{1, 2} -> Seq(Items)] /\ \A i \in {1, 2} : Len(buffer'[i]) <= BUF_ITEMS
  <2>1. << >> \in Seq(Items) /\ Len(<< >>) <= BUF_ITEMS
    BY <1>1
  <2> QED
    BY <1>0, <1>1, <1>2, <2>1
<1> QED
  BY <1>0, <1>2, <1>3, <1>4, <1>5, <1>9, <1>10, <1>11

-----------------------------------------------------------------------------
(* The invariant is preserved by every step.                               *)

\* A thread begins a call: one more may append, and there is a number for it.
LEMMA CallKeeps ==
    ASSUME Inv, NEW t \in Threads, Call(t)
    PROVE  Inv'
<1>1. PICK c \in {"append", "flush", "close"} :
        /\ c = "append" => appended + Cardinality(Appending) < MaxItems
        /\ call' = [call EXCEPT ![t] = c]
  BY DEF Call
<1>2. /\ up /\ pc[t] = "idle" /\ pc' = [pc EXCEPT ![t] = "lock"]
      /\ UNCHANGED <<buffer, curr_working_buf, working_lock, storing_lock, file, appended, flushed, failed, up,
                     crashes, reader>>
  BY DEF Call, Goto, locks
<1>3. pc \in [Threads -> {"idle", "lock", "put", "write", "close"}] /\ call \in [Threads -> {"append", "flush", "close"}]
  BY DEF Inv, TypeOK
<1>4. Working' = Working /\ BeingStored' = BeingStored /\ Base' = Base /\ BufferInv' /\ Storing' = Storing
  BY <1>2, FrameBuffers
<1>5. FileInv' /\ BlocksInv' /\ ReaderInv'
  BY <1>2, <1>4, FrameFile DEF Inv, BlocksInv
<1>6. TypeOK'
  BY <1>1, <1>2 DEF Inv, TypeOK
<1>7. LockInv'
  BY <1>1, <1>2, <1>3, <1>4 DEF Inv, LockInv, TypeOK
<1>8. CountInv'
  <2>1. CASE c = "append"
    <3>1. Appending' = Appending \cup {t} /\ t \notin Appending
      BY <1>1, <1>2, <1>3, <2>1 DEF Appending
    <3>2. IsFiniteSet(Appending) /\ appended \in Nat /\ MaxItems \in Nat
      BY Facts DEF Inv, CountInv
    <3>3. IsFiniteSet(Appending') /\ Cardinality(Appending') = Cardinality(Appending) + 1
      BY <3>1, <3>2, FS_AddElement
    <3>4. Cardinality(Appending) \in Nat
      BY <3>2, FS_CardinalityType
    <3> QED
      BY <1>1, <1>2, <2>1, <3>2, <3>3, <3>4 DEF CountInv
  <2>2. CASE c # "append"
    <3>1. Appending' \subseteq Appending
      BY <1>1, <1>2, <1>3, <2>2 DEF Appending
    <3> QED
      BY <1>2, <3>1, FrameCount
  <2> QED
    BY <2>1, <2>2
<1> QED
  BY <1>4, <1>5, <1>6, <1>7, <1>8 DEF Inv


\* Taking both locks to store the working buffer, by append or by flush.
LEMMA SwitchKeeps ==
    ASSUME Inv, NEW t \in Threads, up, pc[t] = "lock", working_lock = None, storing_lock = None,
           working_lock' = t, storing_lock' = t, switch_buffer, Goto(t, "write"), Working # << >>,
           UNCHANGED <<file, call, appended, flushed, failed, up, crashes, reader>>
    PROVE  Inv'
<1>1. t # None
  BY IndexLogAssumption
<1>2. /\ Working' = << >> /\ BeingStored' = Working /\ buffer'[Storing'] = Working /\ Base' = Base
      /\ BufferInv' /\ curr_working_buf' \in {1, 2}
      /\ buffer' \in [{1, 2} -> Seq(Items)] /\ \A i \in {1, 2} : Len(buffer'[i]) <= BUF_ITEMS
  BY <1>1, Switched
<1>3. pc \in [Threads -> {"idle", "lock", "put", "write", "close"}] /\ pc' = [pc EXCEPT ![t] = "write"]
  BY DEF Inv, TypeOK, Goto
<1>4. FileInv' /\ BlocksInv' /\ ReaderInv'
  BY <1>2, FrameFile DEF Inv, BlocksInv
<1>5. TypeOK'
  BY <1>2, <1>3 DEF Inv, TypeOK
<1>6. \A u \in Threads : pc[u] # "put" /\ pc[u] # "write"
  BY Unlocked
<1>7. LockInv'
  BY <1>2, <1>3, <1>6 DEF LockInv
<1>8. CountInv'
  <2>1. Appending' \subseteq Appending
    BY <1>3 DEF Appending
  <2> QED
    BY <2>1, FrameCount
<1> QED
  BY <1>2, <1>4, <1>5, <1>7, <1>8 DEF Inv

\* index_logger_append() takes the lock, and switches a full buffer.
LEMMA AppendLockKeeps ==
    ASSUME Inv, NEW t \in Threads, AppendLock(t)
    PROVE  Inv'
<1>0. /\ up /\ pc[t] = "lock" /\ call[t] = "append" /\ working_lock = None /\ working_lock' = t
      /\ UNCHANGED <<file, call, appended, flushed, failed, up, crashes, reader>>
  BY DEF AppendLock
<1>1. CASE Full
  <2>1. storing_lock = None /\ storing_lock' = t /\ switch_buffer /\ Goto(t, "write")
    BY <1>1 DEF AppendLock
  <2>2. Working # << >>
    <3>1. Len(Working) + 1 > BUF_ITEMS
      BY <1>1 DEF Full, Working
    <3>2. Len(Working) # 0
      BY <3>1, Facts
    <3> QED
      BY <3>2
  <2> QED
    BY <1>0, <2>1, <2>2, SwitchKeeps
<1>2. CASE ~Full
  <2>1. pc' = [pc EXCEPT ![t] = "put"] /\ UNCHANGED <<storing_lock, buffer, curr_working_buf>>
    BY <1>2 DEF AppendLock, Goto
  <2>2. Working' = Working /\ BeingStored' = BeingStored /\ Base' = Base /\ BufferInv' /\ Storing' = Storing
    BY <1>0, <2>1, FrameBuffers
  <2>3. FileInv' /\ BlocksInv' /\ ReaderInv'
    BY <1>0, <2>2, FrameFile DEF Inv, BlocksInv
  <2>4. pc \in [Threads -> {"idle", "lock", "put", "write", "close"}]
    BY DEF Inv, TypeOK
  <2>5. TypeOK'
    BY <1>0, <2>1 DEF Inv, TypeOK
  <2>6. Len(Working) < BUF_ITEMS
    <3>1. ~(Len(Working) + 1 > BUF_ITEMS)
      BY <1>2 DEF Full, Working
    <3> QED
      BY <3>1, Facts
  <2>7. storing_lock = None /\ \A u \in Threads : pc[u] # "put" /\ pc[u] # "write"
    BY <1>0, Unlocked
  <2>8. LockInv'
    BY <1>0, <2>1, <2>2, <2>4, <2>6, <2>7 DEF LockInv
  <2>9. CountInv'
    <3>1. Appending' \subseteq Appending
      BY <1>0, <2>1, <2>4 DEF Appending
    <3> QED
      BY <1>0, <3>1, FrameCount
  <2> QED
    BY <2>2, <2>3, <2>5, <2>8, <2>9 DEF Inv
<1> QED
  BY <1>1, <1>2

\* index_logger_append() puts its item at the end of the working buffer.
LEMMA AppendPutKeeps ==
    ASSUME Inv, NEW t \in Threads, AppendPut(t)
    PROVE  Inv'
<1>0. /\ up /\ pc[t] = "put" /\ appended' = appended + 1 /\ working_lock' = None /\ pc' = [pc EXCEPT ![t] = "idle"]
      /\ buffer' = [buffer EXCEPT ![curr_working_buf] = Append(@, appended')]
      /\ UNCHANGED <<curr_working_buf, storing_lock, file, call, flushed, failed, up, crashes, reader>>
  BY DEF AppendPut, Goto
<1>1. /\ pc \in [Threads -> {"idle", "lock", "put", "write", "close"}] /\ buffer \in [{1, 2} -> Seq(Items)]
      /\ \A i \in {1, 2} : Len(buffer[i]) <= BUF_ITEMS
  BY DEF Inv, TypeOK
<1>2. working_lock = t /\ call[t] = "append" /\ Len(Working) < BUF_ITEMS
  BY <1>0 DEF Inv, LockInv
<1>3. storing_lock = None
  BY <1>0, <1>2 DEF Inv, LockInv, TypeOK
<1>4. \A u \in Threads : u # t => pc[u] # "put" /\ pc[u] # "write"
  BY <1>2 DEF Inv, LockInv
<1>5. PICK a \in Nat, b \in Nat, w \in Nat : a = appended /\ b = Base /\ w = Len(Working)
  BY Facts
<1>6. BeingStored = << >> /\ BeingStored' = << >> /\ Len(<< >>) = 0
  BY <1>0, <1>3 DEF BeingStored
<1>7. a = b + w
  <2>1. a = b + 0 + w
    BY <1>5, <1>6, Facts
  <2> QED
    BY <2>1
<1>8. Working = Run(b, w)
  <2>1. Working = Run(b + 0, w)
    BY <1>5, <1>6 DEF Inv, BufferInv
  <2>2. b + 0 = b
    OBVIOUS
  <2> QED
    BY <2>1, <2>2
<1>9. CountInv' /\ a + 1 \in Items
  <2>1. t \in Appending /\ Appending' = Appending \ {t}
    BY <1>0, <1>1, <1>2 DEF Appending
  <2>2. IsFiniteSet(Appending) /\ a + Cardinality(Appending) <= MaxItems /\ MaxItems \in Nat
    BY <1>5, Facts DEF Inv, CountInv
  <2>3. IsFiniteSet(Appending') /\ Cardinality(Appending') = Cardinality(Appending) - 1
    BY <2>1, <2>2, FS_RemoveElement
  <2>4. Cardinality(Appending) \in Nat /\ Cardinality(Appending') \in Nat
    BY <2>2, <2>3, FS_CardinalityType
  <2>5. CountInv'
    BY <1>0, <1>5, <2>2, <2>3, <2>4 DEF CountInv
  <2>6. a + 1 \in Items
    BY <2>2, <2>3, <2>4 DEF Items
  <2> QED
    BY <2>5, <2>6
<1>10. Working' = Append(Working, a + 1)
  BY <1>0, <1>1, <1>5, Facts DEF Working
<1>11. Working' = Run(b, w + 1)
  <2>1. Append(Run(b, w), b + w + 1) = Run(b, w + 1)
    BY RunAppend
  <2> QED
    BY <1>7, <1>8, <1>10, <2>1
<1>12. Len(Working') = w + 1
  BY <1>5, <1>10, Facts
<1>13. Base' = Base
  <2>1. Base' = a + 1 - (w + 1) - 0
    BY <1>0, <1>5, <1>6, <1>12 DEF Base
  <2> QED
    BY <1>5, <1>7, <2>1
<1>14. BufferInv'
  <2>1. Base' \in Nat
    BY <1>5, <1>13
  <2>2. << >> = Run(b, 0)
    BY DEF Run
  <2>3. BeingStored' = Run(Base', Len(BeingStored'))
    BY <1>5, <1>6, <1>13, <2>2, Zenon
  <2>4. b + 0 = b
    OBVIOUS
  <2>5. Working' = Run(Base' + Len(BeingStored'), Len(Working'))
    BY <1>5, <1>6, <1>11, <1>12, <1>13, <2>4, Zenon
  <2> QED
    BY <2>1, <2>3, <2>5 DEF BufferInv
<1>15. FileInv' /\ BlocksInv' /\ ReaderInv'
  BY <1>0, <1>13, FrameFile DEF Inv, BlocksInv
<1>16. TypeOK'
  <2>1. PICK c \in {1, 2} : c = curr_working_buf
    BY Facts
  <2>2. PICK s \in Seq(Items) : s = Append(buffer[c], a + 1) /\ Len(s) = Len(buffer[c]) + 1
    <3>1. PICK r \in Seq(Items), x \in Items : r = buffer[c] /\ x = a + 1
      BY <1>1, <1>9
    <3>2. Append(r, x) \in Seq(Items) /\ Len(Append(r, x)) = Len(r) + 1
      OBVIOUS
    <3> QED
      BY <3>1, <3>2, Zenon
  <2>3. buffer' = [buffer EXCEPT ![c] = s]
    BY <1>0, <1>5, <2>1, <2>2
  <2>4. Len(s) <= BUF_ITEMS
    BY <1>2, <1>5, <2>1, <2>2, Facts DEF Working
  <2>5. buffer' \in [{1, 2} -> Seq(Items)] /\ \A i \in {1, 2} : Len(buffer'[i]) <= BUF_ITEMS
    BY <1>1, <2>3, <2>4
  <2>6. appended' \in 0 .. MaxItems
    BY <1>0, <1>5, <1>9, Facts DEF Items
  <2> QED
    BY <1>0, <2>5, <2>6 DEF Inv, TypeOK
<1>17. LockInv'
  BY <1>0, <1>1, <1>3, <1>4 DEF LockInv
<1> QED
  BY <1>9, <1>14, <1>15, <1>16, <1>17 DEF Inv

\* index_logger_flush(): an empty buffer has nothing more to store.
LEMMA FlushLockKeeps ==
    ASSUME Inv, NEW t \in Threads, FlushLock(t)
    PROVE  Inv'
<1>0. /\ up /\ pc[t] = "lock" /\ call[t] \in {"flush", "close"} /\ working_lock = None
      /\ UNCHANGED <<file, call, appended, failed, up, crashes, reader>>
  BY DEF FlushLock
<1>1. CASE Working # << >>
  <2>1. /\ storing_lock = None /\ working_lock' = t /\ storing_lock' = t
        /\ switch_buffer /\ Goto(t, "write") /\ UNCHANGED flushed
    BY <1>1 DEF FlushLock, Working
  <2> QED
    BY <1>0, <1>1, <2>1, SwitchKeeps
<1>2. CASE Working = << >>
  <2>1. /\ flushed' = appended /\ AfterFlush(t)
        /\ UNCHANGED <<working_lock, storing_lock, buffer, curr_working_buf>>
    BY <1>2 DEF FlushLock, Working, locks
  <2>2. PICK p \in {"close", "idle"} : pc' = [pc EXCEPT ![t] = p]
    BY <2>1 DEF AfterFlush, Goto
  <2>3. Working' = Working /\ BeingStored' = BeingStored /\ Base' = Base /\ BufferInv' /\ Storing' = Storing
    BY <1>0, <2>1, FrameBuffers
  <2>4. storing_lock = None /\ Len(BeingStored) = 0 /\ \A u \in Threads : pc[u] # "put" /\ pc[u] # "write"
    BY <1>0, Unlocked
  <2>5. appended = Base
    <3>1. Len(Working) = 0
      BY <1>2
    <3> QED
      BY <2>4, <3>1, Facts
  <2>6. ~failed => flushed' <= End(file)
    <3>1. ~failed => End(file) = Base
      BY <1>0 DEF Inv, BlocksInv
    <3> QED
      BY <2>1, <2>5, <3>1, Facts
  <2>7. FileInv' /\ BlocksInv' /\ ReaderInv'
    BY <1>0, <2>3, <2>6, FrameFile
  <2>8. pc \in [Threads -> {"idle", "lock", "put", "write", "close"}]
    BY DEF Inv, TypeOK
  <2>9. TypeOK'
    BY <1>0, <2>1, <2>2 DEF Inv, TypeOK
  <2>10. LockInv'
    BY <1>0, <2>1, <2>2, <2>4, <2>8 DEF LockInv
  <2>11. CountInv'
    <3>1. Appending' \subseteq Appending
      BY <1>0, <2>2, <2>8 DEF Appending
    <3> QED
      BY <1>0, <3>1, FrameCount
  <2> QED
    BY <2>3, <2>7, <2>9, <2>10, <2>11 DEF Inv
<1> QED
  BY <1>1, <1>2


\* Who writes has both locks and the items of the buffer to write.
LEMMA Writing ==
    ASSUME Inv, NEW t \in Threads, pc[t] = "write"
    PROVE  /\ working_lock = t /\ storing_lock = t /\ storing_lock # None /\ Working = << >>
           /\ BeingStored = buffer[Storing] /\ Len(BeingStored) \in Nat \ {0}
           /\ appended = Base + Len(BeingStored) /\ BeingStored = Run(Base, Len(BeingStored))
           /\ \A u \in Threads : u # t => pc[u] # "put" /\ pc[u] # "write"
<1>1. /\ working_lock = t /\ storing_lock = t /\ Working = << >> /\ buffer[Storing] # << >>
      /\ \A u \in Threads : u # t => pc[u] # "put" /\ pc[u] # "write"
  BY DEF Inv, LockInv
<1>2. storing_lock # None
  BY <1>1, IndexLogAssumption
<1>3. BeingStored = buffer[Storing]
  BY <1>2 DEF BeingStored
<1>4. Len(BeingStored) \in Nat \ {0}
  BY <1>1, <1>3, Facts
<1>5. appended = Base + Len(BeingStored)
  <2>1. Len(Working) = 0
    BY <1>1
  <2> QED
    BY <2>1, Facts
<1>6. BeingStored = Run(Base, Len(BeingStored))
  BY DEF Inv, BufferInv
<1> QED
  BY <1>1, <1>2, <1>3, <1>4, <1>5, <1>6

\* After the write nothing is in the buffers.
LEMMA Stored ==
    ASSUME Inv, Working' = << >>, BeingStored' = << >>, appended' = appended
    PROVE  Base' = appended /\ BufferInv'
<1>1. Len(<< >>) = 0
  OBVIOUS
<1>2. Base' = appended - 0 - 0
  BY <1>1 DEF Base
<1>3. appended \in Nat /\ Base' = appended
  BY <1>2, Facts
<1>4. << >> = Run(appended, 0) /\ << >> = Run(appended + 0, 0)
  BY DEF Run
<1>5. BeingStored' = Run(Base', Len(BeingStored'))
  BY <1>1, <1>3, <1>4, Zenon
<1>6. Working' = Run(Base' + Len(BeingStored'), Len(Working'))
  BY <1>1, <1>3, <1>4, Zenon
<1> QED
  BY <1>3, <1>5, <1>6 DEF BufferInv

\* What was written before stays older than anything in the buffers.
LEMMA FileFacts ==
    ASSUME Inv
    PROVE  /\ WrittenIn(file) \in Seq(Nat) /\ Ordered(WrittenIn(file), Base) /\ Base <= appended
           /\ Ordered(WrittenIn(file), appended)
<1>1. WrittenIn(file) \in Seq(Items)
  <2>1. PICK b : b = [count |-> 0, items |-> << >>]
    OBVIOUS
  <2>2. b \in BlockType
    BY <2>1, IndexLogAssumption DEF BlockType
  <2> QED
    BY <2>2, Facts, WrittenAppend
<1>2. WrittenIn(file) \in Seq(Nat)
  <2>1. Items \subseteq Nat
    BY IndexLogAssumption DEF Items
  <2>2. PICK s \in Seq(Items) : s = WrittenIn(file)
    BY <1>1
  <2>3. ASSUME NEW i \in 1 .. Len(s) PROVE s[i] \in Nat
    <3>1. s[i] \in Items
      OBVIOUS
    <3> QED
      BY <2>1, <3>1
  <2>4. s = [i \in 1 .. Len(s) |-> s[i]] /\ Len(s) \in Nat
    OBVIOUS
  <2>5. s \in Seq(Nat)
    BY <2>3, <2>4
  <2> QED
    BY <2>2, <2>5
<1>3. Ordered(WrittenIn(file), Base)
  BY DEF Inv, FileInv
<1>4. Base <= appended /\ Base \in Nat /\ appended \in Nat
  BY Facts
<1> QED
  BY <1>2, <1>3, <1>4, OrderedLater

\* A block that is appended to the file: all of the items, or the first n.
LEMMA FileGrows ==
    ASSUME Inv, NEW t \in Threads, pc[t] = "write", NEW n \in 0 .. Len(BeingStored), NEW b,
           b = Block(Len(BeingStored), SubSeq(BeingStored, 1, n)),
           file' = Append(file, b), appended' = appended, Base' = appended
    PROVE  FileInv' /\ b \in BlockType /\ b.count = Len(BeingStored) /\ b.items = Run(Base, n)
<1>1. PICK k \in Nat \ {0}, m \in Nat : k = Len(BeingStored) /\ m = Base /\ appended = m + k
  BY Writing, Facts
<1>2. BeingStored \in Seq(Items) /\ k <= BUF_ITEMS /\ BUF_ITEMS \in Nat /\ file \in Seq(BlockType)
  BY <1>1, Facts
<1>3. n \in 0 .. k /\ n \in Nat /\ k \in Nat /\ m + n \in Nat /\ m + k \in Nat /\ m + n <= m + k
  BY <1>1
<1>4. SubSeq(BeingStored, 1, n) = Run(m, n)
  <2>1. BeingStored = Run(m, k)
    BY <1>1, Writing
  <2> QED
    BY <1>3, <2>1, RunPrefix
<1>5. SubSeq(BeingStored, 1, n) \in Seq(Items)
  BY <1>1, <1>2, <1>3
<1>6. b = [count |-> k, items |-> SubSeq(BeingStored, 1, n)]
  BY <1>1 DEF Block
<1>7. b.count = k /\ b.items = Run(m, n)
  BY <1>4, <1>6
<1>8. b \in BlockType
  <2>1. PICK s \in Seq(Items) : s = SubSeq(BeingStored, 1, n)
    BY <1>5
  <2>2. k \in 0 .. BUF_ITEMS
    BY <1>2, <1>3
  <2>3. b = [count |-> k, items |-> s]
    BY <1>6, <2>1
  <2> QED
    BY <2>2, <2>3 DEF BlockType
<1>9. WrittenIn(file') = WrittenIn(file) \o Run(m, n)
  BY <1>2, <1>7, <1>8, WrittenAppend
<1>10. Ordered(WrittenIn(file'), appended)
  <2>1. WrittenIn(file) \in Seq(Nat) /\ Ordered(WrittenIn(file), m)
    BY <1>1, FileFacts
  <2>2. Ordered(WrittenIn(file'), m + n) /\ WrittenIn(file') \in Seq(Nat)
    BY <1>3, <1>9, <2>1, RunOrdered
  <2> QED
    BY <1>1, <1>3, <2>2, OrderedLater
<1>11. ASSUME NEW i \in 1 .. Len(file') PROVE Len(file'[i].items) <= file'[i].count
  <2>1. PICK f \in Nat : f = Len(file)
    BY <1>2
  <2>2. Len(file') = f + 1 /\ file'[f + 1] = b /\ \A j \in 1 .. f : file'[j] = file[j]
    BY <1>2, <1>8, <2>1
  <2>3. CASE i = f + 1
    <3>1. Len(Run(m, n)) = n
      BY <1>3, RunType
    <3> QED
      BY <1>3, <1>7, <2>2, <2>3, <3>1
  <2>4. CASE i # f + 1
    <3>1. i \in 1 .. f
      BY <2>2, <2>4
    <3> QED
      BY <2>1, <2>2, <3>1 DEF Inv, FileInv
  <2> QED
    BY <2>3, <2>4
<1> QED
  BY <1>1, <1>7, <1>8, <1>10, <1>11 DEF FileInv

\* sync_index_log() writes the stored buffer right after the last block.
LEMMA SyncKeeps ==
    ASSUME Inv, NEW t \in Threads, sync_index_log(t)
    PROVE  Inv'
<1>0. /\ up /\ pc[t] = "write" /\ storing_lock' = None
      /\ file' = Append(file, Block(Len(buffer[Storing]), buffer[Storing]))
      /\ UNCHANGED <<buffer, curr_working_buf, call, appended, failed, up, crashes, reader>>
  BY DEF sync_index_log
<1>1. /\ working_lock = t /\ storing_lock = t /\ Working = << >> /\ BeingStored = buffer[Storing]
      /\ \A u \in Threads : u # t => pc[u] # "put" /\ pc[u] # "write"
  BY <1>0, Writing
<1>2. PICK k \in Nat \ {0}, m \in Nat : k = Len(BeingStored) /\ m = Base /\ appended = m + k
  BY <1>0, Writing, Facts
<1>3. Working' = << >> /\ BeingStored' = << >>
  <2>1. Working' = Working
    BY <1>0 DEF Working
  <2> QED
    BY <1>0, <1>1, <2>1 DEF BeingStored
<1>4. Base' = appended /\ BufferInv'
  BY <1>0, <1>3, Stored
<1>5. PICK b : b = Block(Len(BeingStored), SubSeq(BeingStored, 1, k)) /\ file' = Append(file, b)
  <2>1. SubSeq(BeingStored, 1, k) = BeingStored
    BY <1>2, Facts
  <2> QED
    BY <1>0, <1>1, <2>1
<1>6. FileInv' /\ b \in BlockType /\ b.count = k /\ b.items = Run(m, k)
  <2>1. k \in 0 .. Len(BeingStored)
    BY <1>2
  <2> QED
    BY <1>0, <1>2, <1>4, <1>5, <2>1, FileGrows
<1>7. file \in Seq(BlockType) /\ file' \in Seq(BlockType) /\ Len(file') = Len(file) + 1
  BY <1>5, <1>6, Facts
<1>8. flushed' \in {flushed, appended}
  BY DEF sync_index_log
<1>9. /\ pc \in [Threads -> {"idle", "lock", "put", "write", "close"}]
      /\ call \in [Threads -> {"append", "flush", "close"}]
  BY DEF Inv, TypeOK
<1>10. \/ call[t] = "append" /\ pc' = [pc EXCEPT ![t] = "put"] /\ working_lock' = t
       \/ /\ call[t] # "append" /\ working_lock' = None
          /\ \E p \in {"close", "idle"} : pc' = [pc EXCEPT ![t] = p]
  BY <1>1 DEF sync_index_log, AfterFlush, Goto
<1>11. TypeOK'
  <2>1. pc' \in [Threads -> {"idle", "lock", "put", "write", "close"}] /\ working_lock' \in Threads \cup {None}
    BY <1>9, <1>10
  <2>2. file' \in Seq([count: 0 .. BUF_ITEMS, items: Seq(Items)])
    BY <1>7 DEF BlockType
  <2>3. reader.block \in 0 .. Len(file')
    BY <1>7 DEF Inv, TypeOK
  <2> QED
    BY <1>0, <1>8, <2>1, <2>2, <2>3 DEF Inv, TypeOK
<1>12. LockInv'
  <2>1. 0 < BUF_ITEMS /\ Len(Working') = 0
    BY <1>3, IndexLogAssumption
  <2> QED
    BY <1>0, <1>1, <1>9, <1>10, <2>1, IndexLogAssumption DEF LockInv
<1>13. CountInv'
  <2>1. Appending' \subseteq Appending
    BY <1>0, <1>9, <1>10 DEF Appending
  <2> QED
    BY <1>0, <2>1, FrameCount
<1>14. BlocksInv' /\ ReaderInv'
  <2>1. CASE failed
    BY <1>0, <2>1 DEF Inv, BlocksInv, ReaderInv
  <2>2. CASE ~failed
    <3>1. BlocksOK(file) /\ flushed <= End(file) /\ End(file) = m
      BY <1>0, <1>2, <2>2 DEF Inv, BlocksInv
    <3>2. /\ BlocksOK(file') /\ End(file') = m + k
          /\ \A i \in 1 .. Len(file) + 1 : Before(file', i) = Before(file, i)
      <4>1. /\ BlocksOK(Append(file, b)) /\ End(Append(file, b)) = End(file) + k
            /\ \A i \in 1 .. Len(file) + 1 : Before(Append(file, b), i) = Before(file, i)
        BY <1>6, <1>7, <3>1, BlocksAppend
      <4> QED
        BY <1>5, <3>1, <4>1
    <3>3. flushed' <= End(file')
      <4>1. flushed \in Nat
        BY DEF Inv, TypeOK
      <4>2. flushed <= m + k /\ appended <= m + k
        BY <1>2, <3>1, <4>1
      <4> QED
        BY <1>8, <3>2, <4>2
    <3>4. End(file') = Base'
      BY <1>2, <1>4, <3>2
    <3>5. BlocksInv'
      BY <3>2, <3>3, <3>4 DEF BlocksInv
    <3>6. ASSUME ~reader.stale PROVE ReaderOK(file', reader)
      <4>1. /\ reader \in ReaderType /\ ReaderOK(file, reader) /\ reader.block \in 0 .. Len(file)
            /\ reader.fetch_id # -1 => reader.block # 0
        BY <2>2, <3>6 DEF Inv, ReaderInv, TypeOK
      <4>2. \A i \in 1 .. Len(file) + 1 : Before(Append(file, b), i) = Before(file, i)
        BY <1>5, <3>2
      <4>3. ReaderOK(Append(file, b), reader)
        BY <1>6, <1>7, <4>1, <4>2, ReaderAppend
      <4> QED
        BY <1>5, <4>3
    <3>7. ReaderInv'
      BY <1>0, <3>6 DEF Inv, ReaderInv
    <3> QED
      BY <3>5, <3>7
  <2> QED
    BY <2>1, <2>2
<1> QED
  BY <1>4, <1>6, <1>11, <1>12, <1>13, <1>14 DEF Inv


\* A write that fails leaves nothing, or the first items of the buffer.
LEMMA SyncFailsKeeps ==
    ASSUME Inv, NEW t \in Threads, SyncFails(t)
    PROVE  Inv'
<1>0. /\ up /\ pc[t] = "write" /\ storing_lock' = None /\ working_lock' = None /\ failed' = TRUE
      /\ AfterFlush(t)
      /\ UNCHANGED <<buffer, curr_working_buf, call, appended, flushed, up, crashes, reader>>
  BY DEF SyncFails
<1>1. /\ Working = << >> /\ BeingStored = buffer[Storing]
      /\ \A u \in Threads : u # t => pc[u] # "put" /\ pc[u] # "write"
  BY <1>0, Writing
<1>2. Working' = << >> /\ BeingStored' = << >>
  <2>1. Working' = Working
    BY <1>0 DEF Working
  <2> QED
    BY <1>0, <1>1, <2>1 DEF BeingStored
<1>3. Base' = appended /\ BufferInv'
  BY <1>0, <1>2, Stored
<1>4. PICK p \in {"close", "idle"} : pc' = [pc EXCEPT ![t] = p]
  BY <1>0 DEF AfterFlush, Goto
<1>5. pc \in [Threads -> {"idle", "lock", "put", "write", "close"}]
  BY DEF Inv, TypeOK
<1>6. FileInv' /\ file' \in Seq(BlockType) /\ Len(file') \in Nat /\ Len(file) \in Nat /\ Len(file') >= Len(file)
  <2>1. CASE file' = file
    <3>1. Ordered(WrittenIn(file'), appended)
      BY <2>1, FileFacts
    <3>2. FileInv'
      BY <1>3, <2>1, <3>1 DEF Inv, FileInv
    <3> QED
      BY <2>1, <3>2, Facts
  <2>2. CASE \E n \in 0 .. Len(buffer[Storing]) - 1 :
                file' = Append(file, Block(Len(buffer[Storing]), SubSeq(buffer[Storing], 1, n)))
    <3>1. PICK n \in 0 .. Len(BeingStored) - 1 :
                file' = Append(file, Block(Len(BeingStored), SubSeq(BeingStored, 1, n)))
      BY <1>1, <2>2
    <3>2. n \in 0 .. Len(BeingStored)
      BY Facts
    <3>3. PICK b : b = Block(Len(BeingStored), SubSeq(BeingStored, 1, n))
      OBVIOUS
    <3>4. FileInv' /\ b \in BlockType
      BY <1>0, <1>3, <3>1, <3>2, <3>3, FileGrows
    <3>5. file \in Seq(BlockType)
      BY Facts
    <3> QED
      BY <3>1, <3>3, <3>4, <3>5
  <2> QED
    BY <2>1, <2>2 DEF SyncFails
<1>7. BlocksInv' /\ ReaderInv'
  BY <1>0 DEF Inv, BlocksInv, ReaderInv
<1>8. TypeOK'
  <2>1. pc' \in [Threads -> {"idle", "lock", "put", "write", "close"}]
    BY <1>4, <1>5
  <2>2. file' \in Seq([count: 0 .. BUF_ITEMS, items: Seq(Items)])
    BY <1>6 DEF BlockType
  <2>3. reader.block \in 0 .. Len(file')
    BY <1>6 DEF Inv, TypeOK
  <2> QED
    BY <1>0, <2>1, <2>2, <2>3 DEF Inv, TypeOK
<1>9. LockInv'
  BY <1>0, <1>1, <1>4, <1>5 DEF LockInv
<1>10. CountInv'
  <2>1. Appending' \subseteq Appending
    BY <1>0, <1>4, <1>5 DEF Appending
  <2> QED
    BY <1>0, <2>1, FrameCount
<1> QED
  BY <1>3, <1>6, <1>7, <1>8, <1>9, <1>10 DEF Inv

\* A crash, or the end of the process after index_logger_close().
LEMMA GoneKeeps ==
    ASSUME Inv, Gone, crashes' \in 0 .. MaxCrashes
    PROVE  Inv'
<1>0. /\ up' = FALSE /\ buffer' = [i \in {1, 2} |-> << >>] /\ curr_working_buf' = 1
      /\ working_lock' = None /\ storing_lock' = None
      /\ pc' = [t \in Threads |-> "idle"]
      /\ UNCHANGED <<file, call, appended, flushed, failed, reader>>
  BY DEF Gone
<1>1. Working' = << >> /\ BeingStored' = << >>
  BY <1>0 DEF Working, BeingStored
<1>2. Base' = appended /\ BufferInv'
  BY <1>0, <1>1, Stored
<1>3. FileInv'
  <2>1. Ordered(WrittenIn(file'), Base')
    BY <1>0, <1>2, FileFacts
  <2> QED
    BY <1>0, <2>1 DEF Inv, FileInv
<1>4. BlocksInv' /\ ReaderInv'
  BY <1>0 DEF Inv, BlocksInv, ReaderInv
<1>5. TypeOK'
  <2>1. buffer' \in [{1, 2} -> Seq(Items)] /\ \A i \in {1, 2} : Len(buffer'[i]) <= BUF_ITEMS
    BY <1>0, IndexLogAssumption
  <2> QED
    BY <1>0, <2>1 DEF Inv, TypeOK
<1>6. LockInv'
  BY <1>0, <1>1 DEF LockInv
<1>7. CountInv'
  <2>1. Appending' \subseteq Appending
    BY <1>0 DEF Appending
  <2> QED
    BY <1>0, <2>1, FrameCount
<1> QED
  BY <1>2, <1>3, <1>4, <1>5, <1>6, <1>7 DEF Inv

\* index_logger_create() starts again with an empty file.
LEMMA CreateKeeps ==
    ASSUME Inv, index_logger_create
    PROVE  Inv'
<1>0. /\ ~up /\ up' = TRUE /\ file' = << >> /\ appended' = 0 /\ flushed' = 0 /\ failed' = FALSE
      /\ UNCHANGED <<buffer, curr_working_buf, working_lock, storing_lock, pc, call, crashes>>
      /\ reader' = IF Advanced THEN StaleReader ELSE reader
  BY DEF index_logger_create, locks
<1>1. (\A t \in Threads : pc[t] = "idle") /\ Working = << >>
  BY <1>0 DEF Inv, LockInv
<1>2. working_lock = None /\ storing_lock = None
  BY <1>1 DEF Inv, LockInv, TypeOK
<1>3. /\ reader' \in ReaderType /\ ReaderOK(<< >>, reader') /\ (~reader'.open => reader' = NoReader)
      /\ reader'.got = << >> /\ reader'.fetch_id = -1 /\ reader'.block = 0
  <2>1. CASE Advanced
    <3>1. PICK r \in ReaderType : r = NoReader
      BY BlocksEmpty
    <3>2. StaleReader = [r EXCEPT !.open = TRUE, !.stale = TRUE]
      BY <3>1, Zenon DEF StaleReader
    <3>3. r.block = 0 /\ r.fetch_id = -1 /\ r.got = << >> /\ r.lost = FALSE
      BY <3>1 DEF NoReader
    <3>4. StaleReader \in ReaderType
      BY <3>2 DEF ReaderType
    <3>5. /\ StaleReader.open /\ StaleReader.block = 0 /\ StaleReader.fetch_id = -1
          /\ StaleReader.got = << >> /\ StaleReader.lost = FALSE
      BY <3>2, <3>3 DEF ReaderType
    <3>6. ReaderOK(<< >>, StaleReader)
      BY <3>5, BlocksEmpty DEF ReaderOK, NoReader, Before
    <3> QED
      BY <1>0, <2>1, <3>5, <3>4, <3>6
  <2>2. CASE ~Advanced
    <3>1. /\ reader' = reader /\ reader \in ReaderType /\ reader.block = 0 /\ ~reader.lost
          /\ reader.got = << >> /\ reader.fetch_id = -1 /\ (~reader.open => reader = NoReader)
      BY <1>0, <2>2 DEF Advanced, Inv, ReaderInv
    <3>2. ReaderOK(<< >>, reader)
      BY <3>1, BlocksEmpty DEF ReaderOK, NoReader, Before
    <3> QED
      BY <3>1, <3>2
  <2> QED
    BY <2>1, <2>2
<1>4. Working' = << >> /\ BeingStored' = << >>
  <2>1. Working' = Working
    BY <1>0 DEF Working
  <2> QED
    BY <1>0, <1>1, <1>2, <2>1 DEF BeingStored
<1>5. Base' = 0
  <2>1. Len(Working') = 0 /\ Len(BeingStored') = 0
    BY <1>4
  <2> QED
    BY <1>0, <2>1 DEF Base
<1>6. BufferInv'
  <2>1. Run(0, 0) = << >> /\ Len(<< >>) = 0 /\ 0 + 0 = 0 /\ 0 \in Nat
    BY DEF Run
  <2>2. BeingStored' = Run(Base', Len(BeingStored'))
    BY <1>4, <1>5, <2>1, Zenon
  <2>3. Working' = Run(Base' + Len(BeingStored'), Len(Working'))
    BY <1>4, <1>5, <2>1, Zenon
  <2> QED
    BY <1>5, <2>1, <2>2, <2>3 DEF BufferInv
<1>7. FileInv'
  BY <1>0, <1>5, WrittenEmpty DEF FileInv, Ordered
<1>8. BlocksInv'
  BY <1>0, <1>5, BlocksEmpty DEF BlocksInv
<1>9. ReaderInv'
  BY <1>0, <1>3 DEF ReaderInv
<1>10. TypeOK'
  <2>1. /\ << >> \in Seq([count: 0 .. BUF_ITEMS, items: Seq(Items)]) /\ Len(<< >>) = 0
        /\ 0 \in 0 .. MaxItems /\ 0 \in 0 .. 0
    BY IndexLogAssumption
  <2>2. reader'.got \in Seq(Items) /\ reader'.fetch_id \in -1 .. BUF_ITEMS /\ reader'.block = 0
    BY <1>3, IndexLogAssumption
  <2> QED
    BY <1>0, <2>1, <2>2 DEF Inv, TypeOK
<1>11. LockInv'
  BY <1>0, <1>1, <1>2 DEF LockInv
<1>12. CountInv'
  <2>1. Appending' = {}
    BY <1>0, <1>1 DEF Appending
  <2> QED
    BY <1>0, <2>1, FS_EmptySet, IndexLogAssumption DEF CountInv
<1> QED
  BY <1>6, <1>7, <1>8, <1>9, <1>10, <1>11, <1>12 DEF Inv


\* A reader that opens or closes.
LEMMA ReaderResets ==
    ASSUME Inv, NEW o \in BOOLEAN, reader' = [NoReader EXCEPT !.open = o],
           UNCHANGED <<buffer, curr_working_buf, locks, file, pc, call, appended, flushed, failed, up, crashes>>
    PROVE  Inv'
<1>0. UNCHANGED <<buffer, curr_working_buf, working_lock, storing_lock, file, pc, call, appended, flushed, failed,
                  up, crashes>>
  BY DEF locks
<1>1. reader' = [open |-> o, block |-> 0, fetch_id |-> -1, got |-> << >>, lost |-> FALSE, stale |-> FALSE]
  BY DEF NoReader
<1>2. Working' = Working /\ BeingStored' = BeingStored /\ Base' = Base /\ BufferInv' /\ Storing' = Storing
  BY <1>0, FrameBuffers
<1>3. FileInv' /\ BlocksInv'
  BY <1>0, <1>2 DEF Inv, FileInv, BlocksInv
<1>4. LockInv'
  BY <1>0, <1>2 DEF Inv, LockInv
<1>5. CountInv'
  BY <1>0 DEF Inv, CountInv, Appending
<1>6. << >> \in Seq(Items) /\ Len(<< >>) = 0 /\ Run(0, 0) = << >>
  BY DEF Run
<1>7. TypeOK'
  <2>1. 0 \in 0 .. Len(file) /\ -1 \in -1 .. BUF_ITEMS
    BY Facts
  <2>2. reader'.got = << >> /\ reader'.fetch_id = -1 /\ reader'.block = 0
    BY <1>1
  <2> QED
    BY <1>0, <1>6, <2>1, <2>2 DEF Inv, TypeOK
<1>8. ReaderInv'
  <2>1. reader' \in ReaderType
    <3>1. PICK r \in ReaderType : r = NoReader
      BY BlocksEmpty
    <3>2. [r EXCEPT !.open = TRUE] \in ReaderType /\ [r EXCEPT !.open = FALSE] \in ReaderType
      BY DEF ReaderType
    <3>3. o = TRUE \/ o = FALSE
      OBVIOUS
    <3> QED
      BY <3>1, <3>2, <3>3
  <2>2. ~reader'.open => reader' = NoReader
    BY <1>1 DEF NoReader
  <2>3. ReaderOK(file', reader')
    <3>1. reader'.block + 1 = 1
      BY <1>1
    <3>2. Before(file', reader'.block + 1) = 0
      BY <3>1 DEF Before
    <3> QED
      BY <1>1, <1>6, <3>2 DEF ReaderOK
  <2> QED
    BY <1>1, <2>1, <2>2, <2>3 DEF ReaderInv
<1> QED
  BY <1>2, <1>3, <1>4, <1>5, <1>7, <1>8 DEF Inv

\* index_logger_fetch() gets the item after those it has got.
LEMMA FetchKeeps ==
    ASSUME Inv, index_logger_fetch
    PROVE  Inv'
<1> DEFINE bl == IF reader.fetch_id = -1 THEN reader.block + 1 ELSE reader.block
           idx == IF reader.fetch_id = -1 THEN 0 ELSE reader.fetch_id
<1>0. /\ reader.open /\ ~reader.lost /\ ~reader.stale /\ bl <= Len(file)
      /\ UNCHANGED <<buffer, curr_working_buf, working_lock, storing_lock, file, pc, call, appended, flushed, failed,
                     up, crashes>>
  BY DEF index_logger_fetch, locks
<1>1. IF idx < Len(file[bl].items)
      THEN reader' = [reader EXCEPT !.block = bl,
                          !.fetch_id = IF idx + 1 = file[bl].count THEN -1 ELSE idx + 1,
                          !.got = Append(@, file[bl].items[idx + 1])]
      ELSE reader' = [reader EXCEPT !.lost = TRUE]
  BY DEF index_logger_fetch
<1>2. /\ reader \in ReaderType /\ reader.block \in 0 .. Len(file) /\ reader.fetch_id \in -1 .. BUF_ITEMS
      /\ reader.fetch_id # -1 => reader.block # 0 /\ reader.fetch_id > 0
      /\ file \in Seq(BlockType) /\ reader.got \in Seq(Items) /\ BUF_ITEMS \in Nat
  BY Facts DEF Inv, TypeOK, ReaderInv
<1>3. PICK b \in 1 .. Len(file), d \in Nat : b = bl /\ d = idx
  BY <1>0, <1>2
<1>4. file[b] \in BlockType
  BY <1>2
<1>5. PICK s \in Seq(Items), c \in 0 .. BUF_ITEMS : s = file[b].items /\ c = file[b].count
  BY <1>4 DEF BlockType
<1>6. Len(s) <= c /\ Len(s) \in Nat
  BY <1>5 DEF Inv, FileInv
<1>7. /\ Working' = Working /\ BeingStored' = BeingStored /\ Base' = Base /\ BufferInv' /\ Storing' = Storing
  BY <1>0, FrameBuffers
<1>8. FileInv' /\ BlocksInv' /\ LockInv' /\ CountInv'
  <2>1. FileInv' /\ BlocksInv'
    BY <1>0, <1>7 DEF Inv, FileInv, BlocksInv
  <2>2. LockInv'
    BY <1>0, <1>7 DEF Inv, LockInv
  <2>3. CountInv'
    BY <1>0 DEF Inv, CountInv, Appending
  <2> QED
    BY <2>1, <2>2, <2>3
<1>9. ~failed => ReaderOK(file, reader) /\ BlocksOK(file)
  BY <1>0 DEF Inv, ReaderInv, BlocksInv
<1>10. CASE d < Len(s)
  <2>0. d + 1 \in 1 .. Len(s) /\ d + 1 \in -1 .. BUF_ITEMS /\ d + 1 > 0 /\ d + 1 # -1
    <3>1. PICK l \in Nat, m \in Nat, n \in Nat : l = Len(s) /\ m = c /\ n = BUF_ITEMS
      BY <1>2, <1>6
    <3>2. d < l /\ l <= m /\ m <= n
      BY <1>2, <1>5, <1>6, <1>10, <3>1
    <3>3. d + 1 \in 1 .. l /\ d + 1 \in -1 .. n /\ d + 1 > 0 /\ d + 1 # -1
      BY <3>2
    <3> QED
      BY <3>1, <3>3
  <2>1. PICK x \in Items : x = s[d + 1]
    BY <2>0
  <2>2. PICK i \in -1 .. BUF_ITEMS : i = (IF d + 1 = c THEN -1 ELSE d + 1)
    BY <1>2, <2>0
  <2>3. PICK g \in Seq(Items) : g = Append(reader.got, x)
    <3>1. PICK r \in Seq(Items) : r = reader.got
      BY <1>2
    <3>2. Append(r, x) \in Seq(Items)
      OBVIOUS
    <3> QED
      BY <3>1, <3>2, Zenon
  <2>4. reader' = [reader EXCEPT !.block = b, !.fetch_id = i, !.got = g]
    BY <1>1, <1>3, <1>5, <1>10, <2>1, <2>2, <2>3
  <2>5. reader' = [open |-> reader.open, block |-> b, fetch_id |-> i, got |-> g, lost |-> reader.lost,
                   stale |-> reader.stale]
    BY <1>2, <2>4 DEF ReaderType
  <2>6. b \in Nat /\ b # 0 /\ b \in 0 .. Len(file) /\ i \in Int /\ (i # -1 => i > 0)
    BY <1>3, <2>0, <2>2
  <2>7. TypeOK'
    <3>1. reader'.got = g /\ reader'.fetch_id = i /\ reader'.block = b
      BY <2>5
    <3> QED
      BY <1>0, <2>6, <3>1 DEF Inv, TypeOK
  <2>8. reader' \in ReaderType
    BY <1>2, <2>5, <2>6 DEF ReaderType
  <2>9. ASSUME ~failed PROVE ReaderOK(file, reader')
    <3>1. PICK e \in Nat, n \in Nat : e = Before(file, b) /\ n = Len(reader.got)
      <4>1. b \in 1 .. Len(file) + 1
        BY <1>3
      <4>2. Before(file, b) \in Nat
        BY <1>9, <2>9, <4>1 DEF BlocksOK
      <4>3. Len(reader.got) \in Nat
        BY <1>2
      <4> QED
        BY <4>2, <4>3, Zenon
    <3>2. n = e + d /\ reader.got = Run(0, n)
      <4>1. CASE reader.fetch_id = -1
        <5>1. b = reader.block + 1 /\ d = 0
          BY <1>3, <4>1
        <5>2. n = e /\ reader.got = Run(0, n)
          BY <1>9, <2>9, <3>1, <4>1, <5>1 DEF ReaderOK
        <5>3. e + 0 = e
          OBVIOUS
        <5> QED
          BY <5>1, <5>2, <5>3
      <4>2. CASE reader.fetch_id # -1
        <5>1. b = reader.block /\ d = reader.fetch_id
          BY <1>3, <4>2
        <5> QED
          BY <1>9, <2>9, <3>1, <4>2, <5>1 DEF ReaderOK
      <4> QED
        BY <4>1, <4>2
    <3>3. PICK l \in Nat : l = Len(s) /\ c = l /\ s = Run(e, l) /\ \A j \in 1 .. l : s[j] = e + j
      <4>1. PICK l \in Nat : l = Len(s)
        OBVIOUS
      <4>2. c = l /\ s = Run(e, l)
        BY <1>3, <1>5, <1>9, <2>9, <3>1, <4>1 DEF BlocksOK
      <4>3. \A j \in 1 .. l : Run(e, l)[j] = e + j
        BY RunType
      <4> QED
        BY <4>1, <4>2, <4>3
    <3>4. x = n + 1 /\ d + 1 \in 1 .. l
      BY <2>0, <2>1, <3>2, <3>3
    <3>5. g = Run(0, n + 1) /\ Len(g) = n + 1
      <4>1. Append(Run(0, n), 0 + n + 1) = Run(0, n + 1)
        BY RunAppend
      <4>2. 0 + n + 1 = n + 1 /\ n + 1 \in Nat
        OBVIOUS
      <4>3. g = Run(0, n + 1)
        BY <2>3, <3>2, <3>4, <4>1, <4>2
      <4>4. Len(Run(0, n + 1)) = n + 1
        BY <4>2, RunType
      <4> QED
        BY <4>3, <4>4
    <3>6. ~reader'.lost /\ reader'.got = g /\ reader'.fetch_id = i /\ reader'.block = b
      BY <1>0, <2>5
    <3>7. CASE d + 1 = c
      <4>1. i = -1 /\ l = d + 1
        BY <2>2, <3>3, <3>7
      <4>2. Last(s) = e + l
        BY <3>3, <3>4, <4>1 DEF Last
      <4>3. b + 1 # 1 /\ b + 1 - 1 = b
        BY <2>6
      <4>4. Before(file, b + 1) = e + l
        BY <1>5, <4>2, <4>3 DEF Before
      <4>5. n + 1 = e + l
        BY <3>2, <4>1
      <4> QED
        BY <3>5, <3>6, <4>1, <4>4, <4>5 DEF ReaderOK
    <3>8. CASE d + 1 # c
      <4>1. i = d + 1 /\ i # -1 /\ i < l
        BY <2>0, <2>2, <3>3, <3>4, <3>8
      <4>2. n + 1 = e + (d + 1)
        BY <3>2
      <4> QED
        BY <1>5, <3>1, <3>3, <3>5, <3>6, <4>1, <4>2 DEF ReaderOK
    <3> QED
      BY <3>7, <3>8
  <2>10. ReaderInv'
    <3>1. reader'.open /\ reader'.fetch_id = i /\ reader'.block = b
      BY <1>0, <2>5
    <3> QED
      BY <1>0, <2>6, <2>8, <2>9, <3>1 DEF ReaderInv
  <2> QED
    BY <1>7, <1>8, <2>7, <2>10 DEF Inv
<1>11. CASE ~(d < Len(s))
  <2>1. reader' = [reader EXCEPT !.lost = TRUE]
    BY <1>1, <1>3, <1>5, <1>11
  <2>2. failed
    <3>1. SUFFICES ASSUME ~failed PROVE FALSE
      OBVIOUS
    <3>2. s # << >>
      BY <1>3, <1>5, <1>9, <3>1 DEF BlocksOK
    <3>3. Len(s) > 0
      BY <3>2
    <3>4. CASE reader.fetch_id = -1
      BY <1>3, <1>11, <3>3, <3>4
    <3>5. CASE reader.fetch_id # -1
      <4>1. b = reader.block /\ d = reader.fetch_id
        BY <1>3, <3>5
      <4> QED
        BY <1>5, <1>9, <1>11, <3>1, <3>5, <4>1 DEF ReaderOK
    <3> QED
      BY <3>4, <3>5
  <2>3. /\ reader'.open = reader.open /\ reader'.got = reader.got /\ reader'.block = reader.block
        /\ reader'.fetch_id = reader.fetch_id /\ reader' \in ReaderType
    BY <1>2, <2>1 DEF ReaderType
  <2>4. TypeOK'
    BY <1>0, <2>3 DEF Inv, TypeOK
  <2>5. ReaderInv'
    BY <1>0, <1>2, <2>2, <2>3 DEF Inv, ReaderInv
  <2> QED
    BY <1>7, <1>8, <2>4, <2>5 DEF Inv
<1> QED
  BY <1>10, <1>11

\* A reader of the journal that was truncated loses its way.
LEMMA FetchStaleKeeps ==
    ASSUME Inv, FetchStale
    PROVE  Inv'
<1>0. /\ reader.open /\ reader.stale /\ reader' = [reader EXCEPT !.lost = TRUE]
      /\ UNCHANGED <<buffer, curr_working_buf, working_lock, storing_lock, file, pc, call, appended, flushed, failed,
                     up, crashes>>
  BY DEF FetchStale, locks
<1>1. reader \in ReaderType
  BY DEF Inv, ReaderInv
<1>2. /\ reader'.open = reader.open /\ reader'.got = reader.got /\ reader'.block = reader.block
      /\ reader'.fetch_id = reader.fetch_id /\ reader'.stale = reader.stale /\ reader' \in ReaderType
  BY <1>0, <1>1 DEF ReaderType
<1>3. Working' = Working /\ BeingStored' = BeingStored /\ Base' = Base /\ BufferInv' /\ Storing' = Storing
  BY <1>0, FrameBuffers
<1>4. FileInv' /\ BlocksInv'
  BY <1>0, <1>3 DEF Inv, FileInv, BlocksInv
<1>5. LockInv'
  BY <1>0, <1>3 DEF Inv, LockInv
<1>6. CountInv'
  BY <1>0 DEF Inv, CountInv, Appending
<1>7. TypeOK'
  BY <1>0, <1>2 DEF Inv, TypeOK
<1>8. ReaderInv'
  BY <1>0, <1>2 DEF Inv, ReaderInv
<1> QED
  BY <1>3, <1>4, <1>5, <1>6, <1>7, <1>8 DEF Inv

\* Every step of the journal preserves the invariant.
THEOREM InvNext == Inv /\ [Next]_vars => Inv'
<1> SUFFICES ASSUME Inv, [Next]_vars PROVE Inv'
  OBVIOUS
<1>1. ASSUME NEW t \in Threads, Call(t) PROVE Inv'
  BY <1>1, CallKeeps
<1>2. ASSUME NEW t \in Threads, AppendLock(t) PROVE Inv'
  BY <1>2, AppendLockKeeps
<1>3. ASSUME NEW t \in Threads, AppendPut(t) PROVE Inv'
  BY <1>3, AppendPutKeeps
<1>4. ASSUME NEW t \in Threads, FlushLock(t) PROVE Inv'
  BY <1>4, FlushLockKeeps
<1>5. ASSUME NEW t \in Threads, sync_index_log(t) PROVE Inv'
  BY <1>5, SyncKeeps
<1>6. ASSUME NEW t \in Threads, SyncFails(t) PROVE Inv'
  BY <1>6, SyncFailsKeeps
<1>7. ASSUME NEW t \in Threads, WriterClose(t) PROVE Inv'
  <2>1. crashes' \in 0 .. MaxCrashes
    BY <1>7 DEF Inv, TypeOK, WriterClose
  <2> QED
    BY <1>7, <2>1, GoneKeeps DEF WriterClose
<1>8. CASE Crash
  <2>1. crashes' \in 0 .. MaxCrashes
    BY <1>8, IndexLogAssumption DEF Inv, TypeOK, Crash
  <2> QED
    BY <1>8, <2>1, GoneKeeps DEF Crash
<1>9. CASE index_logger_create
  BY <1>9, CreateKeeps
<1>10. CASE index_logger_open
  BY <1>10, ReaderResets DEF index_logger_open
<1>11. CASE index_logger_fetch
  BY <1>11, FetchKeeps
<1>12. CASE ReaderClose
  <2>1. NoReader = [NoReader EXCEPT !.open = FALSE]
    <3>1. NoReader \in ReaderType /\ NoReader.open = FALSE
      BY BlocksEmpty DEF NoReader
    <3> QED
      BY <3>1 DEF ReaderType
  <2>2. reader' = [NoReader EXCEPT !.open = FALSE]
    BY <1>12, <2>1 DEF ReaderClose
  <2> QED
    BY <1>12, <2>2, ReaderResets DEF ReaderClose
<1>13. CASE FetchStale
  BY <1>13, FetchStaleKeeps
<1>14. CASE UNCHANGED vars
  <2>0. UNCHANGED <<buffer, curr_working_buf, working_lock, storing_lock, file, pc, call, appended, flushed, failed,
                    up, crashes, reader>>
    BY <1>14 DEF vars
  <2>1. Working' = Working /\ BeingStored' = BeingStored /\ Base' = Base /\ BufferInv' /\ Storing' = Storing
    BY <2>0, FrameBuffers
  <2>2. FileInv' /\ BlocksInv' /\ ReaderInv'
    BY <2>0, <2>1, FrameFile DEF Inv, BlocksInv
  <2>3. TypeOK'
    BY <2>0 DEF Inv, TypeOK
  <2>4. LockInv'
    BY <2>0, <2>1 DEF Inv, LockInv
  <2>5. CountInv'
    BY <2>0 DEF Inv, CountInv, Appending
  <2> QED
    BY <2>1, <2>2, <2>3, <2>4, <2>5 DEF Inv
<1> QED
  BY <1>1, <1>2, <1>3, <1>4, <1>5, <1>6, <1>7, <1>8, <1>9, <1>10, <1>11, <1>12, <1>13, <1>14 DEF Next

\* The invariant holds in every state the journal reaches.
THEOREM Invariance == Spec => []Inv
  BY InvInit, InvNext, PTL DEF Spec

-----------------------------------------------------------------------------
(* What the journal promises.                                              *)

\* Type correctness; neither buffer ever holds more than LOG_BUF_SIZE.
THEOREM TypeCorrect == Spec => []TypeOK
<1>1. Inv => TypeOK
  BY DEF Inv
<1> QED
  BY <1>1, Invariance, PTL

\* File and buffers hold the appended items in order and none twice, whatever
\* writes fail, and without a gap while they succeed: for any number of
\* threads in index_logger_append() and index_logger_flush(), any buffer size
\* and a crash at any point.
THEOREM JournalIsExact == Spec => []JournalExact
<1>1. ASSUME Inv PROVE JournalExact
  <2>1. PICK b \in Nat, k \in Nat, w \in Nat :
            b = Base /\ k = Len(BeingStored) /\ w = Len(Working) /\ appended = b + k + w
    BY <1>1, Facts
  <2>2. BeingStored = Run(b, k) /\ Working = Run(b + k, w)
    BY <1>1, <2>1 DEF Inv, BufferInv
  <2>3. Journalled = WrittenIn(file) \o Run(b, k) \o Run(b + k, w)
    BY <2>2, WrittenIs DEF Journalled, Working
  <2>4. WrittenIn(file) \in Seq(Nat) /\ Ordered(WrittenIn(file), b)
    BY <1>1, <2>1, FileFacts
  <2>5. JournalInOrder
    <3>1. Ordered(WrittenIn(file) \o Run(b, k), b + k) /\ WrittenIn(file) \o Run(b, k) \in Seq(Nat)
      BY <2>4, RunOrdered
    <3>2. b + k \in Nat
      OBVIOUS
    <3>3. Ordered(Journalled, b + k + w)
      BY <2>3, <3>1, <3>2, RunOrdered
    <3> QED
      BY <3>3 DEF Ordered, JournalInOrder
  <2>6. JournalComplete
    <3> SUFFICES ASSUME up, ~failed PROVE Journalled = UpTo(appended)
      BY DEF JournalComplete
    <3>1. WrittenIn(file) = Run(0, b)
      BY <1>1, <2>1 DEF Inv, BlocksInv, BlocksOK
    <3>2. 0 + b = b /\ 0 + (b + k) = b + k /\ b + k \in Nat /\ b + k + w \in Nat
      OBVIOUS
    <3>3. Run(0, b) \o Run(0 + b, k) = Run(0, b + k)
      BY RunRun
    <3>4. Run(0, b + k) \o Run(0 + (b + k), w) = Run(0, b + k + w)
      BY <3>2, RunRun
    <3>5. UpTo(appended) = Run(0, b + k + w)
      BY <2>1, <3>2, RunType
    <3> QED
      BY <2>3, <3>1, <3>2, <3>3, <3>4, <3>5, Zenon
  <2> QED
    BY <2>5, <2>6 DEF JournalExact
<1> QED
  BY <1>1, Invariance, PTL

\* While no write has failed, what a flush reported as stored is in the file,
\* also when an append switched the buffers before it and after a crash.
THEOREM FlushedIsDurable == Spec => []FlushDurableUnlessFailed
<1>1. ASSUME Inv, ~failed PROVE FlushDurable
  <2>1. BlocksOK(file) /\ flushed <= End(file) /\ flushed \in Nat
    BY <1>1 DEF Inv, BlocksInv, TypeOK
  <2>2. PICK e \in Nat : e = End(file) /\ Written = Run(0, e)
    BY <2>1, WrittenIs DEF BlocksOK
  <2>3. DOMAIN Written = 1 .. e /\ \A i \in 1 .. e : Written[i] = 0 + i
    BY <2>2 DEF Run
  <2>4. ASSUME NEW i \in 1 .. flushed PROVE i \in Range(Written)
    <3>1. i \in 1 .. e /\ 0 + i = i
      BY <2>1, <2>2
    <3> QED
      BY <2>3, <3>1 DEF Range
  <2> QED
    BY <2>4 DEF FlushDurable
<1>2. Inv => FlushDurableUnlessFailed
  BY <1>1 DEF FlushDurableUnlessFailed
<1> QED
  BY <1>2, Invariance, PTL

\* While writes succeed, index_logger_fetch() returns the items from the first
\* on, in order and none skipped, also while the journal grows and after a crash
\* of the writer; a restart that truncates the file disturbs only a reader that
\* had begun to read.
THEOREM ReaderGetsAll == Spec => []FetchedInOrder
<1>1. ASSUME Inv, ~failed, ~reader.stale PROVE ~reader.lost /\ reader.got = UpTo(Len(reader.got))
  <2>1. ~reader.lost /\ reader.got = Run(0, Len(reader.got))
    BY <1>1 DEF Inv, ReaderInv, ReaderOK
  <2>2. Len(reader.got) \in Nat
    BY <1>1 DEF Inv, TypeOK
  <2> QED
    BY <2>1, <2>2, RunType
<1>2. Inv => FetchedInOrder
  BY <1>1 DEF FetchedInOrder
<1> QED
  BY <1>2, Invariance, PTL

=============================================================================
