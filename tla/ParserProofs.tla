---------------------------- MODULE ParserProofs ----------------------------
(***************************************************************************)
(* Proofs about Parser: what strtok_r() and atoi() return, how the tokens  *)
(* that are cut off one after the other are the words of the header, and   *)
(* from both, for headers and keys of any length, what a command that is   *)
(* accepted says.                                                          *)
(***************************************************************************)
EXTENDS Parser, FiniteSetTheorems, SequenceTheorems, NaturalsInduction, WellFoundedInduction, TLAPS

\* What a buffer may hold.
Symbols == {NUL} \cup UNION {Range(h) : h \in Headers}

\* strtok_r() writes a symbol.
LEMMA NulIsSymbol == NUL \in Symbols
  BY DEF Symbols

-----------------------------------------------------------------------------
(* The scanner.                                                            *)

\* Every non-empty set of natural numbers has a least element.
LEMMA LeastNumber ==
    ASSUME NEW S \in SUBSET Nat, S # {}
    PROVE  \E m \in S : \A k \in S : m <= k
<1>1. PICK m \in S : \A k \in S : ~ (<<k, m>> \in OpToRel(<, Nat))
  BY WFMin, NatLessThanWellFounded, Zenon
<1>2. \A k \in S : ~ (k < m)
  BY <1>1, Zenon DEF OpToRel
<1> QED
  BY <1>2

\* SkipSpaces() finds the first position that is not a space.
LEMMA SkipsSpaces ==
    ASSUME NEW S, NEW s \in Seq(S), NEW i \in 1 .. Len(s) + 1
    PROVE  /\ SkipSpaces(s, i) \in i .. Len(s) + 1
           /\ SkipSpaces(s, i) > Len(s) \/ s[SkipSpaces(s, i)] # SP
           /\ \A k \in i .. SkipSpaces(s, i) - 1 : s[k] = SP
<1> DEFINE P(j) == /\ j > Len(s) \/ s[j] # SP
                   /\ \A k \in i .. j - 1 : s[k] = SP
           Q == {j \in i .. Len(s) + 1 : j > Len(s) \/ s[j] # SP}
<1>0. Len(s) \in Nat
  OBVIOUS
<1>1. Len(s) + 1 \in Q /\ Q \in SUBSET Nat
  BY <1>0
<1>2. PICK m \in Q : \A k \in Q : m <= k
  BY <1>1, LeastNumber
<1>3. P(m)
  <2>1. ASSUME NEW k \in i .. m - 1, s[k] # SP PROVE FALSE
    <3>1. k \in Q
      BY <1>0, <1>2, <2>1
    <3> QED
      BY <1>0, <1>2, <2>1, <3>1
  <2> QED
    BY <1>2, <2>1
<1>4. m \in i .. Len(s) + 1
  BY <1>2
<1>5. PICK j : j = SkipSpaces(s, i)
  OBVIOUS
<1>6. j = CHOOSE x \in i .. Len(s) + 1 : P(x)
  BY <1>5 DEF SkipSpaces
<1>7. j \in i .. Len(s) + 1 /\ P(j)
  <2> HIDE DEF P
  <2> QED
    BY <1>3, <1>4, <1>6, Zenon
<1> QED
  BY <1>5, <1>7

\* ... and is the only such position.
LEMMA SkipSpacesIs ==
    ASSUME NEW S, NEW s \in Seq(S), NEW i \in 1 .. Len(s) + 1, NEW j \in i .. Len(s) + 1,
           j > Len(s) \/ s[j] # SP, \A k \in i .. j - 1 : s[k] = SP
    PROVE  SkipSpaces(s, i) = j
<1>1. PICK m \in i .. Len(s) + 1 : m = SkipSpaces(s, i)
  BY SkipsSpaces
<1>2. /\ m > Len(s) \/ s[m] # SP
      /\ \A k \in i .. m - 1 : s[k] = SP
  BY <1>1, SkipsSpaces
<1>3. ~(m < j)
  BY <1>2
<1>4. ~(j < m)
  BY <1>2
<1> QED
  BY <1>1, <1>3, <1>4

\* NextSpace() finds the first space.
LEMMA FindsSpace ==
    ASSUME NEW S, NEW s \in Seq(S), NEW i \in 1 .. Len(s) + 1
    PROVE  /\ NextSpace(s, i) \in i .. Len(s) + 1
           /\ NextSpace(s, i) > Len(s) \/ s[NextSpace(s, i)] = SP
           /\ \A k \in i .. NextSpace(s, i) - 1 : s[k] # SP
<1> DEFINE P(j) == /\ j > Len(s) \/ s[j] = SP
                   /\ \A k \in i .. j - 1 : s[k] # SP
           Q == {j \in i .. Len(s) + 1 : j > Len(s) \/ s[j] = SP}
<1>0. Len(s) \in Nat
  OBVIOUS
<1>1. Len(s) + 1 \in Q /\ Q \in SUBSET Nat
  BY <1>0
<1>2. PICK m \in Q : \A k \in Q : m <= k
  BY <1>1, LeastNumber
<1>3. P(m)
  <2>1. ASSUME NEW k \in i .. m - 1, s[k] = SP PROVE FALSE
    <3>1. k \in Q
      BY <1>0, <1>2, <2>1
    <3> QED
      BY <1>0, <1>2, <2>1, <3>1
  <2> QED
    BY <1>2, <2>1
<1>4. m \in i .. Len(s) + 1
  BY <1>2
<1>5. PICK j : j = NextSpace(s, i)
  OBVIOUS
<1>6. j = CHOOSE x \in i .. Len(s) + 1 : P(x)
  BY <1>5 DEF NextSpace
<1>7. j \in i .. Len(s) + 1 /\ P(j)
  <2> HIDE DEF P
  <2> QED
    BY <1>3, <1>4, <1>6, Zenon
<1> QED
  BY <1>5, <1>7

\* ... and there is no other.
LEMMA NextSpaceIs ==
    ASSUME NEW S, NEW s \in Seq(S), NEW i \in 1 .. Len(s) + 1, NEW j \in i .. Len(s) + 1,
           j > Len(s) \/ s[j] = SP, \A k \in i .. j - 1 : s[k] # SP
    PROVE  NextSpace(s, i) = j
<1>1. PICK m \in i .. Len(s) + 1 : m = NextSpace(s, i)
  BY FindsSpace
<1>2. /\ m > Len(s) \/ s[m] = SP
      /\ \A k \in i .. m - 1 : s[k] # SP
  BY <1>1, FindsSpace
<1>3. ~(m < j)
  BY <1>2
<1>4. ~(j < m)
  BY <1>2
<1> QED
  BY <1>1, <1>3, <1>4

\* strtok_r() on s from i on takes the token that starts at from and ends
\* before the space at to.
Cut(S, s, i, from, to) ==
    /\ \A k \in i .. from - 1 : s[k] = SP
    /\ from <= to
    /\ from <= Len(s) => s[from] # SP /\ from < to
    /\ \A k \in from .. to - 1 : s[k] # SP
    /\ to <= Len(s) => s[to] = SP
    /\ Strtok(s, i).found = (from <= Len(s))
    /\ Strtok(s, i).token = SubSeq(s, from, to - 1)
    /\ Strtok(s, i).buf \in Seq(S) /\ Len(Strtok(s, i).buf) = Len(s)
    /\ \A k \in 1 .. Len(s) : Strtok(s, i).buf[k] = IF k = to THEN NUL ELSE s[k]
    /\ Strtok(s, i).saveptr = IF to <= Len(s) THEN to + 1 ELSE to

\* The parts of what strtok_r() returns.
LEMMA StrtokParts ==
    ASSUME NEW S, NEW s \in Seq(S), NUL \in S, NEW i \in 1 .. Len(s) + 1
    PROVE  \E from \in i .. Len(s) + 1, to \in i .. Len(s) + 1 : Cut(S, s, i, from, to)
<1>0. Len(s) \in Nat
  OBVIOUS
<1>1. PICK from \in i .. Len(s) + 1 : from = SkipSpaces(s, i)
  BY SkipsSpaces
<1>2. /\ from > Len(s) \/ s[from] # SP
      /\ \A k \in i .. from - 1 : s[k] = SP
  BY <1>1, SkipsSpaces
<1>3. from \in 1 .. Len(s) + 1
  BY <1>0
<1>4. PICK to \in from .. Len(s) + 1 : to = NextSpace(s, from)
  BY <1>3, FindsSpace
<1>5. /\ to > Len(s) \/ s[to] = SP
      /\ \A k \in from .. to - 1 : s[k] # SP
  BY <1>3, <1>4, FindsSpace
<1>6. from <= Len(s) => from < to
  BY <1>0, <1>2, <1>5
<1>7. /\ Strtok(s, i).found = (from <= Len(s))
      /\ Strtok(s, i).token = SubSeq(s, from, to - 1)
      /\ Strtok(s, i).buf = IF to <= Len(s) THEN [s EXCEPT ![to] = NUL] ELSE s
      /\ Strtok(s, i).saveptr = IF to <= Len(s) THEN to + 1 ELSE to
  BY <1>1, <1>4 DEF Strtok
<1>8. PICK b : b = Strtok(s, i).buf
  OBVIOUS
<1>9. b \in Seq(S) /\ Len(b) = Len(s) /\ \A k \in 1 .. Len(s) : b[k] = IF k = to THEN NUL ELSE s[k]
  <2>1. CASE to <= Len(s)
    <3>1. b = [s EXCEPT ![to] = NUL] /\ to \in 1 .. Len(s)
      BY <1>0, <1>7, <1>8, <2>1
    <3> QED
      BY <3>1
  <2>2. CASE ~(to <= Len(s))
    BY <1>0, <1>7, <1>8, <2>2
  <2> QED
    BY <2>1, <2>2
<1>10. to \in i .. Len(s) + 1
  BY <1>0
<1> QED
  <2> WITNESS from \in i .. Len(s) + 1, to \in i .. Len(s) + 1
  <2> QED
    BY <1>1, <1>2, <1>4, <1>5, <1>6, <1>7, <1>8, <1>9, <1>0 DEF Cut

-----------------------------------------------------------------------------
(* The words of a text.                                                    *)

\* How many words of s start before i.
Before(s, i) == Cardinality({k \in WordStarts(s) : k < i})

\* The words are finitely many.
LEMMA WordsFinite ==
    ASSUME NEW S, NEW s \in Seq(S), NEW i \in Int
    PROVE  /\ IsFiniteSet(WordStarts(s)) /\ Words(s) \in Nat
           /\ IsFiniteSet({k \in WordStarts(s) : k < i}) /\ Before(s, i) \in Nat
           /\ Before(s, i) <= Words(s)
           /\ Before(s, Len(s) + 1) = Words(s)
<1>0. Len(s) \in Nat
  OBVIOUS
<1>1. IsFiniteSet(1 .. Len(s))
  BY <1>0, FS_Interval
<1>2. WordStarts(s) \in SUBSET (1 .. Len(s))
  BY DEF WordStarts
<1>3. IsFiniteSet(WordStarts(s))
  BY <1>1, <1>2, FS_Subset
<1>4. {k \in WordStarts(s) : k < i} \in SUBSET WordStarts(s)
  OBVIOUS
<1>5. IsFiniteSet({k \in WordStarts(s) : k < i}) /\ Before(s, i) <= Words(s)
  BY <1>3, <1>4, FS_Subset DEF Before, Words
<1>6. Words(s) \in Nat /\ Before(s, i) \in Nat
  BY <1>3, <1>5, FS_CardinalityType DEF Before, Words
<1>7. {k \in WordStarts(s) : k < Len(s) + 1} = WordStarts(s)
  BY <1>0, <1>2
<1> QED
  BY <1>3, <1>5, <1>6, <1>7 DEF Before, Words

\* No two words start after the same number of words.
LEMMA OneWordEach ==
    ASSUME NEW S, NEW s \in Seq(S), NEW i \in WordStarts(s), NEW j \in WordStarts(s), i < j
    PROVE  Before(s, i) < Before(s, j)
<1>0. Len(s) \in Nat /\ i \in Int /\ j \in Int
  BY DEF WordStarts
<1> DEFINE A == {k \in WordStarts(s) : k < i}
           B == {k \in WordStarts(s) : k < j}
<1>1. IsFiniteSet(A) /\ IsFiniteSet(B) /\ Before(s, i) \in Nat /\ Before(s, j) \in Nat
  BY <1>0, WordsFinite
<1>2. A \in SUBSET B
  <2> SUFFICES ASSUME NEW k \in WordStarts(s), k < i PROVE k < j
    OBVIOUS
  <2>1. k \in Int
    BY DEF WordStarts
  <2> QED
    BY <1>0, <2>1
<1>3. i \in B /\ i \notin A
  BY <1>0
<1>4. Cardinality(A) <= Cardinality(B) /\ Cardinality(A) # Cardinality(B)
  <2> HIDE DEF A, B
  <2> QED
    BY <1>1, <1>2, <1>3, FS_Subset
<1> QED
  BY <1>1, <1>4 DEF Before

\* The word that starts at i and ends before j.
LEMMA WordIs ==
    ASSUME NEW S, NEW s \in Seq(S), NEW i \in WordStarts(s), NEW j \in i .. Len(s),
           \A k \in i .. j : s[k] # SP, j = Len(s) \/ s[j + 1] = SP
    PROVE  Word(s, Before(s, i) + 1) = SubSeq(s, i, j)
<1>0. Len(s) \in Nat /\ i \in Int /\ i \in 1 .. Len(s) /\ j \in 1 .. Len(s) /\ i <= j
  BY DEF WordStarts
<1>1. Before(s, i) \in Nat
  BY <1>0, WordsFinite
<1>2. PICK n \in Nat : n = Before(s, i) + 1
  BY <1>1
<1> DEFINE P(x) == Cardinality({k \in WordStarts(s) : k < x}) = n - 1
           Q(y) == WordAt(s, i, y)
<1>3. PICK x : x = CHOOSE z \in WordStarts(s) : P(z)
  OBVIOUS
<1>4. P(i)
  BY <1>1, <1>2 DEF Before
<1>5. x \in WordStarts(s) /\ P(x)
  <2> HIDE DEF P
  <2> QED
    BY <1>3, <1>4, Zenon
<1>6. x = i
  <2>1. Before(s, x) = Before(s, i) /\ x \in Int /\ i \in Int
    BY <1>1, <1>2, <1>5 DEF Before, WordStarts
  <2>2. ~(x < i)
    BY <1>1, <1>5, <2>1, OneWordEach
  <2>3. ~(i < x)
    BY <1>1, <1>5, <2>1, OneWordEach
  <2> QED
    BY <2>1, <2>2, <2>3
<1>7. PICK y : y = CHOOSE z \in i .. Len(s) : Q(z)
  OBVIOUS
<1>8. Q(j)
  BY DEF WordAt, WordStarts
<1>9. y \in i .. Len(s) /\ Q(y)
  <2> HIDE DEF Q
  <2> QED
    BY <1>7, <1>8, Zenon
<1>10. y = j
  <2>1. /\ \A k \in i .. y : s[k] # SP
        /\ y = Len(s) \/ s[y + 1] = SP
    BY <1>9 DEF WordAt
  <2>2. ~(y < j)
    <3> SUFFICES ASSUME y < j PROVE FALSE
      OBVIOUS
    <3>1. y + 1 \in i .. j /\ y # Len(s)
      BY <1>0, <1>9
    <3> QED
      BY <2>1, <3>1
  <2>3. ~(j < y)
    <3> SUFFICES ASSUME j < y PROVE FALSE
      OBVIOUS
    <3>1. j + 1 \in i .. y /\ j # Len(s)
      BY <1>0, <1>9
    <3> QED
      BY <2>1, <3>1
  <2> QED
    BY <1>0, <1>9, <2>2, <2>3
<1>11. Word(s, n) =
         SubSeq(s, CHOOSE z \in WordStarts(s) : P(z),
                CHOOSE v \in (CHOOSE z \in WordStarts(s) : P(z)) .. Len(s) :
                    WordAt(s, CHOOSE z \in WordStarts(s) : P(z), v))
  BY Zenon DEF Word
<1>12. Word(s, n) = SubSeq(s, i, CHOOSE v \in i .. Len(s) : Q(v))
  BY <1>3, <1>6, <1>11, Zenon
<1> QED
  BY <1>2, <1>7, <1>10, <1>12, Zenon

\* Equal parts of two sequences.
LEMMA SamePart ==
    ASSUME NEW S, NEW s \in Seq(S), NEW t \in Seq(S), NEW a \in 1 .. Len(s) + 1, NEW b \in Int,
           b <= Len(s), b <= Len(t), a <= b + 1, \A k \in a .. b : s[k] = t[k]
    PROVE  SubSeq(s, a, b) = SubSeq(t, a, b)
<1>0. Len(s) \in Nat /\ Len(t) \in Nat
  OBVIOUS
<1>1. (\A k \in a .. b : s[k] \in S /\ t[k] \in S) /\ a \in Int
  BY <1>0
<1>2. PICK u \in Seq(S), v \in Seq(S) :
        /\ u = SubSeq(s, a, b) /\ v = SubSeq(t, a, b)
        /\ Len(u) = b - a + 1 /\ Len(v) = b - a + 1
        /\ \A k \in 1 .. b - a + 1 : u[k] = s[a + k - 1] /\ v[k] = t[a + k - 1]
  <2>1. /\ SubSeq(s, a, b) \in Seq(S) /\ Len(SubSeq(s, a, b)) = IF a <= b THEN b - a + 1 ELSE 0
        /\ \A k \in 1 .. b - a + 1 : SubSeq(s, a, b)[k] = s[a + k - 1]
    BY <1>1, SubSeqProperties
  <2>2. /\ SubSeq(t, a, b) \in Seq(S) /\ Len(SubSeq(t, a, b)) = IF a <= b THEN b - a + 1 ELSE 0
        /\ \A k \in 1 .. b - a + 1 : SubSeq(t, a, b)[k] = t[a + k - 1]
    BY <1>1, SubSeqProperties
  <2>3. (IF a <= b THEN b - a + 1 ELSE 0) = b - a + 1
    BY <1>1
  <2>4. /\ Len(SubSeq(s, a, b)) = b - a + 1 /\ Len(SubSeq(t, a, b)) = b - a + 1
        /\ \A k \in 1 .. b - a + 1 :
             SubSeq(s, a, b)[k] = s[a + k - 1] /\ SubSeq(t, a, b)[k] = t[a + k - 1]
    BY <2>1, <2>2, <2>3, Zenon
  <2> QED
    BY <2>1, <2>2, <2>4, Zenon
<1>3. \A k \in 1 .. b - a + 1 : a + k - 1 \in a .. b
  BY <1>0
<1>4. Len(u) = Len(v) /\ \A k \in 1 .. Len(u) : u[k] = v[k]
  BY <1>2, <1>3
<1>5. u = v
  BY <1>4, SeqEqual
<1> QED
  BY <1>2, <1>5

\* A token is the next word: strtok_r() on a buffer that holds the text t from
\* i on, where a word may start.
LEMMA TokenIsWord ==
    ASSUME NEW S, NEW s \in Seq(S), NEW t \in Seq(S), NUL \in S, Len(s) = Len(t),
           NEW i \in 1 .. Len(t) + 1, \A k \in i .. Len(t) : s[k] = t[k],
           i = 1 \/ i > Len(t) \/ t[i - 1] = SP
    PROVE  LET r == Strtok(s, i) IN
           /\ r.buf \in Seq(S) /\ Len(r.buf) = Len(t)
           /\ r.saveptr \in i .. Len(t) + 1
           /\ \A k \in r.saveptr .. Len(t) : r.buf[k] = t[k]
           /\ r.saveptr > Len(t) \/ t[r.saveptr - 1] = SP
           /\ r.found \in BOOLEAN
           /\ r.found => /\ r.token = Word(t, Before(t, i) + 1)
                         /\ r.token \in Seq(S)
                         /\ Before(t, r.saveptr) = Before(t, i) + 1
           /\ ~r.found => Words(t) = Before(t, i) /\ \A k \in i .. Len(t) : t[k] = SP
<1>0. Len(t) \in Nat /\ i \in Int
  OBVIOUS
<1>a. i \in 1 .. Len(s) + 1
  OBVIOUS
<1>b. PICK from \in i .. Len(s) + 1, to \in i .. Len(s) + 1 : Cut(S, s, i, from, to)
  BY <1>a, StrtokParts
<1>1. /\ \A k \in i .. from - 1 : s[k] = SP
      /\ from <= to
      /\ from <= Len(s) => s[from] # SP /\ from < to
      /\ \A k \in from .. to - 1 : s[k] # SP
      /\ to <= Len(s) => s[to] = SP
      /\ Strtok(s, i).found = (from <= Len(s))
      /\ Strtok(s, i).token = SubSeq(s, from, to - 1)
      /\ Strtok(s, i).buf \in Seq(S) /\ Len(Strtok(s, i).buf) = Len(s)
      /\ \A k \in 1 .. Len(s) : Strtok(s, i).buf[k] = IF k = to THEN NUL ELSE s[k]
      /\ Strtok(s, i).saveptr = IF to <= Len(s) THEN to + 1 ELSE to
  BY <1>b DEF Cut
<1>2. PICK p \in i .. Len(t) + 1 : p = Strtok(s, i).saveptr /\ to <= p /\ p <= to + 1
  BY <1>0, <1>1
<1>3. \A k \in p .. Len(t) : Strtok(s, i).buf[k] = t[k]
  BY <1>0, <1>1, <1>2
<1>4. p > Len(t) \/ t[p - 1] = SP
  BY <1>0, <1>1, <1>2
<1>5. \A k \in i .. from - 1 : t[k] = SP
  BY <1>0, <1>1
<1>6. {k \in WordStarts(t) : k < from} = {k \in WordStarts(t) : k < i}
  <2>1. ASSUME NEW k \in WordStarts(t) PROVE k < from <=> k < i
    <3>1. k \in 1 .. Len(t) /\ t[k] # SP
      BY DEF WordStarts
    <3>2. ~(k \in i .. from - 1)
      BY <1>5, <3>1
    <3> QED
      BY <1>0, <3>1, <3>2
  <2> QED
    BY <2>1
<1>7. Before(t, from) = Before(t, i)
  BY <1>6 DEF Before
<1>10. LET r == Strtok(s, i) IN
       /\ r.buf \in Seq(S) /\ Len(r.buf) = Len(t)
       /\ r.saveptr \in i .. Len(t) + 1
       /\ \A k \in r.saveptr .. Len(t) : r.buf[k] = t[k]
       /\ r.saveptr > Len(t) \/ t[r.saveptr - 1] = SP
  BY <1>1, <1>2, <1>3, <1>4
<1>8. CASE from <= Len(t)
  <2>1. from \in WordStarts(t) /\ from \in 1 .. Len(t) /\ t[from] # SP
    <3>1. from \in 1 .. Len(t) /\ t[from] # SP
      BY <1>0, <1>1, <1>8
    <3>2. CASE from = i
      BY <1>0, <1>8, <3>1, <3>2 DEF WordStarts
    <3>3. CASE from # i
      <4>1. from - 1 \in i .. from - 1
        BY <1>0, <3>3
      <4>2. t[from - 1] = SP
        BY <1>5, <4>1
      <4> QED
        BY <3>1, <4>2 DEF WordStarts
    <3> QED
      BY <3>2, <3>3
  <2>2. to - 1 \in from .. Len(t) /\ \A k \in from .. to - 1 : t[k] # SP
    <3>1. to - 1 \in from .. Len(t)
      BY <1>0, <1>1, <1>8, SMTT(40)
    <3>2. \A k \in from .. to - 1 : k \in i .. Len(t)
      BY <1>0, <3>1
    <3> QED
      BY <1>1, <3>1, <3>2
  <2>3. to - 1 = Len(t) \/ t[(to - 1) + 1] = SP
    BY <1>0, <1>1
  <2>4. Word(t, Before(t, from) + 1) = SubSeq(t, from, to - 1)
    <3> DEFINE j == to - 1
    <3>1. j \in from .. Len(t) /\ (\A k \in from .. j : t[k] # SP) /\ (j = Len(t) \/ t[j + 1] = SP)
      BY <2>2, <2>3
    <3> HIDE DEF j
    <3>2. Word(t, Before(t, from) + 1) = SubSeq(t, from, j)
      BY <2>1, <3>1, WordIs
    <3> QED
      BY <3>2 DEF j
  <2>5. SubSeq(s, from, to - 1) = SubSeq(t, from, to - 1)
    <3> DEFINE j == to - 1
    <3>1. /\ from \in 1 .. Len(s) + 1 /\ j \in Int /\ j <= Len(s) /\ j <= Len(t) /\ from <= j + 1
          /\ \A k \in from .. j : s[k] = t[k]
      BY <1>0, <1>1, <2>1, <2>2
    <3> HIDE DEF j
    <3>2. SubSeq(s, from, j) = SubSeq(t, from, j)
      BY <3>1, SamePart
    <3> QED
      BY <3>2 DEF j
  <2>6. SubSeq(t, from, to - 1) \in Seq(S)
    BY <1>0, <2>1, <2>2
  <2>7. {k \in WordStarts(t) : k < p} = {k \in WordStarts(t) : k < from} \cup {from}
    <3>1. ASSUME NEW k \in WordStarts(t) PROVE k < p <=> k < from \/ k = from
      <4>1. k \in 1 .. Len(t) /\ t[k] # SP /\ (k = 1 \/ t[k - 1] = SP)
        BY DEF WordStarts
      <4>2. ASSUME from < k, k < to PROVE FALSE
        <5>1. k - 1 \in from .. to - 1 /\ k # 1
          BY <1>0, <2>1, <4>1, <4>2
        <5> QED
          BY <2>2, <4>1, <5>1
      <4>3. k # to
        BY <1>0, <1>1, <4>1
      <4> QED
        BY <1>0, <1>1, <1>2, <1>8, <2>1, <4>1, <4>2, <4>3
    <3> QED
      BY <2>1, <3>1
  <2>8. Before(t, p) = Before(t, from) + 1
    <3>1. IsFiniteSet({k \in WordStarts(t) : k < from}) /\ from \notin {k \in WordStarts(t) : k < from}
      BY <1>0, <2>1, WordsFinite
    <3>2. Cardinality({k \in WordStarts(t) : k < from} \cup {from}) = Cardinality({k \in WordStarts(t) : k < from}) + 1
      BY <3>1, FS_AddElement
    <3> QED
      BY <2>7, <3>2 DEF Before
  <2>9. /\ Strtok(s, i).found = TRUE
        /\ Strtok(s, i).token = Word(t, Before(t, i) + 1)
        /\ Strtok(s, i).token \in Seq(S)
        /\ Before(t, Strtok(s, i).saveptr) = Before(t, i) + 1
    BY <1>1, <1>2, <1>7, <1>8, <2>4, <2>5, <2>6, <2>8
  <2> QED
    BY <1>10, <2>9, Zenon
<1>9. CASE ~(from <= Len(t))
  <2>1. from = Len(t) + 1
    BY <1>0, <1>9
  <2>2. Words(t) = Before(t, i)
    BY <1>0, <1>7, <2>1, WordsFinite
  <2>3. \A k \in i .. Len(t) : t[k] = SP
    BY <1>0, <1>5, <2>1
  <2>4. Strtok(s, i).found = FALSE
    <3>1. (from <= Len(s)) = FALSE
      BY <1>9
    <3> QED
      BY <1>1, <3>1, Zenon
  <2> QED
    BY <1>10, <2>2, <2>3, <2>4, Zenon
<1> QED
  BY <1>8, <1>9, Zenon

-----------------------------------------------------------------------------
(* Numbers and keys.                                                       *)

\* A token starts with some number of digits.
LEMMA DigitsLead ==
    ASSUME NEW S, NEW t \in Seq(S)
    PROVE  LeadingDigits(t) \in 0 .. Len(t) /\ \A i \in 1 .. LeadingDigits(t) : t[i] \in Digits
<1> DEFINE P(n) == /\ \A i \in 1 .. n : t[i] \in Digits
                   /\ n < Len(t) => t[n + 1] \notin Digits
           Q == {n \in 0 .. Len(t) : n < Len(t) => t[n + 1] \notin Digits}
<1>0. Len(t) \in Nat
  OBVIOUS
<1>1. Len(t) \in Q /\ Q \in SUBSET Nat
  BY <1>0
<1>2. PICK m \in Q : \A k \in Q : m <= k
  BY <1>1, LeastNumber
<1>3. P(m)
  <2>1. ASSUME NEW k \in 1 .. m, t[k] \notin Digits PROVE FALSE
    <3>1. k - 1 \in Q
      BY <1>0, <1>2, <2>1
    <3>2. m <= k - 1
      BY <1>2, <3>1
    <3> QED
      BY <1>0, <1>2, <2>1, <3>2
  <2> QED
    BY <1>2, <2>1
<1>4. m \in 0 .. Len(t)
  BY <1>2
<1>5. PICK n : n = LeadingDigits(t)
  OBVIOUS
<1>6. n = CHOOSE x \in 0 .. Len(t) : P(x)
  BY <1>5 DEF LeadingDigits
<1>7. n \in 0 .. Len(t) /\ P(n)
  <2> HIDE DEF P
  <2> QED
    BY <1>3, <1>4, <1>6, Zenon
<1> QED
  BY <1>5, <1>7

\* The sums that atoi() forms exist, digit by digit.
LEMMA NumberExists ==
    ASSUME NEW m \in Nat, NEW d \in [1 .. m -> Nat]
    PROVE  \E f \in [0 .. m -> Nat] : \A n \in 0 .. m : f[n] = IF n = 0 THEN 0 ELSE 10 * f[n - 1] + d[n]
<1> DEFINE Num(f, k) == \A n \in 0 .. k : f[n] = IF n = 0 THEN 0 ELSE 10 * f[n - 1] + d[n]
           Ex(k) == \E f \in [0 .. k -> Nat] : Num(f, k)
           S == {k \in 0 .. m : ~Ex(k)}
<1>1. SUFFICES ASSUME S # {} PROVE FALSE
  <2>1. m \in 0 .. m
    OBVIOUS
  <2>2. S = {} => Ex(m)
    <3> HIDE DEF Ex
    <3> QED
      BY <2>1
  <2> QED
    BY <2>2, Zenon
<1>2. S \in SUBSET Nat
  OBVIOUS
<1> HIDE DEF S
<1>3. PICK k \in S : \A j \in S : k <= j
  BY <1>1, <1>2, LeastNumber
<1>4. k \in 0 .. m /\ ~Ex(k)
  BY <1>3 DEF S
<1>5. Ex(0)
  <2> DEFINE g == [n \in 0 .. 0 |-> 0]
  <2>1. g \in [0 .. 0 -> Nat] /\ Num(g, 0)
    OBVIOUS
  <2> QED
    BY <2>1
<1>6. k # 0
  BY <1>4, <1>5
<1>7. k - 1 \in 0 .. m /\ ~(k <= k - 1)
  BY <1>4, <1>6
<1>8. Ex(k - 1)
  <2> HIDE DEF Ex
  <2> QED
    BY <1>3, <1>7 DEF S
<1>9. PICK f \in [0 .. k - 1 -> Nat] : Num(f, k - 1)
  BY <1>8
<1>10. PICK y \in Nat : y = 10 * f[k - 1] + d[k]
  <2>1. f[k - 1] \in Nat /\ d[k] \in Nat
    BY <1>4, <1>6, <1>7
  <2> QED
    BY <2>1
<1>11. PICK g \in [0 .. k -> Nat] : g = [n \in 0 .. k |-> IF n = k THEN y ELSE f[n]]
  <2>1. \A n \in 0 .. k : (IF n = k THEN y ELSE f[n]) \in Nat
    BY <1>4
  <2> QED
    BY <2>1
<1>12. Num(g, k)
  <2> SUFFICES ASSUME NEW n \in 0 .. k PROVE g[n] = IF n = 0 THEN 0 ELSE 10 * g[n - 1] + d[n]
    OBVIOUS
  <2>1. CASE n = k
    BY <1>4, <1>6, <1>10, <1>11, <2>1
  <2>2. CASE n # k
    <3>1. n \in 0 .. k - 1 /\ g[n] = f[n] /\ (n # 0 => g[n - 1] = f[n - 1])
      BY <1>4, <1>6, <1>11, <2>2
    <3> QED
      BY <1>9, <3>1
  <2> QED
    BY <2>1, <2>2
<1> QED
  BY <1>4, <1>12

\* atoi() gives a number.
LEMMA AtoiNat ==
    ASSUME NEW S, NEW t \in Seq(S)
    PROVE  atoi(t) \in Nat
<1>1. PICK m \in Nat : m = LeadingDigits(t) /\ \A n \in 1 .. m : t[n] \in Digits
  <2>1. LeadingDigits(t) \in Nat
    BY DigitsLead
  <2> QED
    BY <2>1, DigitsLead
<1>2. PICK d \in [1 .. m -> Nat] : d = [n \in 1 .. m |-> Digit[t[n]]]
  <2>1. \A n \in 1 .. m : Digit[t[n]] \in Nat
    BY <1>1, ParserAssumption
  <2> QED
    BY <2>1
<1>3. PICK f \in [0 .. m -> Nat] : \A n \in 0 .. m : f[n] = IF n = 0 THEN 0 ELSE 10 * f[n - 1] + d[n]
  BY NumberExists
<1> DEFINE Rec(g) == g = [n \in 0 .. m |-> IF n = 0 THEN 0 ELSE 10 * g[n - 1] + Digit[t[n]]]
<1>4. Rec(f)
  <2>1. \A n \in 0 .. m : f[n] = IF n = 0 THEN 0 ELSE 10 * f[n - 1] + Digit[t[n]]
    BY <1>2, <1>3, SMTT(40)
  <2> QED
    BY <2>1
<1>5. PICK g : g = CHOOSE h : Rec(h)
  OBVIOUS
<1>6. Rec(g)
  <2> HIDE DEF Rec
  <2> QED
    BY <1>4, <1>5, Zenon
<1>7. atoi(t) = g[m]
  <2>1. atoi(t) = (CHOOSE h : h = [n \in 0 .. LeadingDigits(t) |-> IF n = 0 THEN 0 ELSE 10 * h[n - 1] + Digit[t[n]]])[LeadingDigits(t)]
    BY Zenon DEF atoi
  <2> QED
    BY <1>1, <1>5, <2>1, Zenon
<1>8. \A n \in 0 .. m : g[n] = IF n = 0 THEN 0 ELSE 10 * g[n - 1] + d[n]
  BY <1>2, <1>6
<1> DEFINE Q == {n \in 0 .. m : g[n] \notin Nat}
<1>9. Q = {}
  <2>1. SUFFICES ASSUME Q # {} PROVE FALSE
    OBVIOUS
  <2>2. Q \in SUBSET Nat
    OBVIOUS
  <2>3. PICK n \in Q : \A k \in Q : n <= k
    BY <2>1, <2>2, LeastNumber
  <2>4. n # 0
    BY <1>8, <2>3
  <2>5. n - 1 \in 0 .. m /\ n - 1 \notin Q /\ n \in 1 .. m
    <3>1. n \in 1 .. m
      BY <2>3, <2>4
    <3>2. ~(n <= n - 1)
      BY <3>1
    <3> QED
      BY <2>3, <3>1, <3>2
  <2>6. PICK x \in Nat, y \in Nat : x = g[n - 1] /\ y = d[n]
    BY <2>5
  <2>7. g[n] = 10 * x + y
    BY <1>8, <2>3, <2>4, <2>6
  <2>8. 10 * x + y \in Nat
    OBVIOUS
  <2> QED
    BY <2>3, <2>7, <2>8
<1> QED
  BY <1>7, <1>9

\* A key that is copied fits, and keeps its symbols; one that fits is kept.
LEMMA CopyKeyFits ==
    ASSUME NEW S, NEW s \in Seq(S)
    PROVE  /\ CopyKey(s) \in Seq(S) /\ Len(CopyKey(s)) < MAX_KEY_SIZE
           /\ Len(s) < MAX_KEY_SIZE => CopyKey(s) = s
           /\ Len(CopyKey(s)) <= 1 => CopyKey(s) = s
<1>0. Len(s) \in Nat /\ MAX_KEY_SIZE \in Nat /\ MAX_KEY_SIZE > 2
  BY ParserAssumption
<1> DEFINE A == {Len(s), MAX_KEY_SIZE - 1}
           m == IF Len(s) <= MAX_KEY_SIZE - 1 THEN Len(s) ELSE MAX_KEY_SIZE - 1
<1>1. Min(A) = m
  <2>1. m \in A /\ \A y \in A : m <= y
    BY <1>0
  <2>2. \A x \in A : (\A y \in A : x <= y) => x = m
    BY <1>0
  <2>3. PICK x : x = CHOOSE z \in A : \A y \in A : z <= y
    OBVIOUS
  <2>4. x \in A /\ \A y \in A : x <= y
    <3> HIDE DEF A, m
    <3> QED
      BY <2>1, <2>3, Zenon
  <2> QED
    BY <2>2, <2>3, <2>4 DEF Min
<1>2. CopyKey(s) = SubSeq(s, 1, m)
  BY <1>1, Zenon DEF CopyKey
<1>3. m \in 0 .. Len(s) /\ m < MAX_KEY_SIZE
  BY <1>0
<1>4. SubSeq(s, 1, m) \in Seq(S) /\ Len(SubSeq(s, 1, m)) = m
  BY <1>0, <1>3
<1>5. ASSUME m = Len(s) PROVE SubSeq(s, 1, m) = s
  BY <1>5, SubSeqFull
<1>6. Len(s) < MAX_KEY_SIZE => m = Len(s)
  BY <1>0
<1>7. m <= 1 => m = Len(s)
  BY <1>0
<1> QED
  BY <1>2, <1>3, <1>4, <1>5, <1>6, <1>7

-----------------------------------------------------------------------------
(* The header and its copy.                                                *)

\* A header ends with its only CR LF; the copy lacks the last byte of one that
\* fills the buffer.
LEMMA HeaderFacts ==
    ASSUME line \in Headers
    PROVE  /\ line \in Seq(Symbols) /\ Len(line) \in 2 .. MAX_QUERY_HEADER_SIZE
           /\ line[Len(line) - 1] = CR /\ line[Len(line)] = LF
           /\ \A i \in 1 .. Len(line) - 2 : ~(line[i] = CR /\ line[i + 1] = LF)
           /\ Copied \in Seq(Symbols)
           /\ Len(Copied) = IF Len(line) = MAX_QUERY_HEADER_SIZE THEN Len(line) - 1 ELSE Len(line)
           /\ \A k \in 1 .. Len(Copied) : Copied[k] = line[k]
           /\ Text \in Seq(Symbols) /\ Len(Text) = Len(line) - 2
           /\ \A k \in 1 .. Len(line) - 2 : Text[k] = line[k]
<1>1. line \in Seq(Range(line)) /\ Len(line) \in 2 .. MAX_QUERY_HEADER_SIZE
  BY ParserAssumption
<1>2. Range(line) \subseteq Symbols
  BY DEF Symbols
<1>3. line \in Seq(Symbols)
  BY <1>1, <1>2
<1>4. Len(line) - 1 \in 1 .. Len(line) - 1 /\ (Len(line) - 1) + 1 = Len(line)
  BY <1>1, ParserAssumption
<1>5. \A i \in 1 .. Len(line) - 1 : (line[i] = CR /\ line[i + 1] = LF) <=> i = Len(line) - 1
  BY ParserAssumption
<1>6. line[Len(line) - 1] = CR /\ line[Len(line)] = LF
  BY <1>4, <1>5
<1>7. \A i \in 1 .. Len(line) - 2 : i \in 1 .. Len(line) - 1 /\ i # Len(line) - 1
  BY <1>1, ParserAssumption
<1>8. \A k \in 1 .. Len(line) : line[k] \in Symbols
  BY <1>3
<1>9. /\ SubSeq(line, 1, Len(line) - 1) \in Seq(Symbols)
      /\ Len(SubSeq(line, 1, Len(line) - 1)) = Len(line) - 1
      /\ \A k \in 1 .. Len(line) - 1 : SubSeq(line, 1, Len(line) - 1)[k] = line[k]
  <2>1. \A k \in 1 .. Len(line) - 1 : line[k] \in Symbols
    BY <1>1, <1>8
  <2> QED
    BY <1>1, <2>1, SubSeqProperties, ParserAssumption
<1>10. /\ SubSeq(line, 1, Len(line) - 2) \in Seq(Symbols)
       /\ Len(SubSeq(line, 1, Len(line) - 2)) = Len(line) - 2
       /\ \A k \in 1 .. Len(line) - 2 : SubSeq(line, 1, Len(line) - 2)[k] = line[k]
  <2>1. \A k \in 1 .. Len(line) - 2 : line[k] \in Symbols
    BY <1>1, <1>8
  <2>2. PICK m \in Nat : m = Len(line) - 2
    <3>1. Len(line) - 2 \in Nat
      BY <1>1, ParserAssumption
    <3> QED
      BY <3>1
  <2>3. \A k \in 1 .. m : line[k] \in Symbols
    BY <2>1, <2>2
  <2>4. /\ SubSeq(line, 1, m) \in Seq(Symbols)
        /\ Len(SubSeq(line, 1, m)) = IF 1 <= m THEN m - 1 + 1 ELSE 0
        /\ \A k \in 1 .. m - 1 + 1 : SubSeq(line, 1, m)[k] = line[1 + k - 1]
    BY <2>3, SubSeqProperties
  <2>5. Len(SubSeq(line, 1, m)) = m /\ \A k \in 1 .. m : SubSeq(line, 1, m)[k] = line[k]
    BY <2>4
  <2> QED
    BY <2>2, <2>4, <2>5
<1>11. /\ Copied \in Seq(Symbols)
       /\ Len(Copied) = IF Len(line) = MAX_QUERY_HEADER_SIZE THEN Len(line) - 1 ELSE Len(line)
       /\ \A k \in 1 .. Len(Copied) : Copied[k] = line[k]
  <2>1. CASE Len(line) = MAX_QUERY_HEADER_SIZE
    BY <1>9, <2>1 DEF Copied
  <2>2. CASE Len(line) # MAX_QUERY_HEADER_SIZE
    BY <1>3, <2>2 DEF Copied
  <2> QED
    BY <2>1, <2>2
<1> QED
  BY <1>1, <1>3, <1>5, <1>6, <1>7, <1>10, <1>11 DEF Text

\* The protocol's words.
LEMMA CommandWords ==
    /\ Commands = {"get", "set", "delete", "sync", "power"}
    /\ Range(CommandState) = {"s_get", "s_set", "s_delete", "s_sync", "s_power"}
    /\ \A c \in Commands : CommandState[c] \in Range(CommandState)
    /\ \A c, d \in Commands : CommandState[c] = CommandState[d] => c = d
    /\ CommandState["set"] = "s_set"
<1>1. Commands = {"get", "set", "delete", "sync", "power"}
  BY DEF Commands, CommandState
<1>2. /\ CommandState["get"] = "s_get" /\ CommandState["set"] = "s_set" /\ CommandState["delete"] = "s_delete"
      /\ CommandState["sync"] = "s_sync" /\ CommandState["power"] = "s_power"
  BY DEF CommandState
<1>3. Range(CommandState) = {CommandState[c] : c \in Commands}
  BY DEF Range, Commands
<1>4. {CommandState[c] : c \in Commands} = {"s_get", "s_set", "s_delete", "s_sync", "s_power"}
  BY <1>1, <1>2
<1> QED
  BY <1>1, <1>2, <1>3, <1>4

\* A header whose first token is a command word: the copy ends with the CR LF
\* exactly when the header did not fill the buffer, and then a space follows
\* the command, and the rest of the header is in the buffer from saveptr on.
LEMMA FirstWord ==
    ASSUME line \in Headers, NEW c \in Commands, NEW b \in Seq(Symbols), NEW p \in Int,
           b = Strtok(Copied, 1).buf, p = Strtok(Copied, 1).saveptr,
           Strtok(Copied, 1).found, Strtok(Copied, 1).token = <<c>>
    PROVE  /\ EndsLine(b) <=> Len(line) < MAX_QUERY_HEADER_SIZE
           /\ EndsLine(b) => /\ Len(b) = Len(line)
                             /\ p \in 2 .. Len(line) - 1
                             /\ Text[p - 1] = SP
                             /\ \A k \in p .. Len(line) : b[k] = line[k]
                             /\ Word(Text, 1) = <<c>>
                             /\ Before(Text, p) = 1
<1> DEFINE n == Len(line)
<1>0. /\ line \in Seq(Symbols) /\ n \in 2 .. MAX_QUERY_HEADER_SIZE /\ MAX_QUERY_HEADER_SIZE \in Nat
      /\ line[n - 1] = CR /\ line[n] = LF
      /\ \A i \in 1 .. n - 2 : ~(line[i] = CR /\ line[i + 1] = LF)
      /\ Copied \in Seq(Symbols)
      /\ Len(Copied) = IF n = MAX_QUERY_HEADER_SIZE THEN n - 1 ELSE n
      /\ \A k \in 1 .. Len(Copied) : Copied[k] = line[k]
      /\ Text \in Seq(Symbols) /\ Len(Text) = n - 2
      /\ \A k \in 1 .. n - 2 : Text[k] = line[k]
  BY HeaderFacts, ParserAssumption
<1> HIDE DEF n
<1>1. PICK s \in Seq(Symbols) : s = Copied
  BY <1>0
<1>2. 1 \in 1 .. Len(s) + 1 /\ NUL \in Symbols
  <2>1. NUL \in Symbols
    BY NulIsSymbol
  <2> QED
    BY <2>1
<1>3. PICK from \in 1 .. Len(s) + 1, to \in 1 .. Len(s) + 1 : Cut(Symbols, s, 1, from, to)
  BY <1>2, StrtokParts
<1>4. /\ \A k \in 1 .. from - 1 : s[k] = SP
      /\ from <= Len(s) /\ from < to
      /\ to <= Len(s) => s[to] = SP
      /\ Len(b) = Len(s)
      /\ \A k \in 1 .. Len(s) : b[k] = IF k = to THEN NUL ELSE s[k]
      /\ p = IF to <= Len(s) THEN to + 1 ELSE to
      /\ SubSeq(s, from, to - 1) = <<c>>
  BY <1>1, <1>3 DEF Cut
<1>5. to = from + 1 /\ s[from] = c
  <2>1. \A k \in from .. to - 1 : s[k] \in Symbols
    BY <1>3, <1>4
  <2>2. /\ Len(SubSeq(s, from, to - 1)) = IF from <= to - 1 THEN (to - 1) - from + 1 ELSE 0
        /\ \A k \in 1 .. (to - 1) - from + 1 : SubSeq(s, from, to - 1)[k] = s[from + k - 1]
    BY <1>3, <2>1, SubSeqProperties
  <2>3. Len(<<c>>) = 1 /\ <<c>>[1] = c
    OBVIOUS
  <2>4. to = from + 1
    <3>1. (IF from <= to - 1 THEN (to - 1) - from + 1 ELSE 0) = 1
      BY <1>4, <2>2, <2>3, Zenon
    <3> QED
      BY <1>3, <1>4, <3>1
  <2>5. 1 \in 1 .. (to - 1) - from + 1 /\ from + 1 - 1 = from
    BY <1>3, <2>4
  <2> QED
    BY <1>4, <2>2, <2>3, <2>4, <2>5
<1>6. c # CR /\ c # LF /\ SP # CR /\ SP # LF /\ NUL # CR /\ NUL # LF /\ SP # NUL
  BY ParserAssumption
<1>7. Len(s) \in Nat /\ Len(s) >= 1 /\ \A k \in 1 .. Len(s) : s[k] = line[k]
  BY <1>0, <1>1
<1>8. CASE n = MAX_QUERY_HEADER_SIZE
  <2>1. Len(s) = n - 1
    BY <1>0, <1>1, <1>8
  <2>2. ASSUME EndsLine(b) PROVE FALSE
    <3>1. n - 1 >= 2 /\ b[n - 2] = CR /\ b[n - 1] = LF
      BY <1>0, <1>4, <2>1, <2>2 DEF EndsLine
    <3>2. n - 2 \in 1 .. n - 2 /\ n - 2 \in 1 .. Len(s) /\ n - 1 \in 1 .. Len(s) /\ (n - 2) + 1 = n - 1
      BY <1>0, <2>1, <3>1
    <3>3. s[n - 2] = CR /\ s[n - 1] = LF
      BY <1>4, <1>6, <3>1, <3>2
    <3> QED
      BY <1>0, <1>7, <3>2, <3>3
  <2> QED
    BY <1>8, <2>2, <1>0 DEF n
<1>9. CASE n # MAX_QUERY_HEADER_SIZE
  <2>1. Len(s) = n /\ n < MAX_QUERY_HEADER_SIZE
    BY <1>0, <1>1, <1>9
  <2>2. from # n /\ from # n - 1
    BY <1>0, <1>3, <1>5, <1>6, <1>7, <2>1
  <2>3. to <= n - 1 /\ to # n - 1
    BY <1>0, <1>3, <1>4, <1>5, <1>6, <1>7, <2>1, <2>2
  <2>4. to \in 2 .. n - 2 /\ p = to + 1 /\ s[to] = SP /\ from \in 1 .. n - 3
    BY <1>0, <1>3, <1>4, <1>5, <2>1, <2>3
  <2>5. EndsLine(b)
    <3>1. n - 1 \in 1 .. Len(s) /\ n \in 1 .. Len(s) /\ n - 1 # to /\ n # to /\ n >= 2
      BY <1>0, <2>1, <2>4
    <3>2. b[n - 1] = CR /\ b[n] = LF
      BY <1>0, <1>4, <1>7, <3>1
    <3> QED
      BY <1>4, <2>1, <3>1, <3>2 DEF EndsLine
  <2>6. \A k \in p .. n : b[k] = line[k]
    BY <1>0, <1>4, <1>7, <2>1, <2>4
  <2>7. Text[p - 1] = SP
    <3>1. p - 1 = to /\ to \in 1 .. n - 2 /\ to \in 1 .. Len(s)
      BY <1>0, <2>1, <2>4
    <3> QED
      BY <1>0, <1>7, <2>4, <3>1
  <2>8. PICK t \in Seq(Symbols) : t = Text /\ Len(t) = n - 2 /\ \A k \in 1 .. n - 2 : t[k] = s[k]
    <3>1. \A k \in 1 .. n - 2 : k \in 1 .. Len(s)
      BY <1>0, <2>1
    <3>2. \A k \in 1 .. n - 2 : Text[k] = s[k]
      BY <1>0, <1>7, <3>1
    <3> QED
      BY <1>0, <3>2, Zenon
  <2>9. t[from] = c /\ t[from] # SP /\ t[to] = SP /\ \A k \in 1 .. from - 1 : t[k] = SP
    <3>1. s[from] # SP
      BY <1>3, <1>4 DEF Cut
    <3>2. from \in 1 .. n - 2 /\ to \in 1 .. n - 2 /\ \A k \in 1 .. from - 1 : k \in 1 .. n - 2
      BY <1>0, <2>4
    <3>3. t[from] = s[from] /\ t[to] = s[to] /\ \A k \in 1 .. from - 1 : t[k] = s[k]
      BY <2>8, <3>2
    <3> QED
      BY <1>4, <1>5, <2>4, <3>1, <3>3
  <2>10. from \in WordStarts(t)
    <3>1. from = 1 \/ from - 1 \in 1 .. from - 1
      BY <1>3
    <3>2. from \in 1 .. Len(t)
      BY <1>0, <2>4, <2>8
    <3> QED
      BY <2>9, <3>1, <3>2 DEF WordStarts
  <2>11. {k \in WordStarts(t) : k < from} = {}
    <3> SUFFICES ASSUME NEW k \in WordStarts(t), k < from PROVE FALSE
      OBVIOUS
    <3>1. k \in 1 .. Len(t) /\ t[k] # SP
      BY DEF WordStarts
    <3>2. k \in 1 .. from - 1
      BY <1>3, <3>1
    <3> QED
      BY <2>9, <3>1, <3>2
  <2>12. {k \in WordStarts(t) : k < p} = {from}
    <3> SUFFICES ASSUME NEW k \in WordStarts(t) PROVE k < p <=> k = from
      BY <2>10
    <3>1. k \in 1 .. Len(t) /\ t[k] # SP
      BY DEF WordStarts
    <3>2. ~(k < from)
      BY <2>11
    <3>3. k # to
      BY <2>9, <3>1
    <3> QED
      BY <1>0, <1>5, <2>4, <2>8, <3>1, <3>2, <3>3
  <2>13. Before(t, from) = 0 /\ Before(t, p) = 1
    BY <2>11, <2>12, FS_EmptySet, FS_Singleton DEF Before
  <2>14. Word(t, 1) = <<c>>
    <3>1. from \in from .. Len(t) /\ (\A k \in from .. from : t[k] # SP) /\ t[from + 1] = SP
      BY <1>0, <1>5, <2>4, <2>8, <2>9
    <3>2. Word(t, Before(t, from) + 1) = SubSeq(t, from, from)
      BY <2>10, <3>1, WordIs
    <3>3. SubSeq(t, from, from) = SubSeq(s, from, from)
      <4>1. /\ from \in 1 .. Len(s) + 1 /\ from \in Int /\ from <= Len(s) /\ from <= Len(t)
            /\ from <= from + 1 /\ \A k \in from .. from : t[k] = s[k]
        BY <1>0, <2>1, <2>4, <2>8
      <4> QED
        BY <4>1, SamePart
    <3>4. SubSeq(s, from, from) = <<c>>
      <4>1. to - 1 = from
        BY <1>3, <1>5
      <4> QED
        BY <1>4, <4>1
    <3> QED
      BY <2>13, <3>2, <3>3, <3>4
  <2>15. p \in 2 .. n - 1
    BY <1>0, <2>4
  <2> QED
    BY <1>4, <2>1, <2>5, <2>6, <2>7, <2>8, <2>13, <2>14, <2>15 DEF n
<1> QED
  BY <1>8, <1>9

\* Where the text of a header ends.
LEMMA TrailingIs ==
    ASSUME NEW t \in Seq(Symbols), t = Text, NEW e \in 1 .. Len(t), t[e] # SP,
           \A k \in e + 1 .. Len(t) : t[k] = SP
    PROVE  Trailing = Len(t) - e
<1> DEFINE A == {i \in 1 .. Len(t) : t[i] # SP} \cup {0}
<1>0. Len(t) \in Nat
  OBVIOUS
<1>1. e \in A /\ \A y \in A : e >= y
  BY <1>0
<1>2. PICK x : x = CHOOSE z \in A : \A y \in A : z >= y
  OBVIOUS
<1>3. x \in A /\ \A y \in A : x >= y
  <2> HIDE DEF A
  <2> QED
    BY <1>1, <1>2, Zenon
<1>4. x >= e /\ e >= x /\ x \in Int
  BY <1>0, <1>1, <1>3
<1>5. x = e
  BY <1>4
<1> QED
  BY <1>2, <1>5 DEF Trailing, Max

\* What ScanKey takes from a header with a command word: the second word, if
\* the header has no third one and at most one space at its end; and one symbol
\* only if that is all the header has.
LEMMA ScannedKey ==
    ASSUME line \in Headers, buf \in Seq(Symbols), Len(buf) = Len(line),
           saveptr \in 2 .. Len(line) - 1, Text[saveptr - 1] = SP,
           \A k \in saveptr .. Len(line) : buf[k] = line[k],
           Before(Text, saveptr) = 1
    PROVE  /\ ScanKey \in Seq(Symbols) /\ Len(ScanKey) < MAX_KEY_SIZE
           /\ Words(Text) = 2 /\ Trailing <= 1 => ScanKey = CopyKey(Word(Text, 2))
           /\ \A x : ScanKey = <<x>> => Words(Text) = 2 /\ Word(Text, 2) = <<x>>
<1>1. PICK n \in Nat : n = Len(line) /\ n >= 3
  <2>1. Len(line) \in Nat
    BY HeaderFacts
  <2> QED
    BY <2>1
<1>2. PICK p \in 2 .. n - 1 : p = saveptr
  BY <1>1
<1>3. PICK s \in Seq(Symbols), t \in Seq(Symbols) :
        /\ s = buf /\ t = Text /\ Len(s) = n /\ Len(t) = n - 2
        /\ \A k \in p .. n - 2 : s[k] = t[k]
        /\ s[n - 1] = CR
        /\ t[p - 1] = SP
        /\ Before(t, p) = 1
  <2>1. /\ Text \in Seq(Symbols) /\ Len(Text) = n - 2 /\ line[n - 1] = CR
        /\ \A k \in 1 .. n - 2 : Text[k] = line[k]
    BY <1>1, HeaderFacts
  <2>2. \A k \in p .. n - 2 : k \in 1 .. n - 2 /\ k \in p .. n
    BY <1>1
  <2>3. \A k \in p .. n - 2 : buf[k] = Text[k]
    BY <1>1, <1>2, <2>1, <2>2
  <2>4. n - 1 \in p .. n
    BY <1>1
  <2>5. buf[n - 1] = CR
    BY <1>1, <1>2, <2>1, <2>4
  <2> QED
    BY <1>1, <1>2, <2>1, <2>3, <2>5, Zenon
<1>4. SP # CR
  BY ParserAssumption
<1>5. p \in 1 .. Len(t) + 1 /\ Len(t) \in Nat
  BY <1>1, <1>3
<1>6. PICK f \in p .. Len(t) + 1, to \in p .. Len(t) + 1 : Cut(Symbols, t, p, f, to)
  BY <1>5, NulIsSymbol, StrtokParts
<1>7. /\ \A k \in p .. f - 1 : t[k] = SP
      /\ f <= Len(t) => t[f] # SP /\ f < to
      /\ \A k \in f .. to - 1 : t[k] # SP
      /\ to <= Len(t) => t[to] = SP
      /\ Strtok(t, p).found = (f <= Len(t))
      /\ Strtok(t, p).token = SubSeq(t, f, to - 1)
      /\ Strtok(t, p).saveptr = IF to <= Len(t) THEN to + 1 ELSE to
  BY <1>6 DEF Cut
<1>8. /\ Strtok(t, p).saveptr \in p .. Len(t) + 1
      /\ Strtok(t, p).saveptr > Len(t) \/ t[Strtok(t, p).saveptr - 1] = SP
      /\ Strtok(t, p).found => /\ Strtok(t, p).token = Word(t, Before(t, p) + 1)
                               /\ Before(t, Strtok(t, p).saveptr) = Before(t, p) + 1
      /\ ~Strtok(t, p).found => Words(t) = Before(t, p)
  BY <1>3, <1>5, NulIsSymbol, TokenIsWord
<1>9. SkipSpaces(s, p) = f /\ f \in p .. n - 1
  <2>1. p \in 1 .. Len(s) + 1 /\ f \in p .. Len(s) + 1 /\ f \in p .. n - 1
    BY <1>1, <1>3, <1>6, SMTT(40)
  <2>2. s[f] # SP
    <3>1. CASE f = n - 1
      BY <1>3, <1>4, <3>1
    <3>2. CASE f # n - 1
      <4>1. f \in p .. n - 2 /\ f <= Len(t)
        BY <1>1, <1>3, <1>6, <3>2
      <4> QED
        BY <1>3, <1>7, <4>1
    <3> QED
      BY <3>1, <3>2
  <2>3. \A k \in p .. f - 1 : s[k] = SP
    <3>1. \A k \in p .. f - 1 : k \in p .. n - 2
      BY <1>1, <2>1
    <3> QED
      BY <1>3, <1>7, <3>1
  <2>4. SkipSpaces(s, p) = f
    BY <2>1, <2>2, <2>3, SkipSpacesIs
  <2> QED
    BY <2>1, <2>4
<1>10. PICK cut \in {n - 2, n - 1} : cut = IF s[n - 2] = SP THEN n - 2 ELSE n - 1
  OBVIOUS
<1>19. cut \in Int /\ n - 2 <= cut /\ cut <= n - 1
  BY <1>1, <1>10
<1> DEFINE u == IF cut < f THEN SubSeq(s, f, n) ELSE SubSeq(s, f, cut - 1)
<1>11. ScanKey = CopyKey(u)
  BY <1>2, <1>3, <1>9, <1>10 DEF ScanKey
<1>12. u \in Seq(Symbols) /\ Len(u) = IF cut < f THEN n - f + 1 ELSE cut - f
  <2>1. \A k \in f .. n : s[k] \in Symbols
    BY <1>1, <1>3, <1>9
  <2>2. CASE cut < f
    <3>1. SubSeq(s, f, n) \in Seq(Symbols) /\ Len(SubSeq(s, f, n)) = IF f <= n THEN n - f + 1 ELSE 0
      BY <1>1, <1>9, <2>1, SubSeqProperties
    <3> QED
      BY <1>1, <1>9, <2>2, <3>1, SMTT(40)
  <2>3. CASE ~(cut < f)
    <3>1. PICK j \in Int : j = cut - 1
      BY <1>1, <1>10
    <3>2. \A k \in f .. j : s[k] \in Symbols
      BY <1>1, <1>10, <2>1, <3>1
    <3>3. SubSeq(s, f, j) \in Seq(Symbols) /\ Len(SubSeq(s, f, j)) = IF f <= j THEN j - f + 1 ELSE 0
      BY <1>9, <3>2, SubSeqProperties
    <3>4. (IF f <= j THEN j - f + 1 ELSE 0) = cut - f
      BY <1>1, <1>9, <1>19, <2>3, <3>1
    <3> QED
      BY <2>3, <3>1, <3>3, <3>4
  <2> QED
    BY <2>2, <2>3
<1>13. ScanKey \in Seq(Symbols) /\ Len(ScanKey) < MAX_KEY_SIZE
  <2> HIDE DEF u
  <2> QED
    BY <1>11, <1>12, CopyKeyFits
<1>14. ASSUME ~(cut < f), to = cut, f <= Len(t)
       PROVE  u = SubSeq(t, f, to - 1)
  <2>1. PICK j \in Int : j = to - 1
    BY <1>6
  <2>2. /\ f \in 1 .. Len(s) + 1 /\ j <= Len(s) /\ j <= Len(t) /\ f <= j + 1
        /\ \A k \in f .. j : s[k] = t[k]
    <3>1. f \in 1 .. Len(s) + 1 /\ j <= Len(s) /\ j <= Len(t) /\ f <= j + 1
      BY <1>1, <1>3, <1>6, <1>9, <1>14, <2>1, SMTT(40)
    <3>2. \A k \in f .. j : k \in p .. n - 2
      BY <1>1, <1>3, <1>9, <3>1, SMTT(40)
    <3> QED
      BY <1>3, <3>1, <3>2
  <2>3. SubSeq(s, f, j) = SubSeq(t, f, j)
    BY <2>2, SamePart
  <2> QED
    BY <1>14, <2>1, <2>3
<1>15. ASSUME f <= Len(t)
       PROVE  /\ Word(t, 2) = SubSeq(t, f, to - 1)
              /\ Before(t, IF to <= Len(t) THEN to + 1 ELSE to) = 2
  <2>1. (f <= Len(t)) = TRUE
    BY <1>15
  <2>2. Strtok(t, p).found
    BY <1>7, <2>1, Zenon
  <2>3. Word(t, Before(t, p) + 1) = SubSeq(t, f, to - 1) /\ Before(t, Strtok(t, p).saveptr) = Before(t, p) + 1
    BY <1>7, <1>8, <2>2, Zenon
  <2>4. Before(t, p) + 1 = 2
    BY <1>3
  <2> QED
    BY <1>7, <2>3, <2>4, Zenon
<1>16. ASSUME Words(t) = 2, Trailing <= 1 PROVE u = Word(t, 2)
  <2>1. f <= Len(t)
    <3> SUFFICES ASSUME ~(f <= Len(t)) PROVE FALSE
      OBVIOUS
    <3>1. (f <= Len(t)) = FALSE
      OBVIOUS
    <3>2. ~Strtok(t, p).found
      BY <1>7, <3>1, Zenon
    <3>3. Words(t) = 1
      BY <1>3, <1>8, <3>2, Zenon
    <3> QED
      BY <1>16, <3>3
  <2>2. PICK q \in p .. Len(t) + 1 : q = Strtok(t, p).saveptr
    BY <1>8
  <2>3. q \in 1 .. Len(t) + 1 /\ (q = 1 \/ q > Len(t) \/ t[q - 1] = SP) /\ Before(t, q) = 2
    BY <1>5, <1>7, <1>8, <1>15, <2>1, <2>2
  <2>4. /\ Strtok(t, q).found \in BOOLEAN
        /\ Strtok(t, q).saveptr \in q .. Len(t) + 1
        /\ Strtok(t, q).found => Before(t, Strtok(t, q).saveptr) = 3
        /\ ~Strtok(t, q).found => \A k \in q .. Len(t) : t[k] = SP
    <3>1. /\ Strtok(t, q).found \in BOOLEAN
          /\ Strtok(t, q).saveptr \in q .. Len(t) + 1
          /\ Strtok(t, q).found => Before(t, Strtok(t, q).saveptr) = Before(t, q) + 1
          /\ ~Strtok(t, q).found => \A k \in q .. Len(t) : t[k] = SP
      BY <2>3, NulIsSymbol, TokenIsWord
    <3>2. Before(t, q) + 1 = 3
      BY <2>3
    <3> QED
      BY <3>1, <3>2, Zenon
  <2>5. ~Strtok(t, q).found
    <3> SUFFICES ASSUME Strtok(t, q).found PROVE FALSE
      OBVIOUS
    <3>1. PICK z \in q .. Len(t) + 1 : z = Strtok(t, q).saveptr /\ Before(t, z) = 3
      BY <2>4
    <3>2. z \in Int
      BY <2>3
    <3>3. Before(t, z) <= Words(t)
      BY <3>2, WordsFinite
    <3> QED
      BY <1>16, <3>1, <3>3
  <2>6. PICK e \in 1 .. Len(t) : e = to - 1 /\ t[e] # SP /\ \A k \in e + 1 .. Len(t) : t[k] = SP
    <3>1. to - 1 \in 1 .. Len(t) /\ t[to - 1] # SP
      BY <1>5, <1>6, <1>7, <2>1
    <3>2. \A k \in (to - 1) + 1 .. Len(t) : t[k] = SP
      BY <1>5, <1>6, <1>7, <2>2, <2>4, <2>5
    <3> QED
      BY <3>1, <3>2
  <2>7. Trailing = Len(t) - e
    BY <1>3, <2>6, TrailingIs
  <2>8. to = n - 1 \/ to = n - 2
    BY <1>1, <1>3, <1>6, <1>16, <2>6, <2>7
  <2>9. to = cut /\ ~(cut < f)
    <3>1. f < to /\ n - 2 \in p .. n - 2
      BY <1>1, <1>3, <1>6, <1>7, <2>1
    <3>2. s[n - 2] = t[n - 2]
      BY <1>3, <3>1
    <3>3. CASE to = n - 1
      BY <1>1, <1>3, <1>6, <1>10, <2>6, <3>1, <3>2, <3>3
    <3>4. CASE to = n - 2
      BY <1>1, <1>3, <1>6, <1>7, <1>10, <3>1, <3>2, <3>4
    <3> QED
      BY <2>8, <3>3, <3>4
  <2> QED
    BY <1>14, <1>15, <2>1, <2>9
<1>17. ASSUME NEW x, ScanKey = <<x>> PROVE Words(t) = 2 /\ Word(t, 2) = <<x>>
  <2>1. u = <<x>> /\ Len(u) = 1
    <3>1. Len(CopyKey(u)) = 1
      BY <1>11, <1>17
    <3> HIDE DEF u
    <3>3. Len(CopyKey(u)) <= 1
      BY <3>1
    <3>2. CopyKey(u) = u
      BY <1>12, <3>3, CopyKeyFits
    <3> QED
      BY <1>11, <1>17, <3>1, <3>2
  <2>2. ~(cut < f) /\ f = cut - 1
    <3> HIDE DEF u
    <3>1. (IF cut < f THEN n - f + 1 ELSE cut - f) = 1
      BY <1>12, <2>1
    <3> QED
      BY <1>1, <1>9, <1>19, <3>1
  <2>3. f <= Len(t)
    BY <1>1, <1>3, <1>10, <2>2
  <2>4. to = cut
    <3>1. CASE cut = n - 1
      BY <1>1, <1>3, <1>6, <1>7, <2>2, <2>3, <3>1, SMTT(40)
    <3>2. CASE cut = n - 2
      <4>1. s[n - 2] = SP /\ n - 2 \in p .. n - 2
        BY <1>1, <1>9, <1>10, <2>2, <3>2
      <4>2. t[n - 2] = SP
        BY <1>3, <4>1
      <4>3. ~(n - 2 \in f .. to - 1)
        BY <1>7, <4>2
      <4> QED
        BY <1>1, <1>3, <1>6, <1>7, <2>2, <2>3, <3>2, <4>3, SMTT(40)
    <3> QED
      BY <1>10, <3>1, <3>2
  <2>5. (IF to <= Len(t) THEN to + 1 ELSE to) = Len(t) + 1
    BY <1>1, <1>3, <1>10, <2>4
  <2>6. Words(t) = 2
    <3>1. 1 \in Int
      OBVIOUS
    <3>2. Before(t, Len(t) + 1) = Words(t)
      BY <3>1, WordsFinite
    <3> QED
      BY <1>15, <2>3, <2>5, <3>2
  <2> QED
    BY <1>14, <1>15, <2>1, <2>2, <2>3, <2>4, <2>6
<1> QED
  <2> HIDE DEF u
  <2> QED
    BY <1>3, <1>11, <1>13, <1>16, <1>17

-----------------------------------------------------------------------------
(* The inductive invariant: what has been read, in every state of the two  *)
(* state machines.                                                         *)

SetStates == {"s_set_key", "s_set_flag", "s_set_exptime", "s_set_bytes", "s_set_done", "s_set_failed"}

Requests ==
    [cmd_type : Commands \cup {"unknown"}, parse_status : {"unknown", "succ", "failed"}, key : Seq(Symbols),
     flag : Nat, exptime : Nat, data_size : Nat]

Types ==
    /\ line \in Headers
    /\ buf \in Seq(Symbols) /\ Len(buf) <= MAX_QUERY_HEADER_SIZE
    /\ saveptr \in 1 .. Len(buf) + 1
    /\ state \in {"start", "s_ready", "set_tokens", "s_fatal", "s_done"} \cup Range(CommandState)
    /\ set_state \in SetStates
    /\ qr \in Requests /\ Len(qr.key) < MAX_KEY_SIZE
    /\ retval \in {0, -1}

\* The command word has been split off, and nothing else happened.
CommandRead ==
    state \in {"start", "s_ready"} \cup Range(CommandState) =>
        /\ qr = NoRequest /\ retval = 0 /\ set_state = "s_set_key"
        /\ state # "start" => LET t == Strtok(Copied, 1) IN
                              t.found /\ token = t.token /\ buf = t.buf /\ saveptr = t.saveptr
        /\ \A c \in Commands : state = CommandState[c] => token = <<c>>

\* A set with everything it needs.
SetComplete ==
    /\ Words(Text) >= 5
    /\ Len(Word(Text, 2)) < MAX_KEY_SIZE
    /\ Len(line) < MAX_QUERY_HEADER_SIZE

\* The buffer holds the text of the header from saveptr on, where a word may
\* start.
TailKept ==
    /\ Len(buf) = Len(Text)
    /\ saveptr \in 1 .. Len(Text) + 1
    /\ saveptr > Len(Text) \/ Text[saveptr - 1] = SP
    /\ \A k \in saveptr .. Len(Text) : buf[k] = Text[k]

\* The fields that parse_set_cmd() has filled, by its state.
Stored ==
    /\ set_state = "s_set_key" => Before(Text, saveptr) = 1
    /\ set_state = "s_set_flag" => Before(Text, saveptr) = 2
    /\ set_state = "s_set_exptime" => Before(Text, saveptr) = 3
    /\ set_state = "s_set_bytes" => Before(Text, saveptr) = 4
    /\ set_state = "s_set_done" => Words(Text) >= 5 /\ qr.data_size = atoi(Word(Text, 5))
    /\ set_state \in {"s_set_flag", "s_set_exptime", "s_set_bytes", "s_set_done"} =>
         qr.key = Word(Text, 2) /\ Len(Word(Text, 2)) < MAX_KEY_SIZE
    /\ set_state \in {"s_set_exptime", "s_set_bytes", "s_set_done"} => qr.flag = atoi(Word(Text, 3))
    /\ set_state \in {"s_set_bytes", "s_set_done"} => qr.exptime = atoi(Word(Text, 4))
    /\ set_state = "s_set_failed" => ~SetComplete

TokensRead ==
    state = "set_tokens" =>
        /\ retval = 0 /\ qr.cmd_type = "unknown"
        /\ Len(line) < MAX_QUERY_HEADER_SIZE
        /\ Word(Text, 1) = <<"set">>
        /\ TailKept
        /\ Stored

\* What the key commands claim of an accepted header.
KeyRight ==
    /\ Words(Text) = 2 /\ Trailing <= 1 => qr.key = CopyKey(Word(Text, 2))
    /\ qr.cmd_type \in {"sync", "power"} =>
         /\ Words(Text) = 2
         /\ <<qr.cmd_type, Word(Text, 2)>> \in
              {<<"sync", <<"index">>>>, <<"sync", <<"all">>>>, <<"power", <<"halt">>>>}

SetRight ==
    /\ SetComplete
    /\ qr.key = Word(Text, 2)
    /\ qr.flag = atoi(Word(Text, 3))
    /\ qr.exptime = atoi(Word(Text, 4))
    /\ qr.data_size = atoi(Word(Text, 5))

\* A request that was refused, or is about to be.
Rejected == qr.cmd_type = "set" => ~SetComplete

ResultRight ==
    /\ state = "s_fatal" => retval = 0 /\ Rejected
    /\ state = "s_done" =>
         /\ retval = 0 <=> qr.parse_status = "succ"
         /\ retval # 0 => Rejected
         /\ retval = 0 => /\ qr.cmd_type \in Commands /\ Word(Text, 1) = <<qr.cmd_type>>
                          /\ qr.cmd_type = "set" => SetRight
                          /\ qr.cmd_type # "set" => KeyRight

PInv == Types /\ CommandRead /\ TokensRead /\ ResultRight

\* The two results that the caller looks at agree when the parser is done.
ResultsAgree == Done => StatusAgrees

-----------------------------------------------------------------------------
(* Every step keeps the invariant.                                         *)

\* The header stays what it is.
LEMMA LineKept ==
    ASSUME line' = line
    PROVE  Text' = Text /\ Copied' = Copied /\ Trailing' = Trailing /\ (SetComplete' <=> SetComplete)
<1>1. Text' = Text /\ Copied' = Copied
  BY DEF Text, Copied
<1>2. Trailing' = Trailing
  BY <1>1 DEF Trailing
<1>3. SetComplete' <=> SetComplete
  BY <1>1 DEF SetComplete
<1> QED
  BY <1>1, <1>2, <1>3

\* The names of the states are different ones.
LEMMA StateNames ==
    /\ Range(CommandState) \cap {"start", "s_ready", "set_tokens", "s_fatal", "s_done"} = {}
    /\ DOMAIN NextSetState = SetStates \ {"s_set_done", "s_set_failed"}
    /\ NextSetState["s_set_key"] = "s_set_flag" /\ NextSetState["s_set_flag"] = "s_set_exptime"
    /\ NextSetState["s_set_exptime"] = "s_set_bytes" /\ NextSetState["s_set_bytes"] = "s_set_done"
<1>1. Range(CommandState) \cap {"start", "s_ready", "set_tokens", "s_fatal", "s_done"} = {}
  BY CommandWords
<1>2. DOMAIN NextSetState = {"s_set_key", "s_set_flag", "s_set_exptime", "s_set_bytes"}
  BY DEF NextSetState
<1> QED
  BY <1>1, <1>2 DEF SetStates, NextSetState

\* A step that leaves everything alone.
LEMMA ParserStutters ==
    ASSUME PInv, UNCHANGED vars
    PROVE  PInv'
<1>1. line' = line
  BY DEF vars
<1> QED
  BY <1>1, LineKept DEF vars, PInv, Types, CommandRead, TokensRead, ResultRight, TailKept, Stored, Rejected,
     SetRight, KeyRight

\* The first state satisfies the invariant.
LEMMA ParserStarts == Init => PInv
<1> SUFFICES ASSUME Init PROVE PInv
  OBVIOUS
<1>1. Types
  <2>1. <<>> \in Seq(Symbols) /\ Len(<<>>) = 0
    OBVIOUS
  <2>2. NoRequest \in Requests /\ NoRequest.key = <<>>
    BY <2>1 DEF NoRequest, Requests
  <2>3. MAX_KEY_SIZE \in Nat /\ MAX_KEY_SIZE > 2 /\ MAX_QUERY_HEADER_SIZE \in Nat
    BY ParserAssumption
  <2> QED
    BY <2>1, <2>2, <2>3 DEF Init, Types, SetStates
<1>2. CommandRead
  BY StateNames, CommandWords DEF Init, CommandRead
<1>3. TokensRead /\ ResultRight
  BY DEF Init, TokensRead, ResultRight
<1> QED
  BY <1>1, <1>2, <1>3 DEF PInv

\* The command word is split off.
LEMMA SplitCommandStep ==
    ASSUME PInv, SplitCommand
    PROVE  PInv'
<1>0. /\ Types /\ state = "start" /\ qr = NoRequest /\ retval = 0 /\ set_state = "s_set_key"
      /\ line' = line /\ set_state' = set_state
  BY DEF PInv, CommandRead, SplitCommand
<1>1. Text' = Text /\ Copied' = Copied
  BY <1>0, LineKept
<1>2. PICK s \in Seq(Symbols) : s = Copied /\ Len(s) <= MAX_QUERY_HEADER_SIZE /\ Len(s) \in Nat
  <2>1. /\ Copied \in Seq(Symbols) /\ Len(line) \in 2 .. MAX_QUERY_HEADER_SIZE
        /\ Len(Copied) = IF Len(line) = MAX_QUERY_HEADER_SIZE THEN Len(line) - 1 ELSE Len(line)
    BY <1>0, HeaderFacts DEF Types
  <2>2. MAX_QUERY_HEADER_SIZE \in Nat
    BY ParserAssumption
  <2>3. Len(Copied) <= MAX_QUERY_HEADER_SIZE /\ Len(Copied) \in Nat
    BY <2>1, <2>2
  <2> QED
    BY <2>1, <2>3
<1>3. /\ Strtok(s, 1).buf \in Seq(Symbols) /\ Len(Strtok(s, 1).buf) = Len(s)
      /\ Strtok(s, 1).saveptr \in 1 .. Len(s) + 1
  <2>1. 1 \in 1 .. Len(s) + 1
    BY <1>2
  <2>2. PICK from \in 1 .. Len(s) + 1, to \in 1 .. Len(s) + 1 : Cut(Symbols, s, 1, from, to)
    BY <2>1, NulIsSymbol, StrtokParts
  <2> QED
    BY <1>2, <2>2 DEF Cut
<1>4. CASE Strtok(s, 1).found
  <2>1. /\ token' = Strtok(s, 1).token /\ buf' = Strtok(s, 1).buf /\ saveptr' = Strtok(s, 1).saveptr
        /\ state' = "s_ready" /\ qr' = qr /\ retval' = retval
    BY <1>2, <1>4 DEF SplitCommand
  <2>2. Types'
    BY <1>0, <1>2, <1>3, <2>1 DEF Types
  <2>3. CommandRead'
    <3>1. \A c \in Commands : state' # CommandState[c]
      BY <2>1, StateNames, CommandWords
    <3> QED
      BY <1>0, <1>1, <1>2, <1>4, <2>1, <3>1 DEF CommandRead
  <2> QED
    BY <2>1, <2>2, <2>3 DEF PInv, TokensRead, ResultRight
<1>5. CASE ~Strtok(s, 1).found
  <2>1. /\ retval' = -1 /\ qr' = [qr EXCEPT !.parse_status = "failed"] /\ state' = "s_done"
        /\ buf' = buf /\ saveptr' = saveptr
    BY <1>2, <1>5 DEF SplitCommand
  <2>2. Types'
    BY <1>0, <2>1 DEF Types, Requests
  <2>3. qr'.cmd_type = "unknown" /\ qr'.parse_status = "failed"
    BY <1>0, <2>1 DEF NoRequest
  <2>4. CommandRead'
    BY <2>1, StateNames DEF CommandRead
  <2> QED
    BY <2>1, <2>2, <2>3, <2>4 DEF PInv, TokensRead, ResultRight, Rejected
<1> QED
  BY <1>4, <1>5

\* The command is looked up.
LEMMA ReadyStep ==
    ASSUME PInv, Ready
    PROVE  PInv'
<1>0. /\ Types /\ CommandRead /\ state = "s_ready" /\ qr = NoRequest /\ retval = 0 /\ set_state = "s_set_key"
      /\ UNCHANGED <<line, buf, saveptr, token, set_state, qr, retval>>
  BY DEF PInv, CommandRead, Ready
<1>1. Text' = Text /\ Copied' = Copied
  BY <1>0, LineKept
<1>2. CASE \E c \in Commands : token = <<c>>
  <2>1. PICK c \in Commands : token = <<c>>
    BY <1>2
  <2>2. state' = CommandState[c] /\ state' \in Range(CommandState)
    <3>1. state' = CommandState[token[1]]
      BY <1>2 DEF Ready
    <3>2. token[1] = c
      BY <2>1
    <3> QED
      BY <3>1, <3>2, CommandWords
  <2>3. Types'
    BY <1>0, <2>2 DEF Types
  <2>4. CommandRead'
    <3>1. \A d \in Commands : state' = CommandState[d] => token' = <<d>>
      BY <1>0, <2>1, <2>2, CommandWords
    <3>2. LET t == Strtok(Copied, 1) IN t.found /\ token = t.token /\ buf = t.buf /\ saveptr = t.saveptr
      BY <1>0 DEF CommandRead
    <3> QED
      BY <1>0, <1>1, <3>1, <3>2 DEF CommandRead
  <2> QED
    BY <2>2, <2>3, <2>4, StateNames DEF PInv, TokensRead, ResultRight
<1>3. CASE ~(\E c \in Commands : token = <<c>>)
  <2>1. state' = "s_fatal"
    BY <1>3 DEF Ready
  <2>2. Types' /\ CommandRead'
    BY <1>0, <2>1, StateNames DEF Types, CommandRead
  <2>3. qr'.cmd_type # "set"
    BY <1>0 DEF NoRequest
  <2> QED
    BY <1>0, <2>1, <2>2, <2>3 DEF PInv, TokensRead, ResultRight, Rejected
<1> QED
  BY <1>2, <1>3

\* The last visit, for a header that is refused.
LEMMA FatalStep ==
    ASSUME PInv, Fatal
    PROVE  PInv'
<1>0. /\ Types /\ state = "s_fatal" /\ Rejected
      /\ state' = "s_done" /\ retval' = -1 /\ qr' = [qr EXCEPT !.parse_status = "failed"]
      /\ UNCHANGED <<line, buf, saveptr, token, set_state>>
  BY DEF PInv, ResultRight, Fatal
<1>1. SetComplete' <=> SetComplete
  BY <1>0, LineKept
<1>2. Types'
  BY <1>0 DEF Types, Requests
<1>3. qr'.cmd_type = qr.cmd_type /\ qr'.parse_status = "failed"
  BY <1>0 DEF Types, Requests
<1>4. CommandRead' /\ TokensRead'
  BY <1>0, StateNames DEF CommandRead, TokensRead
<1>5. ResultRight'
  BY <1>0, <1>1, <1>3 DEF ResultRight, Rejected
<1> QED
  BY <1>2, <1>4, <1>5 DEF PInv

\* What a command finds: FirstWord, for the variables.
LEMMA CommandReady ==
    ASSUME PInv, NEW c \in Commands, state = CommandState[c]
    PROVE  /\ Types /\ qr = NoRequest /\ retval = 0 /\ set_state = "s_set_key"
           /\ EndsLine(buf) <=> Len(line) < MAX_QUERY_HEADER_SIZE
           /\ EndsLine(buf) => /\ Len(buf) = Len(line)
                               /\ saveptr \in 2 .. Len(line) - 1
                               /\ Text[saveptr - 1] = SP
                               /\ \A k \in saveptr .. Len(line) : buf[k] = line[k]
                               /\ Word(Text, 1) = <<c>>
                               /\ Before(Text, saveptr) = 1
<1>1. state \in Range(CommandState) /\ state # "start"
  BY CommandWords, StateNames
<1>2. /\ Types /\ qr = NoRequest /\ retval = 0 /\ set_state = "s_set_key" /\ token = <<c>>
      /\ Strtok(Copied, 1).found /\ token = Strtok(Copied, 1).token
      /\ buf = Strtok(Copied, 1).buf /\ saveptr = Strtok(Copied, 1).saveptr
  BY <1>1 DEF PInv, CommandRead
<1>3. PICK b \in Seq(Symbols), p \in Int : b = buf /\ p = saveptr
  BY <1>2 DEF Types
<1>4. line \in Headers
  BY <1>2 DEF Types
<1>5. /\ EndsLine(b) <=> Len(line) < MAX_QUERY_HEADER_SIZE
      /\ EndsLine(b) => /\ Len(b) = Len(line)
                        /\ p \in 2 .. Len(line) - 1
                        /\ Text[p - 1] = SP
                        /\ \A k \in p .. Len(line) : b[k] = line[k]
                        /\ Word(Text, 1) = <<c>>
                        /\ Before(Text, p) = 1
  BY <1>2, <1>3, <1>4, FirstWord
<1> QED
  BY <1>2, <1>3, <1>5, Zenon

\* get, delete, sync and power.
LEMMA KeyCommandStep ==
    ASSUME PInv, NEW c \in Commands \ {"set"}, KeyCommand(c)
    PROVE  PInv'
<1>0. /\ Types /\ qr = NoRequest /\ retval = 0 /\ state = CommandState[c]
      /\ UNCHANGED <<line, buf, saveptr, token, set_state, retval>>
      /\ c \in Commands
  BY CommandReady DEF KeyCommand
<1>1. Text' = Text /\ Trailing' = Trailing
  BY <1>0, LineKept
<1>2. \A o \in BOOLEAN, r \in Requests : HandleCmd(c, o, r) =>
        /\ qr' \in Requests /\ qr'.cmd_type = c /\ qr'.key = r.key
        /\ o => qr'.parse_status = "succ" /\ state' = "s_done"
        /\ ~o => qr'.parse_status = "failed" /\ state' = "s_fatal"
  BY DEF HandleCmd, Requests
<1>3. CASE EndsLine(buf)
  <2>1. /\ line \in Headers /\ buf \in Seq(Symbols) /\ Len(buf) = Len(line)
        /\ saveptr \in 2 .. Len(line) - 1 /\ Text[saveptr - 1] = SP
        /\ \A k \in saveptr .. Len(line) : buf[k] = line[k]
        /\ Before(Text, saveptr) = 1 /\ Word(Text, 1) = <<c>>
    BY <1>0, <1>3, CommandReady DEF Types
  <2>2. PICK key \in Seq(Symbols) : key = ScanKey /\ Len(key) < MAX_KEY_SIZE
    BY <2>1, ScannedKey
  <2>3. /\ Words(Text) = 2 /\ Trailing <= 1 => key = CopyKey(Word(Text, 2))
        /\ \A x : key = <<x>> => Words(Text) = 2 /\ Word(Text, 2) = <<x>>
    BY <2>1, <2>2, ScannedKey
  <2>4. PICK r \in Requests : r = [qr EXCEPT !.key = key] /\ r.key = key
    <3>1. [qr EXCEPT !.key = key] \in Requests /\ [qr EXCEPT !.key = key].key = key
      BY <1>0 DEF Types, Requests
    <3> QED
      BY <3>1
  <2>5. PICK o \in BOOLEAN : o = Accepts(c, key)
    BY DEF Accepts
  <2>6. HandleCmd(c, o, r)
    BY <1>3, <2>2, <2>4, <2>5 DEF KeyCommand
  <2>7. /\ qr' \in Requests /\ qr'.cmd_type = c /\ qr'.key = key
        /\ o => qr'.parse_status = "succ" /\ state' = "s_done"
        /\ ~o => qr'.parse_status = "failed" /\ state' = "s_fatal"
    BY <1>2, <2>4, <2>6
  <2>8. Types'
    BY <1>0, <2>2, <2>7 DEF Types
  <2>9. CommandRead' /\ TokensRead'
    BY <2>7, StateNames DEF CommandRead, TokensRead
  <2>10. ASSUME o PROVE KeyRight'
    <3>1. Words(Text') = 2 /\ Trailing' <= 1 => qr'.key = CopyKey(Word(Text', 2))
      BY <1>1, <2>3, <2>7
    <3>2. ASSUME c = "sync" PROVE key \in {<<"index">>, <<"all">>}
      BY <2>5, <2>10, <3>2 DEF Accepts
    <3>3. ASSUME c = "power" PROVE key = <<"halt">>
      BY <2>5, <2>10, <3>3 DEF Accepts
    <3>4. ASSUME c \in {"sync", "power"}
          PROVE  /\ Words(Text) = 2
                 /\ <<c, Word(Text, 2)>> \in
                      {<<"sync", <<"index">>>>, <<"sync", <<"all">>>>, <<"power", <<"halt">>>>}
      BY <2>3, <3>2, <3>3, <3>4
    <3> QED
      BY <1>1, <2>7, <3>1, <3>4 DEF KeyRight
  <2>11. ResultRight'
    <3>1. CASE o
      BY <1>0, <1>1, <2>1, <2>7, <2>10, <3>1 DEF ResultRight
    <3>2. CASE ~o
      BY <1>0, <2>7, <3>2 DEF ResultRight, Rejected
    <3> QED
      BY <3>1, <3>2
  <2> QED
    BY <2>8, <2>9, <2>11 DEF PInv
<1>4. CASE ~EndsLine(buf)
  <2>1. HandleCmd(c, FALSE, qr) /\ qr \in Requests
    BY <1>0, <1>4 DEF KeyCommand, Types
  <2>2. qr' \in Requests /\ qr'.cmd_type = c /\ qr'.key = qr.key /\ qr'.parse_status = "failed" /\ state' = "s_fatal"
    BY <1>2, <2>1
  <2>3. Types'
    BY <1>0, <2>2 DEF Types
  <2>4. CommandRead' /\ TokensRead'
    BY <2>2, StateNames DEF CommandRead, TokensRead
  <2>5. ResultRight'
    BY <1>0, <2>2 DEF ResultRight, Rejected
  <2> QED
    BY <2>3, <2>4, <2>5 DEF PInv
<1> QED
  BY <1>3, <1>4

\* The CR LF of a set is cut off.
LEMMA SetStartStep ==
    ASSUME PInv, SetStart
    PROVE  PInv'
<1>0. /\ Types /\ qr = NoRequest /\ retval = 0 /\ state = "s_set" /\ set_state = "s_set_key"
      /\ UNCHANGED <<line, saveptr, token, set_state, retval>>
      /\ "set" \in Commands /\ state = CommandState["set"]
  BY CommandReady, CommandWords DEF SetStart
<1>1. Text' = Text /\ (SetComplete' <=> SetComplete)
  BY <1>0, LineKept
<1>2. CASE EndsLine(buf)
  <2>1. /\ line \in Headers /\ buf \in Seq(Symbols) /\ Len(buf) = Len(line)
        /\ saveptr \in 2 .. Len(line) - 1 /\ Text[saveptr - 1] = SP
        /\ \A k \in saveptr .. Len(line) : buf[k] = line[k]
        /\ Before(Text, saveptr) = 1 /\ Word(Text, 1) = <<"set">>
        /\ Len(line) < MAX_QUERY_HEADER_SIZE
    BY <1>0, <1>2, CommandReady DEF Types
  <2>2. /\ Text \in Seq(Symbols) /\ Len(Text) = Len(line) - 2 /\ Len(line) \in 2 .. MAX_QUERY_HEADER_SIZE
        /\ \A k \in 1 .. Len(line) - 2 : Text[k] = line[k]
    BY <2>1, HeaderFacts
  <2>3. PICK n \in Nat : n = Len(line) - 2 /\ n < MAX_QUERY_HEADER_SIZE
    <3>1. Len(line) - 2 \in Nat /\ Len(line) - 2 < MAX_QUERY_HEADER_SIZE
      BY <2>2, ParserAssumption
    <3> QED
      BY <3>1
  <2>4. state' = "set_tokens" /\ buf' = SubSeq(buf, 1, n) /\ qr' = qr
    BY <1>2, <2>1, <2>3 DEF SetStart
  <2>5. buf' \in Seq(Symbols) /\ Len(buf') = n /\ \A k \in 1 .. n : buf'[k] = buf[k]
    <3>1. \A k \in 1 .. n : buf[k] \in Symbols
      BY <2>1, <2>3
    <3>2. /\ SubSeq(buf, 1, n) \in Seq(Symbols)
          /\ Len(SubSeq(buf, 1, n)) = IF 1 <= n THEN n - 1 + 1 ELSE 0
          /\ \A k \in 1 .. n - 1 + 1 : SubSeq(buf, 1, n)[k] = buf[1 + k - 1]
      BY <3>1, SubSeqProperties
    <3>3. Len(SubSeq(buf, 1, n)) = n /\ \A k \in 1 .. n : SubSeq(buf, 1, n)[k] = buf[k]
      BY <3>2
    <3> QED
      BY <2>4, <3>2, <3>3
  <2>6. saveptr \in 1 .. n + 1
    BY <2>1, <2>3
  <2>7. Types'
    BY <1>0, <2>3, <2>4, <2>5, <2>6, ParserAssumption DEF Types
  <2>8. TailKept'
    <3>1. \A k \in saveptr .. n : k \in 1 .. n /\ k \in 1 .. Len(line) - 2 /\ k \in saveptr .. Len(line)
      BY <2>2, <2>3, <2>6
    <3>2. \A k \in saveptr .. n : buf'[k] = Text[k]
      BY <2>1, <2>2, <2>5, <3>1
    <3> QED
      BY <1>0, <1>1, <2>1, <2>2, <2>3, <2>5, <2>6, <3>2 DEF TailKept
  <2>9. Stored'
    BY <1>0, <1>1, <2>1 DEF Stored
  <2>10. TokensRead'
    BY <1>0, <1>1, <2>1, <2>4, <2>8, <2>9 DEF TokensRead, NoRequest
  <2>11. CommandRead' /\ ResultRight'
    BY <2>4, StateNames DEF CommandRead, ResultRight
  <2> QED
    BY <2>7, <2>10, <2>11 DEF PInv
<1>3. CASE ~EndsLine(buf)
  <2>1. HandleCmd("set", FALSE, qr) /\ buf' = buf /\ qr \in Requests
    BY <1>0, <1>3 DEF SetStart, Types
  <2>2. qr' \in Requests /\ qr'.cmd_type = "set" /\ qr'.key = qr.key /\ qr'.parse_status = "failed" /\ state' = "s_fatal"
    BY <1>0, <2>1 DEF HandleCmd, Requests
  <2>3. Types'
    BY <1>0, <2>1, <2>2 DEF Types
  <2>4. CommandRead' /\ TokensRead'
    BY <2>2, StateNames DEF CommandRead, TokensRead
  <2>5. ~SetComplete
    BY <1>0, <1>3, CommandReady DEF SetComplete
  <2>6. ResultRight'
    BY <1>0, <1>1, <2>2, <2>5 DEF ResultRight, Rejected
  <2> QED
    BY <2>3, <2>4, <2>6 DEF PInv
<1> QED
  BY <1>2, <1>3

\* A token of a set.
LEMMA SetTokenStep ==
    ASSUME PInv, SetToken
    PROVE  PInv'
<1>0. /\ Types /\ state = "set_tokens" /\ retval = 0 /\ qr.cmd_type = "unknown"
      /\ Len(line) < MAX_QUERY_HEADER_SIZE /\ Word(Text, 1) = <<"set">> /\ TailKept /\ Stored
      /\ UNCHANGED <<line, token, state, retval>>
      /\ set_state \in {"s_set_key", "s_set_flag", "s_set_exptime", "s_set_bytes"}
      /\ qr \in Requests /\ Len(qr.key) < MAX_KEY_SIZE
  BY StateNames DEF PInv, TokensRead, SetToken, Types, SetStates
<1>1. Text' = Text /\ (SetComplete' <=> SetComplete)
  BY <1>0, LineKept
<1>2. PICK t \in Seq(Symbols), s \in Seq(Symbols) : t = Text /\ s = buf /\ Len(s) = Len(t)
  BY <1>0, HeaderFacts DEF Types, TailKept
<1>3. PICK p \in 1 .. Len(t) + 1 : p = saveptr
  BY <1>0, <1>2 DEF TailKept
<1>4. (p > Len(t) \/ t[p - 1] = SP) /\ \A k \in p .. Len(t) : s[k] = t[k]
  BY <1>0, <1>2, <1>3 DEF TailKept
<1>5. PICK r : r = Strtok(s, p)
  OBVIOUS
<1>6. /\ r.buf \in Seq(Symbols) /\ Len(r.buf) = Len(t)
      /\ r.saveptr \in p .. Len(t) + 1
      /\ \A k \in r.saveptr .. Len(t) : r.buf[k] = t[k]
      /\ r.saveptr > Len(t) \/ t[r.saveptr - 1] = SP
      /\ r.found \in BOOLEAN
      /\ r.found => /\ r.token = Word(t, Before(t, p) + 1)
                    /\ r.token \in Seq(Symbols)
                    /\ Before(t, r.saveptr) = Before(t, p) + 1
      /\ ~r.found => Words(t) = Before(t, p)
  BY <1>2, <1>4, <1>5, NulIsSymbol, TokenIsWord
<1>7. buf' = r.buf /\ saveptr' = r.saveptr
  BY <1>2, <1>3, <1>5 DEF SetToken
<1>8. r.saveptr \in 1 .. Len(t) + 1 /\ Len(t) <= MAX_QUERY_HEADER_SIZE
  BY <1>0, <1>2, <1>6 DEF Types
<1>9. TailKept'
  BY <1>1, <1>2, <1>6, <1>7, <1>8 DEF TailKept
<1>10. CommandRead' /\ ResultRight'
  BY <1>0, StateNames DEF CommandRead, ResultRight
<1>11. ASSUME qr' \in Requests, Len(qr'.key) < MAX_KEY_SIZE, qr'.cmd_type = "unknown",
              set_state' \in SetStates, Stored'
       PROVE  PInv'
  <2>1. Types'
    BY <1>0, <1>6, <1>7, <1>8, <1>11 DEF Types
  <2>2. TokensRead'
    BY <1>0, <1>1, <1>9, <1>11 DEF TokensRead
  <2> QED
    BY <1>10, <2>1, <2>2 DEF PInv
<1>12. /\ set_state = "s_set_key" => Before(t, p) = 1
       /\ set_state = "s_set_flag" => Before(t, p) = 2
       /\ set_state = "s_set_exptime" => Before(t, p) = 3
       /\ set_state = "s_set_bytes" => Before(t, p) = 4
  BY <1>0, <1>2, <1>3 DEF Stored
<1>13. CASE ~r.found \/ KeyTooLong(r.token)
  <2>1. set_state' = "s_set_failed" /\ qr' = qr
    BY <1>2, <1>3, <1>5, <1>13 DEF SetToken
  <2>2. ~SetComplete
    <3>1. CASE ~r.found
      <4>1. Words(t) \in {1, 2, 3, 4}
        BY <1>0, <1>6, <1>12, <3>1
      <4> QED
        BY <1>2, <4>1 DEF SetComplete
    <3>2. CASE r.found /\ KeyTooLong(r.token)
      <4>1. set_state = "s_set_key" /\ Len(r.token) >= MAX_KEY_SIZE
        BY <3>2 DEF KeyTooLong
      <4>2. r.token = Word(t, 2)
        <5>1. 1 + 1 = 2
          OBVIOUS
        <5> QED
          BY <1>6, <1>12, <3>2, <4>1, <5>1
      <4>3. Len(r.token) \in Nat /\ MAX_KEY_SIZE \in Nat
        BY <1>6, <3>2, ParserAssumption
      <4>4. ~(Len(r.token) < MAX_KEY_SIZE)
        BY <4>1, <4>3
      <4> QED
        BY <1>2, <4>2, <4>4 DEF SetComplete
    <3> QED
      BY <1>13, <3>1, <3>2
  <2>3. Stored'
    BY <1>1, <2>1, <2>2 DEF Stored
  <2> QED
    BY <1>0, <1>11, <2>1, <2>3 DEF SetStates
<1>14. CASE r.found /\ ~KeyTooLong(r.token)
  <2>1. set_state' = NextSetState[set_state] /\ qr' = StoreToken(r.token)
    BY <1>2, <1>3, <1>5, <1>14 DEF SetToken
  <2>2. PICK w \in Seq(Symbols) : w = r.token /\ w = Word(t, Before(t, p) + 1)
    BY <1>6, <1>14
  <2>3. Before(t, r.saveptr) = Before(t, p) + 1
    BY <1>6, <1>14
  <2>4. PICK v \in Nat : v = atoi(w)
    BY AtoiNat
  <2>5. CASE set_state = "s_set_key"
    <3>1. set_state' = "s_set_flag" /\ qr' = [qr EXCEPT !.key = CopyKey(w)]
      BY <2>1, <2>2, <2>5, StateNames DEF StoreToken
    <3>2. Len(w) < MAX_KEY_SIZE
      <4>1. Len(w) \in Nat /\ MAX_KEY_SIZE \in Nat
        BY ParserAssumption
      <4>2. ~(Len(w) >= MAX_KEY_SIZE)
        BY <1>14, <2>2, <2>5 DEF KeyTooLong
      <4> QED
        BY <4>1, <4>2
    <3>3. CopyKey(w) = w
      BY <3>2, CopyKeyFits
    <3>4. Before(t, p) + 1 = 2
      BY <1>12, <2>5
    <3>5. qr' \in Requests /\ qr'.key = w /\ qr'.cmd_type = "unknown"
      BY <1>0, <3>1, <3>3 DEF Requests
    <3>6. Stored'
      BY <1>1, <1>2, <1>7, <2>2, <2>3, <3>1, <3>2, <3>4, <3>5 DEF Stored
    <3> QED
      BY <1>11, <3>1, <3>2, <3>5, <3>6 DEF SetStates
  <2>6. CASE set_state = "s_set_flag"
    <3>1. set_state' = "s_set_exptime" /\ qr' = [qr EXCEPT !.flag = v]
      BY <2>1, <2>2, <2>4, <2>6, StateNames DEF StoreToken
    <3>2. Before(t, p) + 1 = 3
      BY <1>12, <2>6
    <3>3. qr' \in Requests /\ qr'.key = qr.key /\ qr'.flag = v /\ qr'.cmd_type = "unknown"
      BY <1>0, <3>1 DEF Requests
    <3>4. qr.key = Word(t, 2) /\ Len(Word(t, 2)) < MAX_KEY_SIZE
      BY <1>0, <1>2, <2>6 DEF Stored
    <3>5. Stored'
      BY <1>1, <1>2, <1>7, <2>2, <2>3, <2>4, <3>1, <3>2, <3>3, <3>4 DEF Stored
    <3> QED
      BY <1>0, <1>11, <3>1, <3>3, <3>5 DEF SetStates
  <2>7. CASE set_state = "s_set_exptime"
    <3>1. set_state' = "s_set_bytes" /\ qr' = [qr EXCEPT !.exptime = v]
      BY <2>1, <2>2, <2>4, <2>7, StateNames DEF StoreToken
    <3>2. Before(t, p) + 1 = 4
      BY <1>12, <2>7
    <3>3. /\ qr' \in Requests /\ qr'.key = qr.key /\ qr'.flag = qr.flag /\ qr'.exptime = v
          /\ qr'.cmd_type = "unknown"
      BY <1>0, <3>1 DEF Requests
    <3>4. qr.key = Word(t, 2) /\ Len(Word(t, 2)) < MAX_KEY_SIZE /\ qr.flag = atoi(Word(t, 3))
      BY <1>0, <1>2, <2>7 DEF Stored
    <3>5. Stored'
      BY <1>1, <1>2, <1>7, <2>2, <2>3, <2>4, <3>1, <3>2, <3>3, <3>4 DEF Stored
    <3> QED
      BY <1>0, <1>11, <3>1, <3>3, <3>5 DEF SetStates
  <2>8. CASE set_state = "s_set_bytes"
    <3>1. set_state' = "s_set_done" /\ qr' = [qr EXCEPT !.data_size = v]
      BY <2>1, <2>2, <2>4, <2>8, StateNames DEF StoreToken
    <3>2. Before(t, p) + 1 = 5
      BY <1>12, <2>8
    <3>3. /\ qr' \in Requests /\ qr'.key = qr.key /\ qr'.flag = qr.flag /\ qr'.exptime = qr.exptime
          /\ qr'.data_size = v /\ qr'.cmd_type = "unknown"
      BY <1>0, <3>1 DEF Requests
    <3>4. /\ qr.key = Word(t, 2) /\ Len(Word(t, 2)) < MAX_KEY_SIZE
          /\ qr.flag = atoi(Word(t, 3)) /\ qr.exptime = atoi(Word(t, 4))
      BY <1>0, <1>2, <2>8 DEF Stored
    <3>5. Words(t) >= 5
      <4>1. r.saveptr \in Int
        BY <1>8
      <4>2. Before(t, r.saveptr) <= Words(t) /\ Words(t) \in Nat
        BY <4>1, WordsFinite
      <4> QED
        BY <2>3, <3>2, <4>2
    <3>6. Stored'
      BY <1>1, <1>2, <2>2, <2>4, <3>1, <3>2, <3>3, <3>4, <3>5 DEF Stored
    <3> QED
      BY <1>0, <1>11, <3>1, <3>3, <3>6 DEF SetStates
  <2> QED
    BY <1>0, <2>5, <2>6, <2>7, <2>8
<1> QED
  BY <1>6, <1>13, <1>14

\* The end of a set.
LEMMA SetEndStep ==
    ASSUME PInv, SetEnd
    PROVE  PInv'
<1>0. /\ Types /\ state = "set_tokens" /\ retval = 0 /\ Len(line) < MAX_QUERY_HEADER_SIZE
      /\ Word(Text, 1) = <<"set">> /\ Stored
      /\ UNCHANGED <<line, buf, saveptr, token, retval>>
      /\ set_state \in {"s_set_failed", "s_set_done"} /\ set_state' = "s_set_done"
      /\ HandleCmd("set", set_state = "s_set_done", qr)
      /\ qr \in Requests
  BY DEF PInv, TokensRead, SetEnd, Types
<1>1. Text' = Text /\ (SetComplete' <=> SetComplete)
  BY <1>0, LineKept
<1>2. /\ qr' \in Requests /\ qr'.cmd_type = "set" /\ qr'.key = qr.key
      /\ qr'.flag = qr.flag /\ qr'.exptime = qr.exptime /\ qr'.data_size = qr.data_size
      /\ set_state = "s_set_done" => qr'.parse_status = "succ" /\ state' = "s_done"
      /\ set_state # "s_set_done" => qr'.parse_status = "failed" /\ state' = "s_fatal"
  BY <1>0, CommandWords DEF HandleCmd, Requests
<1>3. Types'
  BY <1>0, <1>2 DEF Types, SetStates
<1>4. CommandRead' /\ TokensRead'
  BY <1>2, StateNames DEF CommandRead, TokensRead
<1>5. ResultRight'
  <2>1. CASE set_state = "s_set_done"
    <3>1. SetComplete
      BY <1>0, <2>1 DEF Stored, SetComplete
    <3>2. /\ qr.key = Word(Text, 2) /\ qr.flag = atoi(Word(Text, 3))
          /\ qr.exptime = atoi(Word(Text, 4)) /\ qr.data_size = atoi(Word(Text, 5))
      BY <1>0, <2>1 DEF Stored
    <3>3. SetRight'
      BY <1>1, <1>2, <3>1, <3>2 DEF SetRight
    <3> QED
      BY <1>0, <1>1, <1>2, <2>1, <3>3, CommandWords DEF ResultRight
  <2>2. CASE set_state = "s_set_failed"
    <3>1. ~SetComplete
      BY <1>0, <2>2 DEF Stored
    <3> QED
      BY <1>0, <1>1, <1>2, <2>2, <3>1 DEF ResultRight, Rejected
  <2> QED
    BY <1>0, <2>1, <2>2
<1> QED
  BY <1>3, <1>4, <1>5 DEF PInv

\* The invariant holds for every header, of any length: what each state of the
\* two machines has read of it.
THEOREM ParserInvariant == Spec => []PInv
<1>1. Init => PInv
  BY ParserStarts
<1>2. PInv /\ [Next]_vars => PInv'
  <2> SUFFICES ASSUME PInv, [Next]_vars PROVE PInv'
    OBVIOUS
  <2>1. CASE SplitCommand
    BY <2>1, SplitCommandStep
  <2>2. CASE Ready
    BY <2>2, ReadyStep
  <2>3. CASE Fatal
    BY <2>3, FatalStep
  <2>4. CASE \E c \in Commands \ {"set"} : KeyCommand(c)
    BY <2>4, KeyCommandStep
  <2>5. CASE SetStart
    BY <2>5, SetStartStep
  <2>6. CASE SetToken
    BY <2>6, SetTokenStep
  <2>7. CASE SetEnd
    BY <2>7, SetEndStep
  <2>8. CASE UNCHANGED vars
    BY <2>8, ParserStutters
  <2> QED
    BY <2>1, <2>2, <2>3, <2>4, <2>5, <2>6, <2>7, <2>8 DEF Next
<1> QED
  BY <1>1, <1>2, PTL DEF Spec

\* The parser keeps its types: no key is longer than qr->key, and strtok_r()
\* never goes on behind the end of the copied header.
THEOREM ParserTypes == Spec => []TypeOK
<1>1. PInv => TypeOK
  <2> SUFFICES ASSUME PInv PROVE TypeOK
    OBVIOUS
  <2>1. set_state \in DOMAIN NextSetState \cup {"s_set_done", "s_set_failed"}
    BY StateNames DEF PInv, Types, SetStates
  <2> QED
    BY <2>1 DEF PInv, Types, Requests, TypeOK
<1> QED
  BY <1>1, ParserInvariant, PTL

\* A key is the same key in every command: parse_set_cmd() and ScanKey take
\* the second word of the header.
THEOREM ParserKeys == Spec => []KeyIsSecondWord
<1>1. PInv => KeyIsSecondWord
  BY DEF PInv, ResultRight, SetRight, KeyRight, KeyIsSecondWord, Accepted, Done
<1> QED
  BY <1>1, ParserInvariant, PTL

\* A set is accepted exactly when it is complete, and sync and power only with
\* the argument they know.
THEOREM ParserCommands == Spec => []CommandsExact
<1>1. PInv => CommandsExact
  <2> SUFFICES ASSUME PInv PROVE CommandsExact
    OBVIOUS
  <2>1. SetExact
    <3> SUFFICES ASSUME Done, qr.cmd_type = "set" PROVE
                   /\ Accepted <=> SetComplete
                   /\ Accepted => /\ qr.flag = atoi(Word(Text, 3))
                                  /\ qr.exptime = atoi(Word(Text, 4))
                                  /\ qr.data_size = atoi(Word(Text, 5))
      BY DEF SetExact, SetComplete
    <3>1. CASE retval = 0
      BY <3>1 DEF PInv, ResultRight, SetRight, Accepted, Done
    <3>2. CASE retval # 0
      BY <3>2 DEF PInv, ResultRight, Rejected, Accepted, Done
    <3> QED
      BY <3>1, <3>2
  <2>2. ControlExact
    BY DEF PInv, ResultRight, KeyRight, ControlExact, Accepted, Done
  <2> QED
    BY <2>1, <2>2 DEF CommandsExact
<1> QED
  BY <1>1, ParserInvariant, PTL

\* When the parser is done, its return value and parse_status agree, and a
\* request that is handed on has the command its first word names.
THEOREM ParserResultsAgree == Spec => []ResultsAgree
<1>1. PInv => ResultsAgree
  BY DEF PInv, ResultRight, ResultsAgree, StatusAgrees, Done
<1> QED
  BY <1>1, ParserInvariant, PTL

=============================================================================
