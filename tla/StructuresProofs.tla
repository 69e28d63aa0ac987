--------------------------- MODULE StructuresProofs ---------------------------
(***************************************************************************)
(* What holds of the data structures and of the arithmetic of times for    *)
(* any sizes: lists of any number of control blocks and threads, rings of  *)
(* any size and any number of extents, and every length of the second and  *)
(* of the tick and every width of the words, as long as the wait fits into *)
(* a long.                                                                 *)
(***************************************************************************)
EXTENDS ObjectLists, QueueRing, Timer, SequenceTheorems, FiniteSetTheorems,
        WellFoundedInduction, TLAPS

------------------------------------------------------------------------------
(* The lists of control blocks, as sequences of blocks.                     *)

\* Any set of numbers has a least one.
LEMMA LeastOne ==
    ASSUME NEW T, T \subseteq Nat, T # {} PROVE \E x \in T : \A y \in T : x <= y
<1> DEFINE R == OpToRel(<, Nat)
<1>1. IsWellFoundedOn(R, Nat)
  BY NatLessThanWellFounded, Zenon
<1>2. \A x, y \in Nat : y < x => <<y, x>> \in R
  BY DEF OpToRel
<1> HIDE DEF R
<1>3. PICK x \in T : \A y \in T : ~(<<y, x>> \in R)
  BY <1>1, WFMin, Zenon
<1>4. \A y \in T : ~(y < x)
  BY <1>2, <1>3
<1>5. QED
  BY <1>4

\* s holds the blocks from b on, each leading to the next.
IsChain(links, s, b) ==
    /\ s \in Seq(Block) /\ \A i, j \in 1..Len(s) : s[i] = s[j] => i = j
    /\ b = IF s = <<>> THEN Nil ELSE s[1]
    /\ \A i \in 1..Len(s) : links[s[i]] = IF i < Len(s) THEN s[i + 1] ELSE Nil

\* No list is longer than the memory has blocks.
LEMMA ChainFits ==
    ASSUME NEW links, NEW b, NEW s, IsChain(links, s, b)
    PROVE  Len(s) \in 0..Cardinality(Block) /\ Cardinality(Block) \in Nat
<1>1. IsFiniteSet(Block) /\ Cardinality(Block) \in Nat
  BY NilAssumption, FS_CardinalityType
<1>2. Len(s) \in Nat /\ s \in [1..Len(s) -> Block]
  BY DEF IsChain
<1>3. s \in Injection(1..Len(s), Block)
  BY <1>2 DEF IsChain, Injection, IsInjective
<1>4. Cardinality(1..Len(s)) = Len(s) /\ IsFiniteSet(1..Len(s))
  BY <1>2, FS_Interval
<1>5. Cardinality(1..Len(s)) <= Cardinality(Block)
  BY <1>1, <1>3, FS_Injection
<1>6. QED
  BY <1>1, <1>2, <1>4, <1>5

\* Walking the list from b: its blocks, and then the null pointer.
Walks(links, b, f) ==
    f = [n \in 0..Cardinality(Block) |->
            IF n = 0 THEN b ELSE IF f[n - 1] = Nil THEN Nil ELSE links[f[n - 1]]]

\* There is one such walk.
LEMMA OneWalk ==
    ASSUME NEW links, NEW b, NEW f, NEW g, Walks(links, b, f), Walks(links, b, g),
           Cardinality(Block) \in Nat
    PROVE  f = g
<1> DEFINE N == Cardinality(Block)
           Differ == {n \in 0..N : f[n] # g[n]}
<1>1. /\ \A n \in 0..N : f[n] = IF n = 0 THEN b ELSE IF f[n - 1] = Nil THEN Nil ELSE links[f[n - 1]]
      /\ \A n \in 0..N : g[n] = IF n = 0 THEN b ELSE IF g[n - 1] = Nil THEN Nil ELSE links[g[n - 1]]
  BY DEF Walks
<1>2. DOMAIN f = 0..N /\ DOMAIN g = 0..N /\ f = [n \in DOMAIN f |-> f[n]] /\ g = [n \in DOMAIN g |-> g[n]]
  BY DEF Walks
<1> HIDE DEF N
<1>3. ASSUME Differ # {} PROVE FALSE
  <2>1. PICK n \in Differ : \A k \in Differ : n <= k
    <3>1. Differ \subseteq Nat
      BY DEF N
    <3>2. QED
      BY <1>3, <3>1, LeastOne, Zenon
  <2>2. n # 0
    BY <1>1, <2>1
  <2>3. n - 1 \in 0..N /\ n - 1 \notin Differ
    BY <2>1, <2>2 DEF N
  <2>4. QED
    BY <1>1, <2>1, <2>2, <2>3
<1>4. \A n \in 0..N : f[n] = g[n]
  BY <1>3
<1>5. QED
  BY <1>2, <1>4

\* Chain finds them.
LEMMA ChainIs ==
    ASSUME NEW links, NEW b, NEW s, IsChain(links, s, b) PROVE Chain(links, b) = s
<1> DEFINE N == Cardinality(Block)
           f == [n \in 0..N |-> IF n < Len(s) THEN s[n + 1] ELSE Nil]
<1>1. Len(s) \in 0..N /\ N \in Nat /\ \A i \in 1..Len(s) : s[i] \in Block /\ s[i] # Nil
  <2>1. s \in Seq(Block)
    BY DEF IsChain
  <2>2. QED
    BY <2>1, ChainFits, NilAssumption
<1> HIDE DEF N
<1>2. ASSUME NEW n \in 0..N
      PROVE f[n] = IF n = 0 THEN b ELSE IF f[n - 1] = Nil THEN Nil ELSE links[f[n - 1]]
  <2>1. CASE n = 0
    <3>1. s = <<>> <=> Len(s) = 0
      BY DEF IsChain
    <3>2. QED
      BY <1>1, <2>1, <3>1 DEF IsChain
  <2>2. CASE n > 0 /\ n - 1 < Len(s)
    <3>1. n - 1 \in 0..N /\ n \in 1..Len(s) /\ f[n - 1] = s[n] /\ s[n] # Nil
      BY <1>1, <2>2
    <3>2. links[s[n]] = IF n < Len(s) THEN s[n + 1] ELSE Nil
      BY <3>1 DEF IsChain
    <3>3. QED
      BY <2>2, <3>1, <3>2
  <2>3. CASE n > 0 /\ ~(n - 1 < Len(s))
    <3>1. n - 1 \in 0..N /\ f[n - 1] = Nil /\ f[n] = Nil
      BY <1>1, <2>3
    <3>2. QED
      BY <2>3, <3>1
  <2>4. QED
    BY <2>1, <2>2, <2>3
<1>3. Walks(links, b, f)
  <2> DEFINE g == [n \in 0..N |-> IF n = 0 THEN b ELSE IF f[n - 1] = Nil THEN Nil ELSE links[f[n - 1]]]
  <2>1. DOMAIN f = 0..N /\ DOMAIN g = 0..N /\ \A n \in 0..N : g[n] = f[n]
    BY <1>2
  <2>2. f = g
    <3> HIDE DEF f
    <3>1. f = [n \in 0..N |-> f[n]]
      BY DEF f
    <3>2. QED
      BY <2>1, <3>1
  <2>3. QED
    BY <2>2 DEF Walks, N
<1>4. \A n \in 0..N : f[n] # Nil <=> n < Len(s)
  BY <1>1
<1>5. \A i \in 1..Len(s) : f[i - 1] = s[i]
  BY <1>1
<1>6. DOMAIN f = 0..N
  OBVIOUS
<1> HIDE DEF f
<1> DEFINE pos == CHOOSE g : Walks(links, b, g)
           len == Cardinality({n \in DOMAIN pos : pos[n] # Nil})
<1>7. pos = f
  <2>1. Walks(links, b, pos)
    BY <1>3
  <2>2. QED
    BY <1>1, <1>3, <2>1, OneWalk DEF N
<1>8. Chain(links, b) = [i \in 1..len |-> pos[i - 1]]
  BY DEF Chain, Walks
<1> HIDE DEF pos
<1>9. len = Len(s)
  <2>1. {n \in DOMAIN pos : pos[n] # Nil} = 0..(Len(s) - 1)
    BY <1>1, <1>4, <1>6, <1>7
  <2>2. Cardinality(0..(Len(s) - 1)) = Len(s)
    <3>1. Len(s) \in Nat /\ 0 \in Int /\ Len(s) - 1 \in Int /\ (Len(s) - 1) - 0 + 1 = Len(s)
          /\ (0 > Len(s) - 1 => Len(s) = 0)
      BY <1>1
    <3>2. Cardinality(0..(Len(s) - 1)) = IF 0 > Len(s) - 1 THEN 0 ELSE (Len(s) - 1) - 0 + 1
      BY ONLY <3>1, FS_Interval
    <3>3. QED
      BY <3>1, <3>2
  <2>3. QED
    BY <2>1, <2>2
<1> HIDE DEF len
<1>10. /\ Chain(links, b) \in Seq(Block) /\ Len(Chain(links, b)) = Len(s)
       /\ \A i \in 1..Len(s) : Chain(links, b)[i] = s[i]
  BY <1>1, <1>5, <1>7, <1>8, <1>9
<1>11. QED
  BY <1>10, SeqEqual DEF IsChain

\* A list whose blocks keep their links is the same list.
LEMMA ChainSame ==
    ASSUME NEW links, NEW more, NEW b, NEW s, IsChain(links, s, b),
           \A i \in 1..Len(s) : more[s[i]] = links[s[i]]
    PROVE  IsChain(more, s, b)
BY DEF IsChain

\* A block linked behind the last one.
LEMMA ChainLinked ==
    ASSUME NEW links, NEW more, NEW b, NEW c, NEW s, NEW x \in Block, IsChain(links, s, b),
           \A i \in 1..Len(s) : s[i] # x,
           more[x] = Nil, \A i \in 1..Len(s) : more[s[i]] = IF i < Len(s) THEN links[s[i]] ELSE x,
           c = IF s = <<>> THEN x ELSE b
    PROVE  IsChain(more, Append(s, x), c)
<1> DEFINE r == Append(s, x)
<1>1. s \in Seq(Block) /\ Len(s) \in Nat /\ (s = <<>> <=> Len(s) = 0)
  BY DEF IsChain
<1>2. r \in Seq(Block) /\ Len(r) = Len(s) + 1 /\ r[Len(s) + 1] = x /\ \A i \in 1..Len(s) : r[i] = s[i]
  BY <1>1
<1> HIDE DEF r
<1>3. \A i \in 1..Len(r) : i = Len(s) + 1 \/ i \in 1..Len(s)
  BY <1>1, <1>2
<1>4. Len(s) + 1 \notin 1..Len(s)
  BY <1>1
<1>5. \A i, j \in 1..Len(r) : r[i] = r[j] => i = j
  BY <1>2, <1>3, <1>4 DEF IsChain
<1>6. ASSUME NEW i \in 1..Len(r) PROVE more[r[i]] = IF i < Len(r) THEN r[i + 1] ELSE Nil
  <2>1. CASE i = Len(s) + 1
    BY <1>1, <1>2, <2>1
  <2>2. CASE i \in 1..Len(s) /\ i < Len(s)
    <3>1. i + 1 \in 1..Len(s) /\ i < Len(r)
      BY <1>1, <1>2, <2>2
    <3>2. more[s[i]] = s[i + 1]
      BY <2>2 DEF IsChain
    <3>3. QED
      BY <1>2, <2>2, <3>1, <3>2
  <2>3. CASE i \in 1..Len(s) /\ ~(i < Len(s))
    <3>1. i = Len(s) /\ i < Len(r)
      BY <1>1, <1>2, <2>3
    <3>2. QED
      BY <1>2, <2>3, <3>1
  <2>4. QED
    BY <1>3, <2>1, <2>2, <2>3
<1>7. r # <<>> /\ r[1] = c
  <2>1. s = <<>> => r[1] = x
    BY <1>1, <1>2
  <2>2. s # <<>> => 1 \in 1..Len(s)
    BY <1>1
  <2>3. r # <<>>
    BY <1>1, <1>2
  <2>4. QED
    BY <1>2, <2>1, <2>2, <2>3 DEF IsChain
<1>8. QED
  BY <1>2, <1>5, <1>6, <1>7 DEF IsChain, r

\* The i-th block taken out: the one before it leads to the one behind it.
Out(s, i) == [k \in 1..(Len(s) - 1) |-> s[IF k < i THEN k ELSE k + 1]]

\* What is left of a list when its i-th block is taken out.
LEMMA OutIs ==
    ASSUME NEW s \in Seq(Block), NEW i \in 1..Len(s), \A j, k \in 1..Len(s) : s[j] = s[k] => j = k
    PROVE  /\ Out(s, i) \in Seq(Block) /\ Len(Out(s, i)) = Len(s) - 1
           /\ \A k \in 1..(Len(s) - 1) : Out(s, i)[k] = s[IF k < i THEN k ELSE k + 1]
           /\ \A j, k \in 1..(Len(s) - 1) : Out(s, i)[j] = Out(s, i)[k] => j = k
           /\ {Out(s, i)[k] : k \in 1..Len(Out(s, i))} = {s[k] : k \in 1..Len(s)} \ {s[i]}
<1> DEFINE r == Out(s, i)
           Old(k) == IF k < i THEN k ELSE k + 1
<1>1. Len(s) \in Nat /\ i \in Nat /\ \A k \in 1..Len(s) : s[k] \in Block
  OBVIOUS
<1>2. /\ \A k \in 1..(Len(s) - 1) : Old(k) \in 1..Len(s) /\ Old(k) # i
      /\ \A j, k \in 1..(Len(s) - 1) : Old(j) = Old(k) => j = k
  BY <1>1
<1>3. \A m \in 1..Len(s) : m # i => \E k \in 1..(Len(s) - 1) : Old(k) = m
  <2> SUFFICES ASSUME NEW m \in 1..Len(s), m # i PROVE \E k \in 1..(Len(s) - 1) : Old(k) = m
    OBVIOUS
  <2>1. CASE m < i
    <3>1. m \in 1..(Len(s) - 1) /\ Old(m) = m
      BY <1>1, <2>1
    <3>2. QED
      BY <3>1
  <2>2. CASE m > i
    <3>1. m - 1 \in 1..(Len(s) - 1) /\ Old(m - 1) = m
      BY <1>1, <2>2
    <3>2. QED
      BY <3>1
  <2>3. QED
    BY <1>1, <2>1, <2>2
<1>4. \A k \in 1..(Len(s) - 1) : r[k] = s[Old(k)]
  BY DEF Out
<1> HIDE DEF Old
<1>5. r \in Seq(Block) /\ Len(r) = Len(s) - 1
  <2>1. r = [k \in 1..(Len(s) - 1) |-> s[Old(k)]]
    BY DEF Out, Old
  <2>2. QED
    BY <1>1, <1>2, <2>1
<1> HIDE DEF r
<1>6. \A j, k \in 1..(Len(s) - 1) : r[j] = r[k] => j = k
  BY <1>2, <1>4
<1>7. {r[k] : k \in 1..Len(r)} = {s[k] : k \in 1..Len(s)} \ {s[i]}
  <2>1. \A k \in 1..Len(r) : r[k] \in {s[m] : m \in 1..Len(s)} \ {s[i]}
    BY <1>2, <1>4, <1>5
  <2>2. \A m \in 1..Len(s) : s[m] # s[i] => s[m] \in {r[k] : k \in 1..Len(r)}
    <3> SUFFICES ASSUME NEW m \in 1..Len(s), s[m] # s[i] PROVE \E k \in 1..Len(r) : r[k] = s[m]
      OBVIOUS
    <3>1. PICK k \in 1..(Len(s) - 1) : Old(k) = m
      BY <1>3
    <3>2. k \in 1..Len(r) /\ r[k] = s[m]
      BY <1>4, <1>5, <3>1
    <3>3. QED
      BY <3>2
  <2>3. QED
    BY <2>1, <2>2
<1>8. QED
  BY <1>4, <1>5, <1>6, <1>7 DEF r, Old

\* A block unlinked: the list without it.
LEMMA ChainUnlinked ==
    ASSUME NEW links, NEW fewer, NEW b, NEW c, NEW s, NEW i \in 1..Len(s), IsChain(links, s, b),
           c = IF i = 1 THEN links[b] ELSE b,
           \A k \in 1..Len(s) : fewer[s[k]] = IF k = i - 1 THEN links[s[i]] ELSE links[s[k]]
    PROVE  IsChain(fewer, Out(s, i), c)
<1> DEFINE r == Out(s, i)
<1>1. /\ s \in Seq(Block) /\ Len(s) \in Nat /\ i \in Nat
      /\ \A j, k \in 1..Len(s) : s[j] = s[k] => j = k
  BY DEF IsChain
<1>2. /\ r \in Seq(Block) /\ Len(r) = Len(s) - 1
      /\ \A k \in 1..(Len(s) - 1) : r[k] = s[IF k < i THEN k ELSE k + 1]
      /\ \A j, k \in 1..(Len(s) - 1) : r[j] = r[k] => j = k
  BY <1>1, OutIs
<1> HIDE DEF r
<1>3. \A k \in 1..Len(s) : links[s[k]] = IF k < Len(s) THEN s[k + 1] ELSE Nil
  BY DEF IsChain
<1>4. ASSUME NEW k \in 1..Len(r) PROVE fewer[r[k]] = IF k < Len(r) THEN r[k + 1] ELSE Nil
  <2>1. CASE k < i - 1
    <3>1. /\ k \in 1..Len(s) /\ k + 1 \in 1..(Len(s) - 1) /\ k < Len(s) /\ k < Len(r)
          /\ k # i - 1 /\ r[k] = s[k] /\ r[k + 1] = s[k + 1]
      BY <1>1, <1>2, <2>1
    <3>2. QED
      BY <1>3, <3>1
  <2>2. CASE k = i - 1
    <3>1. k \in 1..Len(s) /\ r[k] = s[k] /\ fewer[s[k]] = links[s[i]]
      BY <1>1, <1>2, <2>2
    <3>2. CASE i < Len(s)
      <4>1. k < Len(r) /\ k + 1 = i /\ i \in 1..(Len(s) - 1) /\ r[i] = s[i + 1]
        BY <1>1, <1>2, <2>2, <3>2
      <4>2. QED
        BY <1>3, <3>1, <3>2, <4>1
    <3>3. CASE ~(i < Len(s))
      <4>1. ~(k < Len(r))
        BY <1>1, <1>2, <2>2, <3>3
      <4>2. QED
        BY <1>3, <3>1, <3>3, <4>1
    <3>4. QED
      BY <3>2, <3>3
  <2>3. CASE k >= i
    <3>1. k + 1 \in 1..Len(s) /\ k + 1 # i - 1 /\ r[k] = s[k + 1]
      BY <1>1, <1>2, <2>3
    <3>2. fewer[r[k]] = IF k + 1 < Len(s) THEN s[(k + 1) + 1] ELSE Nil
      BY <1>3, <3>1
    <3>3. k < Len(r) <=> k + 1 < Len(s)
      BY <1>1, <1>2
    <3>4. k < Len(r) => r[k + 1] = s[(k + 1) + 1]
      BY <1>1, <1>2, <2>3
    <3>5. QED
      BY <3>2, <3>3, <3>4
  <2>4. QED
    BY <1>1, <1>2, <2>1, <2>2, <2>3
<1>5. c = IF r = <<>> THEN Nil ELSE r[1]
  <2>1. s # <<>> /\ b = s[1] /\ 1 \in 1..Len(s) /\ Len(s) > 0
    BY <1>1 DEF IsChain
  <2>2. r = <<>> <=> Len(s) = 1
    BY <1>1, <1>2, <2>1
  <2>3. CASE i = 1
    <3>1. c = IF 1 < Len(s) THEN s[2] ELSE Nil
      BY <1>3, <2>1, <2>3
    <3>2. 1 < Len(s) => r[1] = s[2]
      BY <1>1, <1>2, <2>3
    <3>3. 1 < Len(s) <=> Len(s) # 1
      <4>1. \A n \in Nat : n > 0 => (1 < n <=> n # 1)
        OBVIOUS
      <4>2. QED
        BY ONLY <1>1, <2>1, <4>1, Zenon
    <3>4. QED
      BY <2>2, <3>1, <3>2, <3>3
  <2>4. CASE i # 1
    <3>1. r[1] = s[1] /\ Len(s) # 1
      BY <1>1, <1>2, <2>4
    <3>2. QED
      BY <2>1, <2>2, <2>4, <3>1
  <2>5. QED
    BY <2>3, <2>4
<1>6. QED
  BY <1>2, <1>4, <1>5 DEF IsChain, r

\* From a block of the list on, there are those behind it.
LEMMA ChainFrom ==
    ASSUME NEW links, NEW b, NEW s, NEW i \in 1..Len(s), IsChain(links, s, b)
    PROVE  \A k \in i..Len(s) : \E m \in DOMAIN Chain(links, s[i]) : Chain(links, s[i])[m] = s[k]
<1> DEFINE n == Len(s) + 1 - i
           r == [k \in 1..n |-> s[k + i - 1]]
<1>1. /\ s \in Seq(Block) /\ Len(s) \in Nat /\ i \in Nat /\ n \in Nat \ {0}
      /\ \A k \in 1..Len(s) : s[k] \in Block
  BY DEF IsChain
<1>2. \A k \in 1..n : k + i - 1 \in i..Len(s) /\ k + i - 1 \in 1..Len(s)
  BY <1>1
<1>3. r \in Seq(Block) /\ Len(r) = n /\ \A k \in 1..n : r[k] = s[k + i - 1]
  BY <1>1, <1>2
<1>4. \A k \in 1..n : k < n <=> k + i - 1 < Len(s)
  BY <1>1
<1>5. \A k \in 1..n : k < n => k + 1 \in 1..n /\ (k + 1) + i - 1 = (k + i - 1) + 1
  BY <1>1
<1>6. \A m \in i..Len(s) : m - i + 1 \in 1..n /\ (m - i + 1) + i - 1 = m
  BY <1>1
<1>7. 1 \in 1..n /\ 1 + i - 1 = i /\ n # 0 /\ (r = <<>> => n = 0)
  <2>1. r = <<>> => n = 0
    BY <1>3
  <2> HIDE DEF r
  <2>2. \A k \in Nat \ {0} : 1 \in 1..k /\ k # 0
    OBVIOUS
  <2>3. QED
    BY <1>1, <2>1, <2>2
<1>8. \A j, k \in 1..n : j + i - 1 = k + i - 1 => j = k
  BY <1>1
<1> HIDE DEF n, r
<1>9. IsChain(links, r, s[i])
  <2>1. ASSUME NEW k \in 1..n PROVE links[r[k]] = IF k < n THEN r[k + 1] ELSE Nil
    <3>1. links[s[k + i - 1]] = IF k + i - 1 < Len(s) THEN s[(k + i - 1) + 1] ELSE Nil
      BY <1>2 DEF IsChain
    <3>2. k < n => r[k + 1] = s[(k + i - 1) + 1]
      BY <1>3, <1>5
    <3>3. QED
      BY <1>3, <1>4, <3>1, <3>2
  <2>2. ASSUME NEW j \in 1..n, NEW k \in 1..n, r[j] = r[k] PROVE j = k
    <3>1. s[j + i - 1] = s[k + i - 1] /\ j + i - 1 \in 1..Len(s) /\ k + i - 1 \in 1..Len(s)
      BY <1>2, <1>3, <2>2
    <3>2. j + i - 1 = k + i - 1
      BY <3>1 DEF IsChain
    <3>3. QED
      BY <1>8, <3>2
  <2>3. QED
    BY <1>3, <1>7, <2>1, <2>2 DEF IsChain
<1>10. Chain(links, s[i]) = r
  BY <1>9, ChainIs
<1>11. DOMAIN r = 1..n /\ \A k \in i..Len(s) : r[k - i + 1] = s[k]
  BY <1>3, <1>6
<1>12. QED
  BY <1>6, <1>10, <1>11

------------------------------------------------------------------------------
(* What threads do to a list of objects, one of them creating and one of    *)
(* them deleting at a time.                                                 *)

\* Creations do not overlap; nor does a deletion with other calls, or else one thread
\* deletes, and identifiers are not read from the list without its lock.
OneDeleter ==
    /\ use.kind # "task"
    /\ \A t, u \in Thread : "delete" \in use.ops[t] \cap use.ops[u] => t = u
Tidy == use.serial /\ (use.apart \/ OneDeleter)

ListTyped ==
    /\ id \in [Block -> Nat] /\ DOMAIN nxt = Block /\ DOMAIN name = Block
    /\ intact \subseteq Block
    /\ DOMAIN op = Thread /\ DOMAIN pc = Thread /\ DOMAIN cur = Thread /\ DOMAIN want = Thread
    /\ use \in Uses

\* The list holds what is linked and not unlinked, in the order of identifiers.
InOrder ==
    /\ IsChain(nxt, Items, list)
    /\ \A i, j \in 1..Len(Items) : i < j => id[Items[i]] < id[Items[j]]
    /\ Registered \subseteq intact /\ known \subseteq Registered

\* One thread creates, one deletes, and where they must be apart nobody else works.
Busy(t, o) == op[t] = o /\ pc[t] # "idle"
OnesTurn ==
    /\ \A t \in Thread : op[t] \in use.ops[t] \cup {"use"}
    /\ \A t, u \in Thread : \A o \in {"create", "delete"} : Busy(t, o) /\ Busy(u, o) => t = u
    /\ use.apart => \A t, u \in Thread : Busy(t, "delete") /\ pc[u] # "idle" => t = u

\* What is to be linked has the highest identifier, and is in no list; a task's
\* identifier is being found.
Creating(t) ==
    /\ pc[t] \in {"count", "link"} => op[t] = "create"
    /\ pc[t] = "count" =>
         use.kind = "task" /\ cur[t] \in Registered /\ want[t] \in Nat /\ id[cur[t]] <= want[t]
    /\ pc[t] = "link" /\ use.kind = "task" =>
         cur[t] = Nil /\ want[t] \in Nat /\ \A b \in Registered : id[b] <= want[t]
    /\ pc[t] = "link" /\ use.kind # "task" =>
         cur[t] \in Block \ intact /\ \A b \in Registered : id[b] < id[cur[t]]

\* What is to be deleted is in the list until it is unlinked, and is nobody else's.
Deleting(t) ==
    /\ pc[t] = "free" => op[t] = "delete" /\ cur[t] \in intact \ Registered
    /\ pc[t] \in {"scan", "got"} => op[t] # "create"
    /\ op[t] = "delete" /\ pc[t] \in {"scan", "got"} =>
         cur[t] \in Registered /\ \E b \in Registered \ known : id[b] = want[t]
    /\ op[t] = "delete" /\ pc[t] = "got" => id[cur[t]] = want[t]

\* Nothing that a walk looks for is behind it.
Looking(t) ==
    use.apart =>
        /\ pc[t] = "scan" =>
             \E i \in 1..Len(Items) :
                 /\ cur[t] = Items[i]
                 /\ \A j \in 1..(i - 1) : Items[j] \in known => ~Matches(t, Items[j])
        /\ pc[t] = "got" => cur[t] \in Registered /\ Matches(t, cur[t])

Right(t) == Creating(t) /\ Deleting(t) /\ Looking(t)
Sound == ListTyped /\ InOrder /\ OnesTurn /\ \A t \in Thread : Right(t)

\* The objects are the blocks of the sequence.
LEMMA RegisteredAre ==
    ASSUME IsChain(nxt, Items, list)
    PROVE  /\ Registered = {Items[i] : i \in 1..Len(Items)} /\ Registered \subseteq Block
           /\ Items \in Seq(Block) /\ Len(Items) \in Nat /\ DOMAIN Items = 1..Len(Items)
           /\ \A i \in 1..Len(Items) : Items[i] \in Registered
           /\ list = Nil <=> Items = <<>>
           /\ list # Nil => list \in Registered /\ list = Items[1] /\ 1 \in 1..Len(Items)
<1>1. Items \in Seq(Block) /\ Len(Items) \in Nat /\ DOMAIN Items = 1..Len(Items)
      /\ (Items = <<>> <=> Len(Items) = 0)
  BY DEF IsChain
<1>2. Registered = {Items[i] : i \in 1..Len(Items)}
  BY <1>1 DEF Registered, Reach, Items
<1>3. \A i \in 1..Len(Items) : Items[i] \in Block
  BY <1>1
<1>4. Items # <<>> => 1 \in 1..Len(Items) /\ list = Items[1]
  BY <1>1 DEF IsChain
<1>5. QED
  BY <1>1, <1>2, <1>3, <1>4, NilAssumption DEF IsChain

\* After a step that makes it so, the list is r.
LEMMA ListNow ==
    ASSUME NEW r, IsChain(nxt', r, list')
    PROVE  /\ Items' = r /\ IsChain(nxt, Items, list)'
           /\ Registered' = {r[i] : i \in 1..Len(r)} /\ Len(r) \in Nat
<1>1. Items' = r
  BY ChainIs DEF Items
<1>2. r \in Seq(Block) /\ DOMAIN r = 1..Len(r) /\ Len(r) \in Nat
  BY DEF IsChain
<1>3. Registered' = {r[i] : i \in 1..Len(r)}
  BY <1>1, <1>2 DEF Registered, Reach, Items
<1>4. QED
  BY <1>1, <1>2, <1>3 DEF IsChain

\* What the callers are promised of a step.
Idents == [b \in Registered |-> id[b]]
RegistryStep == [Objects!RegistryNext]_<<Registered, Idents>>

\* The threads but t do nothing.
Others(t) ==
    /\ use' = use
    /\ \A u \in Thread \ {t} : op'[u] = op[u] /\ pc'[u] = pc[u] /\ cur'[u] = cur[u] /\ want'[u] = want[u]

\* Whose turn it is, after a step of a call and after the beginning of one.
LEMMA TurnKept ==
    ASSUME Tidy, OnesTurn, NEW t \in Thread, Others(t), DOMAIN op = Thread, DOMAIN pc = Thread,
           \/ op'[t] = op[t] /\ pc[t] # "idle"
           \/ pc[t] = "idle" /\ \E o \in use.ops[t] : Begin(t, o)
    PROVE  OnesTurn'
<1>1. CASE op'[t] = op[t] /\ pc[t] # "idle"
  <2>1. \A u \in Thread : op'[u] = op[u] /\ (pc'[u] # "idle" => pc[u] # "idle")
    BY <1>1 DEF Others
  <2>2. QED
    BY <2>1 DEF OnesTurn, Busy, Others
<1>2. CASE pc[t] = "idle" /\ \E o \in use.ops[t] : Begin(t, o)
  <2>1. PICK o \in use.ops[t] : Begin(t, o)
    BY <1>2
  <2>2. op'[t] = o /\ use' = use /\ \A u \in Thread \ {t} : op'[u] = op[u] /\ pc'[u] = pc[u]
    BY <2>1 DEF Begin, Others
  <2>3. \A u \in Thread : op'[u] \in use'.ops[u] \cup {"use"}
    BY <2>2 DEF OnesTurn
  <2>4. o = "create" => \A u \in Thread \ {t} : ~Busy(u, "create")
    BY <2>1 DEF Begin, Tidy, Busy
  <2>5. o = "delete" => \A u \in Thread \ {t} : ~Busy(u, "delete")
    <3> SUFFICES ASSUME o = "delete", NEW u \in Thread \ {t}, Busy(u, "delete") PROVE FALSE
      OBVIOUS
    <3>1. ~use.apart
      BY <2>1 DEF Begin, Busy
    <3>2. OneDeleter /\ "delete" \in use.ops[u] /\ "delete" \in use.ops[t]
      BY <3>1 DEF Tidy, Busy, OnesTurn
    <3>3. QED
      BY <3>2 DEF OneDeleter
  <2>6. use.apart => \A u \in Thread \ {t} : ~Busy(u, "delete") /\ (o = "delete" => pc[u] = "idle")
    BY <2>1 DEF Begin, Busy
  <2>7. QED
    BY <2>2, <2>3, <2>4, <2>5, <2>6 DEF OnesTurn, Busy
<1>3. QED
  BY <1>1, <1>2

\* A step by which the list and its objects stay as they are.
Still ==
    /\ list' = list
    /\ \A b \in Registered : nxt'[b] = nxt[b] /\ id'[b] = id[b] /\ name'[b] = name[b]

\* It keeps the list in order and everybody else right.
LEMMA StillTheList ==
    ASSUME Sound, NEW t \in Thread, Others(t), Still,
           known' \subseteq known, Registered \subseteq intact',
           \A u \in Thread \ {t} : /\ pc[u] = "link" /\ use.kind # "task" =>
                                        id'[cur[u]] = id[cur[u]] /\ cur[u] \notin intact'
                                   /\ pc[u] = "free" => cur[u] \in intact'
    PROVE  /\ InOrder' /\ RegistryStep /\ Items' = Items /\ Registered' = Registered
           /\ \A u \in Thread \ {t} : Right(u)'
<1>1. IsChain(nxt, Items, list)
  BY DEF Sound, InOrder
<1>2. IsChain(nxt', Items, list')
  BY <1>1, RegisteredAre, ChainSame DEF Still
<1>3. Items' = Items /\ Registered' = Registered /\ IsChain(nxt, Items, list)'
  <2>1. Items' = Items /\ Registered' = {Items[i] : i \in 1..Len(Items)} /\ IsChain(nxt, Items, list)'
    BY ONLY <1>2, ListNow
  <2>2. Registered = {Items[i] : i \in 1..Len(Items)}
    BY <1>1, RegisteredAre
  <2>3. QED
    BY <2>1, <2>2
<1>4. \A i \in 1..Len(Items) : Items[i] \in Registered
  BY <1>1, RegisteredAre
<1>5. InOrder'
  <2>1. \A i, j \in 1..Len(Items) : i < j => id'[Items[i]] < id'[Items[j]]
    BY <1>4 DEF Still, Sound, InOrder
  <2>2. QED
    BY <1>3, <2>1 DEF Sound, InOrder
<1>6. RegistryStep
  BY <1>3 DEF RegistryStep, Idents, Still
<1>7. ASSUME NEW u \in Thread \ {t} PROVE Right(u)'
  <2>1. op'[u] = op[u] /\ pc'[u] = pc[u] /\ cur'[u] = cur[u] /\ want'[u] = want[u] /\ use' = use
    BY DEF Others
  <2>2. Right(u)
    BY DEF Sound
  <2>3. Creating(u)'
    BY <1>3, <2>1, <2>2 DEF Right, Creating, Still, Sound, ListTyped
  <2>4. Deleting(u)'
    BY <1>3, <2>1, <2>2 DEF Right, Deleting, Still
  <2>5. \A b \in Registered : Matches(u, b)' <=> Matches(u, b)
    BY <2>1 DEF Matches, Still
  <2>6. Looking(u)'
    BY <1>3, <1>4, <2>1, <2>2, <2>5 DEF Right, Looking
  <2>7. QED
    BY <2>3, <2>4, <2>6 DEF Right
<1>8. QED
  BY <1>3, <1>5, <1>6, <1>7

\* A step by which t links x, which has the highest identifier.
Links(x) ==
    /\ IsChain(nxt', Append(Items, x), list')
    /\ intact' = intact \cup {x} /\ known' = known \cup {x}
    /\ \A b \in Registered : id'[b] = id[b] /\ name'[b] = name[b] /\ id[b] < id'[x]

LEMMA LinkTheList ==
    ASSUME Sound, NEW t \in Thread, Others(t), Busy(t, "create"),
           NEW x \in Block \ intact, Links(x), id' \in [Block -> Nat]
    PROVE  InOrder' /\ RegistryStep /\ \A u \in Thread \ {t} : Right(u)'
<1>1. IsChain(nxt, Items, list)
  BY DEF Sound, InOrder
<1>2. /\ Registered = {Items[i] : i \in 1..Len(Items)} /\ Registered \subseteq Block
      /\ Items \in Seq(Block) /\ Len(Items) \in Nat
      /\ \A i \in 1..Len(Items) : Items[i] \in Registered
  BY <1>1, RegisteredAre
<1>3. x \notin Registered /\ x \in Block
  BY DEF Sound, InOrder
<1> DEFINE r == Append(Items, x)
<1>4. /\ Items' = r /\ IsChain(nxt, Items, list)'
      /\ Registered' = {r[i] : i \in 1..Len(r)} /\ Len(r) \in Nat
  <2>1. IsChain(nxt', r, list')
    BY DEF Links
  <2>2. QED
    BY ONLY <2>1, ListNow
<1>5. /\ Len(r) = Len(Items) + 1 /\ r[Len(Items) + 1] = x
      /\ \A i \in 1..Len(Items) : r[i] = Items[i]
  BY <1>2, <1>3
<1> HIDE DEF r
<1>6. \A i \in 1..Len(r) : i = Len(Items) + 1 \/ i \in 1..Len(Items)
  BY <1>2, <1>5
<1>7. Registered' = Registered \cup {x}
  <2>1. \A i \in 1..Len(r) : r[i] \in Registered \cup {x}
    BY <1>2, <1>5, <1>6
  <2>2. \A i \in 1..Len(Items) : i \in 1..Len(r)
    BY <1>2, <1>5
  <2>3. Len(Items) + 1 \in 1..Len(r)
    BY <1>2, <1>5
  <2>4. QED
    BY <1>2, <1>4, <1>5, <2>1, <2>2, <2>3
<1>8. InOrder'
  <2>1. ASSUME NEW i \in 1..Len(r), NEW j \in 1..Len(r), i < j PROVE id'[r[i]] < id'[r[j]]
    <3>1. i \in 1..Len(Items)
      BY <1>2, <1>5, <2>1
    <3>2. CASE j \in 1..Len(Items)
      <4>1. id[Items[i]] < id[Items[j]]
        BY <2>1, <3>1, <3>2 DEF Sound, InOrder
      <4>2. QED
        BY <1>2, <1>5, <3>1, <3>2, <4>1 DEF Links
    <3>3. CASE j = Len(Items) + 1
      BY <1>2, <1>5, <3>1, <3>3 DEF Links
    <3>4. QED
      BY <1>6, <3>2, <3>3
  <2>2. Registered' \subseteq intact' /\ known' \subseteq Registered'
    BY <1>7 DEF Links, Sound, InOrder
  <2>3. QED
    BY <1>4, <2>1, <2>2 DEF InOrder
<1>9. RegistryStep
  <2>1. Idents' = [b \in Registered \cup {x} |-> id'[b]]
    BY <1>7 DEF Idents
  <2>2. DOMAIN Idents' = Registered' /\ \A b \in Registered : Idents'[b] = Idents[b]
    BY <1>7, <2>1 DEF Idents, Links
  <2>3. \A b \in Registered : Idents'[x] # Idents'[b]
    BY <1>2, <1>3, <2>1 DEF Links, Sound, ListTyped
  <2>4. Objects!Add(x)
    BY <1>3, <1>7, <2>2, <2>3 DEF Objects!Add, Objects!Keep, Idents
  <2>5. QED
    BY <1>3, <2>4 DEF RegistryStep, Objects!RegistryNext
<1>10. ASSUME NEW u \in Thread \ {t} PROVE Right(u)'
  <2>1. op'[u] = op[u] /\ pc'[u] = pc[u] /\ cur'[u] = cur[u] /\ want'[u] = want[u] /\ use' = use
    BY DEF Others
  <2>2. Right(u) /\ ~Busy(u, "create")
    BY DEF Sound, OnesTurn
  <2>3. Creating(u)'
    BY <2>1, <2>2 DEF Right, Creating, Busy
  <2>4. Deleting(u)'
    BY <1>3, <1>7, <2>1, <2>2 DEF Right, Deleting, Links
  <2>5. \A b \in Registered : Matches(u, b)' <=> Matches(u, b)
    BY <2>1 DEF Matches, Links
  <2>6. Looking(u)'
    <3>1. ASSUME use.apart, pc[u] = "scan"
          PROVE  \E i \in 1..Len(r) :
                     /\ cur[u] = r[i]
                     /\ \A j \in 1..(i - 1) : r[j] \in known' => ~Matches(u, r[j]) /\ r[j] \in Registered
      <4>1. PICK i \in 1..Len(Items) :
                     /\ cur[u] = Items[i]
                     /\ \A j \in 1..(i - 1) : Items[j] \in known => ~Matches(u, Items[j])
        BY <2>2, <3>1 DEF Right, Looking
      <4>2. i \in 1..Len(r) /\ r[i] = Items[i] /\ \A j \in 1..(i - 1) : j \in 1..Len(Items)
        BY <1>2, <1>5
      <4>3. \A j \in 1..(i - 1) : r[j] \in known' => ~Matches(u, r[j]) /\ r[j] \in Registered
        BY <1>2, <1>3, <1>5, <4>1, <4>2 DEF Links
      <4>4. QED
        BY <4>1, <4>2, <4>3
    <3>2. use.apart /\ pc[u] = "got" => cur[u] \in Registered /\ Matches(u, cur[u])
      BY <2>2 DEF Right, Looking
    <3>3. QED
      BY <1>4, <1>7, <2>1, <2>5, <3>1, <3>2 DEF Looking
  <2>7. QED
    BY <2>3, <2>4, <2>6 DEF Right
<1>11. QED
  BY <1>8, <1>9, <1>10

\* A step by which t unlinks the i-th block, which it is to delete.
Unlinks(t, i) ==
    /\ IsChain(nxt', Out(Items, i), list')
    /\ UNCHANGED <<id, name, intact, known>>
    /\ cur[t] = Items[i] /\ cur[t] \notin known

LEMMA UnlinkTheList ==
    ASSUME Tidy, Sound, NEW t \in Thread, Others(t), Busy(t, "delete"),
           NEW i \in 1..Len(Items), Unlinks(t, i)
    PROVE  /\ InOrder' /\ RegistryStep /\ cur[t] \in intact \ Registered'
           /\ \A u \in Thread \ {t} : Right(u)'
<1>1. IsChain(nxt, Items, list)
  BY DEF Sound, InOrder
<1>2. /\ Registered = {Items[k] : k \in 1..Len(Items)} /\ Registered \subseteq Block
      /\ Items \in Seq(Block) /\ Len(Items) \in Nat
      /\ \A k \in 1..Len(Items) : Items[k] \in Registered
      /\ \A j, k \in 1..Len(Items) : Items[j] = Items[k] => j = k
  BY <1>1, RegisteredAre DEF IsChain
<1> DEFINE r == Out(Items, i)
<1>3. /\ Len(r) = Len(Items) - 1
      /\ \A k \in 1..(Len(Items) - 1) : r[k] = Items[IF k < i THEN k ELSE k + 1]
      /\ {r[k] : k \in 1..Len(r)} = {Items[k] : k \in 1..Len(Items)} \ {Items[i]}
  BY ONLY <1>2, OutIs
<1>4. /\ Items' = r /\ IsChain(nxt, Items, list)'
      /\ Registered' = {r[k] : k \in 1..Len(r)}
  <2>1. IsChain(nxt', r, list')
    BY DEF Unlinks
  <2>2. QED
    BY ONLY <2>1, ListNow
<1> HIDE DEF r
<1>5. Registered' = Registered \ {cur[t]} /\ cur[t] \in Registered
  BY <1>2, <1>3, <1>4 DEF Unlinks
<1>6. InOrder'
  <2>1. ASSUME NEW j \in 1..Len(r), NEW k \in 1..Len(r), j < k PROVE id[r[j]] < id[r[k]]
    <3> DEFINE Old(m) == IF m < i THEN m ELSE m + 1
    <3>1. Old(j) \in 1..Len(Items) /\ Old(k) \in 1..Len(Items) /\ Old(j) < Old(k)
      BY <1>2, <1>3, <2>1
    <3>2. r[j] = Items[Old(j)] /\ r[k] = Items[Old(k)]
      BY <1>3
    <3> HIDE DEF Old
    <3>3. id[Items[Old(j)]] < id[Items[Old(k)]]
      BY <3>1 DEF Sound, InOrder
    <3>4. QED
      BY <3>2, <3>3
  <2>2. id' = id /\ intact' = intact /\ known' = known /\ cur[t] \notin known
    BY DEF Unlinks
  <2>3. Registered' \subseteq intact' /\ known' \subseteq Registered'
    BY <1>5, <2>2 DEF Sound, InOrder
  <2>4. QED
    BY <1>4, <2>1, <2>2, <2>3 DEF InOrder
<1>7. RegistryStep
  <2>1. DOMAIN Idents' = Registered' /\ \A b \in Registered \cap Registered' : Idents'[b] = Idents[b]
    BY DEF Idents, Unlinks
  <2>2. Objects!Remove(cur[t])
    BY <1>5, <2>1 DEF Objects!Remove, Objects!Keep, Idents
  <2>3. QED
    BY <1>2, <1>5, <2>2 DEF RegistryStep, Objects!RegistryNext
<1>8. ASSUME NEW u \in Thread \ {t} PROVE Right(u)'
  <2>1. op'[u] = op[u] /\ pc'[u] = pc[u] /\ cur'[u] = cur[u] /\ want'[u] = want[u] /\ use' = use
        /\ id' = id /\ intact' = intact
    BY DEF Others, Unlinks
  <2>2. Right(u) /\ ~Busy(u, "delete") /\ (use.apart => pc[u] = "idle")
    BY DEF Sound, OnesTurn
  <2>3. CASE pc[u] = "idle"
    BY <2>1, <2>3 DEF Right, Creating, Deleting, Looking
  <2>4. CASE pc[u] # "idle"
    <3>1. ~use.apart /\ use.kind # "task" /\ op[u] # "delete"
      BY <2>2, <2>4 DEF Tidy, OneDeleter, Busy
    <3>2. Creating(u)'
      BY <1>5, <2>1, <2>2, <3>1 DEF Right, Creating
    <3>3. Deleting(u)'
      BY <2>1, <2>2, <3>1 DEF Right, Deleting
    <3>4. QED
      BY <2>1, <3>1, <3>2, <3>3 DEF Right, Looking
  <2>5. QED
    BY <2>3, <2>4
<1>9. QED
  BY <1>5, <1>6, <1>7, <1>8 DEF Sound, InOrder

\* The parts of the invariant, after a step of t.
LEMMA StaysSound ==
    ASSUME Tidy, Sound, NEW t \in Thread, Others(t), ListTyped', InOrder', Right(t)',
           \A u \in Thread \ {t} : Right(u)',
           \/ op'[t] = op[t] /\ pc[t] # "idle"
           \/ pc[t] = "idle" /\ \E o \in use.ops[t] : Begin(t, o)
    PROVE  Sound'
<1>1. OnesTurn'
  BY TurnKept DEF Sound, ListTyped
<1>2. QED
  BY <1>1 DEF Sound

\* Between calls there is nothing to be right about.
LEMMA IdleIsRight == ASSUME NEW t \in Thread, pc'[t] = "idle" PROVE Right(t)'
BY DEF Right, Creating, Deleting, Looking

\* The next identifier is above all.
LEMMA Highest ==
    ASSUME Sound, NEW none \in Nat
    PROVE  NextId(none) \in Nat /\ \A b \in Registered : id[b] < NextId(none)
<1>1. IsChain(nxt, Items, list) /\ id \in [Block -> Nat]
  BY DEF Sound, InOrder, ListTyped
<1>2. /\ Registered = {Items[i] : i \in 1..Len(Items)} /\ Registered \subseteq Block /\ Len(Items) \in Nat
      /\ (list = Nil <=> Items = <<>>) /\ (list # Nil => 1 \in 1..Len(Items))
      /\ Items \in Seq(Block)
  BY <1>1, RegisteredAre
<1>3. CASE list = Nil
  <2>1. Registered = {}
    BY <1>2, <1>3
  <2>2. QED
    BY <1>3, <2>1 DEF NextId
<1>4. CASE list # Nil
  <2> DEFINE ids == {id[b] : b \in Registered}
             last == Items[Len(Items)]
  <2>1. Len(Items) \in 1..Len(Items)
    BY <1>2, <1>4
  <2>2. last \in Registered
    BY <1>2, <2>1
  <2>3. \A i \in 1..Len(Items) : id[Items[i]] <= id[last]
    <3>1. ASSUME NEW i \in 1..Len(Items) PROVE id[Items[i]] <= id[last]
      <4>1. i = Len(Items) \/ i < Len(Items)
        BY <1>2
      <4>2. i < Len(Items) => id[Items[i]] < id[last]
        BY <2>1 DEF Sound, InOrder
      <4>3. Items[i] \in Block /\ last \in Block
        BY <1>2, <2>2
      <4>4. id[Items[i]] \in Nat /\ id[last] \in Nat
        BY <1>1, <4>3
      <4>5. QED
        BY <4>1, <4>2, <4>4
    <3>2. QED
      BY <3>1
  <2>4. id[last] \in ids /\ \A j \in ids : j <= id[last]
    BY <1>2, <2>2, <2>3
  <2>5. HighestId = CHOOSE i \in ids : \A j \in ids : j <= i
    BY DEF HighestId, Registered
  <2>6. HighestId \in ids /\ \A j \in ids : j <= HighestId
    BY <2>4, <2>5
  <2>7. ids \subseteq Nat
    BY <1>1, <1>2
  <2>8. \A b \in Registered : id[b] \in ids
    OBVIOUS
  <2> HIDE DEF ids
  <2>9. HighestId \in Nat /\ \A b \in Registered : id[b] \in Nat /\ id[b] <= HighestId
    BY <2>6, <2>7, <2>8
  <2>10. NextId(none) = HighestId + 1
    BY <1>4 DEF NextId
  <2>11. \A h \in Nat : h + 1 \in Nat /\ \A k \in Nat : k <= h => k < h + 1
    OBVIOUS
  <2>12. QED
    BY ONLY <2>9, <2>10, <2>11, Zenon
<1>5. QED
  BY <1>3, <1>4

\* A control block is allocated and gets the next identifier.
LEMMA CreateStep ==
    ASSUME Tidy, Sound, NEW t \in Thread, "create" \in use.ops[t], use.kind # "task",
           NEW newid \in Nat, \A b \in Registered : id[b] < newid, Create(t, newid)
    PROVE  Sound' /\ RegistryStep
<1>1. PICK x \in Block \ Allocated, n \in Name :
        /\ cur' = [cur EXCEPT ![t] = x]
        /\ id' = [id EXCEPT ![x] = newid]
        /\ name' = [name EXCEPT ![x] = n]
  BY DEF Create
<1>2. /\ pc[t] = "idle" /\ pc' = [pc EXCEPT ![t] = "link"] /\ op' = [op EXCEPT ![t] = "create"]
      /\ UNCHANGED <<list, nxt, intact, known, want, use>> /\ Begin(t, "create")
  BY DEF Create, Goto, Begin
<1>3. ListTyped /\ InOrder /\ x \notin intact /\ Registered \subseteq intact
  BY <1>1 DEF Sound, InOrder, Allocated
<1>4. Others(t) /\ op'[t] = "create" /\ pc'[t] = "link" /\ cur'[t] = x
  BY <1>1, <1>2, <1>3 DEF Others, ListTyped
<1>5. Still
  BY <1>1, <1>2, <1>3 DEF Still, ListTyped
<1>6. ASSUME NEW u \in Thread \ {t}
      PROVE  pc[u] # "link" /\ (pc[u] = "free" => cur[u] \in intact')
  <2>1. op[u] = "create" => pc[u] = "idle"
    BY <1>2 DEF Begin, Tidy
  <2>2. Right(u)
    BY DEF Sound
  <2>3. QED
    BY <1>2, <2>1, <2>2 DEF Right, Creating, Deleting
<1>7. /\ InOrder' /\ RegistryStep /\ Registered' = Registered
      /\ \A u \in Thread \ {t} : Right(u)'
  BY <1>2, <1>3, <1>4, <1>5, <1>6, StillTheList
<1>8. ListTyped'
  BY <1>1, <1>2, <1>3 DEF ListTyped
<1>9. Right(t)'
  <2>1. \A b \in Registered' : id'[b] < id'[x]
    BY <1>1, <1>3, <1>7 DEF ListTyped
  <2>2. Creating(t)'
    BY <1>2, <1>3, <1>4, <2>1 DEF Creating
  <2>3. QED
    BY <1>4, <2>2 DEF Right, Deleting, Looking
<1>10. QED
  BY <1>2, <1>4, <1>7, <1>8, <1>9, StaysSound

\* A task's identifier begins to be found.
LEMMA CreateTaskStep ==
    ASSUME Tidy, Sound, NEW t \in Thread, "create" \in use.ops[t], t_create(t)
    PROVE  Sound' /\ RegistryStep
<1> DEFINE place == IF list = Nil THEN "link" ELSE "count"
           highest == IF list = Nil THEN 0 ELSE id[list]
<1>1. /\ pc[t] = "idle" /\ pc' = [pc EXCEPT ![t] = place] /\ op' = [op EXCEPT ![t] = "create"]
      /\ cur' = [cur EXCEPT ![t] = list] /\ want' = [want EXCEPT ![t] = highest]
      /\ UNCHANGED <<list, nxt, id, name, intact, known, use>> /\ Begin(t, "create")
      /\ use.kind = "task"
  BY DEF t_create, Goto, Begin
<1>2. ListTyped /\ InOrder /\ Registered \subseteq intact /\ Registered \subseteq Block
  BY RegisteredAre DEF Sound, InOrder
<1>3. Others(t) /\ op'[t] = "create" /\ pc'[t] = place /\ cur'[t] = list /\ want'[t] = highest
  BY <1>1, <1>2 DEF Others, ListTyped
<1>4. Still
  BY <1>1 DEF Still
<1>5. ASSUME NEW u \in Thread \ {t}
      PROVE  pc[u] # "link" /\ (pc[u] = "free" => cur[u] \in intact')
  <2>1. op[u] = "create" => pc[u] = "idle"
    BY <1>1 DEF Begin, Tidy
  <2>2. Right(u)
    BY DEF Sound
  <2>3. QED
    BY <1>1, <2>1, <2>2 DEF Right, Creating, Deleting
<1>6. /\ InOrder' /\ RegistryStep /\ Registered' = Registered
      /\ \A u \in Thread \ {t} : Right(u)'
  BY <1>1, <1>2, <1>3, <1>4, <1>5, StillTheList
<1>7. ListTyped'
  BY <1>1, <1>2 DEF ListTyped
<1>8. Right(t)'
  <2>1. CASE list = Nil
    <3>1. Registered = {}
      BY <1>2, <2>1, RegisteredAre DEF InOrder
    <3>2. QED
      BY <1>1, <1>3, <1>6, <2>1, <3>1 DEF Right, Creating, Deleting, Looking
  <2>2. CASE list # Nil
    <3>1. list \in Registered /\ id[list] \in Nat
      BY <1>2, <2>2, RegisteredAre DEF InOrder, ListTyped
    <3>2. QED
      BY <1>1, <1>3, <1>6, <2>2, <3>1 DEF Right, Creating, Deleting, Looking
  <2>3. QED
    BY <2>1, <2>2
<1>9. QED
  BY <1>1, <1>3, <1>6, <1>7, <1>8, StaysSound

\* A step of a call that leaves the list and the objects alone.
LEMMA CallStep ==
    ASSUME Tidy, Sound, NEW t \in Thread, Others(t), ListTyped', pc[t] # "idle", op'[t] = op[t],
           UNCHANGED <<list, nxt, id, name, intact, known>>, Registered' = Registered => Right(t)'
    PROVE  Sound' /\ RegistryStep
<1>1. Still /\ Registered \subseteq intact'
  BY DEF Still, Sound, InOrder
<1>2. ASSUME NEW u \in Thread \ {t}
      PROVE  /\ pc[u] = "link" /\ use.kind # "task" => id'[cur[u]] = id[cur[u]] /\ cur[u] \notin intact'
             /\ pc[u] = "free" => cur[u] \in intact'
  <2>1. Right(u)
    BY DEF Sound
  <2>2. QED
    BY <2>1 DEF Right, Creating, Deleting
<1>3. /\ InOrder' /\ RegistryStep /\ Registered' = Registered
      /\ \A u \in Thread \ {t} : Right(u)'
  BY <1>1, <1>2, StillTheList
<1>4. QED
  BY <1>3, StaysSound

\* Where a block of the list leads.
LEMMA Ahead ==
    ASSUME Sound, NEW i \in 1..Len(Items)
    PROVE  /\ Items[i] \in intact \cap Block
           /\ nxt[Items[i]] = IF i < Len(Items) THEN Items[i + 1] ELSE Nil
           /\ i < Len(Items) => i + 1 \in 1..Len(Items) /\ Items[i + 1] # Nil
<1>1. IsChain(nxt, Items, list) /\ Registered \subseteq intact
  BY DEF Sound, InOrder
<1>2. /\ Registered \subseteq Block /\ Len(Items) \in Nat
      /\ \A k \in 1..Len(Items) : Items[k] \in Registered
  BY <1>1, RegisteredAre
<1>3. i < Len(Items) => i + 1 \in 1..Len(Items)
  BY <1>2
<1>4. QED
  BY <1>1, <1>2, <1>3, NilAssumption DEF IsChain

\* A task's identifier grows while the list is followed.
LEMMA CountStep ==
    ASSUME Tidy, Sound, NEW t \in Thread, new_tid(t)
    PROVE  Sound' /\ RegistryStep
<1>1. ListTyped /\ InOrder /\ Right(t) /\ IsChain(nxt, Items, list)
  BY DEF Sound, InOrder
<1>2. /\ Registered = {Items[i] : i \in 1..Len(Items)} /\ Registered \subseteq Block
      /\ Len(Items) \in Nat /\ \A i \in 1..Len(Items) : Items[i] \in Registered
  BY <1>1, RegisteredAre
<1>3. /\ pc[t] = "count" /\ op[t] = "create" /\ use.kind = "task" /\ cur[t] \in Registered
      /\ want[t] \in Nat /\ id[cur[t]] <= want[t]
  BY <1>1 DEF new_tid, Right, Creating
<1>4. PICK i \in 1..Len(Items) : cur[t] = Items[i]
  BY <1>2, <1>3
<1>5. UNCHANGED <<list, nxt, id, name, intact, known, made, op, use>>
  BY DEF new_tid
<1>6. PICK b \in {nxt[Items[i]]} :
         /\ cur' = [cur EXCEPT ![t] = b]
         /\ \/ b = Nil /\ Goto(t, "count", "link") /\ UNCHANGED want
            \/ b # Nil /\ UNCHANGED pc
               /\ \E k \in IdOf(b) : want' = [want EXCEPT ![t] = IF k > @ THEN k ELSE @]
  <2>1. NxtOf(cur[t]) = {nxt[Items[i]]}
    BY <1>4, Ahead DEF NxtOf
  <2>2. QED
    BY <2>1 DEF new_tid
<1>7. CASE b = Nil
  <2>1. pc' = [pc EXCEPT ![t] = "link"] /\ want' = want
    BY <1>6, <1>7 DEF Goto
  <2>2. i = Len(Items)
    BY <1>2, <1>6, <1>7, Ahead
  <2>3. \A c \in Registered : id[c] <= want[t]
    <3>1. ASSUME NEW k \in 1..Len(Items) PROVE id[Items[k]] <= want[t]
      <4>1. k = i \/ k < i
        BY <1>2, <2>2
      <4>2. id[Items[k]] \in Nat /\ id[Items[i]] \in Nat
        BY <1>1, <1>2 DEF ListTyped
      <4>3. k < i => id[Items[k]] < id[Items[i]]
        BY <1>1 DEF InOrder
      <4>4. QED
        BY <1>3, <1>4, <4>1, <4>2, <4>3
    <3>2. QED
      BY <1>2, <3>1
  <2>4. Others(t) /\ ListTyped' /\ pc'[t] = "link" /\ cur'[t] = Nil /\ op'[t] = op[t]
    BY <1>1, <1>5, <1>6, <1>7, <2>1 DEF Others, ListTyped
  <2>5. Registered' = Registered => Right(t)'
    BY <1>3, <1>5, <2>1, <2>3, <2>4 DEF Right, Creating, Deleting, Looking
  <2>6. QED
    BY <1>3, <1>5, <2>4, <2>5, CallStep
<1>8. CASE b # Nil
  <2>1. i < Len(Items) /\ b = Items[i + 1] /\ i + 1 \in 1..Len(Items)
    BY <1>6, <1>8, Ahead
  <2>2. b \in Registered /\ id[b] \in Nat /\ b \in intact
    BY <1>1, <1>2, <2>1 DEF ListTyped, InOrder
  <2>3. pc' = pc /\ want' = [want EXCEPT ![t] = IF id[b] > @ THEN id[b] ELSE @]
    BY <1>6, <1>8, <2>2 DEF IdOf
  <2>4. Others(t) /\ ListTyped' /\ cur'[t] = b /\ op'[t] = op[t]
    BY <1>1, <1>5, <1>6, <2>3 DEF Others, ListTyped
  <2>5. want'[t] \in Nat /\ id[b] <= want'[t]
    BY <1>1, <1>3, <2>2, <2>3 DEF ListTyped
  <2>6. Registered' = Registered => Right(t)'
    BY <1>3, <1>5, <2>2, <2>3, <2>4, <2>5 DEF Right, Creating, Deleting, Looking
  <2>7. QED
    BY <1>3, <1>5, <2>4, <2>6, CallStep
<1>9. QED
  BY <1>7, <1>8

\* Linking behind the last block.
LEMMA AtTheEnd ==
    ASSUME Sound, NEW x \in Block \ intact,
           \/ list = Nil /\ InsertFirst(x)
           \/ list # Nil /\ InsertAfter(Len(Items), x)
    PROVE  IsChain(nxt', Append(Items, x), list')
<1>1. IsChain(nxt, Items, list) /\ Registered \subseteq intact /\ DOMAIN nxt = Block
  BY DEF Sound, InOrder, ListTyped
<1>2. /\ Registered \subseteq Block /\ Len(Items) \in Nat
      /\ \A i \in 1..Len(Items) : Items[i] \in Registered
      /\ (list = Nil <=> Items = <<>>) /\ (Items = <<>> <=> Len(Items) = 0)
      /\ \A i, j \in 1..Len(Items) : Items[i] = Items[j] => i = j
  BY <1>1, RegisteredAre DEF IsChain
<1>3. \A i \in 1..Len(Items) : Items[i] # x
  BY <1>1, <1>2
<1>4. CASE list = Nil /\ InsertFirst(x)
  <2>1. list' = x /\ nxt'[x] = Nil
    BY <1>1, <1>4 DEF InsertFirst
  <2>2. \A i \in 1..Len(Items) : nxt'[Items[i]] = IF i < Len(Items) THEN nxt[Items[i]] ELSE x
    BY <1>2, <1>4
  <2>3. list' = IF Items = <<>> THEN x ELSE list
    BY <1>2, <1>4, <2>1
  <2>4. QED
    BY <1>1, <1>3, <2>1, <2>2, <2>3, ChainLinked
<1>5. CASE list # Nil /\ InsertAfter(Len(Items), x)
  <2>1. Len(Items) \in 1..Len(Items)
    BY <1>2, <1>5
  <2>2. nxt[Items[Len(Items)]] = Nil
    BY <2>1, Ahead
  <2>3. list' = list /\ nxt' = [nxt EXCEPT ![x] = Nil, ![Items[Len(Items)]] = x]
    BY <1>5, <2>2 DEF InsertAfter
  <2>4. nxt'[x] = Nil
    BY <1>1, <1>3, <2>1, <2>3
  <2>5. ASSUME NEW i \in 1..Len(Items)
        PROVE nxt'[Items[i]] = IF i < Len(Items) THEN nxt[Items[i]] ELSE x
    <3>1. Items[i] \in Block /\ Items[i] # x /\ (Items[i] = Items[Len(Items)] <=> i = Len(Items))
      BY <1>2, <1>3, <2>1
    <3>2. i < Len(Items) <=> i # Len(Items)
      BY <1>2
    <3>3. QED
      BY <1>1, <2>3, <3>1, <3>2
  <2>6. list' = IF Items = <<>> THEN x ELSE list
    BY <1>2, <1>5, <2>3
  <2>7. QED
    BY <1>1, <1>3, <2>4, <2>5, <2>6, ChainLinked
<1>6. QED
  BY <1>4, <1>5

\* What has the highest identifier is sorted in at the end.
LEMMA SortedIsLast ==
    ASSUME Sound, NEW x \in Block \ intact, \A b \in Registered : id[b] < id[x], LinkSorted(x)
    PROVE  LinkLast(x)
<1>1. IsChain(nxt, Items, list) /\ id \in [Block -> Nat]
  BY DEF Sound, InOrder, ListTyped
<1>2. /\ Registered \subseteq Block /\ Len(Items) \in Nat
      /\ \A i \in 1..Len(Items) : Items[i] \in Registered
      /\ (list = Nil <=> Items = <<>>) /\ (Items = <<>> <=> Len(Items) = 0)
      /\ DOMAIN Items = 1..Len(Items)
  BY <1>1, RegisteredAre DEF IsChain
<1> DEFINE n == Len(Items)
<1>3. /\ \A m \in Nat : \A i \in 1..m : i # m => i + 1 \in 1..m
      /\ \A m \in Nat : \A j \in 1..(m - 1) : j \in 1..m /\ j # m
  OBVIOUS
<1>4. /\ \A i \in 1..n : i # n => i + 1 \in 1..n
      /\ \A j \in 1..(n - 1) : j \in 1..n /\ j # n
  BY <1>2, <1>3, Zenon
<1>5. CASE list # Nil
  <2> DEFINE Here(i) == i = Len(Items) \/ id[Items[i + 1]] > id[x]
             place == CHOOSE i \in DOMAIN Items : Here(i) /\ \A j \in 1..(i - 1) : ~Here(j)
  <2>1. Len(Items) \in DOMAIN Items
    BY <1>2, <1>5
  <2>2. \A i \in DOMAIN Items : Here(i) <=> i = Len(Items)
    <3>1. ASSUME NEW i \in 1..Len(Items), i # Len(Items) PROVE ~(id[Items[i + 1]] > id[x])
      <4>1. i + 1 \in 1..Len(Items)
        BY <1>4, <3>1
      <4>2. Items[i + 1] \in Registered /\ Items[i + 1] \in Block
        BY <1>2, <4>1
      <4>3. id[Items[i + 1]] < id[x] /\ id[Items[i + 1]] \in Nat /\ id[x] \in Nat
        BY <1>1, <4>2
      <4>4. QED
        BY <4>3
    <3>2. QED
      BY <1>2, <3>1
  <2>3. \A j \in 1..(Len(Items) - 1) : j \in DOMAIN Items /\ j # Len(Items)
    BY <1>2, <1>4
  <2> HIDE DEF Here
  <2>4. place = Len(Items)
    <3>1. Here(Len(Items)) /\ \A j \in 1..(Len(Items) - 1) : ~Here(j)
      BY <2>1, <2>2, <2>3
    <3>2. place \in DOMAIN Items /\ Here(place)
      BY <2>1, <3>1
    <3>3. QED
      BY <2>2, <3>2
  <2>5. InsertAfter(place, x)
    BY <1>5 DEF LinkSorted, Here
  <2> HIDE DEF place
  <2>6. QED
    BY <1>5, <2>4, <2>5 DEF LinkLast
<1>6. QED
  BY <1>5 DEF LinkSorted, LinkLast

\* An object is linked.
LEMMA LinkStep ==
    ASSUME Tidy, Sound, NEW t \in Thread, LinkOwn(t), use.kind # "task"
    PROVE  Sound' /\ RegistryStep
<1>1. /\ ListTyped /\ InOrder /\ Registered \subseteq intact /\ pc[t] = "link" /\ op[t] = "create"
      /\ cur[t] \in Block \ intact /\ \A b \in Registered : id[b] < id[cur[t]]
  BY DEF LinkOwn, Sound, Right, Creating, InOrder
<1> DEFINE x == cur[t]
<1>2. /\ pc' = [pc EXCEPT ![t] = "idle"] /\ intact' = intact \cup {x} /\ known' = known \cup {x}
      /\ Forget(t) /\ UNCHANGED <<made, op, use, id, name>> /\ LinkSorted(x)
  BY DEF LinkOwn, Linked, Goto
<1>3. LinkLast(x)
  BY <1>1, <1>2, SortedIsLast
<1>4. IsChain(nxt', Append(Items, x), list') /\ DOMAIN nxt' = Block
  BY <1>1, <1>3, AtTheEnd DEF LinkLast, InsertFirst, InsertAfter, ListTyped
<1>5. Others(t) /\ ListTyped' /\ pc'[t] = "idle" /\ op'[t] = op[t]
  BY <1>1, <1>2, <1>4 DEF Others, ListTyped, Forget
<1>6. Links(x) /\ Busy(t, "create") /\ id' \in [Block -> Nat]
  BY <1>1, <1>2, <1>4 DEF Links, Busy, ListTyped
<1>7. InOrder' /\ RegistryStep /\ \A u \in Thread \ {t} : Right(u)'
  BY <1>1, <1>5, <1>6, LinkTheList
<1>8. QED
  BY <1>1, <1>5, <1>7, StaysSound, IdleIsRight

\* A task is linked.
LEMMA LinkTaskStep ==
    ASSUME Tidy, Sound, NEW t \in Thread, link_tcb(t)
    PROVE  Sound' /\ RegistryStep
<1>1. PICK x \in Block \ Allocated, n \in Name :
         /\ LinkLast(x) /\ Linked(t, x)
         /\ id' = [id EXCEPT ![x] = want[t] + 1]
         /\ name' = [name EXCEPT ![x] = n]
  BY DEF link_tcb
<1>2. /\ pc[t] = "link" /\ pc' = [pc EXCEPT ![t] = "idle"] /\ intact' = intact \cup {x}
      /\ known' = known \cup {x} /\ Forget(t) /\ UNCHANGED <<made, op, use>>
  BY <1>1 DEF Linked, Goto
<1>3. /\ ListTyped /\ InOrder /\ Registered \subseteq intact /\ Registered \subseteq Block
      /\ op[t] = "create" /\ x \in Block \ intact /\ want[t] \in Nat
      /\ \A b \in Registered : id[b] <= want[t]
  BY <1>1, <1>2, RegisteredAre DEF link_tcb, Sound, Right, Creating, InOrder, Allocated
<1>4. IsChain(nxt', Append(Items, x), list') /\ DOMAIN nxt' = Block
  BY <1>1, <1>3, AtTheEnd DEF LinkLast, InsertFirst, InsertAfter, ListTyped
<1>5. Others(t) /\ ListTyped' /\ pc'[t] = "idle" /\ op'[t] = op[t]
  BY <1>1, <1>2, <1>3, <1>4 DEF Others, ListTyped, Forget
<1>6. \A b \in Registered : id[b] < want[t] + 1
  BY <1>3 DEF ListTyped
<1>7. Links(x) /\ Busy(t, "create") /\ id' \in [Block -> Nat]
  BY <1>1, <1>2, <1>3, <1>4, <1>6 DEF Links, Busy, ListTyped
<1>8. InOrder' /\ RegistryStep /\ \A u \in Thread \ {t} : Right(u)'
  BY <1>3, <1>5, <1>7, LinkTheList
<1>9. QED
  BY <1>2, <1>5, <1>8, StaysSound, IdleIsRight

\* A block that was not linked yet is freed again.
LEMMA RejectStep ==
    ASSUME Tidy, Sound, NEW t \in Thread, Reject(t)
    PROVE  Sound' /\ RegistryStep
<1>1. /\ pc[t] = "link" /\ pc' = [pc EXCEPT ![t] = "idle"] /\ Forget(t)
      /\ UNCHANGED <<list, intact, known, made, op, use>>
      /\ IF cur[t] = Nil THEN UNCHANGED <<nxt, id, name>> ELSE Release(cur[t])
  BY DEF Reject, Goto
<1>2. /\ ListTyped /\ InOrder /\ op[t] = "create" /\ Registered \subseteq intact
      /\ (cur[t] # Nil => cur[t] \in Block \ intact)
  BY <1>1 DEF Sound, InOrder, Right, Creating
<1>3. /\ DOMAIN nxt' = Block /\ DOMAIN name' = Block /\ id' \in [Block -> Nat]
      /\ \A b \in intact : nxt'[b] = nxt[b] /\ id'[b] = id[b] /\ name'[b] = name[b]
  BY <1>1, <1>2 DEF Release, ListTyped
<1>4. Others(t) /\ ListTyped' /\ pc'[t] = "idle" /\ op'[t] = op[t]
  BY <1>1, <1>2, <1>3 DEF Others, ListTyped, Forget
<1>5. Still
  BY <1>1, <1>2, <1>3 DEF Still
<1>6. ASSUME NEW u \in Thread \ {t}
      PROVE  pc[u] # "link" /\ (pc[u] = "free" => cur[u] \in intact')
  <2>1. Right(u) /\ (Busy(u, "create") => u = t)
    BY <1>1, <1>2 DEF Sound, OnesTurn, Busy
  <2>2. QED
    BY <1>1, <2>1 DEF Right, Creating, Deleting, Busy
<1>7. InOrder' /\ RegistryStep /\ \A u \in Thread \ {t} : Right(u)'
  BY <1>1, <1>2, <1>4, <1>5, <1>6, StillTheList
<1>8. QED
  BY <1>1, <1>4, <1>7, StaysSound, IdleIsRight

\* A search begins at the head.
LEMMA FindStep ==
    ASSUME Tidy, Sound, NEW t \in Thread, NEW o \in use.ops[t], o # "create", NEW w, Find(t, o, w),
           known' \subseteq known, o = "delete" => \E b \in Registered \ known' : id[b] = w
    PROVE  Sound' /\ RegistryStep
<1>1. /\ pc[t] = "idle" /\ pc' = [pc EXCEPT ![t] = "scan"] /\ op' = [op EXCEPT ![t] = o]
      /\ cur' = [cur EXCEPT ![t] = list] /\ want' = [want EXCEPT ![t] = w]
      /\ UNCHANGED <<list, nxt, id, name, intact, use>> /\ Begin(t, o) /\ list # Nil
  BY DEF Find, Goto, Begin
<1>2. ListTyped /\ InOrder /\ IsChain(nxt, Items, list) /\ Registered \subseteq intact
  BY DEF Sound, InOrder
<1>3. list \in Registered /\ list = Items[1] /\ 1 \in 1..Len(Items)
  BY <1>1, <1>2, RegisteredAre
<1>4. Others(t) /\ ListTyped' /\ op'[t] = o /\ pc'[t] = "scan" /\ cur'[t] = list /\ want'[t] = w
  BY <1>1, <1>2 DEF Others, ListTyped
<1>5. Still
  BY <1>1 DEF Still
<1>6. ASSUME NEW u \in Thread \ {t}
      PROVE  /\ pc[u] = "link" /\ use.kind # "task" => id'[cur[u]] = id[cur[u]] /\ cur[u] \notin intact'
             /\ pc[u] = "free" => cur[u] \in intact'
  <2>1. Right(u)
    BY DEF Sound
  <2>2. QED
    BY <1>1, <2>1 DEF Right, Creating, Deleting
<1>7. /\ InOrder' /\ RegistryStep /\ Registered' = Registered /\ Items' = Items
      /\ \A u \in Thread \ {t} : Right(u)'
  BY <1>1, <1>2, <1>4, <1>5, <1>6, StillTheList
<1>8. Right(t)'
  <2>1. Creating(t)'
    BY <1>4 DEF Creating
  <2>2. Deleting(t)'
    BY <1>1, <1>3, <1>4, <1>7 DEF Deleting
  <2>3. Looking(t)'
    BY <1>3, <1>4, <1>7 DEF Looking
  <2>4. QED
    BY <2>1, <2>2, <2>3 DEF Right
<1>9. QED
  BY <1>1, <1>4, <1>7, <1>8, StaysSound

\* A search takes one turn.
LEMMA ScanStep ==
    ASSUME Tidy, Sound, NEW t \in Thread, Scan(t)
    PROVE  Sound' /\ RegistryStep
<1>1. pc[t] = "scan" /\ UNCHANGED <<list, nxt, id, name, intact, known, made, op, use>>
  BY DEF Scan
<1>2. ListTyped /\ InOrder /\ Right(t) /\ IsChain(nxt, Items, list) /\ Registered \subseteq intact
  BY DEF Sound, InOrder
<1>3. /\ Registered = {Items[i] : i \in 1..Len(Items)} /\ Len(Items) \in Nat
      /\ \A i \in 1..Len(Items) : Items[i] \in Registered
  BY <1>2, RegisteredAre
<1>4. op[t] # "create" /\ (op[t] = "delete" => cur[t] \in Registered /\ \E b \in Registered \ known : id[b] = want[t])
  BY <1>1, <1>2 DEF Right, Deleting
<1>5. CASE (cur[t] \in intact => Matches(t, cur[t])) /\ Goto(t, "scan", "got") /\ UNCHANGED <<cur, want>>
  <2>1. pc' = [pc EXCEPT ![t] = "got"] /\ cur' = cur /\ want' = want
    BY <1>5 DEF Goto
  <2>2. Others(t) /\ ListTyped' /\ pc'[t] = "got" /\ op'[t] = op[t]
    BY <1>1, <1>2, <2>1 DEF Others, ListTyped
  <2>3. ASSUME Registered' = Registered PROVE Right(t)'
    <3>1. Deleting(t)'
      BY <1>1, <1>2, <1>4, <1>5, <2>1, <2>2, <2>3 DEF Deleting, Matches
    <3>2. use.apart => cur[t] \in Registered
      BY <1>1, <1>2, <1>3 DEF Right, Looking
    <3>3. Matches(t, cur[t])' <=> Matches(t, cur[t])
      BY <1>1, <2>1 DEF Matches
    <3>4. Looking(t)'
      BY <1>1, <1>2, <1>5, <2>1, <2>2, <2>3, <3>2, <3>3 DEF Looking
    <3>5. QED
      BY <2>2, <3>1, <3>4 DEF Right, Creating
  <2>4. QED
    BY <1>1, <2>2, <2>3, CallStep
<1>6. CASE /\ cur[t] \in intact => ~Matches(t, cur[t])
           /\ \E b \in NxtOf(cur[t]) :
                IF b = Nil THEN Goto(t, "scan", "idle") /\ Forget(t)
                ELSE cur' = [cur EXCEPT ![t] = b] /\ UNCHANGED <<pc, want>>
  <2>1. PICK b \in NxtOf(cur[t]) :
             IF b = Nil THEN Goto(t, "scan", "idle") /\ Forget(t)
             ELSE cur' = [cur EXCEPT ![t] = b] /\ UNCHANGED <<pc, want>>
    BY <1>6
  <2>2. CASE b = Nil
    <3>1. pc' = [pc EXCEPT ![t] = "idle"] /\ Forget(t)
      BY <2>1, <2>2 DEF Goto
    <3>2. Others(t) /\ ListTyped' /\ pc'[t] = "idle" /\ op'[t] = op[t]
      BY <1>1, <1>2, <3>1 DEF Others, ListTyped, Forget
    <3>3. QED
      BY <1>1, <3>2, CallStep, IdleIsRight
  <2>3. CASE b # Nil
    <3>1. cur' = [cur EXCEPT ![t] = b] /\ pc' = pc /\ want' = want
      BY <2>1, <2>3
    <3>2. Others(t) /\ ListTyped' /\ cur'[t] = b /\ op'[t] = op[t]
      BY <1>1, <1>2, <3>1 DEF Others, ListTyped
    <3>3. ASSUME NEW i \in 1..Len(Items), cur[t] = Items[i]
          PROVE  i + 1 \in 1..Len(Items) /\ b = Items[i + 1]
      <4>1. cur[t] \in intact /\ b = nxt[Items[i]]
        BY <2>1, <3>3, Ahead DEF NxtOf
      <4>2. QED
        BY <2>3, <3>3, <4>1, Ahead
    <3>4. cur[t] \in Registered => b \in Registered
      BY <1>3, <3>3
    <3>5. ASSUME Registered' = Registered PROVE Right(t)'
      <4>1. Deleting(t)'
        BY <1>1, <1>4, <3>1, <3>2, <3>4, <3>5 DEF Deleting
      <4>2. Looking(t)'
        <5> SUFFICES ASSUME use.apart PROVE Looking(t)'
          BY <1>1 DEF Looking
        <5>1. PICK i \in 1..Len(Items) :
                 /\ cur[t] = Items[i]
                 /\ \A j \in 1..(i - 1) : Items[j] \in known => ~Matches(t, Items[j])
          BY <1>1, <1>2 DEF Right, Looking
        <5>2. i + 1 \in 1..Len(Items) /\ b = Items[i + 1]
          BY <3>3, <5>1
        <5>3. ~Matches(t, Items[i])
          BY <1>2, <1>3, <1>6, <5>1
        <5>4. \A j \in 1..((i + 1) - 1) : j \in 1..(i - 1) \/ j = i
          OBVIOUS
        <5>5. \A j \in 1..((i + 1) - 1) : Items[j] \in known => ~Matches(t, Items[j])
          BY <5>1, <5>3, <5>4
        <5>6. Items' = Items
          BY <1>1 DEF Items
        <5>7. \A c : Matches(t, c)' <=> Matches(t, c)
          BY <1>1, <3>1 DEF Matches
        <5>8. QED
          BY <1>1, <3>1, <3>2, <5>2, <5>5, <5>6, <5>7 DEF Looking
      <4>3. QED
        BY <1>1, <3>1, <4>1, <4>2 DEF Right, Creating
    <3>6. QED
      BY <1>1, <3>2, <3>5, CallStep
  <2>4. QED
    BY <2>2, <2>3
<1>7. QED
  BY <1>5, <1>6 DEF Scan

\* A call returns.
LEMMA DoneStep ==
    ASSUME Tidy, Sound, NEW t \in Thread, Done(t)
    PROVE  Sound' /\ RegistryStep
<1>1. /\ pc[t] = "got" /\ pc' = [pc EXCEPT ![t] = "idle"] /\ Forget(t)
      /\ UNCHANGED <<list, nxt, id, name, intact, known, made, op, use>>
  BY DEF Done, Goto
<1>2. Others(t) /\ ListTyped' /\ pc'[t] = "idle" /\ op'[t] = op[t]
  BY <1>1 DEF Others, Sound, ListTyped, Forget
<1>3. QED
  BY <1>1, <1>2, CallStep, IdleIsRight

\* No two objects have the same identifier.
LEMMA OneIdent ==
    ASSUME Sound, NEW b \in Registered, NEW c \in Registered, id[b] = id[c]
    PROVE  b = c
<1>1. IsChain(nxt, Items, list) /\ id \in [Block -> Nat]
  BY DEF Sound, InOrder, ListTyped
<1>2. Registered = {Items[i] : i \in 1..Len(Items)} /\ Registered \subseteq Block /\ Len(Items) \in Nat
  BY <1>1, RegisteredAre
<1>3. PICK i \in 1..Len(Items), j \in 1..Len(Items) : b = Items[i] /\ c = Items[j]
  BY <1>2
<1>4. (i < j => id[b] < id[c]) /\ (j < i => id[c] < id[b])
  BY <1>3 DEF Sound, InOrder
<1>5. id[b] \in Nat /\ (i < j \/ j < i \/ i = j)
  BY <1>1, <1>2
<1>6. i = j
  BY <1>4, <1>5
<1>7. QED
  BY <1>3, <1>6

\* An object is unlinked, to be freed.
LEMMA UnlinkStep ==
    ASSUME Tidy, Sound, NEW t \in Thread, NEW sought, UnlinkFirst(t, sought),
           \A b \in Registered \cap sought : id[b] = id[cur[t]]
    PROVE  Sound' /\ RegistryStep
<1>1. /\ op[t] = "delete" /\ pc[t] = "got" /\ pc' = [pc EXCEPT ![t] = "free"]
      /\ UNCHANGED <<id, name, intact, known, made, op, cur, want, use>>
  BY DEF UnlinkFirst, Goto
<1>2. ListTyped /\ InOrder /\ Right(t) /\ IsChain(nxt, Items, list)
  BY DEF Sound, InOrder
<1>3. /\ Registered \subseteq Block /\ Items \in Seq(Block) /\ Len(Items) \in Nat
      /\ DOMAIN Items = 1..Len(Items) /\ \A i \in 1..Len(Items) : Items[i] \in Registered
      /\ \A j, k \in 1..Len(Items) : Items[j] = Items[k] => j = k
      /\ (list # Nil => list = Items[1])
  BY <1>2, RegisteredAre DEF IsChain
<1>4. PICK i \in 1..Len(Items) : Items[i] \in sought /\ Unlink(i)
  BY <1>3 DEF UnlinkFirst
<1>5. Items[i] = cur[t] /\ cur[t] \in Registered /\ cur[t] \notin known
  <2>1. cur[t] \in Registered /\ id[cur[t]] = want[t] /\ \E b \in Registered \ known : id[b] = want[t]
    BY <1>1, <1>2 DEF Right, Deleting
  <2>2. id[Items[i]] = id[cur[t]] /\ Items[i] \in Registered
    BY <1>3, <1>4
  <2>3. Items[i] = cur[t]
    BY <2>1, <2>2, OneIdent
  <2>4. QED
    BY <2>1, <2>3, OneIdent
<1>6. IsChain(nxt', Out(Items, i), list') /\ DOMAIN nxt' = Block
  <2>1. list # Nil
    BY <1>2, <1>3, RegisteredAre
  <2>2. CASE i = 1
    <3>1. list' = nxt[list] /\ nxt' = nxt
      BY <1>4, <2>2 DEF Unlink
    <3>2. \A k \in 1..Len(Items) : k # i - 1
      BY <2>2
    <3>3. list' = IF i = 1 THEN nxt[list] ELSE list
      BY <2>2, <3>1
    <3>4. \A k \in 1..Len(Items) : nxt'[Items[k]] = IF k = i - 1 THEN nxt[Items[i]] ELSE nxt[Items[k]]
      BY <3>1, <3>2
    <3>5. IsChain(nxt', Out(Items, i), list')
      BY ONLY <1>2, <3>3, <3>4, i \in 1..Len(Items), ChainUnlinked
    <3>6. QED
      BY <1>2, <3>1, <3>5 DEF ListTyped
  <2>3. CASE i # 1
    <3>1. list' = list /\ nxt' = [nxt EXCEPT ![Items[i - 1]] = nxt[Items[i]]]
      BY <1>4, <2>3 DEF Unlink
    <3>2. i - 1 \in 1..Len(Items)
      BY <1>3, <2>3
    <3>3. list' = IF i = 1 THEN nxt[list] ELSE list
      BY <2>3, <3>1
    <3>4. ASSUME NEW k \in 1..Len(Items)
          PROVE  nxt'[Items[k]] = IF k = i - 1 THEN nxt[Items[i]] ELSE nxt[Items[k]]
      <4>1. Items[k] \in DOMAIN nxt /\ (Items[k] = Items[i - 1] <=> k = i - 1)
        BY <1>2, <1>3, <3>2 DEF ListTyped
      <4>2. QED
        BY <3>1, <4>1
    <3>5. IsChain(nxt', Out(Items, i), list')
      BY ONLY <1>2, <3>3, <3>4, i \in 1..Len(Items), ChainUnlinked
    <3>6. QED
      BY <1>2, <3>1, <3>5 DEF ListTyped
  <2>4. QED
    BY <2>2, <2>3
<1>7. Others(t) /\ ListTyped' /\ pc'[t] = "free" /\ op'[t] = op[t] /\ cur'[t] = cur[t]
  BY <1>1, <1>2, <1>6 DEF Others, ListTyped
<1>8. Unlinks(t, i) /\ Busy(t, "delete")
  BY <1>1, <1>5, <1>6 DEF Unlinks, Busy
<1>9. /\ InOrder' /\ RegistryStep /\ cur[t] \in intact \ Registered'
      /\ \A u \in Thread \ {t} : Right(u)'
  BY <1>7, <1>8, UnlinkTheList
<1>10. Right(t)'
  BY <1>1, <1>7, <1>9 DEF Right, Creating, Deleting, Looking
<1>11. QED
  BY <1>1, <1>7, <1>9, <1>10, StaysSound

\* It is freed.
LEMMA FreeStep ==
    ASSUME Tidy, Sound, NEW t \in Thread, Free(t)
    PROVE  Sound' /\ RegistryStep
<1>1. /\ pc[t] = "free" /\ pc' = [pc EXCEPT ![t] = "idle"] /\ intact' = intact \ {cur[t]}
      /\ Release(cur[t]) /\ Forget(t) /\ UNCHANGED <<list, known, made, op, use>>
  BY DEF Free, Goto
<1>2. /\ ListTyped /\ InOrder /\ op[t] = "delete" /\ cur[t] \in intact \ Registered
      /\ Registered \subseteq intact /\ intact \subseteq Block
  BY <1>1 DEF Sound, InOrder, Right, Deleting, ListTyped
<1>3. /\ DOMAIN nxt' = Block /\ DOMAIN name' = Block /\ id' \in [Block -> Nat]
      /\ \A b \in Block \ {cur[t]} : nxt'[b] = nxt[b] /\ id'[b] = id[b] /\ name'[b] = name[b]
  BY <1>1, <1>2 DEF Release, ListTyped
<1>4. Others(t) /\ ListTyped' /\ pc'[t] = "idle" /\ op'[t] = op[t]
  BY <1>1, <1>2, <1>3 DEF Others, ListTyped, Forget
<1>5. Still /\ Registered \subseteq intact'
  BY <1>1, <1>2, <1>3 DEF Still
<1>6. ASSUME NEW u \in Thread \ {t}
      PROVE  /\ pc[u] = "link" /\ use.kind # "task" => id'[cur[u]] = id[cur[u]] /\ cur[u] \notin intact'
             /\ pc[u] = "free" => cur[u] \in intact'
  <2>1. Right(u) /\ ~Busy(u, "delete")
    BY <1>1, <1>2 DEF Sound, OnesTurn, Busy
  <2>2. pc[u] # "free"
    BY <2>1 DEF Right, Deleting, Busy
  <2>3. pc[u] = "link" /\ use.kind # "task" => cur[u] \in Block \ intact /\ cur[u] # cur[t]
    BY <1>2, <2>1 DEF Right, Creating
  <2>4. QED
    BY <1>1, <1>3, <2>2, <2>3
<1>7. InOrder' /\ RegistryStep /\ \A u \in Thread \ {t} : Right(u)'
  BY <1>1, <1>4, <1>5, <1>6, StillTheList
<1>8. QED
  BY <1>1, <1>4, <1>7, StaysSound, IdleIsRight

\* A call begins.
LEMMA CallBegins ==
    ASSUME Tidy, Sound, NEW t \in Thread, NEW o \in use.ops[t], Call(t, o)
    PROVE  Sound' /\ RegistryStep
<1>1. CASE q_create(t) \/ sm_create(t) \/ pt_create(t) \/ q_vcreate(t)
  <2>1. "create" \in use.ops[t]
    <3>1. op' = [op EXCEPT ![t] = "create"]
      BY <1>1 DEF q_create, sm_create, pt_create, q_vcreate, Create, Begin
    <3>2. op' = [op EXCEPT ![t] = o]
      BY DEF Call, q_create, sm_create, pt_create, q_vcreate, t_create, Create, Begin, FindForUse,
             FindToDelete, t_ident, q_ident, q_vident, sm_ident, pt_ident, Ident, Find
    <3>3. t \in DOMAIN op
      BY DEF Sound, ListTyped
    <3>4. QED
      BY <3>1, <3>2, <3>3
  <2>2. PICK newid \in Nat : Create(t, newid) /\ use.kind # "task" /\ \A b \in Registered : id[b] < newid
    <3>1. /\ new_qid \in Nat /\ \A b \in Registered : id[b] < new_qid
          /\ new_smid \in Nat /\ \A b \in Registered : id[b] < new_smid
          /\ new_prtn_id \in Nat /\ \A b \in Registered : id[b] < new_prtn_id
          /\ new_vqid \in Nat /\ \A b \in Registered : id[b] < new_vqid
      BY Highest DEF new_qid, new_smid, new_prtn_id, new_vqid
    <3>2. QED
      BY <1>1, <3>1 DEF q_create, sm_create, pt_create, q_vcreate
  <2>3. QED
    BY <2>1, <2>2, CreateStep
<1>2. CASE o = "create" /\ t_create(t)
  BY <1>2, CreateTaskStep
<1>3. CASE o = "use" /\ FindForUse(t)
  <2>1. PICK w : Find(t, "use", w) /\ UNCHANGED known
    BY <1>3 DEF FindForUse
  <2>2. QED
    BY <1>3, <2>1, FindStep
<1>4. CASE o = "ident" /\ Ident(t)
  <2>1. PICK w : Find(t, "ident", w) /\ UNCHANGED known
    BY <1>4 DEF Ident
  <2>2. QED
    BY <1>4, <2>1, FindStep
<1>5. CASE o = "delete" /\ FindToDelete(t)
  <2>1. PICK b \in known : Find(t, "delete", id[b]) /\ known' = known \ {b}
    BY <1>5 DEF FindToDelete
  <2>2. b \in Registered \ known'
    BY <2>1 DEF Sound, InOrder
  <2>3. QED
    BY <1>5, <2>1, <2>2, FindStep
<1>6. QED
  BY <1>1, <1>2, <1>3, <1>4, <1>5 DEF Call, t_ident, q_ident, q_vident, sm_ident, pt_ident

\* Every step keeps the invariant, and is a step of the registry or none.
LEMMA ListStep == ASSUME Tidy, Sound, [ListNext]_listVars PROVE Sound' /\ RegistryStep
<1>1. CASE ListNext
  <2> PICK t \in Thread : Step(t) \/ \E o \in use.ops[t] : Call(t, o)
    BY <1>1 DEF ListNext
  <2>1. CASE \E o \in use.ops[t] : Call(t, o)
    BY <2>1, CallBegins
  <2>2. CASE new_tid(t)
    BY <2>2, CountStep
  <2>3. CASE link_tcb(t)
    BY <2>3, LinkTaskStep
  <2>4. CASE link_qcb(t) \/ link_vqcb(t) \/ link_smcb(t) \/ link_pcb(t)
    BY <2>4, LinkStep DEF link_qcb, link_vqcb, link_smcb, link_pcb
  <2>5. CASE Reject(t)
    BY <2>5, RejectStep
  <2>6. CASE tcb_for(t) \/ qcb_for(t) \/ vqcb_for(t) \/ smcb_for(t) \/ pcb_for(t)
    BY <2>6, ScanStep DEF tcb_for, qcb_for, vqcb_for, smcb_for, pcb_for
  <2>7. CASE Done(t)
    BY <2>7, DoneStep
  <2>8. CASE unlink_qcb(t) \/ unlink_vqcb(t) \/ unlink_smcb(t) \/ unlink_pcb(t)
    <3>1. UnlinkFirst(t, {b \in Block : id[b] = want[t]})
      BY <2>8 DEF unlink_qcb, unlink_vqcb, unlink_smcb, unlink_pcb, UnlinkId
    <3>2. id[cur[t]] = want[t]
      BY <3>1 DEF UnlinkFirst, Goto, Sound, Right, Deleting
    <3>3. \A b \in Registered \cap {b \in Block : id[b] = want[t]} : id[b] = id[cur[t]]
      BY <3>2
    <3>4. QED
      BY ONLY Tidy, Sound, t \in Thread, <3>1, <3>3, UnlinkStep
  <2>9. CASE unlink_tcb(t)
    <3>1. UnlinkFirst(t, {cur[t]}) /\ \A b \in Registered \cap {cur[t]} : id[b] = id[cur[t]]
      BY <2>9 DEF unlink_tcb
    <3>2. QED
      BY ONLY Tidy, Sound, t \in Thread, <3>1, UnlinkStep
  <2>10. CASE Free(t)
    BY <2>10, FreeStep
  <2>11. QED
    BY <2>1, <2>2, <2>3, <2>4, <2>5, <2>6, <2>7, <2>8, <2>9, <2>10 DEF Step
<1>2. CASE UNCHANGED listVars
  <2>1. UNCHANGED <<list, nxt, id, name, intact, known, made, op, pc, cur, want, use>>
    BY <1>2 DEF listVars
  <2>2. Items' = Items /\ Registered' = Registered /\ \A t, b : Matches(t, b)' <=> Matches(t, b)
    BY <2>1 DEF Items, Registered, Reach, Matches
  <2>3. \A t \in Thread : Right(t)'
    BY <2>1, <2>2 DEF Sound, Right, Creating, Deleting, Looking
  <2>4. Sound'
    BY <2>1, <2>2, <2>3 DEF Sound, ListTyped, InOrder, OnesTurn, Busy
  <2>5. QED
    BY <2>1, <2>2, <2>4 DEF RegistryStep, Idents
<1>3. QED
  BY <1>1, <1>2

\* What the threads do is settled at the beginning.
LEMMA UseFrozen == [ListNext]_listVars => use' = use
<1>1. CASE ListNext
  <2> PICK t \in Thread : Step(t) \/ \E o \in use.ops[t] : Call(t, o)
    BY <1>1 DEF ListNext
  <2>1. ASSUME NEW o, Call(t, o) PROVE use' = use
    BY <2>1 DEF Call, q_create, sm_create, pt_create, q_vcreate, t_create, Create, FindForUse,
                FindToDelete, t_ident, q_ident, q_vident, sm_ident, pt_ident, Ident, Find
  <2>2. CASE new_tid(t) \/ Reject(t) \/ Done(t) \/ Free(t)
    BY <2>2 DEF new_tid, Reject, Done, Free
  <2>3. CASE link_tcb(t) \/ link_qcb(t) \/ link_vqcb(t) \/ link_smcb(t) \/ link_pcb(t)
    BY <2>3 DEF link_tcb, link_qcb, link_vqcb, link_smcb, link_pcb, LinkOwn, Linked
  <2>4. CASE tcb_for(t) \/ qcb_for(t) \/ vqcb_for(t) \/ smcb_for(t) \/ pcb_for(t)
    BY <2>4 DEF tcb_for, qcb_for, vqcb_for, smcb_for, pcb_for, Scan
  <2>5. CASE unlink_tcb(t) \/ unlink_qcb(t) \/ unlink_vqcb(t) \/ unlink_smcb(t) \/ unlink_pcb(t)
    BY <2>5 DEF unlink_tcb, unlink_qcb, unlink_vqcb, unlink_smcb, unlink_pcb, UnlinkId, UnlinkFirst
  <2>6. QED
    BY <2>1, <2>2, <2>3, <2>4, <2>5 DEF Step
<1>2. CASE UNCHANGED listVars
  BY <1>2 DEF listVars
<1>3. QED
  BY <1>1, <1>2

\* The empty list is sound.
LEMMA InitSound == ListInit => Sound /\ Registered = {}
<1> SUFFICES ASSUME ListInit PROVE Sound /\ Registered = {}
  OBVIOUS
<1>1. IsChain(nxt, <<>>, list)
  BY DEF ListInit, IsChain
<1>2. Items = <<>>
  BY <1>1, ChainIs DEF Items
<1>3. IsChain(nxt, Items, list) /\ Registered = {}
  <2>1. IsChain(nxt, Items, list) /\ Len(Items) = 0
    BY <1>1, <1>2
  <2>2. QED
    BY <2>1, RegisteredAre
<1>4. ListTyped
  BY DEF ListInit, ListTyped
<1>5. InOrder
  BY <1>2, <1>3 DEF ListInit, InOrder
<1>6. OnesTurn /\ \A t \in Thread : Right(t)
  BY DEF ListInit, OnesTurn, Busy, Right, Creating, Deleting, Looking
<1>7. QED
  BY <1>3, <1>4, <1>5, <1>6 DEF Sound

\* The lists of those who take turns are sound.
LEMMA ListInvariance == ListSpec => [](Tidy => Sound)
<1>1. ListInit => (Tidy => Sound)
  BY InitSound
<1>2. (Tidy => Sound) /\ [ListNext]_listVars => (Tidy => Sound)'
  <2> SUFFICES ASSUME Tidy => Sound, [ListNext]_listVars, Tidy' PROVE Sound'
    OBVIOUS
  <2>1. Tidy
    BY UseFrozen DEF Tidy, OneDeleter
  <2>2. QED
    BY <2>1, ListStep
<1>3. QED
  BY <1>1, <1>2, PTL DEF ListSpec

\* What a sound list's walks have ahead.
LEMMA SoundFinds == Tidy /\ Sound => LookupFinds
<1> SUFFICES ASSUME Tidy, Sound, use.apart, NEW t \in Thread
             PROVE  /\ pc[t] = "scan" => {b \in known : Matches(t, b)} \subseteq Reach(cur[t])
                    /\ pc[t] = "got" => cur[t] \in Reach(list) /\ Matches(t, cur[t])
  BY DEF LookupFinds
<1>1. IsChain(nxt, Items, list) /\ known \subseteq Registered /\ Looking(t)
  BY DEF Sound, InOrder, Right
<1>2. Registered = {Items[i] : i \in 1..Len(Items)} /\ Len(Items) \in Nat
  BY <1>1, RegisteredAre
<1>3. pc[t] = "got" => cur[t] \in Reach(list) /\ Matches(t, cur[t])
  BY <1>1 DEF Looking, Registered
<1>4. ASSUME pc[t] = "scan", NEW b \in known, Matches(t, b) PROVE b \in Reach(cur[t])
  <2>1. PICK i \in 1..Len(Items) :
           /\ cur[t] = Items[i]
           /\ \A j \in 1..(i - 1) : Items[j] \in known => ~Matches(t, Items[j])
    BY <1>1, <1>4 DEF Looking
  <2>2. \A k \in i..Len(Items) : Items[k] \in Reach(cur[t])
    <3>1. \A k \in i..Len(Items) : \E m \in DOMAIN Chain(nxt, cur[t]) : Chain(nxt, cur[t])[m] = Items[k]
      BY <1>1, <2>1, ChainFrom
    <3>2. QED
      BY <3>1 DEF Reach
  <2>3. PICK k \in 1..Len(Items) : b = Items[k]
    BY <1>1, <1>2, <1>4
  <2>4. k \notin 1..(i - 1)
    BY <1>4, <2>1, <2>3
  <2>5. k \in i..Len(Items)
    BY <1>2, <2>4
  <2>6. QED
    BY <2>2, <2>3, <2>5
<1>5. QED
  BY <1>3, <1>4

\* Lookups without the lock find their objects, when no two creations overlap and
\* deletions keep away from other calls: whatever is linked, by threads of any number, behind a
\* walk or in front of it, the objects it looks for are still ahead of it.
THEOREM LookupsFind == ListSpec => [](use.serial => LookupFinds)
<1>1. (Tidy => Sound) => (use.serial => LookupFinds)
  BY SoundFinds DEF Tidy, LookupFinds
<1>2. QED
  BY <1>1, ListInvariance, PTL

\* The lists implement the registry of objects with distinct identifiers, when creations
\* do not overlap and either deletions keep away from other calls or one thread does them
\* all and the objects are not tasks.
THEOREM ListsImplementRegistry == ListSpec /\ Tidy => ImplementsRegistry
<1>1. ListInit => Objects!RegistryInit
  BY InitSound DEF Objects!RegistryInit
<1>2. (Tidy => Sound) /\ Tidy /\ [ListNext]_listVars => RegistryStep /\ Tidy'
  BY ListStep, UseFrozen DEF Tidy, OneDeleter
<1>3. RegistryStep => [Objects!RegistryNext]_<<Registered, [b \in Registered |-> id[b]]>>
  BY DEF RegistryStep, Idents
<1>4. QED
  BY <1>1, <1>2, <1>3, ListInvariance, PTL DEF ListSpec, ImplementsRegistry, Objects!RegistrySpec

------------------------------------------------------------------------------
(* Messages laid out around a ring of n slots: count of them, the first one *)
(* at slot head.                                                           *)

\* The slot of the i-th message, or of the next one to come.
Place(head, i, n) == IF head + i - 1 < n THEN head + i - 1 ELSE head + i - 1 - n

\* The slots before and behind head.
Prior(head, n) == IF head = 0 THEN n - 1 ELSE head - 1
Following(head, n) == IF head = n - 1 THEN 0 ELSE head + 1

Laid(slots, head, count, n) == [i \in 1..count |-> slots[(head + i - 1) % n]]

\* Going around the ring is taking a place modulo its slots.
LEMMA Around ==
    ASSUME NEW n \in Nat \ {0}, NEW head \in 0..(n - 1), NEW i \in 1..(n + 1)
    PROVE  /\ Place(head, i, n) \in 0..(n - 1)
           /\ (head + i - 1) % n = Place(head, i, n)
<1>1. Place(head, i, n) \in 0..(n - 1)
  BY DEF Place
<1> DEFINE x == head + i - 1
<1>2. x \in 0..(2 * n - 1)
  OBVIOUS
<1>3. x % n = IF x < n THEN x ELSE x - n
  <2> HIDE DEF x
  <2>1. CASE x < n
    BY <1>2, <2>1
  <2>2. CASE x >= n
    BY <1>2, <2>2
  <2>3. QED
    BY <1>2, <2>1, <2>2
<1>4. QED
  BY <1>1, <1>3 DEF Place

\* What is laid out is a sequence, and where its messages are.
LEMMA LaidIsSeq ==
    ASSUME NEW n \in Nat \ {0}, NEW head \in 0..(n - 1), NEW count \in 0..n,
           NEW slots \in [0..(n - 1) -> Nat]
    PROVE  /\ Laid(slots, head, count, n) \in Seq(Nat)
           /\ Len(Laid(slots, head, count, n)) = count
           /\ \A i \in 1..count : Laid(slots, head, count, n)[i] = slots[Place(head, i, n)]
<1>1. \A i \in 1..count : Laid(slots, head, count, n)[i] = slots[Place(head, i, n)]
  <2>1. ASSUME NEW i \in 1..count PROVE (head + i - 1) % n = Place(head, i, n)
    BY Around
  <2>2. QED
    BY <2>1, Zenon DEF Laid
<1>2. \A i \in 1..count : slots[Place(head, i, n)] \in Nat
  BY Around
<1>3. Laid(slots, head, count, n) \in [1..count -> Nat]
  BY <1>1, <1>2 DEF Laid
<1>4. QED
  BY <1>1, <1>3, SeqDef

\* A slot written behind the messages appends one.
LEMMA LaidBehind ==
    ASSUME NEW n \in Nat \ {0}, NEW head \in 0..(n - 1), NEW count \in 0..(n - 1),
           NEW slots \in [0..(n - 1) -> Nat], NEW m \in Nat
    PROVE  Laid([slots EXCEPT ![Place(head, count + 1, n)] = m], head, count + 1, n)
             = Append(Laid(slots, head, count, n), m)
<1> DEFINE new == [slots EXCEPT ![Place(head, count + 1, n)] = m]
           old == Laid(slots, head, count, n)
<1>1. /\ old \in Seq(Nat) /\ Len(old) = count
      /\ \A i \in 1..count : old[i] = slots[Place(head, i, n)]
  <2>1. count \in 0..n
    OBVIOUS
  <2>2. QED
    BY <2>1, LaidIsSeq, Zenon
<1>2. new \in [0..(n - 1) -> Nat] /\ new[Place(head, count + 1, n)] = m
  BY Around
<1>3. \A i \in 1..count : new[Place(head, i, n)] = slots[Place(head, i, n)]
  BY Around DEF Place
<1>4. /\ Laid(new, head, count + 1, n) \in Seq(Nat)
      /\ Len(Laid(new, head, count + 1, n)) = count + 1
      /\ \A i \in 1..(count + 1) : Laid(new, head, count + 1, n)[i] = new[Place(head, i, n)]
  <2>1. count + 1 \in 0..n
    OBVIOUS
  <2>2. QED
    BY <1>2, <2>1, LaidIsSeq, Zenon
<1>5. /\ Append(old, m) \in Seq(Nat) /\ Len(Append(old, m)) = count + 1
      /\ \A i \in 1..count : Append(old, m)[i] = old[i]
      /\ Append(old, m)[count + 1] = m
  BY <1>1, AppendProperties
<1> HIDE DEF new, old
<1>6. ASSUME NEW i \in 1..(count + 1)
      PROVE  Laid(new, head, count + 1, n)[i] = Append(old, m)[i]
  <2>1. CASE i \in 1..count
    BY <1>1, <1>3, <1>4, <1>5, <2>1
  <2>2. CASE i = count + 1
    BY <1>2, <1>4, <1>5, <2>2
  <2>3. i \in 1..count \/ i = count + 1
    OBVIOUS
  <2>4. QED
    BY ONLY <2>1, <2>2, <2>3
<1>7. Laid(new, head, count + 1, n) = Append(old, m)
  BY <1>4, <1>5, <1>6, SeqEqual
<1>8. QED
  BY <1>7 DEF new, old

\* A slot written before the messages puts one in front.
LEMMA LaidBefore ==
    ASSUME NEW n \in Nat \ {0}, NEW head \in 0..(n - 1), NEW count \in 0..(n - 1),
           NEW slots \in [0..(n - 1) -> Nat], NEW m \in Nat
    PROVE  Laid([slots EXCEPT ![Prior(head, n)] = m], Prior(head, n), count + 1, n)
             = <<m>> \o Laid(slots, head, count, n)
<1> DEFINE first == Prior(head, n)
           new == [slots EXCEPT ![first] = m]
           old == Laid(slots, head, count, n)
<1>1. /\ old \in Seq(Nat) /\ Len(old) = count
      /\ \A i \in 1..count : old[i] = slots[Place(head, i, n)]
  <2>1. count \in 0..n
    OBVIOUS
  <2>2. QED
    BY <2>1, LaidIsSeq, Zenon
<1>2. /\ first \in 0..(n - 1) /\ new \in [0..(n - 1) -> Nat]
      /\ Place(first, 1, n) = first /\ new[first] = m
  BY DEF Place, Prior
<1>3. \A i \in 2..(count + 1) : /\ Place(first, i, n) = Place(head, i - 1, n)
                                /\ Place(first, i, n) \in 0..(n - 1) \ {first}
  BY <1>2 DEF Place, Prior
<1>4. \A i \in 2..(count + 1) : new[Place(first, i, n)] = slots[Place(head, i - 1, n)]
  BY <1>3
<1> HIDE DEF new
<1>5. /\ Laid(new, first, count + 1, n) \in Seq(Nat)
      /\ Len(Laid(new, first, count + 1, n)) = count + 1
      /\ \A i \in 1..(count + 1) : Laid(new, first, count + 1, n)[i] = new[Place(first, i, n)]
  <2>1. count + 1 \in 0..n
    OBVIOUS
  <2>2. QED
    BY <1>2, <2>1, LaidIsSeq, Zenon
<1>6. /\ <<m>> \o old \in Seq(Nat) /\ Len(<<m>> \o old) = count + 1
      /\ (<<m>> \o old)[1] = m
      /\ \A i \in 2..(count + 1) : (<<m>> \o old)[i] = old[i - 1]
  <2>1. <<m>> \in Seq(Nat) /\ Len(<<m>>) = 1 /\ <<m>>[1] = m
    OBVIOUS
  <2>2. QED
    BY <1>1, <2>1, ConcatProperties
<1> HIDE DEF new, old
<1>7. ASSUME NEW i \in 1..(count + 1)
      PROVE  Laid(new, first, count + 1, n)[i] = (<<m>> \o old)[i]
  <2>1. CASE i = 1
    BY <1>2, <1>5, <1>6, <2>1
  <2>2. CASE i \in 2..(count + 1)
    <3>1. i - 1 \in 1..count
      BY <2>2
    <3>2. QED
      BY <1>1, <1>4, <1>5, <1>6, <2>2, <3>1
  <2>3. i = 1 \/ i \in 2..(count + 1)
    OBVIOUS
  <2>4. QED
    BY ONLY <2>1, <2>2, <2>3
<1>8. Laid(new, first, count + 1, n) = <<m>> \o old
  BY <1>5, <1>6, <1>7, SeqEqual
<1>9. QED
  BY <1>8 DEF new, old

\* Clearing the slot at the head and moving on takes the first one away.
LEMMA LaidRest ==
    ASSUME NEW n \in Nat \ {0}, NEW head \in 0..(n - 1), NEW count \in 1..n,
           NEW slots \in [0..(n - 1) -> Nat]
    PROVE  /\ Laid(slots, head, count, n) # <<>>
           /\ Head(Laid(slots, head, count, n)) = slots[head]
           /\ Laid([slots EXCEPT ![head] = Null], Following(head, n), count - 1, n)
                = Tail(Laid(slots, head, count, n))
<1> DEFINE next == Following(head, n)
           new == [slots EXCEPT ![head] = Null]
           old == Laid(slots, head, count, n)
<1>1. /\ old \in Seq(Nat) /\ Len(old) = count
      /\ \A i \in 1..count : old[i] = slots[Place(head, i, n)]
  <2>1. count \in 0..n
    OBVIOUS
  <2>2. QED
    BY <2>1, LaidIsSeq, Zenon
<1>2. next \in 0..(n - 1) /\ new \in [0..(n - 1) -> Nat] /\ Place(head, 1, n) = head
  BY DEF Place, Null, Following
<1>3. \A i \in 1..(count - 1) : /\ Place(next, i, n) = Place(head, i + 1, n)
                                /\ Place(next, i, n) \in 0..(n - 1) \ {head}
  BY <1>2 DEF Place, Following
<1>4. \A i \in 1..(count - 1) : new[Place(next, i, n)] = slots[Place(head, i + 1, n)]
  BY <1>3
<1> HIDE DEF new
<1>5. /\ Laid(new, next, count - 1, n) \in Seq(Nat)
      /\ Len(Laid(new, next, count - 1, n)) = count - 1
      /\ \A i \in 1..(count - 1) : Laid(new, next, count - 1, n)[i] = new[Place(next, i, n)]
  <2>1. count - 1 \in 0..n
    OBVIOUS
  <2>2. QED
    BY <1>2, <2>1, LaidIsSeq, Zenon
<1> HIDE DEF new, old
<1>6. old # <<>> /\ Head(old) = old[1]
  BY <1>1
<1>7. /\ Tail(old) \in Seq(Nat) /\ Len(Tail(old)) = count - 1
      /\ \A i \in 1..(count - 1) : Tail(old)[i] = old[i + 1]
  BY <1>1, <1>6, HeadTailProperties
<1>8. ASSUME NEW i \in 1..(count - 1)
      PROVE  Laid(new, next, count - 1, n)[i] = Tail(old)[i]
  <2>1. i + 1 \in 1..count
    OBVIOUS
  <2>2. QED
    BY <1>1, <1>4, <1>5, <1>7, <2>1
<1>9. Laid(new, next, count - 1, n) = Tail(old)
  BY <1>5, <1>7, <1>8, SeqEqual
<1>10. old[1] = slots[head]
  <2>1. 1 \in 1..count
    OBVIOUS
  <2>2. QED
    BY <1>1, <1>2, <2>1, Zenon
<1>11. QED
  BY <1>6, <1>9, <1>10 DEF new, old

\* More slots behind messages that end at the last slot.
Padded(slots, n, more) == [s \in 0..(more - 1) |-> IF s \in 0..(n - 1) THEN slots[s] ELSE Null]

\* More slots change nothing for messages that end at the last one.
LEMMA LaidInMore ==
    ASSUME NEW n \in Nat \ {0}, NEW more \in Nat, more >= n,
           NEW head \in 0..(n - 1), NEW count \in 0..n, head + count = n, NEW slots
    PROVE  Laid(Padded(slots, n, more), head, count, more) = Laid(slots, head, count, n)
<1>1. \A i \in 1..count : /\ (head + i - 1) % n = head + i - 1
                          /\ (head + i - 1) % more = head + i - 1
                          /\ head + i - 1 \in 0..(n - 1)
  OBVIOUS
<1>2. \A s \in 0..(n - 1) : Padded(slots, n, more)[s] = slots[s]
  BY DEF Padded
<1>3. QED
  BY <1>1, <1>2 DEF Laid

------------------------------------------------------------------------------
(* The ring of QueueRing.                                                  *)

USE FilesAssumption, SizesAssumption, LimitAssumption

All == Slots(total_extents)

Shape ==
    /\ msgs_per_extent \in Nat /\ Q_LIMIT \in BOOLEAN
    /\ total_extents \in Nat \ {0} /\ sent \in Nat
    /\ Q_LIMIT => total_extents = 1
    /\ kind = "vqueue" \/ msgs_per_extent = 0 => Q_LIMIT
    /\ queue_head \in 0..(All - 1) /\ msg_count \in 0..All
    /\ queue_tail = Place(queue_head, msg_count + 1, All)
    /\ msgs \in [0..(All - 1) -> Nat]

\* The slots of the extents: those of the first, and what each next one adds.
LEMMA Extents ==
    ASSUME NEW e \in Nat, msgs_per_extent \in Nat
    PROVE  /\ Slots(e) \in Nat \ {0} /\ Slots(1) = msgs_per_extent + 1
           /\ Slots(e + 1) = Slots(e) + msgs_per_extent
           /\ e * msgs_per_extent = Slots(e) - 1
<1>1. /\ e * msgs_per_extent \in Nat /\ 1 * msgs_per_extent = msgs_per_extent
      /\ (e + 1) * msgs_per_extent = e * msgs_per_extent + msgs_per_extent
  OBVIOUS
<1>2. QED
  BY <1>1 DEF Slots

\* The queue's capacity is one less than the slots it has.
LEMMA Room ==
    ASSUME Shape
    PROVE  /\ All \in Nat \ {0} /\ Capacity = All - 1
           /\ Slots(total_extents + 1) = All + msgs_per_extent
           /\ Q_LIMIT => Capacity = msgs_per_extent
<1>1. total_extents = 1 => total_extents * msgs_per_extent = msgs_per_extent
  BY DEF Shape
<1>2. QED
  BY <1>1, Extents DEF Shape, All, Capacity

\* A new ring is in shape and empty.
LEMMA InitShape == RingInit => Shape /\ Contents = <<>>
<1> SUFFICES ASSUME RingInit PROVE Shape /\ Contents = <<>>
  OBVIOUS
<1>1. All = msgs_per_extent + 1 /\ Slots(1) = msgs_per_extent + 1 /\ msgs_per_extent \in Nat
  BY Extents DEF RingInit, All
<1>2. Shape
  <2>1. Q_LIMIT \in BOOLEAN /\ (kind = "vqueue" \/ msgs_per_extent = 0 => Q_LIMIT)
    <3>1. CASE NewQueue
      BY <3>1, "queue" # "vqueue", Zenon DEF NewQueue
    <3>2. CASE NewVQueue
      BY <3>2, Zenon DEF NewVQueue
    <3>3. QED
      BY <3>1, <3>2 DEF RingInit
  <2>2. queue_head \in 0..(All - 1)
    BY <1>1 DEF RingInit, NewQueue, NewVQueue
  <2>3. queue_tail = Place(queue_head, msg_count + 1, All) /\ msg_count = 0
    BY <1>1, <2>2 DEF RingInit, Place
  <2>4. msgs \in [0..(All - 1) -> Nat]
    BY <1>1 DEF RingInit, FirstExtent, Null
  <2>5. QED
    BY <1>1, <2>1, <2>2, <2>3, <2>4 DEF RingInit, Shape
<1>3. QED
  BY <1>2 DEF RingInit, Contents

\* The messages as they lie in slots, for so many extents, with the tail there.
FitsRing(slots, extents, tail) ==
    /\ extents \in Nat \ {0}
    /\ Q_LIMIT => extents = 1
    /\ queue_head \in 0..(Slots(extents) - 1) /\ msg_count \in 0..Slots(extents)
    /\ slots \in [0..(Slots(extents) - 1) -> Nat]
    /\ tail = Place(queue_head, msg_count + 1, Slots(extents))
    /\ Contents = Laid(slots, queue_head, msg_count, Slots(extents))

\* The ring as it is has its messages in place.
LEMMA FitsNow == Shape => FitsRing(msgs, total_extents, queue_tail)
BY Zenon DEF Shape, FitsRing, Contents, Laid, All

\* So has the ring that has grown, with its tail in the new extent (queue.c:1222-1228).
LEMMA FitsGrown ==
    ASSUME Shape, EndsAtEnd, ~Q_LIMIT
    PROVE  FitsRing(Grown, total_extents + 1, TailAfterGrowth)
<1> DEFINE more == Slots(total_extents + 1)
<1>1. /\ All \in Nat \ {0} /\ more \in Nat /\ more > All
      /\ queue_head \in 0..(All - 1) /\ msg_count \in 0..All /\ queue_head + msg_count = All
      /\ msgs \in [0..(All - 1) -> Nat] /\ total_extents \in Nat
  <2>1. msgs_per_extent \in Nat \ {0}
    BY DEF Shape
  <2>2. QED
    BY <2>1, Room DEF Shape, EndsAtEnd, All
<1>2. Grown = Padded(msgs, All, more)
  BY <1>1, Zenon DEF Grown, Padded
<1> HIDE DEF more
<1>3. Grown \in [0..(more - 1) -> Nat]
  BY <1>1, <1>2 DEF Padded, Null
<1>4. Laid(Grown, queue_head, msg_count, more) = Laid(msgs, queue_head, msg_count, All)
  <2>1. more >= All
    BY <1>1
  <2>2. QED
    BY <1>1, <1>2, <2>1, LaidInMore
<1>5. Contents = Laid(msgs, queue_head, msg_count, All)
  BY Zenon DEF Contents, Laid, All
<1>6. TailAfterGrowth = Place(queue_head, msg_count + 1, more)
  BY <1>1 DEF TailAfterGrowth, Place, All
<1>7. QED
  BY <1>1, <1>3, <1>4, <1>5, <1>6 DEF FitsRing, more

------------------------------------------------------------------------------
(* Every operation keeps the shape and is an operation on the contents.    *)

\* send_msg_to appends (queue.c:557-652).
LEMMA SendStep ==
    ASSUME Shape, NEW m \in Nat, UNCHANGED cfg, sent' \in Nat,
           NEW slots, NEW extents, NEW tail, FitsRing(slots, extents, tail),
           msg_count < Slots(extents), SendTo(m, tail, slots, extents)
    PROVE  Shape' /\ Contents' = Append(Contents, m)
<1> DEFINE n == Slots(extents)
<1>1. /\ n \in Nat \ {0} /\ queue_head \in 0..(n - 1) /\ msg_count \in 0..(n - 1)
      /\ slots \in [0..(n - 1) -> Nat] /\ tail = Place(queue_head, msg_count + 1, n)
  <2>1. extents \in Nat /\ msgs_per_extent \in Nat
    BY DEF FitsRing, Shape
  <2>2. Slots(extents) \in Nat \ {0}
    BY <2>1, Extents
  <2>3. QED
    BY <2>2 DEF FitsRing
<1>2. /\ queue_head' = queue_head /\ total_extents' = extents /\ All' = n
      /\ msg_count' = msg_count + 1 /\ msgs' = [slots EXCEPT ![tail] = m]
      /\ queue_tail' = IF tail = n - 1 THEN 0 ELSE tail + 1
  BY DEF SendTo, cfg, All, Slots, Behind
<1>3. Contents = Laid(slots, queue_head, msg_count, n)
  BY DEF FitsRing
<1>4. Contents' = Laid(msgs', queue_head', msg_count', All')
  BY Zenon DEF Contents, Laid, All
<1> HIDE DEF n
<1>5. queue_tail' = Place(queue_head, msg_count + 2, n)
  BY ONLY <1>1, <1>2 DEF Place
<1>6. msgs' \in [0..(n - 1) -> Nat]
  BY <1>1, <1>2
<1>7. Shape'
  <2>1. /\ Q_LIMIT' \in BOOLEAN /\ (Q_LIMIT' => total_extents' = 1)
        /\ (kind' = "vqueue" \/ msgs_per_extent' = 0 => Q_LIMIT') /\ sent' \in Nat
        /\ msgs_per_extent' \in Nat /\ total_extents' \in Nat \ {0}
    BY <1>2, Zenon DEF Shape, FitsRing, cfg
  <2>2. queue_head' \in 0..(All' - 1) /\ msg_count' \in 0..All'
    BY <1>1, <1>2
  <2>3. queue_tail' = Place(queue_head', msg_count' + 1, All')
    BY <1>1, <1>2, <1>5 DEF Place
  <2>4. QED
    BY <1>2, <1>6, <2>1, <2>2, <2>3, Zenon DEF Shape
<1>8. Contents' = Append(Contents, m)
  BY <1>1, <1>2, <1>3, <1>4, LaidBehind
<1>9. QED
  BY <1>7, <1>8

\* urgent_msg_to puts in front (queue.c:456-552).
LEMMA UrgentStep ==
    ASSUME Shape, NEW m \in Nat, UNCHANGED cfg, sent' \in Nat,
           NEW slots, NEW extents, NEW tail, FitsRing(slots, extents, tail),
           msg_count < Slots(extents), UrgentTo(m, tail, slots, extents)
    PROVE  Shape' /\ Contents' = <<m>> \o Contents
<1> DEFINE n == Slots(extents)
<1>1. /\ n \in Nat \ {0} /\ queue_head \in 0..(n - 1) /\ msg_count \in 0..(n - 1)
      /\ slots \in [0..(n - 1) -> Nat] /\ tail = Place(queue_head, msg_count + 1, n)
  <2>1. extents \in Nat /\ msgs_per_extent \in Nat
    BY DEF FitsRing, Shape
  <2>2. Slots(extents) \in Nat \ {0}
    BY <2>1, Extents
  <2>3. QED
    BY <2>2 DEF FitsRing
<1>2. /\ queue_head' = IF queue_head = 0 THEN n - 1 ELSE queue_head - 1
      /\ total_extents' = extents /\ All' = n /\ queue_tail' = tail
      /\ msg_count' = msg_count + 1 /\ msgs' = [slots EXCEPT ![queue_head'] = m]
  BY DEF UrgentTo, cfg, All, Slots, Before
<1>3. Contents = Laid(slots, queue_head, msg_count, n)
  BY DEF FitsRing
<1>4. Contents' = Laid(msgs', queue_head', msg_count', All')
  BY Zenon DEF Contents, Laid, All
<1> HIDE DEF n
<1>5. queue_tail' = Place(queue_head', msg_count + 2, n)
  BY ONLY <1>1, <1>2 DEF Place
<1>6. msgs' \in [0..(n - 1) -> Nat] /\ queue_head' \in 0..(n - 1)
  BY <1>1, <1>2
<1>7. Shape'
  <2>1. /\ Q_LIMIT' \in BOOLEAN /\ (Q_LIMIT' => total_extents' = 1)
        /\ (kind' = "vqueue" \/ msgs_per_extent' = 0 => Q_LIMIT') /\ sent' \in Nat
        /\ msgs_per_extent' \in Nat /\ total_extents' \in Nat \ {0}
    BY <1>2, Zenon DEF Shape, FitsRing, cfg
  <2>2. queue_head' \in 0..(All' - 1) /\ msg_count' \in 0..All'
    BY <1>1, <1>2
  <2>3. queue_tail' = Place(queue_head', msg_count' + 1, All')
    BY <1>1, <1>2, <1>5 DEF Place
  <2>4. QED
    BY <1>2, <1>6, <2>1, <2>2, <2>3, Zenon DEF Shape
<1>8. Contents' = <<m>> \o Contents
  <2>1. Laid([slots EXCEPT ![queue_head'] = m], queue_head', msg_count + 1, n)
          = <<m>> \o Laid(slots, queue_head, msg_count, n)
    <3>1. queue_head' = Prior(queue_head, n)
      BY <1>2 DEF Prior
    <3>2. QED
      BY ONLY m \in Nat, <1>1, <3>1, LaidBefore
  <2>2. QED
    BY <1>2, <1>3, <1>4, <2>1, Zenon
<1>9. QED
  BY <1>7, <1>8

\* fetch_msg_from takes the first message (queue.c:657-762).
LEMMA FetchStep ==
    ASSUME Shape, Fetch
    PROVE  /\ Shape' /\ Contents # <<>>
           /\ fetched' = Head(Contents) /\ Contents' = Tail(Contents)
<1>1. /\ All \in Nat \ {0} /\ queue_head \in 0..(All - 1) /\ msg_count \in 1..All
      /\ msgs \in [0..(All - 1) -> Nat] /\ queue_tail = Place(queue_head, msg_count + 1, All)
  BY Room DEF Shape, Fetch
<1>2. /\ queue_head' = IF queue_head = All - 1 THEN 0 ELSE queue_head + 1
      /\ total_extents' = total_extents /\ All' = All /\ queue_tail' = queue_tail
      /\ msg_count' = msg_count - 1 /\ msgs' = [msgs EXCEPT ![queue_head] = Null]
      /\ fetched' = msgs[queue_head] /\ UNCHANGED cfg /\ sent' = sent
  BY DEF Fetch, cfg, All, Slots, Behind
<1>3. Contents = Laid(msgs, queue_head, msg_count, All)
  BY Zenon DEF Contents, Laid, All
<1>4. Contents' = Laid(msgs', queue_head', msg_count', All')
  BY Zenon DEF Contents, Laid, All
<1>5. queue_tail' = Place(queue_head', msg_count, All)
  BY ONLY <1>1, <1>2 DEF Place
<1>6. msgs' \in [0..(All - 1) -> Nat]
  BY <1>1, <1>2 DEF Null
<1>7. Shape'
  <2>1. /\ Q_LIMIT' \in BOOLEAN /\ (Q_LIMIT' => total_extents' = 1)
        /\ (kind' = "vqueue" \/ msgs_per_extent' = 0 => Q_LIMIT') /\ sent' \in Nat
        /\ msgs_per_extent' \in Nat /\ total_extents' \in Nat \ {0}
    BY <1>2, Zenon DEF Shape, cfg
  <2>2. queue_head' \in 0..(All' - 1) /\ msg_count' \in 0..All'
    BY <1>1, <1>2
  <2>3. queue_tail' = Place(queue_head', msg_count' + 1, All')
    BY <1>1, <1>2, <1>5 DEF Place
  <2>4. QED
    BY <1>2, <1>6, <2>1, <2>2, <2>3, Zenon DEF Shape
<1>8. /\ Laid(msgs, queue_head, msg_count, All) # <<>>
      /\ Head(Laid(msgs, queue_head, msg_count, All)) = msgs[queue_head]
      /\ Laid([msgs EXCEPT ![queue_head] = Null], queue_head', msg_count - 1, All)
           = Tail(Laid(msgs, queue_head, msg_count, All))
  <2>1. queue_head' = Following(queue_head, All)
    BY <1>2 DEF Following
  <2>2. QED
    BY ONLY <1>1, <2>1, LaidRest
<1>9. QED
  BY <1>2, <1>3, <1>4, <1>7, <1>8, Zenon

------------------------------------------------------------------------------
(* The ring as a queue.                                                    *)

\* What a step of the ring is to its senders and receivers.
RingStep == [QueueView!MQNext]_(QueueView!mqVars)

\* msg_count counts the messages.
LEMMA LenIsCount == Shape => Contents \in Seq(Nat) /\ Len(Contents) = msg_count
<1> SUFFICES ASSUME Shape PROVE Contents \in Seq(Nat) /\ Len(Contents) = msg_count
  OBVIOUS
<1>1. Contents = Laid(msgs, queue_head, msg_count, All)
  BY Zenon DEF Contents, Laid, All
<1>2. QED
  BY <1>1, Room, LaidIsSeq DEF Shape

\* A send that is refused finds a full queue.
LEMMA RefusalStep ==
    ASSUME Shape, msg_count >= Capacity, UNCHANGED <<ring, cfg, fetched>>, sent' \in Nat
    PROVE  Shape' /\ RingStep
<1>1. Shape' /\ Contents' = Contents
  BY Zenon DEF Shape, Contents, All, Place, Slots, ring, cfg
<1>2. Q_LIMIT => Len(Contents) >= msgs_per_extent
  BY Room, LenIsCount
<1>3. QueueView!Refuse
  BY <1>1, <1>2, Zenon DEF QueueView!Refuse
<1>4. QED
  BY <1>1, <1>3, Zenon DEF RingStep, QueueView!MQNext, cfg

\* A send that goes in is one of the abstract queue's.
LEMMA EntryStep ==
    ASSUME Shape, sent < MaxMsgs, Shape', UNCHANGED cfg, fetched' = fetched,
           \/ /\ Contents' = Append(Contents, NextMsg)
              /\ Q_LIMIT => msg_count < Capacity \/ (msgs_per_extent = 0 /\ msg_count = 0)
           \/ Contents' = <<NextMsg>> \o Contents /\ (Q_LIMIT => msg_count <= Capacity)
    PROVE  RingStep
<1>1. NextMsg \in 1..MaxMsgs
  BY MaxMsgsAssumption DEF Shape, NextMsg
<1>2. CASE /\ Contents' = Append(Contents, NextMsg)
           /\ Q_LIMIT => msg_count < Capacity \/ (msgs_per_extent = 0 /\ msg_count = 0)
  <2>1. msg_count = 0 => Contents = <<>>
    BY DEF Contents
  <2>2. Q_LIMIT => Len(Contents) < msgs_per_extent \/ (msgs_per_extent = 0 /\ Contents = <<>>)
    BY <1>2, <2>1, Room, LenIsCount
  <2>3. QueueView!Enter(NextMsg)
    BY <1>2, <2>2, Zenon DEF QueueView!Enter
  <2>4. QED
    BY <1>1, <2>3, Zenon DEF RingStep, QueueView!MQNext, cfg
<1>3. CASE Contents' = <<NextMsg>> \o Contents /\ (Q_LIMIT => msg_count <= Capacity)
  <2>1. Q_LIMIT => Len(Contents) <= msgs_per_extent
    BY <1>3, Room, LenIsCount
  <2>2. QueueView!EnterFront(NextMsg)
    BY <1>3, <2>1, Zenon DEF QueueView!EnterFront
  <2>3. QED
    BY <1>1, <2>2, Zenon DEF RingStep, QueueView!MQNext, cfg
<1>4. QED
  BY <1>2, <1>3

\* q_send where there is room without growth.
LEMMA PlainSend ==
    ASSUME Shape, Sending(kind), send_msg_to(NextMsg),
           msg_count < Capacity \/ (msgs_per_extent = 0 /\ Q_LIMIT /\ msg_count = Capacity)
    PROVE  Shape' /\ RingStep
<1>1. /\ msg_count < Slots(total_extents) /\ NextMsg \in Nat /\ sent' \in Nat
      /\ msg_count < Capacity \/ (msgs_per_extent = 0 /\ msg_count = 0)
  BY Room DEF Shape, All, NextMsg, Sending
<1>2. sent < MaxMsgs /\ UNCHANGED cfg /\ fetched' = fetched
  BY Zenon DEF Sending
<1>3. Shape' /\ Contents' = Append(Contents, NextMsg)
  BY <1>1, <1>2, FitsNow, SendStep DEF send_msg_to
<1>4. QED
  BY <1>1, <1>2, <1>3, EntryStep

\* q_urgent where there is room without growth.
LEMMA PlainUrgent ==
    ASSUME Shape, Sending(kind), urgent_msg_to(NextMsg), UrgentHasRoom
    PROVE  Shape' /\ RingStep
<1>1. /\ msg_count < Slots(total_extents) /\ NextMsg \in Nat /\ sent' \in Nat
      /\ msg_count <= Capacity
  BY Room DEF Shape, All, NextMsg, Sending, UrgentHasRoom
<1>2. sent < MaxMsgs /\ UNCHANGED cfg /\ fetched' = fetched
  BY Zenon DEF Sending
<1>3. Shape' /\ Contents' = <<NextMsg>> \o Contents
  BY <1>1, <1>2, FitsNow, UrgentStep DEF urgent_msg_to
<1>4. QED
  BY <1>1, <1>2, <1>3, EntryStep

\* A ring that grows only while its messages end at the last slot stays in order.
LEMMA Growth ==
    ASSUME Shape, GrowsAtEnd, MayGrow, Sending(kind),
           \/ SendTo(NextMsg, TailAfterGrowth, Grown, total_extents + 1)
           \/ UrgentTo(NextMsg, TailAfterGrowth, Grown, total_extents + 1)
    PROVE  Shape' /\ RingStep
<1>1. EndsAtEnd /\ ~Q_LIMIT
  BY Zenon DEF MayGrow
<1>2. FitsRing(Grown, total_extents + 1, TailAfterGrowth)
  BY <1>1, FitsGrown
<1>3. msg_count < Slots(total_extents + 1) /\ NextMsg \in Nat /\ sent' \in Nat
  <2>1. msgs_per_extent \in Nat \ {0} /\ msg_count \in 0..All
    BY <1>1 DEF Shape
  <2>2. QED
    BY <2>1, Room DEF Shape, NextMsg, Sending
<1>4. sent < MaxMsgs /\ UNCHANGED cfg /\ fetched' = fetched
  BY Zenon DEF Sending
<1>5. CASE SendTo(NextMsg, TailAfterGrowth, Grown, total_extents + 1)
  <2>1. Shape' /\ Contents' = Append(Contents, NextMsg)
    BY <1>2, <1>3, <1>4, <1>5, SendStep
  <2>2. QED
    BY <1>1, <1>4, <2>1, EntryStep
<1>6. CASE UrgentTo(NextMsg, TailAfterGrowth, Grown, total_extents + 1)
  <2>1. Shape' /\ Contents' = <<NextMsg>> \o Contents
    BY <1>2, <1>3, <1>4, <1>6, UrgentStep
  <2>2. QED
    BY <1>1, <1>4, <2>1, EntryStep
<1>7. QED
  BY <1>5, <1>6

\* q_send and q_urgent where there is no room.
LEMMA Refused ==
    ASSUME Shape, Sending(kind), UNCHANGED ring, ~HasRoom \/ ~UrgentHasRoom
    PROVE  Shape' /\ RingStep
<1>1. msg_count >= Capacity /\ sent' \in Nat
  BY Room DEF Shape, HasRoom, UrgentHasRoom, Sending
<1>2. UNCHANGED <<ring, cfg, fetched>>
  BY Zenon DEF Sending
<1>3. QED
  BY <1>1, <1>2, RefusalStep

\* Every step of the ring keeps its shape and is one of the abstract queue.
LEMMA OneStep == ASSUME Shape, GrowsAtEnd, [RingNext]_ringVars PROVE Shape' /\ RingStep
<1>1. CASE q_send
  <2>1. Sending(kind)
    BY <1>1, Zenon DEF q_send, Sending
  <2>2. CASE HasRoom /\ send_msg_to(NextMsg)
    BY <2>1, <2>2, PlainSend DEF HasRoom
  <2>3. CASE MayGrow /\ SendTo(NextMsg, TailAfterGrowth, Grown, total_extents + 1)
    BY <2>1, <2>3, Growth
  <2>4. CASE ~HasRoom /\ UNCHANGED ring
    BY <2>1, <2>4, Refused
  <2>5. CASE Q_LIMIT /\ msgs_per_extent = 0 /\ msg_count = Capacity /\ send_msg_to(NextMsg)
    BY <2>1, <2>5, PlainSend
  <2>6. QED
    BY <1>1, <2>2, <2>3, <2>4, <2>5, Zenon DEF q_send
<1>2. CASE q_urgent
  <2>1. Sending(kind)
    BY <1>2, Zenon DEF q_urgent, Sending
  <2>2. CASE UrgentHasRoom /\ urgent_msg_to(NextMsg)
    BY <2>1, <2>2, PlainUrgent
  <2>3. CASE MayGrow /\ UrgentTo(NextMsg, TailAfterGrowth, Grown, total_extents + 1)
    BY <2>1, <2>3, Growth
  <2>4. CASE ~UrgentHasRoom /\ UNCHANGED ring
    BY <2>1, <2>4, Refused
  <2>5. QED
    BY <1>2, <2>2, <2>3, <2>4, Zenon DEF q_urgent
<1>3. CASE q_vsend
  <2>1. Sending(kind) /\ Q_LIMIT
    BY <1>3, Zenon DEF q_vsend, Sending, Shape
  <2>2. CASE HasRoom /\ send_msg_to(NextMsg)
    BY <2>1, <2>2, PlainSend DEF HasRoom
  <2>3. CASE msg_count = Capacity /\ msgs_per_extent = 0 /\ send_msg_to(NextMsg)
    BY <2>1, <2>3, PlainSend
  <2>4. CASE ~HasRoom /\ UNCHANGED ring
    BY <2>1, <2>4, Refused
  <2>5. QED
    BY <1>3, <2>2, <2>3, <2>4, Zenon DEF q_vsend
<1>4. CASE q_vurgent
  <2>1. Sending(kind)
    BY <1>4, Zenon DEF q_vurgent, Sending
  <2>2. CASE UrgentHasRoom /\ urgent_msg_to(NextMsg)
    BY <2>1, <2>2, PlainUrgent
  <2>3. CASE ~UrgentHasRoom /\ UNCHANGED ring
    BY <2>1, <2>3, Refused
  <2>4. QED
    BY <1>4, <2>2, <2>3, Zenon DEF q_vurgent
<1>5. CASE Fetch
  <2>1. /\ Shape' /\ Contents # <<>>
        /\ fetched' = Head(Contents) /\ Contents' = Tail(Contents)
    BY <1>5, FetchStep
  <2>2. UNCHANGED cfg
    BY <1>5, Zenon DEF Fetch
  <2>3. QED
    BY <2>1, <2>2, Zenon DEF RingStep, QueueView!MQNext, QueueView!Leave, cfg
<1>6. CASE UNCHANGED ringVars
  <2>1. Shape'
    BY <1>6, Zenon DEF ringVars, Shape, All, Slots, Place
  <2>2. Contents' = Contents
    BY <1>6, Zenon DEF ringVars, Contents, Slots
  <2>3. QED
    BY <1>6, <2>1, <2>2, Zenon DEF ringVars, RingStep, QueueView!mqVars
<1>7. QED
  BY <1>1, <1>2, <1>3, <1>4, <1>5, <1>6, Zenon DEF RingNext, fetch_msg_from, fetch_vmsg_from

\* Rings of any size, of queue.c or vqueue.c, are queues with room for one urgent
\* message: no wrap loses, repeats or reorders a message, nor does a new extent as
\* long as the ring grows only while its messages end at the last slot (queue.c:456-762,
\* 1222-1228, vqueue.c:447-660).
THEOREM RingIsQueue == ASSUME GrowsAtEnd PROVE RingSpec => ImplementsQueue
<1>1. RingInit => Shape /\ QueueView!MQInit
  BY InitShape DEF QueueView!MQInit
<1>2. ASSUME Shape, [RingNext]_ringVars PROVE Shape' /\ RingStep
  BY <1>2, OneStep
<1>3. QED
  BY <1>1, <1>2, PTL DEF RingSpec, ImplementsQueue, QueueView!MQSpec, RingStep

------------------------------------------------------------------------------
(* Times.                                                                  *)

USE SecondAssumption, TickAssumption, WordAssumption

(* Arithmetic.                                                             *)

\* A quotient and its remainder.
LEMMA DivMod ==
    ASSUME NEW x \in Int, NEW d \in Nat, d > 0
    PROVE  /\ x \div d \in Int /\ x % d \in 0..(d - 1)
           /\ x = (x \div d) * d + (x % d)
BY SMT

\* What is less than the divisor is its own remainder.
LEMMA Small ==
    ASSUME NEW x \in Nat, NEW d \in Nat, x < d
    PROVE  x % d = x
BY SMT

\* A smaller number of seconds is smaller by one second at least.
LEMMA Fewer ==
    ASSUME NEW a \in Int, NEW b \in Int, NEW s \in Nat, a < b
    PROVE  a * s + s <= b * s
BY SMT

\* Seconds times their length, for sums and differences.
LEMMA Distribute ==
    ASSUME NEW a \in Int, NEW b \in Int, NEW s \in Nat
    PROVE  /\ (a - b) * s = a * s - b * s /\ (a + b) * s = a * s + b * s
           /\ a * s \in Int
BY SMT

\* The clock is its seconds and its microseconds (gettimeofday).
LEMMA ClockRead ==
    ASSUME clock \in Nat
    PROVE  Sec \in Int /\ Usec \in 0..(Second - 1) /\ clock = Sec * Second + Usec
BY DivMod DEF Sec, Usec

------------------------------------------------------------------------------
(* The operators of Timer.                                                 *)

\* A wait that fits is neither cut off nor negative (timer.c:43, 57).
LEMMA DelayFits ==
    ASSUME clock \in Nat, wait \in Nat, Fits
    PROVE  /\ Delay = wait * Tick /\ Delay \in Nat
           /\ Long(Delay) = wait * Tick
           /\ Long(Usec + Delay) = Usec + wait * Tick
<1> DEFINE d == wait * Tick
<1>1. d \in Nat
  BY SMT
<1>2. Word \div 2 \in Nat /\ Word = (Word \div 2) * 2
  BY SMT
<1>3. d + Second <= Word \div 2
  BY DEF Fits
<1>4. Usec \in 0..(Second - 1)
  BY ClockRead
<1> HIDE DEF d
<1>5. \A x \in Nat : x < Word \div 2 => x % Word = x
  <2> TAKE x \in Nat
  <2> HAVE x < Word \div 2
  <2> QED BY <1>2, Small
<1>6. d % Word = d
  BY <1>1, <1>2, <1>3, <1>5
<1>7. (Usec + d) % Word = Usec + d
  <2>1. Usec + d \in Nat /\ Usec + d < Word \div 2
    BY <1>1, <1>2, <1>3, <1>4
  <2> QED BY <2>1, <1>5
<1>8. Delay = d
  BY <1>6 DEF Delay, ULong, d
<1>9. Long(d) = d /\ Long(Usec + d) = Usec + d
  BY <1>1, <1>2, <1>3, <1>4, <1>6, <1>7 DEF Long, ULong
<1> QED BY <1>1, <1>8, <1>9 DEF d

\* A carry changes the microseconds and not the time; it leaves a full second of
\* microseconds only when there was exactly one (timer.c:58-62).
LEMMA CarryKeeps ==
    ASSUME clock \in Nat, NEW u \in Nat
    PROVE  /\ Carried(u).usec \in 0..Second
           /\ Carried(u).usec = Second => u = Second
           /\ Carried(u).sec * Second + Carried(u).usec = Sec * Second + u
<1>1. Sec \in Int
  BY ClockRead
<1>2. CASE u > Second
  <2>1. Carried(u) = [sec |-> Sec + u \div Second, usec |-> u % Second]
    BY <1>2 DEF Carried
  <2>2. u \div Second \in Int /\ u % Second \in 0..(Second - 1)
        /\ u = (u \div Second) * Second + (u % Second)
    BY DivMod
  <2>3. (Sec + u \div Second) * Second = Sec * Second + (u \div Second) * Second
    BY <1>1, <2>2, Distribute
  <2>4. Sec * Second \in Int /\ (u \div Second) * Second \in Int
    BY <1>1, <2>2, Distribute
  <2> QED BY <2>1, <2>2, <2>3, <2>4
<1>3. CASE u <= Second
  BY <1>3 DEF Carried
<1> QED BY <1>2, <1>3

\* The carry gives two integers.
LEMMA CarryType ==
    ASSUME clock \in Nat, NEW u \in Int
    PROVE  Carried(u) \in [sec : Int, usec : Int]
<1>1. Sec \in Int /\ u \div Second \in Int /\ u % Second \in Int
  BY ClockRead, DivMod
<1> QED BY <1>1 DEF Carried

\* The time left is the time until the timeout, or none (timer.c:79-95).
LEMMA LeftIs ==
    ASSUME clock \in Nat, timeout \in [sec : Int, usec : Int], timeout.usec \in 0..Second
    PROVE  /\ Instant \in Int /\ Left \in Nat
           /\ Instant > clock => Left = Instant - clock
           /\ Instant <= clock => Left = 0
<1> DEFINE ts == timeout.sec
           tu == timeout.usec
<1>1. ts \in Int /\ tu \in 0..Second
  OBVIOUS
<1>2. Sec \in Int /\ Usec \in 0..(Second - 1) /\ clock = Sec * Second + Usec
  BY ClockRead
<1>3. Borrow \in {0, 1} /\ (Borrow = 0 <=> tu > Usec)
  BY <1>1, <1>2 DEF Borrow
<1>4. Instant = ts * Second + tu /\ Instant \in Int
  BY <1>1, Distribute DEF Instant
<1>5. ts * Second \in Int /\ Sec * Second \in Int
  BY <1>1, <1>2, Distribute
<1>6. (ts - Borrow - Sec) * Second = ts * Second - Borrow * Second - Sec * Second
  BY <1>1, <1>2, <1>3, Distribute
<1>7. Borrow * Second = IF tu > Usec THEN 0 ELSE Second
  BY <1>3
<1> DEFINE whole == ts - Borrow - Sec
<1>8. whole \in Int
  BY <1>1, <1>2, <1>3
<1>9. CASE ts - Borrow < Sec
  <2>1. Left = 0
    BY <1>9 DEF Left
  <2>2. (ts - Borrow) * Second + Second <= Sec * Second
    BY <1>1, <1>2, <1>3, <1>9, Fewer
  <2>3. (ts - Borrow) * Second = ts * Second - Borrow * Second
    BY <1>1, <1>3, Distribute
  <2>4. Instant <= clock
    BY <2>2, <2>3, <1>1, <1>2, <1>3, <1>4, <1>5, <1>7
  <2> QED BY <2>1, <2>4, <1>2, <1>4
<1>10. CASE ~(ts - Borrow < Sec)
  <2>1. Left = tu + Borrow * Second - Usec + (ts - Borrow - Sec) * Second
    BY <1>10 DEF Left
  <2>2. Left = Instant - clock
    BY <2>1, <1>1, <1>2, <1>3, <1>4, <1>5, <1>6, <1>7
  <2>3. (ts - Borrow - Sec) * Second >= 0
    <3>1. ts - Borrow - Sec \in Nat
      BY <1>1, <1>2, <1>3, <1>10
    <3> QED BY <3>1, SMT
  <2>4. Left > 0
    BY <2>1, <2>3, <1>1, <1>2, <1>3, <1>6, <1>7, <1>5
  <2> QED BY <2>2, <2>4, <1>2, <1>4
<1> QED BY <1>9, <1>10

------------------------------------------------------------------------------
(* The invariant.                                                          *)

\* The call was before now, and the time that was asked for is kept from the call on: in the timeout, and
\* before every sleep in what is left.
Kept ==
    /\ start <= clock
    /\ Fits =>
        /\ at # "call" =>
             /\ Instant = Due
             /\ timeout.usec \in 0..Second
             /\ timeout.usec = Second => (start % Second) + wait * Tick = Second
        /\ at = "left" => clock + usec >= Due
        /\ at = "returned" => clock >= Due

TimeInv == TimeTypeOK /\ Kept

\* What is left fits into a ULONG again.
LEMMA LeftFits ==
    ASSUME TimeInv, Fits, at # "call"
    PROVE  /\ Due > clock => ULong(Left) = Due - clock
           /\ Due <= clock => ULong(Left) = 0
           /\ Due \in Int
<1> USE DEF TimeInv, TimeTypeOK
<1>1. Instant = Due /\ timeout.usec \in 0..Second /\ start <= clock
  BY DEF Kept
<1>2. /\ Left \in Nat
      /\ Due > clock => Left = Due - clock
      /\ Due <= clock => Left = 0
  BY <1>1, LeftIs
<1>3. Due \in Int /\ wait * Tick \in Nat
  BY Distribute DEF Due
<1>4. Word \div 2 \in Nat /\ Word = (Word \div 2) * 2
  BY SMT
<1>5. Left < Word
  BY <1>1, <1>2, <1>3, <1>4 DEF Fits, Due
<1> QED BY <1>2, <1>3, <1>5, Small DEF ULong

\* Before the call.
LEMMA InvInit == TimeInit => TimeInv
BY WaitsAssumption, ClocksAssumption
   DEF TimeInit, TimeInv, TimeTypeOK, Kept, Deadlines

\* What the first step computes, in every one of the callers.
LEMMA Computed ==
    ASSUME clock \in Nat, wait \in Nat, Fits, start' = clock,
           timeout' = Carried(Usec + wait * Tick), wait' = wait
    PROVE  /\ Instant' = Due' /\ timeout'.usec \in 0..Second
           /\ timeout'.usec = Second => (start' % Second) + wait' * Tick = Second
           /\ Due' = clock + wait * Tick
<1>1. wait * Tick \in Nat
  BY SMT
<1>2. Usec \in Nat /\ Usec + wait * Tick \in Nat
  BY <1>1, ClockRead
<1>3. clock = Sec * Second + Usec /\ Sec * Second \in Int
  BY ClockRead, Distribute
<1>4. Due' = clock + wait * Tick
  BY DEF Due
<1> DEFINE c == Carried(Usec + wait * Tick)
<1>5. /\ c.usec \in 0..Second
      /\ c.usec = Second => Usec + wait * Tick = Second
      /\ c.sec * Second + c.usec = Sec * Second + (Usec + wait * Tick)
  BY <1>2, CarryKeeps
<1>6. Instant' = c.sec * Second + c.usec
  BY DEF Instant
<1>7. Instant' = Due'
  BY <1>1, <1>2, <1>3, <1>4, <1>5, <1>6
<1> QED BY <1>4, <1>5, <1>7 DEF Usec

\* Every step keeps the deadline at the time of the call plus the wait.
LEMMA InvNext == TimeInv /\ [TimeNext]_timeVars => TimeInv'
<1> SUFFICES ASSUME TimeInv, [TimeNext]_timeVars PROVE TimeInv'
  OBVIOUS
<1> USE DEF TimeInv, TimeTypeOK
<1>1. CASE tm_wkafter
  <2>1. UNCHANGED <<clock, caller, wait>> /\ (Fits' <=> Fits)
    BY <1>1 DEF tm_wkafter, Fits
  <2>2. CASE Compute
    <3>1. Delay \in Nat /\ Usec \in Int
      BY ClockRead, DivMod DEF Delay, ULong
    <3>2. Long(Usec + Delay) \in Int
      BY <3>1, DivMod DEF Long, ULong
    <3>3. TimeTypeOK'
      BY <2>1, <2>2, <3>1, <3>2, CarryType DEF Compute, Move
    <3>4. ASSUME Fits PROVE Kept'
      <4>1. Delay = wait * Tick /\ Long(Usec + Delay) = Usec + wait * Tick
        BY <3>4, DelayFits
      <4>2. /\ Instant' = Due' /\ timeout'.usec \in 0..Second
            /\ timeout'.usec = Second => (start' % Second) + wait' * Tick = Second
            /\ Due' = clock + wait * Tick
        BY <2>1, <2>2, <3>4, <4>1, Computed DEF Compute
      <4>3. at' = "left" => clock' + usec' >= Due'
        BY <2>1, <2>2, <3>1, <4>1, <4>2 DEF Compute
      <4>4. at' = "returned" => clock' >= Due'
        BY <2>1, <2>2, <3>1, <4>1, <4>2 DEF Compute, Move
      <4> QED BY <2>1, <2>2, <4>2, <4>3, <4>4 DEF Kept, Compute
    <3>5. start' <= clock'
      BY <2>1, <2>2 DEF Compute
    <3> QED BY <2>1, <3>3, <3>4, <3>5 DEF Kept
  <2>3. CASE Usleep
    BY <2>1, <2>3 DEF Usleep, Move, Kept, Instant, Due
  <2>4. CASE Awake
    <3>1. Left \in Int
      <4>1. Sec \in Int /\ Usec \in Int
        BY ClockRead
      <4>2. Borrow \in Int
        BY DEF Borrow
      <4> QED BY <4>1, <4>2 DEF Left
    <3>2. usec' \in Nat
      BY <2>4, <3>1, DivMod DEF Awake, ULong
    <3>3. TimeTypeOK'
      BY <2>1, <2>4, <3>2 DEF Awake, Move
    <3>4. UNCHANGED <<start, timeout>> /\ Instant' = Instant /\ Due' = Due
      BY <2>1, <2>4 DEF Awake, Instant, Due
    <3>5. ASSUME Fits PROVE (at' = "left" => clock + usec' >= Due) /\ (at' = "returned" => clock >= Due)
      <4>1. /\ Due > clock => ULong(Left) = Due - clock
            /\ Due <= clock => ULong(Left) = 0
            /\ Due \in Int
        BY <2>4, <3>5, LeftFits DEF Awake, Move
      <4>2. usec' = ULong(Left) /\ (at' = "returned" => usec' = 0)
        BY <2>4, <3>2 DEF Awake, Move
      <4> QED BY <4>1, <4>2
    <3> QED BY <2>1, <2>4, <3>3, <3>4, <3>5 DEF Kept, Awake, Move
  <2> QED BY <1>1, <2>2, <2>3, <2>4 DEF tm_wkafter
<1>2. CASE Deadline
  <2>1. UNCHANGED <<clock, caller, wait, usec>> /\ (Fits' <=> Fits) /\ at' = "waiting"
    BY <1>2 DEF Deadline, Move, Fits
  <2>2. Delay \in Nat /\ Usec \in Int
    BY ClockRead, DivMod DEF Delay, ULong
  <2>3. Long(Delay) + Usec \in Int
    BY <2>2, DivMod DEF Long, ULong
  <2>4. TimeTypeOK'
    BY <1>2, <2>1, <2>3, CarryType DEF Deadline
  <2>5. ASSUME Fits PROVE Kept'
    <3>1. Long(Delay) = wait * Tick /\ wait * Tick \in Int
      BY <2>5, DelayFits
    <3>2. Long(Delay) + Usec = Usec + wait * Tick
      BY <2>2, <3>1
    <3> QED BY <1>2, <2>1, <2>5, <3>2, Computed DEF Deadline, Kept
  <2>6. start' <= clock'
    BY <1>2 DEF Deadline
  <2> QED BY <2>1, <2>4, <2>5, <2>6 DEF Kept
<1>3. CASE pthread_cond_timedwait
  BY <1>3 DEF pthread_cond_timedwait, Move, Kept, Instant, Due, Fits
<1>4. CASE Nap
  BY <1>4 DEF Nap, Move, Kept, Instant, Due, Fits
<1>5. CASE Pass
  <2>1. clock' = clock + 1 /\ UNCHANGED <<caller, wait, start, at, timeout, usec>>
    BY <1>5 DEF Pass
  <2>2. Instant' = Instant /\ Due' = Due /\ (Fits' <=> Fits) /\ Due \in Int
    BY <2>1, Distribute DEF Instant, Due, Fits
  <2> QED BY <2>1, <2>2 DEF Kept
<1>6. CASE UNCHANGED timeVars
  BY <1>6 DEF timeVars, Kept, Instant, Due, Fits
<1> QED
  BY <1>1, <1>2, <1>3, <1>4, <1>5, <1>6
     DEF TimeNext, q_receive, q_vreceive, sm_p, ev_receive,
         waiting_on_queue, waiting_on_vqueue, waiting_on_sema4

------------------------------------------------------------------------------
\* The invariant of the waits.
LEMMA Invariant == TimeSpec => []TimeInv
<1>1. TimeInit => TimeInv
  BY InvInit
<1>2. TimeInv /\ [TimeNext]_timeVars => TimeInv'
  BY InvNext
<1> QED BY <1>1, <1>2, PTL DEF TimeSpec

\* Every deadline that q_receive, q_vreceive, sm_p and ev_receive compute is the
\* time of the call and the ticks, and pthread_cond_timedwait takes it unless the
\* microseconds make exactly one second (queue.c:1783-1797).
THEOREM DeadlinesAreDue == TimeSpec => []DeadlineIsDue
<1>1. TimeInv => DeadlineIsDue
  BY DEF TimeInv, TimeTypeOK, Kept, DeadlineIsDue
<1> QED BY <1>1, Invariant, PTL

\* No wait of tm_wkafter, and no wait with a timeout, ends before its time
\* (timer.c:65-69).
THEOREM NeverEarly == TimeSpec => []NotEarly
<1>1. TimeInv => NotEarly
  BY DEF TimeInv, Kept, NotEarly
<1> QED BY <1>1, Invariant, PTL

\* A sleep of tm_wkafter that a signal ends is followed by one for what is left
\* (timer.c:79-95).
THEOREM SleepsAreDue == TimeSpec => SleepsToDue
<1>1. TimeInv /\ TimeInv' /\ [TimeNext]_timeVars
        => [Fits /\ at # "left" /\ at' = "left" => clock + usec' = Due']_timeVars
  <2> SUFFICES ASSUME TimeInv, TimeInv', TimeNext, Fits, at # "left", at' = "left"
               PROVE  clock + usec' = Due'
    BY DEF timeVars
  <2> USE DEF TimeInv, TimeTypeOK
  <2>1. tm_wkafter
    BY DEF TimeNext, q_receive, q_vreceive, sm_p, ev_receive, waiting_on_queue,
           waiting_on_vqueue, waiting_on_sema4, Deadline, Nap, Move, Pass,
           pthread_cond_timedwait
  <2>2. CASE Compute
    <3>1. Delay = wait * Tick /\ Long(Usec + Delay) = Usec + wait * Tick /\ Delay \in Nat
      BY DelayFits
    <3>2. Due' = clock + wait * Tick
      BY <2>1, <2>2 DEF Compute, tm_wkafter, Due
    <3> QED BY <2>2, <3>1, <3>2 DEF Compute
  <2>3. CASE Awake
    <3>1. usec' > 0 /\ at = "asleep" /\ UNCHANGED <<start, timeout>> /\ usec' = ULong(Left)
      BY <2>3 DEF Awake, Move
    <3>2. Due' = Due
      BY <2>1, <3>1 DEF Due, tm_wkafter
    <3>3. /\ Due > clock => ULong(Left) = Due - clock
          /\ Due <= clock => ULong(Left) = 0
          /\ Due \in Int
      BY <3>1, LeftFits
    <3> QED BY <3>1, <3>2, <3>3
  <2> QED BY <2>1, <2>2, <2>3 DEF tm_wkafter, Usleep, Move
<1> QED BY <1>1, Invariant, PTL DEF TimeSpec, SleepsToDue
==============================================================================
