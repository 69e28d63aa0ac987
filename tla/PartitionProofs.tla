--------------------------- MODULE PartitionProofs ---------------------------
(***************************************************************************)
(* What one partition guarantees for any number of blocks and callers.     *)
(***************************************************************************)
EXTENDS Partition, Sequences, FiniteSetTheorems, SequenceTheorems, WellFoundedInduction, TLAPS

USE NumBlocksAssumption, TaskAssumption, UsesAssumption

\* A block is returned by its owner only, and, where blocks are returned at all, the
\* callers never take the last one: the code is wrong otherwise (memblk.c:834-846).
Careful ==
    /\ \A t \in Task : "again" \notin use.calls[t]
    /\ use.keep > 0 \/ \A t \in Task : "ret" \notin use.calls[t]

------------------------------------------------------------------------------
(* The free list as the least set that is closed under the links.          *)

\* The head of the free list is on it.
LEMMA FirstIsFree == first_free \in Block => first_free \in FreeBlocks
BY DEF FreeBlocks

\* What a free block leads to is free.
LEMMA FreeIsClosed ==
    ASSUME NEW b \in FreeBlocks, word[b] \in Block PROVE word[b] \in FreeBlocks
BY DEF FreeBlocks, Follows

\* A set with the head that is closed under the links holds all free blocks.
LEMMA FreeIsLeast ==
    ASSUME NEW S \in SUBSET Block, first_free \in S,
           \A b \in S : word[b] \in Block => word[b] \in S
    PROVE  FreeBlocks \subseteq S
BY DEF FreeBlocks, Follows

\* Free blocks are blocks, and there are none without a head.
LEMMA FreeAreBlocks == FreeBlocks \subseteq Block /\ (FreeBlocks # {} => first_free \in Block)
BY DEF FreeBlocks

\* What can be shown of every closed set is in the free list.
LEMMA InEveryClosedSet ==
    ASSUME first_free \in Block, NEW b \in Block,
           \A S \in SUBSET Block : first_free \in S /\ Follows(S) => b \in S
    PROVE  b \in FreeBlocks
BY DEF FreeBlocks

\* The blocks can be counted.
LEMMA BlocksFinite == IsFiniteSet(Block) /\ Cardinality(Block) = NumBlocks
BY FS_Interval DEF Block

\* Any set of numbers has a least one.
LEMMA LeastElement ==
    ASSUME NEW T, T \subseteq Nat, T # {} PROVE \E x \in T : \A y \in T : x <= y
<1> DEFINE R == OpToRel(<, Nat)
<1>1. IsWellFoundedOn(R, Nat)
  BY NatLessThanWellFounded, Zenon
<1>2. \A x, y \in Nat : y < x => <<y, x>> \in R
  BY DEF OpToRel
<1> HIDE DEF R
<1>3. \E x \in T : \A y \in T : ~(<<y, x>> \in R)
  BY <1>1, WFMin, Zenon
<1>4. PICK x \in T : \A y \in T : ~(<<y, x>> \in R)
  BY <1>3
<1>5. \A y \in T : ~(y < x)
  BY <1>2, <1>4
<1>6. QED
  BY <1>5

\* All blocks are on the list that new_extent_for links.
LEMMA InitIsFree == Init => FreeBlocks = Block
<1> SUFFICES ASSUME Init PROVE Block \subseteq FreeBlocks
  BY FreeAreBlocks
<1>1. ASSUME NEW S \in SUBSET Block, first_free \in S, Follows(S) PROVE Block \subseteq S
  <2>1. ASSUME Block \ S # {} PROVE FALSE
    <3>1. PICK b \in Block \ S : \A c \in Block \ S : b <= c
      <4>1. Block \ S \subseteq Nat
        BY DEF Block
      <4>2. QED
        BY <2>1, <4>1, LeastElement
    <3>2. b # 1
      BY <1>1, <3>1 DEF Init
    <3>3. b - 1 \in Block /\ word[b - 1] = b
      BY <3>1, <3>2 DEF Init, Block
    <3>4. b - 1 \in S
      BY <3>1, <3>3 DEF Block
    <3>5. QED
      BY <1>1, <3>1, <3>3, <3>4 DEF Follows
  <2>2. QED
    BY <2>1
<1>2. first_free \in Block
  BY DEF Init, Block
<1>3. QED
  BY <1>1, <1>2, InEveryClosedSet

------------------------------------------------------------------------------
(* The inductive invariant.                                                *)

\* Nobody has a free block, and every block is one or the other.
HeldOrFree ==
    /\ \A s, t \in Task : s # t => held[s] \cap held[t] = {}
    /\ Held \cap FreeBlocks = {}
    /\ Held \cup FreeBlocks = Block

\* No two free blocks have the same link, and none leads to the first: there is no
\* cycle, and one end.
OneLinkEach ==
    /\ \A a, b \in FreeBlocks : word[a] = word[b] => a = b
    /\ \A a \in FreeBlocks : word[a] # first_free /\ word[a] # Data

LastIsLast ==
    first_free # Null => last_free \in FreeBlocks /\ word[last_free] = Null

\* A call is one of the caller's; a block on its way back is still the caller's.
CallsFit ==
    \A t \in Task :
        /\ pc[t] = "found" => call[t] \in use.calls[t]
        /\ pc[t] = "found" /\ call[t] = "ret" => buf[t] \in held[t]
        /\ pc[t] = "deleting" => call[t] = "del" /\ prtn_lock = t

\* The control block is freed with its mutex locked.
DeadIsLocked == ~live => prtn_lock \in Task /\ pc[prtn_lock] = "idle"

Pending == {t \in Task : pc[t] # "idle" /\ call[t] = "get"}

Counted ==
    /\ used_blk_count = Cardinality(Held)
    /\ use.keep > 0 => Cardinality(Held) + Cardinality(Pending) < NumBlocks

IInv == /\ TypeOK /\ HeldOrFree /\ OneLinkEach /\ LastIsLast /\ CallsFit
        /\ DeadIsLocked /\ Counted /\ DeletedUnused

\* What tasks hold and what is pending can be counted.
LEMMA Finite == TypeOK => IsFiniteSet(Held) /\ IsFiniteSet(Pending) /\ Held \subseteq Block
<1> SUFFICES ASSUME TypeOK PROVE IsFiniteSet(Held) /\ IsFiniteSet(Pending) /\ Held \subseteq Block
  OBVIOUS
<1>1. Held \subseteq Block
  BY DEF TypeOK, Held
<1>2. IsFiniteSet(Block)
  BY FS_Interval DEF Block
<1>3. Pending \subseteq Task
  BY DEF Pending
<1>4. QED
  BY <1>1, <1>2, <1>3, FS_Subset

\* pt_create lays the list out as the invariant has it.
LEMMA InitIInv == Init => IInv
<1> SUFFICES ASSUME Init PROVE IInv
  OBVIOUS
<1>1. TypeOK
  BY DEF Init, TypeOK, Block, Null, NoTask, NoBuf, Data, AllCalls
<1>2. Held = {} /\ Pending = {}
  BY DEF Init, Held, Pending
<1>3. FreeBlocks = Block
  BY InitIsFree
<1>4. HeldOrFree
  BY <1>2, <1>3 DEF HeldOrFree, Init
<1>5. OneLinkEach /\ LastIsLast
  BY <1>3 DEF Init, OneLinkEach, LastIsLast, Block, Null, Data
<1>6. CallsFit /\ DeadIsLocked /\ DeletedUnused
  BY <1>2 DEF Init, CallsFit, DeadIsLocked, DeletedUnused
<1>7. Counted
  BY <1>2, FS_EmptySet DEF Init, Counted
<1>8. QED
  BY <1>1, <1>4, <1>5, <1>6, <1>7 DEF IInv

------------------------------------------------------------------------------
(* pt_getbuf                                                               *)

\* Without its first block the list is still the least closed set.
LEMMA FreeAfterTake ==
    ASSUME TypeOK, OneLinkEach, first_free \in Block,
           first_free' = word[first_free], word' = word
    PROVE  FreeBlocks' = FreeBlocks \ {first_free}
<1> DEFINE Rest == FreeBlocks \ {first_free}
<1>1. first_free \in FreeBlocks /\ FreeBlocks \subseteq Block
  BY FirstIsFree, FreeAreBlocks
<1>2. \A b \in Rest : word[b] \in Block => word[b] \in Rest
  BY FreeIsClosed DEF OneLinkEach
<1>3. ASSUME first_free' \in Block PROVE first_free' \in Rest
  BY <1>1, <1>3, FreeIsClosed DEF OneLinkEach
<1>4. FreeBlocks' \subseteq Rest
  BY <1>1, <1>2, <1>3 DEF FreeBlocks, Follows
<1>5. ASSUME NEW b \in Rest PROVE b \in FreeBlocks'
  <2>1. ASSUME NEW S \in SUBSET Block, first_free' \in Block => first_free' \in S, Follows(S)
        PROVE  b \in S
    <3>1. FreeBlocks \subseteq S \cup {first_free}
      <4>1. \A c \in S \cup {first_free} : word[c] \in Block => word[c] \in S \cup {first_free}
        BY <2>1 DEF Follows
      <4>2. QED
        BY <1>1, <4>1, FreeIsLeast
    <3>2. QED
      BY <3>1
  <2>2. first_free' \in Block
    <3>1. CASE first_free' \notin Block
      <4>1. {} \in SUBSET Block /\ Follows({})
        BY DEF Follows
      <4>2. QED
        BY <2>1, <3>1, <4>1
    <3>2. QED
      BY <3>1
  <2>3. \A S \in SUBSET Block : first_free' \in S /\ Follows(S)' => b \in S
    BY <2>1 DEF Follows
  <2>4. QED
    BY <1>1, <2>2, <2>3 DEF FreeBlocks
<1>6. QED
  BY <1>4, <1>5

\* pt_getbuf keeps the invariant.
LEMMA StepGet ==
    ASSUME IInv, NEW t \in Task, pt_getbuf(t) PROVE IInv'
<1> USE DEF IInv, pt_getbuf, Enter, Leave, admin, list
<1>1. pc[t] = "found" /\ call[t] = "get" /\ t \in Pending
  BY DEF Pending
<1>2. Pending' = Pending \ {t}
  BY <1>1 DEF Pending, TypeOK
<1>3. IsFiniteSet(Held) /\ IsFiniteSet(Pending) /\ Held \subseteq Block
  BY Finite
<1>4. Cardinality(Pending') = Cardinality(Pending) - 1
  BY <1>1, <1>2, <1>3, FS_RemoveElement
<1>5. Cardinality(Held) \in Nat /\ Cardinality(Pending) \in Nat
  BY <1>3, FS_CardinalityType
<1>6. live
  BY DEF DeadIsLocked
<1>7. CallsFit' /\ DeadIsLocked' /\ DeletedUnused'
  BY <1>6, <1>1 DEF CallsFit, DeadIsLocked, DeletedUnused, TypeOK, TakeFirst
<1>8. CASE TakeFirst(t)
  <2> USE <1>8 DEF TakeFirst, NextFree
  <2>1. FreeBlocks' = FreeBlocks \ {first_free}
    BY FreeAfterTake DEF TakeFirst
  <2>2. first_free \in FreeBlocks /\ first_free \notin Held
    BY FirstIsFree DEF HeldOrFree
  <2>3. Held' = Held \cup {first_free}
    BY DEF Held, TypeOK
  <2>4. word[first_free] \in Block \cup {Null}
    BY <2>2, FreeAreBlocks DEF TypeOK, OneLinkEach
  <2>5. TypeOK'
    BY <2>4 DEF TypeOK
  <2>6. HeldOrFree'
    BY <2>1, <2>2, <2>3 DEF HeldOrFree, TypeOK, Held
  <2>7. OneLinkEach'
    BY <2>1, <2>2, <2>4 DEF OneLinkEach
  <2>8. LastIsLast'
    BY <2>1, <2>2 DEF LastIsLast, Null, Block
  <2>9. Cardinality(Held') = Cardinality(Held) + 1
    BY <1>3, <2>2, <2>3, FS_AddElement
  <2>10. Counted'
    BY <1>4, <1>5, <2>9 DEF Counted
  <2>11. QED
    BY <1>7, <2>5, <2>6, <2>7, <2>8, <2>10
<1>9. CASE UNCHANGED list
  <2> USE <1>9
  <2>1. Held' = Held /\ FreeBlocks' = FreeBlocks
    BY DEF Held, FreeBlocks, Follows
  <2>2. TypeOK' /\ HeldOrFree' /\ OneLinkEach' /\ LastIsLast'
    BY <2>1 DEF TypeOK, HeldOrFree, OneLinkEach, LastIsLast
  <2>3. Counted'
    BY <1>4, <1>5, <2>1 DEF Counted
  <2>4. QED
    BY <1>7, <2>2, <2>3
<1>10. QED
  BY <1>8, <1>9

------------------------------------------------------------------------------
(* pt_retbuf                                                               *)

\* A block appended is free, and nothing else becomes free or gets lost.
LEMMA FreeAfterAppend ==
    ASSUME TypeOK, OneLinkEach, LastIsLast, first_free \in Block,
           NEW b \in Block \ FreeBlocks,
           first_free' = first_free, word' = Linked(b)
    PROVE  FreeBlocks' = FreeBlocks \cup {b}
<1> DEFINE All == FreeBlocks \cup {b}
<1>1. /\ first_free \in FreeBlocks /\ FreeBlocks \subseteq Block
      /\ last_free \in FreeBlocks /\ word[last_free] = Null
  BY FirstIsFree, FreeAreBlocks DEF LastIsLast, Null, Block
<1>2. /\ \A x \in FreeBlocks \ {last_free} : word'[x] = word[x]
      /\ word'[last_free] = b /\ word'[b] = Null
  BY <1>1 DEF Linked, TypeOK
<1>3. Null \notin Block
  BY DEF Null, Block
<1>4. \A x \in All : word'[x] \in Block => word'[x] \in All
  BY <1>1, <1>2, <1>3, FreeIsClosed
<1>5. FreeBlocks' \subseteq All
  <2>1. \A S \in SUBSET Block :
            first_free \in S /\ (\A x \in S : word'[x] \in Block => word'[x] \in S)
              => FreeBlocks' \subseteq S
    BY DEF FreeBlocks, Follows
  <2>2. All \in SUBSET Block /\ first_free \in All
    BY <1>1
  <2>3. QED
    BY <1>4, <2>1, <2>2
<1>6. ASSUME NEW S \in SUBSET Block, first_free \in S, Follows(S)' PROVE All \subseteq S
  <2> DEFINE Old == S \cap FreeBlocks
  <2>1. \A x \in Old : word[x] \in Block => word[x] \in Old
    BY <1>1, <1>2, <1>3, <1>6, FreeIsClosed DEF Follows
  <2>2. FreeBlocks \subseteq Old
    BY <1>1, <1>6, <2>1, FreeIsLeast
  <2>3. b \in S
    BY <1>1, <1>2, <1>6, <2>2 DEF Follows
  <2>4. QED
    BY <2>2, <2>3
<1>7. All \subseteq FreeBlocks'
  BY <1>1, <1>6 DEF FreeBlocks
<1>8. QED
  BY <1>5, <1>7

\* The careful caller of pt_retbuf returns a block of its own, to a list that is not
\* empty and ends.
LEMMA ReturnOfOwn ==
    ASSUME IInv, Careful, NEW t \in Task, pt_retbuf(t)
    PROVE  /\ call[t] = "ret" /\ buf[t] \in held[t] /\ buf[t] \notin FreeBlocks
           /\ live /\ first_free \in Block /\ ScanEnds
<1> USE DEF IInv
<1>1. call[t] = "ret" /\ buf[t] \in held[t] /\ use.keep > 0
  BY DEF pt_retbuf, CallsFit, Careful
<1>2. buf[t] \in Held /\ buf[t] \notin FreeBlocks
  BY <1>1 DEF Held, HeldOrFree
<1>3. live
  BY DEF pt_retbuf, DeadIsLocked
<1>4. first_free \in Block
  <2>1. ASSUME first_free \notin Block PROVE FALSE
    <3>1. Held = Block
      BY <2>1, FreeAreBlocks DEF HeldOrFree
    <3>2. Cardinality(Held) = NumBlocks
      BY <3>1, FS_Interval DEF Block
    <3>3. Cardinality(Pending) \in Nat
      BY Finite, FS_CardinalityType
    <3>4. QED
      BY <1>1, <3>2, <3>3 DEF Counted
  <2>2. QED
    BY <2>1
<1>5. ScanEnds
  BY <1>4 DEF ScanEnds, LastIsLast, Null, Block
<1>6. QED
  BY <1>1, <1>2, <1>3, <1>4, <1>5

\* pt_retbuf of a block of one's own keeps the invariant.
LEMMA StepReturn ==
    ASSUME IInv, Careful, NEW t \in Task, pt_retbuf(t) PROVE IInv'
<1> DEFINE b == buf[t]
<1>1. /\ call[t] = "ret" /\ b \in held[t] /\ b \notin FreeBlocks
      /\ live /\ first_free \in Block /\ ScanEnds
  BY ReturnOfOwn
<1> USE DEF IInv
<1>2. /\ AppendFree(t, b)
      /\ pc' = [pc EXCEPT ![t] = "idle"] /\ prtn_lock' = NoTask
      /\ pc[t] = "found" /\ prtn_lock \in {NoTask, t}
      /\ UNCHANGED <<live, call, buf, use>>
  BY <1>1 DEF pt_retbuf, AlreadyFree
<1>3. /\ first_free \in FreeBlocks /\ FreeBlocks \subseteq Block
      /\ last_free \in FreeBlocks /\ word[last_free] = Null
      /\ Null \notin Block /\ b \in Block
  BY <1>1, FirstIsFree, FreeAreBlocks DEF LastIsLast, Null, Block, TypeOK
<1>4. /\ word' = Linked(b) /\ first_free' = first_free /\ last_free' = b
      /\ used_blk_count' = used_blk_count - 1
      /\ free_blk_count' = free_blk_count + 1
      /\ held' = [held EXCEPT ![t] = @ \ {b}]
  BY <1>2, <1>3 DEF AppendFree, NewFirst, NewLast
<1>5. FreeBlocks' = FreeBlocks \cup {b}
  BY <1>1, <1>3, <1>4, FreeAfterAppend
<1>6. Held' = Held \ {b} /\ b \in Held
  BY <1>1, <1>4 DEF Held, HeldOrFree, TypeOK
<1>7. TypeOK'
  BY <1>2, <1>3, <1>4 DEF TypeOK, Linked
<1>8. HeldOrFree'
  BY <1>1, <1>4, <1>5, <1>6 DEF HeldOrFree, TypeOK
<1>9. /\ \A x \in FreeBlocks \ {last_free} : word'[x] = word[x] /\ word[x] # Null
      /\ word'[last_free] = b /\ word'[b] = Null
      /\ \A x \in FreeBlocks : word[x] # b
  BY <1>1, <1>3, <1>4, FreeIsClosed DEF Linked, TypeOK, OneLinkEach
<1>10. OneLinkEach'
  BY <1>1, <1>3, <1>4, <1>5, <1>9 DEF OneLinkEach, Data, Null, Block
<1>11. LastIsLast'
  BY <1>4, <1>5, <1>9 DEF LastIsLast
<1>12. CallsFit' /\ DeadIsLocked' /\ DeletedUnused'
  BY <1>1, <1>2, <1>4 DEF CallsFit, DeadIsLocked, DeletedUnused, TypeOK
<1>13. Counted'
  <2>1. Pending' = Pending
    BY <1>1, <1>2 DEF Pending, TypeOK
  <2>2. Cardinality(Held') = Cardinality(Held) - 1
    BY <1>6, Finite, FS_RemoveElement
  <2>3. Cardinality(Held) \in Nat /\ Cardinality(Pending) \in Nat
    BY Finite, FS_CardinalityType
  <2>4. QED
    BY <1>2, <1>4, <2>1, <2>2, <2>3 DEF Counted
<1>14. QED
  BY <1>7, <1>8, <1>10, <1>11, <1>12, <1>13

------------------------------------------------------------------------------
(* The calls that leave the list alone, and the callers.                   *)

\* What leaves the list alone keeps what is said of it.
LEMMA ListUnchanged ==
    ASSUME TypeOK, HeldOrFree, OneLinkEach, LastIsLast, UNCHANGED list
    PROVE  /\ HeldOrFree' /\ OneLinkEach' /\ LastIsLast'
           /\ Held' = Held /\ used_blk_count' = used_blk_count
<1>1. Held' = Held /\ FreeBlocks' = FreeBlocks
  BY DEF list, Held, FreeBlocks, Follows
<1>2. QED
  BY <1>1 DEF list, HeldOrFree, OneLinkEach, LastIsLast

\* A write to other blocks leaves the list alone.
LEMMA FreeStays ==
    ASSUME first_free' = first_free, \A x \in FreeBlocks : word'[x] = word[x]
    PROVE  FreeBlocks' = FreeBlocks
<1>1. CASE first_free \notin Block
  BY <1>1 DEF FreeBlocks
<1>2. CASE first_free \in Block
  <2>1. \A S \in SUBSET Block :
            first_free \in S /\ (\A x \in S : word'[x] \in Block => word'[x] \in S)
              => FreeBlocks' \subseteq S
    BY DEF FreeBlocks, Follows
  <2>2. \A x \in FreeBlocks : word'[x] \in Block => word'[x] \in FreeBlocks
    BY FreeIsClosed
  <2>3. FreeBlocks' \subseteq FreeBlocks
    BY <1>2, <2>1, <2>2, FirstIsFree, FreeAreBlocks
  <2>4. ASSUME NEW S \in SUBSET Block, first_free \in S, Follows(S)'
        PROVE  FreeBlocks \subseteq S
    <3> DEFINE Old == S \cap FreeBlocks
    <3>1. \A x \in Old : word[x] \in Block => word[x] \in Old
      BY <2>4, FreeIsClosed DEF Follows
    <3>2. QED
      BY <1>2, <2>4, <3>1, FirstIsFree, FreeIsLeast
  <2>5. FreeBlocks \subseteq FreeBlocks'
    BY <1>2, <2>4, FreeAreBlocks DEF FreeBlocks
  <2>6. QED
    BY <2>3, <2>5
<1>3. QED
  BY <1>1, <1>2

\* Writing into a block of one's own does not touch the free list.
LEMMA StepWrite ==
    ASSUME IInv, NEW t \in Task, Write(t) PROVE IInv'
<1> USE DEF IInv
<1>1. PICK b \in held[t] : word' = [word EXCEPT ![b] = Data]
  BY DEF Write
<1>2. b \notin FreeBlocks /\ b \in Block
  BY DEF Held, HeldOrFree, TypeOK
<1>3. UNCHANGED <<first_free, last_free, free_blk_count, used_blk_count, held, live,
                  prtn_lock, use, pc, call, buf>>
  BY DEF Write, admin
<1>4. \A x \in FreeBlocks : word'[x] = word[x]
  BY <1>1, <1>2, FreeAreBlocks DEF TypeOK
<1>5. FreeBlocks' = FreeBlocks
  BY <1>3, <1>4, FreeStays
<1>6. Held' = Held /\ Pending' = Pending
  BY <1>3 DEF Held, Pending
<1>7. TypeOK'
  BY <1>1, <1>2, <1>3 DEF TypeOK
<1>8. HeldOrFree' /\ OneLinkEach' /\ LastIsLast'
  BY <1>3, <1>4, <1>5, <1>6 DEF HeldOrFree, OneLinkEach, LastIsLast
<1>9. CallsFit' /\ DeadIsLocked' /\ Counted' /\ DeletedUnused'
  BY <1>3, <1>6 DEF CallsFit, DeadIsLocked, Counted, DeletedUnused
<1>10. QED
  BY <1>7, <1>8, <1>9

\* A call that finds the partition keeps the invariant.
LEMMA StepLookup ==
    ASSUME IInv, NEW t \in Task, NEW c \in use.calls[t], NEW b \in Block \cup {NoBuf},
           Lookup(t, c, b)
    PROVE  IInv'
<1> USE DEF IInv, Lookup, admin
<1>1. c \in AllCalls
  BY DEF TypeOK, Use
<1>2. HeldOrFree' /\ OneLinkEach' /\ LastIsLast' /\ Held' = Held /\ UNCHANGED used_blk_count
  BY ListUnchanged
<1>3. TypeOK'
  BY <1>1 DEF TypeOK, list
<1>4. CallsFit' /\ DeadIsLocked' /\ DeletedUnused'
  BY <1>2 DEF CallsFit, DeadIsLocked, DeletedUnused, TypeOK, MayReturn, list
<1>5. Counted'
  <2>1. Pending' = IF c = "get" THEN Pending \cup {t} ELSE Pending
    BY DEF Pending, TypeOK
  <2>2. Cardinality(Pending \cup {t}) <= Cardinality(Pending) + 1
    <3>1. IsFiniteSet(Pending) /\ Cardinality(Pending) \in Nat
      BY Finite, FS_CardinalityType
    <3>2. t \notin Pending
      BY DEF Pending
    <3>3. Cardinality(Pending \cup {t}) = Cardinality(Pending) + 1
      BY <3>1, <3>2, FS_AddElement
    <3>4. QED
      BY <3>1, <3>3
  <2>3. Cardinality(Held) \in Nat /\ Cardinality(Pending) \in Nat /\ use.keep \in Nat
        /\ Cardinality(Pending \cup {t}) \in Nat
    BY Finite, FS_CardinalityType, FS_AddElement DEF TypeOK, Use
  <2>4. c = "get" /\ use.keep > 0 => Cardinality(Held) + Cardinality(Pending) + use.keep < NumBlocks
    BY DEF Taken, Pending
  <2>5. QED
    BY <1>2, <2>1, <2>2, <2>3, <2>4 DEF Counted
<1>6. QED
  BY <1>2, <1>3, <1>4, <1>5

\* So do the refusal of a foreign block and the two steps of pt_delete.
LEMMA StepOther ==
    ASSUME IInv, NEW t \in Task,
           pt_retbuf_Outside(t) \/ DeleteLock(t) \/ DeleteOrRefuse(t)
    PROVE  IInv'
<1> USE DEF IInv, admin, Leave, Enter
<1>1. HeldOrFree' /\ OneLinkEach' /\ LastIsLast' /\ Held' = Held /\ UNCHANGED <<used_blk_count, use>>
  BY ListUnchanged DEF pt_retbuf_Outside, DeleteLock, DeleteOrRefuse
<1>2. Pending' = Pending
  BY DEF pt_retbuf_Outside, DeleteLock, DeleteOrRefuse, Pending, CallsFit, TypeOK
<1>3. Counted'
  BY <1>1, <1>2 DEF Counted
<1>4. CASE pt_retbuf_Outside(t)
  <2>1. TypeOK' /\ CallsFit' /\ DeadIsLocked' /\ DeletedUnused'
    BY <1>1, <1>4 DEF pt_retbuf_Outside, TypeOK, CallsFit, DeadIsLocked, DeletedUnused, list
  <2>2. QED
    BY <1>1, <1>3, <2>1
<1>5. CASE DeleteLock(t)
  <2>1. TypeOK' /\ CallsFit' /\ DeadIsLocked' /\ DeletedUnused'
    BY <1>1, <1>5 DEF DeleteLock, TypeOK, CallsFit, DeadIsLocked, DeletedUnused, list
  <2>2. QED
    BY <1>1, <1>3, <2>1
<1>6. CASE DeleteOrRefuse(t)
  <2>1. TypeOK' /\ CallsFit' /\ DeadIsLocked'
    BY <1>1, <1>6 DEF DeleteOrRefuse, TypeOK, CallsFit, DeadIsLocked, list, LockAfterDelete
  <2>2. ~live' /\ ~use.PT_DEL => Held = {}
    <3>1. CASE InUse
      BY <1>6, <3>1 DEF DeleteOrRefuse, DeletedUnused
    <3>2. CASE ~InUse
      <4>1. IsFiniteSet(Held) /\ Cardinality(Held) \in Nat
        BY Finite, FS_CardinalityType
      <4>2. ~use.PT_DEL => Cardinality(Held) = 0
        BY <3>2, <4>1 DEF InUse, Counted
      <4>3. QED
        BY <4>1, <4>2, FS_EmptySet
    <3>3. QED
      BY <3>1, <3>2
  <2>3. QED
    BY <1>1, <1>3, <2>1, <2>2 DEF DeletedUnused
<1>7. QED
  BY <1>4, <1>5, <1>6

------------------------------------------------------------------------------
\* How tasks use the partition is settled at the beginning.
LEMMA CarefulIsFrozen == [Next]_vars => (Careful' <=> Careful)
BY DEF Next, Work, vars, admin, Careful, pt_getbuf, pt_retbuf, pt_retbuf_Outside,
       DeleteLock, DeleteOrRefuse, Leave, Write, Lookup

\* Every step of careful tasks keeps the invariant.
LEMMA StepIInv == ASSUME Careful, IInv, [Next]_vars PROVE IInv'
<1>1. CASE UNCHANGED vars
  <2>1. UNCHANGED list /\ Pending' = Pending
    BY <1>1 DEF vars, list, Pending
  <2>2. HeldOrFree' /\ OneLinkEach' /\ LastIsLast' /\ Held' = Held
    BY <2>1, ListUnchanged DEF IInv
  <2>3. QED
    BY <1>1, <2>1, <2>2
       DEF vars, IInv, TypeOK, CallsFit, DeadIsLocked, Counted, DeletedUnused
<1>2. ASSUME NEW t \in Task, Work(t) PROVE IInv'
  BY <1>2, StepGet, StepReturn, StepOther DEF Work
<1>3. QED
  BY <1>1, <1>2, StepWrite, StepLookup DEF Next

\* The invariant of careful tasks holds always.
LEMMA Invariance == Spec => [](Careful => IInv)
<1>1. ASSUME Careful => IInv, [Next]_vars PROVE (Careful => IInv)'
  BY <1>1, StepIInv, CarefulIsFrozen
<1>2. QED
  BY <1>1, InitIInv, PTL DEF Spec

\* No block has two owners, or is owned and free: for any number of callers and
\* blocks, when blocks are returned by their owners and the partition does not run
\* empty before a block is returned (pt_getbuf, pt_retbuf, memblk.c:687-889).
THEOREM BlocksAreExclusive == Spec => [](Careful => ExclusiveBlocks)
<1>1. (Careful => IInv) => (Careful => ExclusiveBlocks)
  BY DEF IInv, HeldOrFree, ExclusiveBlocks
<1>2. QED
  BY <1>1, Invariance, PTL

\* Without PT_DEL no partition goes while a block is out, in the same uses
\* (pt_delete, memblk.c:650-674).
THEOREM DeletionIsSafe == Spec => [](Careful => DeletedUnused)
<1>1. (Careful => IInv) => (Careful => DeletedUnused)
  BY DEF IInv
<1>2. QED
  BY <1>1, Invariance, PTL

\* The links that the library writes go into free blocks and blocks on their way back,
\* never into one that a caller has, in the same uses (pt_retbuf, memblk.c:834-846).
THEOREM DataIsKept == Spec /\ []Careful => DataIntact
<1> DEFINE Kept == \A t \in Task : \A b \in held[t] \cap held'[t] : word'[b] \in {word[b], Data}
<1>1. ASSUME Careful, IInv, [Next]_vars PROVE [Kept]_vars
  <2> SUFFICES ASSUME Next PROVE Kept
    BY <1>1
  <2>1. CASE word' = word
    BY <2>1
  <2>2. ASSUME NEW t \in Task, pt_retbuf(t), word' # word PROVE Kept
    <3>1. /\ buf[t] \in held[t] /\ first_free \in Block
      BY <1>1, <2>2, ReturnOfOwn
    <3>2. AppendFree(t, buf[t])
      BY <2>2 DEF pt_retbuf, list
    <3>3. last_free \in FreeBlocks
      BY <1>1, <3>1 DEF IInv, LastIsLast, Null, Block
    <3>4. \A s \in Task : last_free \notin held[s] /\ buf[t] \notin held'[s]
      BY <1>1, <3>1, <3>2, <3>3 DEF IInv, HeldOrFree, Held, AppendFree, TypeOK
    <3>5. \A x \in Block \ {last_free, buf[t]} : word'[x] = word[x]
      BY <1>1, <3>2 DEF AppendFree, Linked, IInv, TypeOK
    <3>6. QED
      BY <1>1, <3>4, <3>5 DEF IInv, TypeOK
  <2>3. ASSUME NEW t \in Task, Write(t) PROVE Kept
    BY <1>1, <2>3 DEF Write, IInv, TypeOK
  <2>4. QED
    BY <2>1, <2>2, <2>3 DEF Next, Work, pt_getbuf, pt_retbuf_Outside, DeleteLock,
       DeleteOrRefuse, TakeFirst, Lookup, list
<1>2. QED
  BY <1>1, Invariance, PTL DEF Spec, DataIntact

------------------------------------------------------------------------------
(* The free list in its order, and the pool that callers see.              *)

\* s holds the free blocks as the links lead through them.
ListIs(s) ==
    /\ s \in Seq(Block) /\ Len(s) = Cardinality(FreeBlocks)
    /\ first_free = IF s = <<>> THEN Null ELSE s[1]
    /\ \A i \in 1..Len(s) : s[i] \in FreeBlocks /\ word[s[i]] = IF i < Len(s) THEN s[i + 1] ELSE Null

Steps(g) ==
    g = [n \in Nat |-> IF n = 0 THEN first_free ELSE IF g[n - 1] \in Block THEN word[g[n - 1]] ELSE Null]

\* Following the links from the first block is determined, step by step.
LEMMA StepsAreOne == ASSUME NEW f, NEW g, Steps(f), Steps(g) PROVE f = g
<1> DEFINE Differ == {n \in Nat : f[n] # g[n]}
<1>1. /\ \A n \in Nat : f[n] = IF n = 0 THEN first_free
                               ELSE IF f[n - 1] \in Block THEN word[f[n - 1]] ELSE Null
      /\ \A n \in Nat : g[n] = IF n = 0 THEN first_free
                               ELSE IF g[n - 1] \in Block THEN word[g[n - 1]] ELSE Null
  BY DEF Steps
<1>2. ASSUME Differ # {} PROVE FALSE
  <2>1. PICK n \in Differ : \A k \in Differ : n <= k
    BY <1>2, LeastElement
  <2>2. n # 0
    BY <1>1, <2>1
  <2>3. n - 1 \in Nat /\ n - 1 \notin Differ
    BY <2>1, <2>2
  <2>4. QED
    BY <1>1, <2>1, <2>2, <2>3
<1>3. \A n \in Nat : f[n] = g[n]
  BY <1>2
<1>4. DOMAIN f = Nat /\ DOMAIN g = Nat /\ f = [n \in DOMAIN f |-> f[n]] /\ g = [n \in DOMAIN g |-> g[n]]
  BY DEF Steps
<1>5. QED
  BY <1>3, <1>4

\* FreeSeq is that order.
FollowsLinks == \A s : ListIs(s) => FreeSeq = s
\* The recursion through the links follows it.
LEMMA FollowsList == FollowsLinks
<1> SUFFICES ASSUME NEW s, ListIs(s) PROVE FreeSeq = s
  BY DEF FollowsLinks
<1> DEFINE f == [n \in Nat |-> IF n < Len(s) THEN s[n + 1] ELSE Null]
<1>1. Len(s) \in Nat /\ Null \notin Block /\ \A i \in 1..Len(s) : s[i] \in Block
  BY DEF ListIs, Null, Block
<1>2. ASSUME NEW n \in Nat
      PROVE f[n] = IF n = 0 THEN first_free ELSE IF f[n - 1] \in Block THEN word[f[n - 1]] ELSE Null
  <2>1. CASE n = 0
    <3>1. s = <<>> <=> Len(s) = 0
      BY DEF ListIs
    <3>2. QED
      BY <1>1, <2>1, <3>1 DEF ListIs
  <2>2. CASE n > 0 /\ n - 1 < Len(s)
    <3>1. n - 1 \in Nat /\ n \in 1..Len(s) /\ f[n - 1] = s[n] /\ s[n] \in Block
      BY <1>1, <2>2
    <3>2. word[s[n]] = IF n < Len(s) THEN s[n + 1] ELSE Null
      BY <3>1 DEF ListIs
    <3>3. QED
      BY <2>2, <3>1, <3>2
  <2>3. CASE n > 0 /\ ~(n - 1 < Len(s))
    <3>1. n - 1 \in Nat /\ f[n - 1] = Null /\ f[n] = Null
      BY <1>1, <2>3
    <3>2. QED
      BY <1>1, <2>3, <3>1
  <2>4. QED
    BY <2>1, <2>2, <2>3
<1>3. Steps(f)
  <2> DEFINE g == [n \in Nat |-> IF n = 0 THEN first_free
                                 ELSE IF f[n - 1] \in Block THEN word[f[n - 1]] ELSE Null]
  <2>1. DOMAIN f = Nat /\ DOMAIN g = Nat /\ \A n \in Nat : g[n] = f[n]
    BY <1>2
  <2>2. f = g
    <3> HIDE DEF f
    <3>1. f = [n \in Nat |-> f[n]]
      BY DEF f
    <3>2. QED
      BY <2>1, <3>1
  <2>3. QED
    BY <2>2 DEF Steps
<1> HIDE DEF f
<1>4. Steps(Chain)
  BY <1>3 DEF Steps, Chain
<1>5. Chain = f
  BY <1>3, <1>4, StepsAreOne
<1>6. FreeSeq = [i \in 1..Len(s) |-> f[i - 1]]
  BY <1>5 DEF FreeSeq, ListIs
<1>7. \A i \in 1..Len(s) : f[i - 1] = s[i]
  BY <1>1 DEF f
<1>8. FreeSeq \in Seq(Block) /\ Len(FreeSeq) = Len(s) /\ \A i \in 1..Len(s) : FreeSeq[i] = s[i]
  BY <1>1, <1>6, <1>7
<1>9. QED
  BY <1>8, SeqEqual DEF ListIs

\* The new list, new_extent_for's.
LEMMA InitList == Init => ListIs(FreeSeq) /\ {FreeSeq[i] : i \in DOMAIN FreeSeq} = Block
<1> SUFFICES ASSUME Init PROVE ListIs(FreeSeq) /\ {FreeSeq[i] : i \in DOMAIN FreeSeq} = Block
  OBVIOUS
<1> DEFINE s == [i \in 1..NumBlocks |-> i]
<1>1. FreeBlocks = Block /\ Cardinality(Block) = NumBlocks
  BY InitIsFree, FS_Interval DEF Block
<1>2. s \in Seq(Block) /\ Len(s) = NumBlocks /\ s # <<>> /\ \A i \in 1..NumBlocks : s[i] = i
  BY DEF Block
<1>3. first_free = 1 /\ \A b \in Block : word[b] = IF b < NumBlocks THEN b + 1 ELSE Null
  BY DEF Init
<1> HIDE DEF s
<1>4. ListIs(s)
  BY <1>1, <1>2, <1>3 DEF ListIs, Block
<1>5. FreeSeq = s
  BY <1>4, FollowsList DEF FollowsLinks
<1>6. {s[i] : i \in 1..NumBlocks} = Block /\ DOMAIN s = 1..NumBlocks
  BY <1>2 DEF Block
<1>7. QED
  BY <1>4, <1>5, <1>6

\* What FollowsList says of the next state.
LEMMA FollowsNext == ASSUME NEW s, ListIs(s)' PROVE ListIs(FreeSeq)' /\ FreeSeq' = s
<1>1. FollowsLinks'
  BY FollowsList, PTL
<1>2. FreeSeq' = s
  BY <1>1 DEF FollowsLinks
<1>3. QED
  BY <1>2 DEF ListIs

\* A step that leaves links and first block of the list alone.
LEMMA ListKept ==
    ASSUME ListIs(FreeSeq), first_free' = first_free, \A x \in FreeBlocks : word'[x] = word[x]
    PROVE  ListIs(FreeSeq)' /\ FreeSeq' = FreeSeq
<1> DEFINE s == FreeSeq
<1>1. FreeBlocks' = FreeBlocks
  BY FreeStays
<1>2. ListIs(s)
  OBVIOUS
<1> HIDE DEF s
<1>3. \A r : r = s => ListIs(r)'
  BY <1>1, <1>2 DEF ListIs
<1>4. QED
  BY <1>3, FollowsNext DEF s

\* pt_getbuf takes the head of the list.
LEMMA ListTaken ==
    ASSUME IInv, ListIs(FreeSeq), NEW t \in Task, TakeFirst(t)
    PROVE  /\ ListIs(FreeSeq)' /\ FreeSeq # <<>> /\ FreeSeq' = Tail(FreeSeq)
           /\ Held' = Held \cup {Head(FreeSeq)}
<1> DEFINE s == FreeSeq
           r == Tail(s)
<1>1. /\ first_free \in Block /\ first_free' = word[first_free] /\ word' = word
      /\ held' = [held EXCEPT ![t] = @ \cup {first_free}]
  BY DEF TakeFirst, NextFree
<1>2. FreeBlocks' = FreeBlocks \ {first_free} /\ first_free \in FreeBlocks /\ FreeBlocks \subseteq Block
  BY <1>1, FreeAfterTake, FirstIsFree, FreeAreBlocks DEF IInv
<1>3. ListIs(s)
  OBVIOUS
<1> HIDE DEF s
<1>4. Null \notin Block /\ s \in Seq(Block) /\ Len(s) \in Nat
  BY <1>3 DEF ListIs, Null, Block
<1>5. s # <<>> /\ s[1] = first_free /\ Head(s) = first_free
  BY <1>1, <1>3, <1>4 DEF ListIs
<1>6. IsFiniteSet(FreeBlocks) /\ Cardinality(FreeBlocks') = Cardinality(FreeBlocks) - 1
  <2>1. IsFiniteSet(FreeBlocks)
    BY <1>2, BlocksFinite, FS_Subset
  <2>2. QED
    BY <1>2, <2>1, FS_RemoveElement
<1>7. r \in Seq(Block) /\ Len(r) = Len(s) - 1 /\ \A i \in 1..Len(r) : r[i] = s[i + 1]
  BY <1>4, <1>5
<1> HIDE DEF r
<1>8. \A i \in 1..Len(r) : i \in 1..Len(s) /\ i + 1 \in 1..Len(s)
  BY <1>4, <1>5, <1>7
<1>9. ASSUME NEW i \in 1..Len(r)
      PROVE  r[i] \in FreeBlocks' /\ word'[r[i]] = IF i < Len(r) THEN r[i + 1] ELSE Null
  <2>1. word[s[i]] = s[i + 1] /\ s[i] \in FreeBlocks /\ s[i + 1] \in FreeBlocks
        /\ word[s[i + 1]] = IF i + 1 < Len(s) THEN s[i + 2] ELSE Null
    <3>1. i < Len(s) /\ (i + 1) + 1 = i + 2
      BY <1>4, <1>7, <1>8
    <3>2. QED
      BY <1>3, <1>8, <3>1 DEF ListIs
  <2>2. s[i + 1] # first_free
    BY <2>1 DEF IInv, OneLinkEach
  <2>3. i < Len(r) => r[i + 1] = s[i + 2]
    BY <1>4, <1>7
  <2>4. i < Len(r) <=> i + 1 < Len(s)
    BY <1>4, <1>7
  <2>5. QED
    BY <1>1, <1>2, <1>7, <2>1, <2>2, <2>3, <2>4
<1>10. first_free' = IF r = <<>> THEN Null ELSE r[1]
  <2>1. word[s[1]] = IF 1 < Len(s) THEN s[2] ELSE Null
    BY <1>3, <1>4, <1>5 DEF ListIs
  <2>2. r = <<>> <=> ~(1 < Len(s))
    BY <1>4, <1>5, <1>7
  <2>3. 1 < Len(s) => r[1] = s[2]
    BY <1>4, <1>7
  <2>4. QED
    BY <1>1, <1>5, <2>1, <2>2, <2>3
<1>11. Len(r) = Cardinality(FreeBlocks')
  BY <1>3, <1>6, <1>7 DEF ListIs
<1>12. \A q : q = r => ListIs(q)'
  BY <1>7, <1>9, <1>10, <1>11 DEF ListIs
<1>13. ListIs(FreeSeq)' /\ FreeSeq' = r
  BY <1>12, FollowsNext
<1>14. Held' = Held \cup {first_free}
  BY <1>1 DEF Held, IInv, TypeOK
<1>15. QED
  BY <1>5, <1>13, <1>14 DEF s, r

\* pt_retbuf puts its block behind the list.
LEMMA ListReturned ==
    ASSUME IInv, ListIs(FreeSeq), NEW t \in Task, NEW b \in held[t],
           b \notin FreeBlocks, first_free \in Block, AppendFree(t, b)
    PROVE  ListIs(FreeSeq)' /\ FreeSeq' = Append(FreeSeq, b) /\ Held' = Held \ {b} /\ b \in Held
<1> DEFINE s == FreeSeq
           r == Append(s, b)
<1>1. /\ word' = Linked(b) /\ first_free' = first_free /\ held' = [held EXCEPT ![t] = @ \ {b}]
      /\ b \in Block /\ Null \notin Block /\ b \in Held
      /\ first_free \in FreeBlocks /\ FreeBlocks \subseteq Block
  BY FirstIsFree, FreeAreBlocks DEF AppendFree, NewFirst, IInv, TypeOK, Null, Block, Held
<1>2. last_free \in FreeBlocks /\ word[last_free] = Null
  BY <1>1 DEF IInv, LastIsLast
<1>3. FreeBlocks' = FreeBlocks \cup {b}
  BY <1>1, FreeAfterAppend DEF IInv
<1>4. /\ \A x \in FreeBlocks \ {last_free} : word'[x] = word[x]
      /\ word'[last_free] = b /\ word'[b] = Null
  BY <1>1, <1>2 DEF Linked, IInv, TypeOK
<1>5. Held' = Held \ {b}
  BY <1>1 DEF Held, IInv, HeldOrFree, TypeOK
<1>6. ListIs(s)
  OBVIOUS
<1> HIDE DEF s
<1>7. s \in Seq(Block) /\ Len(s) \in Nat
  BY <1>6 DEF ListIs
<1>8. r \in Seq(Block) /\ Len(r) = Len(s) + 1 /\ r[Len(s) + 1] = b /\ \A i \in 1..Len(s) : r[i] = s[i]
  BY <1>1, <1>7
<1> HIDE DEF r
<1>9. IsFiniteSet(FreeBlocks) /\ Cardinality(FreeBlocks') = Cardinality(FreeBlocks) + 1
  <2>1. IsFiniteSet(FreeBlocks)
    BY <1>1, BlocksFinite, FS_Subset
  <2>2. QED
    BY <1>3, <2>1, FS_AddElement
<1>10. s # <<>> /\ s[1] = first_free /\ Len(s) > 0
  BY <1>1, <1>6, <1>7 DEF ListIs
\* The last of the sequence is last_free.
<1>11. s[Len(s)] = last_free /\ \A i \in 1..(Len(s) - 1) : s[i] # last_free
  <2>1. Len(s) \in 1..Len(s) /\ ~(Len(s) < Len(s))
    BY <1>7, <1>10
  <2>2. s[Len(s)] \in FreeBlocks /\ word[s[Len(s)]] = Null
    BY <1>6, <2>1 DEF ListIs
  <2>3. s[Len(s)] = last_free
    BY <1>2, <2>2 DEF IInv, OneLinkEach
  <2>4. ASSUME NEW i \in 1..(Len(s) - 1) PROVE s[i] # last_free
    <3>1. i \in 1..Len(s) /\ i < Len(s) /\ i + 1 \in 1..Len(s)
      BY <1>7
    <3>2. word[s[i]] = s[i + 1] /\ s[i + 1] \in Block
      BY <1>1, <1>6, <3>1 DEF ListIs
    <3>3. QED
      BY <1>1, <1>2, <3>2
  <2>5. QED
    BY <2>3, <2>4
<1>12. ASSUME NEW i \in 1..Len(r)
       PROVE  r[i] \in FreeBlocks' /\ word'[r[i]] = IF i < Len(r) THEN r[i + 1] ELSE Null
  <2>1. CASE i = Len(s) + 1
    BY <1>3, <1>4, <1>7, <1>8, <2>1
  <2>2. CASE i = Len(s)
    <3>1. i \in 1..Len(s) /\ i < Len(r)
      BY <1>7, <1>8, <1>10, <2>2
    <3>2. QED
      BY <1>2, <1>3, <1>4, <1>8, <1>11, <2>2, <3>1
  <2>3. CASE i \in 1..(Len(s) - 1)
    <3>1. i \in 1..Len(s) /\ i < Len(s) /\ i < Len(r) /\ i + 1 \in 1..Len(s)
      BY <1>7, <1>8, <2>3
    <3>2. s[i] \in FreeBlocks \ {last_free} /\ word[s[i]] = s[i + 1]
      BY <1>6, <1>11, <2>3, <3>1 DEF ListIs
    <3>3. QED
      BY <1>3, <1>4, <1>8, <3>1, <3>2
  <2>4. QED
    BY <1>7, <1>8, <2>1, <2>2, <2>3
<1>13. r # <<>> /\ r[1] = first_free
  BY <1>7, <1>8, <1>10
<1>14. Len(r) = Cardinality(FreeBlocks')
  BY <1>6, <1>8, <1>9 DEF ListIs
<1>15. \A q : q = r => ListIs(q)'
  BY <1>1, <1>8, <1>12, <1>13, <1>14 DEF ListIs
<1>16. ListIs(FreeSeq)' /\ FreeSeq' = r
  BY <1>15, FollowsNext
<1>17. QED
  BY <1>1, <1>5, <1>16 DEF s, r

\* Every step is one of the pool.
LEMMA PoolStep ==
    ASSUME Careful, IInv, ListIs(FreeSeq), [Next]_vars
    PROVE  ListIs(FreeSeq)' /\ [PoolView!PoolNext]_(PoolView!poolVars)
<1>1. ASSUME first_free' = first_free, \A x \in FreeBlocks : word'[x] = word[x], held' = held
      PROVE  ListIs(FreeSeq)' /\ UNCHANGED PoolView!poolVars
  BY <1>1, ListKept DEF PoolView!poolVars, Held
<1>2. ASSUME UNCHANGED list PROVE ListIs(FreeSeq)' /\ UNCHANGED PoolView!poolVars
  BY <1>1, <1>2 DEF list
<1>3. CASE UNCHANGED vars
  BY <1>2, <1>3 DEF vars, list
<1>4. ASSUME NEW t \in Task, pt_getbuf(t), TakeFirst(t)
      PROVE  ListIs(FreeSeq)' /\ PoolView!PoolNext
  <2>1. /\ ListIs(FreeSeq)' /\ FreeSeq # <<>> /\ FreeSeq' = Tail(FreeSeq)
        /\ Held' = Held \cup {Head(FreeSeq)}
    BY <1>4, ListTaken
  <2>2. QED
    BY <2>1 DEF PoolView!PoolNext, PoolView!Take
<1>5. ASSUME NEW t \in Task, pt_retbuf(t) PROVE ListIs(FreeSeq)' /\ PoolView!PoolNext
  <2>1. buf[t] \in held[t] /\ buf[t] \notin FreeBlocks /\ first_free \in Block /\ ScanEnds
    BY <1>5, ReturnOfOwn
  <2>2. AppendFree(t, buf[t])
    BY <1>5, <2>1 DEF pt_retbuf, AlreadyFree
  <2>3. /\ ListIs(FreeSeq)' /\ FreeSeq' = Append(FreeSeq, buf[t])
        /\ Held' = Held \ {buf[t]} /\ buf[t] \in Held
    BY <2>1, <2>2, ListReturned
  <2>4. buf[t] \in Block
    BY <2>1 DEF IInv, TypeOK
  <2>5. QED
    BY <2>3, <2>4 DEF PoolView!PoolNext, PoolView!Give
<1>6. ASSUME NEW t \in Task, Write(t) PROVE ListIs(FreeSeq)' /\ UNCHANGED PoolView!poolVars
  <2>1. PICK b \in held[t] : word' = [word EXCEPT ![b] = Data]
    BY <1>6 DEF Write
  <2>2. b \notin FreeBlocks
    BY <2>1 DEF IInv, HeldOrFree, Held
  <2>3. \A x \in FreeBlocks : word'[x] = word[x]
    BY <2>1, <2>2, FreeAreBlocks DEF IInv, TypeOK
  <2>4. QED
    BY <1>1, <1>6, <2>3 DEF Write
<1>7. QED
  BY <1>2, <1>3, <1>4, <1>5, <1>6
     DEF Next, Work, pt_getbuf, pt_retbuf_Outside, DeleteLock, DeleteOrRefuse, Lookup

\* Blocks are handed out in the order in which they came back, and a block is out or free,
\* for any number of blocks and callers, when blocks are returned by their owners and the
\* partition does not run empty before (memblk.c:687-889).
THEOREM PartitionImplementsPool == Spec /\ Careful => ImplementsPool
<1> DEFINE Inv == IInv /\ ListIs(FreeSeq)
<1>1. Init => PoolView!PoolInit /\ Inv
  <2>1. Init => Held = {}
    BY DEF Init, Held
  <2>2. QED
    BY <2>1, InitList, InitIInv DEF PoolView!PoolInit
<1>2. Careful /\ Inv /\ [Next]_vars => Careful' /\ Inv' /\ [PoolView!PoolNext]_(PoolView!poolVars)
  BY CarefulIsFrozen, StepIInv, PoolStep
<1> HIDE DEF Inv
<1>3. QED
  BY <1>1, <1>2, PTL DEF Spec, ImplementsPool, PoolView!PoolSpec
==============================================================================
