----------------------------- MODULE BlockProof -----------------------------
(***************************************************************************)
(* Proofs about Block: for any set of handles and any number of blocks the *)
(* counter of a block is the number of its handles, the free list holds    *)
(* exactly the ids nobody holds, and no handle operation touches a deleted *)
(* counter or overruns the free list.                                      *)
(***************************************************************************)
EXTENDS Block, FiniteSetTheorems, TLAPS

\* num_free_blocks_ and the ids in use add up to all ids.  This is what keeps
\* free() inside the vector, and it is not visible in FreeListExact alone.
Conservation ==
    num_free_blocks + Cardinality({b \in BlockIds : ref_count[b] > 0}) = NumBlocks

\* The inductive invariant.
IInv ==
    /\ TypeOK
    /\ RefCountExact
    /\ FreeListExact
    /\ Conservation
    /\ ref_count[Padding] = 1
    /\ NoFault

-----------------------------------------------------------------------------
HoldersOf(f, b) == {h \in Handles : f[h] = b}

Count(c, b) == IF c = b THEN 1 ELSE 0

\* g is f with handle h redirected to b: the effect on the holders of c.
Redirected(f, h, b, g, c) ==
    /\ Cardinality(HoldersOf(f, c)) \in Nat
    /\ Cardinality(HoldersOf(g, c)) =
         Cardinality(HoldersOf(f, c)) + Count(c, b) - Count(c, f[h])
    /\ f[h] = c => Cardinality(HoldersOf(f, c)) >= 1

\* Redirecting one handle moves one element between the sets of holders.
LEMMA HoldersUpdate ==
    ASSUME NEW f \in [Handles -> Int], NEW h \in Handles, NEW b \in Int, NEW c \in Int,
           NEW g, g = [f EXCEPT ![h] = b]
    PROVE  Redirected(f, h, b, g, c)
<1>1. IsFiniteSet(HoldersOf(f, c)) /\ Cardinality(HoldersOf(f, c)) \in Nat
  BY FS_Subset, FS_CardinalityType, HandlesAssumption DEF HoldersOf
<1>2. /\ Cardinality(HoldersOf(f, c) \cup {h}) =
           IF f[h] = c THEN Cardinality(HoldersOf(f, c))
                       ELSE Cardinality(HoldersOf(f, c)) + 1
      /\ Cardinality(HoldersOf(f, c) \ {h}) =
           IF f[h] = c THEN Cardinality(HoldersOf(f, c)) - 1
                       ELSE Cardinality(HoldersOf(f, c))
  BY <1>1, FS_AddElement, FS_RemoveElement DEF HoldersOf
<1>3. CASE c = b
  <2>1. HoldersOf(g, c) = HoldersOf(f, c) \cup {h}
    BY <1>3 DEF HoldersOf
  <2>2. Cardinality(HoldersOf(g, c)) =
           IF f[h] = c THEN Cardinality(HoldersOf(f, c))
                       ELSE Cardinality(HoldersOf(f, c)) + 1
    BY <2>1, <1>2
  <2>3. f[h] = c => Cardinality(HoldersOf(f, c)) >= 1
    <3>1. f[h] = c => HoldersOf(f, c) # {}
      BY DEF HoldersOf
    <3> QED BY <3>1, <1>1, FS_EmptySet
  <2> QED BY <1>1, <1>3, <2>2, <2>3 DEF Redirected, Count
<1>4. CASE c # b
  <2>1. HoldersOf(g, c) = HoldersOf(f, c) \ {h}
    BY <1>4 DEF HoldersOf
  <2>2. Cardinality(HoldersOf(g, c)) =
           IF f[h] = c THEN Cardinality(HoldersOf(f, c)) - 1
                       ELSE Cardinality(HoldersOf(f, c))
    BY <2>1, <1>2
  <2>3. f[h] = c => Cardinality(HoldersOf(f, c)) >= 1
    <3>1. f[h] = c => HoldersOf(f, c) # {}
      BY DEF HoldersOf
    <3> QED BY <3>1, <1>1, FS_EmptySet
  <2> QED BY <1>1, <1>4, <2>2, <2>3 DEF Redirected, Count
<1> QED BY <1>3, <1>4

\* Releasing a handle of block b keeps the free list exact: the counters that
\* become 0 are those of the ids that Free(b) appends.
LEMMA FreeKeepsList ==
    ASSUME IInv,
           NEW b \in BlockIds \cup {NoBlock}, b # Padding,
           b # NoBlock => ref_count[b] >= 1,
           Free(b),
           ref_count' \in [BlockIds -> Nat],
           \A c \in BlockIds :
               ref_count'[c] = 0 <=> (ref_count[c] = 0 \/ (c = b /\ ref_count[b] = 1))
    PROVE  /\ FreeListExact'
           /\ Conservation'
           /\ num_free_blocks' \in 0 .. NumBlocks
           /\ free_blocks' \in [BlockIds -> BlockIds]
           /\ ~ReleaseFault(b)
<1> DEFINE Used == {c \in BlockIds : ref_count[c] > 0}
           UsedNext == {c \in BlockIds : ref_count'[c] > 0}
<1> USE NumBlocksAssumption
<1>1. NumBlocks \in Nat /\ num_free_blocks \in Nat /\ ref_count \in [BlockIds -> Nat]
      /\ free_blocks \in [BlockIds -> BlockIds]
  BY DEF IInv, TypeOK
<1>2. IsFiniteSet(BlockIds)
  BY FS_Interval DEF BlockIds
<1>3. IsFiniteSet(Used) /\ Cardinality(Used) \in Nat
  BY <1>2, FS_Subset, FS_CardinalityType
<1>4. num_free_blocks + Cardinality(Used) = NumBlocks
  BY DEF IInv, Conservation
<1>5. CASE Returned(b)
  <2>1. b \in BlockIds /\ b # Padding /\ ref_count[b] = 1
    BY <1>5 DEF Returned, LastHandle
  <2>2. UsedNext = Used \ {b} /\ b \in Used
    BY <2>1, <1>1
  <2>3. Cardinality(UsedNext) = Cardinality(Used) - 1 /\ Cardinality(UsedNext) \in Nat
    <3>1. IsFiniteSet(Used \ {b}) /\ Cardinality(Used \ {b}) = Cardinality(Used) - 1
      BY <1>3, <2>2, FS_RemoveElement
    <3> QED BY <3>1, <2>2, FS_CardinalityType
  <2>4. num_free_blocks < NumBlocks /\ num_free_blocks \in BlockIds
    BY <2>3, <1>4, <1>1, <1>3 DEF BlockIds
  <2>5. /\ free_blocks' = [free_blocks EXCEPT ![num_free_blocks] = b]
        /\ num_free_blocks' = num_free_blocks + 1
    BY <1>5 DEF Free
  <2>6. Conservation'
    BY <2>3, <2>5, <1>4, <1>1, <1>3 DEF Conservation
  <2>7. num_free_blocks' \in 0 .. NumBlocks /\ free_blocks' \in [BlockIds -> BlockIds]
    BY <2>1, <2>4, <2>5, <1>1
  <2>8. \A i \in 0 .. num_free_blocks - 1 :
            i \in BlockIds /\ free_blocks'[i] = free_blocks[i] /\ free_blocks[i] # b
    <3> SUFFICES ASSUME NEW i \in 0 .. num_free_blocks - 1
                 PROVE  i \in BlockIds /\ free_blocks'[i] = free_blocks[i] /\ free_blocks[i] # b
      OBVIOUS
    <3>1. i \in BlockIds /\ i # num_free_blocks
      BY <2>4, <1>1 DEF BlockIds
    <3>2. ref_count[b] # 0
      BY <2>1
    <3>3. free_blocks[i] # b
      BY <3>2, <2>1 DEF IInv, FreeListExact
    <3> QED BY <3>1, <3>3, <2>5, <1>1
  <2>9. free_blocks'[num_free_blocks] = b
    BY <2>4, <2>5, <1>1
  <2>10. \A i, j \in 0 .. num_free_blocks' - 1 : free_blocks'[i] = free_blocks'[j] => i = j
    <3> SUFFICES ASSUME NEW i \in 0 .. num_free_blocks' - 1, NEW j \in 0 .. num_free_blocks' - 1,
                        free_blocks'[i] = free_blocks'[j]
                 PROVE  i = j
      OBVIOUS
    <3>1. i \in 0 .. num_free_blocks - 1 \/ i = num_free_blocks
      BY <2>5, <1>1
    <3>2. j \in 0 .. num_free_blocks - 1 \/ j = num_free_blocks
      BY <2>5, <1>1
    <3> QED BY <3>1, <3>2, <2>8, <2>9 DEF IInv, FreeListExact
  <2>11. ASSUME NEW c \in BlockIds
         PROVE  ref_count'[c] = 0 <=> \E i \in 0 .. num_free_blocks' - 1 : free_blocks'[i] = c
    <3>1. CASE c = b
      BY <3>1, <2>1, <2>5, <2>9, <1>1
    <3>2. CASE c # b
      <4>1. ref_count'[c] = 0 <=> \E i \in 0 .. num_free_blocks - 1 : free_blocks[i] = c
        BY <3>2 DEF IInv, FreeListExact
      <4>2. \A i \in 0 .. num_free_blocks' - 1 :
                i \in 0 .. num_free_blocks - 1 \/ i = num_free_blocks
        BY <2>5, <1>1
      <4>3. \A i \in 0 .. num_free_blocks - 1 : i \in 0 .. num_free_blocks' - 1
        BY <2>5, <1>1
      <4> QED BY <3>2, <4>1, <4>2, <4>3, <2>8, <2>9
    <3> QED BY <3>1, <3>2
  <2>12. ~ReleaseFault(b)
    BY <2>1, <2>4, <1>1 DEF ReleaseFault
  <2> QED BY <2>6, <2>7, <2>10, <2>11, <2>12 DEF FreeListExact
<1>6. CASE ~Returned(b)
  <2>1. free_blocks' = free_blocks /\ num_free_blocks' = num_free_blocks
    BY <1>6, <1>1 DEF Free
  <2>2. \A c \in BlockIds : ref_count'[c] = 0 <=> ref_count[c] = 0
    BY <1>6 DEF Returned, LastHandle, NoBlock, BlockIds
  <2>3. UsedNext = Used
    BY <2>2, <1>1
  <2>4. FreeListExact'
    BY <2>1, <2>2 DEF FreeListExact, IInv
  <2>5. Conservation'
    BY <2>1, <2>3 DEF Conservation, IInv
  <2>6. ~ReleaseFault(b)
    BY <1>6, <1>1 DEF ReleaseFault, NoBlock, BlockIds
  <2> QED BY <2>1, <2>4, <2>5, <2>6, <1>1 DEF IInv, TypeOK
<1> QED BY <1>5, <1>6

-----------------------------------------------------------------------------
\* Bookkeeping common to the actions: the counters of RefCountExact as
\* cardinalities of HoldersOf.
LEMMA HoldersNext ==
    /\ \A b : Holders(b) = HoldersOf(id, b)
    /\ \A b : Holders(b)' = HoldersOf(id', b)
BY DEF Holders, HoldersOf

\* What the invariant says of the block a handle holds.
LEMMA HandleFacts ==
    ASSUME IInv, NEW h \in Handles
    PROVE  /\ id[h] \in BlockIds \cup {NoBlock}
           /\ id[h] # Padding
           /\ id[h] # NoBlock => id[h] \in BlockIds /\ ref_count[id[h]] >= 1
           /\ id \in [Handles -> Int]
           /\ BlockIds \subseteq Int
           /\ NoBlock \in Int /\ NoBlock \notin BlockIds
           /\ ref_count \in [BlockIds -> Nat]
<1>1. id \in [Handles -> Int] /\ BlockIds \subseteq Int
  BY NumBlocksAssumption DEF IInv, TypeOK, BlockIds, NoBlock
<1>2. id[h] \in BlockIds \cup {NoBlock} /\ id[h] # Padding
  BY DEF IInv, TypeOK, RefCountExact, Holders
<1>3. ASSUME id[h] # NoBlock
      PROVE  ref_count[id[h]] >= 1
  <2>1. ref_count[id[h]] = Cardinality(HoldersOf(id, id[h]))
    BY <1>2, <1>3, HoldersNext DEF IInv, RefCountExact
  <2>2. Cardinality(HoldersOf(id, id[h])) >= 1
    <3>1. id[h] \in Int
      BY <1>1
    <3>2. Redirected(id, h, id[h], [id EXCEPT ![h] = id[h]], id[h])
      BY <1>1, <3>1, HoldersUpdate
    <3> QED BY <3>2 DEF Redirected
  <2> QED BY <2>1, <2>2
<1>4. NoBlock \in Int /\ NoBlock \notin BlockIds
  BY NumBlocksAssumption DEF NoBlock, BlockIds
<1>5. ref_count \in [BlockIds -> Nat]
  BY DEF IInv, TypeOK
<1> QED BY <1>1, <1>2, <1>3, <1>4, <1>5

\* One handle is redirected from its block to b, the counters follow.
LEMMA RedirectCounts ==
    ASSUME IInv, NEW h \in Handles,
           NEW b \in BlockIds \cup {NoBlock}, b # Padding,
           id' = [id EXCEPT ![h] = b],
           ref_count' \in [BlockIds -> Int],
           \A c \in BlockIds :
               ref_count'[c] = ref_count[c] + Count(c, b) - Count(c, id[h])
    PROVE  /\ RefCountExact'
           /\ ref_count'[Padding] = 1
           /\ ref_count' \in [BlockIds -> Nat]
           /\ id' \in [Handles -> BlockIds \cup {NoBlock}]
<1>1. id \in [Handles -> Int] /\ BlockIds \subseteq Int /\ b \in Int /\ id[h] # Padding
      /\ Padding \in BlockIds
  BY HandleFacts, NumBlocksAssumption DEF Padding, BlockIds
<1>2. ref_count'[Padding] = 1
  BY <1>1 DEF Count, IInv
<1>3. ASSUME NEW c \in BlockIds \ {Padding}
      PROVE  ref_count'[c] = Cardinality(Holders(c)') /\ ref_count'[c] \in Nat
  <2> c \in Int
    BY <1>1
  <2>1. Redirected(id, h, b, id', c)
    BY <1>1, HoldersUpdate
  <2>2. ref_count[c] = Cardinality(HoldersOf(id, c))
    BY HoldersNext DEF IInv, RefCountExact
  <2>3. ref_count'[c] = Cardinality(HoldersOf(id', c))
    BY <2>1, <2>2 DEF Redirected
  <2>4. ref_count'[c] \in Nat
    <3>1. IsFiniteSet(HoldersOf(id', c))
      BY HandlesAssumption, FS_Subset DEF HoldersOf
    <3> QED BY <3>1, <2>3, FS_CardinalityType
  <2> QED BY <2>3, <2>4, HoldersNext
<1>4. id' \in [Handles -> BlockIds \cup {NoBlock}]
  BY DEF IInv, TypeOK
<1>5. Holders(Padding)' = {}
  BY DEF Holders, IInv, RefCountExact, TypeOK
<1>6. ref_count' \in [BlockIds -> Nat]
  <2>1. \A c \in BlockIds : ref_count'[c] \in Nat
    BY <1>2, <1>3
  <2> QED BY <2>1
<1> QED BY <1>2, <1>3, <1>4, <1>5, <1>6 DEF RefCountExact

\* A move takes the block of `other` to h and releases what h held.
LEMMA MoveCounts ==
    ASSUME IInv, NEW h \in Handles, NEW other \in Handles, h # other,
           id' = [id EXCEPT ![h] = id[other], ![other] = NoBlock],
           ref_count' \in [BlockIds -> Int],
           \A c \in BlockIds : ref_count'[c] = ref_count[c] - Count(c, id[h])
    PROVE  /\ RefCountExact'
           /\ ref_count'[Padding] = 1
           /\ ref_count' \in [BlockIds -> Nat]
           /\ id' \in [Handles -> BlockIds \cup {NoBlock}]
<1> DEFINE mid == [id EXCEPT ![h] = id[other]]
<1>1. /\ id \in [Handles -> Int] /\ BlockIds \subseteq Int /\ id[h] # Padding
      /\ NoBlock \in Int /\ NoBlock \notin BlockIds
      /\ Padding \in BlockIds /\ id[other] \in Int
  <2>1. Padding \in BlockIds
    BY NumBlocksAssumption DEF Padding, BlockIds
  <2> QED BY <2>1, HandleFacts
<1>2. mid \in [Handles -> Int] /\ mid[other] = id[other] /\ id' = [mid EXCEPT ![other] = NoBlock]
  BY <1>1
<1>3. ref_count'[Padding] = 1
  BY <1>1 DEF Count, IInv
<1>4. ASSUME NEW c \in BlockIds \ {Padding}
      PROVE  ref_count'[c] = Cardinality(Holders(c)') /\ ref_count'[c] \in Nat
  <2> c \in Int
    BY <1>1
  <2>1. Redirected(id, h, id[other], mid, c)
    BY <1>1, HoldersUpdate
  <2>2. Redirected(mid, other, NoBlock, id', c)
    <3> HIDE DEF mid
    <3> QED BY <1>1, <1>2, HoldersUpdate
  <2>3. ref_count[c] = Cardinality(HoldersOf(id, c))
    BY HoldersNext DEF IInv, RefCountExact
  <2>4. ref_count'[c] = Cardinality(HoldersOf(id', c))
    <3> HIDE DEF mid
    <3> QED BY <1>1, <1>2, <2>1, <2>2, <2>3 DEF Redirected, Count
  <2>5. ref_count'[c] \in Nat
    <3>1. IsFiniteSet(HoldersOf(id', c))
      BY HandlesAssumption, FS_Subset DEF HoldersOf
    <3> QED BY <3>1, <2>4, FS_CardinalityType
  <2> QED BY <2>4, <2>5, HoldersNext
<1>5. id' \in [Handles -> BlockIds \cup {NoBlock}]
  BY DEF IInv, TypeOK
<1>6. Holders(Padding)' = {}
  BY <1>1 DEF Holders, IInv, RefCountExact, TypeOK
<1>7. ref_count' \in [BlockIds -> Nat]
  <2>1. \A c \in BlockIds : ref_count'[c] \in Nat
    BY <1>3, <1>4
  <2> QED BY <2>1
<1> QED BY <1>3, <1>4, <1>5, <1>6, <1>7 DEF RefCountExact

-----------------------------------------------------------------------------
\* Releasing the block b that a handle holds subtracts one from its counter.
LEMMA DecRefCounts ==
    ASSUME IInv, NEW h \in Handles
    PROVE  /\ DecRef(ref_count, id[h]) \in [BlockIds -> Int]
           /\ \A c \in BlockIds :
                  DecRef(ref_count, id[h])[c] = ref_count[c] - Count(c, id[h])
BY HandleFacts DEF DecRef, Count

\* BlockManagerImpl::allocate of one block.
LEMMA AllocateStep ==
    ASSUME IInv, NEW h \in Handles, Allocate(h)
    PROVE  IInv'
<1> DEFINE b == free_blocks[num_free_blocks - 1]
           Used == {c \in BlockIds : ref_count[c] > 0}
           UsedNext == {c \in BlockIds : ref_count'[c] > 0}
<1> USE NumBlocksAssumption
<1>1. /\ num_free_blocks \in 1 .. NumBlocks
      /\ num_free_blocks - 1 \in BlockIds
      /\ num_free_blocks - 1 \in 0 .. num_free_blocks - 1
      /\ b \in BlockIds
  BY DEF Allocate, IInv, TypeOK, BlockIds
<1>2. ref_count[b] = 0 /\ b # Padding
  BY <1>1 DEF IInv, FreeListExact
<1>3. /\ id[h] = NoBlock
      /\ id' = [id EXCEPT ![h] = b]
      /\ ref_count' = [ref_count EXCEPT ![b] = 1]
      /\ num_free_blocks' = num_free_blocks - 1
      /\ free_blocks' = free_blocks /\ fault' = fault
  BY DEF Allocate
<1> HIDE DEF b
<1>4. /\ ref_count' \in [BlockIds -> Int]
      /\ \A c \in BlockIds : ref_count'[c] = ref_count[c] + Count(c, b) - Count(c, id[h])
  BY <1>1, <1>2, <1>3, HandleFacts DEF Count
<1>5. /\ RefCountExact'
      /\ ref_count'[Padding] = 1
      /\ ref_count' \in [BlockIds -> Nat]
      /\ id' \in [Handles -> BlockIds \cup {NoBlock}]
  BY <1>1, <1>2, <1>3, <1>4, RedirectCounts
<1>6. Conservation'
  <2>1. IsFiniteSet(Used) /\ Cardinality(Used) \in Nat
    <3>1. IsFiniteSet(BlockIds)
      BY FS_Interval DEF BlockIds
    <3> QED BY <3>1, FS_Subset, FS_CardinalityType
  <2>2. UsedNext = Used \cup {b} /\ b \notin Used
    BY <1>1, <1>2, <1>3 DEF IInv, TypeOK
  <2>3. Cardinality(UsedNext) = Cardinality(Used) + 1
    BY <2>1, <2>2, FS_AddElement
  <2>4. num_free_blocks + Cardinality(Used) = NumBlocks
    BY DEF IInv, Conservation
  <2> QED BY <2>1, <2>3, <2>4, <1>1, <1>3 DEF Conservation
<1>7. FreeListExact'
  <2>1. \A i \in 0 .. num_free_blocks' - 1 : i \in 0 .. num_free_blocks - 1 /\ i # num_free_blocks - 1
    BY <1>1, <1>3
  <2>2. \A i \in 0 .. num_free_blocks - 1 :
            i \in 0 .. num_free_blocks' - 1 \/ i = num_free_blocks - 1
    BY <1>1, <1>3
  <2>3. \A i, j \in 0 .. num_free_blocks' - 1 : free_blocks'[i] = free_blocks'[j] => i = j
    BY <2>1, <1>3 DEF IInv, FreeListExact
  <2>4. \A i \in 0 .. num_free_blocks' - 1 : free_blocks[i] # b
    BY <2>1, <1>1 DEF b, IInv, FreeListExact
  <2>5. ASSUME NEW c \in BlockIds
        PROVE  ref_count'[c] = 0 <=> \E i \in 0 .. num_free_blocks' - 1 : free_blocks'[i] = c
    <3>1. CASE c = b
      <4>1. ref_count'[c] = 1
        BY <3>1, <1>1, <1>3 DEF IInv, TypeOK
      <4> QED BY <3>1, <4>1, <2>4, <1>3
    <3>2. CASE c # b
      <4>1. ref_count'[c] = ref_count[c]
        BY <3>2, <1>1, <1>3 DEF IInv, TypeOK
      <4>2. ref_count[c] = 0 <=> \E i \in 0 .. num_free_blocks - 1 : free_blocks[i] = c
        BY DEF IInv, FreeListExact
      <4>3. free_blocks[num_free_blocks - 1] # c
        BY <3>2 DEF b
      <4> QED BY <4>1, <4>2, <4>3, <2>1, <2>2, <1>3
    <3> QED BY <3>1, <3>2
  <2> QED BY <2>3, <2>5 DEF FreeListExact
<1>8. TypeOK' /\ NoFault'
  BY <1>1, <1>3, <1>5 DEF IInv, TypeOK, NoFault
<1> QED BY <1>5, <1>6, <1>7, <1>8 DEF IInv

\* Block's copy constructor.
LEMMA CopyConstructStep ==
    ASSUME IInv, NEW h \in Handles, NEW other \in Handles, CopyConstruct(h, other)
    PROVE  IInv'
<1> DEFINE b == id[other]
<1>1. /\ b \in BlockIds \cup {NoBlock} /\ b # Padding
      /\ b # NoBlock => b \in BlockIds /\ ref_count[b] >= 1
      /\ NoBlock \notin BlockIds /\ ref_count \in [BlockIds -> Nat]
  BY HandleFacts
<1>2. /\ id[h] = NoBlock /\ id' = [id EXCEPT ![h] = b]
      /\ ref_count' = IncRef(ref_count, b)
      /\ fault' = (fault \/ AcquireFault(ref_count, b))
      /\ UNCHANGED <<free_blocks, num_free_blocks>>
  BY DEF CopyConstruct
<1> HIDE DEF b
<1>3. /\ ref_count' \in [BlockIds -> Int]
      /\ \A c \in BlockIds : ref_count'[c] = ref_count[c] + Count(c, b) - Count(c, id[h])
  BY <1>1, <1>2 DEF IncRef, Count
<1>4. /\ RefCountExact'
      /\ ref_count'[Padding] = 1
      /\ ref_count' \in [BlockIds -> Nat]
      /\ id' \in [Handles -> BlockIds \cup {NoBlock}]
  BY <1>1, <1>2, <1>3, RedirectCounts
<1>5. \A c \in BlockIds : ref_count'[c] = 0 <=> ref_count[c] = 0
  BY <1>1, <1>2 DEF IncRef
<1>6. \A c \in BlockIds : ref_count'[c] > 0 <=> ref_count[c] > 0
  BY <1>1, <1>4, <1>5
<1>7. FreeListExact'
  BY <1>2, <1>5 DEF IInv, FreeListExact
<1>8. Conservation'
  <2>1. {c \in BlockIds : ref_count'[c] > 0} = {c \in BlockIds : ref_count[c] > 0}
    BY <1>6
  <2> QED BY <2>1, <1>2 DEF IInv, Conservation
<1>9. ~AcquireFault(ref_count, b)
  BY <1>1 DEF AcquireFault
<1>10. TypeOK' /\ NoFault'
  BY <1>2, <1>4, <1>9 DEF IInv, TypeOK, NoFault
<1> QED BY <1>4, <1>7, <1>8, <1>10 DEF IInv

\* Block's copy assignment, which drops the block it had.
LEMMA CopyAssignStep ==
    ASSUME IInv, NEW h \in Handles, NEW other \in Handles, CopyAssign(h, other)
    PROVE  IInv'
<1> DEFINE a == id[h]
           b == id[other]
           released == DecRef(ref_count, a)
<1>1. /\ a \in BlockIds \cup {NoBlock} /\ a # Padding
      /\ a # NoBlock => a \in BlockIds /\ ref_count[a] >= 1
      /\ b \in BlockIds \cup {NoBlock} /\ b # Padding
      /\ b # NoBlock => b \in BlockIds /\ ref_count[b] >= 1
      /\ NoBlock \notin BlockIds /\ ref_count \in [BlockIds -> Nat]
  BY HandleFacts
<1>2. /\ id' = [id EXCEPT ![h] = b]
      /\ ref_count' = IncRef(released, b)
      /\ Free(a)
      /\ fault' = (fault \/ ReleaseFault(a) \/ AcquireFault(released, b))
  BY DEF CopyAssign
<1>3. \* two handles of one block: the release cannot be the last
      a = b /\ a # NoBlock => ref_count[a] >= 2
  <2> SUFFICES ASSUME a = b, a # NoBlock PROVE ref_count[a] >= 2
    OBVIOUS
  <2>1. ref_count[a] = Cardinality(HoldersOf(id, a))
    BY <1>1, HoldersNext DEF IInv, RefCountExact
  <2>2. id \in [Handles -> Int] /\ a \in Int /\ NoBlock \in Int
    BY HandleFacts
  <2>3. PICK g : g = [id EXCEPT ![h] = NoBlock]
    OBVIOUS
  <2>4. g \in [Handles -> Int] /\ g[other] = a
    BY <2>2, <2>3 DEF CopyAssign
  <2>5. Redirected(id, h, NoBlock, g, a)
    BY <2>2, <2>3, HoldersUpdate
  <2>6. Redirected(g, other, NoBlock, [g EXCEPT ![other] = NoBlock], a)
    BY <2>2, <2>4, HoldersUpdate
  <2>7. Cardinality(HoldersOf(g, a)) >= 1 /\ Cardinality(HoldersOf(g, a)) \in Nat
    BY <2>4, <2>6 DEF Redirected
  <2>8. Cardinality(HoldersOf(g, a)) = Cardinality(HoldersOf(id, a)) - 1
        /\ Cardinality(HoldersOf(id, a)) \in Nat
    BY <2>5 DEF Redirected, Count
  <2> QED BY <2>1, <2>7, <2>8
<1>4. released \in [BlockIds -> Int]
      /\ \A c \in BlockIds : released[c] = ref_count[c] - Count(c, a)
  BY DecRefCounts
<1> HIDE DEF a, b, released
<1>5. /\ ref_count' \in [BlockIds -> Int]
      /\ \A c \in BlockIds : ref_count'[c] = ref_count[c] + Count(c, b) - Count(c, a)
  BY <1>1, <1>2, <1>4 DEF IncRef, Count
<1>6. /\ RefCountExact'
      /\ ref_count'[Padding] = 1
      /\ ref_count' \in [BlockIds -> Nat]
      /\ id' \in [Handles -> BlockIds \cup {NoBlock}]
  BY <1>1, <1>2, <1>5, RedirectCounts DEF a
<1>7. \A c \in BlockIds :
          ref_count'[c] = 0 <=> (ref_count[c] = 0 \/ (c = a /\ ref_count[a] = 1))
  BY <1>1, <1>3, <1>5 DEF Count
<1>8. /\ FreeListExact' /\ Conservation' /\ num_free_blocks' \in 0 .. NumBlocks
      /\ free_blocks' \in [BlockIds -> BlockIds] /\ ~ReleaseFault(a)
  BY <1>1, <1>2, <1>6, <1>7, FreeKeepsList
<1>9. ~AcquireFault(released, b)
  BY <1>1, <1>3, <1>4 DEF AcquireFault, Count
<1>10. TypeOK' /\ NoFault'
  BY <1>2, <1>6, <1>8, <1>9 DEF IInv, TypeOK, NoFault
<1> QED BY <1>6, <1>8, <1>10 DEF IInv

\* Block's move constructor.
LEMMA MoveConstructStep ==
    ASSUME IInv, NEW h \in Handles, NEW other \in Handles, MoveConstruct(h, other)
    PROVE  IInv'
<1>1. /\ h # other /\ id[h] = NoBlock
      /\ id' = [id EXCEPT ![h] = id[other], ![other] = NoBlock]
      /\ UNCHANGED <<ref_count, free_blocks, num_free_blocks, fault>>
  BY DEF MoveConstruct
<1>2. /\ ref_count' \in [BlockIds -> Int]
      /\ \A c \in BlockIds : ref_count'[c] = ref_count[c] - Count(c, id[h])
  BY <1>1, HandleFacts DEF Count
<1>3. /\ RefCountExact'
      /\ ref_count'[Padding] = 1
      /\ ref_count' \in [BlockIds -> Nat]
      /\ id' \in [Handles -> BlockIds \cup {NoBlock}]
  BY <1>1, <1>2, MoveCounts
<1>4. FreeListExact' /\ Conservation'
  BY <1>1 DEF IInv, FreeListExact, Conservation
<1>5. TypeOK' /\ NoFault'
  BY <1>1, <1>3 DEF IInv, TypeOK, NoFault
<1> QED BY <1>3, <1>4, <1>5 DEF IInv

\* Block's move assignment.
LEMMA MoveAssignStep ==
    ASSUME IInv, NEW h \in Handles, NEW other \in Handles, MoveAssign(h, other)
    PROVE  IInv'
<1>1. /\ h # other
      /\ id' = [id EXCEPT ![h] = id[other], ![other] = NoBlock]
      /\ ref_count' = DecRef(ref_count, id[h])
      /\ Free(id[h])
      /\ fault' = (fault \/ ReleaseFault(id[h]))
  BY DEF MoveAssign
<1>2. /\ id[h] \in BlockIds \cup {NoBlock} /\ id[h] # Padding
      /\ id[h] # NoBlock => id[h] \in BlockIds /\ ref_count[id[h]] >= 1
      /\ NoBlock \notin BlockIds /\ ref_count \in [BlockIds -> Nat]
  BY HandleFacts
<1>3. /\ ref_count' \in [BlockIds -> Int]
      /\ \A c \in BlockIds : ref_count'[c] = ref_count[c] - Count(c, id[h])
  BY <1>1, DecRefCounts
<1>4. /\ RefCountExact'
      /\ ref_count'[Padding] = 1
      /\ ref_count' \in [BlockIds -> Nat]
      /\ id' \in [Handles -> BlockIds \cup {NoBlock}]
  BY <1>1, <1>3, MoveCounts
<1>5. \A c \in BlockIds :
          ref_count'[c] = 0 <=> (ref_count[c] = 0 \/ (c = id[h] /\ ref_count[id[h]] = 1))
  BY <1>2, <1>3 DEF Count
<1>6. /\ FreeListExact' /\ Conservation' /\ num_free_blocks' \in 0 .. NumBlocks
      /\ free_blocks' \in [BlockIds -> BlockIds] /\ ~ReleaseFault(id[h])
  BY <1>1, <1>2, <1>4, <1>5, FreeKeepsList
<1>7. TypeOK' /\ NoFault'
  BY <1>1, <1>4, <1>6 DEF IInv, TypeOK, NoFault
<1> QED BY <1>4, <1>6, <1>7 DEF IInv

\* Block's destructor, which may free the block.
LEMMA DestroyStep ==
    ASSUME IInv, NEW h \in Handles, Destroy(h)
    PROVE  IInv'
<1>1. /\ id' = [id EXCEPT ![h] = NoBlock]
      /\ ref_count' = DecRef(ref_count, id[h])
      /\ Free(id[h])
      /\ fault' = (fault \/ ReleaseFault(id[h]))
  BY DEF Destroy
<1>2. /\ id[h] \in BlockIds \cup {NoBlock} /\ id[h] # Padding
      /\ id[h] # NoBlock => id[h] \in BlockIds /\ ref_count[id[h]] >= 1
      /\ NoBlock \notin BlockIds /\ ref_count \in [BlockIds -> Nat]
      /\ NoBlock # Padding
  BY HandleFacts DEF NoBlock, Padding
<1>3. /\ ref_count' \in [BlockIds -> Int]
      /\ \A c \in BlockIds : ref_count'[c] = ref_count[c] - Count(c, id[h])
  BY <1>1, DecRefCounts
<1>4. \A c \in BlockIds : ref_count'[c] = ref_count[c] + Count(c, NoBlock) - Count(c, id[h])
  BY <1>2, <1>3 DEF Count
<1>5. /\ RefCountExact'
      /\ ref_count'[Padding] = 1
      /\ ref_count' \in [BlockIds -> Nat]
      /\ id' \in [Handles -> BlockIds \cup {NoBlock}]
  BY <1>1, <1>2, <1>3, <1>4, RedirectCounts
<1>6. \A c \in BlockIds :
          ref_count'[c] = 0 <=> (ref_count[c] = 0 \/ (c = id[h] /\ ref_count[id[h]] = 1))
  BY <1>2, <1>3 DEF Count
<1>7. /\ FreeListExact' /\ Conservation' /\ num_free_blocks' \in 0 .. NumBlocks
      /\ free_blocks' \in [BlockIds -> BlockIds] /\ ~ReleaseFault(id[h])
  BY <1>1, <1>2, <1>5, <1>6, FreeKeepsList
<1>8. TypeOK' /\ NoFault'
  BY <1>1, <1>5, <1>7 DEF IInv, TypeOK, NoFault
<1> QED BY <1>5, <1>7, <1>8 DEF IInv

-----------------------------------------------------------------------------
\* The constructor of BlockManagerImpl establishes the invariant: the padding
\* block is the one id in use and the vector lists the others.
LEMMA InitEstablishes == Init => IInv
<1> SUFFICES ASSUME Init PROVE IInv
  OBVIOUS
<1> USE NumBlocksAssumption
<1>1. TypeOK
  <2>1. id \in [Handles -> BlockIds \cup {NoBlock}] /\ ref_count \in [BlockIds -> Nat]
    BY DEF Init
  <2>2. \A i \in BlockIds : NumBlocks - i - 1 \in BlockIds
    BY DEF BlockIds
  <2>3. free_blocks \in [BlockIds -> BlockIds]
    BY <2>2 DEF Init
  <2>4. num_free_blocks \in 0 .. NumBlocks
    BY DEF Init
  <2>5. fault \in BOOLEAN
    BY DEF Init
  <2> QED BY <2>1, <2>3, <2>4, <2>5 DEF TypeOK
<1>2. RefCountExact
  <2>1. \A b \in BlockIds : Holders(b) = {}
    BY DEF Init, Holders, BlockIds, NoBlock
  <2>2. Padding \in BlockIds
    BY DEF Padding, BlockIds
  <2> QED BY <2>1, <2>2, FS_EmptySet DEF RefCountExact, Init
<1>3. FreeListExact
  <2>1. \A i \in 0 .. num_free_blocks - 1 : i \in BlockIds /\ free_blocks[i] = NumBlocks - i - 1
    BY DEF Init, BlockIds
  <2>2. \A i, j \in 0 .. num_free_blocks - 1 : free_blocks[i] = free_blocks[j] => i = j
    BY <2>1 DEF BlockIds
  <2>3. ASSUME NEW b \in BlockIds
        PROVE  ref_count[b] = 0 <=> \E i \in 0 .. num_free_blocks - 1 : free_blocks[i] = b
    <3>1. CASE b = Padding
      BY <3>1, <2>1 DEF Init, Padding, BlockIds
    <3>2. CASE b # Padding
      <4>1. NumBlocks - b - 1 \in 0 .. num_free_blocks - 1
        BY <3>2 DEF Init, Padding, BlockIds
      <4>2. free_blocks[NumBlocks - b - 1] = b
        BY <4>1, <2>1 DEF BlockIds
      <4> QED BY <3>2, <4>1, <4>2 DEF Init
    <3> QED BY <3>1, <3>2
  <2> QED BY <2>2, <2>3 DEF FreeListExact
<1>4. Conservation
  <2>1. {b \in BlockIds : ref_count[b] > 0} = {Padding}
    BY DEF Init, Padding, BlockIds
  <2>2. Cardinality({Padding}) = 1
    BY FS_Singleton
  <2>3. num_free_blocks = NumBlocks - 1 /\ NumBlocks \in Nat
    BY DEF Init
  <2>4. Cardinality({b \in BlockIds : ref_count[b] > 0}) = 1
    BY <2>1, <2>2
  <2> QED BY <2>3, <2>4 DEF Conservation
<1>5. ref_count[Padding] = 1 /\ NoFault
  BY DEF Init, Padding, BlockIds, NoFault
<1> QED BY <1>1, <1>2, <1>3, <1>4, <1>5 DEF IInv

\* Every operation keeps the invariant.
LEMMA StepPreserves == IInv /\ [Next]_vars => IInv'
<1> SUFFICES ASSUME IInv, [Next]_vars PROVE IInv'
  OBVIOUS
<1>1. CASE UNCHANGED vars
  <2>1. UNCHANGED <<id, ref_count, free_blocks, num_free_blocks, fault>>
    BY <1>1 DEF vars
  <2> QED BY <2>1 DEF IInv, TypeOK, RefCountExact, Holders, FreeListExact, Conservation, NoFault
<1>2. CASE Next
  <2> PICK h \in Handles :
          \/ Allocate(h)
          \/ Destroy(h)
          \/ \E other \in Handles : \/ CopyConstruct(h, other)
                                    \/ CopyAssign(h, other)
                                    \/ MoveConstruct(h, other)
                                    \/ MoveAssign(h, other)
    BY <1>2 DEF Next
  <2> QED BY AllocateStep, DestroyStep, CopyConstructStep, CopyAssignStep,
             MoveConstructStep, MoveAssignStep
<1> QED BY <1>1, <1>2

\* The invariant holds in every reachable state, whatever the handles and the
\* number of blocks.
THEOREM BlockInvariant == Spec => []IInv
BY InitEstablishes, StepPreserves, PTL DEF Spec

\* Type correctness.
THEOREM BlockTypeOK == Spec => []TypeOK
<1>1. IInv => TypeOK
  BY DEF IInv
<1> QED BY <1>1, BlockInvariant, PTL

\* A block's counter is always the number of handles that hold it.
THEOREM BlockRefCount == Spec => []RefCountExact
<1>1. IInv => RefCountExact
  BY DEF IInv
<1> QED BY <1>1, BlockInvariant, PTL

\* The free list is always exactly the ids that no handle holds.
THEOREM BlockFreeList == Spec => []FreeListExact
<1>1. IInv => FreeListExact
  BY DEF IInv
<1> QED BY <1>1, BlockInvariant, PTL

\* No CHECK of free() fails and no deleted counter is used.
THEOREM BlockNoFault == Spec => []NoFault
<1>1. IInv => NoFault
  BY DEF IInv
<1> QED BY <1>1, BlockInvariant, PTL
=============================================================================
