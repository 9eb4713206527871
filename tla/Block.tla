------------------------------- MODULE Block -------------------------------
(***************************************************************************)
(* The reference-counted KV-cache block handle of xLLM (framework/block/   *)
(* block.h, block.cpp) and the free list of the manager that hands the     *)
(* block ids out (BlockManagerImpl::allocate / free).                      *)
(*                                                                         *)
(* A Block object is a handle: an id and a pointer to a counter shared by  *)
(* every copy.  Handles are C++ objects in vectors, cache nodes, optionals *)
(* and temporaries; every way in which the code creates, copies, moves,    *)
(* assigns or destroys one is an action here.  A handle that was never     *)
(* constructed, was default-constructed or was moved from holds NoBlock.   *)
(***************************************************************************)
EXTENDS Integers, FiniteSets

CONSTANTS
    Handles,     \* the Block objects of the program
    NumBlocks    \* options.num_blocks(): ids 0 .. NumBlocks - 1

ASSUME HandlesAssumption == IsFiniteSet(Handles)
ASSUME NumBlocksAssumption == NumBlocks \in Nat \ {0}

VARIABLES
    id,              \* id[h]: the id_ of handle h, NoBlock when invalid
    ref_count,       \* ref_count[b]: the counter shared by the handles of b
    free_blocks,     \* the free_blocks_ vector; its live part is a prefix
    num_free_blocks, \* num_free_blocks_: the length of that prefix
    fault            \* a CHECK failed, or a deleted counter was touched

vars == <<id, ref_count, free_blocks, num_free_blocks, fault>>

NoBlock == -1
Padding == 0         \* block 0, reserved by the manager for padding

BlockIds == 0 .. NumBlocks - 1

\* The counter of an id no handle ever used, or whose counter was deleted,
\* is represented by 0.
Init ==
    /\ id = [h \in Handles |-> NoBlock]
    /\ ref_count = [b \in BlockIds |-> IF b = Padding THEN 1 ELSE 0]
    /\ free_blocks = [i \in BlockIds |-> NumBlocks - i - 1]
    /\ num_free_blocks = NumBlocks - 1
    /\ fault = FALSE

-----------------------------------------------------------------------------
\* inc_ref_count() on a handle of block b; the counter must still exist.
IncRef(rc, b) == IF b = NoBlock THEN rc ELSE [rc EXCEPT ![b] = @ + 1]

\* dec_ref_count() on a handle of block b.
DecRef(rc, b) == IF b = NoBlock THEN rc ELSE [rc EXCEPT ![b] = @ - 1]

\* The handle being released is the last one: its id goes back to the manager.
LastHandle(b) == b # NoBlock /\ ref_count[b] = 1

\* Mutant: the id goes back to the manager whenever a handle is released.
ReturnedAlways(b) == b # NoBlock /\ b # Padding

\* BlockManagerImpl::free, called by the last handle; block 0 is never freed.
Returned(b) == LastHandle(b) /\ b # Padding

Free(b) ==
    /\ free_blocks' = IF Returned(b)
                        THEN [free_blocks EXCEPT ![num_free_blocks] = b]
                        ELSE free_blocks
    /\ num_free_blocks' = num_free_blocks + (IF Returned(b) THEN 1 ELSE 0)

\* What can go wrong while a handle of b is released: the counter is already
\* gone, or CHECK(prev_count < free_blocks_.size()) fails in free().
ReleaseFault(b) ==
    /\ b # NoBlock
    /\ \/ ref_count[b] = 0
       \/ Returned(b) /\ num_free_blocks >= NumBlocks

\* inc_ref_count() through a counter that was deleted.
AcquireFault(rc, b) == b # NoBlock /\ rc[b] = 0

-----------------------------------------------------------------------------
\* BlockManagerImpl::allocate pops an id and constructs Block(id, this).
Allocate(h) ==
    LET b == free_blocks[num_free_blocks - 1] IN
    /\ id[h] = NoBlock
    /\ num_free_blocks > 0
    /\ id' = [id EXCEPT ![h] = b]
    /\ ref_count' = [ref_count EXCEPT ![b] = 1]
    /\ num_free_blocks' = num_free_blocks - 1
    /\ UNCHANGED <<free_blocks, fault>>

\* Mutant: the copy constructor forgets inc_ref_count().
CopyConstructNoInc(h, other) ==
    /\ h # other
    /\ id[h] = NoBlock
    /\ id' = [id EXCEPT ![h] = id[other]]
    /\ UNCHANGED <<ref_count, free_blocks, num_free_blocks, fault>>

\* Block(const Block& other)
CopyConstruct(h, other) ==
    /\ h # other
    /\ id[h] = NoBlock
    /\ id' = [id EXCEPT ![h] = id[other]]
    /\ ref_count' = IncRef(ref_count, id[other])
    /\ fault' = (fault \/ AcquireFault(ref_count, id[other]))
    /\ UNCHANGED <<free_blocks, num_free_blocks>>

\* Mutant: copy assignment without the self-assignment test.
CopyAssignSelf(h, other) ==
    LET released == DecRef(ref_count, id[h]) IN
    /\ id' = [id EXCEPT ![h] = id[other]]
    /\ ref_count' = IncRef(released, id[other])
    /\ Free(id[h])
    /\ fault' = (\/ fault
                 \/ ReleaseFault(id[h])
                 \/ AcquireFault(released, id[other]))

\* operator=(const Block& other): the old block is released before the new
\* one is acquired; assigning a handle to itself does nothing.
CopyAssign(h, other) ==
    LET released == DecRef(ref_count, id[h]) IN
    /\ h # other
    /\ id' = [id EXCEPT ![h] = id[other]]
    /\ ref_count' = IncRef(released, id[other])
    /\ Free(id[h])
    /\ fault' = (\/ fault
                 \/ ReleaseFault(id[h])
                 \/ AcquireFault(released, id[other]))

\* Block(Block&& other): the reference moves, the count does not change.
MoveConstruct(h, other) ==
    /\ h # other
    /\ id[h] = NoBlock
    /\ id' = [id EXCEPT ![h] = id[other], ![other] = NoBlock]
    /\ UNCHANGED <<ref_count, free_blocks, num_free_blocks, fault>>

\* Mutant: the moved-from handle keeps its id and counter.
MoveAssignKeepsOther(h, other) ==
    /\ h # other
    /\ id' = [id EXCEPT ![h] = id[other]]
    /\ ref_count' = DecRef(ref_count, id[h])
    /\ Free(id[h])
    /\ fault' = (fault \/ ReleaseFault(id[h]))

\* operator=(Block&& other)
MoveAssign(h, other) ==
    /\ h # other
    /\ id' = [id EXCEPT ![h] = id[other], ![other] = NoBlock]
    /\ ref_count' = DecRef(ref_count, id[h])
    /\ Free(id[h])
    /\ fault' = (fault \/ ReleaseFault(id[h]))

\* ~Block()
Destroy(h) ==
    /\ id[h] # NoBlock
    /\ id' = [id EXCEPT ![h] = NoBlock]
    /\ ref_count' = DecRef(ref_count, id[h])
    /\ Free(id[h])
    /\ fault' = (fault \/ ReleaseFault(id[h]))

Next ==
    \E h \in Handles :
        \/ Allocate(h)
        \/ Destroy(h)
        \/ \E other \in Handles :
               \/ CopyConstruct(h, other)
               \/ CopyAssign(h, other)
               \/ MoveConstruct(h, other)
               \/ MoveAssign(h, other)

Spec == Init /\ [][Next]_vars

-----------------------------------------------------------------------------
\* Every variable keeps the shape of the C++ field it stands for.
TypeOK ==
    /\ id \in [Handles -> BlockIds \cup {NoBlock}]
    /\ ref_count \in [BlockIds -> Nat]
    /\ free_blocks \in [BlockIds -> BlockIds]
    /\ num_free_blocks \in 0 .. NumBlocks
    /\ fault \in BOOLEAN

Holders(b) == {h \in Handles : id[h] = b}

\* The shared counter of a block is exactly the number of handles that hold
\* it, after any sequence of copies, moves, assignments and destructions.
RefCountExact ==
    /\ \A b \in BlockIds \ {Padding} : ref_count[b] = Cardinality(Holders(b))
    /\ Holders(Padding) = {}

\* The live prefix of free_blocks_ lists every id that no handle holds, each
\* once: an id is never handed out while it is in use and never lost.
FreeListExact ==
    /\ \A i, j \in 0 .. num_free_blocks - 1 :
           free_blocks[i] = free_blocks[j] => i = j
    /\ \A b \in BlockIds :
           ref_count[b] = 0 <=> \E i \in 0 .. num_free_blocks - 1 : free_blocks[i] = b

\* No handle operation fails the CHECK in free() or uses the counter of a
\* block after the last handle deleted it.
NoFault == ~fault
=============================================================================
