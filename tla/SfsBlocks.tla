------------------------------ MODULE SfsBlocks ------------------------------
(***************************************************************************)
(* The block layer of SFS (sfslab/sfs-disk.c and sfs-support.c): block     *)
(* headers, the doubly linked lists they form, and the allocator.          *)
(*                                                                         *)
(* A block list (the free list, the directory's extension blocks, the      *)
(* contents of one file) is a chain of `next` pointers ended by 0.  The    *)
(* disk is a record: the head of the free list, from the superblock, and   *)
(* the header of every block.  Block contents are not here.                *)
(*                                                                         *)
(* Searches of the code return a pointer or NULL.  Here they return a set  *)
(* with at most one element, so that an action reads \E b \in Search : ... *)
(***************************************************************************)
EXTENDS Integers, Sequences

CONSTANTS
    NBlocks,            \* n_blocks: blocks on the disk, the superblock (id 0) included
    BLOCK_DATA_SIZE     \* bytes of file data in one block

ASSUME BlocksAssumption ==
    /\ NBlocks \in Nat \ {0, 1}
    /\ BLOCK_DATA_SIZE \in Nat \ {0}

Blocks == 1 .. NBlocks - 1

\* block_id, the pointers of the on-disk lists; 0 ends a list
BlockId == 0 .. NBlocks - 1

\* The reserved id of a live file that owns no block (UINT32_MAX in the code).
SFS_EMPTY_FILE_BLOCK == NBlocks

Header == [type : {"FREE", "FILE", "DIR"}, prev : BlockId, next : BlockId]

Disk == [freelist : BlockId, blk : [Blocks -> Header]]

-----------------------------------------------------------------------------
(* Walking a list *)

\* The blocks of the list that starts at `first`, in order.  A list that never
\* ends is cut after NBlocks blocks, more than there are.
List(blk, first) ==
    LET walk[seen \in Seq(Blocks)] ==
            LET b == IF seen = <<>> THEN first ELSE blk[seen[Len(seen)]].next
            IN  IF b \in Blocks /\ Len(seen) < NBlocks THEN walk[Append(seen, b)] ELSE seen
    IN  walk[<<>>]

ListSet(blk, first) == LET l == List(blk, first) IN {l[i] : i \in DOMAIN l}

\* The block reached by walking `index` links from `first`.
fileBlockAt(blk, first, index) ==
    LET l == List(blk, first) IN {l[i] : i \in {index + 1} \cap DOMAIN l} \cap Blocks

LastOf(blk, first) ==
    LET l == List(blk, first) IN fileBlockAt(blk, first, Len(l) - 1)

-----------------------------------------------------------------------------
(* The allocator, one critical section of allocationLock per operation *)

\* Slip of FormattedDisk: the last block points past the end of the disk.
FormattedPastEnd ==
    [freelist |-> 1,
     blk |-> [b \in Blocks |-> [type |-> "FREE", prev |-> b - 1, next |-> b + 1]]]

\* sfs_format: every block is on the free list, in order.
FormattedDisk ==
    [freelist |-> 1,
     blk |-> [b \in Blocks |->
                [type |-> "FREE", prev |-> b - 1,
                 next |-> IF b + 1 = NBlocks THEN 0 ELSE b + 1]]]

\* The last of the first n blocks of the free list: what allocateBlocks looks
\* for before it changes anything.  Empty when the request fails.
LastToAllocate(d, n) == IF n = 0 THEN {} ELSE fileBlockAt(d.blk, d.freelist, n - 1)

\* allocateBlocks: cut the free list after `last` and retype the blocks before
\* the cut.  The chain starts at the old d.freelist.
AfterAllocate(d, type, last) ==
    LET rest  == d.blk[last].next
        taken == ListSet([d.blk EXCEPT ![last].next = 0], d.freelist)
    IN  [freelist |-> rest,
         blk |-> [b \in Blocks |->
                    IF b \in taken
                    THEN [type |-> type, prev |-> d.blk[b].prev,
                          next |-> IF b = last THEN 0 ELSE d.blk[b].next]
                    ELSE IF b = rest THEN [d.blk[b] EXCEPT !.prev = 0]
                    ELSE d.blk[b]]]

\* Slip of AfterFree: the old head of the free list keeps prev = 0.
AfterFreeNoPrev(d, first, last) ==
    LET freed == ListSet(d.blk, first)
    IN  [freelist |-> first,
         blk |-> [b \in Blocks |->
                    IF b \in freed
                    THEN [type |-> "FREE",
                          prev |-> IF b = first THEN 0 ELSE d.blk[b].prev,
                          next |-> IF b = last THEN d.freelist ELSE d.blk[b].next]
                    ELSE IF b = d.blk[first].prev THEN [d.blk[b] EXCEPT !.next = 0]
                    ELSE d.blk[b]]]

\* freeBlocks: detach the list that starts at `first`, and ends at `last`, from
\* what precedes it, and prepend it to the free list.
AfterFree(d, first, last) ==
    LET freed  == ListSet(d.blk, first)
        before == d.blk[first].prev
    IN  [freelist |-> first,
         blk |-> [b \in Blocks |->
                    IF b \in freed
                    THEN [type |-> "FREE",
                          prev |-> IF b = first THEN 0 ELSE d.blk[b].prev,
                          next |-> IF b = last THEN d.freelist ELSE d.blk[b].next]
                    ELSE IF b = before THEN [d.blk[b] EXCEPT !.next = 0]
                    ELSE IF b = d.freelist THEN [d.blk[b] EXCEPT !.prev = last]
                    ELSE d.blk[b]]]

\* Slip of AfterAttach: the chain does not point back to the file.
AfterAttachNoPrev(d, tail, first) == [d EXCEPT !.blk[tail].next = first]

\* sfs_write and sfs_ftruncate attach a fresh chain to the end of a file.
AfterAttach(d, tail, first) ==
    [d EXCEPT !.blk = [b \in Blocks |->
        IF b = tail THEN [d.blk[b] EXCEPT !.next = first]
        ELSE IF b = first THEN [d.blk[b] EXCEPT !.prev = tail]
        ELSE d.blk[b]]]

-----------------------------------------------------------------------------
(* Sizes *)

roundUp(size, n) == n * (((IF size = 0 THEN 1 ELSE size) + (n - 1)) \div n)

blocksForFileSize(size) ==
    IF size = 0 THEN 0 ELSE roundUp(size, BLOCK_DATA_SIZE) \div BLOCK_DATA_SIZE

sizeMin(a, b) == IF a < b THEN a ELSE b
=============================================================================
