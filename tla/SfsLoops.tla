------------------------------ MODULE SfsLoops -------------------------------
(***************************************************************************)
(* The loops of sfs-disk.c that copy file data, chunk by chunk.            *)
(*                                                                         *)
(* SfsDisk says that byte p of a file is byte p % BLOCK_DATA_SIZE of block *)
(* p \div BLOCK_DATA_SIZE of its list.  The code does not compute that: it *)
(* finds a first block, with a special case for a position between two     *)
(* blocks, and follows `next` pointers as it goes.  Here are the places    *)
(* those loops touch, <<block, offset>>, in their order.                   *)
(***************************************************************************)
EXTENDS SfsDisk

\* Slip of BlockIndex: a position between two blocks counts as in the second,
\* although the loops that start there copy nothing of their first block.
BlockIndexPlain(position) == position \div BLOCK_DATA_SIZE

\* blockForPosition: a position between two blocks counts as in the first.
BlockIndex(position) ==
    IF position # 0 /\ position % BLOCK_DATA_SIZE = 0
    THEN position \div BLOCK_DATA_SIZE - 1
    ELSE position \div BLOCK_DATA_SIZE

\* The loop of sfs_read and sfs_write: `chunk` bytes at offset `at` of block b,
\* then the next block from its start, until nothing is left.  It stops short
\* where the code's assertion about the next block fails.
ChunkPlaces(blk, b, at, chunk, len) ==
    LET loop[block \in Blocks, offset, size, left \in Nat] ==
            [k \in 1 .. size |-> <<block, offset + k - 1>>] \o
                IF left = size \/ blk[block].next = 0 THEN <<>>
                ELSE loop[blk[block].next, 0, sizeMin(BLOCK_DATA_SIZE, left - size), left - size]
    IN  loop[b, at, chunk, len]

\* sfs_read and sfs_write: len bytes from a position on.
CopyPlaces(blk, first, position, len) ==
    {ChunkPlaces(blk, b, position % BLOCK_DATA_SIZE,
                 sizeMin(roundUp(position, BLOCK_DATA_SIZE) - position, len), len) :
        b \in fileBlockAt(blk, first, BlockIndex(position))}

\* zeroFileRange, which starts in the block of its first byte.
ZeroPlaces(blk, first, begin, end) ==
    {ChunkPlaces(blk, b, begin % BLOCK_DATA_SIZE,
                 sizeMin(BLOCK_DATA_SIZE - (begin % BLOCK_DATA_SIZE), end - begin), end - begin) :
        b \in fileBlockAt(blk, first, begin \div BLOCK_DATA_SIZE)}

-----------------------------------------------------------------------------

\* The places of len bytes from a position on as ReadBytes and StoreBytes have
\* them: by division, in the list of the file.
Places(blk, first, position, len) ==
    LET place[blocks \in Seq(Blocks)] ==
            [k \in 1 .. len |-> <<blocks[((position + k - 1) \div BLOCK_DATA_SIZE) + 1],
                                  (position + k - 1) % BLOCK_DATA_SIZE>>]
    IN  place[List(blk, first)]

\* Wherever a descriptor can be in an open file, also between two blocks or at
\* the end of the last, and however many bytes of the file's blocks are asked
\* for, the loops of sfs_read, sfs_write and zeroFileRange touch exactly the
\* bytes at those positions, in order, and never run off the list of blocks.
LoopsInPlace ==
    \A i \in {j \in FDs : openFileTable[j] # NULL} :
        LET entry == DiskEntry(i)
            end   == allocatedBlocksForFile(entry) * BLOCK_DATA_SIZE
        IN  \A position \in 0 .. entry.size, len \in 1 .. end :
                position + len <= end =>
                    LET places == {Places(disk.blk, entry.first_block, position, len)}
                    IN  /\ CopyPlaces(disk.blk, entry.first_block, position, len) = places
                        /\ ZeroPlaces(disk.blk, entry.first_block, position, position + len)
                           = places
=============================================================================
