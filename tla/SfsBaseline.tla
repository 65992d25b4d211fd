----------------------------- MODULE SfsBaseline -----------------------------
(***************************************************************************)
(* The reference file system of sfslab/sfs-baseline-ref.c.                 *)
(*                                                                         *)
(* It keeps the same image and the same tables as sfs-disk.c, under one    *)
(* lock, but a descriptor also remembers the block its position is in      *)
(* (currBlock), so that reads and writes start there and not at the head   *)
(* of the file.  What one descriptor remembers has to survive what the     *)
(* others do to the file.  The field startBlock is assigned and never      *)
(* read: it is left out.  sfs_getpos, sfs_seek and sfs_rename return       *)
(* -ENOSYS.  Helpers that the two programs have in common are those of     *)
(* SfsDisk.                                                                *)
(***************************************************************************)
EXTENDS SfsDisk

VARIABLE currBlock      \* of each descriptor; 0 without blocks, or when closed

baselineVars == <<vars, currBlock>>

SameFile(d, fd) == /\ openFileDescTable[d] # NULL
                   /\ openFileDescTable[d].fileEntry = openFileDescTable[fd].fileEntry

\* allocateBlocks: the disk after it, or none when there are not enough free blocks.
allocateBlocks(n_blocks, type) ==
    {AfterAllocate(disk, type, last) : last \in LastToAllocate(disk, n_blocks)}

\* blockForPosition: a position at the end of a block still is in that block.
blockForPosition(blk, first, position) ==
    IF first \in {0, SFS_EMPTY_FILE_BLOCK} THEN {0}
    ELSE fileBlockAt(blk, first,
            IF position # 0 /\ position % BLOCK_DATA_SIZE = 0
            THEN (position \div BLOCK_DATA_SIZE) - 1
            ELSE position \div BLOCK_DATA_SIZE)

\* The distance of a position from the start of the block that blockForPosition
\* finds for it, from 0 up to the size of the block.
OffsetInBlock(position) ==
    IF position = 0 THEN 0 ELSE ((position - 1) % BLOCK_DATA_SIZE) + 1

\* Where the loops of sfs_read and sfs_write stop that start in block `from`.
BlockAfter(blk, from, position, len) ==
    fileBlockAt(blk, from, (OffsetInBlock(position) + len - 1) \div BLOCK_DATA_SIZE)

-----------------------------------------------------------------------------
(* sfs_open and sfs_close *)

\* addOpenFileEntry: as in sfs-disk.c, the descriptor at the head of the file.
addDescriptor(slot, first) ==
    /\ addOpenFileEntry(slot)
    /\ currBlock' = [fd \in FDs |-> IF fd \notin FirstNull(openFileDescTable)
                                    THEN currBlock[fd]
                                    ELSE IF first = SFS_EMPTY_FILE_BLOCK THEN 0 ELSE first]

\* createFile: an empty file that owns no block.
createEmpty(name, slot) ==
    /\ files' = [files EXCEPT ![slot] =
            [first_block |-> SFS_EMPTY_FILE_BLOCK, size |-> 0, name |-> name]]
    /\ addDescriptor(slot, SFS_EMPTY_FILE_BLOCK)

BaselineOpenExisting(name) ==
    /\ \E slot \in findDirectoryEntry(name) : addDescriptor(slot, files[slot].first_block)
    /\ UNCHANGED <<disk, data, next_rootdir, files>>

BaselineOpenCreate(name) ==
    /\ findDirectoryEntry(name) = {}
    /\ \E slot \in EmptySlot : createEmpty(name, slot)
    /\ UNCHANGED <<disk, data, next_rootdir>>

\* sfs_open of a new name in a full directory.  The directory grows before anyone
\* looks for a descriptor: when there is none (EMFILE), or no memory for one
\* (ENOMEM), the call fails and the directory keeps its new block.
BaselineOpenExpand(name) ==
    /\ findDirectoryEntry(name) = {}
    /\ EmptySlot = {}
    /\ \E new \in LastToAllocate(disk, 1), last \in LastDirectoryBlock :
        /\ expandDirectory(new, last)
        /\ \/ createEmpty(name, <<new, 1>>)
           \/ UNCHANGED <<files, openFileTable, openFileDescTable, currBlock>>

BaselineClose(fd) ==
    /\ Close(fd)
    /\ currBlock' = [currBlock EXCEPT ![fd] = 0]

-----------------------------------------------------------------------------
(* sfs_read, sfs_write and sfs_ftruncate *)

\* sfs_read: a read at the end of the file returns before it looks at a block.
BaselineRead(fd, len) ==
    /\ Read(fd, len)
    /\ LET desc   == openFileDescTable[fd]
           toRead == sizeMin(DiskEntry(desc.fileEntry).size - desc.currPos, len)
       IN  IF toRead = 0 THEN UNCHANGED currBlock
           ELSE \E b \in BlockAfter(disk.blk, currBlock[fd], desc.currPos, toRead) :
                    currBlock' = [currBlock EXCEPT ![fd] = b]

\* The buffer stored from the position on, starting in the descriptor's block.
\* A file without blocks gets `head` as its first, and so do its descriptors.
StoreFrom(fd, buf, blk, head) ==
    LET desc  == openFileDescTable[fd]
        i     == desc.fileEntry
        entry == DiskEntry(i)
        end   == desc.currPos + Len(buf)
        from  == IF currBlock[fd] = 0 THEN head ELSE currBlock[fd]
    IN  /\ data' = StoreBytes(blk, from, OffsetInBlock(desc.currPos), buf)
        /\ \E b \in BlockAfter(blk, from, desc.currPos, Len(buf)) :
            currBlock' = [d \in FDs |->
                IF d = fd THEN b
                ELSE IF currBlock[fd] = 0 /\ SameFile(d, fd) /\ currBlock[d] = 0 THEN head
                ELSE currBlock[d]]
        /\ openFileDescTable' = [openFileDescTable EXCEPT ![fd].currPos = end]
        /\ SetDiskEntry(i, [entry EXCEPT
                !.first_block = IF currBlock[fd] = 0 THEN head ELSE @,
                !.size = IF end > @ THEN end ELSE @])
        /\ UNCHANGED next_rootdir

\* sfs_write: all the new blocks are allocated first, and attached where the walk
\* from the descriptor's block meets the end of the list.
BaselineWrite(fd, buf) ==
    /\ CanWrite(fd, buf)
    /\ LET desc    == openFileDescTable[fd]
           entry   == DiskEntry(desc.fileEntry)
           end     == desc.currPos + Len(buf)
           current == allocatedBlocksForFile(entry) * BLOCK_DATA_SIZE
           extra   == (roundUp(end, BLOCK_DATA_SIZE) - current) \div BLOCK_DATA_SIZE
       IN  \/ /\ end <= current
              /\ StoreFrom(fd, buf, disk.blk, 0)
              /\ UNCHANGED disk
           \/ /\ end > current
              /\ \E allocated \in allocateBlocks(extra, "FILE") :
                    /\ IF currBlock[fd] = 0 THEN disk' = allocated
                       ELSE \E tail \in LastOf(disk.blk, currBlock[fd]) :
                              disk' = AfterAttach(allocated, tail, disk.freelist)
                    /\ StoreFrom(fd, buf, disk'.blk, disk.freelist)

\* sfs_ftruncate to a larger size: a file without blocks gets its first ones, and
\* all its descriptors, which are at 0, with it.
BaselineTruncateGrow(fd, length) ==
    /\ TruncateGrow(fd, length)
    /\ LET entry == DiskEntry(openFileDescTable[fd].fileEntry)
       IN  currBlock' = [d \in FDs |->
                IF SameFile(d, fd) /\ entry.first_block = SFS_EMPTY_FILE_BLOCK
                THEN disk.freelist ELSE currBlock[d]]

\* Slip of BaselineTruncateShrink: a descriptor at the new end keeps its block.
BaselineTruncateShrinkPast(fd, length) ==
    /\ TruncateShrink(fd, length)
    /\ \E last \in blockForPosition(disk'.blk,
            IF length = 0 THEN 0 ELSE DiskEntry(openFileDescTable[fd].fileEntry).first_block,
            length) :
        currBlock' = [d \in FDs |->
            IF SameFile(d, fd) /\ openFileDescTable[d].currPos > length
            THEN last ELSE currBlock[d]]

\* sfs_ftruncate to a smaller size: the descriptors at the new end or past it move
\* to the block of that end, and to none when no block is left.
BaselineTruncateShrink(fd, length) ==
    /\ TruncateShrink(fd, length)
    /\ \E last \in blockForPosition(disk'.blk,
            IF length = 0 THEN 0 ELSE DiskEntry(openFileDescTable[fd].fileEntry).first_block,
            length) :
        currBlock' = [d \in FDs |->
            IF SameFile(d, fd) /\ openFileDescTable[d].currPos >= length
            THEN last ELSE currBlock[d]]

BaselineRemove(name) == Remove(name) /\ UNCHANGED currBlock

-----------------------------------------------------------------------------

BaselineInit == Init /\ currBlock = [fd \in FDs |-> 0]

BaselineNext ==
    \/ \E name \in Names :
        \/ BaselineOpenExisting(name)
        \/ BaselineOpenCreate(name)
        \/ BaselineOpenExpand(name)
        \/ BaselineRemove(name)
    \/ \E fd \in FDs :
        \/ BaselineClose(fd)
        \/ \E len \in Lengths :
            \/ BaselineRead(fd, len)
            \/ BaselineTruncateGrow(fd, len)
            \/ BaselineTruncateShrink(fd, len)
        \/ \E buf \in Buffers : BaselineWrite(fd, buf)

-----------------------------------------------------------------------------

\* Every open descriptor remembers the block that its position is in.
CacheAgrees ==
    \A fd \in FDs : openFileDescTable[fd] # NULL =>
        LET desc == openFileDescTable[fd]
        IN  currBlock[fd] \in
                blockForPosition(disk.blk, DiskEntry(desc.fileEntry).first_block, desc.currPos)
=============================================================================
