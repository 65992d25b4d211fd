------------------------------- MODULE SfsDisk -------------------------------
(***************************************************************************)
(* The SFS file system of sfslab/sfs-disk.c, one action per API call.      *)
(*                                                                         *)
(* Each call is atomic here: its steps under the locks it takes are one    *)
(* action.  The state is the mapped disk image (the block lists of         *)
(* SfsBlocks, the contents of the blocks, the directory entries) and the   *)
(* two tables in memory (open files and descriptors).  A call that fails   *)
(* without changing anything is a stuttering step; one that changes        *)
(* something and then fails is an action of its own (OpenNoMemory).        *)
(***************************************************************************)
EXTENDS SfsBlocks, Sequences, FiniteSets

CONSTANTS
    Names,                  \* file names the callers use
    NoName,                 \* the name of an unused entry (all NUL bytes)
    NULL,                   \* an empty slot of one of the two tables
    OPEN_FILE_LIMIT,        \* slots of each table
    DIR_ENTRIES_PER_BLOCK,  \* entries in the superblock and in an extension block
    SFS_MAX_FILE_SIZE,      \* the largest file size
    Bytes,                  \* values of a byte; 0 is one of them
    Buffers,                \* the buffers that callers write
    Lengths,                \* the lengths that callers read or truncate to
    Deltas                  \* the distances that callers seek

ASSUME SfsAssumption ==
    /\ NoName \notin Names
    /\ OPEN_FILE_LIMIT \in Nat \ {0}
    /\ DIR_ENTRIES_PER_BLOCK \in Nat \ {0}
    /\ SFS_MAX_FILE_SIZE \in Nat
    /\ 0 \in Bytes
    /\ Buffers \subseteq Seq(Bytes)
    /\ Lengths \subseteq Nat
    /\ Deltas \subseteq Int

VARIABLES
    disk,               \* block headers and the free list
    data,               \* contents of the blocks
    next_rootdir,       \* first extension block of the directory
    files,              \* the directory entries
    openFileTable,      \* sfs_mem_file_t *openFileTable[]
    openFileDescTable   \* sfs_mem_filedesc_t *openFileDescTable[]

vars == <<disk, data, next_rootdir, files, openFileTable, openFileDescTable>>

-----------------------------------------------------------------------------
(* The shape of the state *)

\* <<b, i>> is entry i of directory block b, where block 0 is the superblock.
Slots == BlockId \X (1 .. DIR_ENTRIES_PER_BLOCK)

\* sfs_dir_entry_t.  first_block = 0 means that the entry is not in use.
Entry == [first_block : BlockId \cup {SFS_EMPTY_FILE_BLOCK},
          size : Nat, name : Names \cup {NoName}]

UnusedEntry == [first_block |-> 0, size |-> 0, name |-> NoName]

\* The value of diskFile when it points to the open file's own copy.
UnlinkedFile == <<NBlocks, 0>>

\* A descriptor, and an index of the table of open files.
FDs == 0 .. OPEN_FILE_LIMIT - 1

\* sfs_mem_file_t: the directory slot of the file, or its own copy of the entry
OpenFile == [refCount : Nat, unlinked : BOOLEAN,
             diskFile : Slots \cup {UnlinkedFile}, unlinkedFile : Entry]

ASSUME NullAssumption == NULL \notin OpenFile /\ NULL \notin [fileEntry : FDs, currPos : Nat]

\* sfs_mem_filedesc_t
Descriptor == [fileEntry : FDs, currPos : Nat]

BlockData == [0 .. BLOCK_DATA_SIZE - 1 -> Bytes]

\* Type invariant of the file system: the image and the two tables.
TypeOK ==
    /\ disk \in Disk
    /\ data \in [Blocks -> BlockData]
    /\ next_rootdir \in BlockId
    /\ files \in [Slots -> Entry]
    /\ openFileTable \in [FDs -> OpenFile \cup {NULL}]
    /\ openFileDescTable \in [FDs -> Descriptor \cup {NULL}]

-----------------------------------------------------------------------------
(* Searches of the directory and of the tables *)

\* The blocks of the directory, the superblock first, and the slot at position p
\* of their entries in physical order, counted from 1.
DirectoryBlocks == <<0>> \o List(disk.blk, next_rootdir)

SlotAt(blocks, p) ==
    <<blocks[((p - 1) \div DIR_ENTRIES_PER_BLOCK) + 1], ((p - 1) % DIR_ENTRIES_PER_BLOCK) + 1>>

\* The first of the slots in S, in the order in which the code looks at them.
FirstSlot(S) ==
    LET first[blocks \in Seq(BlockId)] ==
            {SlotAt(blocks, p) : p \in {q \in 1 .. Len(blocks) * DIR_ENTRIES_PER_BLOCK :
                /\ SlotAt(blocks, q) \in S
                /\ \A r \in 1 .. q - 1 : SlotAt(blocks, r) \notin S}}
    IN  first[DirectoryBlocks] \cap Slots

Occupied(entry) == entry.first_block # 0

\* findDirectoryEntry: its result, and the unused slot and the last directory
\* block it reports when there is no match.
findDirectoryEntry(name) ==
    FirstSlot({s \in Slots : Occupied(files[s]) /\ files[s].name = name})

EmptySlot == FirstSlot({s \in Slots : ~ Occupied(files[s])})

\* The first empty slot of a table.
FirstNull(table) == {i \in FDs : table[i] = NULL /\ \A j \in 0 .. i - 1 : table[j] # NULL}

findOpenFile(slot) ==
    {i \in FDs : /\ openFileTable[i] # NULL /\ openFileTable[i].diskFile = slot
                 /\ \A j \in 0 .. i - 1 : openFileTable[j] = NULL
                                          \/ openFileTable[j].diskFile # slot}

\* *file->diskFile
DiskEntry(i) ==
    IF openFileTable[i].diskFile = UnlinkedFile
    THEN openFileTable[i].unlinkedFile
    ELSE files[openFileTable[i].diskFile]

\* Assign to *file->diskFile.
SetDiskEntry(i, entry) ==
    IF openFileTable[i].diskFile = UnlinkedFile
    THEN /\ openFileTable' = [openFileTable EXCEPT ![i].unlinkedFile = entry]
         /\ UNCHANGED files
    ELSE /\ files' = [files EXCEPT ![openFileTable[i].diskFile] = entry]
         /\ UNCHANGED openFileTable

allocatedBlocksForFile(entry) ==
    IF entry.first_block = SFS_EMPTY_FILE_BLOCK THEN 0
    ELSE IF entry.size = 0 THEN 1 ELSE blocksForFileSize(entry.size)

-----------------------------------------------------------------------------
(* Initial states *)

\* sfs_format: the image is zero but for the free list.
Formatted ==
    /\ disk = FormattedDisk
    /\ files = [s \in Slots |-> UnusedEntry]

\* sfs_mount of a legacy image, on which an empty file owns one block.
LegacyImage ==
    /\ disk = AfterAllocate(FormattedDisk, "FILE", 1)
    /\ \E name \in Names :
        files = [s \in Slots |-> IF s = <<0, 1>>
                                 THEN [first_block |-> 1, size |-> 0, name |-> name]
                                 ELSE UnusedEntry]

Init ==
    /\ Formatted \/ LegacyImage
    /\ data = [b \in Blocks |-> [i \in 0 .. BLOCK_DATA_SIZE - 1 |-> 0]]
    /\ next_rootdir = 0
    /\ openFileTable = [i \in FDs |-> NULL]
    /\ openFileDescTable = [fd \in FDs |-> NULL]

-----------------------------------------------------------------------------
(* sfs_open *)

\* Slip of addOpenFileEntry: a shared open file is not counted again.
addOpenFileEntryUncounted(slot) ==
    \E fd \in FirstNull(openFileDescTable) :
    \E i \in IF findOpenFile(slot) # {} THEN findOpenFile(slot)
             ELSE FirstNull(openFileTable) :
        /\ openFileTable' = IF openFileTable[i] # NULL THEN openFileTable ELSE
               [openFileTable EXCEPT ![i] =
                    [refCount |-> 1, unlinked |-> FALSE, diskFile |-> slot,
                     unlinkedFile |-> UnusedEntry]]
        /\ openFileDescTable' =
               [openFileDescTable EXCEPT ![fd] = [fileEntry |-> i, currPos |-> 0]]

\* addOpenFileEntry: share the open file of this slot or make one, and point
\* the first empty descriptor at it, at position 0.
addOpenFileEntry(slot) ==
    \E fd \in FirstNull(openFileDescTable) :
    \E i \in IF findOpenFile(slot) # {} THEN findOpenFile(slot)
             ELSE FirstNull(openFileTable) :
        /\ openFileTable' = [openFileTable EXCEPT ![i] =
               IF openFileTable[i] # NULL
               THEN [openFileTable[i] EXCEPT !.refCount = @ + 1]
               ELSE [refCount |-> 1, unlinked |-> FALSE, diskFile |-> slot,
                     unlinkedFile |-> UnusedEntry]]
        /\ openFileDescTable' =
               [openFileDescTable EXCEPT ![fd] = [fileEntry |-> i, currPos |-> 0]]

\* createFile in a slot: an empty file that owns no block.
createFile(name, slot) ==
    /\ files' = [files EXCEPT ![slot] =
            [first_block |-> SFS_EMPTY_FILE_BLOCK, size |-> 0, name |-> name]]
    /\ addOpenFileEntry(slot)

\* expandDirectory: chain a zeroed block after the last directory block.
\* `last` is 0 when the directory is the superblock alone.
expandDirectory(new, last) ==
    LET allocated == AfterAllocate(disk, "DIR", new)
    IN  /\ data' = [data EXCEPT ![new] = [i \in 0 .. BLOCK_DATA_SIZE - 1 |-> 0]]
        /\ IF last = 0
           THEN /\ next_rootdir' = new
                /\ disk' = [allocated EXCEPT !.blk[new].prev = 0]
           ELSE /\ UNCHANGED next_rootdir
                /\ disk' = AfterAttach(allocated, last, new)

LastDirectoryBlock == IF next_rootdir = 0 THEN {0} ELSE LastOf(disk.blk, next_rootdir)

\* sfs_open of a name that exists.
OpenExisting(name) ==
    /\ \E slot \in findDirectoryEntry(name) : addOpenFileEntry(slot)
    /\ UNCHANGED <<disk, data, next_rootdir, files>>

\* sfs_open of a new name, with a slot to spare.
OpenCreate(name) ==
    /\ findDirectoryEntry(name) = {}
    /\ \E slot \in EmptySlot : createFile(name, slot)
    /\ UNCHANGED <<disk, data, next_rootdir>>

\* sfs_open of a new name when every slot of the directory is occupied.
OpenExpand(name) ==
    /\ findDirectoryEntry(name) = {}
    /\ EmptySlot = {}
    /\ \E new \in LastToAllocate(disk, 1), last \in LastDirectoryBlock :
        /\ expandDirectory(new, last)
        /\ createFile(name, <<new, 1>>)

\* The same, when malloc fails in addOpenFileEntry: createFile clears the entry
\* again, and the directory keeps its new block.
OpenNoMemory(name) ==
    /\ findDirectoryEntry(name) = {}
    /\ FirstNull(openFileDescTable) # {}
    /\ EmptySlot = {}
    /\ \E new \in LastToAllocate(disk, 1), last \in LastDirectoryBlock :
        expandDirectory(new, last)
    /\ UNCHANGED <<files, openFileTable, openFileDescTable>>

-----------------------------------------------------------------------------
(* sfs_close *)

\* sfs_close of a descriptor.  The last one of an unlinked file frees its blocks.
Close(fd) ==
    /\ openFileDescTable[fd] # NULL
    /\ openFileDescTable' = [openFileDescTable EXCEPT ![fd] = NULL]
    /\ LET i == openFileDescTable[fd].fileEntry
           first == DiskEntry(i).first_block
       IN  \/ /\ openFileTable[i].refCount > 1
              /\ openFileTable' = [openFileTable EXCEPT ![i].refCount = @ - 1]
              /\ UNCHANGED disk
           \/ /\ openFileTable[i].refCount = 1
              /\ openFileTable' = [openFileTable EXCEPT ![i] = NULL]
              /\ IF openFileTable[i].unlinked /\ first # SFS_EMPTY_FILE_BLOCK
                 THEN \E last \in LastOf(disk.blk, first) :
                        disk' = AfterFree(disk, first, last)
                 ELSE UNCHANGED disk
    /\ UNCHANGED <<data, next_rootdir, files>>

-----------------------------------------------------------------------------
(* sfs_read, sfs_write, sfs_seek, sfs_ftruncate: calls on a descriptor *)

\* What sfs_read copies out: len bytes from position pos, or what there is.
ReadBytes(entry, pos, len) ==
    LET bytes[blocks \in Seq(Blocks)] ==
            [k \in 1 .. sizeMin(entry.size - pos, len) |->
                LET p == pos + k - 1
                IN  data[blocks[(p \div BLOCK_DATA_SIZE) + 1]][p % BLOCK_DATA_SIZE]]
    IN  bytes[List(disk.blk, entry.first_block)]

\* Store the sequence `bytes` from position `from` of a file on.
StoreBytes(blk, first, from, bytes) ==
    LET Index(blocks, b, i) ==
            {k \in {(j - 1) * BLOCK_DATA_SIZE + i + 1 - from :
                        j \in {n \in DOMAIN blocks : blocks[n] = b}} : k \in DOMAIN bytes}
        store[blocks \in Seq(Blocks)] ==
            [b \in Blocks |-> [i \in 0 .. BLOCK_DATA_SIZE - 1 |->
                IF Index(blocks, b, i) = {} THEN data[b][i]
                ELSE bytes[CHOOSE k \in Index(blocks, b, i) : TRUE]]]
    IN  store[List(blk, first)]

\* What zeroFileRange stores in positions begin .. end - 1.
Zeros(begin, end) == [k \in 1 .. end - begin |-> 0]

\* Slip of GrownDisk: the new blocks are not attached to the file.
GrownDiskUnattached(entry, new, tail) == AfterAllocate(disk, "FILE", new)

\* The file entry and the disk after a file has grown by the first blocks of
\* the free list, up to `new`, the file's own blocks ending at `tail`.
GrownDisk(entry, new, tail) ==
    IF entry.first_block = SFS_EMPTY_FILE_BLOCK
    THEN AfterAllocate(disk, "FILE", new)
    ELSE AfterAttach(AfterAllocate(disk, "FILE", new), tail, disk.freelist)

GrownFirst(entry) ==
    IF entry.first_block = SFS_EMPTY_FILE_BLOCK THEN disk.freelist ELSE entry.first_block

\* The block to attach new blocks to: none is needed for a file without blocks.
FileTail(entry) ==
    IF entry.first_block = SFS_EMPTY_FILE_BLOCK THEN {0}
    ELSE LastOf(disk.blk, entry.first_block)

Read(fd, len) ==
    /\ openFileDescTable[fd] # NULL
    /\ LET desc == openFileDescTable[fd]
           size == DiskEntry(desc.fileEntry).size
       IN  openFileDescTable' = [openFileDescTable EXCEPT ![fd].currPos =
                desc.currPos + sizeMin(size - desc.currPos, len)]
    /\ UNCHANGED <<disk, data, next_rootdir, files, openFileTable>>

\* The new position and size, and the buffer stored, on a disk that holds it.
WriteOut(fd, buf, blk, first) ==
    LET desc  == openFileDescTable[fd]
        entry == DiskEntry(desc.fileEntry)
        end   == desc.currPos + Len(buf)
    IN  /\ data' = StoreBytes(blk, first, desc.currPos, buf)
        /\ openFileDescTable' = [openFileDescTable EXCEPT ![fd].currPos = end]
        /\ SetDiskEntry(desc.fileEntry,
                        [entry EXCEPT !.first_block = first,
                                      !.size = IF end > entry.size THEN end ELSE @])
        /\ UNCHANGED next_rootdir

\* A write that is not empty and does not end beyond the largest file (EFBIG).
CanWrite(fd, buf) ==
    /\ openFileDescTable[fd] # NULL
    /\ Len(buf) # 0
    /\ Len(buf) <= SFS_MAX_FILE_SIZE - openFileDescTable[fd].currPos

\* sfs_write within the blocks that the file has.
WriteInPlace(fd, buf) ==
    /\ CanWrite(fd, buf)
    /\ LET desc  == openFileDescTable[fd]
           entry == DiskEntry(desc.fileEntry)
       IN  /\ desc.currPos + Len(buf) <= allocatedBlocksForFile(entry) * BLOCK_DATA_SIZE
           /\ WriteOut(fd, buf, disk.blk, entry.first_block)
    /\ UNCHANGED disk

\* sfs_write beyond them: all the new blocks are allocated first, or the call
\* fails with ENOSPC and changes nothing.
WriteGrow(fd, buf) ==
    /\ CanWrite(fd, buf)
    /\ LET desc    == openFileDescTable[fd]
           entry   == DiskEntry(desc.fileEntry)
           end     == desc.currPos + Len(buf)
           current == allocatedBlocksForFile(entry) * BLOCK_DATA_SIZE
           extra   == (roundUp(end, BLOCK_DATA_SIZE) - current) \div BLOCK_DATA_SIZE
       IN  /\ end > current
           /\ \E new \in LastToAllocate(disk, extra), tail \in FileTail(entry) :
                /\ disk' = GrownDisk(entry, new, tail)
                /\ WriteOut(fd, buf, disk'.blk, GrownFirst(entry))

\* sfs_seek: the position stays between 0 and the size of the file.
Seek(fd, delta) ==
    /\ openFileDescTable[fd] # NULL
    /\ LET desc == openFileDescTable[fd]
           size == DiskEntry(desc.fileEntry).size
           pos  == IF delta < 0
                   THEN IF -delta > desc.currPos THEN 0 ELSE desc.currPos + delta
                   ELSE IF delta > size - desc.currPos THEN size ELSE desc.currPos + delta
       IN  openFileDescTable' = [openFileDescTable EXCEPT ![fd].currPos = pos]
    /\ UNCHANGED <<disk, data, next_rootdir, files, openFileTable>>

\* Slip of TruncateGrow: the new bytes are not zeroed.
TruncateGrowStale(fd, length) ==
    /\ openFileDescTable[fd] # NULL
    /\ length <= SFS_MAX_FILE_SIZE
    /\ LET i     == openFileDescTable[fd].fileEntry
           entry == DiskEntry(i)
           extra == blocksForFileSize(length) - allocatedBlocksForFile(entry)
           Grow(first) ==
               /\ UNCHANGED data
               /\ SetDiskEntry(i, [entry EXCEPT !.first_block = first, !.size = length])
       IN  /\ length > entry.size
           /\ \/ /\ extra > 0
                 /\ \E new \in LastToAllocate(disk, extra), tail \in FileTail(entry) :
                        disk' = GrownDisk(entry, new, tail)
                 /\ Grow(GrownFirst(entry))
              \/ /\ extra <= 0
                 /\ UNCHANGED disk
                 /\ Grow(entry.first_block)
    /\ UNCHANGED <<next_rootdir, openFileDescTable>>

\* sfs_ftruncate to a larger size: allocate what is missing, zero the new bytes.
TruncateGrow(fd, length) ==
    /\ openFileDescTable[fd] # NULL
    /\ length <= SFS_MAX_FILE_SIZE
    /\ LET i     == openFileDescTable[fd].fileEntry
           entry == DiskEntry(i)
           extra == blocksForFileSize(length) - allocatedBlocksForFile(entry)
           Grow(first) ==
               /\ data' = StoreBytes(disk'.blk, first, entry.size, Zeros(entry.size, length))
               /\ SetDiskEntry(i, [entry EXCEPT !.first_block = first, !.size = length])
       IN  /\ length > entry.size
           /\ \/ /\ extra > 0
                 /\ \E new \in LastToAllocate(disk, extra), tail \in FileTail(entry) :
                        disk' = GrownDisk(entry, new, tail)
                 /\ Grow(GrownFirst(entry))
              \/ /\ extra <= 0
                 /\ UNCHANGED disk
                 /\ Grow(entry.first_block)
    /\ UNCHANGED <<next_rootdir, openFileDescTable>>

\* Slip of TruncateShrink: only the caller's descriptor is pulled back.
TruncateShrinkOwn(fd, length) ==
    /\ openFileDescTable[fd] # NULL
    /\ LET i     == openFileDescTable[fd].fileEntry
           entry == DiskEntry(i)
           first == entry.first_block
           old_blocks == allocatedBlocksForFile(entry)
           new_blocks == blocksForFileSize(length)
       IN  /\ length < entry.size
           /\ IF new_blocks < old_blocks
              THEN \E first_free \in fileBlockAt(disk.blk, first, new_blocks),
                      last \in LastOf(disk.blk, first) :
                        disk' = AfterFree(disk, first_free, last)
              ELSE UNCHANGED disk
           /\ data' = StoreBytes(disk'.blk, first, length,
                                 Zeros(length, new_blocks * BLOCK_DATA_SIZE))
           /\ SetDiskEntry(i, [entry EXCEPT
                !.first_block = IF new_blocks = 0 THEN SFS_EMPTY_FILE_BLOCK ELSE first,
                !.size = length])
           /\ openFileDescTable' = [d \in FDs |->
                IF d = fd /\ openFileDescTable[d].currPos > length
                THEN [openFileDescTable[d] EXCEPT !.currPos = length]
                ELSE openFileDescTable[d]]
    /\ UNCHANGED next_rootdir

\* sfs_ftruncate to a smaller size: free the blocks beyond it, zero the rest of
\* the last block, and pull back every descriptor of the file that is past it.
TruncateShrink(fd, length) ==
    /\ openFileDescTable[fd] # NULL
    /\ LET i     == openFileDescTable[fd].fileEntry
           entry == DiskEntry(i)
           first == entry.first_block
           old_blocks == allocatedBlocksForFile(entry)
           new_blocks == blocksForFileSize(length)
       IN  /\ length < entry.size
           /\ IF new_blocks < old_blocks
              THEN \E first_free \in fileBlockAt(disk.blk, first, new_blocks),
                      last \in LastOf(disk.blk, first) :
                        disk' = AfterFree(disk, first_free, last)
              ELSE UNCHANGED disk
           /\ data' = StoreBytes(disk'.blk, first, length,
                                 Zeros(length, new_blocks * BLOCK_DATA_SIZE))
           /\ SetDiskEntry(i, [entry EXCEPT
                !.first_block = IF new_blocks = 0 THEN SFS_EMPTY_FILE_BLOCK ELSE first,
                !.size = length])
           /\ openFileDescTable' = [d \in FDs |->
                IF /\ openFileDescTable[d] # NULL
                   /\ openFileDescTable[d].fileEntry = i
                   /\ openFileDescTable[d].currPos > length
                THEN [openFileDescTable[d] EXCEPT !.currPos = length]
                ELSE openFileDescTable[d]]
    /\ UNCHANGED next_rootdir

-----------------------------------------------------------------------------
(* sfs_remove and sfs_rename *)

\* Slip of unlinkDirectoryEntry: the blocks are freed although the file is open.
unlinkFreesOpen(slot) ==
    /\ openFileTable' = [i \in FDs |->
            IF i \in findOpenFile(slot)
            THEN [openFileTable[i] EXCEPT !.unlinkedFile = files[slot],
                        !.diskFile = UnlinkedFile, !.unlinked = TRUE]
            ELSE openFileTable[i]]
    /\ IF files[slot].first_block # SFS_EMPTY_FILE_BLOCK
       THEN \E last \in LastOf(disk.blk, files[slot].first_block) :
              disk' = AfterFree(disk, files[slot].first_block, last)
       ELSE UNCHANGED disk

\* Slip of unlinkDirectoryEntry: the open file still points to the cleared entry.
unlinkKeepsPointer(slot) ==
    /\ openFileTable' = [i \in FDs |->
            IF i \in findOpenFile(slot) THEN [openFileTable[i] EXCEPT !.unlinked = TRUE]
            ELSE openFileTable[i]]
    /\ UNCHANGED disk

\* unlinkDirectoryEntry, the entry then being `entry`: an open file keeps a copy
\* of its entry and its blocks, any other file loses its blocks now.
unlinkDirectoryEntry(slot) ==
    IF findOpenFile(slot) # {}
    THEN /\ \E i \in findOpenFile(slot) :
              openFileTable' = [openFileTable EXCEPT
                  ![i].unlinkedFile = files[slot],
                  ![i].diskFile = UnlinkedFile,
                  ![i].unlinked = TRUE]
         /\ UNCHANGED disk
    ELSE /\ IF files[slot].first_block # SFS_EMPTY_FILE_BLOCK
            THEN \E last \in LastOf(disk.blk, files[slot].first_block) :
                   disk' = AfterFree(disk, files[slot].first_block, last)
            ELSE UNCHANGED disk
         /\ UNCHANGED openFileTable

Remove(name) ==
    /\ \E slot \in findDirectoryEntry(name) :
        /\ unlinkDirectoryEntry(slot)
        /\ files' = [files EXCEPT ![slot] = UnusedEntry]
    /\ UNCHANGED <<data, next_rootdir, openFileDescTable>>

\* sfs_rename to a name that is free.
RenameFresh(old_name, new_name) ==
    /\ old_name # new_name
    /\ findDirectoryEntry(new_name) = {}
    /\ \E slot \in findDirectoryEntry(old_name) :
        files' = [files EXCEPT ![slot].name = new_name]
    /\ UNCHANGED <<disk, data, next_rootdir, openFileTable, openFileDescTable>>

\* sfs_rename over an existing file, which it unlinks.
RenameOver(old_name, new_name) ==
    /\ old_name # new_name
    /\ \E slot \in findDirectoryEntry(old_name), victim \in findDirectoryEntry(new_name) :
        /\ unlinkDirectoryEntry(victim)
        /\ files' = [files EXCEPT ![victim] = UnusedEntry, ![slot].name = new_name]
    /\ UNCHANGED <<data, next_rootdir, openFileDescTable>>

-----------------------------------------------------------------------------

Next ==
    \/ \E name \in Names :
        \/ OpenExisting(name)
        \/ OpenCreate(name)
        \/ OpenExpand(name)
        \/ OpenNoMemory(name)
        \/ Remove(name)
        \/ \E new_name \in Names :
            \/ RenameFresh(name, new_name)
            \/ RenameOver(name, new_name)
    \/ \E fd \in FDs :
        \/ Close(fd)
        \/ \E len \in Lengths : Read(fd, len)
        \/ \E buf \in Buffers :
            \/ WriteInPlace(fd, buf)
            \/ WriteGrow(fd, buf)
        \/ \E delta \in Deltas : Seek(fd, delta)
        \/ \E length \in Lengths :
            \/ TruncateGrow(fd, length)
            \/ TruncateShrink(fd, length)

Spec == Init /\ [][Next]_vars

-----------------------------------------------------------------------------
(* Safety *)

\* The open files whose name is gone.
Unlinked == {i \in FDs : openFileTable[i] # NULL /\ openFileTable[i].diskFile = UnlinkedFile}

\* Every list of blocks that is not empty: its head, the type of its blocks, and
\* an owner that tells lists apart.
Lists ==
    {l \in {[owner |-> <<NBlocks, 1>>, head |-> disk.freelist, type |-> "FREE"],
            [owner |-> <<NBlocks, 2>>, head |-> next_rootdir, type |-> "DIR"]}
       \cup {[owner |-> s, head |-> files[s].first_block, type |-> "FILE"] : s \in Slots}
       \cup {[owner |-> <<NBlocks + 1, i>>, head |-> DiskEntry(i).first_block,
              type |-> "FILE"] : i \in Unlinked} :
     l.head \in Blocks}

\* Every block is on exactly one list: the free list, the directory, a file in
\* the directory, or a file that is unlinked and still open.  Two owners would
\* let one file overwrite another; no owner is a leak.  This is what the bytemap
\* of sfs-fsck checks (check_blocklist, check_for_lost_blocks), with the
\* unlinked files that fsck cannot see.
BlocksPartitioned ==
    LET on == [l \in Lists |-> ListSet(disk.blk, l.head)]
    IN  \A b \in Blocks : Cardinality({l \in DOMAIN on : b \in on[l]}) = 1

\* Every list is what check_blocklist of sfs-fsck demands: ended by 0, its blocks
\* of one type, and each prev pointer naming the block before, 0 for the first.
ListsWellFormed ==
    \A l \in Lists :
        /\ \E last \in LastOf(disk.blk, l.head) : disk.blk[last].next = 0
        /\ disk.blk[l.head].prev = 0
        /\ \A b \in ListSet(disk.blk, l.head) :
            /\ disk.blk[b].type = l.type
            /\ disk.blk[b].next # 0 => disk.blk[disk.blk[b].next].prev = b

\* The size of a live file and the length of its list agree (check_directory_entries
\* of sfs-fsck), so a walk to any position of the file meets no end of list: the
\* assertions of fileBlockAt, sfs_read and sfs_write hold.
SizesMatchBlocks ==
    LET Agree(entry) == Cardinality(ListSet(disk.blk, entry.first_block))
                        = allocatedBlocksForFile(entry)
    IN  /\ \A s \in Slots : Occupied(files[s]) => Agree(files[s])
        /\ \A i \in Unlinked : Agree(DiskEntry(i))

\* No descriptor is past the end of its file, whatever other descriptors of the
\* same file truncate: the assertions at the head of sfs_read and sfs_write.
PosWithinSize ==
    \A fd \in FDs : openFileDescTable[fd] # NULL =>
        openFileDescTable[fd].currPos <= DiskEntry(openFileDescTable[fd].fileEntry).size

\* The reference count of an open file is the number of its descriptors, and no
\* descriptor refers to an open file that was freed.
Descriptors(i) == {fd \in FDs : openFileDescTable[fd] # NULL
                                /\ openFileDescTable[fd].fileEntry = i}

RefCounts ==
    \A i \in FDs :
        IF openFileTable[i] = NULL THEN Descriptors(i) = {}
        ELSE /\ openFileTable[i].refCount > 0
             /\ openFileTable[i].refCount = Cardinality(Descriptors(i))

\* An open file points to an entry in use, which no other open file points to, or
\* to its own copy when and only when it is unlinked; the copy is a live file too.
OpenFilesTrackEntries ==
    \A i \in FDs : openFileTable[i] # NULL =>
        LET file == openFileTable[i]
        IN  /\ file.unlinked <=> file.diskFile = UnlinkedFile
            /\ Occupied(DiskEntry(i))
            /\ ~ file.unlinked => \A j \in FDs \ {i} :
                    openFileTable[j] # NULL => openFileTable[j].diskFile # file.diskFile

\* With a descriptor to spare there is room in the table of open files, as
\* addOpenFileEntry asserts, and without descriptors that table is empty, as
\* sfs_has_open_files asserts.
TablesAgree ==
    /\ FirstNull(openFileDescTable) # {} => FirstNull(openFileTable) # {}
    /\ (\A fd \in FDs : openFileDescTable[fd] = NULL) => (\A i \in FDs : openFileTable[i] = NULL)

=============================================================================
