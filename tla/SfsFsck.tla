------------------------------ MODULE SfsFsck -------------------------------
(***************************************************************************)
(* The checker sfslab/sfs-fsck.c, run on the image of SfsDisk: its walks   *)
(* of the block lists with one bytemap, of which only the visited blocks   *)
(* are kept, and its verdict.  It knows nothing of the tables in memory.   *)
(***************************************************************************)
EXTENDS SfsDisk

Seqs == INSTANCE SequencesExt

\* The state of a check: no error so far, and the blocks visited.
Unvisited == [ok |-> TRUE, visited |-> {}]

\* check_blocklist: no block was visited before, on this list or another one, each
\* has the type of the list and points back to the one before, and 0 ends the list.
check_blocklist(check, first, type) ==
    LET list     == List(disk.blk, first)
        before   == <<0>> \o list
        after(i) == IF i = 0 THEN first ELSE disk.blk[list[i]].next
        fine(i)  == /\ list[i] \notin check.visited
                    /\ \A j \in 1 .. i - 1 : list[j] # list[i]
                    /\ disk.blk[list[i]].type = type
                    /\ disk.blk[list[i]].prev = before[i]
    IN  [ok      |-> check.ok /\ after(Len(list)) = 0 /\ \A i \in DOMAIN list : fine(i),
         visited |-> check.visited \cup {list[i] : i \in DOMAIN list}]

\* check_superblock: the free list and the blocks of the directory.
check_superblock ==
    check_blocklist(check_blocklist(Unvisited, disk.freelist, "FREE"), next_rootdir, "DIR")

\* check_directory_entries, for one entry: it is unused, or it has a name, a sound list
\* and a size that needs as many blocks; an empty file has none, or one on old images.
check_entry(check, entry) ==
    LET empty    == entry.first_block = SFS_EMPTY_FILE_BLOCK
        walked   == IF empty THEN check ELSE check_blocklist(check, entry.first_block, "FILE")
        expected == IF empty THEN 0
                    ELSE IF entry.size = 0 THEN 1
                    ELSE (entry.size + BLOCK_DATA_SIZE - 1) \div BLOCK_DATA_SIZE
    IN  IF entry.first_block = 0 THEN check
        ELSE [walked EXCEPT !.ok =
                /\ @
                /\ entry.name # NoName
                /\ empty => entry.size = 0
                /\ Len(List(disk.blk, entry.first_block)) = expected]

\* check_root_directory: every entry of the superblock and of the extension blocks.
check_root_directory(check) ==
    LET blocks  == DirectoryBlocks
        entries == [p \in 1 .. Len(blocks) * DIR_ENTRIES_PER_BLOCK |-> files[SlotAt(blocks, p)]]
    IN  Seqs!FoldLeft(check_entry, check, entries)

\* The blocks that check_for_lost_blocks reports, after a check.
LostBlocks(check) == Blocks \ check.visited

-----------------------------------------------------------------------------

\* The image passes sfs-fsck after every call, so a process may end at any time between
\* two calls; but for the blocks of files that are unlinked and still open, which are
\* lost then, and are all that sfs-fsck reports.
FsckAccepts ==
    LET check == check_root_directory(check_superblock)
    IN  /\ check.ok
        /\ LostBlocks(check) =
               UNION {ListSet(disk.blk, DiskEntry(i).first_block) : i \in Unlinked}

=============================================================================
