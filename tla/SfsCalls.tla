------------------------------ MODULE SfsCalls ------------------------------
(***************************************************************************)
(* The calls of sfs-api.h as their caller sees them: the mount, format and *)
(* unmount of sfslab/sfs-support.c around the calls of SfsDisk, and what   *)
(* each call returns, the error codes in the order in which the code looks *)
(* for them.  A call is one step here, as in SfsDisk: sfs_x is what it does,  *)
(* and XReturns what it returns.                                           *)
(***************************************************************************)
EXTENDS SfsFsck

CONSTANTS
    EmptyName, LongName     \* names that no file can have

VARIABLES
    mounted,    \* diskBlocks # NULL
    nBlocksOK   \* the superblock's n_blocks agrees with the size of the image

callVars == <<vars, mounted, nBlocksOK>>

\* A call returns a value, or a negative error code; sfs_read also fills a buffer, and
\* the last sfs_list of a loop leaves its caller with the names that the loop found.
Value(v) == [err |-> "OK", val |-> v, bytes |-> <<>>, names |-> {}]
Error(e) == [err |-> e, val |-> -1, bytes |-> <<>>, names |-> {}]

\* A call that returns an error has changed nothing.
Perform(result, effect) ==
    IF result.err = "OK" THEN effect /\ UNCHANGED <<mounted, nBlocksOK>>
    ELSE UNCHANGED callVars

IsOpenFD(fd) == fd \in FDs /\ openFileDescTable[fd] # NULL

Pos(fd)  == openFileDescTable[fd].currPos
Size(fd) == DiskEntry(openFileDescTable[fd].fileEntry).size

-----------------------------------------------------------------------------
(* sfs-support.c *)

FormatReturns(pages) ==
    IF mounted THEN Error("EBUSY") ELSE IF pages = 0 THEN Error("EINVAL") ELSE Value(0)

\* sfs_format: a fresh image, mounted.
sfs_format(pages) ==
    IF FormatReturns(pages).err # "OK" THEN UNCHANGED callVars
    ELSE /\ disk' = FormattedDisk
         /\ files' = [s \in Slots |-> UnusedEntry]
         /\ data' = [b \in Blocks |-> [i \in 0 .. BLOCK_DATA_SIZE - 1 |-> 0]]
         /\ next_rootdir' = 0
         /\ mounted' = TRUE
         /\ nBlocksOK' = TRUE
         /\ UNCHANGED <<openFileTable, openFileDescTable>>

MountReturns ==
    IF mounted THEN Error("EBUSY") ELSE IF ~ nBlocksOK THEN Error("EINVAL") ELSE Value(0)

sfs_mount ==
    /\ mounted' = (mounted \/ nBlocksOK)
    /\ UNCHANGED <<vars, nBlocksOK>>

\* sfs_unmount is refused while sfs_has_open_files.
UnmountReturns ==
    IF mounted /\ \E i \in FDs : openFileTable[i] # NULL THEN Error("EBUSY") ELSE Value(0)

sfs_unmount ==
    /\ mounted' = (mounted /\ UnmountReturns.err # "OK")
    /\ UNCHANGED <<vars, nBlocksOK>>

-----------------------------------------------------------------------------
(* sfs-disk.c: calls on names *)

\* The checks at the head of a call that takes names.
NameError(names) ==
    IF EmptyName \in names THEN "EINVAL"
    ELSE IF LongName \in names THEN "ENAMETOOLONG"
    ELSE IF ~ mounted THEN "ENOMEDIUM"
    ELSE "OK"

\* sfs_open: no descriptor is reported before no space, and either before
\* anything has changed.
OpenReturns(name) ==
    IF NameError({name}) # "OK" THEN Error(NameError({name}))
    ELSE IF FirstNull(openFileDescTable) = {} THEN Error("EMFILE")
    ELSE IF /\ findDirectoryEntry(name) = {} /\ EmptySlot = {}
            /\ LastToAllocate(disk, 1) = {}
         THEN Error("ENOSPC")
    ELSE Value(CHOOSE fd \in FirstNull(openFileDescTable) : TRUE)

sfs_open(name) ==
    Perform(OpenReturns(name), OpenExisting(name) \/ OpenCreate(name) \/ OpenExpand(name))

RemoveReturns(name) ==
    IF NameError({name}) # "OK" THEN Error(NameError({name}))
    ELSE IF findDirectoryEntry(name) = {} THEN Error("ENOENT")
    ELSE Value(0)

sfs_remove(name) == Perform(RemoveReturns(name), Remove(name))

RenameReturns(old_name, new_name) ==
    IF NameError({old_name, new_name}) # "OK" THEN Error(NameError({old_name, new_name}))
    ELSE IF findDirectoryEntry(old_name) = {} THEN Error("ENOENT")
    ELSE Value(0)

sfs_rename(old_name, new_name) ==
    Perform(RenameReturns(old_name, new_name),
            \/ old_name = new_name /\ UNCHANGED vars
            \/ old_name # new_name /\ (RenameFresh(old_name, new_name)
                                       \/ RenameOver(old_name, new_name)))

\* sfs_list: the first name after the cookie, as a set of its position and the name.
Listed(cookie) ==
    LET after == {p \in 1 .. Len(DirectoryBlocks) * DIR_ENTRIES_PER_BLOCK :
                    p > cookie /\ Occupied(files[SlotAt(DirectoryBlocks, p)])}
    IN  {[position |-> p, name |-> files[SlotAt(DirectoryBlocks, p)].name] :
            p \in {q \in after : \A r \in after : q <= r}}

-----------------------------------------------------------------------------
(* sfs-disk.c: calls on descriptors *)

OpenError(fd) == IF IsOpenFD(fd) THEN "OK" ELSE "EBADF"

sfs_close(fd) ==
    /\ IF IsOpenFD(fd) THEN Close(fd) ELSE UNCHANGED vars
    /\ UNCHANGED <<mounted, nBlocksOK>>

ReadReturns(fd, len) ==
    IF ~ IsOpenFD(fd) THEN Error("EBADF")
    ELSE LET bytes == ReadBytes(DiskEntry(openFileDescTable[fd].fileEntry), Pos(fd), len)
         IN  [Value(Len(bytes)) EXCEPT !.bytes = bytes]

sfs_read(fd, len) == Perform([err |-> OpenError(fd)], Read(fd, len))

\* There are not the blocks that a file lacks to hold `end` bytes.
NoSpace(fd, end) ==
    LET n == blocksForFileSize(end)
             - allocatedBlocksForFile(DiskEntry(openFileDescTable[fd].fileEntry))
    IN  n > 0 /\ LastToAllocate(disk, n) = {}

WriteReturns(fd, buf) ==
    IF ~ IsOpenFD(fd) THEN Error("EBADF")
    ELSE IF Len(buf) > SFS_MAX_FILE_SIZE - Pos(fd) THEN Error("EFBIG")
    ELSE IF buf # <<>> /\ NoSpace(fd, Pos(fd) + Len(buf)) THEN Error("ENOSPC")
    ELSE Value(Len(buf))

sfs_write(fd, buf) ==
    Perform(WriteReturns(fd, buf),
            \/ buf = <<>> /\ UNCHANGED vars
            \/ buf # <<>> /\ (WriteInPlace(fd, buf) \/ WriteGrow(fd, buf)))

TruncateReturns(fd, length) ==
    IF ~ IsOpenFD(fd) THEN Error("EBADF")
    ELSE IF length > SFS_MAX_FILE_SIZE THEN Error("EFBIG")
    ELSE IF length > Size(fd) /\ NoSpace(fd, length) THEN Error("ENOSPC")
    ELSE Value(0)

sfs_ftruncate(fd, length) ==
    Perform(TruncateReturns(fd, length),
            IF length = Size(fd) THEN UNCHANGED vars
            ELSE TruncateGrow(fd, length) \/ TruncateShrink(fd, length))

sfs_fstat(fd)  == IF IsOpenFD(fd) THEN Value(Size(fd)) ELSE Error("EBADF")

sfs_getpos(fd) == IF IsOpenFD(fd) THEN Value(Pos(fd)) ELSE Error("EBADF")

sfs_seek(fd, delta) == Perform([err |-> OpenError(fd)], Seek(fd, delta))

\* The position that sfs_seek has set.
SeekReturns(fd) ==
    IF IsOpenFD(fd) THEN Value(openFileDescTable'[fd].currPos) ELSE Error("EBADF")

=============================================================================
