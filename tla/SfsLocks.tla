------------------------------ MODULE SfsLocks ------------------------------
(***************************************************************************)
(* The locks of sfslab/sfs-disk.c: SfsDisk takes each call as one step,    *)
(* this module takes the calls apart.  Threads make calls that overlap;    *)
(* every acquisition is a step, and so is every access between two of      *)
(* them.  What a call stores is reduced to what its locking depends on:    *)
(* which descriptor refers to which open file, which directory slot that   *)
(* file points to, and which slots hold which names.                       *)
(*                                                                         *)
(* Unlocking never waits, so the unlocks of a step are part of it, except  *)
(* where the call goes on under the other locks.                           *)
(***************************************************************************)
EXTENDS Integers

CONSTANTS
    Threads,
    Names,
    NULL,
    Files,              \* addresses of sfs_mem_file_t objects on the heap
    OPEN_FILE_LIMIT,
    MAX_SLOTS           \* bound: directory slots after every expansion

ASSUME LocksAssumption ==
    /\ OPEN_FILE_LIMIT \in Nat \ {0}
    /\ MAX_SLOTS \in Nat \ {0}
    /\ Files \subseteq Nat
    /\ NULL \notin Threads \cup Names \cup Nat
    /\ NULL \notin [refCount : Nat, slot : 1 .. MAX_SLOTS \cup {NULL}]

FDs   == 0 .. OPEN_FILE_LIMIT - 1
Slots == 1 .. MAX_SLOTS

VARIABLES
    directoryLock, openTableLock,   \* reader-writer locks
    descriptorLocks,                \* one mutex per descriptor
    fileLock,                       \* one mutex in each open file
    allocationLock,
    openFileDescTable,              \* the open file of each descriptor
    openFiles,                      \* the open files on the heap, NULL when freed
    names,                          \* the directory: the name in each slot
    nslots,                         \* the slots it has so far
    thr                             \* per thread: the call, where it is, its locals

locks  == <<directoryLock, openTableLock, descriptorLocks, fileLock, allocationLock>>
tables == <<openFileDescTable, openFiles, names, nslots>>
vars   == <<locks, tables, thr>>

-----------------------------------------------------------------------------
(* Calls and locks *)

DirectoryCalls  == {"open", "remove", "rename", "list"}
DescriptorCalls == {"read", "write", "getpos"}  \* "read" also stands for seek, fstat
TableCalls      == {"close", "ftruncate", "has_open"}

\* Calls that only read what the two reader-writer locks protect.
SharedCalls == {"list", "has_open"}

Idle == [pc |-> "idle", call |-> NULL, fd |-> NULL, name |-> NULL, new |-> NULL,
         file |-> NULL, slot |-> NULL, old |-> NULL]

Free == [writer |-> NULL, readers |-> {}]

MayAcquire(lock, t) ==
    /\ lock.writer = NULL
    /\ thr[t].call \notin SharedCalls => lock.readers = {}

Acquired(lock, t) ==
    IF thr[t].call \in SharedCalls THEN [lock EXCEPT !.readers = @ \cup {t}]
    ELSE [lock EXCEPT !.writer = t]

Released(lock, t) ==
    [writer |-> IF lock.writer = t THEN NULL ELSE lock.writer, readers |-> lock.readers \ {t}]

\* The open file that points to a slot (findOpenFile), as a set.
OpenFileOf(slot) == {f \in Files : openFiles[f] # NULL /\ openFiles[f].slot = slot}

\* The address of a new one.  Addresses are only compared, so it may as well be the least
\* that is free.
NewFile == {f \in Files : openFiles[f] = NULL /\ \A g \in Files : openFiles[g] = NULL => f <= g}

\* The next step of thread t; one that only has to return has no use for its locals.
Goto(t, pc) ==
    thr' = [thr EXCEPT ![t] = IF pc = "return" THEN [Idle EXCEPT !.pc = pc, !.call = thr[t].call]
                              ELSE [@ EXCEPT !.pc = pc]]

Init ==
    /\ directoryLock = Free
    /\ openTableLock = Free
    /\ descriptorLocks = [fd \in FDs |-> NULL]
    /\ fileLock = [f \in Files |-> NULL]
    /\ allocationLock = NULL
    /\ openFileDescTable = [fd \in FDs |-> NULL]
    /\ openFiles = [f \in Files |-> NULL]
    /\ names = [s \in Slots |-> NULL]
    /\ nslots = 1
    /\ thr = [t \in Threads |-> Idle]

-----------------------------------------------------------------------------
(* Beginning and ending of calls *)

\* A thread makes a call.  Its arguments are chosen where it first uses them: by the calls
\* on a descriptor here, by the others once they have the table (LockTable).
Call(t) ==
    /\ thr[t].pc = "idle"
    /\ \/ \E call \in DirectoryCalls :
            thr' = [thr EXCEPT ![t] = [Idle EXCEPT !.call = call, !.pc = "directory"]]
       \/ \E call \in TableCalls :
            thr' = [thr EXCEPT ![t] = [Idle EXCEPT !.call = call, !.pc = "table"]]
       \/ \E call \in DescriptorCalls, fd \in FDs :
            thr' = [thr EXCEPT ![t] =
                        [Idle EXCEPT !.call = call, !.fd = fd, !.pc = "descriptor"]]
    /\ UNCHANGED <<locks, tables>>

LockDirectory(t) ==
    /\ thr[t].pc = "directory"
    /\ MayAcquire(directoryLock, t)
    /\ directoryLock' = Acquired(directoryLock, t)
    /\ Goto(t, "table")
    /\ UNCHANGED <<openTableLock, descriptorLocks, fileLock, allocationLock, tables>>

LockTable(t) ==
    /\ thr[t].pc = "table"
    /\ MayAcquire(openTableLock, t)
    /\ openTableLock' = Acquired(openTableLock, t)
    /\ LET call == thr[t].call
       IN  \E fd \in IF call \in {"close", "ftruncate"} THEN FDs ELSE {NULL},
              name \in IF call \in {"open", "remove", "rename"} THEN Names ELSE {NULL},
              new \in IF call = "rename" THEN Names ELSE {NULL} :
                thr' = [thr EXCEPT ![t] =
                    [Idle EXCEPT !.call = call, !.fd = fd, !.name = name, !.new = new,
                        !.slot = IF call \in DirectoryCalls THEN 1 ELSE NULL,
                        !.pc = IF call \in DirectoryCalls THEN "find"
                               ELSE IF call = "close" THEN "descriptor"
                               ELSE IF call = "ftruncate" THEN "collect" ELSE "count"]]
    /\ UNCHANGED <<directoryLock, descriptorLocks, fileLock, allocationLock, tables>>

\* The last unlocks of a directory or table call, and its return.
Return(t) ==
    /\ thr[t].pc = "return"
    /\ openTableLock' = Released(openTableLock, t)
    /\ directoryLock' = IF thr[t].call \in DirectoryCalls THEN Released(directoryLock, t)
                        ELSE directoryLock
    /\ thr' = [thr EXCEPT ![t] = Idle]
    /\ UNCHANGED <<descriptorLocks, fileLock, allocationLock, tables>>

\* sfs_has_open_files reads both tables.
Count(t) ==
    /\ thr[t].pc = "count"
    /\ Goto(t, "return")
    /\ UNCHANGED <<locks, tables>>

\* Enter allocateBlocks or freeBlocks, and leave it again; what the call does next.
LockAllocation(t) ==
    /\ thr[t].pc = "allocation"
    /\ allocationLock = NULL
    /\ allocationLock' = t
    /\ Goto(t, "allocate")
    /\ UNCHANGED <<directoryLock, openTableLock, descriptorLocks, fileLock, tables>>

Allocate(t) ==
    /\ thr[t].pc = "allocate"
    /\ allocationLock' = NULL
    /\ Goto(t, IF thr[t].call \in {"write", "ftruncate"} THEN "store"
               ELSE IF thr[t].call = "close" THEN "destroy"
               ELSE IF thr[t].call = "open" THEN "expand" ELSE "clear")
    /\ UNCHANGED <<directoryLock, openTableLock, descriptorLocks, fileLock, tables>>

-----------------------------------------------------------------------------
(* Calls on a descriptor *)

\* Slip of LockDescriptor: sfs_close relies on the lock of the table.
LockDescriptorNotClose(t) ==
    /\ thr[t].pc = "descriptor"
    /\ IF thr[t].call = "close" THEN Goto(t, "detach") /\ UNCHANGED descriptorLocks
       ELSE /\ descriptorLocks[thr[t].fd] = NULL
            /\ descriptorLocks' = [descriptorLocks EXCEPT ![thr[t].fd] = t]
            /\ Goto(t, "load")
    /\ UNCHANGED <<directoryLock, openTableLock, fileLock, allocationLock, tables>>

\* lockDescriptor, and the same lock in sfs_close.
LockDescriptor(t) ==
    /\ thr[t].pc = "descriptor"
    /\ descriptorLocks[thr[t].fd] = NULL
    /\ descriptorLocks' = [descriptorLocks EXCEPT ![thr[t].fd] = t]
    /\ Goto(t, IF thr[t].call = "close" THEN "detach" ELSE "load")
    /\ UNCHANGED <<directoryLock, openTableLock, fileLock, allocationLock, tables>>

\* Slip of Load: the return with EBADF leaves the descriptor locked.
LoadKeepsLock(t) ==
    /\ thr[t].pc = "load"
    /\ IF openFileDescTable[thr[t].fd] = NULL THEN thr' = [thr EXCEPT ![t] = Idle]
       ELSE thr' = [thr EXCEPT ![t].file = openFileDescTable[thr[t].fd],
                               ![t].pc = IF thr[t].call = "getpos" THEN "getpos" ELSE "lockIO"]
    /\ UNCHANGED <<locks, tables>>

\* Slip of Load: the table is read under its own lock, taken after the descriptor's.
LoadUnderTable(t) ==
    /\ openTableLock = Free
    /\ thr[t].pc = "load"
    /\ IF openFileDescTable[thr[t].fd] = NULL
       THEN /\ descriptorLocks' = [descriptorLocks EXCEPT ![thr[t].fd] = NULL]
            /\ thr' = [thr EXCEPT ![t] = Idle]
       ELSE /\ thr' = [thr EXCEPT ![t].file = openFileDescTable[thr[t].fd],
                                  ![t].pc = IF thr[t].call = "getpos" THEN "getpos"
                                            ELSE "lockIO"]
            /\ UNCHANGED descriptorLocks
    /\ UNCHANGED <<directoryLock, openTableLock, fileLock, allocationLock, tables>>

\* lockDescriptor reads the table: EBADF, or go on to the file.
Load(t) ==
    /\ thr[t].pc = "load"
    /\ IF openFileDescTable[thr[t].fd] = NULL
       THEN /\ descriptorLocks' = [descriptorLocks EXCEPT ![thr[t].fd] = NULL]
            /\ thr' = [thr EXCEPT ![t] = Idle]
       ELSE /\ thr' = [thr EXCEPT ![t].file = openFileDescTable[thr[t].fd],
                                  ![t].pc = IF thr[t].call = "getpos" THEN "getpos"
                                            ELSE "lockIO"]
            /\ UNCHANGED descriptorLocks
    /\ UNCHANGED <<directoryLock, openTableLock, fileLock, allocationLock, tables>>

\* sfs_getpos reads the position under the lock of the descriptor alone.
GetPos(t) ==
    /\ thr[t].pc = "getpos"
    /\ descriptorLocks' = [descriptorLocks EXCEPT ![thr[t].fd] = NULL]
    /\ thr' = [thr EXCEPT ![t] = Idle]
    /\ UNCHANGED <<directoryLock, openTableLock, fileLock, allocationLock, tables>>

\* Lock an open file: for its contents, to look at its entry, to unlink it.
LockFile(t) ==
    /\ \E then \in {<<"lockIO", "io">>, <<"lockLook", "look">>, <<"lockUnlink", "unlink">>} :
        /\ thr[t].pc = then[1]
        /\ Goto(t, then[2])
    /\ fileLock[thr[t].file] = NULL
    /\ fileLock' = [fileLock EXCEPT ![thr[t].file] = t]
    /\ UNCHANGED <<directoryLock, openTableLock, descriptorLocks, allocationLock, tables>>

\* The work of a read, write or ftruncate on the file.  The last two may have to
\* allocate or free blocks first, and then go on ("store").
InputOutput(t) ==
    /\ thr[t].pc \in {"io", "store"}
    /\ \/ /\ thr[t].pc = "io"
          /\ thr[t].call \in {"write", "ftruncate"}
          /\ Goto(t, "allocation")
          /\ UNCHANGED <<fileLock, descriptorLocks>>
       \/ /\ fileLock' = [fileLock EXCEPT ![thr[t].file] = NULL]
          /\ descriptorLocks' = [fd \in FDs |-> IF descriptorLocks[fd] = t THEN NULL
                                                ELSE descriptorLocks[fd]]
          /\ IF thr[t].call = "ftruncate" THEN Goto(t, "return")
             ELSE thr' = [thr EXCEPT ![t] = Idle]
    /\ UNCHANGED <<directoryLock, openTableLock, allocationLock, tables>>

\* sfs_ftruncate reads the descriptor under the table lock, ...
Collect(t) ==
    /\ thr[t].pc = "collect"
    /\ LET f == openFileDescTable[thr[t].fd]
       IN  IF f = NULL THEN Goto(t, "return")
           ELSE thr' = [thr EXCEPT ![t].fd = NULL, ![t].file = f, ![t].pc = "lockSlots"]
    /\ UNCHANGED <<locks, tables>>

\* The descriptors of the open file that thread t has yet to lock.
ToLock(t) == {fd \in FDs : openFileDescTable[fd] = thr[t].file /\ descriptorLocks[fd] # t}

\* Slip of LockSlots: the lock of the file is taken to be enough.
LockSlotsSkipped(t) ==
    /\ thr[t].pc = "lockSlots"
    /\ Goto(t, "lockIO")
    /\ UNCHANGED <<locks, tables>>

\* ... locks every descriptor of the file in ascending order, and then the file.
LockSlots(t) ==
    /\ thr[t].pc = "lockSlots"
    /\ \/ /\ ToLock(t) = {}
          /\ Goto(t, "lockIO")
          /\ UNCHANGED descriptorLocks
       \/ \E fd \in ToLock(t) :
          /\ \A other \in ToLock(t) : fd <= other
          /\ descriptorLocks[fd] = NULL
          /\ descriptorLocks' = [descriptorLocks EXCEPT ![fd] = t]
          /\ UNCHANGED thr
    /\ UNCHANGED <<directoryLock, openTableLock, fileLock, allocationLock, tables>>

-----------------------------------------------------------------------------
(* sfs_close *)

\* Under the locks of the table and the descriptor: clear the descriptor, drop
\* the reference.  The last one goes on to free the open file, after its blocks
\* if it is unlinked and has any.
Detach(t) ==
    /\ thr[t].pc = "detach"
    /\ LET fd == thr[t].fd
           f  == openFileDescTable[fd]
           Unlock(pc) == /\ descriptorLocks' = [descriptorLocks EXCEPT ![fd] = NULL]
                         /\ Goto(t, pc)
       IN  \/ /\ f = NULL
              /\ Unlock("return")
              /\ UNCHANGED <<openFileDescTable, openFiles>>
           \/ /\ f # NULL
              /\ openFileDescTable' = [openFileDescTable EXCEPT ![fd] = NULL]
              /\ openFiles' = [openFiles EXCEPT ![f].refCount = @ - 1]
              /\ \/ openFiles[f].refCount > 1 /\ Unlock("return")
                 \/ /\ openFiles[f].refCount = 1
                    /\ UNCHANGED descriptorLocks
                    /\ \E pc \in IF openFiles[f].slot = NULL THEN {"allocation", "destroy"}
                                 ELSE {"destroy"} :
                         thr' = [thr EXCEPT ![t].file = f, ![t].pc = pc]
    /\ UNCHANGED <<directoryLock, openTableLock, fileLock, allocationLock, names, nslots>>

\* Free the open file, its mutex included.
Destroy(t) ==
    /\ thr[t].pc = "destroy"
    /\ openFiles' = [openFiles EXCEPT ![thr[t].file] = NULL]
    /\ descriptorLocks' = [descriptorLocks EXCEPT ![thr[t].fd] = NULL]
    /\ Goto(t, "return")
    /\ UNCHANGED <<directoryLock, openTableLock, fileLock, allocationLock,
                   openFileDescTable, names, nslots>>

-----------------------------------------------------------------------------
(* The directory: sfs_open, sfs_remove, sfs_rename, sfs_list *)

\* findDirectoryEntry, and the same loop in sfs_list: the next slot, with the lock
\* of the file that is open on it, if one is.
Find(t) ==
    /\ thr[t].pc = "find"
    /\ thr[t].slot <= nslots
    /\ \/ /\ OpenFileOf(thr[t].slot) = {}
          /\ Goto(t, "look")
       \/ \E f \in OpenFileOf(thr[t].slot) :
            thr' = [thr EXCEPT ![t].file = f, ![t].pc = "lockLook"]
    /\ UNCHANGED <<locks, tables>>

\* The name the search of thread t is for: sfs_rename searches twice.
Wanted(t) == IF thr[t].old # NULL THEN thr[t].new ELSE thr[t].name

\* Look at the entry.  sfs_list stops at any entry from its cookie on.
Look(t) ==
    /\ thr[t].pc = "look"
    /\ fileLock' = [f \in Files |-> IF f = thr[t].file THEN NULL ELSE fileLock[f]]
    /\ LET slot == thr[t].slot
           call == thr[t].call
           Next(pc, at, old) ==
                thr' = [thr EXCEPT ![t].pc = pc, ![t].slot = at, ![t].old = old, ![t].file = NULL,
                                   ![t].name = IF pc = "find" /\ old = NULL THEN @ ELSE NULL]
       IN  \/ /\ names[slot] # NULL
              /\ call = "list" \/ names[slot] = Wanted(t)
              /\ \/ call = "list" /\ Goto(t, "return")
                 \/ call = "open" /\ Next("add", slot, NULL)
                 \/ call = "remove" /\ Next("findOpen", slot, NULL)
                 \/ /\ call = "rename"
                    /\ \/ thr[t].old # NULL /\ Next("findOpen", slot, thr[t].old)
                       \/ /\ thr[t].old = NULL
                          /\ IF thr[t].name = thr[t].new THEN Goto(t, "return")
                             ELSE Next("find", 1, slot)
           \/ /\ names[slot] # Wanted(t) \/ call = "list"
              /\ Next("find", slot + 1, thr[t].old)
    /\ UNCHANGED <<directoryLock, openTableLock, descriptorLocks, allocationLock, tables>>

EmptySlots == {s \in 1 .. nslots : names[s] = NULL}

\* The search found nothing.  sfs_open wants a descriptor and a slot for the new file.
NotFound(t) ==
    /\ thr[t].pc = "find"
    /\ thr[t].slot > nslots
    /\ LET call == thr[t].call
       IN  \/ /\ call \in {"list", "remove"} \/ (call = "rename" /\ thr[t].old = NULL)
              /\ Goto(t, "return")
           \/ /\ call = "rename" /\ thr[t].old # NULL
              /\ Goto(t, "name")
           \/ /\ call = "open"
              /\ \/ /\ \A fd \in FDs : openFileDescTable[fd] # NULL
                    /\ Goto(t, "return")
                 \/ /\ \E fd \in FDs : openFileDescTable[fd] = NULL
                    /\ \/ EmptySlots = {} /\ Goto(t, "allocation")
                       \/ \E s \in EmptySlots :
                            /\ \A other \in EmptySlots : s <= other
                            /\ thr' = [thr EXCEPT ![t].slot = s, ![t].pc = "create"]
    /\ UNCHANGED <<locks, tables>>

\* expandDirectory chains the block it got to the directory, or sfs_open fails (ENOSPC).
Expand(t) ==
    /\ thr[t].pc = "expand"
    /\ \/ /\ nslots < MAX_SLOTS
          /\ nslots' = nslots + 1
          /\ thr' = [thr EXCEPT ![t].slot = nslots + 1, ![t].pc = "create"]
       \/ /\ Goto(t, "return")
          /\ UNCHANGED nslots
    /\ UNCHANGED <<locks, openFileDescTable, openFiles, names>>

\* createFile writes the entry before it asks for a descriptor.
Create(t) ==
    /\ thr[t].pc = "create"
    /\ names' = [names EXCEPT ![thr[t].slot] = thr[t].name]
    /\ thr' = [thr EXCEPT ![t].pc = "add", ![t].name = NULL]
    /\ UNCHANGED <<locks, openFileDescTable, openFiles, nslots>>

Publishing(t, fd, f) ==
    [Idle EXCEPT !.call = thr[t].call, !.fd = fd, !.file = f, !.pc = "publish"]

\* Slip of AddOpenFile: a shared open file is not counted again.
AddOpenFileUncounted(t) ==
    /\ thr[t].pc = "add"
    /\ \E fd \in {d \in FDs : openFileDescTable[d] = NULL}, f \in Files :
        /\ IF OpenFileOf(thr[t].slot) = {} THEN f \in NewFile
           ELSE f \in OpenFileOf(thr[t].slot)
        /\ openFiles' = [openFiles EXCEPT ![f] = [refCount |-> 1, slot |-> thr[t].slot]]
        /\ thr' = [thr EXCEPT ![t] = Publishing(t, fd, f)]
    /\ UNCHANGED <<locks, openFileDescTable, names, nslots>>

\* addOpenFileEntry: the first empty descriptor, and the open file of the entry or
\* a new one.  (Its failure for lack of memory changes no lock.)
AddOpenFile(t) ==
    /\ thr[t].pc = "add"
    /\ LET slot  == thr[t].slot
           empty == {fd \in FDs : openFileDescTable[fd] = NULL}
       IN  \/ /\ empty = {}
              /\ Goto(t, "return")
              /\ UNCHANGED openFiles
           \/ \E fd \in empty, f \in Files :
              /\ \A other \in empty : fd <= other
              /\ f \in IF OpenFileOf(slot) = {} THEN NewFile ELSE OpenFileOf(slot)
              /\ openFiles' = [openFiles EXCEPT ![f] =
                    IF openFiles[f] = NULL THEN [refCount |-> 1, slot |-> slot]
                    ELSE [openFiles[f] EXCEPT !.refCount = @ + 1]]
              /\ thr' = [thr EXCEPT ![t] = Publishing(t, fd, f)]
    /\ UNCHANGED <<locks, openFileDescTable, names, nslots>>

\* ... and put it in the table, under the lock of the descriptor.
LockPublish(t) ==
    /\ thr[t].pc = "publish"
    /\ descriptorLocks[thr[t].fd] = NULL
    /\ descriptorLocks' = [descriptorLocks EXCEPT ![thr[t].fd] = t]
    /\ Goto(t, "set")
    /\ UNCHANGED <<directoryLock, openTableLock, fileLock, allocationLock, tables>>

Publish(t) ==
    /\ thr[t].pc = "set"
    /\ openFileDescTable' = [openFileDescTable EXCEPT ![thr[t].fd] = thr[t].file]
    /\ descriptorLocks' = [descriptorLocks EXCEPT ![thr[t].fd] = NULL]
    /\ Goto(t, "return")
    /\ UNCHANGED <<directoryLock, openTableLock, fileLock, allocationLock,
                   openFiles, names, nslots>>

\* unlinkDirectoryEntry: an open file is locked and gets its own copy of the entry;
\* the blocks of any other file, if it has some, are freed.
FindOpen(t) ==
    /\ thr[t].pc = "findOpen"
    /\ \/ /\ OpenFileOf(thr[t].slot) = {}
          /\ \E pc \in {"allocation", "clear"} : Goto(t, pc)
       \/ \E f \in OpenFileOf(thr[t].slot) :
            thr' = [thr EXCEPT ![t].file = f, ![t].pc = "lockUnlink"]
    /\ UNCHANGED <<locks, tables>>

\* Slip of Unlink: the file stays locked.
UnlinkKeepsLock(t) ==
    /\ thr[t].pc = "unlink"
    /\ openFiles' = [openFiles EXCEPT ![thr[t].file].slot = NULL]
    /\ thr' = [thr EXCEPT ![t].pc = "clear", ![t].file = NULL]
    /\ UNCHANGED <<locks, openFileDescTable, names, nslots>>

Unlink(t) ==
    /\ thr[t].pc = "unlink"
    /\ openFiles' = [openFiles EXCEPT ![thr[t].file].slot = NULL]
    /\ fileLock' = [fileLock EXCEPT ![thr[t].file] = NULL]
    /\ thr' = [thr EXCEPT ![t].pc = "clear", ![t].file = NULL]
    /\ UNCHANGED <<directoryLock, openTableLock, descriptorLocks, allocationLock,
                   openFileDescTable, names, nslots>>

\* Clear the entry; sfs_rename then gives its name to the other one.
Clear(t) ==
    /\ thr[t].pc = "clear"
    /\ names' = [names EXCEPT ![thr[t].slot] = NULL]
    /\ Goto(t, IF thr[t].call = "rename" THEN "name" ELSE "return")
    /\ UNCHANGED <<locks, openFileDescTable, openFiles, nslots>>

Name(t) ==
    /\ thr[t].pc = "name"
    /\ names' = [names EXCEPT ![thr[t].old] = thr[t].new]
    /\ Goto(t, "return")
    /\ UNCHANGED <<locks, openFileDescTable, openFiles, nslots>>

-----------------------------------------------------------------------------

\* A step of a call that thread t is in.
Step(t) ==
    \/ LockDirectory(t) \/ LockTable(t) \/ Return(t) \/ Count(t)
    \/ LockAllocation(t) \/ Allocate(t)
    \/ LockDescriptor(t) \/ Load(t) \/ GetPos(t) \/ LockFile(t) \/ InputOutput(t)
    \/ Collect(t) \/ LockSlots(t)
    \/ Detach(t) \/ Destroy(t)
    \/ Find(t) \/ Look(t) \/ NotFound(t) \/ Expand(t) \/ Create(t)
    \/ AddOpenFile(t) \/ LockPublish(t) \/ Publish(t)
    \/ FindOpen(t) \/ Unlink(t) \/ Clear(t) \/ Name(t)

Next == \E t \in Threads : Call(t) \/ Step(t)

\* A thread that can go on does so in the end: that is the scheduler's promise, not a
\* lock's.  Nothing makes a mutex or a reader-writer lock fair, so calls that never cease
\* may starve one that waits; but the program makes no calls from some time on.
Spec ==
    /\ Init /\ [][Next]_vars
    /\ \A t \in Threads : WF_vars(Step(t))
    /\ <>[][\A t \in Threads : ~ Call(t)]_vars

-----------------------------------------------------------------------------
(* Safety *)

\* The entry that an open file's contents are described by.
EntryOf(f) == IF openFiles[f].slot = NULL THEN <<"copy", f>> ELSE <<"entry", openFiles[f].slot>>

Of(field, S) == {<<field, x>> : x \in S}

Live == {f \in Files : openFiles[f] # NULL}

\* The memory that the next step of thread t reads without writing it, and what it
\* writes.  "slot" is openFileDescTable[fd], "position" the currPos behind it,
\* "file" the pointers of an open file, "count" its refCount, "table" openFileTable,
\* "entry" the size and first block of a directory entry, "name" its name.
Reads(t) ==
    LET me == thr[t]
    IN  CASE me.pc = "load"   -> {<<"slot", me.fd>>}
          [] me.pc = "getpos" -> {<<"position", me.fd>>}
          [] me.pc \in {"io", "store"} ->
                {<<"file", me.file>>, EntryOf(me.file)}
                \cup (IF me.call = "ftruncate" THEN Of("slot", FDs) ELSE {})
          [] me.pc \in {"collect", "lockSlots"} -> Of("slot", FDs)
          [] me.pc = "count"  -> Of("slot", FDs) \cup {<<"table", 0>>}
          [] me.pc = "find" /\ me.slot <= nslots -> {<<"table", 0>>} \cup Of("file", Live)
          [] me.pc = "findOpen" ->
                {<<"table", 0>>} \cup Of("file", Live)
                \cup (IF OpenFileOf(me.slot) = {} THEN {<<"entry", me.slot>>} ELSE {})
          [] me.pc = "look"   -> {<<"entry", me.slot>>, <<"name", me.slot>>}
          [] me.pc = "find" /\ me.slot > nslots -> Of("slot", FDs) \cup {<<"chain", 0>>}
          [] me.pc = "add"    -> Of("slot", FDs) \cup Of("file", Live)
          [] me.pc = "unlink" -> {<<"entry", me.slot>>}
          [] OTHER            -> {}

Writes(t) ==
    LET me == thr[t]
    IN  CASE me.pc \in {"io", "store"} /\ me.call = "read"  -> {<<"position", me.fd>>}
          [] me.pc \in {"io", "store"} /\ me.call = "write" ->
                {<<"position", me.fd>>, EntryOf(me.file)}
          [] me.pc \in {"io", "store"} /\ me.call = "ftruncate" ->
                Of("position", {fd \in FDs : openFileDescTable[fd] = me.file})
                \cup {EntryOf(me.file)}
          [] me.pc = "allocate" -> {<<"freelist", 0>>}
          [] me.pc = "detach" /\ openFileDescTable[me.fd] # NULL ->
                {<<"slot", me.fd>>, <<"position", me.fd>>,
                 <<"count", openFileDescTable[me.fd]>>}
          [] me.pc = "destroy" -> {<<"table", 0>>, <<"file", me.file>>, <<"copy", me.file>>}
          [] me.pc = "expand" -> {<<"chain", 0>>}
          [] me.pc \in {"create", "clear"} -> {<<"entry", me.slot>>, <<"name", me.slot>>}
          [] me.pc = "add"    -> {<<"table", 0>>} \cup Of("count", OpenFileOf(me.slot))
          [] me.pc = "set"    -> {<<"slot", me.fd>>, <<"position", me.fd>>}
          [] me.pc = "unlink" -> {<<"file", me.file>>, <<"copy", me.file>>}
          [] me.pc = "name"   -> {<<"name", me.old>>}
          [] OTHER            -> {}

\* No two threads are about to access the same memory, one of them writing it: every
\* access is ordered by some lock, so that calls may be taken as atomic.
NoRace ==
    \A t, u \in Threads : t # u => Writes(t) \cap (Reads(u) \cup Writes(u)) = {}

\* A thread that uses an open file, or waits for its lock, uses one that has not been
\* freed; on behalf of a descriptor, the one that this descriptor still refers to.
FilesPinned ==
    \A t \in Threads :
        /\ thr[t].pc \in {"lockIO", "io", "store", "lockLook", "look", "lockUnlink", "unlink"}
              => (thr[t].file # NULL => openFiles[thr[t].file] # NULL)
        /\ thr[t].call \in DescriptorCalls /\ thr[t].file # NULL
              => openFileDescTable[thr[t].fd] = thr[t].file

\* Nobody destroys the mutex of an open file while it is locked.
NoLockedDestroy ==
    \A f \in Files : fileLock[f] # NULL => openFiles[f] # NULL

\* The threads that hold what thread t waits for.
HoldersOf(lock) == ({lock.writer} \cap Threads) \cup lock.readers

WaitsFor(t) ==
    LET me == thr[t]
        Blocking(lock) == IF me.call \in SharedCalls THEN HoldersOf(lock) \ lock.readers
                          ELSE HoldersOf(lock)
    IN  CASE me.pc = "directory" -> Blocking(directoryLock)
          [] me.pc = "table"     -> Blocking(openTableLock)
          [] me.pc \in {"descriptor", "publish"} -> {descriptorLocks[me.fd]} \ {NULL}
          [] me.pc = "lockSlots" -> {descriptorLocks[fd] : fd \in
                {d \in ToLock(t) : \A other \in ToLock(t) : d <= other}} \ {NULL}
          [] me.pc \in {"lockIO", "lockLook", "lockUnlink"} -> {fileLock[me.file]} \ {NULL}
          [] me.pc = "allocation" -> {allocationLock} \ {NULL}
          [] OTHER               -> {}

\* No threads wait for each other in a circle, whatever the others do.
NoWaitCycle ==
    \A S \in (SUBSET Threads) \ {{}} : \E t \in S : WaitsFor(t) \cap S = {}

\* A call that has returned holds no lock, on any of its paths.
IdleHoldsNothing ==
    \A t \in Threads : thr[t].pc = "idle" =>
        /\ t \notin HoldersOf(directoryLock) \cup HoldersOf(openTableLock)
        /\ \A fd \in FDs : descriptorLocks[fd] # t
        /\ \A f \in Files : fileLock[f] # t
        /\ allocationLock # t

-----------------------------------------------------------------------------
(* Liveness *)

\* Once no more calls are made, every call has returned: no order in which calls take
\* the five kinds of lock, on any of their paths, leaves one of them waiting for ever.
EveryCallReturns == <>[](\A t \in Threads : thr[t].pc = "idle")

=============================================================================
