---------------------------- MODULE SfsLocksProofs ----------------------------
(***************************************************************************)
(* The locks of SfsLocks, for any number of threads, names, descriptors,   *)
(* slots and open files: every shared access is ordered by a lock, nobody  *)
(* uses or destroys an open file that is gone, no threads wait in a circle *)
(* and no call leaves a lock behind.                                       *)
(*                                                                         *)
(* The invariant says where each thread can be (Place), that it holds the  *)
(* locks which its place and its call imply and no others (Directory,      *)
(* Table, ...), and what it knows about the tables while it holds them     *)
(* (Pinned).  A step of one thread leaves what the others hold and know    *)
(* (Elsewhere), so each action has to be shown for its own thread only.    *)
(***************************************************************************)
EXTENDS SfsLocks, NaturalSets

Calls == DirectoryCalls \cup DescriptorCalls \cup TableCalls

Lock == [writer : Threads \cup {NULL}, readers : SUBSET Threads]

PCs == {"idle", "directory", "table", "find", "lockLook", "look", "count", "return", "collect",
        "lockSlots", "descriptor", "load", "getpos", "lockIO", "io", "store", "detach",
        "destroy", "allocation", "allocate", "expand", "create", "add", "publish", "set",
        "findOpen", "lockUnlink", "unlink", "clear", "name"}

Frame == [pc : PCs, call : Calls \cup {NULL}, fd : FDs \cup {NULL},
          name : Names \cup {NULL}, new : Names \cup {NULL}, file : Files \cup {NULL},
          slot : Nat \cup {NULL}, old : Nat \cup {NULL}]

TypeOK ==
    /\ directoryLock \in Lock
    /\ openTableLock \in Lock
    /\ descriptorLocks \in [FDs -> Threads \cup {NULL}]
    /\ fileLock \in [Files -> Threads \cup {NULL}]
    /\ allocationLock \in Threads \cup {NULL}
    /\ openFileDescTable \in [FDs -> Files \cup {NULL}]
    /\ openFiles \in [Files -> [refCount : Nat, slot : Slots \cup {NULL}] \cup {NULL}]
    /\ names \in [Slots -> Names \cup {NULL}]
    /\ nslots \in Slots
    /\ thr \in [Threads -> Frame]

-----------------------------------------------------------------------------
(* Where a thread is *)

(* The calls that get to each place, and the locals that have a value there. *)
Place(t) ==
    LET me == thr[t]
    IN  \/ me.pc = "idle" /\ me.file = NULL
        \/ me.pc = "directory" /\ me.call \in DirectoryCalls /\ me.file = NULL
        \/ me.pc = "table" /\ me.call \in DirectoryCalls \cup TableCalls /\ me.file = NULL
        \/ me.pc = "count" /\ me.call = "has_open"
        \/ me.pc = "return" /\ me.call \in DirectoryCalls \cup TableCalls /\ me.file = NULL
        \/ /\ me.pc \in {"descriptor", "load"}
           /\ me.call \in DescriptorCalls \cup (IF me.pc = "load" THEN {} ELSE {"close"})
           /\ me.fd \in FDs /\ me.file = NULL
        \/ me.pc = "getpos" /\ me.call = "getpos" /\ me.fd \in FDs /\ me.file \in Files
        \/ /\ me.pc \in {"lockIO", "io"}
           /\ me.call \in {"read", "write", "ftruncate"} /\ me.file \in Files
           /\ me.call # "ftruncate" => me.fd \in FDs
        \/ /\ me.pc \in {"allocation", "allocate", "store"}
           /\ me.call \in {"write", "ftruncate"} /\ me.file \in Files
           /\ me.call # "ftruncate" => me.fd \in FDs
        \/ me.pc = "collect" /\ me.call = "ftruncate" /\ me.fd \in FDs /\ me.file = NULL
        \/ me.pc = "lockSlots" /\ me.call = "ftruncate" /\ me.file \in Files
        \/ me.pc = "detach" /\ me.call = "close" /\ me.fd \in FDs /\ me.file = NULL
        \/ /\ me.pc \in {"allocation", "allocate", "destroy"}
           /\ me.call = "close" /\ me.fd \in FDs /\ me.file \in Files
        \/ /\ me.pc = "find"
           /\ me.call \in DirectoryCalls /\ me.slot \in 1 .. nslots + 1 /\ me.file = NULL
           /\ me.call \in {"open", "remove"} => me.name \in Names /\ me.old = NULL
           /\ me.call = "rename" => me.new \in Names /\ me.old \in 1 .. nslots \cup {NULL}
        \/ /\ me.pc \in {"lockLook", "look"}
           /\ me.call \in DirectoryCalls /\ me.slot \in 1 .. nslots
           /\ me.pc = "lockLook" => me.file \in Files
           /\ me.call \in {"open", "remove"} => me.name \in Names /\ me.old = NULL
           /\ me.call = "rename" => me.new \in Names /\ me.old \in 1 .. nslots \cup {NULL}
        \/ /\ me.pc \in {"allocation", "allocate", "expand"}
           /\ me.call = "open" /\ me.name \in Names /\ me.file = NULL
        \/ /\ me.pc = "create" /\ me.call = "open" /\ me.name \in Names
           /\ me.slot \in 1 .. nslots /\ me.file = NULL
        \/ me.pc = "add" /\ me.call = "open" /\ me.slot \in 1 .. nslots /\ me.file = NULL
        \/ me.pc \in {"publish", "set"} /\ me.call = "open" /\ me.fd \in FDs /\ me.file \in Files
        \/ /\ me.pc \in {"findOpen", "lockUnlink", "unlink", "allocation", "allocate", "clear"}
           /\ me.call \in {"remove", "rename"} /\ me.slot \in 1 .. nslots
           /\ IF me.pc \in {"lockUnlink", "unlink"} THEN me.file \in Files ELSE me.file = NULL
           /\ me.call = "rename" => me.new \in Names /\ me.old \in 1 .. nslots
        \/ /\ me.pc = "name" /\ me.call = "rename" /\ me.file = NULL
           /\ me.new \in Names /\ me.old \in 1 .. nslots

-----------------------------------------------------------------------------
(* What a thread holds *)

Shared(t) == thr[t].call \in SharedCalls

HasDirectory(t) ==
    thr[t].call \in DirectoryCalls /\ thr[t].pc \notin {"idle", "directory"}

HasTable(t) ==
    /\ thr[t].call \in DirectoryCalls \cup TableCalls
    /\ thr[t].pc \notin {"idle", "directory", "table"}

HasDescriptor(t, fd) ==
    \/ thr[t].call \in DescriptorCalls /\ thr[t].pc \notin {"idle", "descriptor"} /\ fd = thr[t].fd
    \/ /\ thr[t].call = "close" /\ fd = thr[t].fd
       /\ thr[t].pc \in {"detach", "allocation", "allocate", "destroy"}
    \/ thr[t].pc = "set" /\ fd = thr[t].fd
    \/ /\ thr[t].call = "ftruncate" /\ openFileDescTable[fd] = thr[t].file
       /\ thr[t].pc \in {"lockIO", "io", "allocation", "allocate", "store"}

HasFile(t) ==
    \/ thr[t].pc \in {"io", "store", "look", "unlink"}
    \/ thr[t].call \in {"write", "ftruncate"} /\ thr[t].pc \in {"allocation", "allocate"}

Directory(t) ==
    /\ directoryLock.writer = t <=> HasDirectory(t) /\ ~ Shared(t)
    /\ t \in directoryLock.readers <=> HasDirectory(t) /\ Shared(t)

Table(t) ==
    /\ openTableLock.writer = t <=> HasTable(t) /\ ~ Shared(t)
    /\ t \in openTableLock.readers <=> HasTable(t) /\ Shared(t)

(* While ftruncate collects them, it holds the first of the descriptors it needs. *)
Descriptor(t) ==
    \A fd \in FDs :
        IF thr[t].pc = "lockSlots"
        THEN descriptorLocks[fd] = t =>
                openFileDescTable[fd] = thr[t].file /\ \A other \in ToLock(t) : fd < other
        ELSE descriptorLocks[fd] = t <=> HasDescriptor(t, fd)

File(t) ==
    \A f \in Files : fileLock[f] = t <=> HasFile(t) /\ thr[t].file = f

Allocation(t) == allocationLock = t <=> thr[t].pc = "allocate"

-----------------------------------------------------------------------------
(* What a thread knows *)

(* The descriptors that refer to an open file, or are about to. *)
Refs(f) ==
    {fd \in FDs : \/ openFileDescTable[fd] = f
                  \/ \E t \in Threads : /\ thr[t].pc \in {"publish", "set"}
                                        /\ thr[t].fd = fd /\ thr[t].file = f}

Pinned(t) ==
    LET me == thr[t]
    IN  /\ me.call \in DescriptorCalls /\ me.file # NULL => openFileDescTable[me.fd] = me.file
        /\ me.call = "ftruncate" /\ me.file # NULL =>
              \E fd \in FDs : openFileDescTable[fd] = me.file
        /\ me.pc \in {"publish", "set"} => openFileDescTable[me.fd] = NULL
        /\ me.call = "close" /\ me.file # NULL =>
              openFiles[me.file] # NULL /\ Refs(me.file) = {}
        /\ me.pc \in {"lockLook", "look", "lockUnlink", "unlink"} /\ me.file # NULL =>
              openFiles[me.file] # NULL /\ openFiles[me.file].slot = me.slot
        /\ me.pc = "look" /\ me.file = NULL => OpenFileOf(me.slot) = {}
        /\ me.pc = "create" => names[me.slot] = NULL
        /\ me.pc = "add" => names[me.slot] # NULL
        /\ me.pc \in {"clear", "allocation", "allocate"} /\ me.call \in {"remove", "rename"} =>
              OpenFileOf(me.slot) = {}

Own(t) ==
    /\ Place(t) /\ Pinned(t)
    /\ Directory(t) /\ Table(t) /\ Descriptor(t) /\ File(t) /\ Allocation(t)

(* A reader-writer lock has no readers beside a writer. *)
Exclusive(lock) == lock.writer # NULL => lock.readers = {}

Tables ==
    /\ \A f \in Files :
          IF openFiles[f] = NULL THEN Refs(f) = {}
          ELSE openFiles[f].refCount = Cardinality(Refs(f))
    /\ \A s \in Slots : \A f \in OpenFileOf(s) : names[s] # NULL /\ OpenFileOf(s) = {f}
    /\ \A s \in Slots : names[s] # NULL => s <= nslots

IInv ==
    /\ TypeOK
    /\ Exclusive(directoryLock) /\ Exclusive(openTableLock)
    /\ Tables
    /\ \A t \in Threads : Own(t)

-----------------------------------------------------------------------------
(* What the others see of a step *)

(* A step of thread t leaves the other threads where they are and what they hold. *)
HoldersKept(u) ==
    /\ thr'[u] = thr[u]
    /\ directoryLock'.writer = u <=> directoryLock.writer = u
    /\ u \in directoryLock'.readers <=> u \in directoryLock.readers
    /\ openTableLock'.writer = u <=> openTableLock.writer = u
    /\ u \in openTableLock'.readers <=> u \in openTableLock.readers
    /\ \A fd \in FDs : descriptorLocks'[fd] = u <=> descriptorLocks[fd] = u
    /\ \A f \in Files : fileLock'[f] = u <=> fileLock[f] = u
    /\ allocationLock' = u <=> allocationLock = u

(* The thread is about to publish the same descriptor as before, or none. *)
SamePublished(t) ==
    \/ thr[t].pc \notin {"publish", "set"} /\ thr'[t].pc \notin {"publish", "set"}
    \/ /\ thr[t].pc \in {"publish", "set"} /\ thr'[t].pc \in {"publish", "set"}
       /\ thr'[t].fd = thr[t].fd /\ thr'[t].file = thr[t].file

(* It changes the tables only while it holds them, and a descriptor only while it holds *)
(* that one too; the directory does not shrink.                                         *)
TablesGuarded(t) ==
    \/ UNCHANGED tables /\ SamePublished(t)
    \/ /\ HasTable(t) /\ ~ Shared(t)
       /\ \A fd \in FDs : openFileDescTable'[fd] # openFileDescTable[fd] => descriptorLocks[fd] = t
       /\ nslots' \in Nat /\ nslots <= nslots'

(* A thread that has the table for writing has it alone. *)
LEMMA TableAlone ==
  ASSUME IInv, NEW t \in Threads, HasTable(t), ~ Shared(t), NEW u \in Threads \ {t}
  PROVE  ~ HasTable(u)
<1>1. openTableLock.writer = t /\ openTableLock.readers = {}
  BY LocksAssumption DEF IInv, Own, Table, Exclusive
<1> QED BY <1>1 DEF IInv, Own, Table

LEMMA DirectoryAlone ==
  ASSUME IInv, NEW t \in Threads, HasDirectory(t), ~ Shared(t), NEW u \in Threads \ {t}
  PROVE  ~ HasDirectory(u)
<1>1. directoryLock.writer = t /\ directoryLock.readers = {}
  BY LocksAssumption DEF IInv, Own, Directory, Exclusive
<1> QED BY <1>1 DEF IInv, Own, Directory

(* The places at which a thread may be that does not have the table. *)
LEMMA WithoutTable ==
  ASSUME NEW t \in Threads, Place(t), ~ HasTable(t)
  PROVE  \/ thr[t].pc \in {"idle", "directory", "table"} /\ thr[t].file = NULL
         \/ /\ thr[t].call \in DescriptorCalls
            /\ thr[t].pc \in {"descriptor", "load", "getpos", "lockIO", "io", "allocation",
                              "allocate", "store"}
            /\ thr[t].fd \in FDs
BY DEF Place, HasTable, DirectoryCalls, TableCalls, DescriptorCalls

LEMMA PlaceKept ==
  ASSUME IInv, NEW u \in Threads, thr'[u] = thr[u], nslots' \in Nat, nslots <= nslots'
  PROVE  Place(u)'
<1>1. nslots \in Nat BY LocksAssumption DEF IInv, TypeOK, Slots
<1> DEFINE slot == thr[u].slot
<1>2. slot \in 1 .. nslots => slot \in 1 .. nslots' BY <1>1
<1>3. slot \in 1 .. nslots + 1 => slot \in 1 .. nslots' + 1 BY <1>1
<1> DEFINE old == thr[u].old
<1>4. old \in 1 .. nslots => old \in 1 .. nslots' BY <1>1
<1>5. Place(u) BY DEF IInv, Own
<1> QED BY <1>2, <1>3, <1>4, <1>5 DEF Place

LEMMA RefsKept ==
  ASSUME NEW t \in Threads, \A u \in Threads \ {t} : thr'[u] = thr[u], SamePublished(t),
         UNCHANGED openFileDescTable, NEW f
  PROVE  Refs(f)' = Refs(f)
<1>1. \A u \in Threads, fd \in FDs :
        thr'[u].pc \in {"publish", "set"} /\ thr'[u].fd = fd /\ thr'[u].file = f
        <=> thr[u].pc \in {"publish", "set"} /\ thr[u].fd = fd /\ thr[u].file = f
  BY DEF SamePublished
<1> QED BY <1>1 DEF Refs

(* So the other threads still hold and know what they did. *)
LEMMA Elsewhere ==
  ASSUME IInv, NEW t \in Threads, TablesGuarded(t), \A v \in Threads \ {t} : HoldersKept(v),
         NEW u \in Threads \ {t}
  PROVE  Own(u)'
<1>1. Own(u) /\ thr'[u] = thr[u] BY DEF IInv, HoldersKept
<1>2. HasDirectory(u)' = HasDirectory(u) /\ HasTable(u)' = HasTable(u) /\ Shared(u)' = Shared(u)
      /\ HasFile(u)' = HasFile(u)
  BY <1>1 DEF HasDirectory, HasTable, Shared, HasFile
<1>3. Directory(u)' /\ Table(u)' /\ File(u)' /\ Allocation(u)'
  BY <1>1, <1>2 DEF HoldersKept, Own, Directory, Table, File, Allocation
<1>4. CASE UNCHANGED tables /\ SamePublished(t)
  <2>1. Place(u)'
    <3>1. nslots \in Nat BY LocksAssumption DEF IInv, TypeOK, Slots
    <3>2. nslots' \in Nat /\ nslots <= nslots' BY <1>4, <3>1 DEF tables
    <3> QED BY <1>1, <3>2, PlaceKept
  <2>2. Descriptor(u)'
    <3>1. HoldersKept(u) OBVIOUS
    <3>2. UNCHANGED openFileDescTable BY <1>4 DEF tables
    <3>3. ASSUME NEW fd \in FDs PROVE HasDescriptor(u, fd)' = HasDescriptor(u, fd)
      BY <1>1, <3>2 DEF HasDescriptor
    <3>4. \A fd \in FDs : fd \in ToLock(u)' <=> fd \in ToLock(u)
      BY <1>1, <3>1, <3>2 DEF HoldersKept, ToLock
    <3>5. ToLock(u)' = ToLock(u) BY <3>4 DEF ToLock
    <3> QED BY <1>1, <3>1, <3>2, <3>3, <3>5 DEF Own, Descriptor, HoldersKept
  <2>3. Pinned(u)'
    <3>1. Refs(thr[u].file)' = Refs(thr[u].file)
      BY <1>4, RefsKept DEF tables, HoldersKept
    <3>2. OpenFileOf(thr[u].slot)' = OpenFileOf(thr[u].slot)
      BY <1>1, <1>4 DEF tables, OpenFileOf
    <3> QED BY <1>1, <1>4, <3>1, <3>2 DEF Own, Pinned, tables
  <2> QED BY <1>3, <2>1, <2>2, <2>3 DEF Own
<1>5. CASE ~ (UNCHANGED tables /\ SamePublished(t))
  <2>1. HasTable(t) /\ ~ Shared(t) /\ nslots' \in Nat /\ nslots <= nslots'
        /\ \A fd \in FDs : openFileDescTable'[fd] # openFileDescTable[fd] => descriptorLocks[fd] = t
    BY <1>5 DEF TablesGuarded
  <2>2. ~ HasTable(u) BY <2>1, TableAlone
  <2>3. \/ thr[u].pc \in {"idle", "directory", "table"} /\ thr[u].file = NULL
        \/ /\ thr[u].call \in DescriptorCalls
           /\ thr[u].pc \in {"descriptor", "load", "getpos", "lockIO", "io", "allocation",
                              "allocate", "store"}
           /\ thr[u].fd \in FDs
    BY <1>1, <2>2, WithoutTable DEF Own
  <2>4. Place(u)' BY <1>1, <2>1, PlaceKept
  <2>5. Descriptor(u)'
    <3>1. HoldersKept(u) OBVIOUS
    <3>2. ASSUME NEW fd \in FDs PROVE HasDescriptor(u, fd)' = HasDescriptor(u, fd)
      BY <1>1, <2>3 DEF HasDescriptor, DescriptorCalls
    <3> QED BY <1>1, <2>3, <3>1, <3>2 DEF Own, Descriptor, HoldersKept
  <2>6. Pinned(u)'
    <3>1. thr[u].call \in DescriptorCalls /\ thr[u].file # NULL =>
            openFileDescTable'[thr[u].fd] = thr[u].file
      <4> SUFFICES ASSUME thr[u].call \in DescriptorCalls, thr[u].file # NULL
                   PROVE  openFileDescTable'[thr[u].fd] = thr[u].file
        OBVIOUS
      <4>1. openFileDescTable[thr[u].fd] = thr[u].file /\ thr[u].fd \in FDs
            /\ thr[u].pc \notin {"idle", "descriptor", "lockSlots"}
        BY <1>1, <2>3 DEF Own, Pinned, Place, DescriptorCalls
      <4>2. descriptorLocks[thr[u].fd] = u
        BY <1>1, <4>1 DEF Own, Descriptor, HasDescriptor
      <4> QED BY <2>1, <4>1, <4>2
    <3> QED BY <1>1, <2>3, <3>1 DEF Pinned, DescriptorCalls
  <2> QED BY <1>3, <2>4, <2>5, <2>6 DEF Own
<1> QED BY <1>4, <1>5

LEMMA TablesKept ==
  ASSUME IInv, NEW t \in Threads, \A u \in Threads \ {t} : thr'[u] = thr[u], SamePublished(t),
         UNCHANGED tables
  PROVE  Tables'
<1>1. \A f \in Files : Refs(f)' = Refs(f) BY RefsKept DEF tables
<1>2. \A s : OpenFileOf(s)' = OpenFileOf(s) BY DEF OpenFileOf, tables
<1>3. Tables BY DEF IInv
<1> QED BY <1>1, <1>2, <1>3 DEF Tables, tables

(* What remains to be shown of a step that leaves the tables alone, ... *)
LEMMA QuietStep ==
  ASSUME IInv, NEW t \in Threads, UNCHANGED tables, SamePublished(t),
         \A u \in Threads \ {t} : HoldersKept(u),
         TypeOK', Exclusive(directoryLock)', Exclusive(openTableLock)', Own(t)'
  PROVE  IInv'
<1>1. Tables' BY TablesKept DEF HoldersKept
<1>2. \A u \in Threads \ {t} : Own(u)' BY Elsewhere DEF TablesGuarded
<1> QED BY <1>1, <1>2 DEF IInv

(* ... and of one that changes them. *)
LEMMA TableStep ==
  ASSUME IInv, NEW t \in Threads, HasTable(t), ~ Shared(t),
         \A fd \in FDs : openFileDescTable'[fd] # openFileDescTable[fd] => descriptorLocks[fd] = t,
         nslots <= nslots', \A u \in Threads \ {t} : HoldersKept(u),
         TypeOK', Exclusive(directoryLock)', Exclusive(openTableLock)', Tables', Own(t)'
  PROVE  IInv'
<1>1. nslots' \in Nat BY LocksAssumption DEF TypeOK, Slots
<1>2. \A u \in Threads \ {t} : Own(u)' BY <1>1, Elsewhere DEF TablesGuarded
<1> QED BY <1>2 DEF IInv

-----------------------------------------------------------------------------
(* Each step keeps the invariant *)

(* The new frame of a thread that only goes on. *)
LEMMA GotoFrame ==
  ASSUME thr \in [Threads -> Frame], NEW t \in Threads, NEW p \in PCs, Goto(t, p)
  PROVE  /\ thr' \in [Threads -> Frame]
         /\ \A u \in Threads \ {t} : thr'[u] = thr[u]
         /\ thr'[t].pc = p /\ thr'[t].call = thr[t].call
         /\ IF p = "return" THEN thr'[t].file = NULL
            ELSE /\ thr'[t].fd = thr[t].fd /\ thr'[t].name = thr[t].name
                 /\ thr'[t].new = thr[t].new /\ thr'[t].file = thr[t].file
                 /\ thr'[t].slot = thr[t].slot /\ thr'[t].old = thr[t].old
<1>1. thr[t] \in Frame OBVIOUS
<1>2. CASE p = "return"
  <2>1. thr'[t] = [Idle EXCEPT !.pc = p, !.call = thr[t].call] BY <1>2 DEF Goto
  <2>2. thr'[t] \in Frame BY <1>1, <2>1 DEF Idle, Frame
  <2>3. thr'[t].pc = p /\ thr'[t].call = thr[t].call /\ thr'[t].file = NULL
    BY <1>1, <2>1 DEF Idle, Frame
  <2> QED BY <1>2, <2>2, <2>3 DEF Goto
<1>3. CASE p # "return"
  <2>1. thr'[t] = [thr[t] EXCEPT !.pc = p] BY <1>3 DEF Goto
  <2>2. thr'[t] \in Frame BY <1>1, <2>1 DEF Frame
  <2>3. /\ thr'[t].pc = p /\ thr'[t].call = thr[t].call
        /\ thr'[t].fd = thr[t].fd /\ thr'[t].name = thr[t].name
        /\ thr'[t].new = thr[t].new /\ thr'[t].file = thr[t].file
        /\ thr'[t].slot = thr[t].slot /\ thr'[t].old = thr[t].old
    BY <1>1, <2>1 DEF Frame
  <2> QED BY <1>3, <2>2, <2>3 DEF Goto
<1> QED BY <1>2, <1>3

(* The new frame of a thread that begins a call or returns from one. *)
LEMMA FreshFrame ==
  ASSUME thr \in [Threads -> Frame], NEW t \in Threads, NEW x \in Frame,
         thr' = [thr EXCEPT ![t] = x]
  PROVE  thr' \in [Threads -> Frame] /\ thr'[t] = x /\ \A u \in Threads \ {t} : thr'[u] = thr[u]
OBVIOUS

LEMMA CallKeeps ==
  ASSUME IInv, NEW t \in Threads, Call(t)
  PROVE  IInv'
<1> USE DEF locks, tables
<1>1. thr \in [Threads -> Frame] /\ Own(t) /\ thr[t].pc = "idle" BY DEF IInv, TypeOK, Call
<1>2. ASSUME NEW x \in Frame, thr' = [thr EXCEPT ![t] = x], x.file = NULL,
             \/ x.pc = "directory" /\ x.call \in DirectoryCalls
             \/ x.pc = "table" /\ x.call \in TableCalls
             \/ x.pc = "descriptor" /\ x.call \in DescriptorCalls /\ x.fd \in FDs
      PROVE  /\ thr' \in [Threads -> Frame] /\ \A u \in Threads \ {t} : thr'[u] = thr[u]
             /\ thr'[t].file = NULL
             /\ \/ thr'[t].pc = "directory" /\ thr'[t].call \in DirectoryCalls
                \/ thr'[t].pc = "table" /\ thr'[t].call \in TableCalls
                \/ thr'[t].pc = "descriptor" /\ thr'[t].call \in DescriptorCalls
                   /\ thr'[t].fd \in FDs
  BY <1>1, <1>2
<1>3. /\ thr' \in [Threads -> Frame] /\ \A u \in Threads \ {t} : thr'[u] = thr[u]
      /\ thr'[t].file = NULL
      /\ \/ thr'[t].pc = "directory" /\ thr'[t].call \in DirectoryCalls
         \/ thr'[t].pc = "table" /\ thr'[t].call \in TableCalls
         \/ thr'[t].pc = "descriptor" /\ thr'[t].call \in DescriptorCalls /\ thr'[t].fd \in FDs
  <2>1. CASE \E call \in DirectoryCalls :
                thr' = [thr EXCEPT ![t] = [Idle EXCEPT !.call = call, !.pc = "directory"]]
    <3>1. PICK call \in DirectoryCalls :
            thr' = [thr EXCEPT ![t] = [Idle EXCEPT !.call = call, !.pc = "directory"]]
      BY <2>1
    <3> DEFINE x == [Idle EXCEPT !.call = call, !.pc = "directory"]
    <3>2. x \in Frame /\ x.file = NULL /\ x.pc = "directory" /\ x.call \in DirectoryCalls
      BY DEF Idle, Frame, Calls, PCs
    <3>3. thr' = [thr EXCEPT ![t] = x] BY <3>1
    <3> HIDE DEF x
    <3> QED BY <1>2, <3>2, <3>3
  <2>2. CASE \E call \in TableCalls :
                thr' = [thr EXCEPT ![t] = [Idle EXCEPT !.call = call, !.pc = "table"]]
    <3>1. PICK call \in TableCalls :
            thr' = [thr EXCEPT ![t] = [Idle EXCEPT !.call = call, !.pc = "table"]]
      BY <2>2
    <3> DEFINE x == [Idle EXCEPT !.call = call, !.pc = "table"]
    <3>2. x \in Frame /\ x.file = NULL /\ x.pc = "table" /\ x.call \in TableCalls
      BY DEF Idle, Frame, Calls, PCs
    <3>3. thr' = [thr EXCEPT ![t] = x] BY <3>1
    <3> HIDE DEF x
    <3> QED BY <1>2, <3>2, <3>3
  <2>3. CASE \E call \in DescriptorCalls, fd \in FDs :
            thr' = [thr EXCEPT ![t] = [Idle EXCEPT !.call = call, !.fd = fd, !.pc = "descriptor"]]
    <3>1. PICK call \in DescriptorCalls, fd \in FDs :
            thr' = [thr EXCEPT ![t] = [Idle EXCEPT !.call = call, !.fd = fd, !.pc = "descriptor"]]
      BY <2>3
    <3> DEFINE x == [Idle EXCEPT !.call = call, !.fd = fd, !.pc = "descriptor"]
    <3>2. x \in Frame /\ x.file = NULL /\ x.pc = "descriptor" /\ x.call \in DescriptorCalls
          /\ x.fd \in FDs
      BY DEF Idle, Frame, Calls, PCs
    <3>3. thr' = [thr EXCEPT ![t] = x] BY <3>1
    <3> HIDE DEF x
    <3> QED BY <1>2, <3>2, <3>3
  <2> QED BY <2>1, <2>2, <2>3 DEF Call
<1>4. SamePublished(t) BY <1>1, <1>3 DEF SamePublished
<1>5. \A u \in Threads \ {t} : HoldersKept(u) BY <1>3 DEF HoldersKept, Call
<1>6. TypeOK' BY <1>1, <1>3 DEF IInv, TypeOK, Call
<1>7. Own(t)'
  <2>1. Place(t)' BY <1>3 DEF Place
  <2>2. Pinned(t)' BY <1>3 DEF Pinned
  <2>3. Directory(t)' /\ Table(t)' /\ File(t)' /\ Allocation(t)'
    BY <1>1, <1>3 DEF Call, Own, Directory, Table, File, Allocation, HasDirectory, HasTable, HasFile,
       Place, DirectoryCalls, DescriptorCalls, TableCalls
  <2>4. Descriptor(t)'
    BY <1>1, <1>3 DEF Call, Own, Descriptor, HasDescriptor, Place, DescriptorCalls, TableCalls,
                 DirectoryCalls
  <2> QED BY <2>1, <2>2, <2>3, <2>4 DEF Own
<1> QED BY <1>4, <1>5, <1>6, <1>7, QuietStep DEF IInv, Exclusive, Call

LEMMA LockDirectoryKeeps ==
  ASSUME IInv, NEW t \in Threads, LockDirectory(t)
  PROVE  IInv'
<1> USE DEF locks, tables
<1>1. /\ thr \in [Threads -> Frame] /\ Own(t) /\ thr[t].pc = "directory"
      /\ thr[t].call \in DirectoryCalls /\ thr[t].file = NULL
  BY DEF IInv, TypeOK, LockDirectory, Own, Place
<1>2. /\ thr' \in [Threads -> Frame] /\ \A u \in Threads \ {t} : thr'[u] = thr[u]
      /\ thr'[t].pc = "table" /\ thr'[t].call = thr[t].call /\ thr'[t].file = NULL
  BY <1>1, GotoFrame DEF LockDirectory, PCs
<1>3. SamePublished(t) BY <1>1, <1>2 DEF SamePublished
<1>4. directoryLock' \in Lock /\ Exclusive(directoryLock)' /\ Directory(t)'
      /\ \A u \in Threads \ {t} : /\ directoryLock'.writer = u <=> directoryLock.writer = u
                                  /\ u \in directoryLock'.readers <=> u \in directoryLock.readers
  BY <1>1, <1>2, LocksAssumption DEF LockDirectory, IInv, TypeOK, Lock, Acquired, MayAcquire,
     Exclusive, Directory, HasDirectory, Shared, Own
<1>5. \A u \in Threads \ {t} : HoldersKept(u) BY <1>2, <1>4 DEF HoldersKept, LockDirectory
<1>6. TypeOK' /\ Exclusive(openTableLock)'
  BY <1>2, <1>4 DEF IInv, TypeOK, LockDirectory, Exclusive
<1>7. Own(t)'
  <2>1. Place(t)' /\ Pinned(t)' BY <1>1, <1>2 DEF Place, Pinned, DirectoryCalls, DescriptorCalls
  <2>2. Table(t)' /\ File(t)' /\ Allocation(t)' /\ Descriptor(t)'
    BY <1>1, <1>2 DEF LockDirectory, Own, Table, File, Allocation, Descriptor, HasDescriptor,
       HasTable, HasFile, DirectoryCalls, DescriptorCalls, TableCalls
  <2> QED BY <1>4, <2>1, <2>2 DEF Own
<1> QED BY <1>3, <1>4, <1>5, <1>6, <1>7, QuietStep DEF LockDirectory

LEMMA LockTableKeeps ==
  ASSUME IInv, NEW t \in Threads, LockTable(t)
  PROVE  IInv'
<1> USE DEF locks, tables
<1> DEFINE call == thr[t].call
<1>1. /\ thr \in [Threads -> Frame] /\ Own(t) /\ thr[t].pc = "table"
      /\ call \in DirectoryCalls \cup TableCalls /\ thr[t].file = NULL
  BY DEF IInv, TypeOK, LockTable, Own, Place
<1>2. /\ thr' \in [Threads -> Frame] /\ \A u \in Threads \ {t} : thr'[u] = thr[u]
      /\ thr'[t].call = call /\ thr'[t].file = NULL
      /\ \/ /\ call \in DirectoryCalls /\ thr'[t].pc = "find"
            /\ thr'[t].slot = 1 /\ thr'[t].old = NULL
            /\ call \in {"open", "remove"} => thr'[t].name \in Names
            /\ call = "rename" => thr'[t].new \in Names
         \/ call = "close" /\ thr'[t].pc = "descriptor" /\ thr'[t].fd \in FDs
         \/ call = "ftruncate" /\ thr'[t].pc = "collect" /\ thr'[t].fd \in FDs
         \/ call = "has_open" /\ thr'[t].pc = "count"
  <2>1. PICK fd \in IF call \in {"close", "ftruncate"} THEN FDs ELSE {NULL},
             name \in IF call \in {"open", "remove", "rename"} THEN Names ELSE {NULL},
             new \in IF call = "rename" THEN Names ELSE {NULL} :
                thr' = [thr EXCEPT ![t] =
                    [Idle EXCEPT !.call = call, !.fd = fd, !.name = name, !.new = new,
                        !.slot = IF call \in DirectoryCalls THEN 1 ELSE NULL,
                        !.pc = IF call \in DirectoryCalls THEN "find"
                               ELSE IF call = "close" THEN "descriptor"
                               ELSE IF call = "ftruncate" THEN "collect" ELSE "count"]]
    BY DEF LockTable
  <2> DEFINE x == thr'[t]
  <2>2. x = [Idle EXCEPT !.call = call, !.fd = fd, !.name = name, !.new = new,
                !.slot = IF call \in DirectoryCalls THEN 1 ELSE NULL,
                !.pc = IF call \in DirectoryCalls THEN "find"
                       ELSE IF call = "close" THEN "descriptor"
                       ELSE IF call = "ftruncate" THEN "collect" ELSE "count"]
    BY <1>1, <2>1
  <2>3. /\ x \in Frame /\ x.call = call /\ x.file = NULL /\ x.fd = fd /\ x.name = name /\ x.new = new
        /\ x.old = NULL
        /\ x.slot = IF call \in DirectoryCalls THEN 1 ELSE NULL
        /\ x.pc = IF call \in DirectoryCalls THEN "find"
                  ELSE IF call = "close" THEN "descriptor"
                  ELSE IF call = "ftruncate" THEN "collect" ELSE "count"
    <3> HIDE DEF call, x
    <3> QED BY <1>1, <2>2, ZenonT(60) DEF Idle, Frame, PCs, Calls
  <2>4. thr' \in [Threads -> Frame] /\ \A u \in Threads \ {t} : thr'[u] = thr[u]
    BY <1>1, <2>1, <2>3
  <2> HIDE DEF call
  <2> QED BY <1>1, <2>3, <2>4 DEF DirectoryCalls, TableCalls
<1>3. SamePublished(t) BY <1>1, <1>2 DEF SamePublished
<1>4. openTableLock' \in Lock /\ Exclusive(openTableLock)' /\ Table(t)'
      /\ \A u \in Threads \ {t} : /\ openTableLock'.writer = u <=> openTableLock.writer = u
                                  /\ u \in openTableLock'.readers <=> u \in openTableLock.readers
  BY <1>1, <1>2, LocksAssumption DEF LockTable, IInv, TypeOK, Lock, Acquired, MayAcquire,
     Exclusive, Table, HasTable, Shared, Own
<1>5. \A u \in Threads \ {t} : HoldersKept(u) BY <1>2, <1>4 DEF HoldersKept, LockTable
<1>6. TypeOK' /\ Exclusive(directoryLock)'
  BY <1>2, <1>4 DEF IInv, TypeOK, LockTable, Exclusive
<1>7. Own(t)'
  <2>1. nslots \in Nat /\ nslots' = nslots BY LocksAssumption DEF IInv, TypeOK, Slots, LockTable
  <2>2. Place(t)' /\ Pinned(t)'
    BY <1>1, <1>2, <2>1 DEF Place, Pinned, DirectoryCalls, DescriptorCalls
  <2>3. Directory(t)' /\ File(t)' /\ Allocation(t)' /\ Descriptor(t)'
    BY <1>1, <1>2 DEF LockTable, Own, Directory, File, Allocation, Descriptor, HasDescriptor,
       HasDirectory, HasFile, Shared, DirectoryCalls, DescriptorCalls, TableCalls
  <2> QED BY <1>4, <2>2, <2>3 DEF Own
<1> QED BY <1>3, <1>4, <1>5, <1>6, <1>7, QuietStep DEF LockTable

LEMMA ReturnKeeps ==
  ASSUME IInv, NEW t \in Threads, Return(t)
  PROVE  IInv'
<1> USE DEF locks, tables
<1>1. /\ thr \in [Threads -> Frame] /\ Own(t) /\ thr[t].pc = "return"
      /\ thr[t].call \in DirectoryCalls \cup TableCalls
  BY DEF IInv, TypeOK, Return, Own, Place
<1>2. /\ thr' \in [Threads -> Frame] /\ \A u \in Threads \ {t} : thr'[u] = thr[u]
      /\ thr'[t].pc = "idle" /\ thr'[t].call = NULL /\ thr'[t].file = NULL
  <2>1. Idle \in Frame BY DEF Idle, Frame, PCs
  <2> QED BY <1>1, <2>1 DEF Return, Idle
<1>3. SamePublished(t) BY <1>1, <1>2 DEF SamePublished
<1>4. openTableLock' \in Lock /\ Exclusive(openTableLock)' /\ Table(t)'
      /\ \A u \in Threads \ {t} : /\ openTableLock'.writer = u <=> openTableLock.writer = u
                                  /\ u \in openTableLock'.readers <=> u \in openTableLock.readers
  BY <1>1, <1>2, LocksAssumption DEF Return, IInv, TypeOK, Lock, Released,
     Exclusive, Table, HasTable, Shared, Own
<1>5. directoryLock' \in Lock /\ Exclusive(directoryLock)' /\ Directory(t)'
      /\ \A u \in Threads \ {t} : /\ directoryLock'.writer = u <=> directoryLock.writer = u
                                  /\ u \in directoryLock'.readers <=> u \in directoryLock.readers
  BY <1>1, <1>2, LocksAssumption DEF Return, IInv, TypeOK, Lock, Released,
     Exclusive, Directory, HasDirectory, Shared, Own
<1>6. \A u \in Threads \ {t} : HoldersKept(u) BY <1>2, <1>4, <1>5 DEF HoldersKept, Return
<1>7. TypeOK' BY <1>2, <1>4, <1>5 DEF IInv, TypeOK, Return
<1>8. Own(t)'
  <2>1. Place(t)' /\ Pinned(t)' BY <1>1, <1>2 DEF Place, Pinned
  <2>2. File(t)' /\ Allocation(t)' /\ Descriptor(t)'
    BY <1>1, <1>2 DEF Return, Own, File, Allocation, Descriptor, HasDescriptor,
       HasFile, DirectoryCalls, DescriptorCalls, TableCalls
  <2> QED BY <1>4, <1>5, <2>1, <2>2 DEF Own
<1> QED BY <1>3, <1>4, <1>5, <1>6, <1>7, <1>8, QuietStep DEF Return

LEMMA CountKeeps ==
  ASSUME IInv, NEW t \in Threads, Count(t)
  PROVE  IInv'
<1> USE DEF locks, tables
<1>1. thr \in [Threads -> Frame] /\ Own(t) /\ thr[t].pc = "count" /\ thr[t].call = "has_open"
  BY DEF IInv, TypeOK, Count, Own, Place
<1>2. /\ thr' \in [Threads -> Frame] /\ \A u \in Threads \ {t} : thr'[u] = thr[u]
      /\ thr'[t].pc = "return" /\ thr'[t].call = "has_open" /\ thr'[t].file = NULL
  BY <1>1, GotoFrame DEF Count, PCs
<1>3. SamePublished(t) BY <1>1, <1>2 DEF SamePublished
<1>4. \A u \in Threads \ {t} : HoldersKept(u) BY <1>2 DEF HoldersKept, Count
<1>5. TypeOK' /\ Exclusive(directoryLock)' /\ Exclusive(openTableLock)'
  BY <1>2 DEF IInv, TypeOK, Count, Exclusive
<1>6. Own(t)'
  <2>1. Place(t)' /\ Pinned(t)' BY <1>1, <1>2 DEF Place, Pinned, TableCalls, DescriptorCalls
  <2>2. Directory(t)' /\ Table(t)' /\ File(t)' /\ Allocation(t)' /\ Descriptor(t)'
    BY <1>1, <1>2 DEF Count, Own, Directory, Table, File, Allocation, Descriptor, HasDescriptor,
       HasDirectory, HasTable, HasFile, Shared, DirectoryCalls, DescriptorCalls, TableCalls
  <2> QED BY <2>1, <2>2 DEF Own
<1> QED BY <1>3, <1>4, <1>5, <1>6, QuietStep DEF Count

LEMMA LockAllocationKeeps ==
  ASSUME IInv, NEW t \in Threads, LockAllocation(t)
  PROVE  IInv'
<1> USE DEF locks, tables
<1>1. thr \in [Threads -> Frame] /\ Own(t) /\ thr[t].pc = "allocation"
  BY DEF IInv, TypeOK, LockAllocation
<1>2. /\ thr' \in [Threads -> Frame] /\ \A u \in Threads \ {t} : thr'[u] = thr[u]
      /\ thr'[t].pc = "allocate" /\ thr'[t].call = thr[t].call
      /\ thr'[t].fd = thr[t].fd /\ thr'[t].name = thr[t].name
      /\ thr'[t].new = thr[t].new /\ thr'[t].file = thr[t].file
      /\ thr'[t].slot = thr[t].slot /\ thr'[t].old = thr[t].old
  BY <1>1, GotoFrame DEF LockAllocation, PCs
<1>3. SamePublished(t) BY <1>1, <1>2 DEF SamePublished
<1>4. \A u \in Threads \ {t} : HoldersKept(u)
  BY <1>2, LocksAssumption DEF HoldersKept, LockAllocation
<1>5. TypeOK' /\ Exclusive(directoryLock)' /\ Exclusive(openTableLock)'
  BY <1>2 DEF IInv, TypeOK, LockAllocation, Exclusive
<1>6. Own(t)'
  <2>1. Place(t)' BY <1>1, <1>2 DEF Own, Place, LockAllocation
  <2>2. Pinned(t)'
    <3>1. Refs(thr[t].file)' = Refs(thr[t].file) BY <1>2, <1>3, RefsKept DEF LockAllocation
    <3> QED BY <1>1, <1>2, <3>1 DEF Own, Pinned, OpenFileOf, LockAllocation
  <2>3. Directory(t)' /\ Table(t)' /\ File(t)' /\ Allocation(t)'
    BY <1>1, <1>2 DEF LockAllocation, Own, Directory, Table, File, Allocation,
       HasDirectory, HasTable, HasFile, Shared
  <2>4. Descriptor(t)'
    BY <1>1, <1>2 DEF LockAllocation, Own, Descriptor, HasDescriptor
  <2> QED BY <2>1, <2>2, <2>3, <2>4 DEF Own
<1> QED BY <1>3, <1>4, <1>5, <1>6, QuietStep DEF LockAllocation

LEMMA AllocateKeeps ==
  ASSUME IInv, NEW t \in Threads, Allocate(t)
  PROVE  IInv'
<1> USE DEF locks, tables
<1>1. /\ thr \in [Threads -> Frame] /\ Own(t) /\ thr[t].pc = "allocate"
      /\ thr[t].call \in {"write", "ftruncate", "close", "open", "remove", "rename"}
  BY DEF IInv, TypeOK, Allocate, Own, Place
<1> DEFINE p == IF thr[t].call \in {"write", "ftruncate"} THEN "store"
                ELSE IF thr[t].call = "close" THEN "destroy"
                ELSE IF thr[t].call = "open" THEN "expand" ELSE "clear"
<1>2. /\ thr' \in [Threads -> Frame] /\ \A u \in Threads \ {t} : thr'[u] = thr[u]
      /\ thr'[t].pc = p /\ thr'[t].call = thr[t].call
      /\ thr'[t].fd = thr[t].fd /\ thr'[t].name = thr[t].name
      /\ thr'[t].new = thr[t].new /\ thr'[t].file = thr[t].file
      /\ thr'[t].slot = thr[t].slot /\ thr'[t].old = thr[t].old
  <2>1. p \in PCs /\ p # "return" BY DEF PCs
  <2>2. Goto(t, p) BY DEF Allocate
  <2> HIDE DEF p
  <2> QED BY <1>1, <2>1, <2>2, GotoFrame
<1>3. SamePublished(t) BY <1>1, <1>2 DEF SamePublished
<1>4. \A u \in Threads \ {t} : HoldersKept(u)
  BY <1>1, <1>2, LocksAssumption DEF HoldersKept, Allocate, Own, Allocation
<1>5. TypeOK' /\ Exclusive(directoryLock)' /\ Exclusive(openTableLock)'
  BY <1>2 DEF IInv, TypeOK, Allocate, Exclusive
<1>6. Own(t)'
  <2>1. Place(t)' BY <1>1, <1>2 DEF Own, Place, Allocate
  <2>2. Pinned(t)'
    <3>1. Refs(thr[t].file)' = Refs(thr[t].file) BY <1>2, <1>3, RefsKept DEF Allocate
    <3> QED BY <1>1, <1>2, <3>1 DEF Own, Pinned, OpenFileOf, Allocate
  <2>3. Directory(t)' /\ Table(t)' /\ File(t)' /\ Allocation(t)'
    BY <1>1, <1>2, LocksAssumption DEF Allocate, Own, Directory, Table, File, Allocation,
       HasDirectory, HasTable, HasFile, Shared, DirectoryCalls, TableCalls
  <2>4. Descriptor(t)'
    BY <1>1, <1>2 DEF Allocate, Own, Descriptor, HasDescriptor, DescriptorCalls
  <2> QED BY <2>1, <2>2, <2>3, <2>4 DEF Own
<1> QED BY <1>3, <1>4, <1>5, <1>6, QuietStep DEF Allocate

LEMMA LockDescriptorKeeps ==
  ASSUME IInv, NEW t \in Threads, LockDescriptor(t)
  PROVE  IInv'
<1> USE DEF locks, tables
<1>1. /\ thr \in [Threads -> Frame] /\ Own(t) /\ thr[t].pc = "descriptor" /\ thr[t].file = NULL
      /\ thr[t].call \in DescriptorCalls \cup {"close"} /\ thr[t].fd \in FDs
      /\ descriptorLocks \in [FDs -> Threads \cup {NULL}]
  BY DEF IInv, TypeOK, LockDescriptor, Own, Place
<1> DEFINE p == IF thr[t].call = "close" THEN "detach" ELSE "load"
<1>2. /\ thr' \in [Threads -> Frame] /\ \A u \in Threads \ {t} : thr'[u] = thr[u]
      /\ thr'[t].pc = p /\ thr'[t].call = thr[t].call
      /\ thr'[t].fd = thr[t].fd /\ thr'[t].file = NULL
  <2>1. p \in PCs /\ p # "return" BY DEF PCs
  <2>2. Goto(t, p) BY DEF LockDescriptor
  <2> HIDE DEF p
  <2> QED BY <1>1, <2>1, <2>2, GotoFrame
<1>3. SamePublished(t) BY <1>1, <1>2 DEF SamePublished
<1>4. \A u \in Threads \ {t} : HoldersKept(u)
  BY <1>1, <1>2, LocksAssumption DEF HoldersKept, LockDescriptor
<1>5. TypeOK' /\ Exclusive(directoryLock)' /\ Exclusive(openTableLock)'
  BY <1>1, <1>2 DEF IInv, TypeOK, LockDescriptor, Exclusive
<1>6. Own(t)'
  <2>1. Place(t)' BY <1>1, <1>2 DEF Place
  <2>2. Pinned(t)' BY <1>1, <1>2 DEF Pinned
  <2>3. Directory(t)' /\ Table(t)' /\ File(t)' /\ Allocation(t)'
    BY <1>1, <1>2 DEF LockDescriptor, Own, Directory, Table, File, Allocation,
       HasDirectory, HasTable, HasFile, Shared, DirectoryCalls, TableCalls, DescriptorCalls
  <2>4. Descriptor(t)'
    BY <1>1, <1>2 DEF LockDescriptor, Own, Descriptor, HasDescriptor, DescriptorCalls
  <2> QED BY <2>1, <2>2, <2>3, <2>4 DEF Own
<1> QED BY <1>3, <1>4, <1>5, <1>6, QuietStep DEF LockDescriptor

LEMMA LoadKeeps ==
  ASSUME IInv, NEW t \in Threads, Load(t)
  PROVE  IInv'
<1> USE DEF locks, tables
<1> DEFINE fd == thr[t].fd
<1>1. /\ thr \in [Threads -> Frame] /\ Own(t) /\ thr[t].pc = "load" /\ thr[t].file = NULL
      /\ thr[t].call \in DescriptorCalls /\ fd \in FDs
      /\ descriptorLocks \in [FDs -> Threads \cup {NULL}]
      /\ openFileDescTable[fd] \in Files \cup {NULL}
  BY DEF IInv, TypeOK, Load, Own, Place
<1>2. /\ thr' \in [Threads -> Frame] /\ \A u \in Threads \ {t} : thr'[u] = thr[u]
      /\ \/ /\ openFileDescTable[fd] = NULL
            /\ descriptorLocks' = [descriptorLocks EXCEPT ![fd] = NULL]
            /\ thr'[t].pc = "idle" /\ thr'[t].call = NULL /\ thr'[t].file = NULL
         \/ /\ openFileDescTable[fd] # NULL /\ UNCHANGED descriptorLocks
            /\ thr'[t].pc = IF thr[t].call = "getpos" THEN "getpos" ELSE "lockIO"
            /\ thr'[t].call = thr[t].call /\ thr'[t].fd = fd
            /\ thr'[t].file = openFileDescTable[fd]
  <2>1. CASE openFileDescTable[fd] = NULL
    <3>1. Idle \in Frame /\ Idle.pc = "idle" /\ Idle.call = NULL /\ Idle.file = NULL
      BY DEF Idle, Frame, PCs
    <3> QED BY <1>1, <2>1, <3>1 DEF Load
  <2>2. CASE openFileDescTable[fd] # NULL
    <3> DEFINE p == IF thr[t].call = "getpos" THEN "getpos" ELSE "lockIO"
    <3>1. /\ thr' = [thr EXCEPT ![t].file = openFileDescTable[fd], ![t].pc = p]
          /\ UNCHANGED descriptorLocks
      BY <2>2 DEF Load
    <3>2. thr'[t] = [thr[t] EXCEPT !.file = openFileDescTable[fd], !.pc = p] BY <1>1, <3>1
    <3>3. /\ thr'[t] \in Frame
          /\ thr'[t].pc = p /\ thr'[t].call = thr[t].call /\ thr'[t].fd = fd
          /\ thr'[t].file = openFileDescTable[fd]
      <4>1. thr[t] \in Frame /\ p \in PCs BY <1>1 DEF PCs
      <4> HIDE DEF p
      <4> QED BY <1>1, <3>2, <4>1 DEF Frame
    <3>4. thr' \in [Threads -> Frame] /\ \A u \in Threads \ {t} : thr'[u] = thr[u]
      BY <1>1, <3>1, <3>3
    <3> QED BY <2>2, <3>1, <3>3, <3>4
  <2> QED BY <2>1, <2>2
<1>3. descriptorLocks[fd] = t
  BY <1>1 DEF Own, Descriptor, HasDescriptor
<1>4. SamePublished(t) BY <1>1, <1>2 DEF SamePublished
<1>5. \A u \in Threads \ {t} : HoldersKept(u)
  BY <1>1, <1>2, <1>3, LocksAssumption DEF HoldersKept, Load
<1>6. TypeOK' /\ Exclusive(directoryLock)' /\ Exclusive(openTableLock)'
  BY <1>1, <1>2 DEF IInv, TypeOK, Load, Exclusive
<1>7. Own(t)'
  <2>1. Place(t)' BY <1>1, <1>2 DEF Place, DescriptorCalls
  <2>2. Pinned(t)' BY <1>1, <1>2 DEF Load, Pinned, DescriptorCalls
  <2>3. Directory(t)' /\ Table(t)' /\ File(t)' /\ Allocation(t)'
    BY <1>1, <1>2 DEF Load, Own, Directory, Table, File, Allocation,
       HasDirectory, HasTable, HasFile, Shared, DirectoryCalls, TableCalls, DescriptorCalls
  <2>4. Descriptor(t)'
    BY <1>1, <1>2, LocksAssumption DEF Load, Own, Descriptor, HasDescriptor, DescriptorCalls
  <2> QED BY <2>1, <2>2, <2>3, <2>4 DEF Own
<1> QED BY <1>4, <1>5, <1>6, <1>7, QuietStep DEF Load

LEMMA GetPosKeeps ==
  ASSUME IInv, NEW t \in Threads, GetPos(t)
  PROVE  IInv'
<1> USE DEF locks, tables
<1> DEFINE fd == thr[t].fd
<1>1. /\ thr \in [Threads -> Frame] /\ Own(t) /\ thr[t].pc = "getpos" /\ thr[t].call = "getpos"
      /\ fd \in FDs /\ descriptorLocks \in [FDs -> Threads \cup {NULL}]
  BY DEF IInv, TypeOK, GetPos, Own, Place
<1>2. /\ thr' \in [Threads -> Frame] /\ \A u \in Threads \ {t} : thr'[u] = thr[u]
      /\ thr'[t].pc = "idle" /\ thr'[t].call = NULL /\ thr'[t].file = NULL
  <2>1. Idle \in Frame /\ Idle.pc = "idle" /\ Idle.call = NULL /\ Idle.file = NULL
    BY DEF Idle, Frame, PCs
  <2> QED BY <1>1, <2>1 DEF GetPos
<1>3. descriptorLocks[fd] = t
  BY <1>1 DEF Own, Descriptor, HasDescriptor, DescriptorCalls
<1>4. SamePublished(t) BY <1>1, <1>2 DEF SamePublished
<1>5. \A u \in Threads \ {t} : HoldersKept(u)
  BY <1>1, <1>2, <1>3, LocksAssumption DEF HoldersKept, GetPos
<1>6. TypeOK' /\ Exclusive(directoryLock)' /\ Exclusive(openTableLock)'
  BY <1>1, <1>2 DEF IInv, TypeOK, GetPos, Exclusive
<1>7. Own(t)'
  <2>1. Place(t)' /\ Pinned(t)' BY <1>2 DEF Place, Pinned
  <2>2. Directory(t)' /\ Table(t)' /\ File(t)' /\ Allocation(t)'
    BY <1>1, <1>2 DEF GetPos, Own, Directory, Table, File, Allocation,
       HasDirectory, HasTable, HasFile, Shared, DirectoryCalls, TableCalls
  <2>3. Descriptor(t)'
    BY <1>1, <1>2, LocksAssumption DEF GetPos, Own, Descriptor, HasDescriptor, DescriptorCalls
  <2> QED BY <2>1, <2>2, <2>3 DEF Own
<1> QED BY <1>4, <1>5, <1>6, <1>7, QuietStep DEF GetPos

LEMMA LockFileKeeps ==
  ASSUME IInv, NEW t \in Threads, LockFile(t)
  PROVE  IInv'
<1> USE DEF locks, tables
<1>1. /\ thr \in [Threads -> Frame] /\ Own(t)
      /\ thr[t].pc \in {"lockIO", "lockLook", "lockUnlink"} /\ thr[t].file \in Files
      /\ fileLock \in [Files -> Threads \cup {NULL}]
  BY DEF IInv, TypeOK, LockFile, Own, Place
<1> DEFINE p == IF thr[t].pc = "lockIO" THEN "io"
                ELSE IF thr[t].pc = "lockLook" THEN "look" ELSE "unlink"
<1>2. /\ thr' \in [Threads -> Frame] /\ \A u \in Threads \ {t} : thr'[u] = thr[u]
      /\ thr'[t].pc = p /\ thr'[t].call = thr[t].call
      /\ thr'[t].fd = thr[t].fd /\ thr'[t].name = thr[t].name
      /\ thr'[t].new = thr[t].new /\ thr'[t].file = thr[t].file
      /\ thr'[t].slot = thr[t].slot /\ thr'[t].old = thr[t].old
  <2>1. p \in PCs /\ p # "return" BY DEF PCs
  <2>2. Goto(t, p) BY DEF LockFile
  <2> HIDE DEF p
  <2> QED BY <1>1, <2>1, <2>2, GotoFrame
<1>3. SamePublished(t) BY <1>1, <1>2 DEF SamePublished
<1>4. \A u \in Threads \ {t} : HoldersKept(u)
  BY <1>1, <1>2, LocksAssumption DEF HoldersKept, LockFile
<1>5. TypeOK' /\ Exclusive(directoryLock)' /\ Exclusive(openTableLock)'
  BY <1>1, <1>2 DEF IInv, TypeOK, LockFile, Exclusive
<1>6. Own(t)'
  <2>1. Place(t)' BY <1>1, <1>2 DEF Own, Place, LockFile
  <2>2. Pinned(t)'
    <3>1. Refs(thr[t].file)' = Refs(thr[t].file) BY <1>2, <1>3, RefsKept DEF LockFile
    <3>2. thr[t].file # NULL BY <1>1, LocksAssumption
    <3> QED BY <1>1, <1>2, <3>1, <3>2 DEF Own, Pinned, OpenFileOf, LockFile
  <2>3. Directory(t)' /\ Table(t)' /\ File(t)' /\ Allocation(t)'
    BY <1>1, <1>2 DEF LockFile, Own, Directory, Table, File, Allocation,
       HasDirectory, HasTable, HasFile, Shared
  <2>4. Descriptor(t)'
    BY <1>1, <1>2 DEF LockFile, Own, Descriptor, HasDescriptor, Place
  <2> QED BY <2>1, <2>2, <2>3, <2>4 DEF Own
<1> QED BY <1>3, <1>4, <1>5, <1>6, QuietStep DEF LockFile

(* A call that has the blocks it needs to allocate still before it, ... *)
LEMMA InputOutputGoesOn ==
  ASSUME IInv, NEW t \in Threads, thr[t].pc = "io", thr[t].call \in {"write", "ftruncate"},
         Goto(t, "allocation"), UNCHANGED <<locks, tables>>
  PROVE  IInv'
<1> USE DEF locks, tables
<1>1. thr \in [Threads -> Frame] /\ Own(t) /\ thr[t].file \in Files
  BY DEF IInv, TypeOK, Own, Place
<1>2. /\ thr' \in [Threads -> Frame] /\ \A u \in Threads \ {t} : thr'[u] = thr[u]
      /\ thr'[t].pc = "allocation" /\ thr'[t].call = thr[t].call
      /\ thr'[t].fd = thr[t].fd /\ thr'[t].file = thr[t].file
  BY <1>1, GotoFrame DEF PCs
<1>3. SamePublished(t) BY <1>2 DEF SamePublished
<1>4. \A u \in Threads \ {t} : HoldersKept(u) BY <1>2 DEF HoldersKept
<1>5. TypeOK' /\ Exclusive(directoryLock)' /\ Exclusive(openTableLock)'
  BY <1>2 DEF IInv, TypeOK, Exclusive
<1>6. Own(t)'
  <2>1. Place(t)' BY <1>1, <1>2 DEF Own, Place
  <2>2. Pinned(t)' BY <1>1, <1>2 DEF Own, Pinned, DescriptorCalls
  <2>3. Directory(t)' /\ Table(t)' /\ File(t)' /\ Allocation(t)'
    BY <1>1, <1>2 DEF Own, Directory, Table, File, Allocation,
       HasDirectory, HasTable, HasFile, Shared
  <2>4. Descriptor(t)' BY <1>1, <1>2 DEF Own, Descriptor, HasDescriptor
  <2> QED BY <2>1, <2>2, <2>3, <2>4 DEF Own
<1> QED BY <1>3, <1>4, <1>5, <1>6, QuietStep

(* ... and one that is done with the file. *)
LEMMA InputOutputEnds ==
  ASSUME IInv, NEW t \in Threads, thr[t].pc \in {"io", "store"},
         fileLock' = [fileLock EXCEPT ![thr[t].file] = NULL],
         descriptorLocks' = [fd \in FDs |-> IF descriptorLocks[fd] = t THEN NULL
                                            ELSE descriptorLocks[fd]],
         IF thr[t].call = "ftruncate" THEN Goto(t, "return")
         ELSE thr' = [thr EXCEPT ![t] = Idle],
         UNCHANGED <<directoryLock, openTableLock, allocationLock, tables>>
  PROVE  IInv'
<1> USE DEF locks, tables
<1>1. /\ thr \in [Threads -> Frame] /\ Own(t) /\ thr[t].file \in Files
      /\ thr[t].call \in {"read", "write", "ftruncate"}
      /\ fileLock \in [Files -> Threads \cup {NULL}]
      /\ descriptorLocks \in [FDs -> Threads \cup {NULL}]
  BY DEF IInv, TypeOK, Own, Place
<1>2. /\ thr' \in [Threads -> Frame] /\ \A u \in Threads \ {t} : thr'[u] = thr[u]
      /\ thr'[t].file = NULL
      /\ IF thr[t].call = "ftruncate" THEN thr'[t].pc = "return" /\ thr'[t].call = "ftruncate"
         ELSE thr'[t].pc = "idle" /\ thr'[t].call = NULL
  <2>1. CASE thr[t].call = "ftruncate" BY <1>1, <2>1, GotoFrame DEF PCs
  <2>2. CASE thr[t].call # "ftruncate"
    <3>1. Idle \in Frame /\ Idle.pc = "idle" /\ Idle.call = NULL /\ Idle.file = NULL
      BY DEF Idle, Frame, PCs
    <3> QED BY <1>1, <2>2, <3>1
  <2> QED BY <2>1, <2>2
<1>3. SamePublished(t) BY <1>2 DEF SamePublished
<1>4. fileLock[thr[t].file] = t BY <1>1 DEF Own, File, HasFile
<1>5. \A u \in Threads \ {t} : HoldersKept(u)
  BY <1>1, <1>2, <1>4, LocksAssumption DEF HoldersKept
<1>6. TypeOK' /\ Exclusive(directoryLock)' /\ Exclusive(openTableLock)'
  BY <1>1, <1>2 DEF IInv, TypeOK, Exclusive
<1>7. Own(t)'
  <2>1. Place(t)' /\ Pinned(t)' BY <1>1, <1>2 DEF Place, Pinned, TableCalls
  <2>2. Directory(t)' /\ Table(t)' /\ Allocation(t)'
    BY <1>1, <1>2 DEF Own, Directory, Table, Allocation,
       HasDirectory, HasTable, Shared, DirectoryCalls, TableCalls, SharedCalls
  <2>3. File(t)' BY <1>1, <1>2, LocksAssumption DEF Own, File, HasFile
  <2>4. Descriptor(t)' BY <1>1, <1>2, LocksAssumption DEF Descriptor, HasDescriptor, DescriptorCalls
  <2> QED BY <2>1, <2>2, <2>3, <2>4 DEF Own
<1> QED BY <1>3, <1>5, <1>6, <1>7, QuietStep

LEMMA InputOutputKeeps ==
  ASSUME IInv, NEW t \in Threads, InputOutput(t)
  PROVE  IInv'
BY InputOutputGoesOn, InputOutputEnds DEF InputOutput, locks

LEMMA CollectKeeps ==
  ASSUME IInv, NEW t \in Threads, Collect(t)
  PROVE  IInv'
<1> USE DEF locks, tables
<1> DEFINE f == openFileDescTable[thr[t].fd]
<1>1. /\ thr \in [Threads -> Frame] /\ Own(t) /\ thr[t].pc = "collect" /\ thr[t].file = NULL
      /\ thr[t].call = "ftruncate" /\ thr[t].fd \in FDs /\ f \in Files \cup {NULL}
  BY DEF IInv, TypeOK, Collect, Own, Place
<1>2. /\ thr' \in [Threads -> Frame] /\ \A u \in Threads \ {t} : thr'[u] = thr[u]
      /\ thr'[t].call = "ftruncate" /\ thr'[t].file = f
      /\ thr'[t].pc = IF f = NULL THEN "return" ELSE "lockSlots"
  <2>1. CASE f = NULL BY <1>1, <2>1, GotoFrame DEF Collect, PCs
  <2>2. CASE f # NULL
    <3>1. thr' = [thr EXCEPT ![t].fd = NULL, ![t].file = f, ![t].pc = "lockSlots"]
      BY <2>2 DEF Collect
    <3>2. thr'[t] = [thr[t] EXCEPT !.fd = NULL, !.file = f, !.pc = "lockSlots"] BY <1>1, <3>1
    <3>3. /\ thr'[t] \in Frame /\ thr'[t].call = "ftruncate" /\ thr'[t].file = f
          /\ thr'[t].pc = "lockSlots"
      <4>1. thr[t] \in Frame BY <1>1
      <4>2. thr[t].call = "ftruncate" /\ f \in Files BY <1>1, <2>2
      <4> HIDE DEF f
      <4> QED BY <3>2, <4>1, <4>2, ZenonT(60) DEF Frame, PCs
    <3> QED BY <1>1, <2>2, <3>1, <3>3
  <2> QED BY <2>1, <2>2
<1>3. SamePublished(t) BY <1>1, <1>2 DEF SamePublished
<1>4. \A u \in Threads \ {t} : HoldersKept(u) BY <1>2 DEF HoldersKept, Collect
<1>5. TypeOK' /\ Exclusive(directoryLock)' /\ Exclusive(openTableLock)'
  BY <1>2 DEF IInv, TypeOK, Collect, Exclusive
<1>6. Own(t)'
  <2>1. Place(t)' BY <1>1, <1>2 DEF Place, TableCalls
  <2>2. Pinned(t)' BY <1>1, <1>2 DEF Pinned, Collect, DescriptorCalls
  <2>3. Directory(t)' /\ Table(t)' /\ File(t)' /\ Allocation(t)'
    BY <1>1, <1>2 DEF Collect, Own, Directory, Table, File, Allocation,
       HasDirectory, HasTable, HasFile, Shared, DirectoryCalls
  <2>4. Descriptor(t)'
    BY <1>1, <1>2 DEF Collect, Own, Descriptor, HasDescriptor, DescriptorCalls
  <2> QED BY <2>1, <2>2, <2>3, <2>4 DEF Own
<1> QED BY <1>3, <1>4, <1>5, <1>6, QuietStep DEF Collect

LEMMA LockSlotsKeeps ==
  ASSUME IInv, NEW t \in Threads, LockSlots(t)
  PROVE  IInv'
<1> USE DEF locks, tables
<1>1. /\ thr \in [Threads -> Frame] /\ Own(t) /\ thr[t].pc = "lockSlots"
      /\ thr[t].call = "ftruncate" /\ thr[t].file \in Files
      /\ descriptorLocks \in [FDs -> Threads \cup {NULL}]
  BY DEF IInv, TypeOK, LockSlots, Own, Place
<1>2. CASE ToLock(t) = {} /\ Goto(t, "lockIO") /\ UNCHANGED descriptorLocks
  <2>1. /\ thr' \in [Threads -> Frame] /\ \A u \in Threads \ {t} : thr'[u] = thr[u]
        /\ thr'[t].call = "ftruncate" /\ thr'[t].file = thr[t].file /\ thr'[t].pc = "lockIO"
    BY <1>1, <1>2, GotoFrame DEF PCs
  <2>2. SamePublished(t) BY <1>1, <2>1 DEF SamePublished
  <2>3. \A u \in Threads \ {t} : HoldersKept(u) BY <1>2, <2>1 DEF HoldersKept, LockSlots
  <2>4. TypeOK' /\ Exclusive(directoryLock)' /\ Exclusive(openTableLock)'
    BY <1>2, <2>1 DEF IInv, TypeOK, LockSlots, Exclusive
  <2>5. Own(t)'
    <3>1. Place(t)' BY <1>1, <2>1 DEF Place
    <3>2. Pinned(t)' BY <1>1, <2>1 DEF Own, Pinned, LockSlots, DescriptorCalls
    <3>3. Directory(t)' /\ Table(t)' /\ File(t)' /\ Allocation(t)'
      BY <1>1, <2>1 DEF LockSlots, Own, Directory, Table, File, Allocation,
         HasDirectory, HasTable, HasFile, Shared, DirectoryCalls
    <3>4. Descriptor(t)'
      BY <1>1, <1>2, <2>1 DEF LockSlots, Own, Descriptor, HasDescriptor, DescriptorCalls, ToLock
    <3> QED BY <3>1, <3>2, <3>3, <3>4 DEF Own
  <2> QED BY <2>2, <2>3, <2>4, <2>5, QuietStep DEF LockSlots
<1>3. ASSUME NEW fd \in ToLock(t), \A other \in ToLock(t) : fd <= other,
             descriptorLocks[fd] = NULL, descriptorLocks' = [descriptorLocks EXCEPT ![fd] = t],
             UNCHANGED thr
      PROVE  IInv'
  <2>1. fd \in FDs /\ openFileDescTable[fd] = thr[t].file BY DEF ToLock
  <2>2. SamePublished(t) BY <1>1, <1>3 DEF SamePublished
  <2>3. \A u \in Threads \ {t} : HoldersKept(u)
    BY <1>1, <1>3, <2>1, LocksAssumption DEF HoldersKept, LockSlots
  <2>4. TypeOK' /\ Exclusive(directoryLock)' /\ Exclusive(openTableLock)'
    BY <1>1, <1>3, <2>1 DEF IInv, TypeOK, LockSlots, Exclusive
  <2>5. Own(t)'
    <3>1. Place(t)' BY <1>1, <1>3 DEF Place
    <3>2. Pinned(t)' BY <1>1, <1>3 DEF Own, Pinned, LockSlots, DescriptorCalls
    <3>3. Directory(t)' /\ Table(t)' /\ File(t)' /\ Allocation(t)'
      BY <1>1, <1>3 DEF LockSlots, Own, Directory, Table, File, Allocation,
         HasDirectory, HasTable, HasFile, Shared
    <3>4. Descriptor(t)'
      <4> SUFFICES ASSUME NEW d \in FDs, descriptorLocks'[d] = t
                   PROVE  /\ openFileDescTable'[d] = thr'[t].file
                          /\ \A other \in ToLock(t)' : d < other
        BY <1>1, <1>3 DEF Descriptor
      <4>1. UNCHANGED openFileDescTable BY DEF LockSlots
      <4>2. \A other \in ToLock(t)' : other \in ToLock(t) /\ other # fd /\ other \in FDs
        BY <1>1, <1>3, <2>1, <4>1 DEF ToLock
      <4>3. CASE d = fd
        <5>1. \A other \in ToLock(t)' : fd < other
          BY <1>3, <2>1, <4>2 DEF FDs
        <5> QED BY <1>3, <2>1, <4>1, <4>3, <5>1
      <4>4. CASE d # fd
        <5>1. descriptorLocks[d] = t BY <1>1, <1>3, <4>4
        <5> QED BY <1>1, <1>3, <4>1, <4>2, <5>1 DEF Own, Descriptor
      <4> QED BY <4>3, <4>4
    <3> QED BY <3>1, <3>2, <3>3, <3>4 DEF Own
  <2> QED BY <2>2, <2>3, <2>4, <2>5, QuietStep DEF LockSlots
<1> QED BY <1>2, <1>3 DEF LockSlots

LEMMA LockPublishKeeps ==
  ASSUME IInv, NEW t \in Threads, LockPublish(t)
  PROVE  IInv'
<1> USE DEF locks, tables
<1>1. /\ thr \in [Threads -> Frame] /\ Own(t) /\ thr[t].pc = "publish" /\ thr[t].call = "open"
      /\ thr[t].fd \in FDs /\ thr[t].file \in Files
      /\ descriptorLocks \in [FDs -> Threads \cup {NULL}]
  BY DEF IInv, TypeOK, LockPublish, Own, Place
<1>2. /\ thr' \in [Threads -> Frame] /\ \A u \in Threads \ {t} : thr'[u] = thr[u]
      /\ thr'[t].pc = "set" /\ thr'[t].call = "open"
      /\ thr'[t].fd = thr[t].fd /\ thr'[t].file = thr[t].file
  BY <1>1, GotoFrame DEF LockPublish, PCs
<1>3. SamePublished(t) BY <1>1, <1>2 DEF SamePublished
<1>4. \A u \in Threads \ {t} : HoldersKept(u)
  BY <1>1, <1>2, LocksAssumption DEF HoldersKept, LockPublish
<1>5. TypeOK' /\ Exclusive(directoryLock)' /\ Exclusive(openTableLock)'
  BY <1>1, <1>2 DEF IInv, TypeOK, LockPublish, Exclusive
<1>6. Own(t)'
  <2>1. Place(t)' BY <1>1, <1>2 DEF Place
  <2>2. Pinned(t)' BY <1>1, <1>2 DEF Own, Pinned, LockPublish, DescriptorCalls
  <2>3. Directory(t)' /\ Table(t)' /\ File(t)' /\ Allocation(t)'
    BY <1>1, <1>2 DEF LockPublish, Own, Directory, Table, File, Allocation,
       HasDirectory, HasTable, HasFile, Shared
  <2>4. Descriptor(t)'
    BY <1>1, <1>2 DEF LockPublish, Own, Descriptor, HasDescriptor, DescriptorCalls
  <2> QED BY <2>1, <2>2, <2>3, <2>4 DEF Own
<1> QED BY <1>3, <1>4, <1>5, <1>6, QuietStep DEF LockPublish

(* Where a directory call holds both tables and nothing else. *)
BetweenLocks == {"find", "lockLook", "allocation", "expand", "create", "add", "publish", "findOpen",
                 "lockUnlink", "clear", "name", "return"}

LEMMA HoldsTheSame ==
  ASSUME IInv, NEW t \in Threads, UNCHANGED locks,
         thr[t].call \in DirectoryCalls, thr'[t].call = thr[t].call,
         thr[t].pc \in BetweenLocks, thr'[t].pc \in BetweenLocks
  PROVE  Directory(t)' /\ Table(t)' /\ Descriptor(t)' /\ File(t)' /\ Allocation(t)'
<1> USE DEF locks, DirectoryCalls, DescriptorCalls, TableCalls, BetweenLocks
<1>1. Own(t) BY DEF IInv
<1>2. Directory(t)' /\ Table(t)' /\ File(t)' /\ Allocation(t)'
  BY <1>1 DEF Own, Directory, Table, File, Allocation, HasDirectory, HasTable, HasFile, Shared
<1>3. Descriptor(t)' BY <1>1 DEF Own, Descriptor, HasDescriptor
<1> QED BY <1>2, <1>3

LEMMA DirectoryStep ==
  ASSUME IInv, NEW t \in Threads, UNCHANGED <<locks, tables>>,
         thr' \in [Threads -> Frame], \A u \in Threads \ {t} : thr'[u] = thr[u],
         thr[t].call \in DirectoryCalls, thr'[t].call = thr[t].call,
         thr[t].pc \in BetweenLocks \ {"publish"}, thr'[t].pc \in BetweenLocks \ {"publish"},
         Place(t)', Pinned(t)'
  PROVE  IInv'
<1> USE DEF locks, tables
<1>1. SamePublished(t) BY DEF SamePublished, BetweenLocks
<1>2. \A u \in Threads \ {t} : HoldersKept(u) BY DEF HoldersKept
<1>3. TypeOK' /\ Exclusive(directoryLock)' /\ Exclusive(openTableLock)'
  BY DEF IInv, TypeOK, Exclusive
<1>4. Own(t)' BY HoldsTheSame DEF Own
<1> QED BY <1>1, <1>2, <1>3, <1>4, QuietStep

LEMMA FindOpenKeeps ==
  ASSUME IInv, NEW t \in Threads, FindOpen(t)
  PROVE  IInv'
<1>1. /\ thr \in [Threads -> Frame] /\ Own(t) /\ thr[t].pc = "findOpen" /\ thr[t].file = NULL
      /\ thr[t].call \in {"remove", "rename"} /\ thr[t].slot \in 1 .. nslots
      /\ thr[t].call = "rename" => thr[t].new \in Names /\ thr[t].old \in 1 .. nslots
      /\ UNCHANGED <<locks, tables>>
  BY DEF IInv, TypeOK, FindOpen, Own, Place
<1>2. ASSUME NEW pc \in {"allocation", "clear"}, Goto(t, pc), OpenFileOf(thr[t].slot) = {}
      PROVE  IInv'
  <2>1. /\ thr' \in [Threads -> Frame] /\ \A u \in Threads \ {t} : thr'[u] = thr[u]
        /\ thr'[t].pc = pc /\ thr'[t].call = thr[t].call
        /\ thr'[t].new = thr[t].new /\ thr'[t].file = thr[t].file
        /\ thr'[t].slot = thr[t].slot /\ thr'[t].old = thr[t].old
    BY <1>1, <1>2, GotoFrame DEF PCs
  <2>2. Place(t)' BY <1>1, <2>1 DEF Place, tables
  <2>3. Pinned(t)' BY <1>1, <1>2, <2>1 DEF Pinned, DescriptorCalls, OpenFileOf, tables
  <2> QED BY <1>1, <2>1, <2>2, <2>3, DirectoryStep DEF DirectoryCalls, BetweenLocks
<1>3. ASSUME NEW f \in OpenFileOf(thr[t].slot),
             thr' = [thr EXCEPT ![t].file = f, ![t].pc = "lockUnlink"]
      PROVE  IInv'
  <2>1. f \in Files /\ openFiles[f] # NULL /\ openFiles[f].slot = thr[t].slot
    BY <1>3 DEF OpenFileOf
  <2>2. thr'[t] = [thr[t] EXCEPT !.file = f, !.pc = "lockUnlink"] BY <1>1, <1>3
  <2>3. /\ thr'[t] \in Frame /\ thr'[t].pc = "lockUnlink" /\ thr'[t].file = f
        /\ thr'[t].call = thr[t].call /\ thr'[t].new = thr[t].new
        /\ thr'[t].slot = thr[t].slot /\ thr'[t].old = thr[t].old
    <3>1. thr[t] \in Frame BY <1>1
    <3> QED BY <2>1, <2>2, <3>1, ZenonT(60) DEF Frame, PCs
  <2>4. thr' \in [Threads -> Frame] /\ \A u \in Threads \ {t} : thr'[u] = thr[u]
    BY <1>1, <1>3, <2>3
  <2>5. Place(t)' BY <1>1, <2>1, <2>3 DEF Place, tables
  <2>6. Pinned(t)' BY <1>1, <2>1, <2>3 DEF Pinned, DescriptorCalls, tables
  <2> QED BY <1>1, <2>3, <2>4, <2>5, <2>6, DirectoryStep DEF DirectoryCalls, BetweenLocks
<1> QED BY <1>2, <1>3 DEF FindOpen

LEMMA FindKeeps ==
  ASSUME IInv, NEW t \in Threads, Find(t)
  PROVE  IInv'
<1> USE DEF locks, tables
<1>1. /\ thr \in [Threads -> Frame] /\ Own(t) /\ thr[t].pc = "find" /\ thr[t].file = NULL
      /\ thr[t].call \in DirectoryCalls /\ thr[t].slot \in 1 .. nslots
      /\ thr[t].call \in {"open", "remove"} => thr[t].name \in Names /\ thr[t].old = NULL
      /\ thr[t].call = "rename" => thr[t].new \in Names /\ thr[t].old \in 1 .. nslots \cup {NULL}
  <2>1. nslots \in Nat BY LocksAssumption DEF IInv, TypeOK, Slots
  <2> QED BY <2>1 DEF IInv, TypeOK, Find, Own, Place
<1>2. ASSUME Goto(t, "look"), OpenFileOf(thr[t].slot) = {}
      PROVE  IInv'
  <2>1. /\ thr' \in [Threads -> Frame] /\ \A u \in Threads \ {t} : thr'[u] = thr[u]
        /\ thr'[t].pc = "look" /\ thr'[t].call = thr[t].call
        /\ thr'[t].new = thr[t].new /\ thr'[t].file = NULL /\ thr'[t].name = thr[t].name
        /\ thr'[t].slot = thr[t].slot /\ thr'[t].old = thr[t].old
    BY <1>1, <1>2, GotoFrame DEF PCs
  <2>2. Place(t)' BY <1>1, <2>1 DEF Place, Find
  <2>3. Pinned(t)' BY <1>1, <1>2, <2>1 DEF Pinned, DescriptorCalls, OpenFileOf, Find
  <2>4. SamePublished(t) BY <1>1, <2>1 DEF SamePublished
  <2>5. \A u \in Threads \ {t} : HoldersKept(u) BY <2>1 DEF HoldersKept, Find
  <2>6. TypeOK' /\ Exclusive(directoryLock)' /\ Exclusive(openTableLock)'
    BY <2>1 DEF IInv, TypeOK, Find, Exclusive
  <2>7. Directory(t)' /\ Table(t)' /\ Allocation(t)'
    BY <1>1, <2>1 DEF Find, Own, Directory, Table, Allocation, HasDirectory, HasTable, Shared
  <2>8. File(t)' /\ Descriptor(t)'
    BY <1>1, <2>1, LocksAssumption DEF Find, Own, File, HasFile, Descriptor, HasDescriptor,
       DirectoryCalls, DescriptorCalls
  <2> QED BY <2>2, <2>3, <2>4, <2>5, <2>6, <2>7, <2>8, QuietStep DEF Find, Own
<1>3. ASSUME NEW f \in OpenFileOf(thr[t].slot),
             thr' = [thr EXCEPT ![t].file = f, ![t].pc = "lockLook"]
      PROVE  IInv'
  <2>1. f \in Files /\ openFiles[f] # NULL /\ openFiles[f].slot = thr[t].slot
    BY <1>3 DEF OpenFileOf
  <2>2. thr'[t] = [thr[t] EXCEPT !.file = f, !.pc = "lockLook"] BY <1>1, <1>3
  <2>3. /\ thr'[t] \in Frame /\ thr'[t].pc = "lockLook" /\ thr'[t].file = f
        /\ thr'[t].call = thr[t].call /\ thr'[t].new = thr[t].new /\ thr'[t].name = thr[t].name
        /\ thr'[t].slot = thr[t].slot /\ thr'[t].old = thr[t].old
    <3>1. thr[t] \in Frame BY <1>1
    <3> QED BY <2>1, <2>2, <3>1, ZenonT(60) DEF Frame, PCs
  <2>4. thr' \in [Threads -> Frame] /\ \A u \in Threads \ {t} : thr'[u] = thr[u]
    BY <1>1, <1>3, <2>3
  <2>5. Place(t)' BY <1>1, <2>1, <2>3 DEF Place, Find
  <2>6. Pinned(t)' BY <1>1, <2>1, <2>3 DEF Pinned, DescriptorCalls, DirectoryCalls, Find
  <2> QED BY <1>1, <2>3, <2>4, <2>5, <2>6, DirectoryStep DEF BetweenLocks, Find
<1> QED BY <1>2, <1>3 DEF Find

LEMMA NotFoundKeeps ==
  ASSUME IInv, NEW t \in Threads, NotFound(t)
  PROVE  IInv'
<1>1. /\ thr \in [Threads -> Frame] /\ Own(t) /\ thr[t].pc = "find" /\ thr[t].file = NULL
      /\ thr[t].call \in DirectoryCalls
      /\ thr[t].call \in {"open", "remove"} => thr[t].name \in Names /\ thr[t].old = NULL
      /\ thr[t].call = "rename" => thr[t].new \in Names /\ thr[t].old \in 1 .. nslots \cup {NULL}
      /\ nslots \in Slots /\ UNCHANGED <<locks, tables>>
  BY DEF IInv, TypeOK, NotFound, Own, Place
<1>2. ASSUME NEW pc \in {"return", "name", "allocation"}, Goto(t, pc),
             pc = "name" => thr[t].call = "rename" /\ thr[t].old # NULL,
             pc = "allocation" => thr[t].call = "open"
      PROVE  IInv'
  <2>1. /\ thr' \in [Threads -> Frame] /\ \A u \in Threads \ {t} : thr'[u] = thr[u]
        /\ thr'[t].pc = pc /\ thr'[t].call = thr[t].call /\ thr'[t].file = NULL
        /\ pc # "return" => thr'[t].new = thr[t].new /\ thr'[t].old = thr[t].old
                            /\ thr'[t].name = thr[t].name
    BY <1>1, <1>2, GotoFrame DEF PCs
  <2>2. Place(t)' BY <1>1, <1>2, <2>1 DEF Place, tables
  <2>3. Pinned(t)' BY <1>1, <1>2, <2>1 DEF Pinned, DescriptorCalls, DirectoryCalls, tables
  <2> QED BY <1>1, <2>1, <2>2, <2>3, DirectoryStep DEF BetweenLocks
<1>3. ASSUME thr[t].call = "open", NEW s \in EmptySlots,
             thr' = [thr EXCEPT ![t].slot = s, ![t].pc = "create"]
      PROVE  IInv'
  <2>1. s \in 1 .. nslots /\ names[s] = NULL BY <1>3 DEF EmptySlots
  <2>2. thr'[t] = [thr[t] EXCEPT !.slot = s, !.pc = "create"] BY <1>1, <1>3
  <2>3. /\ thr'[t] \in Frame /\ thr'[t].pc = "create" /\ thr'[t].file = thr[t].file
        /\ thr'[t].call = thr[t].call /\ thr'[t].name = thr[t].name /\ thr'[t].slot = s
    <3>1. thr[t] \in Frame /\ s \in Nat BY <1>1, <2>1
    <3> QED BY <2>2, <3>1, ZenonT(60) DEF Frame, PCs
  <2>4. thr' \in [Threads -> Frame] /\ \A u \in Threads \ {t} : thr'[u] = thr[u]
    BY <1>1, <1>3, <2>3
  <2>5. Place(t)' BY <1>1, <1>3, <2>1, <2>3 DEF Place, tables
  <2>6. Pinned(t)' BY <1>1, <1>3, <2>1, <2>3 DEF Pinned, DescriptorCalls, tables
  <2> QED BY <1>1, <2>3, <2>4, <2>5, <2>6, DirectoryStep DEF BetweenLocks
<1>4. (\E s \in EmptySlots : thr' = [thr EXCEPT ![t].slot = s, ![t].pc = "create"])
      /\ thr[t].call = "open" => IInv'
  BY <1>3
<1>5. Goto(t, "return") => IInv' BY <1>2
<1>6. Goto(t, "name") /\ thr[t].call = "rename" /\ thr[t].old # NULL => IInv' BY <1>2
<1>7. Goto(t, "allocation") /\ thr[t].call = "open" => IInv' BY <1>2
<1> QED BY <1>4, <1>5, <1>6, <1>7 DEF NotFound

(* What Look leaves to the others, and to itself: the lock of the file, if it had one, is free. *)
LEMMA LookUnlocks ==
  ASSUME IInv, NEW t \in Threads, thr[t].pc = "look",
         UNCHANGED <<directoryLock, openTableLock, descriptorLocks, allocationLock, tables>>,
         fileLock' = [f \in Files |-> IF f = thr[t].file THEN NULL ELSE fileLock[f]],
         thr' \in [Threads -> Frame], \A u \in Threads \ {t} : thr'[u] = thr[u],
         thr'[t].call = thr[t].call, thr'[t].pc \in BetweenLocks \ {"publish"},
         Place(t)', Pinned(t)'
  PROVE  IInv'
<1> USE DEF tables
<1>1. Own(t) /\ thr[t].call \in DirectoryCalls /\ fileLock \in [Files -> Threads \cup {NULL}]
  BY DEF IInv, TypeOK, Own, Place
<1>2. SamePublished(t) BY DEF SamePublished, BetweenLocks
<1>3. \A f \in Files : fileLock[f] = t <=> thr[t].file = f BY <1>1 DEF Own, File, HasFile
<1>4. \A u \in Threads \ {t} : HoldersKept(u) BY <1>3, LocksAssumption DEF HoldersKept
<1>5. TypeOK' /\ Exclusive(directoryLock)' /\ Exclusive(openTableLock)'
  BY <1>1 DEF IInv, TypeOK, Exclusive
<1>6. Directory(t)' /\ Table(t)' /\ Allocation(t)'
  BY <1>1 DEF Own, Directory, Table, Allocation, HasDirectory, HasTable, Shared, BetweenLocks
<1>7. File(t)' /\ Descriptor(t)'
  BY <1>1, <1>3, LocksAssumption DEF Own, File, HasFile, Descriptor, HasDescriptor, BetweenLocks,
     DirectoryCalls, DescriptorCalls
<1> QED BY <1>2, <1>4, <1>5, <1>6, <1>7, QuietStep DEF Own

LEMMA LookKeeps ==
  ASSUME IInv, NEW t \in Threads, Look(t)
  PROVE  IInv'
<1> DEFINE me == thr[t]
<1>1. /\ thr \in [Threads -> Frame] /\ Own(t) /\ me.pc = "look"
      /\ me.call \in DirectoryCalls /\ me.slot \in 1 .. nslots /\ nslots \in Slots
      /\ me.call \in {"open", "remove"} => me.name \in Names /\ me.old = NULL
      /\ me.call = "rename" => me.new \in Names /\ me.old \in 1 .. nslots \cup {NULL}
      /\ fileLock' = [f \in Files |-> IF f = me.file THEN NULL ELSE fileLock[f]]
      /\ UNCHANGED <<directoryLock, openTableLock, descriptorLocks, allocationLock, tables>>
  BY DEF IInv, TypeOK, Look, Own, Place
<1>2. CASE Goto(t, "return")
  <2>1. /\ thr' \in [Threads -> Frame] /\ \A u \in Threads \ {t} : thr'[u] = thr[u]
        /\ thr'[t].pc = "return" /\ thr'[t].call = thr[t].call /\ thr'[t].file = NULL
    BY <1>1, <1>2, GotoFrame DEF PCs
  <2>2. Place(t)' /\ Pinned(t)'
    BY <1>1, <2>1 DEF Place, Pinned, DescriptorCalls, DirectoryCalls
  <2> QED BY <1>1, <2>1, <2>2, LookUnlocks DEF BetweenLocks
<1>3. ASSUME NEW pc \in {"find", "add", "findOpen"}, NEW at \in Nat, NEW old \in Nat \cup {NULL},
             thr' = [thr EXCEPT ![t].pc = pc, ![t].slot = at, ![t].old = old, ![t].file = NULL,
                                ![t].name = IF pc = "find" /\ old = NULL THEN @ ELSE NULL],
             pc = "find" => \/ at = 1 /\ old = me.slot /\ me.call = "rename"
                            \/ at = me.slot + 1 /\ old = me.old,
             pc = "add" => me.call = "open" /\ at = me.slot /\ names[at] # NULL,
             pc = "findOpen" => \/ me.call = "remove" /\ at = me.slot
                                \/ /\ me.call = "rename" /\ at = me.slot
                                   /\ old = me.old /\ me.old # NULL
      PROVE  IInv'
  <2> DEFINE name == IF pc = "find" /\ old = NULL THEN me.name ELSE NULL
  <2>1. thr'[t] = [me EXCEPT !.pc = pc, !.slot = at, !.old = old, !.file = NULL, !.name = name]
    BY <1>1, <1>3
  <2>2. /\ thr'[t] \in Frame /\ thr'[t].pc = pc /\ thr'[t].slot = at /\ thr'[t].old = old
        /\ thr'[t].file = NULL /\ thr'[t].name = name
        /\ thr'[t].call = me.call /\ thr'[t].new = me.new
    <3>1. me \in Frame BY <1>1
    <3>2. name \in Names \cup {NULL} /\ pc \in PCs BY <3>1 DEF Frame, PCs
    <3> HIDE DEF me, name
    <3> QED BY <2>1, <3>1, <3>2 DEF Frame
  <2>3. thr' \in [Threads -> Frame] /\ \A u \in Threads \ {t} : thr'[u] = thr[u]
    BY <1>1, <1>3, <2>2
  <2>4. Place(t)'
    <3>1. nslots' = nslots /\ nslots \in Nat /\ \A s \in 1 .. nslots : s \in Slots
      BY <1>1, LocksAssumption DEF tables, Slots
    <3>2. CASE pc = "find"
      <4>1. thr'[t].slot \in 1 .. nslots' + 1 BY <1>1, <1>3, <2>2, <3>1, <3>2
      <4>2. me.call \in {"open", "remove"} => old = NULL /\ thr'[t].name \in Names
        BY <1>1, <1>3, <2>2, <3>2
      <4>3. me.call = "rename" => old \in 1 .. nslots' \cup {NULL} BY <1>1, <1>3, <3>1, <3>2
      <4> QED BY <1>1, <2>2, <3>2, <4>1, <4>2, <4>3 DEF Place
    <3>3. CASE pc = "add" BY <1>1, <1>3, <2>2, <3>1, <3>3 DEF Place
    <3>4. CASE pc = "findOpen" BY <1>1, <1>3, <2>2, <3>1, <3>4 DEF Place
    <3> QED BY <3>2, <3>3, <3>4
  <2>5. Pinned(t)'
    <3> USE DEF Pinned, tables
    <3> QED BY <1>1, <1>3, <2>2
  <2> QED BY <1>1, <1>3, <2>2, <2>3, <2>4, <2>5, LookUnlocks, SMTT(30) DEF BetweenLocks
<1> QED
  <2> DEFINE NextFrame(pc, at, old) ==
                thr' = [thr EXCEPT ![t].pc = pc, ![t].slot = at, ![t].old = old, ![t].file = NULL,
                                   ![t].name = IF pc = "find" /\ old = NULL THEN @ ELSE NULL]
  <2>1. \/ Goto(t, "return")
        \/ names[me.slot] # NULL /\ me.call = "open" /\ NextFrame("add", me.slot, NULL)
        \/ me.call = "remove" /\ NextFrame("findOpen", me.slot, NULL)
        \/ me.call = "rename" /\ me.old # NULL /\ NextFrame("findOpen", me.slot, me.old)
        \/ me.call = "rename" /\ NextFrame("find", 1, me.slot)
        \/ NextFrame("find", me.slot + 1, me.old)
    BY DEF Look
  <2>2. me.slot \in Nat /\ me.slot + 1 \in Nat /\ me.old \in Nat \cup {NULL}
    <3>1. me \in Frame BY <1>1
    <3>2. me.slot \in Nat BY <1>1, LocksAssumption DEF Slots
    <3> QED BY <3>1, <3>2 DEF Frame
  <2>3. CASE names[me.slot] # NULL /\ me.call = "open" /\ NextFrame("add", me.slot, NULL)
    BY <1>3, <2>2, <2>3
  <2>4. CASE me.call = "remove" /\ NextFrame("findOpen", me.slot, NULL) BY <1>3, <2>2, <2>4
  <2>5. CASE me.call = "rename" /\ me.old # NULL /\ NextFrame("findOpen", me.slot, me.old)
    BY <1>3, <2>2, <2>5
  <2>6. CASE me.call = "rename" /\ NextFrame("find", 1, me.slot) BY <1>3, <2>2, <2>6
  <2>7. CASE NextFrame("find", me.slot + 1, me.old) BY <1>3, <2>2, <2>7
  <2> QED BY <1>2, <2>1, <2>3, <2>4, <2>5, <2>6, <2>7

-----------------------------------------------------------------------------
(* Steps that change the tables *)

LEMMA DirectoryTableStep ==
  ASSUME IInv, NEW t \in Threads, UNCHANGED <<locks, openFileDescTable>>,
         thr' \in [Threads -> Frame], \A u \in Threads \ {t} : thr'[u] = thr[u],
         thr[t].call \in DirectoryCalls \ {"list"}, thr'[t].call = thr[t].call,
         thr[t].pc \in BetweenLocks, thr'[t].pc \in BetweenLocks,
         openFiles' \in [Files -> [refCount : Nat, slot : Slots \cup {NULL}] \cup {NULL}],
         names' \in [Slots -> Names \cup {NULL}], nslots' \in Slots, nslots <= nslots',
         Tables', Place(t)', Pinned(t)'
  PROVE  IInv'
<1> USE DEF locks
<1>1. HasTable(t) /\ ~ Shared(t)
  BY DEF HasTable, Shared, BetweenLocks, SharedCalls, DirectoryCalls
<1>2. \A u \in Threads \ {t} : HoldersKept(u) BY DEF HoldersKept
<1>3. TypeOK' /\ Exclusive(directoryLock)' /\ Exclusive(openTableLock)'
  BY DEF IInv, TypeOK, Exclusive
<1>4. Own(t)' BY HoldsTheSame DEF Own
<1> QED BY <1>1, <1>2, <1>3, <1>4, TableStep

(* The entries change, the open files do not. *)
LEMMA NamesTables ==
  ASSUME IInv, NEW t \in Threads, UNCHANGED <<openFileDescTable, openFiles>>,
         \A u \in Threads \ {t} : thr'[u] = thr[u],
         thr[t].pc \notin {"publish", "set"}, thr'[t].pc \notin {"publish", "set"},
         \A s \in Slots : OpenFileOf(s) # {} => names'[s] # NULL,
         \A s \in Slots : names'[s] # NULL => s <= nslots'
  PROVE  Tables'
<1>1. \A f \in Files : Refs(f)' = Refs(f)
  BY RefsKept DEF SamePublished
<1>2. \A s : OpenFileOf(s)' = OpenFileOf(s) BY DEF OpenFileOf
<1> QED BY <1>1, <1>2 DEF IInv, Tables

LEMMA ExpandKeeps ==
  ASSUME IInv, NEW t \in Threads, Expand(t)
  PROVE  IInv'
<1>1. /\ thr \in [Threads -> Frame] /\ Own(t) /\ thr[t].pc = "expand" /\ thr[t].call = "open"
      /\ thr[t].name \in Names /\ thr[t].file = NULL /\ nslots \in Slots
      /\ UNCHANGED <<locks, openFileDescTable, openFiles, names>>
  BY DEF IInv, TypeOK, Expand, Own, Place
<1>2. CASE Goto(t, "return") /\ UNCHANGED nslots
  <2>1. /\ thr' \in [Threads -> Frame] /\ \A u \in Threads \ {t} : thr'[u] = thr[u]
        /\ thr'[t].pc = "return" /\ thr'[t].call = thr[t].call /\ thr'[t].file = NULL
    BY <1>1, <1>2, GotoFrame DEF PCs
  <2>2. Place(t)' /\ Pinned(t)'
    BY <1>1, <2>1 DEF Place, Pinned, DescriptorCalls, DirectoryCalls
  <2> QED BY <1>1, <1>2, <2>1, <2>2, DirectoryStep DEF BetweenLocks, DirectoryCalls, tables
<1>3. CASE /\ nslots < MAX_SLOTS
           /\ nslots' = nslots + 1
           /\ thr' = [thr EXCEPT ![t].slot = nslots + 1, ![t].pc = "create"]
  <2>1. nslots + 1 \in Nat /\ nslots' \in Slots /\ nslots <= nslots' /\ nslots + 1 \in 1 .. nslots'
    BY <1>1, <1>3, LocksAssumption DEF Slots
  <2>2. thr'[t] = [thr[t] EXCEPT !.slot = nslots + 1, !.pc = "create"] BY <1>1, <1>3
  <2>3. /\ thr'[t] \in Frame /\ thr'[t].pc = "create" /\ thr'[t].file = thr[t].file
        /\ thr'[t].call = thr[t].call /\ thr'[t].name = thr[t].name /\ thr'[t].slot = nslots + 1
    <3>1. thr[t] \in Frame BY <1>1
    <3> QED BY <2>1, <2>2, <3>1, ZenonT(60) DEF Frame, PCs
  <2>4. thr' \in [Threads -> Frame] /\ \A u \in Threads \ {t} : thr'[u] = thr[u]
    BY <1>1, <1>3, <2>3
  <2>5. Tables'
    <3>1. Tables BY DEF IInv
    <3>2. \A s \in Slots : names'[s] # NULL => s <= nslots'
      BY <1>1, <1>3, <3>1, LocksAssumption DEF Tables, Slots
    <3>3. \A s \in Slots : OpenFileOf(s) # {} => names'[s] # NULL
      BY <1>1, <3>1 DEF Tables
    <3> QED BY <1>1, <2>3, <2>4, <3>2, <3>3, NamesTables
  <2>6. names[nslots + 1] = NULL
    <3>1. nslots + 1 \in Slots /\ ~ (nslots + 1 <= nslots) BY <1>1, <1>3, <2>1, LocksAssumption DEF Slots
    <3> QED BY <3>1 DEF IInv, Tables
  <2>7. Place(t)' BY <1>1, <2>1, <2>3 DEF Place
  <2>8. Pinned(t)' BY <1>1, <2>3, <2>6 DEF Pinned, DescriptorCalls
  <2>9. names' \in [Slots -> Names \cup {NULL}]
        /\ openFiles' \in [Files -> [refCount : Nat, slot : Slots \cup {NULL}] \cup {NULL}]
    BY <1>1 DEF IInv, TypeOK
  <2> QED BY <1>1, <2>1, <2>3, <2>4, <2>5, <2>7, <2>8, <2>9, DirectoryTableStep
      DEF BetweenLocks, DirectoryCalls
<1> QED BY <1>2, <1>3 DEF Expand

LEMMA CreateKeeps ==
  ASSUME IInv, NEW t \in Threads, Create(t)
  PROVE  IInv'
<1> DEFINE slot == thr[t].slot
<1>1. /\ thr \in [Threads -> Frame] /\ Own(t) /\ thr[t].pc = "create" /\ thr[t].call = "open"
      /\ thr[t].name \in Names /\ thr[t].file = NULL /\ slot \in 1 .. nslots /\ nslots \in Slots
      /\ names' = [names EXCEPT ![slot] = thr[t].name]
      /\ thr' = [thr EXCEPT ![t].pc = "add", ![t].name = NULL]
      /\ UNCHANGED <<locks, openFileDescTable, openFiles, nslots>>
  BY DEF IInv, TypeOK, Create, Own, Place
<1>2. thr'[t] = [thr[t] EXCEPT !.pc = "add", !.name = NULL] BY <1>1
<1>3. /\ thr'[t] \in Frame /\ thr'[t].pc = "add" /\ thr'[t].file = thr[t].file
      /\ thr'[t].call = thr[t].call /\ thr'[t].slot = slot
  <2>1. thr[t] \in Frame BY <1>1
  <2> QED BY <1>2, <2>1, ZenonT(60) DEF Frame, PCs
<1>4. thr' \in [Threads -> Frame] /\ \A u \in Threads \ {t} : thr'[u] = thr[u]
  BY <1>1, <1>3
<1>5. names \in [Slots -> Names \cup {NULL}] /\ slot \in Slots /\ slot <= nslots /\ thr[t].name # NULL
  BY <1>1, LocksAssumption DEF IInv, TypeOK, Slots
<1>6. /\ names' \in [Slots -> Names \cup {NULL}] /\ names'[slot] # NULL
      /\ \A s \in Slots : names[s] # NULL => names'[s] # NULL
      /\ \A s \in Slots : names'[s] # NULL => names[s] # NULL \/ s = slot
  BY <1>1, <1>5
<1>7. Tables'
  <2>1. Tables /\ openFiles \in [Files -> [refCount : Nat, slot : Slots \cup {NULL}] \cup {NULL}]
    BY DEF IInv, TypeOK
  <2>2. \A s \in Slots : names'[s] # NULL => s <= nslots' BY <1>1, <1>5, <1>6, <2>1 DEF Tables
  <2>3. \A s \in Slots : OpenFileOf(s) # {} => names'[s] # NULL
    BY <1>6, <2>1 DEF Tables
  <2> QED BY <1>1, <1>3, <1>4, <2>2, <2>3, NamesTables
<1>8. Place(t)' BY <1>1, <1>3 DEF Place
<1>9. Pinned(t)' BY <1>1, <1>3, <1>6 DEF Pinned, DescriptorCalls
<1>10. openFiles' \in [Files -> [refCount : Nat, slot : Slots \cup {NULL}] \cup {NULL}]
       /\ nslots' \in Slots /\ nslots <= nslots'
  BY <1>1, LocksAssumption DEF IInv, TypeOK, Slots
<1> QED BY <1>1, <1>3, <1>4, <1>6, <1>7, <1>8, <1>9, <1>10, DirectoryTableStep
    DEF BetweenLocks, DirectoryCalls

LEMMA ClearKeeps ==
  ASSUME IInv, NEW t \in Threads, Clear(t)
  PROVE  IInv'
<1> DEFINE slot == thr[t].slot
           p == IF thr[t].call = "rename" THEN "name" ELSE "return"
<1>1. /\ thr \in [Threads -> Frame] /\ Own(t) /\ thr[t].pc = "clear" /\ thr[t].file = NULL
      /\ thr[t].call \in {"remove", "rename"} /\ slot \in 1 .. nslots /\ nslots \in Slots
      /\ thr[t].call = "rename" => thr[t].new \in Names /\ thr[t].old \in 1 .. nslots
      /\ names' = [names EXCEPT ![slot] = NULL]
      /\ UNCHANGED <<locks, openFileDescTable, openFiles, nslots>>
  BY DEF IInv, TypeOK, Clear, Own, Place
<1>2. /\ thr' \in [Threads -> Frame] /\ \A u \in Threads \ {t} : thr'[u] = thr[u]
      /\ thr'[t].pc = p /\ thr'[t].call = thr[t].call /\ thr'[t].file = NULL
      /\ p = "name" => thr'[t].new = thr[t].new /\ thr'[t].old = thr[t].old
  <2>1. p \in PCs BY DEF PCs
  <2>2. Goto(t, p) BY DEF Clear
  <2> HIDE DEF p
  <2> QED BY <1>1, <2>1, <2>2, GotoFrame
<1>3. OpenFileOf(slot) = {} BY <1>1 DEF Own, Pinned
<1>4. names \in [Slots -> Names \cup {NULL}] /\ slot \in Slots
  BY <1>1, LocksAssumption DEF IInv, TypeOK, Slots
<1>5. /\ names' \in [Slots -> Names \cup {NULL}]
      /\ \A s \in Slots : s # slot => names'[s] = names[s]
      /\ \A s \in Slots : names'[s] # NULL => names[s] # NULL
  BY <1>1, <1>4
<1>6. Tables'
  <2>1. Tables /\ openFiles \in [Files -> [refCount : Nat, slot : Slots \cup {NULL}] \cup {NULL}]
    BY DEF IInv, TypeOK
  <2>2. \A s \in Slots : names'[s] # NULL => s <= nslots' BY <1>1, <1>5, <2>1 DEF Tables
  <2>3. \A s \in Slots : OpenFileOf(s) # {} => names'[s] # NULL
    BY <1>3, <1>5, <2>1 DEF Tables
  <2> QED BY <1>1, <1>2, <2>2, <2>3, NamesTables
<1>7. Place(t)' BY <1>1, <1>2 DEF Place, DirectoryCalls
<1>8. Pinned(t)' BY <1>1, <1>2 DEF Pinned, DescriptorCalls
<1>9. openFiles' \in [Files -> [refCount : Nat, slot : Slots \cup {NULL}] \cup {NULL}]
       /\ nslots' \in Slots /\ nslots <= nslots'
  BY <1>1, LocksAssumption DEF IInv, TypeOK, Slots
<1> QED BY <1>1, <1>2, <1>5, <1>6, <1>7, <1>8, <1>9, DirectoryTableStep
    DEF BetweenLocks, DirectoryCalls

LEMMA NameKeeps ==
  ASSUME IInv, NEW t \in Threads, Name(t)
  PROVE  IInv'
<1> DEFINE old == thr[t].old
<1>1. /\ thr \in [Threads -> Frame] /\ Own(t) /\ thr[t].pc = "name" /\ thr[t].file = NULL
      /\ thr[t].call = "rename" /\ nslots \in Slots
      /\ thr[t].new \in Names /\ old \in 1 .. nslots
      /\ names' = [names EXCEPT ![old] = thr[t].new]
      /\ UNCHANGED <<locks, openFileDescTable, openFiles, nslots>>
  BY DEF IInv, TypeOK, Name, Own, Place
<1>2. /\ thr' \in [Threads -> Frame] /\ \A u \in Threads \ {t} : thr'[u] = thr[u]
      /\ thr'[t].pc = "return" /\ thr'[t].call = thr[t].call /\ thr'[t].file = NULL
  BY <1>1, GotoFrame DEF Name, PCs
<1>3. names \in [Slots -> Names \cup {NULL}] /\ old \in Slots /\ old <= nslots /\ thr[t].new # NULL
  BY <1>1, LocksAssumption DEF IInv, TypeOK, Slots
<1>4. /\ names' \in [Slots -> Names \cup {NULL}]
      /\ \A s \in Slots : names[s] # NULL => names'[s] # NULL
      /\ \A s \in Slots : names'[s] # NULL => names[s] # NULL \/ s = old
  BY <1>1, <1>3
<1>5. Tables'
  <2>1. Tables /\ openFiles \in [Files -> [refCount : Nat, slot : Slots \cup {NULL}] \cup {NULL}]
    BY DEF IInv, TypeOK
  <2>2. \A s \in Slots : names'[s] # NULL => s <= nslots' BY <1>1, <1>3, <1>4, <2>1 DEF Tables
  <2>3. \A s \in Slots : OpenFileOf(s) # {} => names'[s] # NULL
    BY <1>4, <2>1 DEF Tables
  <2> QED BY <1>1, <1>2, <2>2, <2>3, NamesTables
<1>6. Place(t)' /\ Pinned(t)' BY <1>1, <1>2 DEF Place, Pinned, DescriptorCalls, DirectoryCalls
<1>7. openFiles' \in [Files -> [refCount : Nat, slot : Slots \cup {NULL}] \cup {NULL}]
       /\ nslots' \in Slots /\ nslots <= nslots'
  BY <1>1, LocksAssumption DEF IInv, TypeOK, Slots
<1> QED BY <1>1, <1>2, <1>4, <1>5, <1>6, <1>7, DirectoryTableStep
    DEF BetweenLocks, DirectoryCalls

(* A thread that has the tables for writing is the only one that can be about to publish. *)
LEMMA RefsAlone ==
  ASSUME IInv, NEW t \in Threads, HasTable(t), ~ Shared(t),
         \A u \in Threads \ {t} : thr'[u] = thr[u], NEW f
  PROVE  /\ Refs(f) = {fd \in FDs : \/ openFileDescTable[fd] = f
                                    \/ /\ thr[t].pc \in {"publish", "set"}
                                       /\ thr[t].fd = fd /\ thr[t].file = f}
         /\ Refs(f)' = {fd \in FDs : \/ openFileDescTable'[fd] = f
                                     \/ /\ thr'[t].pc \in {"publish", "set"}
                                        /\ thr'[t].fd = fd /\ thr'[t].file = f}
<1>1. ASSUME NEW u \in Threads \ {t} PROVE thr[u].pc \notin {"publish", "set"}
  <2>1. ~ HasTable(u) BY TableAlone
  <2>2. Place(u) BY DEF IInv, Own
  <2> QED BY <2>1, <2>2, WithoutTable
<1>2. \A u \in Threads \ {t} : thr'[u].pc \notin {"publish", "set"} BY <1>1
<1> QED BY <1>1, <1>2 DEF Refs

LEMMA RefsFinite ==
  ASSUME LocksAssumption, NEW f
  PROVE  IsFiniteSet(Refs(f)) /\ Cardinality(Refs(f)) \in Nat
<1>1. IsFiniteSet(FDs)
  <2>1. OPEN_FILE_LIMIT - 1 \in Int BY DEF LocksAssumption
  <2> QED BY <2>1, FS_Interval DEF FDs
<1>2. Refs(f) \subseteq FDs BY DEF Refs
<1> QED BY <1>1, <1>2, FS_Subset, FS_CardinalityType

LEMMA AddOpenFileKeeps ==
  ASSUME IInv, NEW t \in Threads, AddOpenFile(t)
  PROVE  IInv'
<1>0. PICK slot : slot = thr[t].slot OBVIOUS
<1>1. /\ thr \in [Threads -> Frame] /\ Own(t) /\ thr[t].pc = "add" /\ thr[t].call = "open"
      /\ thr[t].slot = slot
      /\ thr[t].file = NULL /\ slot \in 1 .. nslots /\ nslots \in Slots /\ slot \in Slots
      /\ slot # NULL /\ names[slot] # NULL
      /\ openFiles \in [Files -> [refCount : Nat, slot : Slots \cup {NULL}] \cup {NULL}]
      /\ names \in [Slots -> Names \cup {NULL}]
      /\ UNCHANGED <<locks, openFileDescTable, names, nslots>>
  <2>1. thr[t].pc = "add" /\ Own(t) /\ nslots \in Slots BY DEF IInv, TypeOK, AddOpenFile
  <2>2. slot \in 1 .. nslots /\ thr[t].call = "open" /\ thr[t].file = NULL
    BY <1>0, <2>1 DEF Own, Place
  <2>3. slot \in Slots /\ slot # NULL BY <2>1, <2>2, LocksAssumption DEF Slots
  <2> QED BY <1>0, <2>1, <2>2, <2>3 DEF IInv, TypeOK, AddOpenFile, Own, Pinned
<1>2. CASE Goto(t, "return") /\ UNCHANGED openFiles
  <2>1. /\ thr' \in [Threads -> Frame] /\ \A u \in Threads \ {t} : thr'[u] = thr[u]
        /\ thr'[t].pc = "return" /\ thr'[t].call = thr[t].call /\ thr'[t].file = NULL
    BY <1>1, <1>2, GotoFrame DEF PCs
  <2>2. Place(t)' /\ Pinned(t)'
    BY <1>1, <2>1 DEF Place, Pinned, DescriptorCalls, DirectoryCalls
  <2> QED BY <1>1, <1>2, <2>1, <2>2, DirectoryStep DEF BetweenLocks, DirectoryCalls, tables
<1>3. ASSUME NEW fd \in FDs, openFileDescTable[fd] = NULL, NEW f \in Files,
             f \in IF OpenFileOf(slot) = {} THEN NewFile ELSE OpenFileOf(slot),
             openFiles' = [openFiles EXCEPT ![f] =
                    IF openFiles[f] = NULL THEN [refCount |-> 1, slot |-> slot]
                    ELSE [openFiles[f] EXCEPT !.refCount = @ + 1]],
             thr' = [thr EXCEPT ![t] = Publishing(t, fd, f)]
      PROVE  IInv'
  <2>1. /\ thr' \in [Threads -> Frame] /\ \A u \in Threads \ {t} : thr'[u] = thr[u]
        /\ thr'[t].pc = "publish" /\ thr'[t].call = "open" /\ thr'[t].fd = fd /\ thr'[t].file = f
    <3>1. /\ Publishing(t, fd, f) \in Frame /\ Publishing(t, fd, f).pc = "publish"
          /\ Publishing(t, fd, f).call = "open"
          /\ Publishing(t, fd, f).fd = fd /\ Publishing(t, fd, f).file = f
      BY <1>1, ZenonT(60) DEF Publishing, Idle, Frame, PCs, Calls, DirectoryCalls
    <3> QED BY <1>1, <1>3, <3>1
  <2> DEFINE Rec == [refCount : Nat, slot : Slots \cup {NULL}]
  <2>2. /\ openFiles'[f] \in Rec /\ openFiles'[f] # NULL /\ openFiles'[f].slot = slot
        /\ openFiles'[f].refCount = IF openFiles[f] = NULL THEN 1 ELSE openFiles[f].refCount + 1
        /\ openFiles[f] # NULL => openFiles[f] \in Rec /\ openFiles[f].slot = slot
    <3>1. NULL \notin Rec BY LocksAssumption DEF Slots
    <3>2. CASE openFiles[f] = NULL
      <4>1. openFiles'[f] = [refCount |-> 1, slot |-> slot] BY <1>1, <1>3, <3>2
      <4> QED BY <1>1, <3>1, <3>2, <4>1
    <3>3. CASE openFiles[f] # NULL
      <4>1. openFiles'[f] = [openFiles[f] EXCEPT !.refCount = @ + 1] BY <1>1, <1>3, <3>3
      <4>2. openFiles[f] \in Rec BY <1>1, <3>3
      <4>3. openFiles[f].slot = slot BY <1>3, <3>3 DEF NewFile, OpenFileOf
      <4> QED BY <3>1, <3>3, <4>1, <4>2, <4>3
    <3> QED BY <3>2, <3>3
  <2>3. \A g \in Files \ {f} : openFiles'[g] = openFiles[g] BY <1>1, <1>3
  <2>4. openFiles' \in [Files -> Rec \cup {NULL}] BY <1>1, <1>3, <2>2
  <2>5. HasTable(t) /\ ~ Shared(t)
    BY <1>1 DEF HasTable, Shared, SharedCalls, DirectoryCalls
  <2>6. Refs(f)' = Refs(f) \cup {fd} /\ fd \notin Refs(f)
        /\ \A g \in Files \ {f} : Refs(g)' = Refs(g)
    <3>1. f # NULL BY LocksAssumption
    <3>2. fd \notin Refs(f) BY <1>1, <1>3, <2>1, <2>5, <3>1, RefsAlone
    <3>3. Refs(f)' = Refs(f) \cup {fd} BY <1>1, <1>3, <2>1, <2>5, RefsAlone
    <3>4. ASSUME NEW g \in Files \ {f} PROVE Refs(g)' = Refs(g)
      <4>1. /\ Refs(g) = {d \in FDs : \/ openFileDescTable[d] = g
                                      \/ /\ thr[t].pc \in {"publish", "set"}
                                         /\ thr[t].fd = d /\ thr[t].file = g}
            /\ Refs(g)' = {d \in FDs : \/ openFileDescTable'[d] = g
                                       \/ /\ thr'[t].pc \in {"publish", "set"}
                                          /\ thr'[t].fd = d /\ thr'[t].file = g}
        BY <2>1, <2>5, RefsAlone
      <4> QED BY <1>1, <2>1, <4>1
    <3> QED BY <3>2, <3>3, <3>4
  <2>7. Cardinality(Refs(f)') = Cardinality(Refs(f)) + 1
    BY <2>6, RefsFinite, LocksAssumption, FS_AddElement, SMTT(30)
  <2>8. Tables BY DEF IInv
  <2>9. openFiles'[f].refCount = Cardinality(Refs(f))'
    <3>1. CASE openFiles[f] = NULL
      <4>1. Refs(f) = {} BY <2>8, <3>1 DEF Tables
      <4> QED BY <2>2, <2>7, <3>1, <4>1, FS_EmptySet
    <3>2. CASE openFiles[f] # NULL BY <2>2, <2>7, <2>8, <3>2 DEF Tables
    <3> QED BY <3>1, <3>2
  <2>10. OpenFileOf(slot)' = {f}
    <3>1. OpenFileOf(slot) \subseteq {f}
      <4>1. CASE openFiles[f] = NULL
        <5>1. f \notin OpenFileOf(slot) BY <4>1 DEF OpenFileOf
        <5> QED BY <1>3, <5>1
      <4>2. CASE openFiles[f] # NULL
        <5>1. f \in OpenFileOf(slot) BY <2>2, <4>2 DEF OpenFileOf
        <5> QED BY <1>1, <2>8, <5>1 DEF Tables
      <4> QED BY <4>1, <4>2
    <3> QED BY <2>2, <2>3, <3>1 DEF OpenFileOf
  <2>11. \A s : s # slot => OpenFileOf(s)' = OpenFileOf(s) BY <2>2, <2>3 DEF OpenFileOf
  <2>12. Tables'
    <3>1. ASSUME NEW g \in Files
          PROVE  IF openFiles'[g] = NULL THEN Refs(g)' = {}
                 ELSE openFiles'[g].refCount = Cardinality(Refs(g))'
      <4>1. CASE g = f BY <2>2, <2>9, <4>1
      <4>2. CASE g # f
        <5>1. openFiles'[g] = openFiles[g] /\ Refs(g)' = Refs(g) BY <2>3, <2>6, <4>2
        <5> QED BY <2>8, <5>1 DEF Tables
      <4> QED BY <4>1, <4>2
    <3>2. ASSUME NEW s \in Slots, NEW g \in OpenFileOf(s)'
          PROVE  names'[s] # NULL /\ OpenFileOf(s)' = {g}
      <4>1. CASE s = slot BY <1>1, <2>10, <4>1
      <4>2. CASE s # slot
        <5>1. OpenFileOf(s)' = OpenFileOf(s) BY <2>11, <4>2
        <5>2. names[s] # NULL /\ OpenFileOf(s) = {g} BY <2>8, <5>1 DEF Tables
        <5> QED BY <1>1, <5>1, <5>2
      <4> QED BY <4>1, <4>2
    <3>3. \A s \in Slots : names'[s] # NULL => s <= nslots' BY <1>1, <2>8 DEF Tables
    <3> QED BY <3>1, <3>2, <3>3 DEF Tables
  <2>13. Place(t)' BY <1>3, <2>1 DEF Place
  <2>14. Pinned(t)' BY <1>1, <1>3, <2>1 DEF Pinned, DescriptorCalls
  <2>15. names' \in [Slots -> Names \cup {NULL}] /\ nslots' \in Slots /\ nslots <= nslots'
    BY <1>1, LocksAssumption DEF Slots
  <2> QED BY <1>1, <2>1, <2>4, <2>12, <2>13, <2>14, <2>15, DirectoryTableStep
      DEF BetweenLocks, DirectoryCalls
<1> QED BY <1>1, <1>2, <1>3 DEF AddOpenFile

LEMMA PublishKeeps ==
  ASSUME IInv, NEW t \in Threads, Publish(t)
  PROVE  IInv'
<1>0. PICK fd, f : fd = thr[t].fd /\ f = thr[t].file OBVIOUS
<1>1. /\ thr \in [Threads -> Frame] /\ Own(t) /\ thr[t].pc = "set" /\ thr[t].call = "open"
      /\ thr[t].fd = fd /\ thr[t].file = f /\ fd \in FDs /\ f \in Files /\ f # NULL
      /\ openFileDescTable[fd] = NULL /\ descriptorLocks[fd] = t
      /\ openFileDescTable \in [FDs -> Files \cup {NULL}]
      /\ descriptorLocks \in [FDs -> Threads \cup {NULL}]
      /\ openFileDescTable' = [openFileDescTable EXCEPT ![fd] = f]
      /\ descriptorLocks' = [descriptorLocks EXCEPT ![fd] = NULL]
      /\ UNCHANGED <<directoryLock, openTableLock, fileLock, allocationLock,
                     openFiles, names, nslots>>
  <2>1. thr[t].pc = "set" /\ Own(t) BY DEF IInv, Publish
  <2>2. thr[t].call = "open" /\ fd \in FDs /\ f \in Files BY <1>0, <2>1 DEF Own, Place
  <2>3. openFileDescTable[fd] = NULL BY <1>0, <2>1 DEF Own, Pinned
  <2>4. descriptorLocks[fd] = t BY <1>0, <2>1, <2>2 DEF Own, Descriptor, HasDescriptor
  <2> QED BY <1>0, <2>1, <2>2, <2>3, <2>4, LocksAssumption DEF IInv, TypeOK, Publish
<1>2. /\ thr' \in [Threads -> Frame] /\ \A u \in Threads \ {t} : thr'[u] = thr[u]
      /\ thr'[t].pc = "return" /\ thr'[t].call = "open" /\ thr'[t].file = NULL
  BY <1>1, GotoFrame DEF Publish, PCs
<1>3. HasTable(t) /\ ~ Shared(t)
  BY <1>1 DEF HasTable, Shared, SharedCalls, DirectoryCalls
<1>4. ASSUME NEW g \in Files PROVE Refs(g)' = Refs(g)
  <2>1. /\ Refs(g) = {d \in FDs : \/ openFileDescTable[d] = g
                                  \/ /\ thr[t].pc \in {"publish", "set"}
                                     /\ thr[t].fd = d /\ thr[t].file = g}
        /\ Refs(g)' = {d \in FDs : \/ openFileDescTable'[d] = g
                                   \/ /\ thr'[t].pc \in {"publish", "set"}
                                      /\ thr'[t].fd = d /\ thr'[t].file = g}
    BY <1>2, <1>3, RefsAlone
  <2>2. g # NULL BY LocksAssumption
  <2>3. ASSUME NEW d \in FDs
        PROVE  openFileDescTable'[d] = g <=> openFileDescTable[d] = g \/ (fd = d /\ f = g)
    BY <1>1, <2>2
  <2> QED BY <1>1, <1>2, <2>1, <2>3
<1>5. Tables'
  <2>1. \A s : OpenFileOf(s)' = OpenFileOf(s) BY <1>1 DEF OpenFileOf
  <2> QED BY <1>1, <1>4, <2>1 DEF IInv, Tables
<1>6. \A u \in Threads \ {t} : HoldersKept(u)
  BY <1>1, <1>2, LocksAssumption DEF HoldersKept
<1>7. TypeOK' /\ Exclusive(directoryLock)' /\ Exclusive(openTableLock)'
  BY <1>1, <1>2 DEF IInv, TypeOK, Exclusive
<1>8. Own(t)'
  <2>1. Place(t)' /\ Pinned(t)'
    BY <1>1, <1>2 DEF Place, Pinned, DescriptorCalls, DirectoryCalls
  <2>2. Directory(t)' /\ Table(t)' /\ File(t)' /\ Allocation(t)'
    BY <1>1, <1>2 DEF Own, Directory, Table, File, Allocation,
       HasDirectory, HasTable, HasFile, Shared
  <2>3. Descriptor(t)'
    BY <1>1, <1>2, LocksAssumption DEF Own, Descriptor, HasDescriptor, DescriptorCalls
  <2> QED BY <2>1, <2>2, <2>3 DEF Own
<1>9. nslots <= nslots' BY <1>1, LocksAssumption DEF IInv, TypeOK, Slots
<1> QED BY <1>1, <1>3, <1>5, <1>6, <1>7, <1>8, <1>9, TableStep

LEMMA UnlinkKeeps ==
  ASSUME IInv, NEW t \in Threads, Unlink(t)
  PROVE  IInv'
<1> DEFINE Rec == [refCount : Nat, slot : Slots \cup {NULL}]
<1>0. PICK slot, f : slot = thr[t].slot /\ f = thr[t].file OBVIOUS
<1>1. /\ thr \in [Threads -> Frame] /\ Own(t) /\ thr[t].pc = "unlink"
      /\ thr[t].call \in {"remove", "rename"} /\ nslots \in Slots
      /\ thr[t].call = "rename" => thr[t].new \in Names /\ thr[t].old \in 1 .. nslots
      /\ thr[t].slot = slot /\ thr[t].file = f /\ f \in Files
      /\ slot \in 1 .. nslots /\ slot \in Slots /\ slot # NULL
      /\ openFiles[f] # NULL /\ openFiles[f].slot = slot /\ fileLock[f] = t
      /\ openFiles \in [Files -> Rec \cup {NULL}]
      /\ fileLock \in [Files -> Threads \cup {NULL}]
      /\ openFiles' = [openFiles EXCEPT ![f].slot = NULL]
      /\ fileLock' = [fileLock EXCEPT ![f] = NULL]
      /\ thr' = [thr EXCEPT ![t].pc = "clear", ![t].file = NULL]
      /\ UNCHANGED <<directoryLock, openTableLock, descriptorLocks, allocationLock,
                     openFileDescTable, names, nslots>>
  <2>1. thr[t].pc = "unlink" /\ Own(t) /\ nslots \in Slots BY DEF IInv, TypeOK, Unlink
  <2>2. /\ thr[t].call \in {"remove", "rename"} /\ f \in Files /\ slot \in 1 .. nslots
        /\ thr[t].call = "rename" => thr[t].new \in Names /\ thr[t].old \in 1 .. nslots
    BY <1>0, <2>1 DEF Own, Place
  <2>3. slot \in Slots /\ slot # NULL /\ f # NULL BY <2>1, <2>2, LocksAssumption DEF Slots
  <2>4. openFiles[f] # NULL /\ openFiles[f].slot = slot BY <1>0, <2>1, <2>3 DEF Own, Pinned
  <2>5. fileLock[f] = t BY <1>0, <2>1, <2>2 DEF Own, File, HasFile
  <2> QED BY <1>0, <2>1, <2>2, <2>3, <2>4, <2>5 DEF IInv, TypeOK, Unlink
<1>2. thr'[t] = [thr[t] EXCEPT !.pc = "clear", !.file = NULL] BY <1>1
<1>3. /\ thr'[t] \in Frame /\ thr'[t].pc = "clear" /\ thr'[t].file = NULL
      /\ thr'[t].call = thr[t].call /\ thr'[t].slot = slot
      /\ thr'[t].old = thr[t].old /\ thr'[t].new = thr[t].new
  <2>1. thr[t] \in Frame /\ thr[t].slot = slot BY <1>1
  <2> QED BY <1>2, <2>1, ZenonT(60) DEF Frame, PCs
<1>4. thr' \in [Threads -> Frame] /\ \A u \in Threads \ {t} : thr'[u] = thr[u]
  BY <1>1, <1>3
<1>5. /\ openFiles'[f] \in Rec /\ openFiles'[f] # NULL /\ openFiles'[f].slot = NULL
      /\ openFiles'[f].refCount = openFiles[f].refCount
  <2>1. openFiles'[f] = [openFiles[f] EXCEPT !.slot = NULL] BY <1>1
  <2>2. openFiles[f] \in Rec BY <1>1
  <2>3. NULL \notin Rec BY LocksAssumption DEF Slots
  <2> QED BY <2>1, <2>2, <2>3
<1>6. \A g \in Files \ {f} : openFiles'[g] = openFiles[g] BY <1>1
<1>7. openFiles' \in [Files -> Rec \cup {NULL}] BY <1>1, <1>5
<1>8. HasTable(t) /\ ~ Shared(t)
  BY <1>1 DEF HasTable, Shared, SharedCalls, DirectoryCalls
<1>9. \A g \in Files : Refs(g)' = Refs(g)
  BY <1>1, <1>3, <1>4, RefsKept DEF SamePublished
<1>10. Tables BY DEF IInv
<1>11. OpenFileOf(slot)' = {}
  <2>1. f \in OpenFileOf(slot) BY <1>1 DEF OpenFileOf
  <2>2. OpenFileOf(slot) = {f} BY <1>1, <1>10, <2>1 DEF Tables
  <2> QED BY <1>1, <1>5, <1>6, <2>2 DEF OpenFileOf
<1>12. ASSUME NEW s \in Slots, s # slot PROVE OpenFileOf(s)' = OpenFileOf(s)
  <2>1. s # NULL BY LocksAssumption DEF Slots
  <2> QED BY <1>1, <1>5, <1>6, <1>12, <2>1 DEF OpenFileOf
<1>13. Tables'
  <2>1. ASSUME NEW g \in Files
        PROVE  IF openFiles'[g] = NULL THEN Refs(g)' = {}
               ELSE openFiles'[g].refCount = Cardinality(Refs(g))'
    <3>1. CASE g = f BY <1>1, <1>5, <1>9, <1>10, <3>1 DEF Tables
    <3>2. CASE g # f
      <4>1. openFiles'[g] = openFiles[g] /\ Refs(g)' = Refs(g) BY <1>6, <1>9, <3>2
      <4> QED BY <1>10, <4>1 DEF Tables
    <3> QED BY <3>1, <3>2
  <2>2. ASSUME NEW s \in Slots, NEW g \in OpenFileOf(s)'
        PROVE  names'[s] # NULL /\ OpenFileOf(s)' = {g}
    <3>1. OpenFileOf(s)' = OpenFileOf(s) BY <1>11, <1>12
    <3>2. names[s] # NULL /\ OpenFileOf(s) = {g} BY <1>10, <3>1 DEF Tables
    <3> QED BY <1>1, <3>1, <3>2
  <2>3. \A s \in Slots : names'[s] # NULL => s <= nslots' BY <1>1, <1>10 DEF Tables
  <2> QED BY <2>1, <2>2, <2>3 DEF Tables
<1>14. \A u \in Threads \ {t} : HoldersKept(u)
  BY <1>1, <1>4, LocksAssumption DEF HoldersKept
<1>15. TypeOK' /\ Exclusive(directoryLock)' /\ Exclusive(openTableLock)'
  BY <1>1, <1>4, <1>7 DEF IInv, TypeOK, Exclusive
<1>16. Own(t)'
  <2>1. Place(t)' BY <1>1, <1>3 DEF Place
  <2>2. OpenFileOf(thr[t].slot)' = {} BY <1>3, <1>11 DEF OpenFileOf
  <2>3. Pinned(t)' BY <1>1, <1>3, <2>2 DEF Pinned, DescriptorCalls
  <2>4. Directory(t)' /\ Table(t)' /\ Allocation(t)'
    BY <1>1, <1>3 DEF Own, Directory, Table, Allocation, HasDirectory, HasTable, Shared
  <2>5. File(t)' BY <1>1, <1>3, LocksAssumption DEF Own, File, HasFile
  <2>6. Descriptor(t)'
    BY <1>1, <1>3 DEF Own, Descriptor, HasDescriptor, DescriptorCalls
  <2> QED BY <2>1, <2>3, <2>4, <2>5, <2>6 DEF Own
<1>17. nslots <= nslots' BY <1>1, LocksAssumption DEF Slots
<1> QED BY <1>1, <1>8, <1>13, <1>14, <1>15, <1>16, <1>17, TableStep

(* A sfs_close that finds no open file has only its locks to give back, ... *)
LEMMA DetachNothing ==
  ASSUME IInv, NEW t \in Threads, thr[t].pc = "detach", openFileDescTable[thr[t].fd] = NULL,
         descriptorLocks' = [descriptorLocks EXCEPT ![thr[t].fd] = NULL], Goto(t, "return"),
         UNCHANGED <<directoryLock, openTableLock, fileLock, allocationLock, tables>>
  PROVE  IInv'
<1> USE DEF tables
<1>1. /\ thr \in [Threads -> Frame] /\ Own(t) /\ thr[t].call = "close" /\ thr[t].fd \in FDs
      /\ descriptorLocks[thr[t].fd] = t /\ descriptorLocks \in [FDs -> Threads \cup {NULL}]
  <2>1. Own(t) BY DEF IInv
  <2>2. thr[t].call = "close" /\ thr[t].fd \in FDs BY <2>1 DEF Own, Place
  <2> QED BY <2>1, <2>2 DEF IInv, TypeOK, Own, Descriptor, HasDescriptor
<1>2. /\ thr' \in [Threads -> Frame] /\ \A u \in Threads \ {t} : thr'[u] = thr[u]
      /\ thr'[t].pc = "return" /\ thr'[t].call = "close" /\ thr'[t].file = NULL
  BY <1>1, GotoFrame DEF PCs
<1>3. SamePublished(t) BY <1>2 DEF SamePublished
<1>4. \A u \in Threads \ {t} : HoldersKept(u)
  BY <1>1, <1>2, LocksAssumption DEF HoldersKept
<1>5. TypeOK' /\ Exclusive(directoryLock)' /\ Exclusive(openTableLock)'
  BY <1>1, <1>2 DEF IInv, TypeOK, Exclusive
<1>6. Own(t)'
  <2>1. Place(t)' /\ Pinned(t)'
    BY <1>1, <1>2 DEF Place, Pinned, TableCalls, DescriptorCalls
  <2>2. Directory(t)' /\ Table(t)' /\ File(t)' /\ Allocation(t)'
    BY <1>1, <1>2 DEF Own, Directory, Table, File, Allocation,
       HasDirectory, HasTable, HasFile, Shared, DirectoryCalls
  <2>3. Descriptor(t)'
    BY <1>1, <1>2, LocksAssumption DEF Own, Descriptor, HasDescriptor, DescriptorCalls
  <2> QED BY <2>1, <2>2, <2>3 DEF Own
<1> QED BY <1>3, <1>4, <1>5, <1>6, QuietStep

(* ... and one that does drops a reference. *)
LEMMA ReferenceDropped ==
  ASSUME IInv, NEW t \in Threads, HasTable(t), ~ Shared(t), thr[t].pc = "detach",
         NEW fd \in FDs, NEW f \in Files, openFileDescTable[fd] = f,
         openFileDescTable' = [openFileDescTable EXCEPT ![fd] = NULL],
         openFiles' = [openFiles EXCEPT ![f].refCount = @ - 1],
         UNCHANGED <<names, nslots>>,
         \A u \in Threads \ {t} : thr'[u] = thr[u], thr'[t].pc \notin {"publish", "set"}
  PROVE  /\ openFiles' \in [Files -> [refCount : Nat, slot : Slots \cup {NULL}] \cup {NULL}]
         /\ openFiles[f] # NULL /\ openFiles'[f] # NULL
         /\ openFiles[f].refCount = 1 => Refs(f)' = {}
         /\ Tables'
<1> DEFINE Rec == [refCount : Nat, slot : Slots \cup {NULL}]
<1>1. openFiles \in [Files -> Rec \cup {NULL}] /\ NULL \notin Rec /\ f # NULL /\ Tables
      /\ openFileDescTable \in [FDs -> Files \cup {NULL}]
  BY LocksAssumption DEF IInv, TypeOK, Slots
<1>2. ASSUME NEW g \in Files
      PROVE  /\ Refs(g) = {d \in FDs : openFileDescTable[d] = g}
             /\ Refs(g)' = {d \in FDs : openFileDescTable'[d] = g}
  BY RefsAlone
<1>3. fd \in Refs(f) /\ Refs(f)' = Refs(f) \ {fd} BY <1>1, <1>2
<1>4. ASSUME NEW g \in Files \ {f} PROVE Refs(g)' = Refs(g)
  <2>1. g # NULL BY LocksAssumption
  <2>2. \A d \in FDs : openFileDescTable'[d] = g <=> openFileDescTable[d] = g BY <1>1, <2>1
  <2>3. g \in Files OBVIOUS
  <2> QED BY <1>2, <2>2, <2>3
<1>5. Cardinality(Refs(f)') = Cardinality(Refs(f)) - 1 /\ Cardinality(Refs(f)) \in Nat
      /\ Cardinality(Refs(f)') \in Nat
  <2>1. IsFiniteSet(Refs(f)) BY RefsFinite, LocksAssumption
  <2>2. IsFiniteSet(Refs(f)') BY <1>3, <2>1, FS_Subset
  <2> QED BY <1>3, <2>1, <2>2, FS_RemoveElement, FS_CardinalityType
<1>6. openFiles[f] # NULL /\ openFiles[f].refCount = Cardinality(Refs(f)) /\ openFiles[f] \in Rec
  BY <1>1, <1>3 DEF Tables
<1>7. openFiles'[f] \in Rec /\ openFiles'[f] # NULL /\ openFiles'[f].slot = openFiles[f].slot
      /\ openFiles'[f].refCount = Cardinality(Refs(f)')
  <2>1. openFiles'[f] = [openFiles[f] EXCEPT !.refCount = @ - 1] BY <1>1
  <2>2. openFiles[f].refCount - 1 \in Nat BY <1>5, <1>6
  <2> QED BY <1>1, <1>5, <1>6, <2>1, <2>2
<1>8. \A g \in Files \ {f} : openFiles'[g] = openFiles[g] BY <1>1
<1>9. openFiles' \in [Files -> Rec \cup {NULL}] BY <1>1, <1>7
<1>10. openFiles[f].refCount = 1 => Refs(f)' = {}
  <2>1. IsFiniteSet(Refs(f)') BY <1>3, RefsFinite, LocksAssumption, FS_Subset
  <2> QED BY <1>5, <1>6, <2>1, FS_EmptySet
<1>11. \A s : OpenFileOf(s)' = OpenFileOf(s) BY <1>6, <1>7, <1>8 DEF OpenFileOf
<1>12. Tables'
  <2>1. ASSUME NEW g \in Files
        PROVE  IF openFiles'[g] = NULL THEN Refs(g)' = {}
               ELSE openFiles'[g].refCount = Cardinality(Refs(g))'
    <3>1. CASE g = f BY <1>7, <3>1
    <3>2. CASE g # f
      <4>1. openFiles'[g] = openFiles[g] /\ Refs(g)' = Refs(g) BY <1>4, <1>8, <3>2
      <4> QED BY <1>1, <4>1 DEF Tables
    <3> QED BY <3>1, <3>2
  <2> QED BY <1>1, <1>11, <2>1 DEF Tables
<1> QED BY <1>6, <1>7, <1>9, <1>10, <1>12

LEMMA DetachKeeps ==
  ASSUME IInv, NEW t \in Threads, Detach(t)
  PROVE  IInv'
<1>0. PICK fd, f : fd = thr[t].fd /\ f = openFileDescTable[fd] OBVIOUS
<1>1. /\ thr \in [Threads -> Frame] /\ Own(t) /\ thr[t].pc = "detach" /\ thr[t].call = "close"
      /\ thr[t].fd = fd /\ fd \in FDs /\ openFileDescTable[fd] = f /\ f \in Files \cup {NULL}
      /\ descriptorLocks[fd] = t
      /\ descriptorLocks \in [FDs -> Threads \cup {NULL}]
      /\ openFileDescTable \in [FDs -> Files \cup {NULL}]
  <2>1. thr[t].pc = "detach" /\ Own(t) BY DEF IInv, Detach
  <2>2. thr[t].call = "close" /\ fd \in FDs BY <1>0, <2>1 DEF Own, Place
  <2>3. descriptorLocks[fd] = t BY <1>0, <2>1, <2>2 DEF Own, Descriptor, HasDescriptor
  <2> QED BY <1>0, <2>1, <2>2, <2>3 DEF IInv, TypeOK
<1>2. CASE f = NULL BY <1>1, <1>2, DetachNothing DEF Detach, tables
<1>3. CASE f # NULL
  <2>1. /\ openFileDescTable' = [openFileDescTable EXCEPT ![fd] = NULL]
        /\ openFiles' = [openFiles EXCEPT ![f].refCount = @ - 1]
        /\ \/ /\ descriptorLocks' = [descriptorLocks EXCEPT ![fd] = NULL]
              /\ Goto(t, "return")
           \/ /\ openFiles[f].refCount = 1
              /\ UNCHANGED descriptorLocks
              /\ \E pc \in {"allocation", "destroy"} :
                    thr' = [thr EXCEPT ![t].file = f, ![t].pc = pc]
        /\ UNCHANGED <<directoryLock, openTableLock, fileLock, allocationLock, names, nslots>>
    BY <1>1, <1>3 DEF Detach
  <2>2. f \in Files BY <1>1, <1>3
  <2>3. /\ thr' \in [Threads -> Frame] /\ \A u \in Threads \ {t} : thr'[u] = thr[u]
        /\ thr'[t].call = "close"
        /\ \/ /\ descriptorLocks' = [descriptorLocks EXCEPT ![fd] = NULL]
              /\ thr'[t].pc = "return" /\ thr'[t].file = NULL
           \/ /\ openFiles[f].refCount = 1 /\ UNCHANGED descriptorLocks
              /\ thr'[t].pc \in {"allocation", "destroy"} /\ thr'[t].file = f /\ thr'[t].fd = fd
    <3>1. CASE /\ descriptorLocks' = [descriptorLocks EXCEPT ![fd] = NULL]
               /\ Goto(t, "return")
      BY <1>1, <3>1, GotoFrame DEF PCs
    <3>2. CASE /\ openFiles[f].refCount = 1
               /\ UNCHANGED descriptorLocks
               /\ \E pc \in {"allocation", "destroy"} :
                     thr' = [thr EXCEPT ![t].file = f, ![t].pc = pc]
      <4>1. PICK pc \in {"allocation", "destroy"} :
                     thr' = [thr EXCEPT ![t].file = f, ![t].pc = pc]
        BY <3>2
      <4>2. thr'[t] = [thr[t] EXCEPT !.file = f, !.pc = pc] BY <1>1, <4>1
      <4>3. /\ thr'[t] \in Frame /\ thr'[t].pc = pc /\ thr'[t].file = f
            /\ thr'[t].call = "close" /\ thr'[t].fd = fd
        <5>1. thr[t] \in Frame /\ thr[t].call = "close" /\ thr[t].fd = fd BY <1>1
        <5>2. pc \in PCs /\ f \in Files \cup {NULL} BY <1>1 DEF PCs
        <5> QED BY <4>2, <5>1, <5>2 DEF Frame
      <4> QED BY <1>1, <3>2, <4>1, <4>3
    <3> QED BY <2>1, <3>1, <3>2
  <2>4. HasTable(t) /\ ~ Shared(t)
    BY <1>1 DEF HasTable, Shared, SharedCalls, TableCalls
  <2>5. /\ openFiles' \in [Files -> [refCount : Nat, slot : Slots \cup {NULL}] \cup {NULL}]
        /\ openFiles'[f] # NULL /\ openFiles[f].refCount = 1 => Refs(f)' = {}
    BY <1>1, <2>1, <2>2, <2>3, <2>4, ReferenceDropped
  <2>6. openFiles'[f] # NULL /\ Tables' BY <1>1, <2>1, <2>2, <2>3, <2>4, ReferenceDropped
  <2>7. \A u \in Threads \ {t} : HoldersKept(u)
    BY <1>1, <2>1, <2>3, LocksAssumption DEF HoldersKept
  <2>8. TypeOK' /\ Exclusive(directoryLock)' /\ Exclusive(openTableLock)'
    BY <1>1, <2>1, <2>3, <2>5 DEF IInv, TypeOK, Exclusive
  <2>9. Own(t)'
    <3>1. Place(t)' BY <1>1, <2>2, <2>3 DEF Place, TableCalls
    <3>2. thr'[t].file # NULL => thr'[t].file = f /\ openFiles[f].refCount = 1 BY <2>3
    <3>3. thr'[t].file # NULL => Refs(thr[t].file)' = {} BY <2>5, <2>6, <3>2 DEF Refs
    <3>4. Pinned(t)' BY <1>1, <2>3, <2>6, <3>2, <3>3 DEF Pinned, DescriptorCalls
    <3>5. Directory(t)' /\ Table(t)' /\ File(t)' /\ Allocation(t)'
      BY <1>1, <2>1, <2>3 DEF Own, Directory, Table, File, Allocation,
         HasDirectory, HasTable, HasFile, Shared, DirectoryCalls
    <3>6. Descriptor(t)'
      BY <1>1, <2>3, LocksAssumption DEF Own, Descriptor, HasDescriptor, DescriptorCalls
    <3> QED BY <3>1, <3>4, <3>5, <3>6 DEF Own
  <2>10. nslots <= nslots' BY <2>1, LocksAssumption DEF IInv, TypeOK, Slots
  <2> QED BY <1>1, <2>1, <2>4, <2>6, <2>7, <2>8, <2>9, <2>10, TableStep
<1> QED BY <1>2, <1>3

LEMMA DestroyKeeps ==
  ASSUME IInv, NEW t \in Threads, Destroy(t)
  PROVE  IInv'
<1> DEFINE Rec == [refCount : Nat, slot : Slots \cup {NULL}]
<1>0. PICK fd, f : fd = thr[t].fd /\ f = thr[t].file OBVIOUS
<1>1. /\ thr \in [Threads -> Frame] /\ Own(t) /\ thr[t].pc = "destroy" /\ thr[t].call = "close"
      /\ thr[t].fd = fd /\ fd \in FDs /\ thr[t].file = f /\ f \in Files
      /\ Refs(f) = {} /\ descriptorLocks[fd] = t
      /\ openFiles \in [Files -> Rec \cup {NULL}]
      /\ descriptorLocks \in [FDs -> Threads \cup {NULL}]
      /\ openFiles' = [openFiles EXCEPT ![f] = NULL]
      /\ descriptorLocks' = [descriptorLocks EXCEPT ![fd] = NULL]
      /\ UNCHANGED <<directoryLock, openTableLock, fileLock, allocationLock,
                     openFileDescTable, names, nslots>>
  <2>1. thr[t].pc = "destroy" /\ Own(t) BY DEF IInv, Destroy
  <2>2. thr[t].call = "close" /\ fd \in FDs /\ f \in Files BY <1>0, <2>1 DEF Own, Place
  <2>3. descriptorLocks[fd] = t BY <1>0, <2>1, <2>2 DEF Own, Descriptor, HasDescriptor
  <2>4. Refs(f) = {} BY <1>0, <2>1, <2>2, LocksAssumption DEF Own, Pinned
  <2> QED BY <1>0, <2>1, <2>2, <2>3, <2>4 DEF IInv, TypeOK, Destroy
<1>2. /\ thr' \in [Threads -> Frame] /\ \A u \in Threads \ {t} : thr'[u] = thr[u]
      /\ thr'[t].pc = "return" /\ thr'[t].call = "close" /\ thr'[t].file = NULL
  BY <1>1, GotoFrame DEF Destroy, PCs
<1>3. HasTable(t) /\ ~ Shared(t)
  BY <1>1 DEF HasTable, Shared, SharedCalls, TableCalls
<1>4. openFiles' \in [Files -> Rec \cup {NULL}] /\ openFiles'[f] = NULL
      /\ \A g \in Files \ {f} : openFiles'[g] = openFiles[g]
  BY <1>1
<1>5. \A g \in Files : Refs(g)' = Refs(g)
  BY <1>1, <1>2, RefsKept DEF SamePublished
<1>6. \A s : OpenFileOf(s)' = OpenFileOf(s) \ {f} BY <1>4 DEF OpenFileOf
<1>7. Tables'
  <2>1. Tables BY DEF IInv
  <2>2. ASSUME NEW g \in Files
        PROVE  IF openFiles'[g] = NULL THEN Refs(g)' = {}
               ELSE openFiles'[g].refCount = Cardinality(Refs(g))'
    <3>1. CASE g = f BY <1>1, <1>4, <1>5, <3>1
    <3>2. CASE g # f
      <4>1. openFiles'[g] = openFiles[g] /\ Refs(g)' = Refs(g) BY <1>4, <1>5, <3>2
      <4> QED BY <2>1, <4>1 DEF Tables
    <3> QED BY <3>1, <3>2
  <2>3. ASSUME NEW s \in Slots, NEW g \in OpenFileOf(s)'
        PROVE  names'[s] # NULL /\ OpenFileOf(s)' = {g}
    BY <1>1, <1>6, <2>1 DEF Tables
  <2> QED BY <1>1, <2>1, <2>2, <2>3 DEF Tables
<1>8. \A u \in Threads \ {t} : HoldersKept(u)
  BY <1>1, <1>2, LocksAssumption DEF HoldersKept
<1>9. TypeOK' /\ Exclusive(directoryLock)' /\ Exclusive(openTableLock)'
  BY <1>1, <1>2, <1>4 DEF IInv, TypeOK, Exclusive
<1>10. Own(t)'
  <2>1. Place(t)' /\ Pinned(t)'
    BY <1>1, <1>2 DEF Place, Pinned, TableCalls, DescriptorCalls
  <2>2. Directory(t)' /\ Table(t)' /\ File(t)' /\ Allocation(t)'
    BY <1>1, <1>2 DEF Own, Directory, Table, File, Allocation,
       HasDirectory, HasTable, HasFile, Shared, DirectoryCalls
  <2>3. Descriptor(t)'
    BY <1>1, <1>2, LocksAssumption DEF Own, Descriptor, HasDescriptor, DescriptorCalls
  <2> QED BY <2>1, <2>2, <2>3 DEF Own
<1>11. nslots <= nslots' BY <1>1, LocksAssumption DEF IInv, TypeOK, Slots
<1> QED BY <1>1, <1>3, <1>7, <1>8, <1>9, <1>10, <1>11, TableStep

-----------------------------------------------------------------------------
(* The invariant *)

LEMMA InitKeeps == Init => IInv
<1> SUFFICES ASSUME Init PROVE IInv OBVIOUS
<1>1. \A t \in Threads : thr[t] = Idle BY DEF Init
<1>2. Idle \in Frame /\ Idle.pc = "idle" /\ Idle.call = NULL /\ Idle.file = NULL
  BY DEF Idle, Frame, PCs
<1>3. \A f \in Files : Refs(f) = {}
  BY <1>1, <1>2, LocksAssumption DEF Refs, Init
<1>4. TypeOK BY <1>2, LocksAssumption DEF Init, TypeOK, Free, Lock, Slots
<1>5. Exclusive(directoryLock) /\ Exclusive(openTableLock) BY DEF Init, Exclusive, Free
<1>6. Tables BY <1>3 DEF Tables, Init, OpenFileOf
<1>7. ASSUME NEW t \in Threads PROVE Own(t)
  <2>1. Place(t) /\ Pinned(t) BY <1>1, <1>2, LocksAssumption DEF Place, Pinned, DescriptorCalls
  <2>2. Directory(t) /\ Table(t) /\ File(t) /\ Allocation(t)
    BY <1>1, <1>2, LocksAssumption DEF Init, Free, Directory, Table, File, Allocation,
       HasDirectory, HasTable, HasFile, DirectoryCalls, TableCalls
  <2>3. Descriptor(t)
    BY <1>1, <1>2, LocksAssumption DEF Init, Descriptor, HasDescriptor, DescriptorCalls
  <2> QED BY <2>1, <2>2, <2>3 DEF Own
<1> QED BY <1>4, <1>5, <1>6, <1>7 DEF IInv

LEMMA StutterKeeps == IInv /\ UNCHANGED vars => IInv'
<1> SUFFICES ASSUME IInv, UNCHANGED vars PROVE IInv' OBVIOUS
<1>1. UNCHANGED <<locks, tables, thr>> BY DEF vars
<1> USE DEF locks, tables
<1>2. TypeOK' /\ Exclusive(directoryLock)' /\ Exclusive(openTableLock)'
  BY <1>1 DEF IInv, TypeOK, Exclusive
<1>3. \A f : Refs(f)' = Refs(f) BY <1>1 DEF Refs
<1>4. \A s : OpenFileOf(s)' = OpenFileOf(s) BY <1>1 DEF OpenFileOf
<1>5. Tables' BY <1>1, <1>3, <1>4 DEF IInv, Tables
<1>6. ASSUME NEW t \in Threads PROVE Own(t)'
  <2>1. Own(t) BY DEF IInv
  <2>2. Place(t)' BY <1>1, <2>1 DEF Own, Place
  <2>3. Pinned(t)' BY <1>1, <1>3, <1>4, <2>1 DEF Own, Pinned
  <2>4. Directory(t)' /\ Table(t)' /\ File(t)' /\ Allocation(t)'
    BY <1>1, <2>1 DEF Own, Directory, Table, File, Allocation, HasDirectory, HasTable, HasFile, Shared
  <2>5. Descriptor(t)' BY <1>1, <2>1 DEF Own, Descriptor, HasDescriptor, ToLock
  <2> QED BY <2>2, <2>3, <2>4, <2>5 DEF Own
<1> QED BY <1>2, <1>5, <1>6 DEF IInv

LEMMA NextKeeps == IInv /\ [Next]_vars => IInv'
<1> SUFFICES ASSUME IInv, Next PROVE IInv'
  BY StutterKeeps
<1> PICK t \in Threads : Call(t) \/ Step(t) BY DEF Next
<1>1. CASE Call(t) BY <1>1, CallKeeps
<1>2. CASE LockDirectory(t) \/ LockTable(t) \/ Return(t) \/ Count(t)
           \/ LockAllocation(t) \/ Allocate(t)
  BY <1>2, LockDirectoryKeeps, LockTableKeeps, ReturnKeeps, CountKeeps, LockAllocationKeeps,
     AllocateKeeps
<1>3. CASE LockDescriptor(t) \/ Load(t) \/ GetPos(t) \/ LockFile(t) \/ InputOutput(t)
           \/ Collect(t) \/ LockSlots(t)
  BY <1>3, LockDescriptorKeeps, LoadKeeps, GetPosKeeps, LockFileKeeps, InputOutputKeeps,
     CollectKeeps, LockSlotsKeeps
<1>4. CASE Detach(t) \/ Destroy(t) BY <1>4, DetachKeeps, DestroyKeeps
<1>5. CASE Find(t) \/ Look(t) \/ NotFound(t) \/ Expand(t) \/ Create(t)
  BY <1>5, FindKeeps, LookKeeps, NotFoundKeeps, ExpandKeeps, CreateKeeps
<1>6. CASE AddOpenFile(t) \/ LockPublish(t) \/ Publish(t)
  BY <1>6, AddOpenFileKeeps, LockPublishKeeps, PublishKeeps
<1>7. CASE FindOpen(t) \/ Unlink(t) \/ Clear(t) \/ Name(t)
  BY <1>7, FindOpenKeeps, UnlinkKeeps, ClearKeeps, NameKeeps
<1> QED BY <1>1, <1>2, <1>3, <1>4, <1>5, <1>6, <1>7 DEF Step

(* Every thread is at a place that its call has, holds the locks that the place implies *)
(* and no others, and the tables agree with each other and with what it knows of them.  *)
THEOREM LocksInvariant == Spec => []IInv
BY InitKeeps, NextKeeps, PTL DEF Spec

-----------------------------------------------------------------------------
(* What it implies *)

(* A call that has returned holds no lock, whichever of its paths it took. *)
THEOREM IdleHoldsNothingCorrect == Spec => []IdleHoldsNothing
<1>1. IInv => IdleHoldsNothing
  <2> SUFFICES ASSUME IInv, NEW t \in Threads, thr[t].pc = "idle"
               PROVE  /\ t \notin HoldersOf(directoryLock) \cup HoldersOf(openTableLock)
                      /\ \A fd \in FDs : descriptorLocks[fd] # t
                      /\ \A f \in Files : fileLock[f] # t
                      /\ allocationLock # t
    BY DEF IdleHoldsNothing
  <2>1. Own(t) BY DEF IInv
  <2>2. t \notin HoldersOf(directoryLock) \cup HoldersOf(openTableLock)
    BY <2>1 DEF Own, Directory, Table, HasDirectory, HasTable, HoldersOf
  <2>3. \A fd \in FDs : descriptorLocks[fd] # t
    BY <2>1 DEF Own, Place, Descriptor, HasDescriptor
  <2>4. (\A f \in Files : fileLock[f] # t) /\ allocationLock # t
    BY <2>1 DEF Own, File, Allocation, HasFile
  <2> QED BY <2>2, <2>3, <2>4
<1> QED BY <1>1, LocksInvariant, PTL

(* The open file that a call works on through a descriptor is on the heap, because some *)
(* descriptor still refers to it.                                                       *)
LEMMA ReferredLive ==
  ASSUME IInv, NEW f \in Files, NEW fd \in FDs, openFileDescTable[fd] = f
  PROVE  openFiles[f] # NULL /\ Refs(f) # {}
<1>1. fd \in Refs(f) BY DEF Refs
<1> QED BY <1>1 DEF IInv, Tables

LEMMA WorkedOnLive ==
  ASSUME IInv, NEW t \in Threads, thr[t].file # NULL,
         \/ thr[t].pc \in {"lockIO", "io", "store", "lockLook", "look", "lockUnlink", "unlink"}
         \/ thr[t].call \in {"write", "ftruncate"} /\ thr[t].pc \in {"allocation", "allocate"}
  PROVE  thr[t].file \in Files /\ openFiles[thr[t].file] # NULL
<1>1. Own(t) /\ thr[t] \in Frame BY DEF IInv, TypeOK
<1>2. thr[t].file \in Files BY <1>1 DEF Frame
<1>3. CASE thr[t].pc \in {"lockLook", "look", "lockUnlink", "unlink"}
  BY <1>1, <1>2, <1>3 DEF Own, Pinned
<1>4. CASE thr[t].call = "ftruncate"
  <2>1. PICK fd \in FDs : openFileDescTable[fd] = thr[t].file BY <1>1, <1>4 DEF Own, Pinned
  <2> QED BY <1>2, <2>1, ReferredLive
<1>5. CASE thr[t].call \in {"read", "write"}
  <2>1. openFileDescTable[thr[t].fd] = thr[t].file
    BY <1>1, <1>5 DEF Own, Pinned, DescriptorCalls
  <2>2. thr[t].fd \in FDs BY <1>1, <1>5, <1>2 DEF Own, Place, DirectoryCalls, TableCalls
  <2> QED BY <1>2, <2>1, <2>2, ReferredLive
<1> QED BY <1>1, <1>2, <1>3, <1>4, <1>5 DEF Own, Place

(* Nobody uses an open file that sfs_close has freed, or waits for its lock; and the one *)
(* that lockDescriptor read is that of the descriptor until the call unlocks it.         *)
THEOREM FilesPinnedCorrect == Spec => []FilesPinned
<1>1. IInv => FilesPinned
  <2> SUFFICES ASSUME IInv, NEW t \in Threads
               PROVE  /\ thr[t].pc \in {"lockIO", "io", "store", "lockLook", "look", "lockUnlink",
                                        "unlink"}
                           => (thr[t].file # NULL => openFiles[thr[t].file] # NULL)
                      /\ thr[t].call \in DescriptorCalls /\ thr[t].file # NULL
                           => openFileDescTable[thr[t].fd] = thr[t].file
    BY DEF FilesPinned
  <2>1. Own(t) BY DEF IInv
  <2> QED BY <2>1, WorkedOnLive DEF Own, Pinned
<1> QED BY <1>1, LocksInvariant, PTL

(* The mutex that sfs_close destroys with an open file is not locked. *)
THEOREM NoLockedDestroyCorrect == Spec => []NoLockedDestroy
<1>1. IInv => NoLockedDestroy
  <2> SUFFICES ASSUME IInv, NEW f \in Files, fileLock[f] # NULL PROVE openFiles[f] # NULL
    BY DEF NoLockedDestroy
  <2>1. PICK t \in Threads : fileLock[f] = t BY DEF IInv, TypeOK
  <2>2. HasFile(t) /\ thr[t].file = f BY <2>1 DEF IInv, Own, File
  <2>3. f # NULL BY LocksAssumption
  <2> QED BY <2>2, <2>3, WorkedOnLive DEF HasFile
<1> QED BY <1>1, LocksInvariant, PTL

-----------------------------------------------------------------------------
(* No circle of waiting threads *)

(* The place in the order of the locks of the one that thread t is waiting for: the *)
(* directory, the table, the descriptors by number, the open files, the allocator.  *)
WaitsAt(t, rank) ==
    \/ thr[t].pc = "directory" /\ rank = 0
    \/ thr[t].pc = "table" /\ rank = 1
    \/ thr[t].pc \in {"descriptor", "publish"} /\ rank = 2 + thr[t].fd
    \/ /\ thr[t].pc = "lockSlots"
       /\ \E fd \in ToLock(t) : rank = 2 + fd /\ \A other \in ToLock(t) : fd <= other
    \/ thr[t].pc \in {"lockIO", "lockLook", "lockUnlink"} /\ rank = 2 + OPEN_FILE_LIMIT
    \/ thr[t].pc = "allocation" /\ rank = 3 + OPEN_FILE_LIMIT

LEMMA WaitsAtOne ==
  ASSUME NEW t, NEW p, NEW q, WaitsAt(t, p), WaitsAt(t, q)
  PROVE  p = q
<1>1. CASE thr[t].pc = "lockSlots"
  <2>1. PICK d \in ToLock(t) : p = 2 + d /\ \A other \in ToLock(t) : d <= other
    BY <1>1 DEF WaitsAt
  <2>2. PICK e \in ToLock(t) : q = 2 + e /\ \A other \in ToLock(t) : e <= other
    BY <1>1 DEF WaitsAt
  <2>3. d \in Int /\ e \in Int BY <2>1, <2>2 DEF ToLock, FDs
  <2> QED BY <2>1, <2>2, <2>3
<1>2. CASE thr[t].pc # "lockSlots" BY <1>2 DEF WaitsAt
<1> QED BY <1>1, <1>2

(* A thread that holds a descriptor waits for nothing below it. *)
LEMMA DescriptorHolder ==
  ASSUME IInv, NEW v \in Threads, NEW fd \in FDs, descriptorLocks[fd] = v,
         NEW rank, WaitsAt(v, rank)
  PROVE  2 + fd < rank
<1>1. Own(v) /\ OPEN_FILE_LIMIT \in Nat /\ fd \in Nat /\ fd < OPEN_FILE_LIMIT
  BY LocksAssumption DEF IInv, FDs
<1>2. CASE thr[v].pc = "lockSlots"
  <2>1. PICK d \in ToLock(v) : rank = 2 + d BY <1>2 DEF WaitsAt
  <2>2. fd < d BY <1>1, <1>2, <2>1 DEF Own, Descriptor
  <2>3. d \in Nat BY <2>1 DEF ToLock, FDs
  <2> QED BY <1>1, <2>1, <2>2, <2>3
<1>3. CASE thr[v].pc # "lockSlots"
  <2>1. HasDescriptor(v, fd) BY <1>1, <1>3 DEF Own, Descriptor
  <2>2. thr[v].pc \notin {"directory", "table", "descriptor", "publish", "lockSlots"}
    BY <1>1, <1>3, <2>1 DEF HasDescriptor, Own, Place, DescriptorCalls, DirectoryCalls, TableCalls
  <2>3. rank = 2 + OPEN_FILE_LIMIT \/ rank = 3 + OPEN_FILE_LIMIT BY <2>2 DEF WaitsAt
  <2> QED BY <1>1, <2>3
<1> QED BY <1>2, <1>3

(* Whoever waits for a lock has it only before locks that come later in the order. *)
LEMMA LaterOnly ==
  ASSUME IInv, NEW t \in Threads, NEW v \in WaitsFor(t), v \in Threads
  PROVE  \E r \in 0 .. 3 + OPEN_FILE_LIMIT :
            WaitsAt(t, r) /\ \A q : WaitsAt(v, q) => r < q
<1>1. Own(t) /\ Own(v) /\ OPEN_FILE_LIMIT \in Nat /\ v # NULL
      /\ \A fd \in FDs : fd \in Nat /\ fd < OPEN_FILE_LIMIT
  BY LocksAssumption DEF IInv, FDs
<1>2. CASE thr[t].pc = "directory"
  <2>1. v \in HoldersOf(directoryLock) BY <1>2 DEF WaitsFor
  <2>2. HasDirectory(v) BY <1>1, <2>1 DEF HoldersOf, Own, Directory
  <2>3. ASSUME NEW q, WaitsAt(v, q) PROVE 0 < q
    <3>1. thr[v].pc # "directory" /\ thr[v].call \in DirectoryCalls BY <2>2 DEF HasDirectory
    <3>2. thr[v].pc \in {"descriptor", "publish"} => thr[v].fd \in FDs BY <1>1 DEF Own, Place
    <3> QED BY <1>1, <2>3, <3>1, <3>2 DEF WaitsAt, ToLock
  <2>4. WaitsAt(t, 0) /\ 0 \in 0 .. 3 + OPEN_FILE_LIMIT BY <1>1, <1>2 DEF WaitsAt
  <2> QED BY <2>3, <2>4
<1>3. CASE thr[t].pc = "table"
  <2>1. v \in HoldersOf(openTableLock) BY <1>3 DEF WaitsFor
  <2>2. HasTable(v) BY <1>1, <2>1 DEF HoldersOf, Own, Table
  <2>3. ASSUME NEW q, WaitsAt(v, q) PROVE 1 < q
    <3>1. thr[v].pc # "directory" /\ thr[v].pc # "table" BY <2>2 DEF HasTable
    <3>2. thr[v].pc \in {"descriptor", "publish"} => thr[v].fd \in FDs BY <1>1 DEF Own, Place
    <3> QED BY <1>1, <2>3, <3>1, <3>2 DEF WaitsAt, ToLock
  <2>4. WaitsAt(t, 1) /\ 1 \in 0 .. 3 + OPEN_FILE_LIMIT BY <1>1, <1>3 DEF WaitsAt
  <2> QED BY <2>3, <2>4
<1>4. CASE thr[t].pc \in {"descriptor", "publish"}
  <2>1. descriptorLocks[thr[t].fd] = v BY <1>4 DEF WaitsFor
  <2>2. thr[t].fd \in FDs BY <1>1, <1>4 DEF Own, Place
  <2>3. \A q : WaitsAt(v, q) => 2 + thr[t].fd < q BY <2>1, <2>2, DescriptorHolder
  <2>4. WaitsAt(t, 2 + thr[t].fd) /\ 2 + thr[t].fd \in 0 .. 3 + OPEN_FILE_LIMIT
    BY <1>1, <1>4, <2>2 DEF WaitsAt
  <2> QED BY <2>3, <2>4
<1>5. CASE thr[t].pc = "lockSlots"
  <2>1. PICK fd \in ToLock(t) : /\ \A other \in ToLock(t) : fd <= other
                                /\ descriptorLocks[fd] = v
    BY <1>5 DEF WaitsFor
  <2>2. fd \in FDs BY <2>1 DEF ToLock
  <2>3. \A q : WaitsAt(v, q) => 2 + fd < q BY <2>1, <2>2, DescriptorHolder
  <2>4. WaitsAt(t, 2 + fd) /\ 2 + fd \in 0 .. 3 + OPEN_FILE_LIMIT
    BY <1>1, <1>5, <2>1, <2>2 DEF WaitsAt
  <2> QED BY <2>3, <2>4
<1>6. CASE thr[t].pc \in {"lockIO", "lockLook", "lockUnlink"}
  <2>1. fileLock[thr[t].file] = v BY <1>6 DEF WaitsFor
  <2>2. thr[t].file \in Files BY <1>1, <1>6 DEF Own, Place
  <2>3. HasFile(v) BY <1>1, <2>1, <2>2 DEF Own, File
  <2>4. ASSUME NEW q, WaitsAt(v, q) PROVE 2 + OPEN_FILE_LIMIT < q
    BY <1>1, <2>3, <2>4 DEF WaitsAt, HasFile
  <2>5. WaitsAt(t, 2 + OPEN_FILE_LIMIT) /\ 2 + OPEN_FILE_LIMIT \in 0 .. 3 + OPEN_FILE_LIMIT
    BY <1>1, <1>6 DEF WaitsAt
  <2> QED BY <2>4, <2>5
<1>7. CASE thr[t].pc = "allocation"
  <2>1. allocationLock = v BY <1>7 DEF WaitsFor
  <2>2. thr[v].pc = "allocate" BY <1>1, <2>1 DEF Own, Allocation
  <2>3. \A q : ~ WaitsAt(v, q) BY <2>2 DEF WaitsAt
  <2>4. WaitsAt(t, 3 + OPEN_FILE_LIMIT) /\ 3 + OPEN_FILE_LIMIT \in 0 .. 3 + OPEN_FILE_LIMIT
    BY <1>1, <1>7 DEF WaitsAt
  <2> QED BY <2>3, <2>4
<1>8. CASE thr[t].pc \notin {"directory", "table", "descriptor", "publish", "lockSlots",
                             "lockIO", "lockLook", "lockUnlink", "allocation"}
  BY <1>8 DEF WaitsFor
<1> QED BY <1>2, <1>3, <1>4, <1>5, <1>6, <1>7, <1>8

(* Every call takes the locks in one order, the descriptors among themselves too, so no *)
(* threads wait for each other in a circle: of those that wait for a lock of a set of   *)
(* threads, one waits for a lock so late in the order that its holder does not.         *)
THEOREM NoWaitCycleCorrect == Spec => []NoWaitCycle
<1>1. IInv => NoWaitCycle
  <2> SUFFICES ASSUME IInv, NEW S \in (SUBSET Threads) \ {{}},
                      \A t \in S : WaitsFor(t) \cap S # {}
               PROVE  FALSE
    BY DEF NoWaitCycle
  <2> DEFINE last == 3 + OPEN_FILE_LIMIT
             R == {r \in 0 .. last : \E t \in S : WaitsAt(t, r)}
  <2>1. last \in Nat BY LocksAssumption
  <2>2. ASSUME NEW t \in S
        PROVE  \E v \in S, r \in 0 .. last : WaitsAt(t, r) /\ \A q : WaitsAt(v, q) => r < q
    <3>1. PICK v \in S : v \in WaitsFor(t) OBVIOUS
    <3> QED BY <3>1, LaterOnly
  <2>3. R # {}
    <3>1. S # {} OBVIOUS
    <3>2. PICK t : t \in S
      <4> HIDE DEF R, last
      <4> QED BY <3>1
    <3>3. \E r \in 0 .. last : WaitsAt(t, r) BY <2>2, <3>2
    <3> QED BY <3>2, <3>3
  <2>4. PICK m \in R : \A r \in R : r <= m
    <3> HIDE DEF R, last
    <3>1. R \in SUBSET (0 .. last) BY DEF R
    <3> QED BY <2>1, <2>3, <3>1, GreatestElement
  <2>5. PICK t \in S : WaitsAt(t, m) BY <2>4
  <2>6. PICK v \in S, r \in 0 .. last : WaitsAt(t, r) /\ \A q : WaitsAt(v, q) => r < q
    BY <2>2
  <2>7. PICK q \in 0 .. last : WaitsAt(v, q) BY <2>2
  <2>8. q \in R /\ r < q /\ m \in Nat BY <2>1, <2>4, <2>6, <2>7
  <2>9. r = m BY <2>5, <2>6, WaitsAtOne
  <2>10. q <= m BY <2>4, <2>8
  <2> QED BY <2>7, <2>8, <2>9, <2>10
<1> QED BY <1>1, LocksInvariant, PTL

-----------------------------------------------------------------------------
(* No races *)

Kinds == {"slot", "position", "file", "copy", "count", "entry", "name", "table", "chain", "freelist"}

Writer(t) == HasTable(t) /\ ~ Shared(t)

(* An entry is guarded by the lock of the file that is open on it, or by the table while *)
(* there is none.                                                                        *)
EntryGuarded(t, slot) ==
    /\ slot \in Slots
    /\ \/ \E f \in OpenFileOf(slot) : fileLock[f] = t
       \/ HasTable(t) /\ OpenFileOf(slot) = {}

(* What a thread holds when it is about to read memory, ... *)
GuardedRead(t, x) ==
    /\ x[1] \in Kinds \ {"count", "freelist"}
    /\ x[1] = "slot"     => x[2] \in FDs /\ (descriptorLocks[x[2]] = t \/ HasTable(t))
    /\ x[1] = "position" => x[2] \in FDs /\ descriptorLocks[x[2]] = t
    /\ x[1] = "file"     => x[2] \in Files /\ (fileLock[x[2]] = t \/ HasTable(t))
    /\ x[1] = "copy"     => x[2] \in Files /\ fileLock[x[2]] = t
    /\ x[1] = "entry"    => EntryGuarded(t, x[2])
    /\ x[1] = "table"    => HasTable(t)
    /\ x[1] \in {"name", "chain"} => HasDirectory(t)

(* ... and to write it. *)
GuardedWrite(t, x) ==
    /\ x[1] \in Kinds
    /\ x[1] = "slot"     => x[2] \in FDs /\ descriptorLocks[x[2]] = t /\ Writer(t)
    /\ x[1] = "position" => x[2] \in FDs /\ descriptorLocks[x[2]] = t
    /\ x[1] = "file"     => x[2] \in Files /\ Writer(t) /\ (fileLock[x[2]] = t \/ Refs(x[2]) = {})
    /\ x[1] = "copy"     => x[2] \in Files /\ (fileLock[x[2]] = t \/ (Writer(t) /\ Refs(x[2]) = {}))
    /\ x[1] = "entry"    => EntryGuarded(t, x[2]) /\ ~ Shared(t)
    /\ x[1] \in {"table", "count"} => Writer(t)
    /\ x[1] \in {"name", "chain"}  => HasDirectory(t) /\ ~ Shared(t)
    /\ x[1] = "freelist" => allocationLock = t

(* The description of a file under its lock. *)
LEMMA EntryOfGuarded ==
  ASSUME IInv, NEW t \in Threads, NEW f \in Files, fileLock[f] = t, thr[t].file = f,
         NEW x, x = EntryOf(f)
  PROVE  /\ x[1] \in {"copy", "entry"}
         /\ x[1] = "copy" => x[2] = f
         /\ x[1] = "entry" => EntryGuarded(t, x[2])
<1>1. HasFile(t) BY DEF IInv, Own, File
<1>2. openFiles[f] # NULL BY <1>1, WorkedOnLive, LocksAssumption DEF HasFile
<1>3. openFiles[f] \in [refCount : Nat, slot : Slots \cup {NULL}] BY <1>2 DEF IInv, TypeOK
<1>4. openFiles[f].slot # NULL => openFiles[f].slot \in Slots /\ f \in OpenFileOf(openFiles[f].slot)
  BY <1>2, <1>3 DEF OpenFileOf
<1>5. CASE openFiles[f].slot = NULL BY <1>5 DEF EntryOf
<1>6. CASE openFiles[f].slot # NULL
  <2>1. x[1] = "entry" /\ x[2] = openFiles[f].slot BY <1>6 DEF EntryOf
  <2> QED BY <1>4, <1>6, <2>1 DEF EntryGuarded
<1> QED BY <1>5, <1>6

LEMMA ReadsGuarded ==
  ASSUME IInv, NEW t \in Threads, NEW x \in Reads(t)
  PROVE  GuardedRead(t, x)
<1> DEFINE me == thr[t]
<1>1. Own(t) /\ OPEN_FILE_LIMIT \in Nat /\ nslots \in Nat /\ (\A s \in 1 .. nslots : s \in Slots)
  BY LocksAssumption DEF IInv, TypeOK, Slots
<1>2. Place(t) BY <1>1 DEF Own
<1>3. ASSUME HasTable(t), NEW field \in {"slot", "file"},
             x \in Of(field, IF field = "slot" THEN FDs ELSE Live)
      PROVE  GuardedRead(t, x)
  <2>1. PICK v \in IF field = "slot" THEN FDs ELSE Live : x = <<field, v>> BY <1>3 DEF Of
  <2> QED BY <1>3, <2>1 DEF GuardedRead, Kinds, Live
<1>4. ASSUME HasTable(t), x = <<"table", 0>> PROVE GuardedRead(t, x)
  BY <1>4 DEF GuardedRead, Kinds
<1>5. CASE me.pc \in {"load", "getpos"}
  <2>1. x = <<IF me.pc = "load" THEN "slot" ELSE "position", me.fd>> BY <1>5 DEF Reads
  <2>2. me.fd \in FDs /\ descriptorLocks[me.fd] = t
    BY <1>1, <1>2, <1>5 DEF Place, Own, Descriptor, HasDescriptor, DescriptorCalls
  <2> QED BY <1>5, <2>1, <2>2 DEF GuardedRead, Kinds
<1>6. CASE me.pc \in {"io", "store"}
  <2>1. me.file \in Files BY <1>2, <1>6 DEF Place
  <2>2. fileLock[me.file] = t BY <1>1, <1>6, <2>1 DEF Own, File, HasFile
  <2>3. x = <<"file", me.file>> \/ x = EntryOf(me.file)
        \/ (x \in Of("slot", FDs) /\ me.call = "ftruncate")
    BY <1>6 DEF Reads
  <2>4. CASE x = <<"file", me.file>> BY <2>1, <2>2, <2>4 DEF GuardedRead, Kinds
  <2>5. CASE x = EntryOf(me.file)
    <3>1. /\ x[1] \in {"copy", "entry"}
          /\ x[1] = "copy" => x[2] = me.file
          /\ x[1] = "entry" => EntryGuarded(t, x[2])
      BY <2>1, <2>2, <2>5, EntryOfGuarded
    <3> QED BY <2>1, <2>2, <3>1 DEF GuardedRead, Kinds
  <2>6. CASE x \in Of("slot", FDs) /\ me.call = "ftruncate"
    <3>1. HasTable(t) BY <1>6, <2>6 DEF HasTable, TableCalls
    <3> QED BY <1>3, <2>6, <3>1
  <2> QED BY <2>3, <2>4, <2>5, <2>6
<1>7. CASE me.pc \in {"collect", "lockSlots"}
  <2>1. HasTable(t) BY <1>2, <1>7 DEF Place, HasTable, TableCalls
  <2>2. x \in Of("slot", FDs) BY <1>7 DEF Reads
  <2> QED BY <1>3, <2>1, <2>2
<1>8. CASE me.pc = "count"
  <2>1. HasTable(t) BY <1>2, <1>8 DEF Place, HasTable, TableCalls
  <2>2. x \in Of("slot", FDs) \/ x = <<"table", 0>> BY <1>8 DEF Reads
  <2> QED BY <1>3, <1>4, <2>1, <2>2
<1>9. CASE me.pc \in {"find", "findOpen", "add"}
  <2>1. /\ HasTable(t) /\ HasDirectory(t)
        /\ me.pc = "findOpen" => me.slot \in 1 .. nslots
    BY <1>2, <1>9 DEF Place, HasTable, HasDirectory, DirectoryCalls
  <2>2. \/ x = <<"table", 0>> \/ x \in Of("file", Live) \/ x \in Of("slot", FDs)
        \/ x = <<"chain", 0>>
        \/ x = <<"entry", me.slot>> /\ me.pc = "findOpen" /\ OpenFileOf(me.slot) = {}
    <3>1. CASE me.pc = "find"
      <4>1. CASE me.slot <= nslots BY <3>1, <4>1 DEF Reads
      <4>2. CASE ~ (me.slot <= nslots)
        <5>1. me.slot > nslots BY <1>1, <1>2, <3>1, <4>2 DEF Place
        <5> QED BY <3>1, <4>2, <5>1 DEF Reads
      <4> QED BY <4>1, <4>2
    <3>2. CASE me.pc = "findOpen" BY <3>2 DEF Reads
    <3>3. CASE me.pc = "add" BY <3>3 DEF Reads
    <3> QED BY <1>9, <3>1, <3>2, <3>3
  <2>3. CASE x = <<"chain", 0>> BY <2>1, <2>3 DEF GuardedRead, Kinds
  <2>4. CASE x = <<"entry", me.slot>> /\ me.pc = "findOpen" /\ OpenFileOf(me.slot) = {}
    <3>1. EntryGuarded(t, me.slot) BY <1>1, <2>1, <2>4 DEF EntryGuarded
    <3> QED BY <2>4, <3>1 DEF GuardedRead, Kinds
  <2> QED BY <1>3, <1>4, <2>1, <2>2, <2>3, <2>4
<1>10. CASE me.pc = "look"
  <2>1. HasTable(t) /\ HasDirectory(t) /\ me.slot \in Slots /\ me.file \in Files \cup {NULL}
    <3>1. me \in Frame BY DEF IInv, TypeOK
    <3>2. me.slot \in Slots BY <1>1, <1>2, <1>10 DEF Place
    <3> QED BY <1>2, <1>10, <3>1, <3>2 DEF Place, HasTable, HasDirectory, Frame
  <2>2. x = <<"entry", me.slot>> \/ x = <<"name", me.slot>> BY <1>10 DEF Reads
  <2>3. EntryGuarded(t, me.slot)
    <3>1. CASE me.file = NULL BY <1>1, <1>10, <2>1, <3>1 DEF EntryGuarded, Own, Pinned
    <3>2. CASE me.file # NULL
      <4>1. fileLock[me.file] = t BY <1>1, <1>10, <2>1, <3>2 DEF Own, File, HasFile
      <4>2. me.file \in OpenFileOf(me.slot) BY <1>1, <1>10, <2>1, <3>2 DEF Own, Pinned, OpenFileOf
      <4> QED BY <2>1, <4>1, <4>2 DEF EntryGuarded
    <3> QED BY <3>1, <3>2
  <2> QED BY <2>1, <2>2, <2>3 DEF GuardedRead, Kinds
<1>11. CASE me.pc = "unlink"
  <2>1. me.slot \in Slots /\ me.file \in Files BY <1>1, <1>2, <1>11 DEF Place
  <2>2. fileLock[me.file] = t BY <1>1, <1>11, <2>1 DEF Own, File, HasFile
  <2>3. me.file \in OpenFileOf(me.slot)
    BY <1>1, <1>11, <2>1, LocksAssumption DEF Own, Pinned, OpenFileOf
  <2>4. x = <<"entry", me.slot>> BY <1>11 DEF Reads
  <2>5. EntryGuarded(t, me.slot) BY <2>1, <2>2, <2>3 DEF EntryGuarded
  <2> QED BY <2>4, <2>5 DEF GuardedRead, Kinds
<1>12. CASE me.pc \notin {"load", "getpos", "io", "store", "collect", "lockSlots", "count", "find",
                          "findOpen", "add", "look", "unlink"}
  BY <1>12 DEF Reads
<1> QED BY <1>5, <1>6, <1>7, <1>8, <1>9, <1>10, <1>11, <1>12

LEMMA WritesGuarded ==
  ASSUME IInv, NEW t \in Threads, NEW x \in Writes(t)
  PROVE  GuardedWrite(t, x)
<1> DEFINE me == thr[t]
<1>1. Own(t) /\ OPEN_FILE_LIMIT \in Nat /\ nslots \in Nat /\ (\A s \in 1 .. nslots : s \in Slots)
  BY LocksAssumption DEF IInv, TypeOK, Slots
<1>2. Place(t) BY <1>1 DEF Own
<1>3. CASE me.pc \in {"io", "store"}
  <2>1. me.file \in Files /\ me.call \in {"read", "write", "ftruncate"} BY <1>2, <1>3 DEF Place
  <2>2. fileLock[me.file] = t BY <1>1, <1>3, <2>1 DEF Own, File, HasFile
  <2>3. \/ x = EntryOf(me.file)
        \/ x = <<"position", me.fd>> /\ me.call \in {"read", "write"}
        \/ /\ x \in Of("position", {fd \in FDs : openFileDescTable[fd] = me.file})
           /\ me.call = "ftruncate"
    BY <1>3, <2>1 DEF Writes
  <2>4. CASE x = EntryOf(me.file)
    <3>1. /\ x[1] \in {"copy", "entry"}
          /\ x[1] = "copy" => x[2] = me.file
          /\ x[1] = "entry" => EntryGuarded(t, x[2])
      BY <2>1, <2>2, <2>4, EntryOfGuarded
    <3>2. ~ Shared(t) BY <2>1 DEF Shared, SharedCalls
    <3> QED BY <2>1, <2>2, <3>1, <3>2 DEF GuardedWrite, Kinds
  <2>5. CASE x = <<"position", me.fd>> /\ me.call \in {"read", "write"}
    <3>1. me.fd \in FDs BY <1>2, <1>3, <2>5 DEF Place
    <3>2. descriptorLocks[me.fd] = t
      BY <1>1, <1>3, <2>5, <3>1 DEF Own, Descriptor, HasDescriptor, DescriptorCalls
    <3> QED BY <2>5, <3>1, <3>2 DEF GuardedWrite, Kinds
  <2>6. CASE /\ x \in Of("position", {fd \in FDs : openFileDescTable[fd] = me.file})
             /\ me.call = "ftruncate"
    <3>1. PICK fd \in FDs : x = <<"position", fd>> /\ openFileDescTable[fd] = me.file
      BY <2>6 DEF Of
    <3>2. descriptorLocks[fd] = t
      BY <1>1, <1>3, <2>6, <3>1 DEF Own, Descriptor, HasDescriptor
    <3> QED BY <3>1, <3>2 DEF GuardedWrite, Kinds
  <2> QED BY <2>3, <2>4, <2>5, <2>6
<1>4. CASE me.pc = "allocate"
  <2>1. x = <<"freelist", 0>> BY <1>4 DEF Writes
  <2>2. allocationLock = t BY <1>1, <1>4 DEF Own, Allocation
  <2> QED BY <2>1, <2>2 DEF GuardedWrite, Kinds
<1>5. CASE me.pc = "detach"
  <2>1. /\ me.call = "close" /\ me.fd \in FDs
    BY <1>2, <1>5 DEF Place
  <2>2. Writer(t) BY <1>5, <2>1 DEF Writer, HasTable, Shared, SharedCalls, TableCalls
  <2>3. descriptorLocks[me.fd] = t BY <1>1, <1>5, <2>1 DEF Own, Descriptor, HasDescriptor
  <2>4. x \in {<<"slot", me.fd>>, <<"position", me.fd>>, <<"count", openFileDescTable[me.fd]>>}
    BY <1>5 DEF Writes
  <2> QED BY <2>1, <2>2, <2>3, <2>4 DEF GuardedWrite, Kinds
<1>6. CASE me.pc = "destroy"
  <2>1. me.call = "close" /\ me.file \in Files /\ me.file # NULL
    BY <1>2, <1>6, LocksAssumption DEF Place
  <2>2. Writer(t) BY <1>6, <2>1 DEF Writer, HasTable, Shared, SharedCalls, TableCalls
  <2>3. Refs(me.file) = {} BY <1>1, <2>1 DEF Own, Pinned
  <2>4. x \in {<<"table", 0>>, <<"file", me.file>>, <<"copy", me.file>>} BY <1>6 DEF Writes
  <2> QED BY <2>1, <2>2, <2>3, <2>4 DEF GuardedWrite, Kinds
<1>7. CASE me.pc \in {"expand", "create", "clear", "name"}
  <2>1. me.call \in {"open", "remove", "rename"} BY <1>2, <1>7 DEF Place
  <2>2. HasDirectory(t) /\ HasTable(t) /\ ~ Shared(t)
    BY <1>7, <2>1 DEF HasDirectory, HasTable, Shared, SharedCalls, DirectoryCalls
  <2>3. \/ x[1] \in {"chain", "name"}
        \/ x = <<"entry", me.slot>> /\ me.pc \in {"create", "clear"}
    BY <1>7 DEF Writes
  <2>4. CASE x[1] \in {"chain", "name"} BY <2>2, <2>4 DEF GuardedWrite, Kinds
  <2>5. CASE x = <<"entry", me.slot>> /\ me.pc \in {"create", "clear"}
    <3>1. me.slot \in Slots BY <1>1, <1>2, <2>5 DEF Place
    <3>2. OpenFileOf(me.slot) = {}
      <4>1. CASE me.pc = "create"
        <5>1. names[me.slot] = NULL BY <1>1, <4>1 DEF Own, Pinned
        <5> QED BY <3>1, <5>1 DEF IInv, Tables
      <4>2. CASE me.pc = "clear"
        <5>1. me.call \in {"remove", "rename"} BY <1>2, <4>2 DEF Place
        <5> QED BY <1>1, <4>2, <5>1 DEF Own, Pinned
      <4> QED BY <2>5, <4>1, <4>2
    <3> QED BY <2>2, <2>5, <3>1, <3>2 DEF GuardedWrite, Kinds, EntryGuarded
  <2> QED BY <2>3, <2>4, <2>5
<1>8. CASE me.pc = "add"
  <2>1. me.call = "open" BY <1>2, <1>8 DEF Place
  <2>2. Writer(t) BY <1>8, <2>1 DEF Writer, HasTable, Shared, SharedCalls, DirectoryCalls
  <2>3. x[1] \in {"table", "count"} BY <1>8 DEF Writes, Of
  <2> QED BY <2>2, <2>3 DEF GuardedWrite, Kinds
<1>9. CASE me.pc = "set"
  <2>1. me.call = "open" /\ me.fd \in FDs BY <1>2, <1>9 DEF Place
  <2>2. Writer(t) BY <1>9, <2>1 DEF Writer, HasTable, Shared, SharedCalls, DirectoryCalls
  <2>3. descriptorLocks[me.fd] = t BY <1>1, <1>9, <2>1 DEF Own, Descriptor, HasDescriptor
  <2>4. x \in {<<"slot", me.fd>>, <<"position", me.fd>>} BY <1>9 DEF Writes
  <2> QED BY <2>1, <2>2, <2>3, <2>4 DEF GuardedWrite, Kinds
<1>10. CASE me.pc = "unlink"
  <2>1. me.call \in {"remove", "rename"} /\ me.file \in Files BY <1>2, <1>10 DEF Place
  <2>2. Writer(t) BY <1>10, <2>1 DEF Writer, HasTable, Shared, SharedCalls, DirectoryCalls
  <2>3. fileLock[me.file] = t BY <1>1, <1>10, <2>1 DEF Own, File, HasFile
  <2>4. x \in {<<"file", me.file>>, <<"copy", me.file>>} BY <1>10 DEF Writes
  <2> QED BY <2>1, <2>2, <2>3, <2>4 DEF GuardedWrite, Kinds
<1>11. CASE me.pc \notin {"io", "store", "allocate", "detach", "destroy", "expand", "create", "clear",
                          "name", "add", "set", "unlink"}
  BY <1>11 DEF Writes
<1> QED BY <1>3, <1>4, <1>5, <1>6, <1>7, <1>8, <1>9, <1>10, <1>11

(* An open file that nothing refers to any more is locked only by a thread that has the table. *)
LEMMA FileHolder ==
  ASSUME IInv, NEW t \in Threads, NEW f \in Files, fileLock[f] = t, Refs(f) = {}
  PROVE  HasTable(t)
<1>1. Own(t) /\ HasFile(t) /\ thr[t].file = f /\ f # NULL
  <2>1. f # NULL BY LocksAssumption
  <2> QED BY <2>1 DEF IInv, Own, File
<1>2. CASE thr[t].call \in {"read", "write"}
  <2>1. openFileDescTable[thr[t].fd] = f BY <1>1, <1>2 DEF Own, Pinned, DescriptorCalls
  <2>2. thr[t].fd \in FDs BY <1>1, <1>2 DEF Own, Place, HasFile, DirectoryCalls
  <2> QED BY <2>1, <2>2, ReferredLive
<1> QED BY <1>1, <1>2 DEF Own, Place, HasFile, HasTable, TableCalls, DirectoryCalls

LEMMA EntryAlone ==
  ASSUME IInv, NEW t \in Threads, NEW u \in Threads \ {t}, NEW slot,
         EntryGuarded(t, slot), ~ Shared(t), EntryGuarded(u, slot)
  PROVE  FALSE
<1>1. CASE OpenFileOf(slot) = {} BY <1>1, TableAlone DEF EntryGuarded
<1>2. CASE OpenFileOf(slot) # {}
  <2>1. PICK f, g \in OpenFileOf(slot) : fileLock[f] = t /\ fileLock[g] = u
    BY <1>2 DEF EntryGuarded
  <2>2. f = g BY <2>1 DEF IInv, Tables, EntryGuarded
  <2> QED BY <2>1, <2>2
<1> QED BY <1>1, <1>2

(* Any two accesses to the same memory by different threads, one of which writes it, are *)
(* ordered by a lock that both have to hold.                                             *)
THEOREM NoRaceCorrect == Spec => []NoRace
<1>1. IInv => NoRace
  <2> SUFFICES ASSUME IInv, NEW t \in Threads, NEW u \in Threads \ {t},
                      NEW x \in Writes(t), x \in Reads(u) \cup Writes(u)
               PROVE  FALSE
    BY DEF NoRace
  <2>1. GuardedWrite(t, x) BY WritesGuarded
  <2>2. GuardedRead(u, x) \/ GuardedWrite(u, x) BY ReadsGuarded, WritesGuarded
  <2>3. Writer(t) => ~ HasTable(u) BY TableAlone DEF Writer
  <2>4. HasDirectory(t) /\ ~ Shared(t) => ~ HasDirectory(u) BY DirectoryAlone
  <2>5. CASE x[1] = "slot" BY <2>1, <2>2, <2>3, <2>5 DEF GuardedRead, GuardedWrite, Writer
  <2>6. CASE x[1] = "position" BY <2>1, <2>2, <2>6 DEF GuardedRead, GuardedWrite
  <2>7. CASE x[1] = "file"
    BY <2>1, <2>2, <2>3, <2>7, FileHolder DEF GuardedRead, GuardedWrite, Writer
  <2>8. CASE x[1] = "copy"
    <3>1. x[2] \in Files /\ (fileLock[x[2]] = t \/ (Writer(t) /\ Refs(x[2]) = {}))
      BY <2>1, <2>8 DEF GuardedWrite
    <3>2. fileLock[x[2]] = u \/ (Writer(u) /\ Refs(x[2]) = {})
      BY <2>2, <2>8 DEF GuardedRead, GuardedWrite
    <3>3. Writer(u) => ~ HasTable(t) BY TableAlone DEF Writer
    <3> QED BY <2>3, <3>1, <3>2, <3>3, FileHolder DEF Writer
  <2>9. CASE x[1] = "entry"
    <3>1. EntryGuarded(t, x[2]) /\ ~ Shared(t) /\ EntryGuarded(u, x[2])
      BY <2>1, <2>2, <2>9 DEF GuardedRead, GuardedWrite
    <3> QED BY <3>1, EntryAlone
  <2>10. CASE x[1] \in {"table", "count"}
    BY <2>1, <2>2, <2>3, <2>10 DEF GuardedRead, GuardedWrite, Writer
  <2>11. CASE x[1] \in {"name", "chain"}
    BY <2>1, <2>2, <2>4, <2>11 DEF GuardedRead, GuardedWrite
  <2>12. CASE x[1] = "freelist" BY <2>1, <2>2, <2>12 DEF GuardedRead, GuardedWrite
  <2>13. x[1] \in Kinds BY <2>1 DEF GuardedWrite
  <2> QED BY <2>5, <2>6, <2>7, <2>8, <2>9, <2>10, <2>11, <2>12, <2>13 DEF Kinds
<1> QED BY <1>1, LocksInvariant, PTL

=============================================================================
