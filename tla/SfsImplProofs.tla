---------------------------- MODULE SfsImplProofs ----------------------------
(***************************************************************************)
(* Both file systems implement sfs-api.h (ImplementsApiCorrect).           *)
(*                                                                         *)
(* First the reference file system of SfsBaseline, whose descriptors       *)
(* remember the block of their position: the remembered block is the one   *)
(* that a walk from the file's first block would find.  Every step of it   *)
(* is a step of SfsDisk, or a failing sfs_open that expanded the           *)
(* directory, so that its lists are well formed too.                       *)
(*                                                                         *)
(* Then what a program sees of the files: the bytes that a walk over the   *)
(* blocks of a directory entry reads, and the descriptors that have it     *)
(* open (FileAt).  Each call changes it for one file at most, since no two *)
(* files share a block, and changes it as SfsApi says.                     *)
(***************************************************************************)
EXTENDS SfsDiskProofs, SfsDiskImpl, SequenceTheorems

USE BlocksAssumption, SfsAssumption, NullAssumption

-----------------------------------------------------------------------------
(* Positions and places *)

\* The block of a position, counted from 0: the end of a block still is in that block.
Place(position) ==
    IF position = 0 THEN 0 ELSE (position - 1) \div BLOCK_DATA_SIZE

LEMMA Divided ==
  ASSUME NEW B \in Nat \ {0}, NEW q \in Nat, NEW r \in Nat, r < B
  PROVE  (B * q + r) \div B = q /\ (B * q + r) % B = r /\ B * q \in Nat /\ q * B = B * q
<1>x. PICK x : x = B * q + r OBVIOUS
<1>1. x \in Nat /\ x \div B = q /\ x % B = r
  BY ONLY <1>x, B \in Nat \ {0}, q \in Nat, r \in Nat, r < B
<1>2. B * q \in Nat /\ q * B = B * q BY ONLY B \in Nat \ {0}, q \in Nat
<1> QED BY <1>1, <1>2, <1>x

(* A position is as far into its block as OffsetInBlock says. *)
LEMMA PlaceFacts ==
  ASSUME NEW position \in Nat
  PROVE  /\ Place(position) \in Nat
         /\ OffsetInBlock(position) \in 0 .. BLOCK_DATA_SIZE
         /\ position # 0 => OffsetInBlock(position) # 0
         /\ position = BLOCK_DATA_SIZE * Place(position) + OffsetInBlock(position)
         /\ Place(position) = IF position # 0 /\ position % BLOCK_DATA_SIZE = 0
                              THEN (position \div BLOCK_DATA_SIZE) - 1
                              ELSE position \div BLOCK_DATA_SIZE
<1> PICK B : B = BLOCK_DATA_SIZE OBVIOUS
<1>1. B \in Nat \ {0} OBVIOUS
<1>2. CASE position = 0
  <2>1. Place(position) = 0 /\ OffsetInBlock(position) = 0 BY <1>2 DEF Place, OffsetInBlock
  <2>2. 0 \div B = 0 /\ B * 0 = 0 /\ 0 \in 0 .. B BY ONLY <1>1
  <2> QED BY <1>2, <2>1, <2>2
<1>3. CASE position # 0
  <2>x. PICK x : x = position - 1 OBVIOUS
  <2>q. PICK q : q = x \div B OBVIOUS
  <2>r. PICK r : r = x % B OBVIOUS
  <2>1. x \in Nat /\ position = x + 1 BY <1>3, <2>x
  <2>2. x = B * q + r /\ r \in 0 .. B - 1 /\ q \in Nat BY ONLY <1>1, <2>1, <2>q, <2>r
  <2>3. Place(position) = q /\ OffsetInBlock(position) = r + 1
    BY <1>3, <2>q, <2>r, <2>x DEF Place, OffsetInBlock
  <2>u. PICK u : u = B * q OBVIOUS
  <2>4. u \in Nat /\ position = u + (r + 1) /\ r + 1 \in 0 .. B /\ r + 1 # 0
    BY ONLY <1>1, <2>1, <2>2, <2>u
  <2>5. CASE r + 1 = B
    <3>1. position = B * (q + 1) + 0 /\ q + 1 \in Nat
      <4>1. B * (q + 1) = B * q + B BY ONLY <1>1, <2>2
      <4>2. position = u + B BY <2>4, <2>5
      <4>3. B * q + B = u + B BY <2>u
      <4>v. PICK v : v = B * (q + 1) OBVIOUS
      <4>4. v = position /\ v \in Nat BY <4>1, <4>2, <4>3, <4>v
      <4>5. v + 0 = v BY ONLY <4>4
      <4> QED BY <2>2, <4>4, <4>5, <4>v
    <3>2. position \div B = q + 1 /\ position % B = 0
      <4>1. 0 \in Nat /\ 0 < B BY ONLY <1>1
      <4> QED BY ONLY <1>1, <3>1, <4>1, Divided
    <3>3. (q + 1) - 1 = q BY ONLY <2>2
    <3> QED BY <1>3, <2>2, <2>3, <2>4, <2>u, <3>2, <3>3
  <2>6. CASE r + 1 # B
    <3>1. r + 1 \in Nat /\ r + 1 < B BY ONLY <1>1, <2>2, <2>6
    <3>2. position \div B = q /\ position % B = r + 1
      <4>1. position = B * q + (r + 1) BY <2>4, <2>u
      <4> QED BY ONLY <1>1, <2>2, <3>1, <4>1, Divided
    <3> QED BY <2>2, <2>3, <2>4, <2>u, <3>2
  <2> QED BY <2>5, <2>6
<1> QED BY <1>2, <1>3

(* How many blocks further on the position is that lies len bytes further on. *)
LEMMA PlaceAfter ==
  ASSUME NEW position \in Nat, NEW len \in Nat \ {0}
  PROVE  /\ (OffsetInBlock(position) + len - 1) \div BLOCK_DATA_SIZE \in Nat
         /\ Place(position + len) = Place(position)
                + (OffsetInBlock(position) + len - 1) \div BLOCK_DATA_SIZE
<1> PICK B : B = BLOCK_DATA_SIZE OBVIOUS
<1>c. PICK c : c = Place(position) OBVIOUS
<1>o. PICK o : o = OffsetInBlock(position) OBVIOUS
<1>1. B \in Nat \ {0} OBVIOUS
<1>2. c \in Nat /\ o \in Nat /\ position = B * c + o BY <1>c, <1>o, PlaceFacts
<1>x. PICK x : x = o + len - 1 OBVIOUS
<1>q. PICK q : q = x \div B OBVIOUS
<1>r. PICK r : r = x % B OBVIOUS
<1>3. x \in Nat BY <1>2, <1>x
<1>4. x = B * q + r /\ r \in Nat /\ r < B /\ q \in Nat BY ONLY <1>1, <1>3, <1>q, <1>r
<1>u. PICK u : u = B * c OBVIOUS
<1>v. PICK v : v = B * q OBVIOUS
<1>5. u \in Nat /\ v \in Nat /\ B * (c + q) = u + v BY ONLY <1>1, <1>2, <1>4, <1>u, <1>v
<1>6. (position + len) - 1 = (u + v) + r /\ position + len # 0
  <2>1. position = u + o /\ x = v + r BY <1>2, <1>4, <1>u, <1>v
  <2> QED BY ONLY <1>2, <1>4, <1>5, <1>x, <2>1, len \in Nat \ {0}
<1>7. ((position + len) - 1) \div B = c + q
  <2>y. PICK y : y = (position + len) - 1 OBVIOUS
  <2>w. PICK w : w = c + q OBVIOUS
  <2>1. y = B * w + r BY <1>5, <1>6, <2>w, <2>y
  <2>2. w \in Nat BY <1>2, <1>4, <2>w
  <2>3. r \in Nat /\ r < B BY <1>4
  <2>4. y \div B = w BY ONLY <1>1, <2>1, <2>2, <2>3, Divided
  <2> QED BY <2>4, <2>w, <2>y
<1>8. Place(position + len) = c + q BY <1>6, <1>7 DEF Place
<1> QED BY <1>4, <1>8, <1>c, <1>o, <1>q, <1>x

LEMMA PlaceWithin ==
  ASSUME NEW position \in Nat, NEW n \in Nat, n # 0, position <= n * BLOCK_DATA_SIZE
  PROVE  Place(position) < n
<1> PICK B : B = BLOCK_DATA_SIZE OBVIOUS
<1>c. PICK c : c = Place(position) OBVIOUS
<1>1. B \in Nat \ {0} OBVIOUS
<1>2. CASE position = 0
  <2>1. c = 0 BY <1>2, <1>c DEF Place
  <2> QED BY <1>c, <2>1
<1>3. CASE position # 0
  <2>o. PICK o : o = OffsetInBlock(position) OBVIOUS
  <2>1. c \in Nat /\ o \in Nat /\ o # 0 /\ position = B * c + o BY <1>3, <1>c, <2>o, PlaceFacts
  <2>2. B * c < B * n
    <3>u. PICK u : u = B * c OBVIOUS
    <3>v. PICK v : v = B * n OBVIOUS
    <3>1. u \in Nat /\ v \in Nat /\ n * B = v BY ONLY <1>1, <2>1, <3>u, <3>v, n \in Nat
    <3>2. position = u + o /\ position <= v BY <2>1, <3>1, <3>u
    <3>3. u < v BY ONLY <2>1, <3>1, <3>2
    <3> QED BY <3>3, <3>u, <3>v
  <2>3. c < n BY ONLY <1>1, <2>1, <2>2, n \in Nat
  <2> QED BY <1>c, <2>3
<1> QED BY <1>2, <1>3

LEMMA BlockOfPosition ==
  ASSUME NEW blk, NEW first, NEW position \in Nat
  PROVE  /\ first = SFS_EMPTY_FILE_BLOCK => blockForPosition(blk, first, position) = {0}
         /\ first \in Blocks => blockForPosition(blk, first, position)
                                = fileBlockAt(blk, first, Place(position))
<1>1. first \in Blocks => first \notin {0, SFS_EMPTY_FILE_BLOCK}
  BY DEF Blocks, SFS_EMPTY_FILE_BLOCK
<1>2. first = SFS_EMPTY_FILE_BLOCK => blockForPosition(blk, first, position) = {0}
  BY DEF blockForPosition
<1>3. ASSUME first \in Blocks
      PROVE  blockForPosition(blk, first, position) = fileBlockAt(blk, first, Place(position))
  <2>k. PICK k : k = IF position # 0 /\ position % BLOCK_DATA_SIZE = 0
                     THEN (position \div BLOCK_DATA_SIZE) - 1
                     ELSE position \div BLOCK_DATA_SIZE
    OBVIOUS
  <2>1. Place(position) = k BY <2>k, PlaceFacts
  <2>2. blockForPosition(blk, first, position) = fileBlockAt(blk, first, k)
    BY <1>1, <1>3, <2>k DEF blockForPosition
  <2> QED BY <2>1, <2>2
<1> QED BY <1>2, <1>3

(* A position in a live file is in one of its blocks, if the file has any. *)
LEMMA LivePlace ==
  ASSUME NEW e \in Entry, Occupied(e), SizedRight(e), NEW position \in Nat, position <= e.size
  PROVE  \/ e.first_block = SFS_EMPTY_FILE_BLOCK /\ position = 0
         \/ e.first_block \in Blocks /\ Place(position) < allocatedBlocksForFile(e)
<1>1. e.size \in Nat /\ e.first_block \in BlockId \cup {SFS_EMPTY_FILE_BLOCK} BY DEF Entry
<1>2. CASE e.first_block = SFS_EMPTY_FILE_BLOCK
  <2>1. e.size = 0 BY <1>2 DEF SizedRight
  <2>2. position = 0 BY <1>1, <2>1
  <2> QED BY <1>2, <2>2
<1>3. CASE e.first_block # SFS_EMPTY_FILE_BLOCK
  <2>n. PICK n : n = allocatedBlocksForFile(e) OBVIOUS
  <2>1. n \in Nat /\ n # 0 /\ e.size <= n * BLOCK_DATA_SIZE BY <1>3, <2>n, FileCapacity
  <2>2. n * BLOCK_DATA_SIZE \in Nat BY <2>1
  <2>3. position <= n * BLOCK_DATA_SIZE
    <3>x. PICK x : x = n * BLOCK_DATA_SIZE OBVIOUS
    <3>1. position <= x BY <1>1, <2>1, <2>2, <3>x
    <3> QED BY <3>1, <3>x
  <2>4. Place(position) < n BY <2>1, <2>3, PlaceWithin
  <2>5. e.first_block \in Blocks BY <1>1, <1>3 DEF Occupied, BlockId, Blocks
  <2> QED BY <2>4, <2>5, <2>n
<1> QED BY <1>2, <1>3

-----------------------------------------------------------------------------
(* What a descriptor remembers stays right *)

\* Descriptor d, if it is open, remembers the block of its position.
Current(d) ==
    openFileDescTable[d] # NULL =>
        currBlock[d] \in blockForPosition(disk.blk,
            DiskEntry(openFileDescTable[d].fileEntry).first_block, openFileDescTable[d].currPos)

LEMMA CurrentAll == CacheAgrees <=> \A d \in FDs : Current(d)
BY DEF CacheAgrees, Current

LEMMA CurrentAllNext == (\A d \in FDs : Current(d)') => CacheAgrees'
BY DEF CacheAgrees, Current

LEMMA CurrentNext ==
  ASSUME NEW d \in FDs, NEW j, j = openFileDescTable'[d].fileEntry,
         NEW first, first = DiskEntry(j)'.first_block,
         NEW position, position = openFileDescTable'[d].currPos,
         currBlock'[d] \in blockForPosition(disk'.blk, first, position)
  PROVE  Current(d)'
<1> SUFFICES ASSUME openFileDescTable'[d] # NULL
             PROVE  currBlock'[d] \in blockForPosition(disk'.blk,
                        DiskEntry(openFileDescTable[d].fileEntry)'.first_block,
                        openFileDescTable'[d].currPos)
  BY DEF Current
<1>1. DiskEntry(openFileDescTable[d].fileEntry)' = DiskEntry(j)' BY DEF DiskEntry
<1> QED BY <1>1

LEMMA PlaceKept ==
  ASSUME NEW e \in Entry, Occupied(e), SizedRight(e), NEW position \in Nat, position <= e.size,
         NEW blk, NEW blk2, NEW n, BlocksKept(blk, blk2, e.first_block, n),
         e.first_block # SFS_EMPTY_FILE_BLOCK => Place(position) < n,
         NEW c \in blockForPosition(blk, e.first_block, position)
  PROVE  c \in blockForPosition(blk2, e.first_block, position)
<1>f. PICK first : first = e.first_block OBVIOUS
<1>1. CASE first = SFS_EMPTY_FILE_BLOCK
  <2>1. blockForPosition(blk2, first, position) = blockForPosition(blk, first, position)
    BY <1>1, BlockOfPosition
  <2> QED BY <1>f, <2>1
<1>2. CASE first # SFS_EMPTY_FILE_BLOCK
  <2>1. first \in Blocks /\ Place(position) < n BY <1>2, <1>f, LivePlace
  <2>k. PICK k : k = Place(position) OBVIOUS
  <2>2. k \in Nat /\ k < n BY <2>1, <2>k, PlaceFacts
  <2>3. /\ blockForPosition(blk, first, position) = fileBlockAt(blk, first, k)
        /\ blockForPosition(blk2, first, position) = fileBlockAt(blk2, first, k)
    BY <2>1, <2>k, BlockOfPosition
  <2>4. fileBlockAt(blk2, first, k) = fileBlockAt(blk, first, k)
    BY <1>f, <2>2 DEF BlocksKept
  <2> QED BY <1>f, <2>3, <2>4
<1> QED BY <1>1, <1>2

\* The facts of an open descriptor d of open file j at a position in the file.
OpenAt(d, j, position) ==
    /\ d \in FDs /\ openFileDescTable[d] # NULL
    /\ j = openFileDescTable[d].fileEntry /\ position = openFileDescTable[d].currPos
    /\ j \in FDs /\ openFileTable[j] # NULL /\ position \in Nat
    /\ DiskEntry(j) \in Entry /\ Occupied(DiskEntry(j)) /\ SizedRight(DiskEntry(j))
    /\ position <= DiskEntry(j).size
    /\ currBlock[d] \in blockForPosition(disk.blk, DiskEntry(j).first_block, position)

LEMMA OpenFacts ==
  ASSUME IInv, Structure, PosWithinSize, CacheAgrees,
         NEW d \in FDs, openFileDescTable[d] # NULL
  PROVE  \E j, position : OpenAt(d, j, position)
<1>j. PICK j : j = openFileDescTable[d].fileEntry OBVIOUS
<1>p. PICK position : position = openFileDescTable[d].currPos OBVIOUS
<1>1. j \in FDs /\ openFileTable[j] # NULL /\ position \in Nat
  BY <1>j, <1>p, DescriptorFile DEF IInv
<1>2. DiskEntry(j) \in Entry /\ Occupied(DiskEntry(j)) /\ SizedRight(DiskEntry(j))
  BY <1>1, LiveEntry
<1>3. position <= DiskEntry(j).size BY <1>j, <1>p DEF PosWithinSize
<1>4. currBlock[d] \in blockForPosition(disk.blk, DiskEntry(j).first_block, position)
  BY <1>j, <1>p DEF CacheAgrees
<1>5. OpenAt(d, j, position) BY <1>1, <1>2, <1>3, <1>4, <1>j, <1>p DEF OpenAt
<1> QED BY <1>5

(* It does for a descriptor that is not moved, if the blocks of its file are not. *)
LEMMA CurrentKept ==
  ASSUME NEW d, NEW j, NEW position, OpenAt(d, j, position),
         openFileDescTable'[d] = openFileDescTable[d], currBlock'[d] = currBlock[d],
         DiskEntry(j)'.first_block = DiskEntry(j).first_block,
         NEW n, BlocksKept(disk.blk, disk'.blk, DiskEntry(j).first_block, n),
         DiskEntry(j).first_block # SFS_EMPTY_FILE_BLOCK => Place(position) < n
  PROVE  Current(d)'
<1>e. PICK e : e = DiskEntry(j) OBVIOUS
<1>1. /\ d \in FDs /\ j = openFileDescTable[d].fileEntry
      /\ position = openFileDescTable[d].currPos /\ position \in Nat
      /\ e \in Entry /\ Occupied(e) /\ SizedRight(e) /\ position <= e.size
      /\ currBlock[d] \in blockForPosition(disk.blk, e.first_block, position)
  BY <1>e DEF OpenAt
<1>2. currBlock[d] \in blockForPosition(disk'.blk, e.first_block, position)
  BY <1>1, <1>e, PlaceKept
<1>f. PICK first : first = DiskEntry(j)'.first_block OBVIOUS
<1>3. first = e.first_block BY <1>e, <1>f
<1>4. currBlock'[d] \in blockForPosition(disk'.blk, first, position) BY <1>2, <1>3
<1>5. j = openFileDescTable'[d].fileEntry /\ position = openFileDescTable'[d].currPos BY <1>1
<1> QED BY <1>1, <1>4, <1>5, <1>f, CurrentNext

LEMMA CurrentFileKept ==
  ASSUME NEW d, NEW j, NEW position, OpenAt(d, j, position),
         openFileDescTable'[d] = openFileDescTable[d], currBlock'[d] = currBlock[d],
         DiskEntry(j)'.first_block = DiskEntry(j).first_block,
         FileKept(disk.blk, disk'.blk, DiskEntry(j))
  PROVE  Current(d)'
<1>n. PICK n : n = allocatedBlocksForFile(DiskEntry(j)) OBVIOUS
<1>1. DiskEntry(j).first_block # SFS_EMPTY_FILE_BLOCK => Place(position) < n
  BY <1>n, LivePlace DEF OpenAt
<1>2. BlocksKept(disk.blk, disk'.blk, DiskEntry(j).first_block, n) BY <1>n DEF FileKept
<1> QED BY <1>1, <1>2, CurrentKept

LEMMA SameFileKept ==
  ASSUME disk' = disk, NEW e
  PROVE  FileKept(disk.blk, disk'.blk, e)
BY DEF FileKept, BlocksKept

LEMMA FirstAt ==
  ASSUME NEW blk, NEW first
  PROVE  /\ first = SFS_EMPTY_FILE_BLOCK => 0 \in blockForPosition(blk, first, 0)
         /\ first \in Blocks => first \in blockForPosition(blk, first, 0)
<1>1. ASSUME first \in Blocks PROVE first \in fileBlockAt(blk, first, 0)
  <2>1. PICK l : l = List(blk, first) OBVIOUS
  <2>2. l \in Seq(Blocks) /\ Len(l) > 0 /\ l[1] = first BY <1>1, <2>1, ListFacts
  <2>3. 1 \in DOMAIN l /\ 0 + 1 = 1 BY <2>2
  <2> QED BY <1>1, <2>1, <2>2, <2>3 DEF fileBlockAt
<1>2. Place(0) = 0 BY DEF Place
<1> QED BY <1>1, <1>2, BlockOfPosition

-----------------------------------------------------------------------------
(* The calls of the reference file system *)

(* sfs_open puts a new descriptor at the head of its file. *)
LEMMA AddedAgrees ==
  ASSUME IInv, Structure, PosWithinSize, CacheAgrees, OpenFilesKept,
         NEW slot \in Slots, NEW first, addDescriptor(slot, first),
         first = files'[slot].first_block, first \in Blocks \cup {SFS_EMPTY_FILE_BLOCK},
         \A s \in Slots \ {slot} : files'[s] = files[s],
         Occupied(files[slot]) => files'[slot] = files[slot]
  PROVE  CacheAgrees'
<1>1. PICK fd \in FirstNull(openFileDescTable) :
      \E i \in IF findOpenFile(slot) # {} THEN findOpenFile(slot)
               ELSE FirstNull(openFileTable) :
        /\ openFileTable' = [openFileTable EXCEPT ![i] =
               IF openFileTable[i] # NULL
               THEN [openFileTable[i] EXCEPT !.refCount = @ + 1]
               ELSE [refCount |-> 1, unlinked |-> FALSE, diskFile |-> slot,
                     unlinkedFile |-> UnusedEntry]]
        /\ openFileDescTable' =
               [openFileDescTable EXCEPT ![fd] = [fileEntry |-> i, currPos |-> 0]]
  BY DEF addDescriptor, addOpenFileEntry
<1>2. PICK i \in IF findOpenFile(slot) # {} THEN findOpenFile(slot)
                ELSE FirstNull(openFileTable) :
        /\ openFileTable' = [openFileTable EXCEPT ![i] =
               IF openFileTable[i] # NULL
               THEN [openFileTable[i] EXCEPT !.refCount = @ + 1]
               ELSE [refCount |-> 1, unlinked |-> FALSE, diskFile |-> slot,
                     unlinkedFile |-> UnusedEntry]]
        /\ openFileDescTable' =
               [openFileDescTable EXCEPT ![fd] = [fileEntry |-> i, currPos |-> 0]]
  BY <1>1
<1>3. fd \in FDs /\ openFileDescTable[fd] = NULL BY NullSearch
<1>4. i \in FDs /\ (openFileTable[i] # NULL => openFileTable[i].diskFile = slot)
  BY NullSearch, OpenFileSearch
<1>5. /\ openFileDescTable \in [FDs -> Descriptor \cup {NULL}]
      /\ openFileTable \in [FDs -> OpenFile \cup {NULL}]
  BY DEF IInv, TypeOK
<1>6. currBlock' = [d \in FDs |-> IF d \notin FirstNull(openFileDescTable) THEN currBlock[d]
                                  ELSE IF first = SFS_EMPTY_FILE_BLOCK THEN 0 ELSE first]
  BY DEF addDescriptor
<1>7. ASSUME NEW j \in FDs, openFileTable[j] # NULL
      PROVE  /\ openFileTable'[j].diskFile = openFileTable[j].diskFile
             /\ openFileTable'[j].unlinkedFile = openFileTable[j].unlinkedFile
  <2>1. CASE j # i BY <1>2, <1>5, <2>1
  <2>2. CASE j = i
    <3>1. openFileTable[i] \in OpenFile BY <1>5, <1>7, <2>2
    <3>2. openFileTable'[i] = [openFileTable[i] EXCEPT !.refCount = @ + 1]
      BY <1>2, <1>5, <1>7, <2>2
    <3> QED BY <2>2, <3>1, <3>2 DEF OpenFile
  <2> QED BY <2>1, <2>2
<1>8. Current(fd)'
  <2>1. openFileTable'[i].diskFile = slot
    <3>1. CASE openFileTable[i] # NULL BY <1>4, <1>7, <3>1
    <3>2. CASE openFileTable[i] = NULL BY <1>2, <1>4, <1>5, <3>2
    <3> QED BY <3>1, <3>2
  <2>2. DiskEntry(i)' = files'[slot] BY <2>1, BlockIds DEF DiskEntry
  <2>3. first = DiskEntry(i)'.first_block BY <2>2
  <2>4. openFileDescTable'[fd] = [fileEntry |-> i, currPos |-> 0] BY <1>2, <1>3, <1>5
  <2>5. i = openFileDescTable'[fd].fileEntry /\ 0 = openFileDescTable'[fd].currPos BY <2>4
  <2>6. currBlock'[fd] = IF first = SFS_EMPTY_FILE_BLOCK THEN 0 ELSE first
    BY <1>1, <1>3, <1>6
  <2>7. currBlock'[fd] \in blockForPosition(disk'.blk, first, 0)
    BY <2>6, FirstAt DEF Blocks, SFS_EMPTY_FILE_BLOCK
  <2> QED BY <1>3, <2>3, <2>5, <2>7, CurrentNext
<1>9. ASSUME NEW d \in FDs, d # fd, openFileDescTable[d] # NULL PROVE Current(d)'
  <2>1. PICK j, position : OpenAt(d, j, position) BY <1>9, OpenFacts
  <2>2. openFileDescTable'[d] = openFileDescTable[d] BY <1>2, <1>5, <1>9
  <2>3. currBlock'[d] = currBlock[d] BY <1>6, <1>9, NullSearch
  <2>4. j \in FDs /\ openFileTable[j] # NULL /\ Occupied(DiskEntry(j)) BY <2>1 DEF OpenAt
  <2>5. openFileTable[j] \in OpenFile BY <1>5, <2>4
  <2>6. openFileTable[j].diskFile \in Slots \cup {UnlinkedFile} BY <2>5 DEF OpenFile
  <2>7. /\ openFileTable'[j].diskFile = openFileTable[j].diskFile
        /\ openFileTable'[j].unlinkedFile = openFileTable[j].unlinkedFile
    BY <1>7, <2>4
  <2>8. DiskEntry(j)' = DiskEntry(j)
    <3>1. CASE openFileTable[j].diskFile = UnlinkedFile BY <2>7, <3>1 DEF DiskEntry
    <3>2. CASE openFileTable[j].diskFile # UnlinkedFile
      <4>s. PICK s : s = openFileTable[j].diskFile OBVIOUS
      <4>1. s \in Slots /\ DiskEntry(j) = files[s] /\ DiskEntry(j)' = files'[s]
        BY <2>6, <2>7, <3>2, <4>s DEF DiskEntry
      <4>2. files'[s] = files[s] BY <2>4, <4>1
      <4> QED BY <4>1, <4>2
    <3> QED BY <3>1, <3>2
  <2>9. FileKept(disk.blk, disk'.blk, DiskEntry(j)) BY <2>4 DEF OpenFilesKept
  <2>10. DiskEntry(j)'.first_block = DiskEntry(j).first_block BY <2>8
  <2> QED BY <2>1, <2>2, <2>3, <2>9, <2>10, CurrentFileKept
<1>10. ASSUME NEW d \in FDs PROVE Current(d)'
  <2>1. CASE d = fd BY <1>8, <2>1
  <2>2. CASE d # fd /\ openFileDescTable[d] # NULL BY <1>9, <2>2
  <2>3. CASE d # fd /\ openFileDescTable[d] = NULL
    <3>1. openFileDescTable'[d] = NULL BY <1>2, <1>5, <2>3
    <3> QED BY <3>1 DEF Current
  <2> QED BY <2>1, <2>2, <2>3
<1> QED BY <1>10, CurrentAllNext

LEMMA CreatedAgrees ==
  ASSUME IInv, Structure, PosWithinSize, CacheAgrees, OpenFilesKept,
         NEW name, NEW slot \in Slots, ~ Occupied(files[slot]), createEmpty(name, slot)
  PROVE  CacheAgrees'
<1>1. files \in [Slots -> Entry] BY DEF IInv, TypeOK
<1>2. /\ files' = [files EXCEPT ![slot] =
                    [first_block |-> SFS_EMPTY_FILE_BLOCK, size |-> 0, name |-> name]]
      /\ addDescriptor(slot, SFS_EMPTY_FILE_BLOCK)
  BY DEF createEmpty
<1>3. files'[slot].first_block = SFS_EMPTY_FILE_BLOCK BY <1>1, <1>2
<1>4. \A s \in Slots \ {slot} : files'[s] = files[s] BY <1>1, <1>2
<1>f. PICK first : first = SFS_EMPTY_FILE_BLOCK OBVIOUS
<1>5. /\ addDescriptor(slot, first) /\ first = files'[slot].first_block
      /\ first \in Blocks \cup {SFS_EMPTY_FILE_BLOCK}
  BY <1>2, <1>3, <1>f
<1> QED BY <1>4, <1>5, AddedAgrees

LEMMA SameOpenKept ==
  ASSUME disk' = disk
  PROVE  OpenFilesKept
BY SameFileKept DEF OpenFilesKept

LEMMA OpenExistingAgrees ==
  ASSUME IInv, Structure, PosWithinSize, CacheAgrees,
         NEW name \in Names, BaselineOpenExisting(name)
  PROVE  CacheAgrees'
<1>1. PICK slot \in findDirectoryEntry(name) : addDescriptor(slot, files[slot].first_block)
  BY DEF BaselineOpenExisting
<1>2. disk' = disk /\ files' = files BY DEF BaselineOpenExisting
<1>3. slot \in Slots /\ Occupied(files[slot]) BY EntryFound
<1>f. PICK first : first = files[slot].first_block OBVIOUS
<1>4. first \in Blocks \cup {SFS_EMPTY_FILE_BLOCK}
  <2>1. files[slot] \in Entry BY <1>3 DEF IInv, TypeOK
  <2> QED BY <1>3, <1>f, <2>1 DEF Entry, Occupied, BlockId, Blocks
<1>5. addDescriptor(slot, first) /\ first = files'[slot].first_block BY <1>1, <1>2, <1>f
<1>6. OpenFilesKept BY <1>2, SameOpenKept
<1> QED BY <1>2, <1>3, <1>4, <1>5, <1>6, AddedAgrees

LEMMA OpenCreateAgrees ==
  ASSUME IInv, Structure, PosWithinSize, CacheAgrees,
         NEW name \in Names, BaselineOpenCreate(name)
  PROVE  CacheAgrees'
<1>1. PICK slot \in EmptySlot : createEmpty(name, slot) BY DEF BaselineOpenCreate
<1>2. slot \in Slots /\ ~ Occupied(files[slot]) BY SlotFound
<1>3. OpenFilesKept
  <2>1. disk' = disk BY DEF BaselineOpenCreate
  <2> QED BY <2>1, SameOpenKept
<1> QED BY <1>1, <1>2, <1>3, CreatedAgrees

LEMMA OpenExpandAgrees ==
  ASSUME IInv, Structure, PosWithinSize, CacheAgrees,
         NEW name \in Names, BaselineOpenExpand(name)
  PROVE  CacheAgrees'
<1>1. PICK new \in LastToAllocate(disk, 1), last \in LastDirectoryBlock :
        /\ expandDirectory(new, last)
        /\ \/ createEmpty(name, <<new, 1>>)
           \/ UNCHANGED <<files, openFileTable, openFileDescTable, currBlock>>
  BY DEF BaselineOpenExpand
<1>2. OpenFilesKept BY <1>1, ExpandedKept
<1>s. PICK slot : slot = <<new, 1>> OBVIOUS
<1>3. slot \in Slots /\ ~ Occupied(files[slot]) BY <1>1, <1>s, Expanded
<1>4. CASE createEmpty(name, <<new, 1>>)
  <2>1. createEmpty(name, slot) BY <1>4, <1>s
  <2> QED BY <1>2, <1>3, <2>1, CreatedAgrees
<1>5. CASE UNCHANGED <<files, openFileTable, openFileDescTable, currBlock>>
  <2> SUFFICES ASSUME NEW d \in FDs PROVE Current(d)' BY CurrentAllNext
  <2>1. CASE openFileDescTable[d] = NULL BY <1>5, <2>1 DEF Current
  <2>2. CASE openFileDescTable[d] # NULL
    <3>1. PICK j, position : OpenAt(d, j, position) BY <2>2, OpenFacts
    <3>2. j \in FDs /\ openFileTable[j] # NULL BY <3>1 DEF OpenAt
    <3>3. openFileDescTable'[d] = openFileDescTable[d] /\ currBlock'[d] = currBlock[d] BY <1>5
    <3>4. DiskEntry(j)'.first_block = DiskEntry(j).first_block BY <1>5 DEF DiskEntry
    <3>5. FileKept(disk.blk, disk'.blk, DiskEntry(j)) BY <1>2, <3>2 DEF OpenFilesKept
    <3> QED BY <3>1, <3>3, <3>4, <3>5, CurrentFileKept
  <2> QED BY <2>1, <2>2
<1> QED BY <1>1, <1>4, <1>5

LEMMA CloseAgrees ==
  ASSUME IInv, IInv', Structure, PosWithinSize, CacheAgrees, NEW fd \in FDs, BaselineClose(fd)
  PROVE  CacheAgrees'
<1>i. PICK i : i = openFileDescTable[fd].fileEntry OBVIOUS
<1>1. /\ openFileDescTable[fd] # NULL /\ files' = files
      /\ openFileDescTable' = [openFileDescTable EXCEPT ![fd] = NULL]
      /\ currBlock' = [currBlock EXCEPT ![fd] = 0]
      /\ \/ /\ openFileTable' = [openFileTable EXCEPT ![i].refCount = @ - 1]
            /\ disk' = disk
         \/ /\ openFileTable' = [openFileTable EXCEPT ![i] = NULL]
            /\ IF openFileTable[i].unlinked
                  /\ DiskEntry(i).first_block # SFS_EMPTY_FILE_BLOCK
               THEN \E last \in LastOf(disk.blk, DiskEntry(i).first_block) :
                      disk' = AfterFree(disk, DiskEntry(i).first_block, last)
               ELSE disk' = disk
  BY <1>i DEF BaselineClose, Close
<1>2. /\ openFileDescTable \in [FDs -> Descriptor \cup {NULL}]
      /\ openFileTable \in [FDs -> OpenFile \cup {NULL}]
  BY DEF IInv, TypeOK
<1>3. i \in FDs /\ openFileTable[i] # NULL /\ openFileTable[i] \in OpenFile
  BY <1>1, <1>i, DescriptorFile DEF IInv
<1>4. ASSUME NEW j \in FDs, openFileTable[j] # NULL, openFileTable'[j] # NULL
      PROVE  DiskEntry(j)' = DiskEntry(j)
  <2>1. openFileTable'[j].diskFile = openFileTable[j].diskFile
        /\ openFileTable'[j].unlinkedFile = openFileTable[j].unlinkedFile
    <3>1. CASE j # i BY <1>1, <1>2, <3>1
    <3>2. CASE j = i
      <4>1. openFileTable'[i] = [openFileTable[i] EXCEPT !.refCount = @ - 1]
        BY <1>1, <1>2, <1>3, <1>4, <3>2
      <4> QED BY <1>3, <3>2, <4>1 DEF OpenFile
    <3> QED BY <3>1, <3>2
  <2> QED BY <1>1, <2>1 DEF DiskEntry
<1>5. ASSUME NEW j \in FDs, openFileTable[j] # NULL, openFileTable'[j] # NULL
      PROVE  FileKept(disk.blk, disk'.blk, DiskEntry(j))
  <2>1. CASE disk' = disk BY <2>1, SameFileKept
  <2>2. CASE disk' # disk
    <3>1. /\ openFileTable' = [openFileTable EXCEPT ![i] = NULL]
          /\ openFileTable[i].unlinked /\ DiskEntry(i).first_block # SFS_EMPTY_FILE_BLOCK
      BY <1>1, <2>2
    <3>2. PICK last \in LastOf(disk.blk, DiskEntry(i).first_block) :
            disk' = AfterFree(disk, DiskEntry(i).first_block, last)
      BY <1>1, <2>2
    <3>3. j # i BY <1>2, <1>5, <3>1
    <3>4. PICK E : EntriesAre(E, files, openFileTable) /\ Arranged(disk, next_rootdir, E)
      BY DEF Structure
    <3>o. PICK o : o = OwnerOf(i) OBVIOUS
    <3>5. /\ o \in FileOwners /\ E[o] = DiskEntry(i) /\ Occupied(E[o]) /\ OwnerOf(j) # o
      BY <1>3, <1>5, <3>3, <3>4, <3>o, FileOwner
    <3> QED BY <1>5, <3>1, <3>2, <3>4, <3>5, DroppedKept
  <2> QED BY <2>1, <2>2
<1> SUFFICES ASSUME NEW d \in FDs PROVE Current(d)' BY CurrentAllNext
<1>6. CASE openFileDescTable'[d] = NULL BY <1>6 DEF Current
<1>7. CASE openFileDescTable'[d] # NULL
  <2>1. d # fd /\ openFileDescTable'[d] = openFileDescTable[d] /\ openFileDescTable[d] # NULL
    BY <1>1, <1>2, <1>7
  <2>2. currBlock'[d] = currBlock[d] BY <1>1, <2>1
  <2>3. PICK j, position : OpenAt(d, j, position) BY <2>1, OpenFacts
  <2>4. j \in FDs /\ openFileTable[j] # NULL /\ j = openFileDescTable[d].fileEntry
    BY <2>3 DEF OpenAt
  <2>5. openFileTable'[j] # NULL BY <1>7, <2>1, <2>4, DescriptorFileNext
  <2>6. DiskEntry(j)' = DiskEntry(j) BY <1>4, <2>4, <2>5
  <2>7. FileKept(disk.blk, disk'.blk, DiskEntry(j)) BY <1>5, <2>4, <2>5
  <2>8. DiskEntry(j)'.first_block = DiskEntry(j).first_block BY <2>6
  <2> QED BY <2>1, <2>2, <2>3, <2>7, <2>8, CurrentFileKept
<1> QED BY <1>6, <1>7

\* The path of a list of m blocks.
PathOf(blk, first, m, p) == Linked(blk, first, m, p) /\ m \in Nat

LEMMA FilePath ==
  ASSUME NEW d, NEW root, NEW E \in [FileOwners -> Entry], Arranged(d, root, E),
         NEW o \in FileOwners, Occupied(E[o])
  PROVE  \E p : PathOf(d.blk, E[o].first_block, allocatedBlocksForFile(E[o]), p)
<1>1. PICK H, L, P, own, at :
        /\ Headed(H, d.freelist, root, E) /\ Laid(d.blk, H, L, P, own, at)
        /\ \A q \in FileOwners : FileFits(E[q], L[q])
  BY DEF Arranged
<1>2. /\ o \in Owners /\ L[o] \in Nat /\ H[o] = E[o].first_block
      /\ L[o] = allocatedBlocksForFile(E[o])
  <2>1. FileFits(E[o], L[o]) BY <1>1
  <2>2. E \in [FileOwners -> Entry] /\ o \in FileOwners /\ Occupied(E[o]) OBVIOUS
  <2>3. HasBlocks(E, H, L, P, o) BY ONLY <1>1, <2>1, <2>2, FileBlocks
  <2> QED BY <2>2, <2>3 DEF HasBlocks
<1>b. PICK blk : blk = d.blk OBVIOUS
<1>p. PICK p : p = [i \in 1 .. L[o] |-> P[o][i]] OBVIOUS
<1>3. Laid(blk, H, L, P, own, at) BY <1>1, <1>b
<1>4. Linked(blk, H[o], L[o], p) BY <1>2, <1>3, <1>p, OwnerLinked
<1> QED BY <1>2, <1>4, <1>b DEF PathOf

LEMMA OpenPath ==
  ASSUME IInv, Structure, NEW i \in FDs, openFileTable[i] # NULL
  PROVE  \E p : PathOf(disk.blk, DiskEntry(i).first_block, allocatedBlocksForFile(DiskEntry(i)), p)
<1>1. PICK E : EntriesAre(E, files, openFileTable) /\ Arranged(disk, next_rootdir, E)
  BY DEF Structure
<1>2. E \in [FileOwners -> Entry] BY <1>1 DEF EntriesAre
<1>o. PICK o : o = OwnerOf(i) OBVIOUS
<1>3. o \in FileOwners /\ E[o] = DiskEntry(i) /\ Occupied(E[o]) BY <1>1, <1>o, FileOwner
<1>4. \E p : PathOf(disk.blk, E[o].first_block, allocatedBlocksForFile(E[o]), p)
  BY <1>1, <1>2, <1>3, FilePath
<1> QED BY <1>3, <1>4

(* A loop that starts in the block of a position ends in the block that a walk from *)
(* the head of the file would find, or at the same end of the list.                 *)
LEMMA WalkOn ==
  ASSUME NEW blk, NEW first, NEW m, NEW p, PathOf(blk, first, m, p),
         NEW position \in Nat, Place(position) < m,
         NEW c \in fileBlockAt(blk, first, Place(position))
  PROVE  /\ \A len \in Nat \ {0} : \A b : b \in BlockAfter(blk, c, position, len)
                <=> b \in fileBlockAt(blk, first, Place(position + len))
         /\ \A b : b \in LastOf(blk, c) <=> b \in LastOf(blk, first)
<1>k. PICK k : k = Place(position) OBVIOUS
<1>1. Linked(blk, first, m, p) /\ m \in Nat /\ k \in Nat /\ k < m
  BY <1>k, PlaceFacts DEF PathOf
<1>2. /\ \A j \in Nat : \A b : b \in fileBlockAt(blk, first, j) <=> j < m /\ b = p[j + 1]
      /\ \A b : b \in LastOf(blk, first) <=> m # 0 /\ b = p[m]
  BY ONLY <1>1, LinkedBlocks
<1>3. c = p[k + 1] BY <1>1, <1>2, <1>k
<1>n. PICK n : n = m - k OBVIOUS
<1>r. PICK r : r = Rest(p, m, k) OBVIOUS
<1>4. Linked(blk, c, n, r) BY <1>1, <1>3, <1>n, <1>r, LinkedRest
<1>5. n \in Nat /\ n # 0 /\ k + n = m BY <1>1, <1>n
<1>6. \A j \in 1 .. n : r[j] = p[k + j] BY <1>n, <1>r DEF Rest
<1>7. /\ \A j \in Nat : \A b : b \in fileBlockAt(blk, c, j) <=> j < n /\ b = r[j + 1]
      /\ \A b : b \in LastOf(blk, c) <=> n # 0 /\ b = r[n]
  BY ONLY <1>4, LinkedBlocks
<1>8. ASSUME NEW len \in Nat \ {0}, NEW b
      PROVE  b \in BlockAfter(blk, c, position, len)
                <=> b \in fileBlockAt(blk, first, Place(position + len))
  <2>j. PICK j : j = (OffsetInBlock(position) + len - 1) \div BLOCK_DATA_SIZE OBVIOUS
  <2>1. j \in Nat /\ Place(position + len) = k + j BY <1>k, <2>j, PlaceAfter
  <2>2. b \in BlockAfter(blk, c, position, len) <=> b \in fileBlockAt(blk, c, j)
    BY <2>j DEF BlockAfter
  <2>3. b \in fileBlockAt(blk, c, j) <=> j < n /\ b = r[j + 1] BY <1>7, <2>1
  <2>4. b \in fileBlockAt(blk, first, k + j) <=> k + j < m /\ b = p[(k + j) + 1]
    <3>1. k + j \in Nat BY <1>1, <2>1
    <3> QED BY <1>2, <3>1
  <2>5. k + j < m <=> j < n BY <1>1, <1>5, <2>1
  <2>6. j < n => r[j + 1] = p[(k + j) + 1]
    <3>1. j < n => j + 1 \in 1 .. n /\ k + (j + 1) = (k + j) + 1 BY <1>1, <1>5, <2>1
    <3> QED BY <1>6, <3>1
  <2> QED BY <2>1, <2>2, <2>3, <2>4, <2>5, <2>6
<1>9. \A b : b \in LastOf(blk, c) <=> b \in LastOf(blk, first)
  <2>1. n \in 1 .. n BY <1>5
  <2>2. r[n] = p[m] BY <1>5, <1>6, <2>1
  <2>3. m # 0 BY <1>1
  <2> QED BY <1>2, <1>5, <1>7, <2>2, <2>3
<1> QED BY <1>8, <1>9

\* currBlock is an array of the descriptors.
Remembering == currBlock = [d \in FDs |-> currBlock[d]]

(* sfs_read moves one descriptor, within its file. *)
LEMMA ReadAgrees ==
  ASSUME IInv, Structure, PosWithinSize, CacheAgrees, Remembering,
         NEW fd \in FDs, NEW len \in Lengths, BaselineRead(fd, len)
  PROVE  CacheAgrees'
<1>1. openFileDescTable[fd] # NULL BY DEF BaselineRead, Read
<1>2. PICK i, position : OpenAt(fd, i, position) BY <1>1, OpenFacts
<1>e. PICK e : e = DiskEntry(i) OBVIOUS
<1>n. PICK n : n = sizeMin(e.size - position, len) OBVIOUS
<1>3. /\ i = openFileDescTable[fd].fileEntry /\ position = openFileDescTable[fd].currPos
      /\ i \in FDs /\ openFileTable[i] # NULL /\ position \in Nat
      /\ e \in Entry /\ Occupied(e) /\ SizedRight(e) /\ position <= e.size
      /\ currBlock[fd] \in blockForPosition(disk.blk, e.first_block, position)
  BY <1>2, <1>e DEF OpenAt
<1>4. n \in Nat /\ position + n <= e.size /\ position + n \in Nat
  <2>1. len \in Nat BY SfsAssumption
  <2>2. e.size \in Nat BY <1>3 DEF Entry
  <2>3. e.size - position \in Nat BY <1>3, <2>2
  <2> QED BY <1>3, <1>n, <2>1, <2>2, <2>3 DEF sizeMin
<1>t. PICK end : end = position + n OBVIOUS
<1>5. /\ openFileDescTable' = [openFileDescTable EXCEPT ![fd].currPos = end]
      /\ UNCHANGED <<disk, data, next_rootdir, files, openFileTable>>
  BY <1>3, <1>e, <1>n, <1>t DEF BaselineRead, Read
<1>6. IF n = 0 THEN UNCHANGED currBlock
      ELSE \E b \in BlockAfter(disk.blk, currBlock[fd], position, n) :
                currBlock' = [currBlock EXCEPT ![fd] = b]
  BY <1>3, <1>e, <1>n DEF BaselineRead
<1>7. end \in Nat /\ end <= e.size BY <1>4, <1>t
<1>8. /\ openFileDescTable'[fd] # NULL /\ openFileDescTable'[fd].currPos = end
      /\ openFileDescTable'[fd].fileEntry = openFileDescTable[fd].fileEntry
      /\ \A d \in FDs \ {fd} : openFileDescTable'[d] = openFileDescTable[d]
  BY <1>1, <1>5, <1>7, PositionMoved
<1>9. \A j \in FDs : DiskEntry(j)' = DiskEntry(j) BY <1>5 DEF DiskEntry
<1>10. Current(fd)'
  <2>f. PICK first : first = e.first_block OBVIOUS
  <2>1. currBlock'[fd] \in blockForPosition(disk.blk, first, end)
    <3>1. CASE n = 0
      <4>1. end = position /\ currBlock' = currBlock BY <1>3, <1>6, <1>t, <3>1
      <4> QED BY <1>3, <2>f, <4>1
    <3>2. CASE n # 0
      <4>1. PICK b \in BlockAfter(disk.blk, currBlock[fd], position, n) :
                currBlock' = [currBlock EXCEPT ![fd] = b]
        BY <1>6, <3>2
      <4>2. currBlock'[fd] = b BY <4>1 DEF Remembering
      <4>3. end # 0 BY <1>3, <1>4, <1>t, <3>2
      <4>4. /\ first \in Blocks /\ Place(end) < allocatedBlocksForFile(e)
            /\ Place(position) < allocatedBlocksForFile(e)
        BY <1>3, <1>7, <2>f, <4>3, LivePlace DEF Blocks, SFS_EMPTY_FILE_BLOCK
      <4>5. currBlock[fd] \in fileBlockAt(disk.blk, first, Place(position))
        BY <1>3, <2>f, <4>4, BlockOfPosition
      <4>6. PICK p : PathOf(disk.blk, first, allocatedBlocksForFile(e), p)
        BY <1>3, <1>e, <2>f, OpenPath
      <4>7. b \in fileBlockAt(disk.blk, first, Place(position + n))
        <5>1. n \in Nat \ {0} BY <1>4, <3>2
        <5> QED BY <1>3, <4>1, <4>4, <4>5, <4>6, <5>1, WalkOn
      <4>8. b \in blockForPosition(disk.blk, first, end)
        BY <1>7, <1>t, <4>4, <4>7, BlockOfPosition
      <4> QED BY <4>2, <4>8
    <3> QED BY <3>1, <3>2
  <2>2. i = openFileDescTable'[fd].fileEntry /\ end = openFileDescTable'[fd].currPos
    BY <1>3, <1>8
  <2>3. first = DiskEntry(i)'.first_block BY <1>3, <1>9, <1>e, <2>f
  <2>4. currBlock'[fd] \in blockForPosition(disk'.blk, first, end) BY <1>5, <2>1
  <2> QED BY <2>2, <2>3, <2>4, CurrentNext
<1> SUFFICES ASSUME NEW d \in FDs PROVE Current(d)' BY CurrentAllNext
<1>11. CASE d = fd BY <1>10, <1>11
<1>12. CASE d # fd /\ openFileDescTable[d] = NULL
  <2>1. openFileDescTable'[d] = NULL BY <1>8, <1>12
  <2> QED BY <2>1 DEF Current
<1>13. CASE d # fd /\ openFileDescTable[d] # NULL
  <2>1. openFileDescTable'[d] = openFileDescTable[d] BY <1>8, <1>13
  <2>2. currBlock'[d] = currBlock[d] BY <1>6, <1>13 DEF Remembering
  <2>3. PICK j, at : OpenAt(d, j, at) BY <1>13, OpenFacts
  <2>4. DiskEntry(j)'.first_block = DiskEntry(j).first_block BY <1>9, <2>3 DEF OpenAt
  <2>5. disk' = disk BY <1>5
  <2>6. FileKept(disk.blk, disk'.blk, DiskEntry(j)) BY <2>5, SameFileKept
  <2> QED BY <2>1, <2>2, <2>3, <2>4, <2>6, CurrentFileKept
<1> QED BY <1>11, <1>12, <1>13

LEMMA TruncateGrowAgrees ==
  ASSUME IInv, Structure, PosWithinSize, CacheAgrees,
         NEW fd \in FDs, NEW length \in Lengths, BaselineTruncateGrow(fd, length)
  PROVE  CacheAgrees'
<1>i. PICK i : i = openFileDescTable[fd].fileEntry OBVIOUS
<1>e. PICK old : old = DiskEntry(i) OBVIOUS
<1>h. PICK have : have = allocatedBlocksForFile(old) OBVIOUS
<1>x. PICK extra : extra = blocksForFileSize(length) - have OBVIOUS
<1>1. /\ openFileDescTable[fd] # NULL /\ length > old.size
      /\ \/ /\ extra > 0
            /\ \E new \in LastToAllocate(disk, extra), tail \in FileTail(old) :
                    disk' = GrownDisk(old, new, tail)
            /\ SetDiskEntry(i, [old EXCEPT !.first_block = GrownFirst(old), !.size = length])
         \/ /\ extra <= 0
            /\ disk' = disk
            /\ SetDiskEntry(i, [old EXCEPT !.first_block = old.first_block, !.size = length])
      /\ openFileDescTable' = openFileDescTable
  BY <1>i, <1>e, <1>h, <1>x DEF BaselineTruncateGrow, TruncateGrow
<1>2. currBlock' = [d \in FDs |->
          IF SameFile(d, fd) /\ old.first_block = SFS_EMPTY_FILE_BLOCK
          THEN disk.freelist ELSE currBlock[d]]
  BY <1>i, <1>e DEF BaselineTruncateGrow
<1>3. i \in FDs /\ openFileTable[i] # NULL BY <1>1, <1>i, DescriptorFile DEF IInv
<1>4. old \in Entry /\ Occupied(old) /\ SizedRight(old) BY <1>3, <1>e, LiveEntry
<1>5. have \in Nat /\ old.size \in Nat BY <1>4, <1>h, FileCapacity DEF Entry
<1>6. length \in Nat /\ length # 0 BY <1>1, <1>5
<1>7. blocksForFileSize(length) \in Nat BY <1>6, BlockCount
<1>8. /\ OpenFilesKept
      /\ \E e \in Entry : SetDiskEntry(i, e) /\ e.first_block = GrownFirst(old)
      /\ old.first_block = SFS_EMPTY_FILE_BLOCK => disk.freelist \in Blocks
  <2>1. CASE extra > 0
    <3>1. PICK new \in LastToAllocate(disk, extra), tail \in FileTail(old) :
              disk' = GrownDisk(old, new, tail)
      BY <1>1, <1>5, <1>7, <2>1, <1>x
    <3>n. PICK e : e = [old EXCEPT !.first_block = GrownFirst(old), !.size = length] OBVIOUS
    <3>2. SetDiskEntry(i, e) BY <1>1, <1>5, <1>7, <2>1, <1>x, <3>n
    <3>3. GrownFirst(old) \in Blocks BY <1>4, <3>1, GrownDiskType DEF IInv
    <3>4. GrownFirst(old) \in BlockId BY <3>3, BlockIds
    <3>5. e \in Entry /\ e.first_block = GrownFirst(old)
      BY ONLY <1>4, <1>6, <3>4, <3>n DEF Entry
    <3>6. extra \in Nat BY ONLY <1>5, <1>7, <2>1, <1>x
    <3>7. OpenFilesKept BY <1>3, <1>e, <3>1, <3>6, GrownKept
    <3> QED BY <3>2, <3>3, <3>5, <3>7 DEF GrownFirst
  <2>2. CASE ~ (extra > 0)
    <3>n. PICK e : e = [old EXCEPT !.first_block = old.first_block, !.size = length] OBVIOUS
    <3>1. disk' = disk /\ SetDiskEntry(i, e) BY <1>1, <2>2, <3>n
    <3>2. e \in Entry /\ e.first_block = old.first_block BY ONLY <1>4, <1>6, <3>n DEF Entry
    <3>3. blocksForFileSize(length) <= have BY ONLY <1>5, <1>7, <2>2, <1>x
    <3>4. old.first_block # SFS_EMPTY_FILE_BLOCK
      <4>1. old.size <= length BY <1>1, <1>5, <1>6
      <4> QED BY <1>4, <1>6, <1>h, <3>3, <4>1, GrowthFits
    <3>5. e.first_block = GrownFirst(old) BY <3>2, <3>4 DEF GrownFirst
    <3>6. OpenFilesKept BY <3>1, SameOpenKept
    <3> QED BY <3>1, <3>2, <3>4, <3>5, <3>6
  <2> QED BY <2>1, <2>2
<1>9. PICK e \in Entry : SetDiskEntry(i, e) /\ e.first_block = GrownFirst(old) BY <1>8
<1>10. /\ DiskEntry(i)' = e
       /\ \A j \in FDs \ {i} : openFileTable[j] # NULL => DiskEntry(j)' = DiskEntry(j)
  BY <1>3, <1>9, EntryAssigned
<1> SUFFICES ASSUME NEW d \in FDs PROVE Current(d)' BY CurrentAllNext
<1>11. CASE openFileDescTable[d] = NULL BY <1>1, <1>11 DEF Current
<1>12. CASE openFileDescTable[d] # NULL
  <2>1. PICK j, position : OpenAt(d, j, position) BY <1>12, OpenFacts
  <2>2. /\ j \in FDs /\ openFileTable[j] # NULL
        /\ j = openFileDescTable[d].fileEntry /\ position = openFileDescTable[d].currPos
        /\ position \in Nat /\ position <= DiskEntry(j).size
    BY <2>1 DEF OpenAt
  <2>3. CASE j = i /\ old.first_block = SFS_EMPTY_FILE_BLOCK
    <3>1. SameFile(d, fd) BY <1>12, <1>i, <2>2, <2>3 DEF SameFile
    <3>2. currBlock'[d] = disk.freelist BY <1>2, <2>3, <3>1
    <3>3. position = 0
      <4>1. old.size = 0 BY <1>4, <2>3 DEF SizedRight
      <4> QED BY <1>e, <2>2, <2>3, <4>1
    <3>f. PICK first : first = disk.freelist OBVIOUS
    <3>4. first = DiskEntry(j)'.first_block
      BY <1>9, <1>10, <2>3, <3>f DEF GrownFirst
    <3>5. currBlock'[d] \in blockForPosition(disk'.blk, first, position)
      BY <1>8, <2>3, <3>2, <3>3, <3>f, FirstAt
    <3>6. j = openFileDescTable'[d].fileEntry /\ position = openFileDescTable'[d].currPos
      BY <1>1, <2>2
    <3> QED BY <3>4, <3>5, <3>6, CurrentNext
  <2>4. CASE ~ (j = i /\ old.first_block = SFS_EMPTY_FILE_BLOCK)
    <3>1. currBlock'[d] = currBlock[d]
      BY <1>2, <1>i, <2>2, <2>4 DEF SameFile
    <3>2. DiskEntry(j)'.first_block = DiskEntry(j).first_block
      <4>1. CASE j = i BY <1>9, <1>10, <1>e, <2>4, <4>1 DEF GrownFirst
      <4>2. CASE j # i BY <1>10, <2>2, <4>2
      <4> QED BY <4>1, <4>2
    <3>3. openFileDescTable'[d] = openFileDescTable[d] BY <1>1
    <3>4. FileKept(disk.blk, disk'.blk, DiskEntry(j)) BY <1>8, <2>2 DEF OpenFilesKept
    <3> QED BY <2>1, <3>1, <3>2, <3>3, <3>4, CurrentFileKept
  <2> QED BY <2>3, <2>4
<1> QED BY <1>11, <1>12

LEMMA TruncateShrinkAgrees ==
  ASSUME IInv, Structure, PosWithinSize, CacheAgrees,
         NEW fd \in FDs, NEW length \in Lengths, BaselineTruncateShrink(fd, length)
  PROVE  CacheAgrees'
<1>i. PICK i : i = openFileDescTable[fd].fileEntry OBVIOUS
<1>e. PICK old : old = DiskEntry(i) OBVIOUS
<1>h. PICK have : have = allocatedBlocksForFile(old) OBVIOUS
<1>k. PICK k : k = blocksForFileSize(length) OBVIOUS
<1>n. PICK e : e = [old EXCEPT !.first_block = IF k = 0 THEN SFS_EMPTY_FILE_BLOCK
                                               ELSE old.first_block,
                               !.size = length]
  OBVIOUS
<1>1. /\ openFileDescTable[fd] # NULL /\ length < old.size
      /\ IF k < have
         THEN \E first \in fileBlockAt(disk.blk, old.first_block, k),
                 last \in LastOf(disk.blk, old.first_block) :
                    disk' = AfterFree(disk, first, last)
         ELSE disk' = disk
      /\ SetDiskEntry(i, e)
      /\ openFileDescTable' = [d \in FDs |->
            IF /\ openFileDescTable[d] # NULL
               /\ openFileDescTable[d].fileEntry = i
               /\ openFileDescTable[d].currPos > length
            THEN [openFileDescTable[d] EXCEPT !.currPos = length]
            ELSE openFileDescTable[d]]
  BY <1>i, <1>e, <1>h, <1>k, <1>n DEF BaselineTruncateShrink, TruncateShrink
<1>2. PICK last \in blockForPosition(disk'.blk, IF length = 0 THEN 0 ELSE old.first_block, length) :
        currBlock' = [d \in FDs |->
            IF SameFile(d, fd) /\ openFileDescTable[d].currPos >= length
            THEN last ELSE currBlock[d]]
  BY <1>i, <1>e DEF BaselineTruncateShrink
<1>3. i \in FDs /\ openFileTable[i] # NULL BY <1>1, <1>i, DescriptorFile DEF IInv
<1>4. old \in Entry /\ Occupied(old) /\ SizedRight(old) BY <1>3, <1>e, LiveEntry
<1>5. length \in Nat /\ old.size \in Nat /\ old.size # 0
  <2>1. length \in Nat OBVIOUS
  <2>2. old.size \in Nat BY <1>4 DEF Entry
  <2> QED BY <1>1, <2>1, <2>2
<1>6. /\ old.first_block # SFS_EMPTY_FILE_BLOCK
      /\ have = blocksForFileSize(old.size)
  BY <1>4, <1>5, <1>h DEF SizedRight, allocatedBlocksForFile
<1>7. k \in Nat /\ (k = 0 <=> length = 0) /\ length <= k * BLOCK_DATA_SIZE
  BY <1>5, <1>k, BlockCount
<1>8. e \in Entry /\ e.first_block = IF k = 0 THEN SFS_EMPTY_FILE_BLOCK ELSE old.first_block
  <2>1. SFS_EMPTY_FILE_BLOCK \in BlockId \cup {SFS_EMPTY_FILE_BLOCK} OBVIOUS
  <2> QED BY ONLY <1>4, <1>5, <1>n, <2>1 DEF Entry
<1>9. /\ BlocksKept(disk.blk, disk'.blk, old.first_block, k)
      /\ \A j \in FDs \ {i} : openFileTable[j] # NULL =>
            FileKept(disk.blk, disk'.blk, DiskEntry(j))
  <2>1. CASE k < have
    <3>1. PICK first \in fileBlockAt(disk.blk, old.first_block, k),
               tail \in LastOf(disk.blk, old.first_block) :
                  disk' = AfterFree(disk, first, tail)
      BY <1>1, <2>1
    <3> QED BY <1>3, <1>7, <1>e, <1>h, <2>1, <3>1, ShrunkKept
  <2>2. CASE ~ (k < have)
    <3>1. disk' = disk BY <1>1, <2>2
    <3>2. BlocksKept(disk.blk, disk'.blk, old.first_block, k) BY <3>1 DEF BlocksKept
    <3> QED BY <3>1, <3>2, SameFileKept
  <2> QED BY <2>1, <2>2
<1>10. /\ DiskEntry(i)' = e
       /\ \A j \in FDs \ {i} : openFileTable[j] # NULL => DiskEntry(j)' = DiskEntry(j)
  BY <1>1, <1>3, <1>8, EntryAssigned
<1>11. last \in blockForPosition(disk'.blk, e.first_block, length)
  <2>1. CASE length = 0
    <3>1. last = 0 BY <1>2, <2>1 DEF blockForPosition
    <3>2. e.first_block = SFS_EMPTY_FILE_BLOCK BY <1>7, <1>8, <2>1
    <3> QED BY <2>1, <3>1, <3>2, FirstAt
  <2>2. CASE length # 0 BY <1>2, <1>7, <1>8, <2>2
  <2> QED BY <2>1, <2>2
<1> SUFFICES ASSUME NEW d \in FDs PROVE Current(d)' BY CurrentAllNext
<1>12. CASE openFileDescTable[d] = NULL
  <2>1. openFileDescTable'[d] = NULL BY <1>1, <1>12
  <2> QED BY <2>1 DEF Current
<1>13. CASE openFileDescTable[d] # NULL
  <2>1. PICK j, position : OpenAt(d, j, position) BY <1>13, OpenFacts
  <2>2. /\ j \in FDs /\ openFileTable[j] # NULL
        /\ j = openFileDescTable[d].fileEntry /\ position = openFileDescTable[d].currPos
        /\ position \in Nat /\ position <= DiskEntry(j).size
    BY <2>1 DEF OpenAt
  <2>3. CASE j = i /\ position >= length
    <3>1. SameFile(d, fd) BY <1>13, <1>i, <2>2, <2>3 DEF SameFile
    <3>2. currBlock'[d] = last BY <1>2, <2>2, <2>3, <3>1
    <3>3. /\ openFileDescTable'[d].fileEntry = i
          /\ openFileDescTable'[d].currPos = length
      <4>1. openFileDescTable[d] \in Descriptor BY <1>13 DEF IInv, TypeOK
      <4>2. CASE position > length
        <5>1. openFileDescTable'[d] = [openFileDescTable[d] EXCEPT !.currPos = length]
          BY <1>1, <1>13, <2>2, <2>3, <4>2
        <5> QED BY <2>2, <2>3, <4>1, <5>1 DEF Descriptor
      <4>3. CASE ~ (position > length)
        <5>1. openFileDescTable'[d] = openFileDescTable[d]
          BY <1>1, <1>13, <2>2, <2>3, <4>3
        <5>2. position = length BY ONLY <1>5, <2>2, <2>3, <4>3
        <5> QED BY <2>2, <2>3, <5>1, <5>2
      <4> QED BY <4>2, <4>3
    <3>f. PICK first : first = e.first_block OBVIOUS
    <3>4. first = DiskEntry(i)'.first_block BY <1>10, <3>f
    <3>5. currBlock'[d] \in blockForPosition(disk'.blk, first, length) BY <1>11, <3>2, <3>f
    <3>6. i = openFileDescTable'[d].fileEntry /\ length = openFileDescTable'[d].currPos
      BY <3>3
    <3> QED BY <3>4, <3>5, <3>6, CurrentNext
  <2>4. CASE ~ (j = i /\ position >= length)
    <3>1. currBlock'[d] = currBlock[d] BY <1>2, <1>i, <2>2, <2>4 DEF SameFile
    <3>2. openFileDescTable'[d] = openFileDescTable[d]
      <4>1. position > length => position >= length BY ONLY <1>5, <2>2
      <4> QED BY <1>1, <2>2, <2>4, <4>1
    <3>3. CASE j = i
      <4>1. position < length BY ONLY <1>5, <2>2, <2>4, <3>3
      <4>2. k # 0 BY ONLY <1>5, <1>7, <2>2, <4>1
      <4>3. DiskEntry(j)'.first_block = DiskEntry(j).first_block
        BY <1>8, <1>10, <1>e, <3>3, <4>2
      <4>4. Place(position) < k
        <5>x. PICK x : x = k * BLOCK_DATA_SIZE OBVIOUS
        <5>1. x \in Nat BY <1>7, <5>x
        <5>2. length <= x BY <1>7, <5>x
        <5>3. position <= x BY ONLY <1>5, <2>2, <4>1, <5>1, <5>2
        <5>4. position <= k * BLOCK_DATA_SIZE BY <5>3, <5>x
        <5> QED BY <1>7, <2>2, <4>2, <5>4, PlaceWithin
      <4>5. BlocksKept(disk.blk, disk'.blk, DiskEntry(j).first_block, k)
        BY <1>9, <1>e, <3>3
      <4> QED BY <2>1, <3>1, <3>2, <4>3, <4>4, <4>5, CurrentKept
    <3>4. CASE j # i
      <4>1. DiskEntry(j)'.first_block = DiskEntry(j).first_block BY <1>10, <2>2, <3>4
      <4>2. FileKept(disk.blk, disk'.blk, DiskEntry(j)) BY <1>9, <2>2, <3>4
      <4> QED BY <2>1, <3>1, <3>2, <4>1, <4>2, CurrentFileKept
    <3> QED BY <3>3, <3>4
  <2> QED BY <2>3, <2>4
<1> QED BY <1>12, <1>13

(* The open file of a name that goes sees the copy of its entry. *)
LEMMA RemoveAgrees ==
  ASSUME IInv, Structure, PosWithinSize, CacheAgrees,
         NEW name \in Names, BaselineRemove(name)
  PROVE  CacheAgrees'
<1>1. PICK slot \in findDirectoryEntry(name) :
        unlinkDirectoryEntry(slot) /\ files' = [files EXCEPT ![slot] = UnusedEntry]
  BY DEF BaselineRemove, Remove
<1>2. slot \in Slots /\ Occupied(files[slot]) BY EntryFound
<1>3. openFileDescTable' = openFileDescTable /\ currBlock' = currBlock
  BY DEF BaselineRemove, Remove
<1>4. openFileTable \in [FDs -> OpenFile \cup {NULL}] /\ files \in [Slots -> Entry]
  BY DEF IInv, TypeOK
<1>5. ASSUME NEW j \in FDs, openFileTable[j] # NULL,
             openFileTable'[j] = openFileTable[j], openFileTable[j].diskFile # slot
      PROVE  DiskEntry(j)' = DiskEntry(j)
  <2>1. openFileTable[j] \in OpenFile BY <1>4, <1>5
  <2>2. openFileTable[j].diskFile \in Slots \cup {UnlinkedFile} BY <2>1 DEF OpenFile
  <2>3. CASE openFileTable[j].diskFile = UnlinkedFile BY <1>5, <2>3 DEF DiskEntry
  <2>4. CASE openFileTable[j].diskFile # UnlinkedFile
    <3>s. PICK s : s = openFileTable[j].diskFile OBVIOUS
    <3>1. s \in Slots /\ s # slot /\ DiskEntry(j) = files[s] /\ DiskEntry(j)' = files'[s]
      BY <1>5, <2>2, <2>4, <3>s DEF DiskEntry
    <3>2. files'[s] = files[s] BY <1>1, <1>4, <3>1
    <3> QED BY <3>1, <3>2
  <2> QED BY <2>3, <2>4
<1>6. ASSUME NEW j \in FDs, openFileTable[j] # NULL
      PROVE  DiskEntry(j)' = DiskEntry(j) /\ FileKept(disk.blk, disk'.blk, DiskEntry(j))
  <2>1. CASE findOpenFile(slot) # {}
    <3>1. /\ \E i \in findOpenFile(slot) :
              openFileTable' = [openFileTable EXCEPT
                  ![i].unlinkedFile = files[slot],
                  ![i].diskFile = UnlinkedFile,
                  ![i].unlinked = TRUE]
          /\ disk' = disk
      BY <1>1, <2>1 DEF unlinkDirectoryEntry
    <3>2. PICK i \in findOpenFile(slot) :
              openFileTable' = [openFileTable EXCEPT
                  ![i].unlinkedFile = files[slot],
                  ![i].diskFile = UnlinkedFile,
                  ![i].unlinked = TRUE]
      BY <3>1
    <3>3. i \in FDs /\ openFileTable[i] # NULL /\ openFileTable[i].diskFile = slot
      BY OpenFileSearch
    <3>4. DiskEntry(j)' = DiskEntry(j)
      <4>1. CASE j = i
        <5>1. openFileTable[i] \in OpenFile BY <1>4, <3>3
        <5>2. openFileTable'[i].diskFile = UnlinkedFile
              /\ openFileTable'[i].unlinkedFile = files[slot]
          BY <1>4, <3>2, <3>3, <5>1 DEF OpenFile
        <5>3. DiskEntry(j)' = files[slot] BY <4>1, <5>2 DEF DiskEntry
        <5>4. DiskEntry(j) = files[slot] BY <1>2, <3>3, <4>1, BlockIds DEF DiskEntry
        <5> QED BY <5>3, <5>4
      <4>2. CASE j # i
        <5>1. openFileTable'[j] = openFileTable[j] BY <1>4, <3>2, <4>2
        <5>2. ~ openFileTable[i].unlinked
          BY <1>2, <3>3, BlockIds DEF IInv, OpenFilesTrackEntries
        <5>3. openFileTable[j].diskFile # slot
          BY <1>6, <3>3, <4>2, <5>2 DEF IInv, OpenFilesTrackEntries
        <5> QED BY <1>5, <1>6, <5>1, <5>3
      <4> QED BY <4>1, <4>2
    <3>5. FileKept(disk.blk, disk'.blk, DiskEntry(j)) BY <3>1, SameFileKept
    <3> QED BY <3>4, <3>5
  <2>2. CASE findOpenFile(slot) = {}
    <3>1. /\ openFileTable' = openFileTable
          /\ IF files[slot].first_block # SFS_EMPTY_FILE_BLOCK
             THEN \E last \in LastOf(disk.blk, files[slot].first_block) :
                    disk' = AfterFree(disk, files[slot].first_block, last)
             ELSE disk' = disk
      BY <1>1, <2>2 DEF unlinkDirectoryEntry
    <3>2. openFileTable[j].diskFile # slot BY <1>6, <2>2, OpenFileSearch
    <3>3. DiskEntry(j)' = DiskEntry(j) BY <1>5, <1>6, <3>1, <3>2
    <3>4. FileKept(disk.blk, disk'.blk, DiskEntry(j))
      <4>1. CASE files[slot].first_block = SFS_EMPTY_FILE_BLOCK
        <5>1. disk' = disk BY <3>1, <4>1
        <5> QED BY <5>1, SameFileKept
      <4>2. CASE files[slot].first_block # SFS_EMPTY_FILE_BLOCK
        <5>1. PICK E : EntriesAre(E, files, openFileTable) /\ Arranged(disk, next_rootdir, E)
          BY DEF Structure
        <5>2. slot \in FileOwners /\ E[slot] = files[slot]
          BY <1>2, <5>1 DEF EntriesAre, FileOwners
        <5>3. PICK last \in LastOf(disk.blk, E[slot].first_block) :
                disk' = AfterFree(disk, E[slot].first_block, last)
          BY <3>1, <4>2, <5>2
        <5>4. OwnerOf(j) # slot BY <1>2, <1>6, <3>2, OwnersApart DEF OwnerOf
        <5> QED BY <1>2, <1>6, <4>2, <5>1, <5>2, <5>3, <5>4, DroppedKept
      <4> QED BY <4>1, <4>2
    <3> QED BY <3>3, <3>4
  <2> QED BY <2>1, <2>2
<1> SUFFICES ASSUME NEW d \in FDs PROVE Current(d)' BY CurrentAllNext
<1>7. CASE openFileDescTable[d] = NULL BY <1>3, <1>7 DEF Current
<1>8. CASE openFileDescTable[d] # NULL
  <2>1. PICK j, position : OpenAt(d, j, position) BY <1>8, OpenFacts
  <2>2. j \in FDs /\ openFileTable[j] # NULL BY <2>1 DEF OpenAt
  <2>3. /\ DiskEntry(j)'.first_block = DiskEntry(j).first_block
        /\ FileKept(disk.blk, disk'.blk, DiskEntry(j))
    BY <1>6, <2>2
  <2>4. openFileDescTable'[d] = openFileDescTable[d] /\ currBlock'[d] = currBlock[d] BY <1>3
  <2> QED BY <2>1, <2>3, <2>4, CurrentFileKept
<1> QED BY <1>7, <1>8

\* The bytes to be stored at place i of block b, in a file with the blocks l.
BytesAt(l, from, bytes, b, i) ==
    {k \in {(j - 1) * BLOCK_DATA_SIZE + i + 1 - from : j \in {n \in DOMAIN l : l[n] = b}} :
        k \in DOMAIN bytes}

LEMMA StoreBytesIs ==
  ASSUME NEW blk, NEW first, NEW from, NEW bytes, NEW l, l = List(blk, first)
  PROVE  StoreBytes(blk, first, from, bytes)
            = [b \in Blocks |-> [i \in 0 .. BLOCK_DATA_SIZE - 1 |->
                 IF BytesAt(l, from, bytes, b, i) = {} THEN data[b][i]
                 ELSE bytes[CHOOSE k \in BytesAt(l, from, bytes, b, i) : TRUE]]]
<1>1. l \in Seq(Blocks) BY ListFacts
<1> QED BY <1>1 DEF StoreBytes, BytesAt

(* Storing from the block of a position on is storing from the head of the file on. *)
LEMMA StoreFromBlock ==
  ASSUME NEW blk, NEW first, NEW m, NEW p, PathOf(blk, first, m, p),
         NEW position \in Nat, Place(position) < m,
         NEW c \in fileBlockAt(blk, first, Place(position)),
         NEW bytes \in Seq(Bytes)
  PROVE  StoreBytes(blk, c, OffsetInBlock(position), bytes)
            = StoreBytes(blk, first, position, bytes)
<1> PICK B : B = BLOCK_DATA_SIZE OBVIOUS
<1>k. PICK k : k = Place(position) OBVIOUS
<1>o. PICK off : off = OffsetInBlock(position) OBVIOUS
<1>1. B \in Nat \ {0} OBVIOUS
<1>2. k \in Nat /\ off \in Nat /\ position = B * k + off BY <1>k, <1>o, PlaceFacts
<1>3. Linked(blk, first, m, p) /\ m \in Nat /\ k < m BY <1>k DEF PathOf
<1>4. c = p[k + 1] BY <1>2, <1>3, <1>k, LinkedBlocks
<1>n. PICK n : n = m - k OBVIOUS
<1>r. PICK r : r = Rest(p, m, k) OBVIOUS
<1>5. Linked(blk, c, n, r) BY <1>2, <1>3, <1>4, <1>n, <1>r, LinkedRest
<1>6. n \in Nat /\ k + n = m BY <1>2, <1>3, <1>n
<1>7. \A j \in 1 .. n : r[j] = p[k + j] BY <1>n, <1>r DEF Rest
<1>l. PICK l : l = List(blk, first) OBVIOUS
<1>s. PICK s : s = List(blk, c) OBVIOUS
<1>8. DOMAIN l = 1 .. m /\ \A j \in 1 .. m : l[j] = p[j] BY <1>3, <1>l, LinkedList
<1>9. DOMAIN s = 1 .. n /\ \A j \in 1 .. n : s[j] = p[k + j]
  BY <1>5, <1>6, <1>7, <1>s, LinkedList
<1>10. DOMAIN bytes = 1 .. Len(bytes) /\ Len(bytes) \in Nat OBVIOUS
<1>u. PICK u : u = B * k OBVIOUS
<1>11. u \in Nat /\ position = u + off BY <1>1, <1>2, <1>u
<1>12. ASSUME NEW b \in Blocks, NEW i \in 0 .. B - 1
       PROVE  BytesAt(s, off, bytes, b, i) = BytesAt(l, position, bytes, b, i)
  <2>0. i \in Nat /\ i < B BY <1>1
  <2>1. ASSUME NEW x \in BytesAt(s, off, bytes, b, i)
        PROVE  x \in BytesAt(l, position, bytes, b, i)
    <3>1. PICK j \in 1 .. n : s[j] = b /\ x = (j - 1) * B + i + 1 - off
      BY <1>9, <2>1 DEF BytesAt
    <3>2. x \in DOMAIN bytes BY <2>1 DEF BytesAt
    <3>g. PICK g : g = k + j OBVIOUS
    <3>3. g \in 1 .. m /\ l[g] = b BY <1>2, <1>6, <1>8, <1>9, <3>1, <3>g
    <3>4. x = (g - 1) * B + i + 1 - position
      <4>1. (g - 1) * B = u + (j - 1) * B
        <5>1. g - 1 = k + (j - 1) /\ j - 1 \in Nat BY ONLY <1>2, <1>6, <3>1, <3>g
        <5>h. PICK h : h = j - 1 OBVIOUS
        <5>2. (k + h) * B = B * k + h * B BY ONLY <1>1, <1>2, <5>1, <5>h
        <5> QED BY <1>u, <5>1, <5>2, <5>h
      <4>v. PICK v : v = (j - 1) * B OBVIOUS
      <4>w. PICK w : w = (g - 1) * B OBVIOUS
      <4>2. v \in Int BY ONLY <1>1, <1>6, <3>1, <4>v
      <4>3. w = u + v /\ x = v + i + 1 - off BY <3>1, <4>1, <4>v, <4>w
      <4>4. x = w + i + 1 - position BY ONLY <1>2, <1>11, <2>0, <4>2, <4>3
      <4> QED BY <4>4, <4>w
    <3> QED BY <1>8, <3>2, <3>3, <3>4 DEF BytesAt
  <2>2. ASSUME NEW x \in BytesAt(l, position, bytes, b, i)
        PROVE  x \in BytesAt(s, off, bytes, b, i)
    <3>1. PICK g \in 1 .. m : l[g] = b /\ x = (g - 1) * B + i + 1 - position
      BY <1>8, <2>2 DEF BytesAt
    <3>2. x \in DOMAIN bytes BY <2>2 DEF BytesAt
    <3>j. PICK j : j = g - k OBVIOUS
    <3>0. j \in Int /\ g = k + j BY <1>2, <1>3, <3>1, <3>j
    <3>v. PICK v : v = (j - 1) * B OBVIOUS
    <3>3. v \in Int /\ (g - 1) * B = u + v
      <4>h. PICK h : h = j - 1 OBVIOUS
      <4>1. h \in Int /\ g - 1 = k + h BY ONLY <1>2, <3>0, <4>h
      <4>2. (k + h) * B = B * k + h * B /\ h * B \in Int BY ONLY <1>1, <1>2, <4>1
      <4> QED BY <1>u, <3>v, <4>1, <4>2, <4>h
    <3>4. x = v + i + 1 - off
      <4>w. PICK w : w = (g - 1) * B OBVIOUS
      <4>1. w = u + v /\ x = w + i + 1 - position BY <3>1, <3>3, <4>w
      <4> QED BY ONLY <1>2, <1>11, <2>0, <3>3, <4>1
    <3>5. j >= 1
      <4> SUFFICES ASSUME ~ (j >= 1) PROVE FALSE OBVIOUS
      <4>h. PICK h : h = j - 1 OBVIOUS
      <4>1. h \in Int /\ h <= -1 BY ONLY <3>0, <4>h, ~ (j >= 1)
      <4>2. h * B <= -B BY ONLY <1>1, <4>1
      <4>3. v <= -B BY <3>v, <4>2, <4>h
      <4>4. x \in Nat /\ x >= 1 BY <1>10, <3>2
      <4> QED BY ONLY <1>1, <1>2, <2>0, <3>3, <3>4, <4>3, <4>4
    <3>6. j \in 1 .. n BY ONLY <1>2, <1>3, <1>6, <3>0, <3>1, <3>5
    <3>7. s[j] = b BY <1>8, <1>9, <3>0, <3>1, <3>6
    <3>8. x = (j - 1) * B + i + 1 - off BY <3>4, <3>v
    <3> QED BY <1>9, <3>2, <3>6, <3>7, <3>8 DEF BytesAt
  <2> QED BY <2>1, <2>2
<1>13. StoreBytes(blk, c, off, bytes)
        = [b \in Blocks |-> [i \in 0 .. BLOCK_DATA_SIZE - 1 |->
             IF BytesAt(s, off, bytes, b, i) = {} THEN data[b][i]
             ELSE bytes[CHOOSE x \in BytesAt(s, off, bytes, b, i) : TRUE]]]
  BY ONLY <1>s, StoreBytesIs
<1>14. StoreBytes(blk, first, position, bytes)
        = [b \in Blocks |-> [i \in 0 .. BLOCK_DATA_SIZE - 1 |->
             IF BytesAt(l, position, bytes, b, i) = {} THEN data[b][i]
             ELSE bytes[CHOOSE x \in BytesAt(l, position, bytes, b, i) : TRUE]]]
  BY ONLY <1>l, StoreBytesIs
<1> QED BY <1>12, <1>13, <1>14, <1>o

LEMMA AssignedPath ==
  ASSUME IInv, Structure', NEW i \in FDs, openFileTable[i] # NULL,
         NEW e \in Entry, Occupied(e), SetDiskEntry(i, e)
  PROVE  \E p : PathOf(disk'.blk, e.first_block, allocatedBlocksForFile(e), p)
<1>1. PICK E : EntriesAre(E, files', openFileTable') /\ Arranged(disk', next_rootdir', E)
  BY DEF Structure
<1>2. /\ E \in [FileOwners -> Entry]
      /\ \A s \in Slots : E[s] = files'[s]
      /\ \A j \in FDs : E[Own(j)] = OwnEntry(openFileTable'[j])
  BY <1>1 DEF EntriesAre
<1>3. openFileTable \in [FDs -> OpenFile \cup {NULL}] /\ files \in [Slots -> Entry]
  BY DEF IInv, TypeOK
<1>4. openFileTable[i] \in OpenFile BY <1>3
<1>5. PICK o \in FileOwners : E[o] = e
  <2>1. CASE openFileTable[i].diskFile = UnlinkedFile
    <3>n. PICK new : new = [openFileTable[i] EXCEPT !.unlinkedFile = e] OBVIOUS
    <3>1. openFileTable'[i] = new BY <1>3, <2>1, <3>n DEF SetDiskEntry
    <3>2. new \in OpenFile /\ new.diskFile = UnlinkedFile /\ new.unlinkedFile = e
      BY <1>4, <2>1, <3>n DEF OpenFile
    <3>3. new # NULL BY <3>2, NullAssumption
    <3>4. Own(i) \in FileOwners /\ E[Own(i)] = e
      BY <1>2, <3>1, <3>2, <3>3 DEF OwnEntry, FileOwners
    <3> QED BY <3>4
  <2>2. CASE openFileTable[i].diskFile # UnlinkedFile
    <3>s. PICK s : s = openFileTable[i].diskFile OBVIOUS
    <3>1. s \in Slots BY <1>4, <2>2, <3>s DEF OpenFile
    <3>2. files' = [files EXCEPT ![s] = e] BY <2>2, <3>s DEF SetDiskEntry
    <3>3. s \in FileOwners /\ E[s] = e BY <1>2, <1>3, <3>1, <3>2 DEF FileOwners
    <3> QED BY <3>3
  <2> QED BY <2>1, <2>2
<1>6. \E p : PathOf(disk'.blk, E[o].first_block, allocatedBlocksForFile(E[o]), p)
  BY <1>1, <1>2, <1>5, FilePath
<1> QED BY <1>5, <1>6

\* The blocks of a file that sfs_write stores in: those it has, or those and new ones.
WrittenBlocks(old, end, first) ==
    LET have  == allocatedBlocksForFile(old)
        extra == (roundUp(end, BLOCK_DATA_SIZE) - have * BLOCK_DATA_SIZE)
                    \div BLOCK_DATA_SIZE
    IN  \/ /\ end <= have * BLOCK_DATA_SIZE
           /\ disk' = disk /\ first = old.first_block
        \/ /\ end > have * BLOCK_DATA_SIZE
           /\ first = GrownFirst(old)
           /\ \E new \in LastToAllocate(disk, extra), tail \in FileTail(old) :
                    disk' = GrownDisk(old, new, tail)

\* What sfs_write assigns when it starts in the descriptor's block c, and a file without
\* blocks gets the first one.
WritesFrom(fd, buf, position, end, old, first, c) ==
    /\ data' = StoreBytes(disk'.blk, c, OffsetInBlock(position), buf)
    /\ openFileDescTable' = [openFileDescTable EXCEPT ![fd].currPos = end]
    /\ next_rootdir' = next_rootdir
    /\ SetDiskEntry(openFileDescTable[fd].fileEntry,
            [old EXCEPT !.first_block = first, !.size = IF end > old.size THEN end ELSE @])
    /\ \E b \in BlockAfter(disk'.blk, c, position, Len(buf)) :
        currBlock' = [d \in FDs |->
            IF d = fd THEN b
            ELSE IF old.first_block = SFS_EMPTY_FILE_BLOCK /\ SameFile(d, fd) /\ currBlock[d] = 0
                 THEN first ELSE currBlock[d]]

\* The block that a descriptor of a file with entry old writes from.
StartsAt(fd, old, first, c) ==
    IF old.first_block = SFS_EMPTY_FILE_BLOCK THEN c = first
    ELSE c = currBlock[fd] /\ first = old.first_block

LEMMA WriterBlock ==
  ASSUME NEW fd, NEW i, NEW position, OpenAt(fd, i, position)
  PROVE  LET old == DiskEntry(i)
         IN  IF old.first_block = SFS_EMPTY_FILE_BLOCK
             THEN currBlock[fd] = 0 /\ position = 0
             ELSE /\ currBlock[fd] # 0 /\ old.first_block \in Blocks
                  /\ Place(position) < allocatedBlocksForFile(old)
                  /\ currBlock[fd] \in fileBlockAt(disk.blk, old.first_block, Place(position))
<1>e. PICK old : old = DiskEntry(i) OBVIOUS
<1>1. /\ old \in Entry /\ Occupied(old) /\ SizedRight(old)
      /\ position \in Nat /\ position <= old.size
      /\ currBlock[fd] \in blockForPosition(disk.blk, old.first_block, position)
  BY <1>e DEF OpenAt
<1>2. CASE old.first_block = SFS_EMPTY_FILE_BLOCK
  <2>1. currBlock[fd] = 0 BY <1>1, <1>2, BlockOfPosition
  <2>2. position = 0 BY <1>1, <1>2, LivePlace DEF Blocks, SFS_EMPTY_FILE_BLOCK
  <2> QED BY <1>2, <1>e, <2>1, <2>2
<1>3. CASE old.first_block # SFS_EMPTY_FILE_BLOCK
  <2>1. old.first_block \in Blocks /\ Place(position) < allocatedBlocksForFile(old)
    BY <1>1, <1>3, LivePlace
  <2>2. currBlock[fd] \in fileBlockAt(disk.blk, old.first_block, Place(position))
    BY <1>1, <2>1, BlockOfPosition
  <2>3. currBlock[fd] \in Blocks BY <2>2, FoundBlocks
  <2>4. currBlock[fd] # 0 BY <2>3 DEF Blocks
  <2> QED BY <1>3, <1>e, <2>1, <2>2, <2>4
<1> QED BY <1>2, <1>3

(* The two programs write the same blocks of the file. *)
LEMMA WriteIs ==
  ASSUME IInv, Structure, NEW fd \in FDs, NEW buf \in Buffers, BaselineWrite(fd, buf),
         NEW i, NEW position, OpenAt(fd, i, position),
         NEW old, old = DiskEntry(i), NEW end, end = position + Len(buf)
  PROVE  /\ CanWrite(fd, buf)
         /\ \E first, c : /\ WrittenBlocks(old, end, first)
                          /\ StartsAt(fd, old, first, c)
                          /\ WritesFrom(fd, buf, position, end, old, first, c)
<1>1. /\ i = openFileDescTable[fd].fileEntry /\ position = openFileDescTable[fd].currPos
      /\ i \in FDs /\ openFileTable[i] # NULL /\ position \in Nat
      /\ old \in Entry /\ Occupied(old) /\ SizedRight(old)
  BY DEF OpenAt
<1>2. IF old.first_block = SFS_EMPTY_FILE_BLOCK
      THEN currBlock[fd] = 0 /\ position = 0
      ELSE /\ currBlock[fd] # 0 /\ old.first_block \in Blocks
           /\ Place(position) < allocatedBlocksForFile(old)
           /\ currBlock[fd] \in fileBlockAt(disk.blk, old.first_block, Place(position))
  BY WriterBlock
<1>h. PICK have : have = allocatedBlocksForFile(old) OBVIOUS
<1>x. PICK extra : extra = (roundUp(end, BLOCK_DATA_SIZE) - have * BLOCK_DATA_SIZE)
                              \div BLOCK_DATA_SIZE
  OBVIOUS
<1>3. /\ CanWrite(fd, buf)
      /\ \/ /\ end <= have * BLOCK_DATA_SIZE
            /\ StoreFrom(fd, buf, disk.blk, 0)
            /\ disk' = disk
         \/ /\ end > have * BLOCK_DATA_SIZE
            /\ \E allocated \in allocateBlocks(extra, "FILE") :
                  /\ IF currBlock[fd] = 0 THEN disk' = allocated
                     ELSE \E tail \in LastOf(disk.blk, currBlock[fd]) :
                            disk' = AfterAttach(allocated, tail, disk.freelist)
                  /\ StoreFrom(fd, buf, disk'.blk, disk.freelist)
  BY <1>1, <1>h, <1>x DEF BaselineWrite
<1>4. have \in Nat /\ (have = 0 <=> old.first_block = SFS_EMPTY_FILE_BLOCK)
  BY <1>1, <1>h, FileCapacity
<1>5. end \in Nat /\ end # 0
  <2>l. PICK l : l = Len(buf) OBVIOUS
  <2>1. buf \in Seq(Bytes) BY SfsAssumption
  <2>2. l \in Nat /\ l # 0 BY <1>3, <2>1, <2>l DEF CanWrite
  <2>3. end = position + l BY <2>l
  <2> QED BY ONLY <1>1, <2>2, <2>3
<1>6. ASSUME NEW head, StoreFrom(fd, buf, disk'.blk, head),
             NEW first, first = IF currBlock[fd] = 0 THEN head ELSE old.first_block,
             NEW c, c = IF currBlock[fd] = 0 THEN head ELSE currBlock[fd]
      PROVE  WritesFrom(fd, buf, position, end, old, first, c)
  <2>n. PICK e : e = [old EXCEPT !.first_block = IF currBlock[fd] = 0 THEN head ELSE @,
                                 !.size = IF end > @ THEN end ELSE @]
    OBVIOUS
  <2>1. /\ data' = StoreBytes(disk'.blk, c, OffsetInBlock(position), buf)
        /\ \E b \in BlockAfter(disk'.blk, c, position, Len(buf)) :
            currBlock' = [d \in FDs |->
                IF d = fd THEN b
                ELSE IF currBlock[fd] = 0 /\ SameFile(d, fd) /\ currBlock[d] = 0 THEN head
                ELSE currBlock[d]]
        /\ openFileDescTable' = [openFileDescTable EXCEPT ![fd].currPos = end]
        /\ SetDiskEntry(i, e)
        /\ next_rootdir' = next_rootdir
    BY <1>1, <1>6, <2>n DEF StoreFrom
  <2>2. e = [old EXCEPT !.first_block = first, !.size = IF end > old.size THEN end ELSE @]
    BY <1>6, <2>n
  <2>3. \E b \in BlockAfter(disk'.blk, c, position, Len(buf)) :
            currBlock' = [d \in FDs |->
                IF d = fd THEN b
                ELSE IF old.first_block = SFS_EMPTY_FILE_BLOCK /\ SameFile(d, fd)
                        /\ currBlock[d] = 0
                     THEN first ELSE currBlock[d]]
    <3>1. CASE currBlock[fd] = 0
      <4>1. first = head /\ old.first_block = SFS_EMPTY_FILE_BLOCK BY <1>2, <1>6, <3>1
      <4> QED BY <2>1, <3>1, <4>1
    <3>2. CASE currBlock[fd] # 0
      <4>1. old.first_block # SFS_EMPTY_FILE_BLOCK BY <1>2, <3>2
      <4> QED BY <2>1, <3>2, <4>1
    <3> QED BY <3>1, <3>2
  <2> QED BY <1>1, <2>1, <2>2, <2>3 DEF WritesFrom
<1>7. CASE /\ end <= have * BLOCK_DATA_SIZE
           /\ StoreFrom(fd, buf, disk.blk, 0)
           /\ disk' = disk
  <2>1. have # 0
    <3>1. 0 * BLOCK_DATA_SIZE = 0 OBVIOUS
    <3> QED BY <1>5, <1>7, <3>1
  <2>2. old.first_block # SFS_EMPTY_FILE_BLOCK /\ currBlock[fd] # 0 BY <1>2, <1>4, <2>1
  <2>3. WritesFrom(fd, buf, position, end, old, old.first_block, currBlock[fd])
    BY <1>6, <1>7, <2>2
  <2>4. WrittenBlocks(old, end, old.first_block) BY <1>7, <1>h DEF WrittenBlocks
  <2>5. StartsAt(fd, old, old.first_block, currBlock[fd]) BY <2>2 DEF StartsAt
  <2> QED BY <1>3, <2>3, <2>4, <2>5
<1>8. CASE /\ end > have * BLOCK_DATA_SIZE
           /\ \E allocated \in allocateBlocks(extra, "FILE") :
                  /\ IF currBlock[fd] = 0 THEN disk' = allocated
                     ELSE \E tail \in LastOf(disk.blk, currBlock[fd]) :
                            disk' = AfterAttach(allocated, tail, disk.freelist)
                  /\ StoreFrom(fd, buf, disk'.blk, disk.freelist)
  <2>1. PICK new \in LastToAllocate(disk, extra) :
            /\ IF currBlock[fd] = 0 THEN disk' = AfterAllocate(disk, "FILE", new)
               ELSE \E tail \in LastOf(disk.blk, currBlock[fd]) :
                      disk' = AfterAttach(AfterAllocate(disk, "FILE", new), tail, disk.freelist)
            /\ StoreFrom(fd, buf, disk'.blk, disk.freelist)
    BY <1>8 DEF allocateBlocks
  <2>2. \E tail \in FileTail(old) : disk' = GrownDisk(old, new, tail)
    <3>1. CASE currBlock[fd] = 0
      <4>1. old.first_block = SFS_EMPTY_FILE_BLOCK BY <1>2, <3>1
      <4>2. 0 \in FileTail(old) /\ disk' = GrownDisk(old, new, 0)
        BY <2>1, <3>1, <4>1 DEF FileTail, GrownDisk
      <4> QED BY <4>2
    <3>2. CASE currBlock[fd] # 0
      <4>1. PICK tail \in LastOf(disk.blk, currBlock[fd]) :
                disk' = AfterAttach(AfterAllocate(disk, "FILE", new), tail, disk.freelist)
        BY <2>1, <3>2
      <4>2. /\ old.first_block # SFS_EMPTY_FILE_BLOCK
            /\ Place(position) < have
            /\ currBlock[fd] \in fileBlockAt(disk.blk, old.first_block, Place(position))
        BY <1>2, <1>h, <3>2
      <4>3. PICK p : PathOf(disk.blk, old.first_block, have, p) BY <1>1, <1>h, OpenPath
      <4>4. tail \in LastOf(disk.blk, old.first_block) BY <1>1, <4>1, <4>2, <4>3, WalkOn
      <4>5. tail \in FileTail(old) /\ disk' = GrownDisk(old, new, tail)
        BY <4>1, <4>2, <4>4 DEF FileTail, GrownDisk
      <4> QED BY <4>5
    <3> QED BY <3>1, <3>2
  <2>f. PICK first : first = IF currBlock[fd] = 0 THEN disk.freelist ELSE old.first_block
    OBVIOUS
  <2>c. PICK c : c = IF currBlock[fd] = 0 THEN disk.freelist ELSE currBlock[fd] OBVIOUS
  <2>3. WritesFrom(fd, buf, position, end, old, first, c) BY <1>6, <2>1, <2>c, <2>f
  <2>4. first = GrownFirst(old) BY <1>2, <2>f DEF GrownFirst
  <2>5. StartsAt(fd, old, first, c) BY <1>2, <2>c, <2>f DEF StartsAt
  <2>6. WrittenBlocks(old, end, first)
    BY <1>8, <1>h, <1>x, <2>1, <2>2, <2>4 DEF WrittenBlocks
  <2> QED BY <1>3, <2>3, <2>5, <2>6
<1> QED BY <1>3, <1>7, <1>8

(* The block that sfs_write starts from is the one of its position after new blocks were *)
(* attached too, and no block of an open file has moved.                                 *)
LEMMA WriteWalks ==
  ASSUME IInv, Structure, NEW fd \in FDs, NEW i, NEW position, OpenAt(fd, i, position),
         NEW old, old = DiskEntry(i), NEW end \in Nat, end # 0, position <= end,
         NEW first, NEW c, NEW buf, WrittenBlocks(old, end, first),
         StartsAt(fd, old, first, c), WritesFrom(fd, buf, position, end, old, first, c)
  PROVE  /\ OpenFilesKept /\ first \in Blocks
         /\ c \in fileBlockAt(disk'.blk, first, Place(position))
         /\ \E m, p : PathOf(disk'.blk, first, m, p) /\ Place(position) < m
         /\ \E e \in Entry : SetDiskEntry(i, e) /\ e.first_block = first
<1>1. /\ i = openFileDescTable[fd].fileEntry
      /\ i \in FDs /\ openFileTable[i] # NULL /\ position \in Nat
      /\ old \in Entry /\ Occupied(old) /\ SizedRight(old)
  BY DEF OpenAt
<1>2. IF old.first_block = SFS_EMPTY_FILE_BLOCK
      THEN position = 0
      ELSE /\ old.first_block \in Blocks
           /\ Place(position) < allocatedBlocksForFile(old)
           /\ currBlock[fd] \in fileBlockAt(disk.blk, old.first_block, Place(position))
  BY WriterBlock
<1>h. PICK have : have = allocatedBlocksForFile(old) OBVIOUS
<1>3. /\ have \in Nat /\ (have = 0 <=> old.first_block = SFS_EMPTY_FILE_BLOCK)
      /\ old.size \in Nat /\ old.size <= have * BLOCK_DATA_SIZE
  BY <1>1, <1>h, FileCapacity DEF Entry
<1>n. PICK e : e = [old EXCEPT !.first_block = first,
                               !.size = IF end > old.size THEN end ELSE @]
  OBVIOUS
<1>4. SetDiskEntry(i, e) /\ next_rootdir' = next_rootdir
  BY <1>1, <1>n DEF WritesFrom
<1>5. first \in Blocks =>
        e \in Entry /\ e.first_block = first /\ e.size = IF end > old.size THEN end ELSE old.size
  <2>1. first \in Blocks => first \in BlockId BY BlockIds
  <2> QED BY ONLY <1>1, <1>n, <2>1, end \in Nat DEF Entry
<1>6. ASSUME OpenFilesKept, first \in Blocks,
             \E m, p : PathOf(disk'.blk, first, m, p) /\ Place(position) < m
      PROVE  c \in fileBlockAt(disk'.blk, first, Place(position))
  <2>1. CASE old.first_block = SFS_EMPTY_FILE_BLOCK
    <3>1. c = first /\ position = 0 BY <1>2, <2>1 DEF StartsAt
    <3>2. c \in blockForPosition(disk'.blk, first, position) BY <1>6, <3>1, FirstAt
    <3> QED BY <1>1, <1>6, <3>2, BlockOfPosition
  <2>2. CASE old.first_block # SFS_EMPTY_FILE_BLOCK
    <3>1. c = currBlock[fd] /\ first = old.first_block BY <2>2 DEF StartsAt
    <3>2. BlocksKept(disk.blk, disk'.blk, first, have)
      BY <1>1, <1>6, <1>h, <3>1 DEF OpenFilesKept, FileKept
    <3>k. PICK k : k = Place(position) OBVIOUS
    <3>3. k \in Nat /\ k < have /\ c \in fileBlockAt(disk.blk, first, k)
      BY <1>1, <1>2, <1>h, <2>2, <3>1, <3>k, PlaceFacts
    <3>4. fileBlockAt(disk'.blk, first, k) = fileBlockAt(disk.blk, first, k)
      BY <3>2, <3>3 DEF BlocksKept
    <3> QED BY <3>3, <3>4, <3>k
  <2> QED BY <2>1, <2>2
<1>7. /\ OpenFilesKept /\ first \in Blocks
      /\ \E m, p : PathOf(disk'.blk, first, m, p) /\ Place(position) < m
  <2>1. CASE end <= have * BLOCK_DATA_SIZE
    <3>1. disk' = disk /\ first = old.first_block
      <4>x. PICK x : x = have * BLOCK_DATA_SIZE OBVIOUS
      <4>1. x \in Nat BY <1>3, <4>x
      <4>2. end <= x BY <2>1, <4>x
      <4>3. ~ (end > x) BY ONLY <4>1, <4>2, end \in Nat
      <4>4. ~ (end > have * BLOCK_DATA_SIZE) BY <4>3, <4>x
      <4> QED BY <1>h, <4>4 DEF WrittenBlocks
    <3>2. have # 0
      <4>1. 0 * BLOCK_DATA_SIZE = 0 OBVIOUS
      <4> QED BY <2>1, <4>1
    <3>3. /\ first \in Blocks /\ Place(position) < have
      BY <1>2, <1>3, <1>h, <3>1, <3>2
    <3>4. PICK p : PathOf(disk.blk, first, have, p) BY <1>1, <1>h, <3>1, OpenPath
    <3>5. OpenFilesKept BY <3>1, SameOpenKept
    <3>6. PathOf(disk'.blk, first, have, p) BY <3>1, <3>4
    <3> QED BY <3>3, <3>5, <3>6
  <2>2. CASE ~ (end <= have * BLOCK_DATA_SIZE)
    <3>x. PICK extra : extra = (roundUp(end, BLOCK_DATA_SIZE) - have * BLOCK_DATA_SIZE)
                                  \div BLOCK_DATA_SIZE
      OBVIOUS
    <3>1. /\ first = GrownFirst(old) /\ end > have * BLOCK_DATA_SIZE
          /\ \E new \in LastToAllocate(disk, extra), tail \in FileTail(old) :
                disk' = GrownDisk(old, new, tail)
      BY <1>h, <2>2, <3>x DEF WrittenBlocks
    <3>2. PICK new \in LastToAllocate(disk, extra), tail \in FileTail(old) :
                disk' = GrownDisk(old, new, tail)
      BY <3>1
    <3>3. first \in Blocks BY <1>1, <3>1, <3>2, GrownDiskType DEF IInv
    <3>4. extra \in Nat /\ have + extra = blocksForFileSize(end)
      BY <1>3, <3>1, <3>x, ExtraBlocks
    <3>5. OpenFilesKept BY <1>1, <3>2, <3>4, GrownKept
    <3>6. e \in Entry /\ e.first_block = first /\ e.size = end
      <4> PICK x : x = have * BLOCK_DATA_SIZE OBVIOUS
      <4>1. x \in Nat /\ old.size <= x /\ end > x BY <1>3, <3>1
      <4>2. end > old.size BY ONLY <1>3, <4>1, end \in Nat
      <4> QED BY <1>5, <3>3, <4>2
    <3>7. Structure'
      BY <1>1, <1>4, <1>h, <3>1, <3>2, <3>4, <3>6, FileGrown
    <3>8. Occupied(e) /\ e.first_block # SFS_EMPTY_FILE_BLOCK
      BY <3>3, <3>6 DEF Occupied, Blocks, SFS_EMPTY_FILE_BLOCK
    <3>m. PICK m : m = allocatedBlocksForFile(e) OBVIOUS
    <3>9. PICK p : PathOf(disk'.blk, first, m, p)
      BY <1>1, <1>4, <3>6, <3>7, <3>8, <3>m, AssignedPath
    <3>10. Place(position) < m
      <4>1. SizedRight(e) /\ position <= e.size BY <3>6, <3>8 DEF SizedRight
      <4> QED BY <1>1, <3>6, <3>8, <3>m, <4>1, LivePlace
    <3> QED BY <3>3, <3>5, <3>9, <3>10
  <2> QED BY <2>1, <2>2
<1> QED BY <1>4, <1>5, <1>6, <1>7

\* A write of a descriptor, with the names that the lemmas above give to its parts.
Writes(fd, buf, i, position, old, end, first, c) ==
    /\ OpenAt(fd, i, position) /\ old = DiskEntry(i) /\ end = position + Len(buf)
    /\ end \in Nat /\ end # 0 /\ position <= end /\ Len(buf) \in Nat \ {0}
    /\ CanWrite(fd, buf)
    /\ WrittenBlocks(old, end, first)
    /\ StartsAt(fd, old, first, c)
    /\ WritesFrom(fd, buf, position, end, old, first, c)

LEMMA WriteFound ==
  ASSUME IInv, Structure, PosWithinSize, CacheAgrees,
         NEW fd \in FDs, NEW buf \in Buffers, BaselineWrite(fd, buf)
  PROVE  \E i, position, old, end, first, c : Writes(fd, buf, i, position, old, end, first, c)
<1>1. openFileDescTable[fd] # NULL /\ Len(buf) # 0 BY DEF BaselineWrite, CanWrite
<1>2. PICK i, position : OpenAt(fd, i, position) BY <1>1, OpenFacts
<1>e. PICK old : old = DiskEntry(i) OBVIOUS
<1>n. PICK end : end = position + Len(buf) OBVIOUS
<1>3. CanWrite(fd, buf) BY DEF BaselineWrite
<1>4. PICK first, c : /\ WrittenBlocks(old, end, first)
                      /\ StartsAt(fd, old, first, c)
                      /\ WritesFrom(fd, buf, position, end, old, first, c)
  BY <1>2, <1>e, <1>n, WriteIs
<1>5. end \in Nat /\ end # 0 /\ position <= end /\ Len(buf) \in Nat \ {0}
  <2>l. PICK l : l = Len(buf) OBVIOUS
  <2>1. buf \in Seq(Bytes) BY SfsAssumption
  <2>2. l \in Nat /\ l # 0 BY <1>1, <2>1, <2>l
  <2>3. end = position + l /\ position \in Nat BY <1>2, <1>n, <2>l DEF OpenAt
  <2>4. end \in Nat /\ end # 0 /\ position <= end BY ONLY <2>2, <2>3
  <2> QED BY <2>2, <2>4, <2>l
<1>6. Writes(fd, buf, i, position, old, end, first, c)
  BY <1>2, <1>3, <1>4, <1>5, <1>e, <1>n DEF Writes
<1> QED BY <1>6

(* Writing from the remembered block on is writing from the head of the file on. *)
LEMMA WriteRefines ==
  ASSUME IInv, Structure, PosWithinSize, CacheAgrees,
         NEW fd \in FDs, NEW buf \in Buffers, BaselineWrite(fd, buf)
  PROVE  WriteInPlace(fd, buf) \/ WriteGrow(fd, buf)
<1>1. PICK i, position, old, end, first, c :
        Writes(fd, buf, i, position, old, end, first, c)
  BY WriteFound
<1>2. /\ OpenAt(fd, i, position) /\ old = DiskEntry(i) /\ end = position + Len(buf)
      /\ end \in Nat /\ end # 0 /\ position <= end
      /\ CanWrite(fd, buf)
      /\ WrittenBlocks(old, end, first)
      /\ StartsAt(fd, old, first, c)
      /\ WritesFrom(fd, buf, position, end, old, first, c)
  BY <1>1 DEF Writes
<1>3. /\ c \in fileBlockAt(disk'.blk, first, Place(position))
      /\ \E m, p : PathOf(disk'.blk, first, m, p) /\ Place(position) < m
  BY <1>2, WriteWalks
<1>4. /\ i = openFileDescTable[fd].fileEntry /\ position = openFileDescTable[fd].currPos
      /\ position \in Nat
  BY <1>2 DEF OpenAt
<1>5. StoreBytes(disk'.blk, c, OffsetInBlock(position), buf)
        = StoreBytes(disk'.blk, first, position, buf)
  <2>1. PICK m, p : PathOf(disk'.blk, first, m, p) /\ Place(position) < m BY <1>3
  <2>2. buf \in Seq(Bytes) BY SfsAssumption
  <2> QED BY <1>3, <1>4, <2>1, <2>2, StoreFromBlock
<1>6. WriteOut(fd, buf, disk'.blk, first)
  <2>n. PICK e : e = [old EXCEPT !.first_block = first,
                                 !.size = IF end > old.size THEN end ELSE @]
    OBVIOUS
  <2>1. /\ data' = StoreBytes(disk'.blk, first, position, buf)
        /\ openFileDescTable' = [openFileDescTable EXCEPT ![fd].currPos = end]
        /\ SetDiskEntry(i, e) /\ next_rootdir' = next_rootdir
    BY <1>2, <1>4, <1>5, <2>n DEF WritesFrom
  <2> QED BY <1>2, <1>4, <2>1, <2>n DEF WriteOut
<1>7. CASE /\ end <= allocatedBlocksForFile(old) * BLOCK_DATA_SIZE
           /\ disk' = disk /\ first = old.first_block
  <2>1. WriteOut(fd, buf, disk.blk, old.first_block) BY <1>6, <1>7
  <2> QED BY <1>2, <1>4, <1>7, <2>1 DEF WriteInPlace
<1>8. CASE ~ (/\ end <= allocatedBlocksForFile(old) * BLOCK_DATA_SIZE
              /\ disk' = disk /\ first = old.first_block)
  <2>x. PICK extra : extra = (roundUp(end, BLOCK_DATA_SIZE)
                                - allocatedBlocksForFile(old) * BLOCK_DATA_SIZE)
                                  \div BLOCK_DATA_SIZE
    OBVIOUS
  <2>1. /\ end > allocatedBlocksForFile(old) * BLOCK_DATA_SIZE /\ first = GrownFirst(old)
        /\ \E new \in LastToAllocate(disk, extra), tail \in FileTail(old) :
                disk' = GrownDisk(old, new, tail)
    BY <1>2, <1>8, <2>x DEF WrittenBlocks
  <2>2. WriteOut(fd, buf, disk'.blk, GrownFirst(old)) BY <1>6, <2>1
  <2> QED BY <1>2, <1>4, <2>1, <2>2, <2>x DEF WriteGrow
<1> QED BY <1>7, <1>8

(* sfs_write moves one descriptor; those of a file without blocks get its first block. *)
LEMMA WriteAgrees ==
  ASSUME IInv, Structure, PosWithinSize, CacheAgrees,
         NEW fd \in FDs, NEW buf \in Buffers, BaselineWrite(fd, buf)
  PROVE  CacheAgrees'
<1>1. PICK i, position, old, end, first, c :
        Writes(fd, buf, i, position, old, end, first, c)
  BY WriteFound
<1>2. /\ OpenAt(fd, i, position) /\ old = DiskEntry(i) /\ end = position + Len(buf)
      /\ end \in Nat /\ end # 0 /\ position <= end /\ Len(buf) \in Nat \ {0}
      /\ WrittenBlocks(old, end, first)
      /\ StartsAt(fd, old, first, c)
      /\ WritesFrom(fd, buf, position, end, old, first, c)
  BY <1>1 DEF Writes
<1>3. /\ OpenFilesKept /\ first \in Blocks
      /\ c \in fileBlockAt(disk'.blk, first, Place(position))
      /\ \E m, p : PathOf(disk'.blk, first, m, p) /\ Place(position) < m
      /\ \E e \in Entry : SetDiskEntry(i, e) /\ e.first_block = first
  BY <1>2, WriteWalks
<1>4. PICK b \in BlockAfter(disk'.blk, c, position, Len(buf)) :
        currBlock' = [d \in FDs |->
            IF d = fd THEN b
            ELSE IF old.first_block = SFS_EMPTY_FILE_BLOCK /\ SameFile(d, fd) /\ currBlock[d] = 0
                 THEN first ELSE currBlock[d]]
  BY <1>2 DEF WritesFrom
<1>5. /\ i = openFileDescTable[fd].fileEntry /\ position \in Nat
      /\ i \in FDs /\ openFileTable[i] # NULL /\ openFileDescTable[fd] # NULL
      /\ SizedRight(old)
  BY <1>2 DEF OpenAt
<1>6. PICK e \in Entry : SetDiskEntry(i, e) /\ e.first_block = first BY <1>3
<1>7. /\ DiskEntry(i)' = e
      /\ \A j \in FDs \ {i} : openFileTable[j] # NULL => DiskEntry(j)' = DiskEntry(j)
  BY <1>5, <1>6, EntryAssigned
<1>8. /\ openFileDescTable'[fd] # NULL /\ openFileDescTable'[fd].currPos = end
      /\ openFileDescTable'[fd].fileEntry = openFileDescTable[fd].fileEntry
      /\ \A d \in FDs \ {fd} : openFileDescTable'[d] = openFileDescTable[d]
  <2>1. openFileDescTable' = [openFileDescTable EXCEPT ![fd].currPos = end]
    BY <1>2 DEF WritesFrom
  <2> QED BY <1>2, <1>5, <2>1, PositionMoved
<1>9. old.first_block # SFS_EMPTY_FILE_BLOCK => first = old.first_block
  BY <1>2 DEF StartsAt
<1>10. Current(fd)'
  <2>1. PICK m, p : PathOf(disk'.blk, first, m, p) /\ Place(position) < m BY <1>3
  <2>2. b \in fileBlockAt(disk'.blk, first, Place(position + Len(buf)))
    BY <1>2, <1>3, <1>4, <1>5, <2>1, WalkOn
  <2>3. b \in blockForPosition(disk'.blk, first, end) BY <1>2, <1>3, <2>2, BlockOfPosition
  <2>4. currBlock'[fd] \in blockForPosition(disk'.blk, first, end) BY <1>4, <2>3
  <2>5. i = openFileDescTable'[fd].fileEntry /\ end = openFileDescTable'[fd].currPos
    BY <1>5, <1>8
  <2>6. first = DiskEntry(i)'.first_block BY <1>6, <1>7
  <2> QED BY <2>4, <2>5, <2>6, CurrentNext
<1> SUFFICES ASSUME NEW d \in FDs PROVE Current(d)' BY CurrentAllNext
<1>11. CASE d = fd BY <1>10, <1>11
<1>12. CASE d # fd /\ openFileDescTable[d] = NULL
  <2>1. openFileDescTable'[d] = NULL BY <1>8, <1>12
  <2> QED BY <2>1 DEF Current
<1>13. CASE d # fd /\ openFileDescTable[d] # NULL
  <2>1. PICK j, at : OpenAt(d, j, at) BY <1>13, OpenFacts
  <2>2. /\ j \in FDs /\ openFileTable[j] # NULL
        /\ j = openFileDescTable[d].fileEntry /\ at = openFileDescTable[d].currPos
    BY <2>1 DEF OpenAt
  <2>3. openFileDescTable'[d] = openFileDescTable[d] BY <1>8, <1>13
  <2>4. CASE j = i /\ old.first_block = SFS_EMPTY_FILE_BLOCK
    <3>1. at = 0 /\ currBlock[d] = 0 BY <1>2, <2>1, <2>4, WriterBlock
    <3>2. SameFile(d, fd) BY <1>5, <1>13, <2>2, <2>4 DEF SameFile
    <3>3. currBlock'[d] = first BY <1>4, <1>13, <2>4, <3>1, <3>2
    <3>4. currBlock'[d] \in blockForPosition(disk'.blk, first, at) BY <1>3, <3>1, <3>3, FirstAt
    <3>5. first = DiskEntry(i)'.first_block BY <1>6, <1>7
    <3>6. i = openFileDescTable'[d].fileEntry /\ at = openFileDescTable'[d].currPos
      BY <2>2, <2>3, <2>4
    <3> QED BY <3>4, <3>5, <3>6, CurrentNext
  <2>5. CASE ~ (j = i /\ old.first_block = SFS_EMPTY_FILE_BLOCK)
    <3>1. currBlock'[d] = currBlock[d]
      BY <1>4, <1>5, <1>13, <2>2, <2>5 DEF SameFile
    <3>2. DiskEntry(j)'.first_block = DiskEntry(j).first_block
      <4>1. CASE j = i BY <1>2, <1>6, <1>7, <1>9, <2>5, <4>1
      <4>2. CASE j # i BY <1>7, <2>2, <4>2
      <4> QED BY <4>1, <4>2
    <3>3. FileKept(disk.blk, disk'.blk, DiskEntry(j)) BY <1>3, <2>2 DEF OpenFilesKept
    <3> QED BY <2>1, <2>3, <3>1, <3>2, <3>3, CurrentFileKept
  <2> QED BY <2>4, <2>5
<1> QED BY <1>11, <1>12, <1>13

-----------------------------------------------------------------------------
(* The reference file system does what sfs-disk.c does *)

\* sfs_open fails when the directory has got its new block.
ExpandedOnly ==
    /\ \E new \in LastToAllocate(disk, 1), last \in LastDirectoryBlock : expandDirectory(new, last)
    /\ UNCHANGED <<files, openFileTable, openFileDescTable>>

LEMMA ExpandedOnlyKeeps ==
  ASSUME IInv, Structure, PosWithinSize, ExpandedOnly
  PROVE  IInv' /\ Structure' /\ PosWithinSize'
<1>1. PICK new \in LastToAllocate(disk, 1), last \in LastDirectoryBlock :
        expandDirectory(new, last)
  BY DEF ExpandedOnly
<1>2. UNCHANGED <<files, openFileTable, openFileDescTable>> BY DEF ExpandedOnly
<1>3. IInv'
  <2>1. disk' \in Disk /\ data' \in [Blocks -> BlockData] /\ next_rootdir' \in BlockId
    BY <1>1, expandDirectoryType DEF IInv
  <2>2. TypeOK' BY <1>2, <2>1 DEF IInv, TypeOK
  <2>3. RefCounts' BY <1>2 DEF IInv, RefCounts, Descriptors
  <2>4. OpenFilesTrackEntries' BY <1>2 DEF IInv, OpenFilesTrackEntries, DiskEntry, Occupied
  <2> QED BY <2>2, <2>3, <2>4 DEF IInv
<1>4. Structure'
  <2>1. /\ \E E : EntriesAre(E, files, openFileTable) /\ Arranged(disk', next_rootdir', E)
        /\ \A s \in Slots : InDirectory(disk, s) => InDirectory(disk', s)
    BY <1>1, Expanded
  <2>2. files' = files /\ openFileTable' = openFileTable BY <1>2
  <2> QED BY <2>1, <2>2 DEF Structure
<1>5. PosWithinSize'
  <2>1. \A d \in FDs : DiskEntry(openFileDescTable[d].fileEntry)'
                       = DiskEntry(openFileDescTable[d].fileEntry)
    BY <1>2 DEF DiskEntry
  <2> QED BY <1>2, <2>1 DEF PosWithinSize
<1> QED BY <1>3, <1>4, <1>5

(* Every step of the reference file system is one of sfs-disk.c, but for the sfs_open that *)
(* fails without a descriptor to spare: there the directory has grown all the same.        *)
LEMMA BaselineSteps ==
  ASSUME IInv, Structure, PosWithinSize, CacheAgrees, BaselineNext
  PROVE  Next \/ ExpandedOnly
<1>1. ASSUME NEW name \in Names, BaselineOpenExisting(name) PROVE OpenExisting(name)
  BY <1>1 DEF BaselineOpenExisting, OpenExisting, addDescriptor
<1>2. ASSUME NEW name \in Names, BaselineOpenCreate(name) PROVE OpenCreate(name)
  BY <1>2 DEF BaselineOpenCreate, OpenCreate, createEmpty, createFile, addDescriptor
<1>3. ASSUME NEW name \in Names, BaselineOpenExpand(name)
      PROVE  OpenExpand(name) \/ ExpandedOnly
  <2>1. PICK new \in LastToAllocate(disk, 1), last \in LastDirectoryBlock :
            /\ expandDirectory(new, last)
            /\ \/ createEmpty(name, <<new, 1>>)
               \/ UNCHANGED <<files, openFileTable, openFileDescTable, currBlock>>
    BY <1>3 DEF BaselineOpenExpand
  <2>2. CASE createEmpty(name, <<new, 1>>)
    <3>1. createFile(name, <<new, 1>>) BY <2>2 DEF createEmpty, createFile, addDescriptor
    <3> QED BY <1>3, <2>1, <3>1 DEF BaselineOpenExpand, OpenExpand
  <2>3. CASE UNCHANGED <<files, openFileTable, openFileDescTable, currBlock>>
    BY <2>1, <2>3 DEF ExpandedOnly
  <2> QED BY <2>1, <2>2, <2>3
<1>4. ASSUME NEW name \in Names, BaselineRemove(name) PROVE Remove(name)
  BY <1>4 DEF BaselineRemove
<1>5. ASSUME NEW fd \in FDs, BaselineClose(fd) PROVE Close(fd) BY <1>5 DEF BaselineClose
<1>6. ASSUME NEW fd \in FDs, NEW len \in Lengths, BaselineRead(fd, len) PROVE Read(fd, len)
  BY <1>6 DEF BaselineRead
<1>7. ASSUME NEW fd \in FDs, NEW len \in Lengths, BaselineTruncateGrow(fd, len)
      PROVE  TruncateGrow(fd, len)
  BY <1>7 DEF BaselineTruncateGrow
<1>8. ASSUME NEW fd \in FDs, NEW len \in Lengths, BaselineTruncateShrink(fd, len)
      PROVE  TruncateShrink(fd, len)
  BY <1>8 DEF BaselineTruncateShrink
<1>9. ASSUME NEW fd \in FDs, NEW buf \in Buffers, BaselineWrite(fd, buf)
      PROVE  WriteInPlace(fd, buf) \/ WriteGrow(fd, buf)
  BY <1>9, WriteRefines
<1>10. CASE \E name \in Names :
              \/ BaselineOpenExisting(name)
              \/ BaselineOpenCreate(name)
              \/ BaselineOpenExpand(name)
              \/ BaselineRemove(name)
  <2>1. PICK name \in Names : \/ OpenExisting(name)
                              \/ OpenCreate(name)
                              \/ OpenExpand(name) \/ ExpandedOnly
                              \/ Remove(name)
    BY <1>1, <1>2, <1>3, <1>4, <1>10
  <2> QED BY <2>1 DEF Next
<1>11. CASE \E fd \in FDs :
              \/ BaselineClose(fd)
              \/ \E len \in Lengths :
                  \/ BaselineRead(fd, len)
                  \/ BaselineTruncateGrow(fd, len)
                  \/ BaselineTruncateShrink(fd, len)
              \/ \E buf \in Buffers : BaselineWrite(fd, buf)
  <2>1. PICK fd \in FDs : \/ Close(fd)
                          \/ \E len \in Lengths :
                              \/ Read(fd, len)
                              \/ TruncateGrow(fd, len)
                              \/ TruncateShrink(fd, len)
                          \/ \E buf \in Buffers : WriteInPlace(fd, buf) \/ WriteGrow(fd, buf)
    BY <1>5, <1>6, <1>7, <1>8, <1>9, <1>11
  <2> QED BY <2>1 DEF Next
<1> QED BY <1>10, <1>11 DEF BaselineNext

LEMMA RemembersNext ==
  ASSUME Remembering, BaselineNext
  PROVE  Remembering'
<1>1. ASSUME NEW name \in Names,
             \/ BaselineOpenExisting(name)
             \/ BaselineOpenCreate(name)
             \/ BaselineOpenExpand(name)
             \/ BaselineRemove(name)
      PROVE  Remembering'
  BY <1>1 DEF Remembering, BaselineOpenExisting, BaselineOpenCreate, BaselineOpenExpand,
              BaselineRemove, createEmpty, addDescriptor
<1>2. ASSUME NEW fd \in FDs,
             \/ BaselineClose(fd)
             \/ \E len \in Lengths :
                  \/ BaselineRead(fd, len)
                  \/ BaselineTruncateGrow(fd, len)
                  \/ BaselineTruncateShrink(fd, len)
      PROVE  Remembering'
  BY <1>2 DEF Remembering, BaselineClose, BaselineRead, BaselineTruncateGrow,
              BaselineTruncateShrink
<1>3. ASSUME NEW fd \in FDs, NEW buf \in Buffers, BaselineWrite(fd, buf) PROVE Remembering'
  BY <1>3 DEF Remembering, BaselineWrite, StoreFrom
<1> QED BY <1>1, <1>2, <1>3 DEF BaselineNext

LEMMA CacheNext ==
  ASSUME IInv, IInv', Structure, PosWithinSize, CacheAgrees, Remembering, BaselineNext
  PROVE  CacheAgrees'
<1>1. ASSUME NEW name \in Names,
             \/ BaselineOpenExisting(name)
             \/ BaselineOpenCreate(name)
             \/ BaselineOpenExpand(name)
             \/ BaselineRemove(name)
      PROVE  CacheAgrees'
  BY <1>1, OpenExistingAgrees, OpenCreateAgrees, OpenExpandAgrees, RemoveAgrees
<1>2. ASSUME NEW fd \in FDs, BaselineClose(fd) PROVE CacheAgrees' BY <1>2, CloseAgrees
<1>3. ASSUME NEW fd \in FDs, NEW len \in Lengths,
             \/ BaselineRead(fd, len)
             \/ BaselineTruncateGrow(fd, len)
             \/ BaselineTruncateShrink(fd, len)
      PROVE  CacheAgrees'
  BY <1>3, ReadAgrees, TruncateGrowAgrees, TruncateShrinkAgrees
<1>4. ASSUME NEW fd \in FDs, NEW buf \in Buffers, BaselineWrite(fd, buf) PROVE CacheAgrees'
  BY <1>4, WriteAgrees
<1> QED BY <1>1, <1>2, <1>3, <1>4 DEF BaselineNext

\* The invariant of both programs, and what the reference file system remembers.
BothInv ==
    /\ IInv /\ Structure /\ PosWithinSize
    /\ program = "sfs-baseline-ref" => CacheAgrees /\ Remembering

LEMMA BothInit == ImplInit => BothInv
<1> SUFFICES ASSUME ImplInit PROVE BothInv OBVIOUS
<1>1. Init /\ currBlock = [fd \in FDs |-> 0] BY DEF ImplInit, BaselineInit
<1>2. \A fd \in FDs : openFileDescTable[fd] = NULL BY <1>1 DEF Init
<1>3. PosWithinSize /\ CacheAgrees BY <1>2 DEF PosWithinSize, CacheAgrees
<1>4. Remembering BY <1>1 DEF Remembering
<1> QED BY <1>1, <1>3, <1>4, InitKeeps, StructureInit DEF BothInv

LEMMA BothNext ==
  BothInv /\ [ImplNext]_<<baselineVars, program, dir, orphans, pos>> => BothInv'
<1> SUFFICES ASSUME BothInv, [ImplNext]_<<baselineVars, program, dir, orphans, pos>>
             PROVE  BothInv'
  OBVIOUS
<1>1. IInv /\ Structure /\ PosWithinSize BY DEF BothInv
<1>2. ASSUME [Next]_vars PROVE IInv' /\ Structure' /\ PosWithinSize'
  <2>1. IInv' BY <1>1, <1>2, NextKeeps
  <2> QED BY <1>1, <1>2, <2>1, StructureNext, NextPositions
<1>3. CASE program = "sfs-disk" /\ Next /\ program' = program
  BY <1>2, <1>3 DEF BothInv
<1>4. CASE program = "sfs-baseline-ref" /\ BaselineNext /\ program' = program
  <2>1. CacheAgrees /\ Remembering BY <1>4 DEF BothInv
  <2>2. Next \/ ExpandedOnly BY <1>1, <1>4, <2>1, BaselineSteps
  <2>3. IInv' /\ Structure' /\ PosWithinSize' BY <1>1, <1>2, <2>2, ExpandedOnlyKeeps
  <2>4. CacheAgrees' /\ Remembering' BY <1>1, <1>4, <2>1, <2>3, CacheNext, RemembersNext
  <2> QED BY <2>3, <2>4 DEF BothInv
<1>5. CASE UNCHANGED <<baselineVars, program, dir, orphans, pos>>
  <2>1. UNCHANGED vars /\ currBlock' = currBlock /\ program' = program
    BY <1>5 DEF baselineVars
  <2>2. IInv' /\ Structure' /\ PosWithinSize' BY <1>2, <2>1
  <2>3. CacheAgrees => CacheAgrees' BY <2>1 DEF CacheAgrees, DiskEntry, vars
  <2>4. Remembering => Remembering' BY <2>1 DEF Remembering
  <2> QED BY <2>1, <2>2, <2>3, <2>4 DEF BothInv
<1> QED BY <1>3, <1>4, <1>5 DEF ImplNext

(* The block that a descriptor of the reference file system remembers is the one its   *)
(* position is in, for every image, every number of descriptors and every sequence of *)
(* calls: sfs_read and sfs_write never start in a block of another file.               *)
THEOREM CachedBlocksRightCorrect == ImplSpec => []CachedBlocksRight
<1>1. BothInv => CachedBlocksRight BY DEF BothInv, CachedBlocksRight
<1> QED BY <1>1, BothInit, BothNext, PTL DEF ImplSpec

(* Whichever of the two programs is linked, its block lists are those that sfs-fsck *)
(* demands, files have the blocks that their sizes need, and no descriptor is past  *)
(* the end of its file.                                                             *)
THEOREM BothFileSystemsCorrect ==
  ImplSpec => [](BlocksPartitioned /\ ListsWellFormed /\ SizesMatchBlocks /\ PosWithinSize)
<1>1. BothInv => BlocksPartitioned /\ ListsWellFormed /\ SizesMatchBlocks /\ PosWithinSize
  BY StructurePartitions, StructureSizes DEF BothInv
<1> QED BY <1>1, BothInit, BothNext, PTL DEF ImplSpec


-----------------------------------------------------------------------------
(* What a program sees of the files *)

Good == IInv /\ Structure /\ PosWithinSize /\ UniqueNames

\* The entry of every file owner, and the owners that have a file.
FileEntries ==
    [o \in FileOwners |-> IF o \in Slots THEN files[o] ELSE OwnEntry(openFileTable[o[2]])]

Live(o) == o \in FileOwners /\ Occupied(FileEntries[o])

\* The file in slot s has this name.
Holds(s, name) == Occupied(files[s]) /\ files[s].name = name

\* The descriptors of the file with owner o.
FdsOf(o) ==
    {fd \in FDs : openFileDescTable[fd] # NULL /\ OwnerOf(openFileDescTable[fd].fileEntry) = o}

\* Byte k, from 1 on, of the list from first on, and the bytes of a file.
BlockAt(blk, first, k) == CHOOSE b : b \in fileBlockAt(blk, first, k)

Byte(blk, dat, first, k) ==
    dat[BlockAt(blk, first, Place(k))][(k - 1) % BLOCK_DATA_SIZE]

FileBytes(blk, dat, e) == [k \in 1 .. e.size |-> Byte(blk, dat, e.first_block, k)]

\* The file of owner o, as SfsApi has it.
FileAt(o) == [bytes |-> FileBytes(disk.blk, data, FileEntries[o]), fds |-> FdsOf(o)]

FileValues == [bytes : Seq(Bytes), fds : SUBSET FDs]

LEMMA EntriesArranged ==
  Good => EntriesAre(FileEntries, files, openFileTable) /\ Arranged(disk, next_rootdir, FileEntries)
<1> SUFFICES ASSUME Good
             PROVE  EntriesAre(FileEntries, files, openFileTable)
                    /\ Arranged(disk, next_rootdir, FileEntries)
  OBVIOUS
<1>1. PICK E : EntriesAre(E, files, openFileTable) /\ Arranged(disk, next_rootdir, E)
  BY DEF Good, Structure
<1>2. /\ E \in [FileOwners -> Entry]
      /\ \A s \in Slots : E[s] = files[s]
      /\ \A i \in FDs : E[Own(i)] = OwnEntry(openFileTable[i])
  BY <1>1 DEF EntriesAre
<1>3. \A i \in FDs : Own(i)[2] = i /\ Own(i) \notin Slots BY OwnersApart DEF Own
<1>4. \A o \in FileOwners :
        E[o] = IF o \in Slots THEN files[o] ELSE OwnEntry(openFileTable[o[2]])
  <2> SUFFICES ASSUME NEW o \in FileOwners
               PROVE  E[o] = IF o \in Slots THEN files[o] ELSE OwnEntry(openFileTable[o[2]])
    OBVIOUS
  <2>1. CASE o \in Slots BY <1>2, <2>1
  <2>2. CASE o \notin Slots
    <3>1. PICK i \in FDs : o = Own(i) BY <2>2 DEF FileOwners
    <3> QED BY <1>2, <1>3, <2>2, <3>1
  <2> QED BY <2>1, <2>2
<1>5. E = FileEntries BY <1>2, <1>4 DEF FileEntries
<1> QED BY <1>1, <1>5

\* What is known of the file of an owner.
FileFacts(o, e) ==
    /\ e = FileEntries[o] /\ e \in Entry /\ Occupied(e) /\ SizedRight(e) /\ e.size \in Nat
    /\ allocatedBlocksForFile(e) \in Nat
    /\ e.size <= allocatedBlocksForFile(e) * BLOCK_DATA_SIZE
    /\ \E p : PathOf(disk.blk, e.first_block, allocatedBlocksForFile(e), p)

LEMMA LiveFile ==
  Good => \A o \in FileOwners : Live(o) => FileFacts(o, FileEntries[o])
<1> SUFFICES ASSUME Good, NEW o \in FileOwners, Live(o) PROVE FileFacts(o, FileEntries[o])
  OBVIOUS
<1>1. EntriesAre(FileEntries, files, openFileTable) /\ Arranged(disk, next_rootdir, FileEntries)
  BY EntriesArranged
<1>2. FileEntries \in [FileOwners -> Entry] BY <1>1 DEF EntriesAre
<1>3. Occupied(FileEntries[o]) BY DEF Live
<1>4. \E p : PathOf(disk.blk, FileEntries[o].first_block, allocatedBlocksForFile(FileEntries[o]), p)
  BY <1>1, <1>2, <1>3, FilePath
<1>5. SizedRight(FileEntries[o]) BY <1>1, <1>3, LiveSized
<1>6. FileEntries[o] \in Entry BY <1>2
<1>e. PICK e : e = FileEntries[o] OBVIOUS
<1>7. e.size \in Nat BY <1>6, <1>e DEF Entry
<1>8. allocatedBlocksForFile(e) \in Nat /\ e.size <= allocatedBlocksForFile(e) * BLOCK_DATA_SIZE
  BY <1>5, <1>6, <1>e, FileCapacity
<1> QED BY <1>3, <1>4, <1>5, <1>6, <1>7, <1>8, <1>e DEF FileFacts

(* A byte of a file lies in one of its blocks. *)
LEMMA ByteWithin ==
  ASSUME NEW m \in Nat, NEW size \in Nat, size <= m * BLOCK_DATA_SIZE, NEW k \in 1 .. size
  PROVE  /\ k \in Nat /\ k # 0 /\ Place(k) \in Nat /\ Place(k) < m
         /\ (k - 1) % BLOCK_DATA_SIZE \in 0 .. BLOCK_DATA_SIZE - 1
         /\ k = BLOCK_DATA_SIZE * Place(k) + ((k - 1) % BLOCK_DATA_SIZE) + 1
         /\ Place(k) = (k - 1) \div BLOCK_DATA_SIZE
<1> PICK B : B = BLOCK_DATA_SIZE OBVIOUS
<1>1. B \in Nat \ {0} /\ k \in Nat /\ k # 0 OBVIOUS
<1>v. PICK v : v = m * B OBVIOUS
<1>2. v \in Nat BY ONLY <1>1, <1>v, m \in Nat
<1>3. k <= m * B /\ m # 0
  <2>1. size <= v BY <1>v
  <2>2. k <= v BY ONLY <1>2, <2>1, size \in Nat, k \in 1 .. size
  <2>3. m = 0 => v = 0 BY ONLY <1>1, <1>v
  <2> QED BY <1>1, <1>2, <1>v, <2>2, <2>3
<1>4. Place(k) < m BY <1>1, <1>3, PlaceWithin
<1>5. Place(k) \in Nat /\ k = B * Place(k) + OffsetInBlock(k) BY <1>1, PlaceFacts
<1>6. OffsetInBlock(k) = ((k - 1) % B) + 1 BY <1>1 DEF OffsetInBlock
<1>r. PICK r : r = (k - 1) % B OBVIOUS
<1>7. r \in 0 .. B - 1
  <2>1. k - 1 \in Nat BY ONLY <1>1
  <2> QED BY ONLY <1>1, <1>r, <2>1
<1>u. PICK u : u = B * Place(k) OBVIOUS
<1>8. u \in Nat BY ONLY <1>1, <1>5, <1>u
<1>9. k = u + (r + 1) BY <1>5, <1>6, <1>r, <1>u
<1>10. k = u + r + 1 BY ONLY <1>7, <1>8, <1>9
<1>11. Place(k) = (k - 1) \div B BY <1>1 DEF Place
<1> QED BY <1>1, <1>4, <1>5, <1>7, <1>10, <1>11, <1>r, <1>u

(* The block of a place. *)
LEMMA BlockAtIs ==
  ASSUME NEW blk, NEW first, NEW m, NEW p, PathOf(blk, first, m, p),
         NEW k \in Nat, k < m
  PROVE  /\ BlockAt(blk, first, k) = p[k + 1] /\ p[k + 1] \in Blocks
         /\ fileBlockAt(blk, first, k) = {BlockAt(blk, first, k)}
<1>1. Linked(blk, first, m, p) /\ m \in Nat BY DEF PathOf
<1>2. \A b : b \in fileBlockAt(blk, first, k) <=> b = p[k + 1] BY <1>1, LinkedBlocks
<1>3. fileBlockAt(blk, first, k) = {p[k + 1]} BY <1>2
<1>4. BlockAt(blk, first, k) = p[k + 1] BY <1>3 DEF BlockAt
<1>5. k + 1 \in 1 .. m BY <1>1
<1>6. p[k + 1] \in Blocks BY <1>1, <1>5 DEF Linked
<1> QED BY <1>3, <1>4, <1>6

(* The bytes of a file are bytes, as many as its size. *)
LEMMA BytesType ==
  ASSUME NEW blk, NEW dat \in [Blocks -> BlockData], NEW e, e.size \in Nat,
         NEW m, NEW p, PathOf(blk, e.first_block, m, p), e.size <= m * BLOCK_DATA_SIZE
  PROVE  FileBytes(blk, dat, e) \in Seq(Bytes) /\ Len(FileBytes(blk, dat, e)) = e.size
<1>1. m \in Nat BY DEF PathOf
<1>2. ASSUME NEW k \in 1 .. e.size PROVE Byte(blk, dat, e.first_block, k) \in Bytes
  <2>1. /\ Place(k) \in Nat /\ Place(k) < m
        /\ (k - 1) % BLOCK_DATA_SIZE \in 0 .. BLOCK_DATA_SIZE - 1
    BY <1>1, ByteWithin
  <2>2. BlockAt(blk, e.first_block, Place(k)) \in Blocks BY <2>1, BlockAtIs
  <2>3. dat[BlockAt(blk, e.first_block, Place(k))] \in BlockData BY <2>2
  <2> QED BY <2>1, <2>3 DEF Byte, BlockData
<1>3. FileBytes(blk, dat, e) \in [1 .. e.size -> Bytes] BY <1>2 DEF FileBytes
<1> QED BY <1>3

LEMMA FileType ==
  Good => \A o \in FileOwners : Live(o) =>
            FileAt(o) \in FileValues /\ Len(FileAt(o).bytes) = FileEntries[o].size
<1> SUFFICES ASSUME Good, NEW o \in FileOwners, Live(o)
             PROVE  FileAt(o) \in FileValues /\ Len(FileAt(o).bytes) = FileEntries[o].size
  OBVIOUS
<1>1. FileFacts(o, FileEntries[o]) BY LiveFile
<1>2. data \in [Blocks -> BlockData] BY DEF Good, IInv, TypeOK
<1>e. PICK e : e = FileEntries[o] OBVIOUS
<1>m. PICK m : m = allocatedBlocksForFile(e) OBVIOUS
<1>3. e.size \in Nat /\ e.size <= m * BLOCK_DATA_SIZE BY <1>1, <1>e, <1>m DEF FileFacts
<1>4. PICK p : PathOf(disk.blk, e.first_block, m, p) BY <1>1, <1>e, <1>m DEF FileFacts
<1>5. FileBytes(disk.blk, data, e) \in Seq(Bytes) /\ Len(FileBytes(disk.blk, data, e)) = e.size
  BY <1>2, <1>3, <1>4, BytesType
<1>6. FdsOf(o) \in SUBSET FDs BY DEF FdsOf
<1> QED BY <1>5, <1>6, <1>e DEF FileAt, FileValues

(* A search for a name finds the slot that holds it. *)
LEMMA FindIs ==
  ASSUME IInv, Structure, UniqueNames, NEW name
  PROVE  \A s : s \in findDirectoryEntry(name) <=> s \in Slots /\ Holds(s, name)
<1> SUFFICES ASSUME NEW s \in Slots, Holds(s, name) PROVE s \in findDirectoryEntry(name)
  BY EntryFound DEF Holds
<1>1. PICK t \in findDirectoryEntry(name) : TRUE BY NameIsNew DEF Holds
<1>2. t \in Slots /\ Holds(t, name) BY EntryFound DEF Holds
<1>3. t = s BY <1>2 DEF Holds, UniqueNames
<1> QED BY <1>3

(* A search for the open file of a slot finds all that have it open. *)
LEMMA FindOpenIs ==
  ASSUME IInv, NEW slot \in Slots
  PROVE  UNION {Descriptors(i) : i \in findOpenFile(slot)} = FdsOf(slot)
<1>t. openFileTable \in [FDs -> OpenFile \cup {NULL}] BY DEF IInv, TypeOK
<1>u. slot # UnlinkedFile
  <2>1. slot[1] \in BlockId /\ UnlinkedFile[1] = NBlocks BY DEF Slots, UnlinkedFile
  <2> QED BY <2>1 DEF BlockId
<1>1. ASSUME NEW fd \in FDs, NEW i \in findOpenFile(slot), fd \in Descriptors(i)
      PROVE  fd \in FdsOf(slot)
  <2>1. i \in FDs /\ openFileTable[i] # NULL /\ openFileTable[i].diskFile = slot
    BY DEF findOpenFile
  <2>2. OwnerOf(i) = slot BY <1>u, <2>1 DEF OwnerOf
  <2> QED BY <1>1, <2>2 DEF FdsOf, Descriptors
<1>2. ASSUME NEW fd \in FDs, fd \in FdsOf(slot)
      PROVE  \E i \in findOpenFile(slot) : fd \in Descriptors(i)
  <2>i. PICK i : i = openFileDescTable[fd].fileEntry OBVIOUS
  <2>1. openFileDescTable[fd] # NULL /\ OwnerOf(i) = slot BY <1>2, <2>i DEF FdsOf
  <2>2. i \in FDs /\ openFileTable[i] # NULL BY <2>1, <2>i, DescriptorFile DEF IInv
  <2>3. openFileTable[i].diskFile = slot
    <3>1. Own(i) # slot BY <2>2, OwnersApart
    <3> QED BY <2>1, <3>1 DEF OwnerOf
  <2>4. openFileTable[i] \in OpenFile BY <1>t, <2>2
  <2>5. ~ openFileTable[i].unlinked
    BY <1>u, <2>2, <2>3 DEF IInv, OpenFilesTrackEntries
  <2>6. ASSUME NEW j \in FDs, j # i, openFileTable[j] # NULL
        PROVE  openFileTable[j].diskFile # slot
    BY <2>2, <2>3, <2>5, <2>6 DEF IInv, OpenFilesTrackEntries
  <2>7. i \in findOpenFile(slot)
    <3>1. \A j \in 0 .. i - 1 : j \in FDs /\ j # i BY <2>2 DEF FDs
    <3> QED BY <2>2, <2>3, <2>6, <3>1 DEF findOpenFile
  <2>8. fd \in Descriptors(i) BY <2>1, <2>i DEF Descriptors
  <2> QED BY <2>7, <2>8
<1>3. FdsOf(slot) \subseteq FDs /\ \A i : Descriptors(i) \subseteq FDs BY DEF FdsOf, Descriptors
<1> QED BY <1>1, <1>2, <1>3

(* Those of a file without a name. *)
LEMMA UnlinkedFds ==
  ASSUME IInv, NEW i \in Unlinked
  PROVE  Descriptors(i) = FdsOf(Own(i))
<1>1. i \in FDs /\ openFileTable[i] # NULL /\ OwnerOf(i) = Own(i) BY DEF Unlinked, OwnerOf
<1>2. ASSUME NEW fd \in FDs, openFileDescTable[fd] # NULL,
             OwnerOf(openFileDescTable[fd].fileEntry) = Own(i)
      PROVE  openFileDescTable[fd].fileEntry = i
  <2>j. PICK j : j = openFileDescTable[fd].fileEntry OBVIOUS
  <2>1. j \in FDs /\ openFileTable[j] # NULL /\ openFileTable[j] \in OpenFile
    BY <1>2, <2>j, DescriptorFile DEF IInv
  <2>2. OwnerOf(j) = Own(i) BY <1>2, <2>j
  <2>3. openFileTable[j].diskFile = UnlinkedFile
    BY <1>1, <2>1, <2>2, OwnersApart DEF OwnerOf, OpenFile
  <2> QED BY <1>1, <2>1, <2>2, <2>3, <2>j, OwnersApart DEF OwnerOf
<1> QED BY <1>1, <1>2 DEF Descriptors, FdsOf

(* A walk over a whole file reads its bytes. *)
LEMMA ContentsAre ==
  ASSUME NEW e, e.size \in Nat, NEW m, NEW p, PathOf(disk.blk, e.first_block, m, p),
         e.size <= m * BLOCK_DATA_SIZE
  PROVE  Contents(e) = FileBytes(disk.blk, data, e)
<1>l. PICK l : l = List(disk.blk, e.first_block) OBVIOUS
<1>1. l \in Seq(Blocks) BY <1>l, ListFacts
<1>2. Linked(disk.blk, e.first_block, m, p) /\ m \in Nat BY DEF PathOf
<1>3. \A i \in 1 .. m : l[i] = p[i] BY <1>2, <1>l, LinkedList
<1>4. sizeMin(e.size - 0, e.size) = e.size BY DEF sizeMin
<1>5. Contents(e) = [k \in 1 .. e.size |->
        data[l[((0 + k - 1) \div BLOCK_DATA_SIZE) + 1]][(0 + k - 1) % BLOCK_DATA_SIZE]]
  BY <1>1, <1>4, <1>l DEF Contents, ReadBytes
<1>6. ASSUME NEW k \in 1 .. e.size
      PROVE  data[l[((0 + k - 1) \div BLOCK_DATA_SIZE) + 1]][(0 + k - 1) % BLOCK_DATA_SIZE]
                = Byte(disk.blk, data, e.first_block, k)
  <2>1. /\ Place(k) \in Nat /\ Place(k) < m /\ Place(k) = (k - 1) \div BLOCK_DATA_SIZE
    BY <1>2, ByteWithin
  <2>2. BlockAt(disk.blk, e.first_block, Place(k)) = p[Place(k) + 1] BY <2>1, BlockAtIs
  <2>3. Place(k) + 1 \in 1 .. m BY <1>2, <2>1
  <2>4. 0 + k - 1 = k - 1 OBVIOUS
  <2> QED BY <1>3, <2>1, <2>2, <2>3, <2>4 DEF Byte
<1> QED BY <1>5, <1>6 DEF FileBytes

LEMMA LiveContents ==
  ASSUME Good, NEW o \in FileOwners, Live(o)
  PROVE  Contents(FileEntries[o]) = FileBytes(disk.blk, data, FileEntries[o])
<1>1. FileFacts(o, FileEntries[o]) BY LiveFile
<1>e. PICK e : e = FileEntries[o] OBVIOUS
<1>m. PICK m : m = allocatedBlocksForFile(e) OBVIOUS
<1>2. e.size \in Nat /\ e.size <= m * BLOCK_DATA_SIZE BY <1>1, <1>e, <1>m DEF FileFacts
<1>3. PICK p : PathOf(disk.blk, e.first_block, m, p) BY <1>1, <1>e, <1>m DEF FileFacts
<1> QED BY <1>2, <1>3, <1>e, ContentsAre

(* The owners that have a file: the slots in use and the unlinked open files. *)
LEMMA Owned ==
  Good => /\ \A s \in Slots : /\ s \in FileOwners /\ FileEntries[s] = files[s]
                              /\ Live(s) <=> Occupied(files[s])
          /\ \A i \in FDs : /\ Own(i) \in FileOwners /\ Own(i) \notin Slots
                            /\ FileEntries[Own(i)] = OwnEntry(openFileTable[i])
                            /\ Live(Own(i)) <=> i \in Unlinked
          /\ \A i \in Unlinked : i \in FDs /\ FileEntries[Own(i)] = DiskEntry(i)
          /\ \A o \in FileOwners : o \in Slots \/ \E i \in FDs : o = Own(i)
<1> SUFFICES ASSUME Good
             PROVE  /\ \A s \in Slots : /\ s \in FileOwners /\ FileEntries[s] = files[s]
                                        /\ Live(s) <=> Occupied(files[s])
                    /\ \A i \in FDs : /\ Own(i) \in FileOwners /\ Own(i) \notin Slots
                                      /\ FileEntries[Own(i)] = OwnEntry(openFileTable[i])
                                      /\ Live(Own(i)) <=> i \in Unlinked
                    /\ \A i \in Unlinked : i \in FDs /\ FileEntries[Own(i)] = DiskEntry(i)
                    /\ \A o \in FileOwners : o \in Slots \/ \E i \in FDs : o = Own(i)
  OBVIOUS
<1>1. /\ \A s \in Slots : FileEntries[s] = files[s]
      /\ \A i \in FDs : FileEntries[Own(i)] = OwnEntry(openFileTable[i])
  BY EntriesArranged DEF EntriesAre
<1>2. \A s \in Slots : s \in FileOwners BY DEF FileOwners
<1>3. \A i \in FDs : Own(i) \in FileOwners /\ Own(i) \notin Slots
  BY OwnersApart DEF FileOwners
<1>4. \A i \in FDs : i \in Unlinked => OwnEntry(openFileTable[i]) = DiskEntry(i)
  BY DEF Unlinked, OwnEntry, DiskEntry
<1>5. \A i \in FDs : i \notin Unlinked => OwnEntry(openFileTable[i]) = UnusedEntry
  BY DEF Unlinked, OwnEntry
<1>6. \A i \in FDs : i \in Unlinked => Occupied(DiskEntry(i))
  BY DEF Unlinked, Good, IInv, OpenFilesTrackEntries
<1>7. ~ Occupied(UnusedEntry) BY DEF Occupied, UnusedEntry
<1>8. Unlinked \subseteq FDs BY DEF Unlinked
<1> QED BY <1>1, <1>2, <1>3, <1>4, <1>5, <1>6, <1>7, <1>8 DEF Live, FileOwners

\* The image that SfsDiskImpl records, and what it shows.
Shown == dir = DirImage /\ orphans = OrphansImage /\ pos = PosImage

Pictured ==
    /\ dir \in [Names -> FileValues \cup {NULL}]
    /\ \A name \in Names : \A s \in Slots : Holds(s, name) => dir[name] = FileAt(s)
    /\ \A name \in Names : (\A s \in Slots : ~ Holds(s, name)) => dir[name] = NULL
    /\ \A f : f \in orphans <=> \E i \in Unlinked : f = FileAt(Own(i))
    /\ pos = PosImage

LEMMA NamedFileIs ==
  ASSUME Good, NEW s \in Slots, Occupied(files[s])
  PROVE  NamedFile(s) = FileAt(s)
<1>1. s \in FileOwners /\ Live(s) /\ FileEntries[s] = files[s] BY Owned
<1>2. Contents(files[s]) = FileBytes(disk.blk, data, FileEntries[s]) BY <1>1, LiveContents
<1>3. UNION {Descriptors(i) : i \in findOpenFile(s)} = FdsOf(s) BY FindOpenIs DEF Good
<1> QED BY <1>2, <1>3 DEF NamedFile, FileAt

LEMMA ShownPictured == Good /\ Shown => Pictured
<1> SUFFICES ASSUME Good, Shown PROVE Pictured OBVIOUS
<1>0. IInv /\ Structure /\ UniqueNames BY DEF Good
<1>1. ASSUME NEW name \in Names, NEW s \in Slots, Holds(s, name)
      PROVE  DirImage[name] = FileAt(s) /\ FileAt(s) \in FileValues
  <2>1. \A t : t \in findDirectoryEntry(name) <=> t \in Slots /\ Holds(t, name)
    BY <1>0, FindIs
  <2>2. \A t \in Slots : Holds(t, name) => t = s BY <1>0, <1>1 DEF Holds, UniqueNames
  <2>3. findDirectoryEntry(name) = {s} BY <1>1, <2>1, <2>2
  <2>4. {s} \in SUBSET Slots /\ {s} # {} /\ (CHOOSE t \in {s} : TRUE) = s OBVIOUS
  <2>5. DirImage[name] = NamedFile(s) BY <2>3, <2>4 DEF DirImage
  <2>6. Occupied(files[s]) BY <1>1 DEF Holds
  <2>7. s \in FileOwners /\ Live(s) BY <2>6, Owned
  <2> QED BY <2>5, <2>6, <2>7, NamedFileIs, FileType
<1>2. ASSUME NEW name \in Names, \A s \in Slots : ~ Holds(s, name)
      PROVE  DirImage[name] = NULL
  <2>1. findDirectoryEntry(name) = {} BY <1>0, <1>2, FindIs
  <2>2. {} \in SUBSET Slots OBVIOUS
  <2> QED BY <2>1, <2>2 DEF DirImage
<1>3. DirImage = [name \in Names |-> DirImage[name]] BY DEF DirImage
<1>4. \A name \in Names : DirImage[name] \in FileValues \cup {NULL} BY <1>1, <1>2
<1>5. ASSUME NEW i \in Unlinked
      PROVE  FileAt(Own(i)) = [bytes |-> Contents(DiskEntry(i)), fds |-> Descriptors(i)]
  <2>1. i \in FDs /\ FileEntries[Own(i)] = DiskEntry(i) /\ Own(i) \in FileOwners /\ Live(Own(i))
    BY <1>5, Owned
  <2>2. Contents(DiskEntry(i)) = FileBytes(disk.blk, data, FileEntries[Own(i)])
    BY <2>1, LiveContents
  <2>3. Descriptors(i) = FdsOf(Own(i)) BY <1>0, <1>5, UnlinkedFds
  <2> QED BY <2>2, <2>3 DEF FileAt
<1>6. \A f : f \in OrphansImage <=> \E i \in Unlinked : f = FileAt(Own(i))
  BY <1>5 DEF OrphansImage
<1>7. dir = DirImage /\ orphans = OrphansImage /\ pos = PosImage BY DEF Shown
<1>8. dir \in [Names -> FileValues \cup {NULL}] BY <1>3, <1>4, <1>7
<1> QED BY <1>1, <1>2, <1>6, <1>7, <1>8 DEF Pictured

(* The same of the state after a step. *)
LEMMA EntriesArrangedNext ==
  Good' => (EntriesAre(FileEntries, files, openFileTable) /\ Arranged(disk, next_rootdir, FileEntries))'
BY EntriesArranged, PTL

LEMMA LiveFileNext ==
  Good' => (\A o \in FileOwners : Live(o) => FileFacts(o, FileEntries[o]))'
BY LiveFile, PTL

LEMMA FileTypeNext ==
  Good' => (\A o \in FileOwners : Live(o) =>
                FileAt(o) \in FileValues /\ Len(FileAt(o).bytes) = FileEntries[o].size)'
BY FileType, PTL

LEMMA OwnedNext ==
  Good' => (/\ \A s \in Slots : /\ s \in FileOwners /\ FileEntries[s] = files[s]
                                /\ Live(s) <=> Occupied(files[s])
            /\ \A i \in FDs : /\ Own(i) \in FileOwners /\ Own(i) \notin Slots
                              /\ FileEntries[Own(i)] = OwnEntry(openFileTable[i])
                              /\ Live(Own(i)) <=> i \in Unlinked
            /\ \A i \in Unlinked : i \in FDs /\ FileEntries[Own(i)] = DiskEntry(i)
            /\ \A o \in FileOwners : o \in Slots \/ \E i \in FDs : o = Own(i))'
BY Owned, PTL

LEMMA ShownPicturedNext == Good' /\ Shown' => Pictured'
BY ShownPictured, PTL

-----------------------------------------------------------------------------
(* Steps of SfsApi *)

LEMMA NotNull == NULL \notin FileValues
BY ImplAssumption DEF FileValues

\* A descriptor that is open on the file of owner o, at this position.
OpenOn(fd, i, o) ==
    /\ fd \in FDs /\ openFileDescTable[fd] # NULL /\ i = openFileDescTable[fd].fileEntry
    /\ i \in FDs /\ openFileTable[i] # NULL
    /\ o = OwnerOf(i) /\ o \in FileOwners /\ Live(o) /\ FileEntries[o] = DiskEntry(i)
    /\ fd \in FdsOf(o)
    /\ openFileDescTable[fd].currPos \in Nat
    /\ openFileDescTable[fd].currPos <= FileEntries[o].size

LEMMA OpenDescriptor ==
  ASSUME Good, NEW fd \in FDs, openFileDescTable[fd] # NULL
  PROVE  \E i, o : OpenOn(fd, i, o)
<1>i. PICK i : i = openFileDescTable[fd].fileEntry OBVIOUS
<1>o. PICK o : o = OwnerOf(i) OBVIOUS
<1>0. IInv /\ TypeOK /\ RefCounts BY DEF Good, IInv
<1>1. i \in FDs /\ openFileTable[i] # NULL /\ openFileDescTable[fd].currPos \in Nat
  BY <1>0, <1>i, DescriptorFile
<1>2. EntriesAre(FileEntries, files, openFileTable) BY EntriesArranged
<1>3. o \in FileOwners /\ FileEntries[o] = DiskEntry(i) /\ Occupied(DiskEntry(i))
  BY <1>0, <1>1, <1>2, <1>o, FileOwner
<1>4. fd \in FdsOf(o) BY <1>i, <1>o DEF FdsOf
<1>5. openFileDescTable[fd].currPos <= DiskEntry(i).size BY <1>i DEF Good, PosWithinSize
<1> QED BY <1>1, <1>3, <1>4, <1>5, <1>i, <1>o DEF OpenOn, Live

(* The files of SfsApi are those of the owners. *)
LEMMA ApiFiles ==
  ASSUME Good, Pictured
  PROVE  \A f : f \in Api!AllFiles <=> \E o \in FileOwners : Live(o) /\ f = FileAt(o)
<1>1. ASSUME NEW f, f \in Api!AllFiles
      PROVE  \E o \in FileOwners : Live(o) /\ f = FileAt(o)
  <2>1. CASE f \in orphans
    <3>1. PICK i \in Unlinked : f = FileAt(Own(i)) BY <2>1 DEF Pictured
    <3>2. Own(i) \in FileOwners /\ Live(Own(i)) BY Owned
    <3> QED BY <3>1, <3>2
  <2>2. CASE f \notin orphans
    <3>1. PICK n \in Names : dir[n] # NULL /\ f = dir[n] BY <1>1, <2>2 DEF Api!AllFiles
    <3>2. PICK s \in Slots : Holds(s, n) BY <3>1 DEF Pictured
    <3>3. f = FileAt(s) BY <3>1, <3>2 DEF Pictured
    <3>4. s \in FileOwners /\ Live(s) BY <3>2, Owned DEF Holds
    <3> QED BY <3>3, <3>4
  <2> QED BY <2>1, <2>2
<1>2. ASSUME NEW o \in FileOwners, Live(o) PROVE FileAt(o) \in Api!AllFiles
  <2>1. CASE o \in Slots
    <3>n. PICK n : n = files[o].name OBVIOUS
    <3>1. Occupied(files[o]) BY <1>2, <2>1, Owned
    <3>2. n \in Names BY <2>1, <3>1, <3>n DEF Good, UniqueNames
    <3>3. dir[n] = FileAt(o) BY <2>1, <3>1, <3>2, <3>n DEF Pictured, Holds
    <3>4. dir[n] # NULL BY <1>2, <3>3, FileType, NotNull
    <3> QED BY <3>2, <3>3, <3>4 DEF Api!AllFiles
  <2>2. CASE o \notin Slots
    <3>1. PICK i \in FDs : o = Own(i) BY <2>2, Owned
    <3>2. i \in Unlinked BY <1>2, <3>1, Owned
    <3>3. FileAt(o) \in orphans BY <3>1, <3>2 DEF Pictured
    <3> QED BY <3>3 DEF Api!AllFiles
  <2> QED BY <2>1, <2>2
<1> QED BY <1>1, <1>2

LEMMA ApiFileOf ==
  ASSUME Good, Pictured, NEW fd, NEW i, NEW o, OpenOn(fd, i, o)
  PROVE  /\ Api!IsOpen(fd) /\ Api!FileOf(fd) = FileAt(o)
         /\ pos[fd] = openFileDescTable[fd].currPos
<1>1. /\ fd \in FDs /\ openFileDescTable[fd] # NULL /\ o \in FileOwners /\ Live(o)
      /\ fd \in FdsOf(o) /\ openFileDescTable[fd].currPos \in Nat
  BY DEF OpenOn
<1>2. pos[fd] = openFileDescTable[fd].currPos BY <1>1 DEF Pictured, PosImage
<1>3. pos[fd] # -1 BY <1>1, <1>2
<1>4. \A f \in Api!AllFiles : fd \in f.fds <=> f = FileAt(o)
  <2> SUFFICES ASSUME NEW f \in Api!AllFiles PROVE fd \in f.fds <=> f = FileAt(o) OBVIOUS
  <2>1. PICK q \in FileOwners : Live(q) /\ f = FileAt(q) BY ApiFiles
  <2>2. f.fds = FdsOf(q) BY <2>1 DEF FileAt
  <2>3. fd \in FdsOf(q) => q = o BY <1>1 DEF FdsOf
  <2>4. FileAt(o).fds = FdsOf(o) BY DEF FileAt
  <2> QED BY <1>1, <2>1, <2>2, <2>3, <2>4
<1>5. FileAt(o) \in Api!AllFiles BY <1>1, ApiFiles
<1>6. Api!FileOf(fd) = FileAt(o) BY <1>4, <1>5 DEF Api!FileOf
<1> QED BY <1>2, <1>3, <1>6 DEF Api!IsOpen, Api!Closed

LEMMA ApiClosed ==
  ASSUME Good, Pictured, NEW fd \in FDs, openFileDescTable[fd] = NULL
  PROVE  ~ Api!IsOpen(fd) /\ pos[fd] = -1
BY DEF Pictured, PosImage, Api!IsOpen, Api!Closed

\* A step from one good state to another, both with their images.
GoodStep == Good /\ Good' /\ Pictured /\ Pictured'

\* The names and the unlinked files stay the same.
SameNames ==
    /\ \A s \in Slots, name \in Names : Holds(s, name)' <=> Holds(s, name)
    /\ Unlinked' = Unlinked

(* What a name shows after a step. *)
LEMMA NameShows ==
  ASSUME GoodStep, NEW name \in Names
  PROVE  /\ \A s \in Slots : Holds(s, name)' => dir'[name] = FileAt(s)'
         /\ (\A s \in Slots : ~ Holds(s, name)') => dir'[name] = NULL
         /\ \A s \in Slots : Holds(s, name) => dir[name] = FileAt(s)
         /\ (\A s \in Slots : ~ Holds(s, name)) => dir[name] = NULL
         /\ \A s \in Slots : Holds(s, name) => Live(s) /\ s \in FileOwners
         /\ dir \in [Names -> FileValues \cup {NULL}]
         /\ dir' \in [Names -> FileValues \cup {NULL}]
<1>1. Good /\ Pictured /\ Pictured' BY DEF GoodStep
<1>2. \A s \in Slots : Holds(s, name) => Live(s) /\ s \in FileOwners BY <1>1, Owned DEF Holds
<1> QED BY <1>1, <1>2 DEF Pictured

LEMMA NameSame ==
  ASSUME GoodStep, NEW name \in Names,
         \A s \in Slots : Holds(s, name)' <=> Holds(s, name),
         \A s \in Slots : Holds(s, name) => FileAt(s)' = FileAt(s)
  PROVE  dir'[name] = dir[name]
<1>1. CASE \E s \in Slots : Holds(s, name)
  <2>1. PICK s \in Slots : Holds(s, name) BY <1>1
  <2>2. dir[name] = FileAt(s) /\ dir'[name] = FileAt(s)' BY <2>1, NameShows
  <2> QED BY <2>1, <2>2
<1>2. CASE \A s \in Slots : ~ Holds(s, name) BY <1>2, NameShows
<1> QED BY <1>1, <1>2

LEMMA OrphansShow ==
  ASSUME GoodStep
  PROVE  /\ \A f : f \in orphans <=> \E i \in Unlinked : f = FileAt(Own(i))
         /\ \A f : f \in orphans' <=> \E i \in Unlinked' : f = FileAt(Own(i))'
         /\ \A i \in Unlinked : i \in FDs /\ Own(i) \in FileOwners /\ Live(Own(i))
<1>1. Good /\ Pictured /\ Pictured' BY DEF GoodStep
<1>2. \A i \in Unlinked : i \in FDs /\ Own(i) \in FileOwners /\ Live(Own(i)) BY <1>1, Owned
<1> QED BY <1>1, <1>2 DEF Pictured

(* Files that stay as they are. *)
LEMMA FilesSame ==
  ASSUME GoodStep, SameNames, \A o \in FileOwners : Live(o) => FileAt(o)' = FileAt(o)
  PROVE  dir' = dir /\ orphans' = orphans
<1>1. \A name \in Names : dir'[name] = dir[name]
  <2> SUFFICES ASSUME NEW name \in Names PROVE dir'[name] = dir[name] OBVIOUS
  <2>1. \A s \in Slots : Holds(s, name)' <=> Holds(s, name) BY DEF SameNames
  <2>2. \A s \in Slots : Holds(s, name) => FileAt(s)' = FileAt(s) BY NameShows
  <2> QED BY <2>1, <2>2, NameSame
<1>2. dir \in [Names -> FileValues \cup {NULL}] /\ dir' \in [Names -> FileValues \cup {NULL}]
  BY DEF GoodStep, Pictured
<1>3. \A f : f \in orphans' <=> f \in orphans
  <2>1. Unlinked' = Unlinked BY DEF SameNames
  <2>2. \A i \in Unlinked : FileAt(Own(i))' = FileAt(Own(i)) BY OrphansShow
  <2> QED BY <2>1, <2>2, OrphansShow
<1> QED BY <1>1, <1>2, <1>3

(* One file that changes, wherever it is. *)
LEMMA FileSet ==
  ASSUME GoodStep, SameNames, NEW fd, NEW i, NEW o, OpenOn(fd, i, o),
         \A q \in FileOwners : Live(q) /\ q # o => FileAt(q)' = FileAt(q)
  PROVE  Api!SetFile(fd, FileAt(o)')
<1>f. PICK file : file = FileAt(o)' OBVIOUS
<1>0. o \in FileOwners /\ Live(o) /\ fd \in FdsOf(o) BY DEF OpenOn
<1>1. \A q \in FileOwners : FileAt(q).fds = FdsOf(q) /\ (fd \in FdsOf(q) => q = o)
  BY <1>0 DEF FileAt, FdsOf
<1>2. ASSUME NEW n \in Names
      PROVE  dir'[n] = IF dir[n] # NULL /\ fd \in dir[n].fds THEN file ELSE dir[n]
  <2>1. \A s \in Slots : Holds(s, n)' <=> Holds(s, n) BY DEF SameNames
  <2>2. CASE Holds(o, n) /\ o \in Slots
    <3>1. dir[n] = FileAt(o) /\ dir'[n] = file BY <1>f, <2>1, <2>2, NameShows
    <3>2. dir[n] # NULL
      <4>1. FileAt(o) \in FileValues BY <1>0, FileType DEF GoodStep
      <4> QED BY <3>1, <4>1, NotNull
    <3> QED BY <1>0, <1>1, <3>1, <3>2
  <2>3. CASE ~ (Holds(o, n) /\ o \in Slots)
    <3>1. \A s \in Slots : Holds(s, n) => FileAt(s)' = FileAt(s) BY <2>3, NameShows
    <3>2. dir'[n] = dir[n] BY <2>1, <3>1, NameSame
    <3>3. dir[n] # NULL => fd \notin dir[n].fds
      <4>1. CASE \E s \in Slots : Holds(s, n)
        <5>1. PICK s \in Slots : Holds(s, n) BY <4>1
        <5>2. dir[n] = FileAt(s) /\ s \in FileOwners /\ s # o BY <2>3, <5>1, NameShows
        <5> QED BY <1>1, <5>2
      <4>2. CASE \A s \in Slots : ~ Holds(s, n) BY <4>2, NameShows
      <4> QED BY <4>1, <4>2
    <3> QED BY <3>2, <3>3
  <2> QED BY <2>2, <2>3
<1>3. dir' \in [Names -> FileValues \cup {NULL}] BY DEF GoodStep, Pictured
<1>4. dir' = [n \in Names |-> IF dir[n] # NULL /\ fd \in dir[n].fds THEN file ELSE dir[n]]
  BY <1>2, <1>3
<1>5. \A f : f \in orphans' <=> \E g \in orphans : f = IF fd \in g.fds THEN file ELSE g
  <2>1. Unlinked' = Unlinked BY DEF SameNames
  <2>2. ASSUME NEW j \in Unlinked
        PROVE  FileAt(Own(j))' = IF fd \in FileAt(Own(j)).fds THEN file ELSE FileAt(Own(j))
    <3>1. Own(j) \in FileOwners /\ Live(Own(j)) BY OrphansShow
    <3>2. CASE Own(j) = o BY <1>0, <1>1, <1>f, <3>2
    <3>3. CASE Own(j) # o BY <1>1, <3>1, <3>3
    <3> QED BY <3>2, <3>3
  <2>3. \A f : f \in orphans' <=> \E j \in Unlinked : f = FileAt(Own(j))' BY <2>1, OrphansShow
  <2>4. \A g : g \in orphans <=> \E j \in Unlinked : g = FileAt(Own(j)) BY OrphansShow
  <2>5. ASSUME NEW f \in orphans'
        PROVE  \E g \in orphans : f = IF fd \in g.fds THEN file ELSE g
    <3>1. PICK j \in Unlinked : f = FileAt(Own(j))' BY <2>3
    <3>2. FileAt(Own(j)) \in orphans BY <2>4
    <3> QED BY <2>2, <3>1, <3>2
  <2>6. ASSUME NEW g \in orphans
        PROVE  (IF fd \in g.fds THEN file ELSE g) \in orphans'
    <3>1. PICK j \in Unlinked : g = FileAt(Own(j)) BY <2>4
    <3>2. FileAt(Own(j))' \in orphans' BY <2>3
    <3> QED BY <2>2, <3>1, <3>2
  <2> QED BY <2>5, <2>6
<1>6. orphans' = {IF fd \in g.fds THEN file ELSE g : g \in orphans} BY <1>5
<1> QED BY <1>4, <1>6, <1>f DEF Api!SetFile

-----------------------------------------------------------------------------
(* The bytes of files *)

(* A file whose blocks and their contents are what they were has the same bytes. *)
LEMMA BytesSame ==
  ASSUME NEW blk, NEW blk2, NEW dat, NEW dat2, NEW e, NEW e2, NEW n \in Nat,
         e.size \in Nat, e.size <= n * BLOCK_DATA_SIZE, e2.size = e.size,
         e2.first_block = e.first_block,
         BlocksKept(blk, blk2, e.first_block, n),
         \A k \in Nat : k < n =>
            dat2[BlockAt(blk, e.first_block, k)] = dat[BlockAt(blk, e.first_block, k)]
  PROVE  FileBytes(blk2, dat2, e2) = FileBytes(blk, dat, e)
<1>1. ASSUME NEW k \in 1 .. e.size
      PROVE  Byte(blk2, dat2, e2.first_block, k) = Byte(blk, dat, e.first_block, k)
  <2>1. Place(k) \in Nat /\ Place(k) < n BY ByteWithin
  <2>2. BlockAt(blk2, e.first_block, Place(k)) = BlockAt(blk, e.first_block, Place(k))
    BY <2>1 DEF BlocksKept, BlockAt
  <2> QED BY <2>1, <2>2 DEF Byte
<1> QED BY <1>1 DEF FileBytes

(* What a store puts into a block of the file, and that it leaves all others alone. *)
LEMMA ByteStored ==
  ASSUME NEW blk, NEW first, NEW m, NEW p, PathOf(blk, first, m, p),
         NEW from \in Nat, NEW bytes \in Seq(Bytes), NEW k \in Nat \ {0},
         k <= m * BLOCK_DATA_SIZE
  PROVE  Byte(blk, StoreBytes(blk, first, from, bytes), first, k)
            = IF k - from \in 1 .. Len(bytes) THEN bytes[k - from]
              ELSE Byte(blk, data, first, k)
<1> PICK B : B = BLOCK_DATA_SIZE OBVIOUS
<1>l. PICK l : l = List(blk, first) OBVIOUS
<1>c. PICK c : c = Place(k) OBVIOUS
<1>i. PICK i : i = (k - 1) % B OBVIOUS
<1>0. Linked(blk, first, m, p) /\ m \in Nat BY DEF PathOf
<1>1. l \in Seq(Blocks) /\ Len(l) = m /\ \A j \in 1 .. m : l[j] = p[j]
  BY <1>0, <1>l, LinkedList
<1>2. \A j, g \in 1 .. m : p[j] = p[g] => j = g BY <1>0 DEF Linked
<1>3. c \in Nat /\ c < m /\ i \in 0 .. B - 1 /\ k = B * c + i + 1
  <2>1. m * BLOCK_DATA_SIZE \in Nat BY <1>0
  <2>2. k \in 1 .. m * BLOCK_DATA_SIZE BY <2>1
  <2>s. PICK size : size = m * BLOCK_DATA_SIZE OBVIOUS
  <2>3. size \in Nat /\ size <= m * BLOCK_DATA_SIZE /\ k \in 1 .. size BY <2>1, <2>2, <2>s
  <2> QED BY <1>0, <1>c, <1>i, <2>3, ByteWithin
<1>b. PICK b : b = BlockAt(blk, first, c) OBVIOUS
<1>4. b = p[c + 1] /\ b \in Blocks BY <1>3, <1>b, BlockAtIs
<1>5. c + 1 \in 1 .. m BY <1>0, <1>3
<1>6. {n \in DOMAIN l : l[n] = b} = {c + 1}
  <2>1. DOMAIN l = 1 .. m BY <1>1
  <2> QED BY <1>1, <1>2, <1>4, <1>5, <2>1
<1>7. ((c + 1) - 1) * BLOCK_DATA_SIZE + i + 1 - from = k - from
  <2>u. PICK u : u = B * c OBVIOUS
  <2>0. B \in Nat OBVIOUS
  <2>1. u \in Nat /\ c * B = u BY ONLY <1>3, <2>0, <2>u
  <2>2. (c + 1) - 1 = c BY <1>3
  <2>3. k = u + i + 1 BY <1>3, <2>u
  <2>4. i \in Int BY <1>3
  <2>v. PICK v : v = ((c + 1) - 1) * BLOCK_DATA_SIZE OBVIOUS
  <2>5. v = u BY <2>1, <2>2, <2>v
  <2>6. v + i + 1 - from = k - from BY <2>1, <2>3, <2>4, <2>5
  <2> QED BY <2>6, <2>v
<1>8. BytesAt(l, from, bytes, b, i) = {x \in {k - from} : x \in DOMAIN bytes}
  BY <1>6, <1>7 DEF BytesAt
<1>9. StoreBytes(blk, first, from, bytes)[b][i]
        = IF BytesAt(l, from, bytes, b, i) = {} THEN data[b][i]
          ELSE bytes[CHOOSE x \in BytesAt(l, from, bytes, b, i) : TRUE]
  <2>1. StoreBytes(blk, first, from, bytes)
          = [c2 \in Blocks |-> [i2 \in 0 .. BLOCK_DATA_SIZE - 1 |->
               IF BytesAt(l, from, bytes, c2, i2) = {} THEN data[c2][i2]
               ELSE bytes[CHOOSE x \in BytesAt(l, from, bytes, c2, i2) : TRUE]]]
    BY ONLY <1>l, StoreBytesIs
  <2> QED BY <1>3, <1>4, <2>1
<1>10. DOMAIN bytes = 1 .. Len(bytes) OBVIOUS
<1>11. StoreBytes(blk, first, from, bytes)[b][i]
        = IF k - from \in 1 .. Len(bytes) THEN bytes[k - from] ELSE data[b][i]
  <2>1. CASE k - from \in 1 .. Len(bytes)
    <3>1. BytesAt(l, from, bytes, b, i) = {k - from} BY <1>8, <1>10, <2>1
    <3>2. (CHOOSE x \in {k - from} : TRUE) = k - from OBVIOUS
    <3> QED BY <1>9, <2>1, <3>1, <3>2
  <2>2. CASE k - from \notin 1 .. Len(bytes)
    <3>1. BytesAt(l, from, bytes, b, i) = {} BY <1>8, <1>10, <2>2
    <3> QED BY <1>9, <2>2, <3>1
  <2> QED BY <2>1, <2>2
<1> QED BY <1>11, <1>b, <1>c, <1>i DEF Byte

LEMMA OthersStored ==
  ASSUME TypeOK, NEW blk, NEW first, NEW m, NEW p, PathOf(blk, first, m, p),
         NEW from, NEW bytes, NEW b \in Blocks, \A j \in 1 .. m : p[j] # b
  PROVE  StoreBytes(blk, first, from, bytes)[b] = data[b]
<1>l. PICK l : l = List(blk, first) OBVIOUS
<1>1. l \in Seq(Blocks) /\ Len(l) = m /\ \A j \in 1 .. m : l[j] = p[j]
  BY <1>l, LinkedList DEF PathOf
<1>2. {n \in DOMAIN l : l[n] = b} = {}
  <2>1. DOMAIN l = 1 .. m BY <1>1
  <2> QED BY <1>1, <2>1
<1>3. \A i : BytesAt(l, from, bytes, b, i) = {} BY <1>2 DEF BytesAt
<1>4. StoreBytes(blk, first, from, bytes)[b] = [i \in 0 .. BLOCK_DATA_SIZE - 1 |-> data[b][i]]
  <2>1. StoreBytes(blk, first, from, bytes)
          = [c \in Blocks |-> [i \in 0 .. BLOCK_DATA_SIZE - 1 |->
               IF BytesAt(l, from, bytes, c, i) = {} THEN data[c][i]
               ELSE bytes[CHOOSE x \in BytesAt(l, from, bytes, c, i) : TRUE]]]
    BY ONLY <1>l, StoreBytesIs
  <2> QED BY <1>3, <2>1
<1>5. data[b] = [i \in 0 .. BLOCK_DATA_SIZE - 1 |-> data[b][i]]
  BY DEF TypeOK, BlockData
<1> QED BY <1>4, <1>5

(* Storing nothing changes nothing. *)
LEMMA NothingStored ==
  ASSUME TypeOK, NEW blk, NEW first, NEW from, NEW bytes, DOMAIN bytes = {}
  PROVE  StoreBytes(blk, first, from, bytes) = data
<1>l. PICK l : l = List(blk, first) OBVIOUS
<1>1. \A b, i : BytesAt(l, from, bytes, b, i) = {} BY DEF BytesAt
<1>2. StoreBytes(blk, first, from, bytes)
        = [b \in Blocks |-> [i \in 0 .. BLOCK_DATA_SIZE - 1 |-> data[b][i]]]
  <2>1. StoreBytes(blk, first, from, bytes)
          = [b \in Blocks |-> [i \in 0 .. BLOCK_DATA_SIZE - 1 |->
               IF BytesAt(l, from, bytes, b, i) = {} THEN data[b][i]
               ELSE bytes[CHOOSE x \in BytesAt(l, from, bytes, b, i) : TRUE]]]
    BY ONLY <1>l, StoreBytesIs
  <2> QED BY <1>1, <2>1
<1>3. data \in [Blocks -> [0 .. BLOCK_DATA_SIZE - 1 -> Bytes]] BY DEF TypeOK, BlockData
<1>4. \A b \in Blocks : data[b] = [i \in 0 .. BLOCK_DATA_SIZE - 1 |-> data[b][i]] BY <1>3
<1>5. data = [b \in Blocks |-> data[b]] BY <1>3
<1> QED BY <1>2, <1>4, <1>5

(* Every block of a file is of its type and belongs to no other. *)
LEMMA FileBlockOwners ==
  Good => \E own : \A o \in FileOwners : Live(o) =>
            \A k \in Nat : k < allocatedBlocksForFile(FileEntries[o]) =>
                /\ own[BlockAt(disk.blk, FileEntries[o].first_block, k)] = o
                /\ disk.blk[BlockAt(disk.blk, FileEntries[o].first_block, k)].type = "FILE"
<1> SUFFICES ASSUME Good
             PROVE  \E own : \A o \in FileOwners : Live(o) =>
                      \A k \in Nat : k < allocatedBlocksForFile(FileEntries[o]) =>
                        /\ own[BlockAt(disk.blk, FileEntries[o].first_block, k)] = o
                        /\ disk.blk[BlockAt(disk.blk, FileEntries[o].first_block, k)].type = "FILE"
  OBVIOUS
<1>1. EntriesAre(FileEntries, files, openFileTable) /\ Arranged(disk, next_rootdir, FileEntries)
  BY EntriesArranged
<1>2. PICK H, L, P, own, at :
        /\ Headed(H, disk.freelist, next_rootdir, FileEntries) /\ Laid(disk.blk, H, L, P, own, at)
        /\ \A r \in FileOwners : FileFits(FileEntries[r], L[r])
  BY <1>1 DEF Arranged
<1>3. ASSUME NEW r \in FileOwners, Live(r), NEW c \in Nat,
             c < allocatedBlocksForFile(FileEntries[r])
      PROVE  /\ own[BlockAt(disk.blk, FileEntries[r].first_block, c)] = r
             /\ disk.blk[BlockAt(disk.blk, FileEntries[r].first_block, c)].type = "FILE"
  <2>1. r \in Owners /\ H[r] = FileEntries[r].first_block BY <1>2, OwnersApart DEF Headed
  <2>2. L[r] = allocatedBlocksForFile(FileEntries[r]) BY <1>2, <1>3 DEF FileFits, Live
  <2>3. \A b : b \in fileBlockAt(disk.blk, H[r], c) <=> c < L[r] /\ b = P[r][c + 1]
    <3>b. PICK blk : blk = disk.blk OBVIOUS
    <3>1. Laid(blk, H, L, P, own, at) /\ r \in Owners BY <1>2, <2>1, <3>b
    <3>2. \A k2 \in Nat : \A b :
            b \in fileBlockAt(blk, H[r], k2) <=> k2 < L[r] /\ b = P[r][k2 + 1]
      BY ONLY <3>1, LaidLists
    <3> QED BY <3>2, <3>b
  <2>4. BlockAt(disk.blk, FileEntries[r].first_block, c) = P[r][c + 1]
    BY <1>3, <2>1, <2>2, <2>3 DEF BlockAt
  <2>5. L[r] \in Nat BY <1>2, <2>1 DEF Laid
  <2>6. c + 1 \in 1 .. L[r] BY <1>3, <2>2, <2>5
  <2>7. own[P[r][c + 1]] = r /\ P[r][c + 1] \in Blocks BY <1>2, <2>1, <2>6 DEF Laid
  <2>8. r # FreeList /\ r # Root BY OwnersApart
  <2>9. disk.blk[P[r][c + 1]].type = "FILE" BY <1>2, <2>7, <2>8 DEF Laid, TypeOf
  <2> QED BY <2>4, <2>7, <2>9
<1> QED BY <1>3

(* No two files share a block. *)
LEMMA FilesApart ==
  Good => \A o, q \in FileOwners : Live(o) /\ Live(q) /\ o # q =>
            \A j, k \in Nat : /\ j < allocatedBlocksForFile(FileEntries[o])
                              /\ k < allocatedBlocksForFile(FileEntries[q])
                => BlockAt(disk.blk, FileEntries[o].first_block, j)
                        # BlockAt(disk.blk, FileEntries[q].first_block, k)
BY FileBlockOwners

LEMMA FilesApartNext ==
  Good' => (\A o, q \in FileOwners : Live(o) /\ Live(q) /\ o # q =>
            \A j, k \in Nat : /\ j < allocatedBlocksForFile(FileEntries[o])
                              /\ k < allocatedBlocksForFile(FileEntries[q])
                => BlockAt(disk.blk, FileEntries[o].first_block, j)
                        # BlockAt(disk.blk, FileEntries[q].first_block, k))'
BY FilesApart, PTL

(* A store into one file leaves the bytes of every other file. *)
LEMMA OthersKept ==
  ASSUME GoodStep, NEW o \in FileOwners, Live(o)', NEW q \in FileOwners, q # o,
         Live(q), Live(q)', FileEntries'[q] = FileEntries[q],
         FileKept(disk.blk, disk'.blk, FileEntries[q]),
         NEW from, NEW bytes,
         data' = StoreBytes(disk'.blk, FileEntries'[o].first_block, from, bytes)
  PROVE  FileAt(q)'.bytes = FileAt(q).bytes
<1>0. Good /\ Good' /\ TypeOK BY DEF GoodStep, Good, IInv
<1>e. PICK e : e = FileEntries[q] OBVIOUS
<1>f. PICK f : f = FileEntries'[o] OBVIOUS
<1>m. PICK m : m = allocatedBlocksForFile(f) OBVIOUS
<1>n. PICK n : n = allocatedBlocksForFile(e) OBVIOUS
<1>1. e.size \in Nat /\ n \in Nat /\ e.size <= n * BLOCK_DATA_SIZE
  BY <1>0, <1>e, <1>n, LiveFile DEF FileFacts
<1>2. PICK p : PathOf(disk.blk, e.first_block, n, p)
  BY <1>0, <1>e, <1>n, LiveFile DEF FileFacts
<1>3. FileFacts(o, FileEntries[o])' BY <1>0, LiveFileNext
<1>4. PICK r : PathOf(disk'.blk, f.first_block, m, r) BY <1>3, <1>f, <1>m DEF FileFacts
<1>5. m \in Nat BY <1>4 DEF PathOf
<1>6. BlocksKept(disk.blk, disk'.blk, e.first_block, n) BY <1>e, <1>n DEF FileKept
<1>7. ASSUME NEW k \in Nat, k < n
      PROVE  data'[BlockAt(disk.blk, e.first_block, k)] = data[BlockAt(disk.blk, e.first_block, k)]
  <2>b. PICK b : b = BlockAt(disk.blk, e.first_block, k) OBVIOUS
  <2>1. b \in Blocks BY <1>2, <1>7, <2>b, BlockAtIs
  <2>2. b = BlockAt(disk'.blk, e.first_block, k) BY <1>6, <1>7, <2>b DEF BlocksKept, BlockAt
  <2>3. ASSUME NEW j \in 1 .. m PROVE r[j] # b
    <3>1. j - 1 \in Nat /\ j - 1 < m /\ (j - 1) + 1 = j BY <1>5
    <3>2. r[j] = BlockAt(disk'.blk, f.first_block, j - 1) BY <1>4, <3>1, BlockAtIs
    <3>3. BlockAt(disk'.blk, f.first_block, j - 1) # BlockAt(disk'.blk, e.first_block, k)
      <4>1. f = FileEntries'[o] /\ e = FileEntries'[q] BY <1>e, <1>f
      <4>2. \A j2, k2 \in Nat : j2 < m /\ k2 < n
              => BlockAt(disk'.blk, f.first_block, j2) # BlockAt(disk'.blk, e.first_block, k2)
        BY <1>0, <1>m, <1>n, <4>1, FilesApartNext
      <4> QED BY <1>7, <3>1, <4>2
    <3> QED BY <2>2, <3>2, <3>3
  <2>4. StoreBytes(disk'.blk, f.first_block, from, bytes)[b] = data[b]
    BY <1>0, <1>4, <2>1, <2>3, OthersStored
  <2> QED BY <1>f, <2>4, <2>b
<1>8. FileBytes(disk'.blk, data', FileEntries'[q]) = FileBytes(disk.blk, data, e)
  BY <1>1, <1>6, <1>7, <1>e, BytesSame
<1> QED BY <1>8, <1>e DEF FileAt

(* Without a store, the bytes of a file whose blocks stay in place. *)
DataKept(q) ==
    \A k \in Nat : k < allocatedBlocksForFile(FileEntries[q]) =>
        data'[BlockAt(disk.blk, FileEntries[q].first_block, k)]
            = data[BlockAt(disk.blk, FileEntries[q].first_block, k)]

LEMMA UnstoredKept ==
  ASSUME GoodStep, NEW q \in FileOwners, Live(q), DataKept(q), NEW o \in FileOwners,
         FileEntries'[o].size = FileEntries[q].size, FileEntries'[o].first_block = FileEntries[q].first_block,
         FileKept(disk.blk, disk'.blk, FileEntries[q])
  PROVE  FileAt(o)'.bytes = FileAt(q).bytes
<1>0. Good BY DEF GoodStep
<1>e. PICK e : e = FileEntries[q] OBVIOUS
<1>n. PICK n : n = allocatedBlocksForFile(e) OBVIOUS
<1>1. e.size \in Nat /\ n \in Nat /\ e.size <= n * BLOCK_DATA_SIZE
  BY <1>0, <1>e, <1>n, LiveFile DEF FileFacts
<1>2. BlocksKept(disk.blk, disk'.blk, e.first_block, n) BY <1>e, <1>n DEF FileKept
<1>3. \A k \in Nat : k < n =>
        data'[BlockAt(disk.blk, e.first_block, k)] = data[BlockAt(disk.blk, e.first_block, k)]
  BY <1>e, <1>n DEF DataKept
<1>4. FileBytes(disk'.blk, data', FileEntries'[o]) = FileBytes(disk.blk, data, e)
  BY <1>1, <1>2, <1>3, <1>e, BytesSame
<1> QED BY <1>4, <1>e DEF FileAt

(* The bytes of the file that is stored to. *)
StoredTo(o, e, e2, from, bytes, held, n) ==
    /\ o \in FileOwners /\ Live(o)' /\ e = FileEntries[o] /\ e2 = FileEntries'[o]
    /\ from \in Nat /\ bytes \in Seq(Bytes)
    /\ data' = StoreBytes(disk'.blk, e2.first_block, from, bytes)
    /\ n \in Nat /\ held \in Nat /\ held <= n * BLOCK_DATA_SIZE /\ held <= e.size
    /\ e.size \in Nat
    /\ held # 0 => e2.first_block = e.first_block
    /\ BlocksKept(disk.blk, disk'.blk, e.first_block, n)

LEMMA StoredFile ==
  ASSUME GoodStep, NEW o, NEW e, NEW e2, NEW from, NEW bytes, NEW held, NEW n,
         StoredTo(o, e, e2, from, bytes, held, n)
  PROVE  /\ e2.size \in Nat
         /\ FileAt(o)'.bytes = [k \in 1 .. e2.size |-> FileAt(o)'.bytes[k]]
         /\ \A k \in 1 .. e2.size :
                /\ k - from \in 1 .. Len(bytes) => FileAt(o)'.bytes[k] = bytes[k - from]
                /\ k - from \notin 1 .. Len(bytes) /\ k <= held
                        => FileAt(o)'.bytes[k] = FileAt(o).bytes[k]
<1>a. /\ o \in FileOwners /\ Live(o)' /\ e = FileEntries[o] /\ e2 = FileEntries'[o]
      /\ from \in Nat /\ bytes \in Seq(Bytes)
      /\ data' = StoreBytes(disk'.blk, e2.first_block, from, bytes)
      /\ n \in Nat /\ held \in Nat /\ held <= n * BLOCK_DATA_SIZE /\ held <= e.size
      /\ e.size \in Nat
      /\ held # 0 => e2.first_block = e.first_block
      /\ BlocksKept(disk.blk, disk'.blk, e.first_block, n)
  BY DEF StoredTo
<1>0. Good' BY DEF GoodStep
<1>1. FileFacts(o, FileEntries[o])' BY <1>0, <1>a, LiveFileNext
<1>m. PICK m : m = allocatedBlocksForFile(e2) OBVIOUS
<1>2. e2.size \in Nat /\ m \in Nat /\ e2.size <= m * BLOCK_DATA_SIZE
  BY <1>1, <1>a, <1>m DEF FileFacts
<1>3. PICK p : PathOf(disk'.blk, e2.first_block, m, p) BY <1>1, <1>a, <1>m DEF FileFacts
<1>4. FileAt(o)'.bytes = [k \in 1 .. e2.size |-> Byte(disk'.blk, data', e2.first_block, k)]
  BY <1>a DEF FileAt, FileBytes
<1>5. FileAt(o).bytes = [k \in 1 .. e.size |-> Byte(disk.blk, data, e.first_block, k)]
  BY <1>a DEF FileAt, FileBytes
<1>6. ASSUME NEW k \in 1 .. e2.size
      PROVE  FileAt(o)'.bytes[k]
                = IF k - from \in 1 .. Len(bytes) THEN bytes[k - from]
                  ELSE Byte(disk'.blk, data, e2.first_block, k)
  <2>1. k \in Nat \ {0} /\ k <= m * BLOCK_DATA_SIZE
    <3>v. PICK v : v = m * BLOCK_DATA_SIZE OBVIOUS
    <3>1. v \in Nat BY <1>2, <3>v
    <3>2. e2.size <= v BY <1>2, <3>v
    <3>3. k <= v BY ONLY <1>2, <3>1, <3>2, k \in 1 .. e2.size
    <3> QED BY <3>3, <3>v
  <2>2. Byte(disk'.blk, data', e2.first_block, k)
          = IF k - from \in 1 .. Len(bytes) THEN bytes[k - from]
            ELSE Byte(disk'.blk, data, e2.first_block, k)
    BY <1>3, <1>a, <2>1, ByteStored
  <2> QED BY <1>4, <2>2
<1>7. ASSUME NEW k \in 1 .. e2.size, k <= held
      PROVE  Byte(disk'.blk, data, e2.first_block, k) = FileAt(o).bytes[k]
  <2>1. k \in 1 .. held /\ k \in 1 .. e.size BY <1>2, <1>7, <1>a
  <2>2. Place(k) \in Nat /\ Place(k) < n BY <1>a, <2>1, ByteWithin
  <2>3. e2.first_block = e.first_block BY <1>a, <2>1
  <2>4. BlockAt(disk'.blk, e.first_block, Place(k)) = BlockAt(disk.blk, e.first_block, Place(k))
    BY <1>a, <2>2 DEF BlocksKept, BlockAt
  <2> QED BY <1>5, <2>1, <2>3, <2>4 DEF Byte
<1>8. FileAt(o)'.bytes = [k \in 1 .. e2.size |-> FileAt(o)'.bytes[k]] BY <1>4
<1> QED BY <1>2, <1>6, <1>7, <1>8

-----------------------------------------------------------------------------
(* Calls on a descriptor that change the entry of its file *)

\* Every descriptor stays on its file.
SameDescriptors ==
    \A d \in FDs :
        /\ openFileDescTable'[d] = NULL <=> openFileDescTable[d] = NULL
        /\ openFileDescTable[d] # NULL =>
            openFileDescTable'[d].fileEntry = openFileDescTable[d].fileEntry

LEMMA FdsSame ==
  ASSUME GoodStep, SameDescriptors,
         \A j \in FDs : openFileTable[j] # NULL => OwnerOf(j)' = OwnerOf(j)
  PROVE  \A q : FdsOf(q)' = FdsOf(q)
<1>1. \A d \in FDs : openFileDescTable[d] # NULL =>
        openFileDescTable[d].fileEntry \in FDs
        /\ openFileTable[openFileDescTable[d].fileEntry] # NULL
  BY DescriptorFile DEF GoodStep, Good, IInv
<1>2. ASSUME NEW d \in FDs, openFileDescTable[d] # NULL
      PROVE  OwnerOf(openFileDescTable[d].fileEntry)' = OwnerOf(openFileDescTable[d].fileEntry)
  <2>j. PICK j : j = openFileDescTable[d].fileEntry OBVIOUS
  <2>1. j \in FDs /\ openFileTable[j] # NULL BY <1>1, <1>2, <2>j
  <2>2. OwnerOf(j)' = OwnerOf(j) BY <2>1
  <2>3. openFileDescTable'[d].fileEntry = j BY <1>2, <2>j DEF SameDescriptors
  <2> QED BY <2>2, <2>3, <2>j DEF OwnerOf
<1> SUFFICES ASSUME NEW q PROVE FdsOf(q)' = FdsOf(q) OBVIOUS
<1>3. FdsOf(q)' = {d \in FDs : openFileDescTable'[d] # NULL
                                /\ OwnerOf(openFileDescTable[d].fileEntry)' = q}
  BY DEF FdsOf
<1>4. FdsOf(q) = {d \in FDs : openFileDescTable[d] # NULL
                                /\ OwnerOf(openFileDescTable[d].fileEntry) = q}
  BY DEF FdsOf
<1> QED BY <1>2, <1>3, <1>4 DEF SameDescriptors

\* The entry of owner o becomes e, and nothing else of what is seen but bytes changes.
Reseen(o, e) ==
    /\ SameNames
    /\ FileEntries'[o] = e /\ Live(o)'
    /\ \A q \in FileOwners \ {o} : FileEntries'[q] = FileEntries[q]
    /\ \A q \in FileOwners : Live(q)' <=> Live(q)
    /\ \A q : FdsOf(q)' = FdsOf(q)

LEMMA EntryReseen ==
  ASSUME GoodStep, SameDescriptors, NEW i \in FDs, openFileTable[i] # NULL,
         NEW e \in Entry, Occupied(e), e.name = DiskEntry(i).name, SetDiskEntry(i, e),
         NEW o, o = OwnerOf(i), o \in FileOwners, Live(o)
  PROVE  Reseen(o, e)
<1>0. Good /\ Good' /\ openFileTable \in [FDs -> OpenFile \cup {NULL}]
      /\ files \in [Slots -> Entry]
  BY DEF GoodStep, Good, IInv, TypeOK
<1>f. PICK f : f = openFileTable[i] OBVIOUS
<1>1. f \in OpenFile /\ f # NULL BY <1>0, <1>f
<1>2. /\ \A s \in Slots : s \in FileOwners /\ FileEntries'[s] = files'[s]
      /\ \A j \in FDs : Own(j) \in FileOwners /\ Own(j) \notin Slots
                        /\ FileEntries'[Own(j)] = OwnEntry(openFileTable'[j])
  BY <1>0, OwnedNext
<1>3. /\ \A s \in Slots : FileEntries[s] = files[s]
      /\ \A j \in FDs : FileEntries[Own(j)] = OwnEntry(openFileTable[j])
      /\ \A q \in FileOwners : q \in Slots \/ \E j \in FDs : q = Own(j)
  BY <1>0, Owned
<1>4. /\ FileEntries'[o] = e
      /\ \A q \in FileOwners \ {o} : FileEntries'[q] = FileEntries[q]
      /\ \A j \in FDs : openFileTable[j] # NULL => OwnerOf(j)' = OwnerOf(j)
      /\ Unlinked' = Unlinked
      /\ \A s \in Slots : files'[s] = files[s] \/ (files'[s] = e /\ DiskEntry(i) = files[s])
  <2>1. CASE f.diskFile = UnlinkedFile
    <3>n. PICK new : new = [f EXCEPT !.unlinkedFile = e] OBVIOUS
    <3>1. openFileTable' = [openFileTable EXCEPT ![i] = new] /\ files' = files
      BY <1>f, <2>1, <3>n DEF SetDiskEntry
    <3>2. new \in OpenFile /\ new.diskFile = UnlinkedFile /\ new.unlinkedFile = e /\ new # NULL
      <4>1. new \in OpenFile /\ new.diskFile = UnlinkedFile /\ new.unlinkedFile = e
        BY <1>1, <2>1, <3>n DEF OpenFile
      <4> QED BY <4>1, NullAssumption
    <3>3. openFileTable'[i] = new /\ \A j \in FDs \ {i} : openFileTable'[j] = openFileTable[j]
      BY <1>0, <3>1
    <3>4. o = Own(i) BY <1>f, <2>1 DEF OwnerOf
    <3>5. FileEntries'[o] = e BY <1>2, <3>2, <3>3, <3>4 DEF OwnEntry
    <3>6. ASSUME NEW q \in FileOwners \ {o} PROVE FileEntries'[q] = FileEntries[q]
      <4>1. CASE q \in Slots BY <1>2, <1>3, <3>1, <4>1
      <4>2. CASE q \notin Slots
        <5>1. PICK j \in FDs : q = Own(j) BY <1>3, <4>2
        <5>2. j # i BY <3>4, <3>6, <5>1
        <5> QED BY <1>2, <1>3, <3>3, <5>1, <5>2
      <4> QED BY <4>1, <4>2
    <3>7. \A j \in FDs : openFileTable[j] # NULL => OwnerOf(j)' = OwnerOf(j)
      BY <1>f, <2>1, <3>2, <3>3 DEF OwnerOf
    <3>8. Unlinked' = Unlinked BY <1>1, <1>f, <2>1, <3>2, <3>3 DEF Unlinked
    <3> QED BY <3>1, <3>5, <3>6, <3>7, <3>8
  <2>2. CASE f.diskFile # UnlinkedFile
    <3>1. files' = [files EXCEPT ![f.diskFile] = e] /\ openFileTable' = openFileTable
      BY <1>f, <2>2 DEF SetDiskEntry
    <3>2. o = f.diskFile /\ o \in Slots BY <1>1, <1>f, <2>2 DEF OwnerOf, OpenFile
    <3>3. files'[o] = e /\ \A s \in Slots \ {o} : files'[s] = files[s] BY <1>0, <3>1, <3>2
    <3>4. DiskEntry(i) = files[o] BY <1>f, <2>2, <3>2 DEF DiskEntry
    <3>5. FileEntries'[o] = e BY <1>2, <3>2, <3>3
    <3>6. ASSUME NEW q \in FileOwners \ {o} PROVE FileEntries'[q] = FileEntries[q]
      <4>1. CASE q \in Slots BY <1>2, <1>3, <3>3, <3>6, <4>1
      <4>2. CASE q \notin Slots
        <5>1. PICK j \in FDs : q = Own(j) BY <1>3, <4>2
        <5> QED BY <1>2, <1>3, <3>1, <5>1
      <4> QED BY <4>1, <4>2
    <3>7. \A j \in FDs : openFileTable[j] # NULL => OwnerOf(j)' = OwnerOf(j)
      BY <3>1 DEF OwnerOf
    <3>8. Unlinked' = Unlinked BY <3>1 DEF Unlinked
    <3> QED BY <3>3, <3>4, <3>5, <3>6, <3>7, <3>8
  <2> QED BY <2>1, <2>2
<1>5. Occupied(DiskEntry(i)) BY <1>0 DEF Good, IInv, OpenFilesTrackEntries
<1>6. SameNames BY <1>4, <1>5 DEF SameNames, Holds
<1>7. \A q \in FileOwners : Live(q)' <=> Live(q) BY <1>4 DEF Live
<1>8. \A q : FdsOf(q)' = FdsOf(q) BY <1>4, FdsSame
<1> QED BY <1>4, <1>6, <1>7, <1>8 DEF Reseen

\* The blocks of every file stay in place.
LiveKept(S) ==
    \A q \in FileOwners \ S : Live(q) => FileKept(disk.blk, disk'.blk, FileEntries[q])

LEMMA LinkedLiveKept ==
  ASSUME Good, LinksKept(disk.blk, disk'.blk)
  PROVE  LiveKept({})
<1> SUFFICES ASSUME NEW q \in FileOwners, Live(q)
             PROVE  FileKept(disk.blk, disk'.blk, FileEntries[q])
  BY DEF LiveKept
<1>1. EntriesAre(FileEntries, files, openFileTable) /\ Arranged(disk, next_rootdir, FileEntries)
  BY EntriesArranged
<1>2. disk \in Disk /\ FileEntries \in [FileOwners -> Entry]
  BY <1>1 DEF Good, IInv, TypeOK, EntriesAre
<1> QED BY <1>1, <1>2, LinkedFileKept DEF Live

LEMMA SameLiveKept ==
  ASSUME disk' = disk
  PROVE  LiveKept({})
BY SameFileKept DEF LiveKept

(* Freeing the end of one file. *)
LEMMA FreedLiveKept ==
  ASSUME Good, NEW o \in FileOwners, Live(o),
         NEW k \in Nat, k < allocatedBlocksForFile(FileEntries[o]),
         NEW first,
         \/ first \in fileBlockAt(disk.blk, FileEntries[o].first_block, k)
         \/ k = 0 /\ first = FileEntries[o].first_block,
         NEW last \in LastOf(disk.blk, FileEntries[o].first_block),
         disk' = AfterFree(disk, first, last)
  PROVE  LiveKept({o}) /\ BlocksKept(disk.blk, disk'.blk, FileEntries[o].first_block, k)
<1>1. EntriesAre(FileEntries, files, openFileTable) /\ Arranged(disk, next_rootdir, FileEntries)
  BY EntriesArranged
<1>2. disk \in Disk /\ FileEntries \in [FileOwners -> Entry]
  BY <1>1 DEF Good, IInv, TypeOK, EntriesAre
<1>d. PICK d : d = disk OBVIOUS
<1>b. PICK blk2 : blk2 = disk'.blk OBVIOUS
<1>3. blk2 = AfterFree(d, first, last).blk BY <1>b, <1>d
<1>4. ASSUME NEW q \in FileOwners, Live(q), NEW n \in Nat,
             n <= allocatedBlocksForFile(FileEntries[q]), q = o => n <= k
      PROVE  BlocksKept(d.blk, blk2, FileEntries[q].first_block, n)
  <2>1. Occupied(FileEntries[q]) /\ Occupied(FileEntries[o]) BY <1>4 DEF Live
  <2>2. d \in Disk /\ Arranged(d, next_rootdir, FileEntries) BY <1>1, <1>2, <1>d
  <2>3. /\ first \in fileBlockAt(d.blk, FileEntries[o].first_block, k)
           \/ (k = 0 /\ first = FileEntries[o].first_block)
        /\ last \in LastOf(d.blk, FileEntries[o].first_block)
    BY <1>d
  <2>4. BlocksKept(d.blk, AfterFree(d, first, last).blk, FileEntries[q].first_block, n)
    BY <1>2, <1>4, <2>1, <2>2, <2>3, FreedFileKept
  <2> QED BY <1>3, <2>4
<1>5. \A q \in FileOwners : Live(q) => allocatedBlocksForFile(FileEntries[q]) \in Nat
  BY LiveFile DEF FileFacts
<1>6. LiveKept({o})
  <2> SUFFICES ASSUME NEW q \in FileOwners \ {o}, Live(q)
               PROVE  FileKept(disk.blk, disk'.blk, FileEntries[q])
    BY DEF LiveKept
  <2>n. PICK n : n = allocatedBlocksForFile(FileEntries[q]) OBVIOUS
  <2>1. n \in Nat /\ n <= n BY <1>5, <2>n
  <2>2. BlocksKept(d.blk, blk2, FileEntries[q].first_block, n) BY <1>4, <2>1, <2>n
  <2> QED BY <1>b, <1>d, <2>2, <2>n DEF FileKept
<1>7. BlocksKept(d.blk, blk2, FileEntries[o].first_block, k)
  <2>1. k <= allocatedBlocksForFile(FileEntries[o]) /\ k <= k BY <1>5
  <2> QED BY <1>4, <2>1
<1> QED BY <1>6, <1>7, <1>b, <1>d

\* A call stores bytes into the file of a descriptor and gives it the entry e; the
\* first `held` bytes of the file stay in place.
Stores(fd, i, o, e, from, bytes, held, n) ==
    /\ OpenOn(fd, i, o) /\ SameDescriptors
    /\ e \in Entry /\ Occupied(e) /\ e.name = FileEntries[o].name /\ SetDiskEntry(i, e)
    /\ from \in Nat /\ bytes \in Seq(Bytes)
    /\ data' = StoreBytes(disk'.blk, e.first_block, from, bytes)
    /\ held \in Nat /\ held <= FileEntries[o].size /\ n \in Nat /\ held <= n * BLOCK_DATA_SIZE
    /\ held # 0 => e.first_block = FileEntries[o].first_block
    /\ BlocksKept(disk.blk, disk'.blk, FileEntries[o].first_block, n)
    /\ LiveKept({o})

(* The file that such a call leaves, in SfsApi. *)
LEMMA StoreSeen ==
  ASSUME GoodStep, NEW fd, NEW i, NEW o, NEW e, NEW from, NEW bytes, NEW held, NEW n,
         Stores(fd, i, o, e, from, bytes, held, n)
  PROVE  /\ Api!SetFile(fd, FileAt(o)')
         /\ FileAt(o)' = [FileAt(o) EXCEPT !.bytes = FileAt(o)'.bytes]
         /\ e.size \in Nat /\ Len(FileAt(o).bytes) = FileEntries[o].size
         /\ FileAt(o).bytes \in Seq(Bytes)
         /\ FileAt(o)'.bytes \in Seq(Bytes) /\ Len(FileAt(o)'.bytes) = e.size
         /\ FileAt(o)'.bytes = [k \in 1 .. e.size |-> FileAt(o)'.bytes[k]]
         /\ \A k \in 1 .. e.size :
                /\ k - from \in 1 .. Len(bytes) => FileAt(o)'.bytes[k] = bytes[k - from]
                /\ k - from \notin 1 .. Len(bytes) /\ k <= held
                        => FileAt(o)'.bytes[k] = FileAt(o).bytes[k]
<1>0. Good /\ Good' BY DEF GoodStep
<1>1. /\ OpenOn(fd, i, o) /\ SameDescriptors
      /\ e \in Entry /\ Occupied(e) /\ e.name = FileEntries[o].name /\ SetDiskEntry(i, e)
      /\ from \in Nat /\ bytes \in Seq(Bytes)
      /\ data' = StoreBytes(disk'.blk, e.first_block, from, bytes)
      /\ held \in Nat /\ held <= FileEntries[o].size /\ n \in Nat /\ held <= n * BLOCK_DATA_SIZE
      /\ held # 0 => e.first_block = FileEntries[o].first_block
      /\ BlocksKept(disk.blk, disk'.blk, FileEntries[o].first_block, n)
      /\ LiveKept({o})
  BY DEF Stores
<1>2. /\ i \in FDs /\ openFileTable[i] # NULL /\ o = OwnerOf(i) /\ o \in FileOwners /\ Live(o)
      /\ FileEntries[o] = DiskEntry(i)
  BY <1>1 DEF OpenOn
<1>3. Reseen(o, e) BY <1>1, <1>2, EntryReseen
<1>4. /\ SameNames /\ FileEntries'[o] = e /\ Live(o)'
      /\ \A q \in FileOwners \ {o} : FileEntries'[q] = FileEntries[q]
      /\ \A q \in FileOwners : Live(q)' <=> Live(q)
      /\ \A q : FdsOf(q)' = FdsOf(q)
  BY <1>3 DEF Reseen
<1>5. FileEntries[o].size \in Nat BY <1>0, <1>2, LiveFile DEF FileFacts
<1>6. ASSUME NEW q \in FileOwners, Live(q), q # o PROVE FileAt(q)' = FileAt(q)
  <2>1. FileKept(disk.blk, disk'.blk, FileEntries[q]) BY <1>1, <1>6 DEF LiveKept
  <2>2. FileEntries'[q] = FileEntries[q] /\ Live(q)' BY <1>4, <1>6
  <2>3. data' = StoreBytes(disk'.blk, FileEntries'[o].first_block, from, bytes) BY <1>1, <1>4
  <2>4. FileAt(q)'.bytes = FileAt(q).bytes BY <1>2, <1>4, <1>6, <2>1, <2>2, <2>3, OthersKept
  <2>5. FdsOf(q)' = FdsOf(q) BY <1>4
  <2> QED BY <2>4, <2>5 DEF FileAt
<1>7. Api!SetFile(fd, FileAt(o)') BY <1>1, <1>4, <1>6, FileSet
<1>8. FileAt(o)' = [FileAt(o) EXCEPT !.bytes = FileAt(o)'.bytes]
  <2>1. FdsOf(o)' = FdsOf(o) BY <1>4
  <2> QED BY <2>1 DEF FileAt
<1>9. FileAt(o) \in FileValues /\ Len(FileAt(o).bytes) = FileEntries[o].size
  BY <1>0, <1>2, FileType
<1>10. (FileAt(o) \in FileValues /\ Len(FileAt(o).bytes) = FileEntries[o].size)'
  BY <1>0, <1>2, <1>4, FileTypeNext
<1>11. /\ e.size \in Nat
       /\ FileAt(o)'.bytes = [k \in 1 .. e.size |-> FileAt(o)'.bytes[k]]
       /\ \A k \in 1 .. e.size :
              /\ k - from \in 1 .. Len(bytes) => FileAt(o)'.bytes[k] = bytes[k - from]
              /\ k - from \notin 1 .. Len(bytes) /\ k <= held
                      => FileAt(o)'.bytes[k] = FileAt(o).bytes[k]
  <2>x. PICK x : x = FileEntries[o] OBVIOUS
  <2>1. StoredTo(o, x, e, from, bytes, held, n)
    BY <1>1, <1>2, <1>4, <1>5, <2>x DEF StoredTo
  <2> QED BY <2>1, StoredFile
<1>12. FileAt(o).bytes \in Seq(Bytes) /\ FileAt(o)'.bytes \in Seq(Bytes)
       /\ Len(FileAt(o)'.bytes) = e.size
  BY <1>4, <1>9, <1>10 DEF FileValues
<1> QED BY <1>7, <1>8, <1>9, <1>11, <1>12

(* A call that only moves a descriptor. *)
LEMMA Moved ==
  ASSUME GoodStep, NEW fd, NEW i, NEW o, OpenOn(fd, i, o), NEW to \in Nat,
         openFileDescTable' = [openFileDescTable EXCEPT ![fd].currPos = to]
  PROVE  pos' = [pos EXCEPT ![fd] = to] /\ SameDescriptors
<1>0. IInv /\ Pictured /\ Pictured' BY DEF GoodStep, Good
<1>1. fd \in FDs /\ openFileDescTable[fd] # NULL BY DEF OpenOn
<1>2. /\ openFileDescTable'[fd] # NULL /\ openFileDescTable'[fd].currPos = to
      /\ openFileDescTable'[fd].fileEntry = openFileDescTable[fd].fileEntry
      /\ \A d \in FDs \ {fd} : openFileDescTable'[d] = openFileDescTable[d]
  BY <1>0, <1>1, PositionMoved
<1>3. pos = PosImage /\ pos' = PosImage' BY <1>0 DEF Pictured
<1>4. pos' = [pos EXCEPT ![fd] = to] BY <1>1, <1>2, <1>3 DEF PosImage
<1> QED BY <1>1, <1>2, <1>4 DEF SameDescriptors

LEMMA OnlyMoved ==
  ASSUME GoodStep, SameDescriptors, UNCHANGED <<disk, data, files, openFileTable>>
  PROVE  dir' = dir /\ orphans' = orphans
<1>1. FileEntries' = FileEntries /\ Unlinked' = Unlinked BY DEF FileEntries, Unlinked
<1>2. SameNames BY <1>1 DEF SameNames, Holds
<1>3. \A q : FdsOf(q)' = FdsOf(q)
  <2>1. \A j \in FDs : OwnerOf(j)' = OwnerOf(j) BY DEF OwnerOf
  <2> QED BY <2>1, FdsSame
<1>4. \A q \in FileOwners : FileAt(q)' = FileAt(q) BY <1>1, <1>3 DEF FileAt
<1> QED BY <1>2, <1>4, FilesSame

(* The calls of SfsApi on an open descriptor. *)
LEMMA ApiCall ==
  ASSUME GoodStep, NEW fd, NEW i, NEW o, OpenOn(fd, i, o),
         \/ Api!Close(fd)
         \/ \E len \in Lengths : Api!Read(fd, FileAt(o), len) \/ Api!Truncate(fd, FileAt(o), len)
         \/ \E buf \in Buffers : Api!Write(fd, FileAt(o), buf)
         \/ \E delta \in Deltas : Api!Seek(fd, FileAt(o), delta)
  PROVE  Api!Next
<1>1. Api!IsOpen(fd) /\ Api!FileOf(fd) = FileAt(o) /\ fd \in FDs
  BY ApiFileOf DEF GoodStep, OpenOn
<1> QED BY <1>1 DEF Api!Next

LEMMA ReadIs ==
  ASSUME GoodStep, NEW fd \in FDs, NEW len \in Lengths, Read(fd, len)
  PROVE  Api!Next
<1>0. Good /\ Pictured BY DEF GoodStep
<1>1. openFileDescTable[fd] # NULL /\ UNCHANGED <<disk, data, files, openFileTable>>
  BY DEF Read
<1>2. PICK i, o : OpenOn(fd, i, o) BY <1>0, <1>1, OpenDescriptor
<1>p. PICK p : p = openFileDescTable[fd].currPos OBVIOUS
<1>s. PICK size : size = FileEntries[o].size OBVIOUS
<1>n. PICK to : to = p + sizeMin(size - p, len) OBVIOUS
<1>3. /\ i = openFileDescTable[fd].fileEntry /\ FileEntries[o] = DiskEntry(i)
      /\ p \in Nat /\ p <= size /\ o \in FileOwners /\ Live(o)
  BY <1>2, <1>p, <1>s DEF OpenOn
<1>4. openFileDescTable' = [openFileDescTable EXCEPT ![fd].currPos = to]
  BY <1>3, <1>n, <1>p, <1>s DEF Read
<1>5. size \in Nat /\ Len(FileAt(o).bytes) = size
  BY <1>0, <1>3, <1>s, LiveFile, FileType DEF FileFacts
<1>6. len \in Nat OBVIOUS
<1>7. to \in Nat /\ to = IF size - p < len THEN size ELSE p + len
  BY ONLY <1>3, <1>5, <1>6, <1>n DEF sizeMin
<1>8. pos' = [pos EXCEPT ![fd] = to] /\ SameDescriptors BY <1>2, <1>4, <1>7, Moved
<1>9. dir' = dir /\ orphans' = orphans BY <1>1, <1>8, OnlyMoved
<1>10. pos[fd] = p BY <1>0, <1>2, <1>p, ApiFileOf
<1>11. Api!Read(fd, FileAt(o), len) BY <1>5, <1>7, <1>8, <1>9, <1>10 DEF Api!Read
<1> QED BY <1>2, <1>11, ApiCall

LEMMA SeekIs ==
  ASSUME GoodStep, NEW fd \in FDs, NEW delta \in Deltas, Seek(fd, delta)
  PROVE  Api!Next
<1>0. Good /\ Pictured BY DEF GoodStep
<1>1. openFileDescTable[fd] # NULL /\ UNCHANGED <<disk, data, files, openFileTable>>
  BY DEF Seek
<1>2. PICK i, o : OpenOn(fd, i, o) BY <1>0, <1>1, OpenDescriptor
<1>p. PICK p : p = openFileDescTable[fd].currPos OBVIOUS
<1>s. PICK size : size = FileEntries[o].size OBVIOUS
<1>n. PICK to : to = IF delta < 0 THEN IF -delta > p THEN 0 ELSE p + delta
                     ELSE IF delta > size - p THEN size ELSE p + delta
  OBVIOUS
<1>3. /\ i = openFileDescTable[fd].fileEntry /\ FileEntries[o] = DiskEntry(i)
      /\ p \in Nat /\ p <= size /\ o \in FileOwners /\ Live(o)
  BY <1>2, <1>p, <1>s DEF OpenOn
<1>4. openFileDescTable' = [openFileDescTable EXCEPT ![fd].currPos = to]
  BY <1>3, <1>n, <1>p, <1>s DEF Seek
<1>5. size \in Nat /\ Len(FileAt(o).bytes) = size
  BY <1>0, <1>3, <1>s, LiveFile, FileType DEF FileFacts
<1>6. delta \in Int OBVIOUS
<1>7. to \in Nat /\ to = IF p + delta < 0 THEN 0 ELSE IF p + delta > size THEN size ELSE p + delta
  BY ONLY <1>3, <1>5, <1>6, <1>n
<1>8. pos' = [pos EXCEPT ![fd] = to] /\ SameDescriptors BY <1>2, <1>4, <1>7, Moved
<1>9. dir' = dir /\ orphans' = orphans BY <1>1, <1>8, OnlyMoved
<1>10. pos[fd] = p BY <1>0, <1>2, <1>p, ApiFileOf
<1>11. Api!Seek(fd, FileAt(o), delta) BY <1>5, <1>7, <1>8, <1>9, <1>10 DEF Api!Seek
<1> QED BY <1>2, <1>11, ApiCall

(* A sequence that has a buffer at a position, and is otherwise as before, is put *)
(* together from what was before the buffer, the buffer, and what is behind it.   *)
SplicedAt(old, at, buf, new) ==
    LET end  == at + Len(buf)
        size == IF end > Len(old) THEN end ELSE Len(old)
    IN  /\ Len(new) = size
        /\ \A k \in 1 .. size :
              /\ k - at \in 1 .. Len(buf) => new[k] = buf[k - at]
              /\ k - at \notin 1 .. Len(buf) /\ k <= Len(old) => new[k] = old[k]

LEMMA Spliced ==
  ASSUME NEW S, NEW old \in Seq(S), NEW buf \in Seq(S), NEW at \in Nat, at <= Len(old),
         NEW new \in Seq(S), SplicedAt(old, at, buf, new)
  PROVE  new = SubSeq(old, 1, at) \o buf \o SubSeq(old, (at + Len(buf)) + 1, Len(old))
<1>e. PICK end : end = at + Len(buf) OBVIOUS
<1>s. PICK size : size = IF end > Len(old) THEN end ELSE Len(old) OBVIOUS
<1>0. /\ Len(new) = size
      /\ \A k \in 1 .. size :
            /\ k - at \in 1 .. Len(buf) => new[k] = buf[k - at]
            /\ k - at \notin 1 .. Len(buf) /\ k <= Len(old) => new[k] = old[k]
  BY <1>e, <1>s DEF SplicedAt
<1>l. PICK l : l = Len(old) OBVIOUS
<1>b. PICK b : b = Len(buf) OBVIOUS
<1>1. l \in Nat /\ b \in Nat /\ at <= l /\ end = at + b /\ end \in Nat BY <1>e, <1>l, <1>b
<1>h. PICK head : head = SubSeq(old, 1, at) OBVIOUS
<1>t. PICK tail : tail = SubSeq(old, end + 1, l) OBVIOUS
<1>2. head \in Seq(S) /\ Len(head) = at /\ \A k \in 1 .. at : head[k] = old[k]
  BY <1>1, <1>h, <1>l
<1>3. /\ tail \in Seq(S) /\ Len(tail) = IF end < l THEN l - end ELSE 0
      /\ \A k \in 1 .. Len(tail) : tail[k] = old[end + k]
  <2>1. end + 1 \in Int /\ l \in Int BY <1>1
  <2>2. \A k \in end + 1 .. l : old[k] \in S BY <1>1, <1>l
  <2>3. /\ tail \in Seq(S) /\ Len(tail) = IF end + 1 <= l THEN l - (end + 1) + 1 ELSE 0
        /\ \A k \in 1 .. l - (end + 1) + 1 : tail[k] = old[(end + 1) + k - 1]
    <3>m. PICK m : m = end + 1 OBVIOUS
    <3>1. m \in Int /\ l \in Int /\ \A k \in m .. l : old[k] \in S BY <2>1, <2>2, <3>m
    <3>2. /\ SubSeq(old, m, l) \in Seq(S)
          /\ Len(SubSeq(old, m, l)) = IF m <= l THEN l - m + 1 ELSE 0
          /\ \A k \in 1 .. l - m + 1 : SubSeq(old, m, l)[k] = old[m + k - 1]
      BY ONLY <3>1, SubSeqProperties
    <3> QED BY <1>t, <3>2, <3>m
  <2>4. Len(tail) = IF end < l THEN l - end ELSE 0 BY ONLY <1>1, <2>3
  <2>5. ASSUME NEW k \in 1 .. Len(tail) PROVE tail[k] = old[end + k]
    <3>1. k \in 1 .. l - (end + 1) + 1 /\ (end + 1) + k - 1 = end + k
      BY ONLY <1>1, <2>4, k \in 1 .. Len(tail)
    <3> QED BY <2>3, <3>1
  <2> QED BY <2>3, <2>4, <2>5
<1>4. Len(tail) = IF end < l THEN l - end ELSE 0 BY <1>3
<1>5. \A k \in 1 .. Len(tail) : tail[k] = old[end + k] BY <1>3
<1>x. PICK x : x = head \o buf OBVIOUS
<1>6. /\ x \in Seq(S) /\ Len(x) = end
      /\ \A k \in 1 .. end : x[k] = IF k <= at THEN old[k] ELSE buf[k - at]
  <2>0. buf \in Seq(S) OBVIOUS
  <2>1. /\ x \in Seq(S) /\ Len(x) = Len(head) + Len(buf)
        /\ \A k \in 1 .. Len(head) + Len(buf) :
              x[k] = IF k <= Len(head) THEN head[k] ELSE buf[k - Len(head)]
    BY ONLY <1>2, <1>x, <2>0, ConcatProperties
  <2>2. \A k \in 1 .. end : k <= at => k \in 1 .. at BY <1>1
  <2> QED BY ONLY <1>1, <1>2, <1>b, <2>1, <2>2
<1>y. PICK y : y = x \o tail OBVIOUS
<1>7. /\ y \in Seq(S) /\ Len(y) = size
      /\ \A k \in 1 .. size : y[k] = IF k <= end THEN x[k] ELSE tail[k - end]
  <2>1. /\ y \in Seq(S) /\ Len(y) = Len(x) + Len(tail)
        /\ \A k \in 1 .. Len(x) + Len(tail) :
              y[k] = IF k <= Len(x) THEN x[k] ELSE tail[k - Len(x)]
    BY ONLY <1>3, <1>6, <1>y, ConcatProperties
  <2>2. Len(x) + Len(tail) = size
    <3>1. Len(x) = end /\ size = IF end > l THEN end ELSE l BY <1>6, <1>l, <1>s
    <3> QED BY ONLY <1>1, <1>4, <3>1
  <2>3. Len(x) = end BY <1>6
  <2> QED BY ONLY <2>1, <2>2, <2>3
<1>8. \A k \in 1 .. size : y[k] = IF k <= end THEN x[k] ELSE tail[k - end] BY <1>7
<1>9. ASSUME NEW k \in 1 .. size PROVE new[k] = y[k]
  <2>0. size \in Nat BY <1>1, <1>l, <1>s
  <2>1. CASE k <= at
    <3>1. k \in 1 .. end /\ y[k] = old[k] BY <1>1, <1>6, <1>8, <2>0, <2>1
    <3>2. k - at \notin 1 .. b /\ k <= l BY <1>1, <2>0, <2>1
    <3> QED BY <1>0, <1>b, <1>l, <3>1, <3>2
  <2>2. CASE k > at /\ k <= end
    <3>1. k \in 1 .. end /\ y[k] = buf[k - at] BY <1>1, <1>6, <1>8, <2>0, <2>2
    <3>2. k - at \in 1 .. b BY <1>1, <2>0, <2>2
    <3> QED BY <1>0, <1>b, <3>1, <3>2
  <2>3. CASE k > end
    <3>1. end < l /\ size = l BY <1>1, <1>l, <1>s, <2>0, <2>3
    <3>2. k - end \in 1 .. Len(tail) /\ end + (k - end) = k
      BY ONLY <1>1, <1>4, <2>0, <2>3, <3>1, k \in 1 .. size
    <3>3. y[k] = old[k]
      <4>1. y[k] = tail[k - end] BY ONLY <1>1, <1>8, <2>0, <2>3, k \in 1 .. size
      <4>2. tail[k - end] = old[end + (k - end)] BY ONLY <1>5, <3>2
      <4> QED BY ONLY <3>2, <4>1, <4>2
    <3>4. k - at \notin 1 .. b /\ k <= l BY <1>1, <2>0, <2>3, <3>1
    <3> QED BY <1>0, <1>b, <1>l, <3>3, <3>4
  <2>4. k \in Int BY <2>0
  <2>5. k <= at \/ (k > at /\ k <= end) \/ k > end BY ONLY <1>1, <2>4
  <2> QED BY <2>1, <2>2, <2>3, <2>5
<1>10. new = y BY <1>0, <1>7, <1>9
<1> QED BY <1>10, <1>e, <1>h, <1>l, <1>t, <1>x, <1>y

LEMMA WriteOutIs ==
  ASSUME GoodStep, NEW fd \in FDs, NEW buf \in Buffers, CanWrite(fd, buf),
         NEW i, NEW o, OpenOn(fd, i, o), NEW old, old = FileEntries[o],
         NEW first \in Blocks, WriteOut(fd, buf, disk'.blk, first),
         old.first_block # SFS_EMPTY_FILE_BLOCK => first = old.first_block,
         LiveKept({})
  PROVE  Api!Next
<1>0. Good /\ Pictured BY DEF GoodStep
<1>p. PICK p : p = openFileDescTable[fd].currPos OBVIOUS
<1>n. PICK end : end = p + Len(buf) OBVIOUS
<1>e. PICK e : e = [old EXCEPT !.first_block = first,
                               !.size = IF end > old.size THEN end ELSE old.size]
  OBVIOUS
<1>1. /\ i = openFileDescTable[fd].fileEntry /\ old = DiskEntry(i)
      /\ p \in Nat /\ p <= old.size /\ o \in FileOwners /\ Live(o)
  BY <1>p DEF OpenOn
<1>2. FileFacts(o, old) BY <1>0, <1>1, LiveFile
<1>m. PICK n : n = allocatedBlocksForFile(old) OBVIOUS
<1>3. /\ old \in Entry /\ Occupied(old) /\ SizedRight(old) /\ old.size \in Nat
      /\ n \in Nat /\ old.size <= n * BLOCK_DATA_SIZE
  BY <1>2, <1>m DEF FileFacts
<1>4. buf \in Seq(Bytes) /\ Len(buf) \in Nat OBVIOUS
<1>5. end \in Nat /\ p <= end /\ end <= SFS_MAX_FILE_SIZE
  <2>1. Len(buf) <= SFS_MAX_FILE_SIZE - p BY <1>p DEF CanWrite
  <2> PICK l : l = Len(buf) OBVIOUS
  <2>2. SFS_MAX_FILE_SIZE \in Nat OBVIOUS
  <2>3. l \in Nat /\ l <= SFS_MAX_FILE_SIZE - p /\ end = p + l BY <1>4, <1>n, <2>1
  <2> QED BY ONLY <1>1, <2>2, <2>3
<1>6. /\ data' = StoreBytes(disk'.blk, first, p, buf)
      /\ openFileDescTable' = [openFileDescTable EXCEPT ![fd].currPos = end]
      /\ SetDiskEntry(i, e)
  BY <1>1, <1>n, <1>p, <1>e DEF WriteOut
<1>7. /\ e \in Entry /\ e.first_block = first /\ e.name = old.name
      /\ e.size = IF end > old.size THEN end ELSE old.size
  <2>1. first \in BlockId BY BlockIds
  <2> QED BY <1>3, <1>5, <1>e, <2>1 DEF Entry
<1>8. Occupied(e)
  <2>1. first # 0 BY DEF Blocks
  <2> QED BY <1>7, <2>1 DEF Occupied
<1>9. pos' = [pos EXCEPT ![fd] = end] /\ SameDescriptors BY <1>5, <1>6, Moved
<1>10. LiveKept({o}) /\ BlocksKept(disk.blk, disk'.blk, old.first_block, n)
  <2>1. FileKept(disk.blk, disk'.blk, old) BY <1>1 DEF LiveKept
  <2> QED BY <1>m, <2>1 DEF LiveKept, FileKept
<1>11. old.size # 0 => e.first_block = old.first_block BY <1>3, <1>7 DEF SizedRight
<1>12. Stores(fd, i, o, e, p, buf, old.size, n)
  BY <1>1, <1>3, <1>4, <1>6, <1>7, <1>8, <1>9, <1>10, <1>11 DEF Stores
<1>x. PICK x : x = FileAt(o).bytes OBVIOUS
<1>y. PICK y : y = FileAt(o)'.bytes OBVIOUS
<1>13. /\ Api!SetFile(fd, FileAt(o)')
       /\ FileAt(o)' = [FileAt(o) EXCEPT !.bytes = y]
       /\ x \in Seq(Bytes) /\ Len(x) = old.size
       /\ y \in Seq(Bytes) /\ Len(y) = e.size
       /\ \A k \in 1 .. e.size :
              /\ k - p \in 1 .. Len(buf) => y[k] = buf[k - p]
              /\ k - p \notin 1 .. Len(buf) /\ k <= old.size => y[k] = x[k]
  <2>1. /\ Api!SetFile(fd, FileAt(o)')
        /\ FileAt(o)' = [FileAt(o) EXCEPT !.bytes = FileAt(o)'.bytes]
        /\ Len(FileAt(o).bytes) = FileEntries[o].size
        /\ FileAt(o).bytes \in Seq(Bytes)
        /\ FileAt(o)'.bytes \in Seq(Bytes) /\ Len(FileAt(o)'.bytes) = e.size
        /\ \A k \in 1 .. e.size :
              /\ k - p \in 1 .. Len(buf) => FileAt(o)'.bytes[k] = buf[k - p]
              /\ k - p \notin 1 .. Len(buf) /\ k <= old.size
                      => FileAt(o)'.bytes[k] = FileAt(o).bytes[k]
    <3>h. PICK held : held = old.size OBVIOUS
    <3>1. GoodStep /\ Stores(fd, i, o, e, p, buf, held, n) BY <1>12, <3>h
    <3>2. /\ Api!SetFile(fd, FileAt(o)')
          /\ FileAt(o)' = [FileAt(o) EXCEPT !.bytes = FileAt(o)'.bytes]
          /\ e.size \in Nat /\ Len(FileAt(o).bytes) = FileEntries[o].size
          /\ FileAt(o).bytes \in Seq(Bytes)
          /\ FileAt(o)'.bytes \in Seq(Bytes) /\ Len(FileAt(o)'.bytes) = e.size
          /\ FileAt(o)'.bytes = [k \in 1 .. e.size |-> FileAt(o)'.bytes[k]]
          /\ \A k \in 1 .. e.size :
                /\ k - p \in 1 .. Len(buf) => FileAt(o)'.bytes[k] = buf[k - p]
                /\ k - p \notin 1 .. Len(buf) /\ k <= held
                        => FileAt(o)'.bytes[k] = FileAt(o).bytes[k]
      BY ONLY <3>1, StoreSeen
    <3> QED BY <3>2, <3>h
  <2> QED BY <2>1, <1>x, <1>y
<1>14. y = SubSeq(x, 1, p) \o buf \o SubSeq(x, end + 1, Len(x))
  <2>s. PICK size : size = e.size OBVIOUS
  <2>l. Len(x) = old.size BY <1>13
  <2>1. x \in Seq(Bytes) /\ buf \in Seq(Bytes) /\ p \in Nat /\ p <= Len(x) /\ end = p + Len(buf)
    BY <1>1, <1>4, <1>13, <1>n
  <2>2. /\ size = IF end > Len(x) THEN end ELSE Len(x)
        /\ y \in Seq(Bytes) /\ Len(y) = size
        /\ \A k \in 1 .. size :
              /\ k - p \in 1 .. Len(buf) => y[k] = buf[k - p]
              /\ k - p \notin 1 .. Len(buf) /\ k <= Len(x) => y[k] = x[k]
    BY <1>7, <1>13, <2>s, <2>l
  <2>3. SplicedAt(x, p, buf, y) BY <1>n, <2>2 DEF SplicedAt
  <2>4. y \in Seq(Bytes) BY <2>2
  <2>5. y = SubSeq(x, 1, p) \o buf \o SubSeq(x, (p + Len(buf)) + 1, Len(x))
    BY <2>1, <2>3, <2>4, Spliced
  <2> QED BY <1>n, <2>5
<1>15. pos[fd] = p BY <1>0, <1>p, ApiFileOf
<1>16. Api!Write(fd, FileAt(o), buf)
  BY <1>5, <1>9, <1>13, <1>14, <1>15, <1>n, <1>x DEF Api!Write
<1> QED BY <1>16, ApiCall

LEMMA WriteInPlaceIs ==
  ASSUME GoodStep, NEW fd \in FDs, NEW buf \in Buffers, WriteInPlace(fd, buf)
  PROVE  Api!Next
<1>0. Good /\ IInv BY DEF GoodStep, Good
<1>1. CanWrite(fd, buf) /\ openFileDescTable[fd] # NULL BY DEF WriteInPlace, CanWrite
<1>2. PICK i, o : OpenOn(fd, i, o) BY <1>0, <1>1, OpenDescriptor
<1>e. PICK old : old = FileEntries[o] OBVIOUS
<1>n. PICK end : end = openFileDescTable[fd].currPos + Len(buf) OBVIOUS
<1>3. /\ i = openFileDescTable[fd].fileEntry /\ old = DiskEntry(i)
      /\ openFileDescTable[fd].currPos \in Nat /\ o \in FileOwners /\ Live(o)
  BY <1>2, <1>e DEF OpenOn
<1>4. /\ disk' = disk /\ end <= allocatedBlocksForFile(old) * BLOCK_DATA_SIZE
      /\ WriteOut(fd, buf, disk.blk, old.first_block)
  BY <1>3, <1>n DEF WriteInPlace
<1>5. old \in Entry /\ Occupied(old) BY <1>0, <1>3, <1>e, LiveFile DEF FileFacts
<1>6. end \in Nat /\ end # 0
  <2>1. Len(buf) \in Nat /\ Len(buf) # 0 BY <1>1 DEF CanWrite
  <2> QED BY <1>3, <1>n, <2>1
<1>7. old.first_block \in Blocks
  <2>1. old.first_block # SFS_EMPTY_FILE_BLOCK
    <3>1. SUFFICES ASSUME old.first_block = SFS_EMPTY_FILE_BLOCK PROVE FALSE OBVIOUS
    <3>2. allocatedBlocksForFile(old) = 0 BY <3>1 DEF allocatedBlocksForFile
    <3>3. 0 * BLOCK_DATA_SIZE = 0 OBVIOUS
    <3> QED BY <1>4, <1>6, <3>2, <3>3
  <2> QED BY <1>5, <2>1 DEF Entry, Occupied, BlockId, Blocks
<1>8. LiveKept({}) BY <1>4, SameLiveKept
<1> QED BY <1>1, <1>2, <1>4, <1>7, <1>8, <1>e, WriteOutIs

LEMMA WriteGrowIs ==
  ASSUME GoodStep, NEW fd \in FDs, NEW buf \in Buffers, WriteGrow(fd, buf)
  PROVE  Api!Next
<1>0. Good /\ IInv /\ TypeOK /\ Structure BY DEF GoodStep, Good, IInv
<1>1. CanWrite(fd, buf) /\ openFileDescTable[fd] # NULL BY DEF WriteGrow, CanWrite
<1>2. PICK i, o : OpenOn(fd, i, o) BY <1>0, <1>1, OpenDescriptor
<1>e. PICK old : old = FileEntries[o] OBVIOUS
<1>n. PICK end : end = openFileDescTable[fd].currPos + Len(buf) OBVIOUS
<1>h. PICK have : have = allocatedBlocksForFile(old) OBVIOUS
<1>x. PICK extra : extra = (roundUp(end, BLOCK_DATA_SIZE) - have * BLOCK_DATA_SIZE)
                              \div BLOCK_DATA_SIZE
  OBVIOUS
<1>3. /\ i = openFileDescTable[fd].fileEntry /\ old = DiskEntry(i)
      /\ i \in FDs /\ openFileTable[i] # NULL
      /\ openFileDescTable[fd].currPos \in Nat /\ o \in FileOwners /\ Live(o)
  BY <1>2, <1>e DEF OpenOn
<1>4. PICK new \in LastToAllocate(disk, extra), tail \in FileTail(old) :
            /\ disk' = GrownDisk(old, new, tail) /\ end > have * BLOCK_DATA_SIZE
            /\ WriteOut(fd, buf, disk'.blk, GrownFirst(old))
  BY <1>3, <1>n, <1>h, <1>x DEF WriteGrow
<1>5. old \in Entry /\ Occupied(old) /\ have \in Nat
  BY <1>0, <1>3, <1>e, <1>h, LiveFile DEF FileFacts
<1>6. end \in Nat
  <2>1. Len(buf) \in Nat OBVIOUS
  <2> QED BY <1>3, <1>n, <2>1
<1>7. extra \in Nat BY <1>4, <1>5, <1>6, <1>x, ExtraBlocks
<1>8. GrownFirst(old) \in Blocks BY <1>0, <1>4, <1>5, GrownDiskType
<1>9. LinksKept(disk.blk, disk'.blk) BY <1>0, <1>3, <1>4, <1>7, GrownKept
<1>10. LiveKept({}) BY <1>0, <1>9, LinkedLiveKept
<1>11. old.first_block # SFS_EMPTY_FILE_BLOCK => GrownFirst(old) = old.first_block
  BY DEF GrownFirst
<1> QED BY <1>1, <1>2, <1>4, <1>8, <1>10, <1>11, <1>e, WriteOutIs

(* A call that cuts a file or lets it grow by zeros. *)
Truncates(fd, i, o, length, e, held, bytes, n) ==
    /\ OpenOn(fd, i, o) /\ length \in Lengths /\ length <= SFS_MAX_FILE_SIZE
    /\ Stores(fd, i, o, e, held, bytes, held, n) /\ e.size = length
    /\ held = IF length < FileEntries[o].size THEN length ELSE FileEntries[o].size
    /\ \A k \in 1 .. Len(bytes) : bytes[k] = 0
    /\ length <= held + Len(bytes)
    /\ pos' = [d \in FDs |-> IF d \in FdsOf(o) /\ pos[d] > length THEN length ELSE pos[d]]

LEMMA TruncateSeen ==
  ASSUME GoodStep, NEW fd, NEW i, NEW o, NEW length, NEW e, NEW held, NEW bytes, NEW n,
         Truncates(fd, i, o, length, e, held, bytes, n)
  PROVE  Api!Next
<1>1. /\ OpenOn(fd, i, o) /\ length \in Lengths /\ length <= SFS_MAX_FILE_SIZE
      /\ Stores(fd, i, o, e, held, bytes, held, n) /\ e.size = length
      /\ held = IF length < FileEntries[o].size THEN length ELSE FileEntries[o].size
      /\ \A k \in 1 .. Len(bytes) : bytes[k] = 0
      /\ length <= held + Len(bytes)
      /\ pos' = [d \in FDs |-> IF d \in FdsOf(o) /\ pos[d] > length THEN length ELSE pos[d]]
  BY DEF Truncates
<1>x. PICK x : x = FileAt(o).bytes OBVIOUS
<1>y. PICK y : y = FileAt(o)'.bytes OBVIOUS
<1>s. PICK size : size = FileEntries[o].size OBVIOUS
<1>2. GoodStep /\ Stores(fd, i, o, e, held, bytes, held, n) BY <1>1
<1>3. /\ Api!SetFile(fd, FileAt(o)')
      /\ FileAt(o)' = [FileAt(o) EXCEPT !.bytes = FileAt(o)'.bytes]
      /\ e.size \in Nat /\ Len(FileAt(o).bytes) = FileEntries[o].size
      /\ FileAt(o).bytes \in Seq(Bytes)
      /\ FileAt(o)'.bytes \in Seq(Bytes) /\ Len(FileAt(o)'.bytes) = e.size
      /\ FileAt(o)'.bytes = [k \in 1 .. e.size |-> FileAt(o)'.bytes[k]]
      /\ \A k \in 1 .. e.size :
            /\ k - held \in 1 .. Len(bytes) => FileAt(o)'.bytes[k] = bytes[k - held]
            /\ k - held \notin 1 .. Len(bytes) /\ k <= held
                    => FileAt(o)'.bytes[k] = FileAt(o).bytes[k]
  BY ONLY <1>2, StoreSeen
<1>4. /\ x \in Seq(Bytes) /\ Len(x) = size /\ y = [k \in 1 .. length |-> y[k]]
      /\ \A k \in 1 .. length :
            /\ k - held \in 1 .. Len(bytes) => y[k] = bytes[k - held]
            /\ k - held \notin 1 .. Len(bytes) /\ k <= held => y[k] = x[k]
  BY <1>1, <1>3, <1>x, <1>y, <1>s
<1>b. PICK b : b = Len(bytes) OBVIOUS
<1>5. /\ length \in Nat /\ size \in Nat /\ b \in Nat
      /\ held = IF length < size THEN length ELSE size
      /\ length <= held + b
  <2>1. bytes \in Seq(Bytes) BY <1>1 DEF Stores
  <2>2. length \in Nat BY <1>1
  <2> QED BY <1>1, <1>4, <1>b, <1>s, <2>1, <2>2
<1>6. ASSUME NEW k \in 1 .. length
      PROVE  y[k] = IF k <= Len(x) THEN x[k] ELSE 0
  <2>0. k \in Nat BY <1>5
  <2>1. CASE k <= held
    <3>1. k - held \notin 1 .. b /\ k <= size BY ONLY <1>5, <2>0, <2>1
    <3> QED BY <1>4, <1>b, <2>1, <3>1
  <2>2. CASE ~ (k <= held)
    <3>1. k - held \in 1 .. b BY ONLY <1>5, <2>0, <2>2, k \in 1 .. length
    <3>2. ~ (k <= size) BY ONLY <1>5, <2>0, <2>2, k \in 1 .. length
    <3> QED BY <1>1, <1>4, <1>b, <3>1, <3>2
  <2> QED BY <2>1, <2>2
<1>7. y = [k \in 1 .. length |-> IF k <= Len(x) THEN x[k] ELSE 0] BY <1>4, <1>6
<1>8. FileAt(o).fds = FdsOf(o) BY DEF FileAt
<1>9. Api!SetFile(fd, [FileAt(o) EXCEPT !.bytes = y]) BY <1>3, <1>y
<1>10. Api!Truncate(fd, FileAt(o), length) BY <1>1, <1>7, <1>8, <1>9, <1>x DEF Api!Truncate
<1> QED BY <1>1, <1>10, ApiCall

(* The bytes that a grown or a cut file gets. *)
LEMMA ZerosAre ==
  ASSUME NEW begin \in Nat, NEW end \in Int
  PROVE  /\ Zeros(begin, end) \in Seq(Bytes)
         /\ Len(Zeros(begin, end)) = IF begin <= end THEN end - begin ELSE 0
         /\ \A k \in 1 .. Len(Zeros(begin, end)) : Zeros(begin, end)[k] = 0
<1>n. PICK n : n = end - begin OBVIOUS
<1>1. Zeros(begin, end) = [k \in 1 .. n |-> 0] BY <1>n DEF Zeros
<1>2. CASE begin <= end
  <2>1. n \in Nat BY <1>2, <1>n
  <2> QED BY <1>1, <1>2, <1>n, <2>1
<1>3. CASE ~ (begin <= end)
  <2>1. 1 .. n = {} /\ 1 .. n = 1 .. 0 BY <1>3, <1>n
  <2>2. Zeros(begin, end) = [k \in 1 .. 0 |-> 0] BY <1>1, <2>1
  <2> QED BY <1>3, <2>2
<1> QED BY <1>2, <1>3

LEMMA FilePositions ==
  ASSUME Good, Pictured, NEW o, NEW d \in FdsOf(o)
  PROVE  /\ d \in FDs /\ openFileDescTable[d] # NULL
         /\ pos[d] = openFileDescTable[d].currPos
         /\ pos[d] \in Nat /\ pos[d] <= FileEntries[o].size
<1>1. d \in FDs /\ openFileDescTable[d] # NULL /\ o = OwnerOf(openFileDescTable[d].fileEntry)
  BY DEF FdsOf
<1>2. PICK j, q : OpenOn(d, j, q) BY <1>1, OpenDescriptor
<1>3. q = o BY <1>1, <1>2 DEF OpenOn
<1>4. pos[d] = openFileDescTable[d].currPos BY <1>2, ApiFileOf
<1> QED BY <1>1, <1>2, <1>3, <1>4 DEF OpenOn

LEMMA TruncateGrowIs ==
  ASSUME GoodStep, NEW fd \in FDs, NEW length \in Lengths, TruncateGrow(fd, length)
  PROVE  Api!Next
<1>0. Good /\ Pictured /\ Pictured' /\ IInv /\ TypeOK /\ Structure BY DEF GoodStep, Good, IInv
<1>1. openFileDescTable[fd] # NULL BY DEF TruncateGrow
<1>2. PICK i, o : OpenOn(fd, i, o) BY <1>0, <1>1, OpenDescriptor
<1>e. PICK old : old = FileEntries[o] OBVIOUS
<1>h. PICK have : have = allocatedBlocksForFile(old) OBVIOUS
<1>x. PICK extra : extra = blocksForFileSize(length) - have OBVIOUS
<1>3. /\ i = openFileDescTable[fd].fileEntry /\ old = DiskEntry(i)
      /\ i \in FDs /\ openFileTable[i] # NULL /\ o \in FileOwners /\ Live(o)
  BY <1>2, <1>e DEF OpenOn
<1>4. /\ old \in Entry /\ Occupied(old) /\ SizedRight(old) /\ old.size \in Nat
      /\ have \in Nat /\ old.size <= have * BLOCK_DATA_SIZE
  BY <1>0, <1>3, <1>e, <1>h, LiveFile DEF FileFacts
<1>5. /\ length <= SFS_MAX_FILE_SIZE /\ length > old.size /\ length \in Nat
      /\ openFileDescTable' = openFileDescTable
  BY <1>3 DEF TruncateGrow
<1>6. blocksForFileSize(length) \in Nat BY <1>5, BlockCount
<1>7. PICK first \in Blocks \cup {SFS_EMPTY_FILE_BLOCK} :
        /\ LiveKept({})
        /\ old.first_block # SFS_EMPTY_FILE_BLOCK => first = old.first_block
        /\ data' = StoreBytes(disk'.blk, first, old.size, Zeros(old.size, length))
        /\ SetDiskEntry(i, [old EXCEPT !.first_block = first, !.size = length])
  <2>1. CASE \E new \in LastToAllocate(disk, extra), tail \in FileTail(old) :
                /\ extra > 0 /\ disk' = GrownDisk(old, new, tail)
                /\ data' = StoreBytes(disk'.blk, GrownFirst(old), old.size, Zeros(old.size, length))
                /\ SetDiskEntry(i, [old EXCEPT !.first_block = GrownFirst(old), !.size = length])
    <3>1. PICK new \in LastToAllocate(disk, extra), tail \in FileTail(old) :
                /\ extra > 0 /\ disk' = GrownDisk(old, new, tail)
                /\ data' = StoreBytes(disk'.blk, GrownFirst(old), old.size, Zeros(old.size, length))
                /\ SetDiskEntry(i, [old EXCEPT !.first_block = GrownFirst(old), !.size = length])
      BY <2>1
    <3>2. GrownFirst(old) \in Blocks BY <1>0, <1>4, <3>1, GrownDiskType
    <3>3. extra \in Nat BY ONLY <1>4, <1>6, <1>x, <3>1
    <3>4. LinksKept(disk.blk, disk'.blk) BY <1>0, <1>3, <3>1, <3>3, GrownKept
    <3>5. LiveKept({}) BY <1>0, <3>4, LinkedLiveKept
    <3> QED BY <3>1, <3>2, <3>5 DEF GrownFirst
  <2>2. CASE /\ disk' = disk
             /\ data' = StoreBytes(disk'.blk, old.first_block, old.size, Zeros(old.size, length))
             /\ SetDiskEntry(i, [old EXCEPT !.first_block = old.first_block, !.size = length])
    <3>1. old.first_block \in Blocks \cup {SFS_EMPTY_FILE_BLOCK}
      BY <1>4 DEF Entry, Occupied, BlockId, Blocks
    <3>2. LiveKept({}) BY <2>2, SameLiveKept
    <3> QED BY <2>2, <3>1, <3>2
  <2> QED BY <1>3, <1>h, <1>x, <2>1, <2>2 DEF TruncateGrow
<1>n. PICK e : e = [old EXCEPT !.first_block = first, !.size = length] OBVIOUS
<1>z. PICK bytes : bytes = Zeros(old.size, length) OBVIOUS
<1>8. /\ e \in Entry /\ Occupied(e) /\ e.name = old.name /\ e.size = length
      /\ e.first_block = first
  <2>1. first \in BlockId \cup {SFS_EMPTY_FILE_BLOCK} /\ first # 0
    BY <1>7, BlockIds DEF Blocks
  <2> QED BY <1>4, <1>5, <1>n, <2>1 DEF Entry, Occupied
<1>9. /\ bytes \in Seq(Bytes) /\ Len(bytes) = length - old.size
      /\ \A k \in 1 .. Len(bytes) : bytes[k] = 0
  <2>1. length \in Int /\ old.size <= length BY <1>4, <1>5
  <2> QED BY <1>4, <1>z, <2>1, ZerosAre
<1>10. LiveKept({o}) /\ BlocksKept(disk.blk, disk'.blk, old.first_block, have)
  <2>1. FileKept(disk.blk, disk'.blk, old) BY <1>3, <1>7, <1>e DEF LiveKept
  <2> QED BY <1>7, <1>h, <2>1 DEF LiveKept, FileKept
<1>11. old.size # 0 => e.first_block = old.first_block BY <1>4, <1>7, <1>8 DEF SizedRight
<1>12. SameDescriptors BY <1>5 DEF SameDescriptors
<1>13. Stores(fd, i, o, e, old.size, bytes, old.size, have)
  <2>1. data' = StoreBytes(disk'.blk, e.first_block, old.size, bytes) /\ SetDiskEntry(i, e)
    BY <1>7, <1>8, <1>n, <1>z
  <2>2. old.size <= old.size BY <1>4
  <2> QED BY <1>2, <1>4, <1>8, <1>9, <1>10, <1>11, <1>12, <1>e, <2>1, <2>2 DEF Stores
<1>14. pos' = [d \in FDs |-> IF d \in FdsOf(o) /\ pos[d] > length THEN length ELSE pos[d]]
  <2>1. pos' = pos BY <1>0, <1>5 DEF Pictured, PosImage
  <2>2. pos = [d \in FDs |-> pos[d]] BY <1>0 DEF Pictured, PosImage
  <2>3. ASSUME NEW d \in FdsOf(o) PROVE ~ (pos[d] > length)
    <3>1. pos[d] \in Nat /\ pos[d] <= old.size BY <1>0, <1>e, FilePositions
    <3> QED BY <1>4, <1>5, <3>1
  <2>4. \A d \in FDs : pos[d] = IF d \in FdsOf(o) /\ pos[d] > length THEN length ELSE pos[d]
    BY <2>3
  <2> QED BY <2>1, <2>2, <2>4
<1>15. length <= old.size + Len(bytes) /\ ~ (length < old.size) BY <1>4, <1>5, <1>9
<1>16. Truncates(fd, i, o, length, e, old.size, bytes, have)
  BY <1>2, <1>5, <1>8, <1>9, <1>13, <1>14, <1>15, <1>e DEF Truncates
<1> QED BY <1>16, TruncateSeen

\* No file is larger than the largest file.
SizesBounded ==
    /\ \A s \in Slots : files[s].size <= SFS_MAX_FILE_SIZE
    /\ \A i \in FDs : openFileTable[i] # NULL =>
        openFileTable[i].unlinkedFile.size <= SFS_MAX_FILE_SIZE

LEMMA TruncateShrinkIs ==
  ASSUME GoodStep, SizesBounded, NEW fd \in FDs, NEW length \in Lengths, TruncateShrink(fd, length)
  PROVE  Api!Next
<1>0. Good /\ Pictured /\ Pictured' /\ IInv /\ TypeOK /\ Structure BY DEF GoodStep, Good, IInv
<1>1. openFileDescTable[fd] # NULL BY DEF TruncateShrink
<1>2. PICK i, o : OpenOn(fd, i, o) BY <1>0, <1>1, OpenDescriptor
<1>e. PICK old : old = FileEntries[o] OBVIOUS
<1>h. PICK have : have = allocatedBlocksForFile(old) OBVIOUS
<1>k. PICK k : k = blocksForFileSize(length) OBVIOUS
<1>n. PICK e : e = [old EXCEPT !.first_block = IF k = 0 THEN SFS_EMPTY_FILE_BLOCK
                                               ELSE old.first_block,
                               !.size = length]
  OBVIOUS
<1>z. PICK bytes : bytes = Zeros(length, k * BLOCK_DATA_SIZE) OBVIOUS
<1>3. /\ i = openFileDescTable[fd].fileEntry /\ old = DiskEntry(i)
      /\ i \in FDs /\ openFileTable[i] # NULL /\ o \in FileOwners /\ Live(o) /\ o = OwnerOf(i)
  BY <1>2, <1>e DEF OpenOn
<1>4. /\ old \in Entry /\ Occupied(old) /\ SizedRight(old) /\ old.size \in Nat
      /\ have \in Nat /\ old.size <= have * BLOCK_DATA_SIZE
  BY <1>0, <1>3, <1>e, <1>h, LiveFile DEF FileFacts
<1>5. /\ length < old.size /\ length \in Nat
      /\ IF k < have
         THEN \E first \in fileBlockAt(disk.blk, old.first_block, k),
                 last \in LastOf(disk.blk, old.first_block) :
                    disk' = AfterFree(disk, first, last)
         ELSE disk' = disk
      /\ data' = StoreBytes(disk'.blk, old.first_block, length, bytes)
      /\ SetDiskEntry(i, e)
      /\ openFileDescTable' = [d \in FDs |->
            IF /\ openFileDescTable[d] # NULL
               /\ openFileDescTable[d].fileEntry = i
               /\ openFileDescTable[d].currPos > length
            THEN [openFileDescTable[d] EXCEPT !.currPos = length]
            ELSE openFileDescTable[d]]
  BY <1>3, <1>h, <1>k, <1>n, <1>z DEF TruncateShrink
<1>6. k \in Nat /\ (k = 0 <=> length = 0) /\ length <= k * BLOCK_DATA_SIZE
  BY <1>5, <1>k, BlockCount
<1>7. length <= SFS_MAX_FILE_SIZE
  <2>1. old.size <= SFS_MAX_FILE_SIZE
    BY <1>0, <1>3 DEF SizesBounded, DiskEntry, TypeOK, OpenFile
  <2>2. SFS_MAX_FILE_SIZE \in Nat OBVIOUS
  <2> QED BY <1>4, <1>5, <2>1, <2>2
<1>8. /\ e \in Entry /\ Occupied(e) /\ e.name = old.name /\ e.size = length
      /\ k # 0 => e.first_block = old.first_block
  <2>1. SFS_EMPTY_FILE_BLOCK # 0 /\ SFS_EMPTY_FILE_BLOCK \in BlockId \cup {SFS_EMPTY_FILE_BLOCK}
    BY BlockIds
  <2> QED BY <1>4, <1>5, <1>n, <2>1 DEF Entry, Occupied
<1>v. PICK v : v = k * BLOCK_DATA_SIZE OBVIOUS
<1>9. v \in Nat /\ length <= v /\ (k = 0 => v = 0) BY <1>6, <1>v
<1>10. /\ bytes \in Seq(Bytes) /\ Len(bytes) = v - length
       /\ \A j \in 1 .. Len(bytes) : bytes[j] = 0
  <2>1. v \in Int /\ bytes = Zeros(length, v) BY <1>9, <1>v, <1>z
  <2> QED BY <1>5, <1>9, <2>1, ZerosAre
<1>11. data' = StoreBytes(disk'.blk, e.first_block, length, bytes)
  <2>1. CASE k # 0 BY <1>5, <1>8, <2>1
  <2>2. CASE k = 0
    <3>1. Len(bytes) = 0 BY <1>5, <1>6, <1>9, <1>10, <2>2
    <3>2. DOMAIN bytes = {} BY <1>10, <3>1
    <3>b. PICK blk : blk = disk'.blk OBVIOUS
    <3>3. \A first : StoreBytes(blk, first, length, bytes) = data
      BY <1>0, <3>2, NothingStored
    <3> QED BY <1>5, <3>3, <3>b
  <2> QED BY <2>1, <2>2
<1>12. LiveKept({o}) /\ BlocksKept(disk.blk, disk'.blk, old.first_block, k)
  <2>1. CASE k < have
    <3>1. PICK first \in fileBlockAt(disk.blk, old.first_block, k),
               last \in LastOf(disk.blk, old.first_block) :
                  disk' = AfterFree(disk, first, last)
      BY <1>5, <2>1
    <3> QED BY <1>0, <1>3, <1>6, <1>e, <1>h, <2>1, <3>1, FreedLiveKept
  <2>2. CASE ~ (k < have)
    <3>1. disk' = disk BY <1>5, <2>2
    <3>2. LiveKept({}) BY <3>1, SameLiveKept
    <3>3. BlocksKept(disk.blk, disk'.blk, old.first_block, k) BY <3>1 DEF BlocksKept
    <3> QED BY <3>2, <3>3 DEF LiveKept
  <2> QED BY <2>1, <2>2
<1>13. \A d \in FDs : openFileDescTable[d] # NULL =>
         /\ openFileDescTable'[d] # NULL
         /\ openFileDescTable'[d].fileEntry = openFileDescTable[d].fileEntry
         /\ openFileDescTable'[d].currPos =
                IF openFileDescTable[d].fileEntry = i /\ openFileDescTable[d].currPos > length
                THEN length ELSE openFileDescTable[d].currPos
  <2> SUFFICES ASSUME NEW d \in FDs, openFileDescTable[d] # NULL
               PROVE  /\ openFileDescTable'[d] # NULL
                      /\ openFileDescTable'[d].fileEntry = openFileDescTable[d].fileEntry
                      /\ openFileDescTable'[d].currPos =
                            IF /\ openFileDescTable[d].fileEntry = i
                               /\ openFileDescTable[d].currPos > length
                            THEN length ELSE openFileDescTable[d].currPos
    OBVIOUS
  <2>c. PICK desc : desc = openFileDescTable[d] OBVIOUS
  <2>1. desc \in Descriptor BY <1>0, <2>c DEF TypeOK
  <2>2. CASE desc.fileEntry = i /\ desc.currPos > length
    <3>1. openFileDescTable'[d] = [desc EXCEPT !.currPos = length] BY <1>5, <2>2, <2>c
    <3>2. [desc EXCEPT !.currPos = length] \in Descriptor BY <1>5, <2>1 DEF Descriptor
    <3>3. [desc EXCEPT !.currPos = length] # NULL BY <3>2, NullAssumption DEF Descriptor
    <3> QED BY <2>1, <2>2, <2>c, <3>1, <3>3 DEF Descriptor
  <2>3. CASE ~ (desc.fileEntry = i /\ desc.currPos > length)
    <3>1. openFileDescTable'[d] = desc BY <1>5, <2>3, <2>c
    <3> QED BY <2>3, <2>c, <3>1
  <2> QED BY <2>2, <2>3
<1>14. \A d \in FDs : openFileDescTable[d] = NULL => openFileDescTable'[d] = NULL BY <1>5
<1>15. SameDescriptors BY <1>13, <1>14 DEF SameDescriptors
<1>16. Stores(fd, i, o, e, length, bytes, length, k)
  <2>1. length <= old.size /\ (length # 0 => e.first_block = old.first_block)
    BY <1>4, <1>5, <1>6, <1>8
  <2> QED BY <1>2, <1>5, <1>6, <1>8, <1>10, <1>11, <1>12, <1>15, <1>e, <2>1 DEF Stores
<1>17. pos' = [d \in FDs |-> IF d \in FdsOf(o) /\ pos[d] > length THEN length ELSE pos[d]]
  <2>1. pos = PosImage /\ pos' = PosImage' BY <1>0 DEF Pictured
  <2>2. ASSUME NEW d \in FDs, openFileDescTable[d] = NULL
        PROVE  pos'[d] = IF d \in FdsOf(o) /\ pos[d] > length THEN length ELSE pos[d]
    <3>1. pos[d] = -1 /\ pos'[d] = -1 BY <1>14, <2>1, <2>2 DEF PosImage
    <3>2. d \notin FdsOf(o) BY <2>2 DEF FdsOf
    <3> QED BY <3>1, <3>2
  <2>3. ASSUME NEW d \in FDs, openFileDescTable[d] # NULL
        PROVE  pos'[d] = IF d \in FdsOf(o) /\ pos[d] > length THEN length ELSE pos[d]
    <3>j. PICK j : j = openFileDescTable[d].fileEntry OBVIOUS
    <3>1. pos[d] = openFileDescTable[d].currPos /\ pos'[d] = openFileDescTable'[d].currPos
      BY <1>13, <2>1, <2>3 DEF PosImage
    <3>2. j \in FDs /\ openFileTable[j] # NULL BY <1>0, <2>3, <3>j, DescriptorFile DEF IInv
    <3>3. j # i => OwnerOf(j) # o
      <4>1. EntriesAre(FileEntries, files, openFileTable) BY <1>0, EntriesArranged
      <4> QED BY <1>0, <1>3, <3>2, <4>1, FileOwner
    <3>4. d \in FdsOf(o) <=> j = i BY <1>3, <2>3, <3>3, <3>j DEF FdsOf
    <3> QED BY <1>13, <2>3, <3>1, <3>4, <3>j
  <2>4. \A d \in FDs : pos'[d] = IF d \in FdsOf(o) /\ pos[d] > length THEN length ELSE pos[d]
    BY <2>2, <2>3
  <2>5. pos' = [d \in FDs |-> pos'[d]] BY <2>1 DEF PosImage
  <2> QED BY <2>4, <2>5
<1>18. length <= length + Len(bytes) /\ length = IF length < old.size THEN length ELSE old.size
  BY <1>4, <1>5, <1>9, <1>10
<1>19. Truncates(fd, i, o, length, e, length, bytes, k)
  BY <1>2, <1>5, <1>7, <1>8, <1>10, <1>16, <1>17, <1>18, <1>e DEF Truncates
<1> QED BY <1>19, TruncateSeen

-----------------------------------------------------------------------------
(* Calls that open, close, remove and rename *)

(* What opening a slot does to the descriptors. *)
LEMMA OpenedFds ==
  ASSUME GoodStep, NEW slot \in Slots, addOpenFileEntry(slot)
  PROVE  \E fd \in FDs :
            /\ openFileDescTable[fd] = NULL /\ pos' = [pos EXCEPT ![fd] = 0]
            /\ FdsOf(slot)' = FdsOf(slot) \cup {fd}
            /\ \A q : q # slot => FdsOf(q)' = FdsOf(q)
            /\ Unlinked' = Unlinked
            /\ \A j \in FDs : OwnEntry(openFileTable'[j]) = OwnEntry(openFileTable[j])
<1>0. Good /\ Pictured /\ Pictured' /\ IInv /\ TypeOK BY DEF GoodStep, Good, IInv
<1>1. PICK fd \in FirstNull(openFileDescTable) :
      \E i \in IF findOpenFile(slot) # {} THEN findOpenFile(slot)
               ELSE FirstNull(openFileTable) :
        /\ openFileTable' = [openFileTable EXCEPT ![i] =
               IF openFileTable[i] # NULL
               THEN [openFileTable[i] EXCEPT !.refCount = @ + 1]
               ELSE [refCount |-> 1, unlinked |-> FALSE, diskFile |-> slot,
                     unlinkedFile |-> UnusedEntry]]
        /\ openFileDescTable' =
               [openFileDescTable EXCEPT ![fd] = [fileEntry |-> i, currPos |-> 0]]
  BY DEF addOpenFileEntry
<1>2. PICK i \in IF findOpenFile(slot) # {} THEN findOpenFile(slot)
                ELSE FirstNull(openFileTable) :
        /\ openFileTable' = [openFileTable EXCEPT ![i] =
               IF openFileTable[i] # NULL
               THEN [openFileTable[i] EXCEPT !.refCount = @ + 1]
               ELSE [refCount |-> 1, unlinked |-> FALSE, diskFile |-> slot,
                     unlinkedFile |-> UnusedEntry]]
        /\ openFileDescTable' =
               [openFileDescTable EXCEPT ![fd] = [fileEntry |-> i, currPos |-> 0]]
  BY <1>1
<1>3. fd \in FDs /\ openFileDescTable[fd] = NULL BY NullSearch
<1>4. /\ i \in FDs
      /\ openFileTable[i] # NULL => openFileTable[i].diskFile = slot
  <2>1. CASE findOpenFile(slot) # {} BY <2>1, OpenFileSearch DEF findOpenFile
  <2>2. CASE findOpenFile(slot) = {}
    <3>1. i \in FirstNull(openFileTable) BY <2>2
    <3> QED BY <3>1, NullSearch
  <2> QED BY <2>1, <2>2
<1>5. openFileTable \in [FDs -> OpenFile \cup {NULL}]
      /\ openFileDescTable \in [FDs -> Descriptor \cup {NULL}]
  BY <1>0 DEF TypeOK
<1>c. PICK desc : desc = [fileEntry |-> i, currPos |-> 0] OBVIOUS
<1>6. desc # NULL /\ desc.fileEntry = i /\ desc.currPos = 0
  BY <1>4, <1>c, NullAssumption
<1>7. openFileDescTable'[fd] = desc
      /\ \A d \in FDs \ {fd} : openFileDescTable'[d] = openFileDescTable[d]
  BY <1>2, <1>3, <1>5, <1>c
<1>8. slot # UnlinkedFile BY BlockIds
<1>9. /\ openFileTable'[i] # NULL /\ openFileTable'[i].diskFile = slot
      /\ \A j \in FDs \ {i} : openFileTable'[j] = openFileTable[j]
  <2>1. CASE openFileTable[i] # NULL
    <3>f. PICK f : f = openFileTable[i] OBVIOUS
    <3>n. PICK new : new = [f EXCEPT !.refCount = @ + 1] OBVIOUS
    <3>1. f \in OpenFile /\ f.diskFile = slot BY <1>4, <1>5, <2>1, <3>f
    <3>2. new \in OpenFile /\ new.diskFile = slot BY ONLY <3>1, <3>n DEF OpenFile
    <3>3. new # NULL BY <3>2, NullAssumption
    <3>4. openFileTable' = [openFileTable EXCEPT ![i] = new] BY <1>2, <2>1, <3>f, <3>n
    <3> QED BY <1>4, <1>5, <3>2, <3>3, <3>4
  <2>2. CASE openFileTable[i] = NULL
    <3>n. PICK new : new = [refCount |-> 1, unlinked |-> FALSE, diskFile |-> slot,
                            unlinkedFile |-> UnusedEntry]
      OBVIOUS
    <3>1. new \in OpenFile /\ new.diskFile = slot
      BY <3>n DEF OpenFile, Entry, UnusedEntry, BlockId
    <3>2. new # NULL BY <3>1, NullAssumption
    <3>3. openFileTable' = [openFileTable EXCEPT ![i] = new] BY <1>2, <2>2, <3>n
    <3> QED BY <1>4, <1>5, <3>1, <3>2, <3>3
  <2> QED BY <2>1, <2>2
<1>10. Unlinked' = Unlinked
  <2>1. \A j \in FDs : j \in Unlinked' <=> j \in Unlinked
    <3> SUFFICES ASSUME NEW j \in FDs PROVE j \in Unlinked' <=> j \in Unlinked OBVIOUS
    <3>1. CASE j = i BY <1>4, <1>8, <1>9, <3>1 DEF Unlinked
    <3>2. CASE j # i BY <1>9, <3>2 DEF Unlinked
    <3> QED BY <3>1, <3>2
  <2> QED BY <2>1 DEF Unlinked
<1>11. OwnerOf(i)' = slot BY <1>8, <1>9 DEF OwnerOf
<1>12. ASSUME NEW j \in FDs, openFileTable[j] # NULL PROVE OwnerOf(j)' = OwnerOf(j)
  <2>1. CASE j = i BY <1>4, <1>8, <1>11, <1>12, <2>1 DEF OwnerOf
  <2>2. CASE j # i BY <1>9, <2>2 DEF OwnerOf
  <2> QED BY <2>1, <2>2
<1>13. ASSUME NEW d \in FDs \ {fd}, NEW q PROVE d \in FdsOf(q)' <=> d \in FdsOf(q)
  <2>1. CASE openFileDescTable[d] = NULL BY <1>7, <2>1 DEF FdsOf
  <2>2. CASE openFileDescTable[d] # NULL
    <3>j. PICK j : j = openFileDescTable[d].fileEntry OBVIOUS
    <3>1. j \in FDs /\ openFileTable[j] # NULL BY <1>0, <2>2, <3>j, DescriptorFile DEF IInv
    <3>2. openFileDescTable'[d] = openFileDescTable[d] BY <1>7
    <3>3. OwnerOf(j)' = OwnerOf(j) BY <1>12, <3>1
    <3>4. d \in FdsOf(q) <=> OwnerOf(j) = q BY <2>2, <3>j DEF FdsOf
    <3>5. d \in FdsOf(q)' <=> OwnerOf(openFileDescTable[d].fileEntry)' = q
      BY <2>2, <3>2 DEF FdsOf
    <3>6. OwnerOf(openFileDescTable[d].fileEntry)' = OwnerOf(j)'
      BY <3>2, <3>j DEF OwnerOf
    <3> QED BY <3>3, <3>4, <3>5, <3>6
  <2> QED BY <2>1, <2>2
<1>14. ASSUME NEW q PROVE fd \notin FdsOf(q) /\ (fd \in FdsOf(q)' <=> q = slot)
  <2>1. fd \notin FdsOf(q) BY <1>3 DEF FdsOf
  <2>2. OwnerOf(openFileDescTable[fd].fileEntry)' = OwnerOf(i)' BY <1>6, <1>7 DEF OwnerOf
  <2>3. fd \in FdsOf(q)' <=> OwnerOf(openFileDescTable[fd].fileEntry)' = q
    BY <1>3, <1>6, <1>7 DEF FdsOf
  <2> QED BY <1>11, <2>1, <2>2, <2>3
<1>15. \A q : FdsOf(q) \subseteq FDs /\ FdsOf(q)' \subseteq FDs BY DEF FdsOf
<1>16. FdsOf(slot)' = FdsOf(slot) \cup {fd} BY <1>3, <1>13, <1>14, <1>15
<1>17. ASSUME NEW q, q # slot PROVE FdsOf(q)' = FdsOf(q)
  <2>1. fd \notin FdsOf(q) /\ fd \notin FdsOf(q)' BY <1>14, <1>17
  <2>2. \A d \in FDs : d \in FdsOf(q)' <=> d \in FdsOf(q) BY <1>13, <2>1
  <2>3. FdsOf(q) \subseteq FDs /\ FdsOf(q)' \subseteq FDs BY <1>15
  <2> QED BY ONLY <2>2, <2>3
<1>18. pos' = [pos EXCEPT ![fd] = 0]
  <2>1. pos = PosImage /\ pos' = PosImage' BY <1>0 DEF Pictured
  <2> QED BY <1>3, <1>6, <1>7, <2>1 DEF PosImage
<1>19. \A j \in FDs : OwnEntry(openFileTable'[j]) = OwnEntry(openFileTable[j])
  BY <1>0, OpenedSame
<1> QED BY <1>3, <1>10, <1>16, <1>17, <1>18, <1>19

LEMMA NoFds ==
  ASSUME Good, NEW o, ~ Live(o)
  PROVE  FdsOf(o) = {}
<1> SUFFICES ASSUME NEW d \in FdsOf(o) PROVE FALSE OBVIOUS
<1>1. d \in FDs /\ openFileDescTable[d] # NULL /\ o = OwnerOf(openFileDescTable[d].fileEntry)
  BY DEF FdsOf
<1>2. PICK j, q : OpenOn(d, j, q) BY <1>1, OpenDescriptor
<1> QED BY <1>1, <1>2 DEF OpenOn

(* Nothing but the entry of one slot, the table of open files and blocks of no file *)
(* changes: what is seen of every other file stays.                                 *)
SlotOnly(slot) ==
    /\ slot \in Slots
    /\ \A s \in Slots \ {slot} : files'[s] = files[s]
    /\ \A j \in FDs : OwnEntry(openFileTable'[j]) = OwnEntry(openFileTable[j])
    /\ LiveKept({}) /\ \A q \in FileOwners : Live(q) => DataKept(q)

LEMMA SlotOnlyKept ==
  ASSUME GoodStep, NEW slot, SlotOnly(slot)
  PROVE  \A q \in FileOwners : Live(q) /\ (q = slot => files'[slot] = files[slot]) =>
            FileAt(q)'.bytes = FileAt(q).bytes
<1> SUFFICES ASSUME NEW q \in FileOwners, Live(q), q = slot => files'[slot] = files[slot]
             PROVE  FileAt(q)'.bytes = FileAt(q).bytes
  OBVIOUS
<1>1. FileEntries'[q] = FileEntries[q]
  <2>0. Good /\ Good' BY DEF GoodStep
  <2>1. CASE q \in Slots
    <3>1. files'[q] = files[q] BY <2>1 DEF SlotOnly
    <3> QED BY <2>0, <2>1, <3>1, Owned, OwnedNext
  <2>2. CASE q \notin Slots
    <3>1. PICK j \in FDs : q = Own(j) BY <2>0, <2>2, Owned
    <3>2. OwnEntry(openFileTable'[j]) = OwnEntry(openFileTable[j]) BY DEF SlotOnly
    <3>3. FileEntries[Own(j)] = OwnEntry(openFileTable[j]) BY <2>0, Owned
    <3>4. FileEntries'[Own(j)] = OwnEntry(openFileTable'[j]) BY <2>0, OwnedNext
    <3> QED BY <3>1, <3>2, <3>3, <3>4
  <2> QED BY <2>1, <2>2
<1>2. FileKept(disk.blk, disk'.blk, FileEntries[q]) /\ DataKept(q) BY DEF SlotOnly, LiveKept
<1> QED BY <1>1, <1>2, UnstoredKept

LEMMA OpenedIs ==
  ASSUME GoodStep, NEW name \in Names, NEW slot, SlotOnly(slot), addOpenFileEntry(slot),
         \/ Holds(slot, name) /\ files'[slot] = files[slot]
         \/ /\ ~ Occupied(files[slot]) /\ \A s \in Slots : ~ Holds(s, name)
            /\ files'[slot] = [first_block |-> SFS_EMPTY_FILE_BLOCK, size |-> 0, name |-> name]
  PROVE  Api!Next
<1>0. Good /\ Good' /\ Pictured /\ Pictured' BY DEF GoodStep
<1>1. slot \in Slots /\ \A s \in Slots \ {slot} : files'[s] = files[s] BY DEF SlotOnly
<1>2. PICK fd \in FDs :
        /\ openFileDescTable[fd] = NULL /\ pos' = [pos EXCEPT ![fd] = 0]
        /\ FdsOf(slot)' = FdsOf(slot) \cup {fd}
        /\ \A q : q # slot => FdsOf(q)' = FdsOf(q)
        /\ Unlinked' = Unlinked
  BY <1>1, OpenedFds
<1>3. ~ Api!IsOpen(fd) BY <1>0, <1>2, ApiClosed
<1>4. ASSUME NEW q \in FileOwners, Live(q), q # slot PROVE FileAt(q)' = FileAt(q)
  <2>1. FileAt(q)'.bytes = FileAt(q).bytes BY <1>4, SlotOnlyKept
  <2>2. FdsOf(q)' = FdsOf(q) BY <1>2, <1>4
  <2> QED BY <2>1, <2>2 DEF FileAt
<1>5. ASSUME NEW n \in Names, n # name PROVE dir'[n] = dir[n]
  <2>1. ASSUME NEW s \in Slots PROVE Holds(s, n)' <=> Holds(s, n)
    <3>1. CASE s = slot
      <4>1. ~ Holds(slot, n) /\ ~ Holds(slot, n)' BY <1>5 DEF Holds
      <4> QED BY <3>1, <4>1
    <3>2. CASE s # slot BY <1>1, <3>2 DEF Holds
    <3> QED BY <3>1, <3>2
  <2>2. ~ Holds(slot, n) BY <1>5 DEF Holds
  <2>3. \A s \in Slots : Holds(s, n) => FileAt(s)' = FileAt(s) BY <1>4, <2>2, NameShows
  <2> QED BY <2>1, <2>3, NameSame
<1>6. Holds(slot, name)'
  <2>1. SFS_EMPTY_FILE_BLOCK # 0 BY BlockIds
  <2> QED BY <2>1 DEF Holds, Occupied
<1>7. dir'[name] = FileAt(slot)' BY <1>1, <1>6, NameShows
<1>8. dir'[name] = IF dir[name] = NULL THEN Api!NewFile({fd})
                   ELSE [dir[name] EXCEPT !.fds = @ \cup {fd}]
  <2>1. CASE Holds(slot, name) /\ files'[slot] = files[slot]
    <3>1. dir[name] = FileAt(slot) /\ Live(slot) /\ slot \in FileOwners BY <1>1, <2>1, NameShows
    <3>2. dir[name] # NULL BY <1>0, <3>1, FileType, NotNull
    <3>3. FileAt(slot)'.bytes = FileAt(slot).bytes BY <2>1, <3>1, SlotOnlyKept
    <3>4. FileAt(slot)' = [FileAt(slot) EXCEPT !.fds = @ \cup {fd}]
      <4>x. PICK x : x = FileAt(slot).bytes OBVIOUS
      <4>1. FileAt(slot) = [bytes |-> x, fds |-> FdsOf(slot)] BY <4>x DEF FileAt
      <4>2. FileAt(slot)' = [bytes |-> x, fds |-> FdsOf(slot) \cup {fd}]
        <5>1. FileAt(slot)' = [bytes |-> FileAt(slot)'.bytes, fds |-> FdsOf(slot)'] BY DEF FileAt
        <5> QED BY <1>2, <3>3, <4>x, <5>1
      <4>f. PICK f : f = FileAt(slot) OBVIOUS
      <4>g. PICK g : g = FileAt(slot)' OBVIOUS
      <4>s. PICK S : S = FdsOf(slot) OBVIOUS
      <4>3. f = [bytes |-> x, fds |-> S] /\ g = [bytes |-> x, fds |-> S \cup {fd}]
        BY <4>1, <4>2, <4>f, <4>g, <4>s
      <4>4. g = [f EXCEPT !.fds = f.fds \cup {fd}] BY ONLY <4>3
      <4> QED BY <4>4, <4>f, <4>g
    <3> QED BY <1>7, <3>1, <3>2, <3>4
  <2>2. CASE /\ ~ Occupied(files[slot]) /\ \A s \in Slots : ~ Holds(s, name)
             /\ files'[slot] = [first_block |-> SFS_EMPTY_FILE_BLOCK, size |-> 0, name |-> name]
    <3>1. dir[name] = NULL BY <2>2, NameShows
    <3>2. ~ Live(slot) BY <1>0, <1>1, <2>2, Owned
    <3>3. FdsOf(slot)' = {fd} BY <1>0, <1>2, <3>2, NoFds
    <3>4. FileEntries'[slot].size = 0 BY <1>0, <1>1, <2>2, OwnedNext
    <3>5. FileAt(slot)'.bytes = <<>> BY <3>4 DEF FileAt, FileBytes
    <3>6. FileAt(slot)' = [bytes |-> <<>>, fds |-> {fd}] BY <3>3, <3>5 DEF FileAt
    <3> QED BY <1>7, <3>1, <3>6 DEF Api!NewFile
  <2> QED BY <2>1, <2>2
<1>9. dir' = [dir EXCEPT ![name] = IF dir[name] = NULL THEN Api!NewFile({fd})
                                   ELSE [dir[name] EXCEPT !.fds = @ \cup {fd}]]
  <2>1. dir \in [Names -> FileValues \cup {NULL}] /\ dir' \in [Names -> FileValues \cup {NULL}]
    BY <1>0 DEF Pictured
  <2> QED BY <1>5, <1>8, <2>1
<1>10. orphans' = orphans
  <2>1. \A i \in Unlinked : FileAt(Own(i))' = FileAt(Own(i))
    <3>1. \A i \in Unlinked : Own(i) # slot BY <1>0, <1>1, Owned
    <3> QED BY <1>4, <3>1, OrphansShow
  <2>2. \A f : f \in orphans' <=> f \in orphans BY <1>2, <2>1, OrphansShow
  <2> QED BY <2>2
<1>11. Api!Open(name) BY <1>2, <1>3, <1>9, <1>10 DEF Api!Open
<1> QED BY <1>11 DEF Api!Next

LEMMA SameSlotOnly ==
  ASSUME GoodStep, disk' = disk, data' = data, NEW slot \in Slots, addOpenFileEntry(slot),
         \A s \in Slots \ {slot} : files'[s] = files[s]
  PROVE  SlotOnly(slot)
<1>1. \A j \in FDs : OwnEntry(openFileTable'[j]) = OwnEntry(openFileTable[j]) BY OpenedFds
<1>2. LiveKept({}) BY SameLiveKept
<1>3. \A q \in FileOwners : DataKept(q) BY DEF DataKept
<1> QED BY <1>1, <1>2, <1>3 DEF SlotOnly

LEMMA OpenExistingIs ==
  ASSUME GoodStep, NEW name \in Names, OpenExisting(name)
  PROVE  Api!Next
<1>0. IInv /\ Structure /\ UniqueNames BY DEF GoodStep, Good
<1>1. PICK slot \in findDirectoryEntry(name) : addOpenFileEntry(slot) BY DEF OpenExisting
<1>2. slot \in Slots /\ Holds(slot, name) BY <1>0, <1>1, FindIs
<1>3. disk' = disk /\ data' = data /\ files' = files BY DEF OpenExisting
<1>4. SlotOnly(slot) BY <1>1, <1>2, <1>3, SameSlotOnly
<1> QED BY <1>1, <1>2, <1>3, <1>4, OpenedIs

LEMMA OpenCreateIs ==
  ASSUME GoodStep, NEW name \in Names, OpenCreate(name)
  PROVE  Api!Next
<1>0. IInv /\ Structure /\ UniqueNames /\ files \in [Slots -> Entry]
  BY DEF GoodStep, Good, IInv, TypeOK
<1>1. PICK slot \in EmptySlot : createFile(name, slot) BY DEF OpenCreate
<1>2. slot \in Slots /\ ~ Occupied(files[slot]) BY <1>1, SlotFound
<1>3. disk' = disk /\ data' = data BY DEF OpenCreate
<1>4. \A s \in Slots : ~ Holds(s, name) BY <1>0, FindIs DEF OpenCreate
<1>5. /\ files' = [files EXCEPT ![slot] =
                [first_block |-> SFS_EMPTY_FILE_BLOCK, size |-> 0, name |-> name]]
      /\ addOpenFileEntry(slot)
  BY <1>1 DEF createFile
<1>6. \A s \in Slots \ {slot} : files'[s] = files[s] BY <1>0, <1>2, <1>5
<1>7. files'[slot] = [first_block |-> SFS_EMPTY_FILE_BLOCK, size |-> 0, name |-> name]
  BY <1>0, <1>2, <1>5
<1>8. SlotOnly(slot) BY <1>2, <1>3, <1>5, <1>6, SameSlotOnly
<1> QED BY <1>2, <1>4, <1>5, <1>7, <1>8, OpenedIs

(* A new directory block was free: no file loses a byte by it. *)
LEMMA ExpandedData ==
  ASSUME Good, NEW new \in LastToAllocate(disk, 1), NEW last \in LastDirectoryBlock,
         expandDirectory(new, last)
  PROVE  LiveKept({}) /\ \A q \in FileOwners : Live(q) => DataKept(q)
<1>0. IInv /\ Structure /\ TypeOK /\ disk \in Disk BY DEF Good, IInv, TypeOK
<1>1. LinksKept(disk.blk, disk'.blk) BY <1>0, ExpandedKept
<1>2. LiveKept({}) BY <1>1, LinkedLiveKept
<1>3. disk.blk[new].type = "FREE" BY <1>0, Expanded
<1>4. \A b : b # new => data'[b] = data[b] BY <1>0 DEF expandDirectory, TypeOK
<1>5. PICK own : \A o \in FileOwners : Live(o) =>
            \A k \in Nat : k < allocatedBlocksForFile(FileEntries[o]) =>
                /\ own[BlockAt(disk.blk, FileEntries[o].first_block, k)] = o
                /\ disk.blk[BlockAt(disk.blk, FileEntries[o].first_block, k)].type = "FILE"
  BY FileBlockOwners
<1>6. \A q \in FileOwners : Live(q) => DataKept(q) BY <1>3, <1>4, <1>5 DEF DataKept
<1> QED BY <1>2, <1>6

LEMMA OpenExpandIs ==
  ASSUME GoodStep, NEW name \in Names, OpenExpand(name)
  PROVE  Api!Next
<1>0. Good /\ IInv /\ Structure /\ UniqueNames /\ TypeOK /\ files \in [Slots -> Entry]
  BY DEF GoodStep, Good, IInv, TypeOK
<1>1. PICK new \in LastToAllocate(disk, 1), last \in LastDirectoryBlock :
        expandDirectory(new, last) /\ createFile(name, <<new, 1>>)
  BY DEF OpenExpand
<1>s. PICK slot : slot = <<new, 1>> OBVIOUS
<1>2. slot \in Slots /\ ~ Occupied(files[slot]) BY <1>0, <1>1, <1>s, Expanded
<1>3. LiveKept({}) /\ \A q \in FileOwners : Live(q) => DataKept(q)
  BY <1>0, <1>1, ExpandedData
<1>4. \A s \in Slots : ~ Holds(s, name) BY <1>0, FindIs DEF OpenExpand
<1>5. /\ files' = [files EXCEPT ![slot] =
                [first_block |-> SFS_EMPTY_FILE_BLOCK, size |-> 0, name |-> name]]
      /\ addOpenFileEntry(slot)
  BY <1>1, <1>s DEF createFile
<1>6. \A s \in Slots \ {slot} : files'[s] = files[s] BY <1>0, <1>2, <1>5
<1>7. files'[slot] = [first_block |-> SFS_EMPTY_FILE_BLOCK, size |-> 0, name |-> name]
  BY <1>0, <1>2, <1>5
<1>8. \A j \in FDs : OwnEntry(openFileTable'[j]) = OwnEntry(openFileTable[j])
  BY <1>2, <1>5, OpenedFds
<1>9. SlotOnly(slot) BY <1>2, <1>3, <1>6, <1>8 DEF SlotOnly
<1> QED BY <1>2, <1>4, <1>5, <1>7, <1>9, OpenedIs

(* A directory that grows alone is no step of SfsApi. *)
LEMMA ExpandedOnlyIs ==
  ASSUME GoodStep, ExpandedOnly
  PROVE  UNCHANGED Api!apiVars
<1>0. Good /\ Good' /\ Pictured /\ Pictured' BY DEF GoodStep
<1>1. PICK new \in LastToAllocate(disk, 1), last \in LastDirectoryBlock : expandDirectory(new, last)
  BY DEF ExpandedOnly
<1>2. files' = files /\ openFileTable' = openFileTable /\ openFileDescTable' = openFileDescTable
  BY DEF ExpandedOnly
<1>3. LiveKept({}) /\ \A q \in FileOwners : Live(q) => DataKept(q)
  BY <1>0, <1>1, ExpandedData
<1>4. FileEntries' = FileEntries /\ Unlinked' = Unlinked BY <1>2 DEF FileEntries, Unlinked
<1>5. SameNames BY <1>2, <1>4 DEF SameNames, Holds
<1>6. \A q : FdsOf(q)' = FdsOf(q) BY <1>2 DEF FdsOf, OwnerOf
<1>7. ASSUME NEW q \in FileOwners, Live(q) PROVE FileAt(q)' = FileAt(q)
  <2>1. FileKept(disk.blk, disk'.blk, FileEntries[q]) /\ DataKept(q)
    BY <1>3, <1>7 DEF LiveKept
  <2>2. FileAt(q)'.bytes = FileAt(q).bytes BY <1>4, <1>7, <2>1, UnstoredKept
  <2> QED BY <1>6, <2>2 DEF FileAt
<1>8. dir' = dir /\ orphans' = orphans BY <1>5, <1>7, FilesSame
<1>9. pos' = pos BY <1>0, <1>2 DEF Pictured, PosImage
<1> QED BY <1>8, <1>9 DEF Api!apiVars

-----------------------------------------------------------------------------
(* A call that closes a descriptor. *)
Closes(fd, i, o) ==
    /\ OpenOn(fd, i, o) /\ data' = data /\ files' = files
    /\ openFileDescTable' = [openFileDescTable EXCEPT ![fd] = NULL]
    /\ \A q : FdsOf(q)' = FdsOf(q) \ {fd}
    /\ \A q \in FileOwners : Live(q) /\ Live(q)' =>
        FileEntries'[q] = FileEntries[q] /\ FileKept(disk.blk, disk'.blk, FileEntries[q])
    /\ \A j : j \in Unlinked' <=> j \in Unlinked /\ FdsOf(Own(j)) # {fd}

LEMMA CloseSeen ==
  ASSUME GoodStep, NEW fd, NEW i, NEW o, Closes(fd, i, o)
  PROVE  Api!Next
<1>0. Good /\ Good' /\ Pictured /\ Pictured' BY DEF GoodStep
<1>1. /\ OpenOn(fd, i, o) /\ data' = data /\ files' = files
      /\ openFileDescTable' = [openFileDescTable EXCEPT ![fd] = NULL]
      /\ \A q : FdsOf(q)' = FdsOf(q) \ {fd}
      /\ \A q \in FileOwners : Live(q) /\ Live(q)' =>
          FileEntries'[q] = FileEntries[q] /\ FileKept(disk.blk, disk'.blk, FileEntries[q])
      /\ \A j : j \in Unlinked' <=> j \in Unlinked /\ FdsOf(Own(j)) # {fd}
  BY DEF Closes
<1>2. ASSUME NEW q \in FileOwners, Live(q), Live(q)'
      PROVE  FileAt(q)' = [FileAt(q) EXCEPT !.fds = @ \ {fd}]
  <2>1. FileEntries'[q] = FileEntries[q] /\ FileKept(disk.blk, disk'.blk, FileEntries[q])
    BY <1>1, <1>2
  <2>2. DataKept(q) BY <1>1 DEF DataKept
  <2>3. FileAt(q)'.bytes = FileAt(q).bytes BY <1>2, <2>1, <2>2, UnstoredKept
  <2>x. PICK x : x = FileAt(q).bytes OBVIOUS
  <2>s. PICK S : S = FdsOf(q) OBVIOUS
  <2>f. PICK f : f = FileAt(q) OBVIOUS
  <2>g. PICK g : g = FileAt(q)' OBVIOUS
  <2>4. f = [bytes |-> x, fds |-> S] BY <2>f, <2>s, <2>x DEF FileAt
  <2>5. g = [bytes |-> x, fds |-> S \ {fd}]
    <3>1. FileAt(q)' = [bytes |-> FileAt(q)'.bytes, fds |-> FdsOf(q)'] BY DEF FileAt
    <3> QED BY <1>1, <2>3, <2>g, <2>s, <2>x, <3>1
  <2>6. g = [f EXCEPT !.fds = f.fds \ {fd}] BY ONLY <2>4, <2>5
  <2> QED BY <2>6, <2>f, <2>g
<1>3. ASSUME NEW n \in Names
      PROVE  dir'[n] = IF dir[n] = NULL THEN NULL ELSE [dir[n] EXCEPT !.fds = @ \ {fd}]
  <2>1. \A s \in Slots : Holds(s, n)' <=> Holds(s, n) BY <1>1 DEF Holds
  <2>2. CASE \E s \in Slots : Holds(s, n)
    <3>1. PICK s \in Slots : Holds(s, n) BY <2>2
    <3>2. dir[n] = FileAt(s) /\ dir'[n] = FileAt(s)' /\ Live(s) /\ s \in FileOwners
      BY <2>1, <3>1, NameShows
    <3>3. Live(s)' BY <1>0, <1>1, <3>1, OwnedNext DEF Holds
    <3>4. dir[n] # NULL BY <1>0, <3>2, FileType, NotNull
    <3> QED BY <1>2, <3>2, <3>3, <3>4
  <2>3. CASE \A s \in Slots : ~ Holds(s, n) BY <2>1, <2>3, NameShows
  <2> QED BY <2>2, <2>3
<1>4. dir' = [n \in Names |-> IF dir[n] = NULL THEN NULL ELSE [dir[n] EXCEPT !.fds = @ \ {fd}]]
  <2>1. dir' \in [Names -> FileValues \cup {NULL}] BY <1>0 DEF Pictured
  <2> QED BY <1>3, <2>1
<1>5. ASSUME NEW j \in Unlinked'
      PROVE  /\ j \in Unlinked /\ FileAt(Own(j)).fds # {fd}
             /\ FileAt(Own(j))' = [FileAt(Own(j)) EXCEPT !.fds = @ \ {fd}]
  <2>1. j \in Unlinked /\ FdsOf(Own(j)) # {fd} BY <1>1
  <2>2. Own(j) \in FileOwners /\ Live(Own(j)) BY <2>1, OrphansShow
  <2>3. Live(Own(j))'
    <3>1. j \in FDs BY <2>1, OrphansShow
    <3> QED BY <1>0, <3>1, OwnedNext
  <2>4. FileAt(Own(j)).fds = FdsOf(Own(j)) BY DEF FileAt
  <2> QED BY <1>2, <2>1, <2>2, <2>3, <2>4
<1>6. orphans' = {[f EXCEPT !.fds = @ \ {fd}] : f \in {g \in orphans : g.fds # {fd}}}
  <2>1. ASSUME NEW x \in orphans'
        PROVE  \E f \in {g \in orphans : g.fds # {fd}} : x = [f EXCEPT !.fds = @ \ {fd}]
    <3>1. PICK j \in Unlinked' : x = FileAt(Own(j))' BY OrphansShow
    <3>2. FileAt(Own(j)) \in orphans BY <1>5, OrphansShow
    <3> QED BY <1>5, <3>1, <3>2
  <2>2. ASSUME NEW f \in orphans, f.fds # {fd}
        PROVE  [f EXCEPT !.fds = @ \ {fd}] \in orphans'
    <3>1. PICK j \in Unlinked : f = FileAt(Own(j)) BY OrphansShow
    <3>2. FdsOf(Own(j)) # {fd} BY <2>2, <3>1 DEF FileAt
    <3>3. j \in Unlinked' BY <1>1, <3>2
    <3>4. FileAt(Own(j))' \in orphans' BY <3>3, OrphansShow
    <3> QED BY <1>5, <3>1, <3>3, <3>4
  <2> QED BY <2>1, <2>2
<1>7. pos' = [pos EXCEPT ![fd] = -1]
  <2>1. pos = PosImage /\ pos' = PosImage' BY <1>0 DEF Pictured
  <2>2. fd \in FDs BY <1>1 DEF OpenOn
  <2>3. openFileDescTable \in [FDs -> Descriptor \cup {NULL}] BY <1>0 DEF Good, IInv, TypeOK
  <2>4. openFileDescTable'[fd] = NULL
        /\ \A d \in FDs \ {fd} : openFileDescTable'[d] = openFileDescTable[d]
    BY <1>1, <2>2, <2>3
  <2> QED BY <2>1, <2>2, <2>4 DEF PosImage
<1>8. Api!Close(fd) BY <1>4, <1>6, <1>7 DEF Api!Close, Api!Closed
<1> QED BY <1>1, <1>8, ApiCall

LEMMA CloseIs ==
  ASSUME GoodStep, NEW fd \in FDs, Close(fd)
  PROVE  Api!Next
<1>0. Good /\ Good' /\ IInv /\ TypeOK /\ RefCounts /\ OpenFilesTrackEntries
      /\ openFileTable \in [FDs -> OpenFile \cup {NULL}]
      /\ openFileDescTable \in [FDs -> Descriptor \cup {NULL}]
  BY DEF GoodStep, Good, IInv, TypeOK
<1>1. /\ openFileDescTable[fd] # NULL /\ data' = data /\ files' = files
      /\ openFileDescTable' = [openFileDescTable EXCEPT ![fd] = NULL]
  BY DEF Close
<1>2. PICK i, o : OpenOn(fd, i, o) BY <1>0, <1>1, OpenDescriptor
<1>f. PICK f : f = openFileTable[i] OBVIOUS
<1>3. /\ i = openFileDescTable[fd].fileEntry /\ i \in FDs /\ openFileTable[i] # NULL
      /\ o = OwnerOf(i) /\ o \in FileOwners /\ Live(o) /\ FileEntries[o] = DiskEntry(i)
      /\ fd \in FdsOf(o)
  BY <1>2 DEF OpenOn
<1>4. f \in OpenFile /\ f # NULL /\ f.refCount \in Nat
      /\ (f.unlinked <=> f.diskFile = UnlinkedFile)
  BY <1>0, <1>3, <1>f DEF OpenFile, OpenFilesTrackEntries
<1>5. openFileDescTable'[fd] = NULL
      /\ \A d \in FDs \ {fd} : openFileDescTable'[d] = openFileDescTable[d]
  BY <1>0, <1>1
<1>6. \A j \in FDs \ {i} : openFileTable[j] # NULL => OwnerOf(j) # o
  <2>1. EntriesAre(FileEntries, files, openFileTable) BY <1>0, EntriesArranged
  <2> QED BY <1>0, <1>3, <2>1, FileOwner
<1>7. \A d \in FDs : openFileDescTable[d] # NULL =>
        openFileDescTable[d].fileEntry \in FDs
        /\ openFileTable[openFileDescTable[d].fileEntry] # NULL
  BY <1>0, DescriptorFile
<1>8. Descriptors(i) = FdsOf(o) BY <1>3, <1>6, <1>7 DEF Descriptors, FdsOf
<1>9. f.refCount = 1 <=> FdsOf(o) = {fd}
  <2>1. f.refCount = Cardinality(FdsOf(o)) BY <1>0, <1>3, <1>8, <1>f DEF RefCounts
  <2>2. IsFiniteSet(FdsOf(o)) BY <1>3, <1>8, DescriptorsFinite
  <2>3. Cardinality({fd}) = 1 BY FS_Singleton
  <2>4. Cardinality(FdsOf(o)) = 1 => FdsOf(o) = {fd}
    <3> SUFFICES ASSUME Cardinality(FdsOf(o)) = 1 PROVE FdsOf(o) = {fd} OBVIOUS
    <3>1. PICK x : FdsOf(o) = {x} BY <2>2, FS_Singleton
    <3> QED BY <1>3, <3>1
  <2> QED BY <2>1, <2>3, <2>4
<1>10. \A q \in FileOwners : Live(q) =>
         (LiveKept({}) => FileKept(disk.blk, disk'.blk, FileEntries[q]))
  BY DEF LiveKept
<1>11. ASSUME \A d \in FDs \ {fd} : openFileDescTable[d] # NULL =>
                OwnerOf(openFileDescTable[d].fileEntry)' = OwnerOf(openFileDescTable[d].fileEntry)
       PROVE  \A q : FdsOf(q)' = FdsOf(q) \ {fd}
  <2> SUFFICES ASSUME NEW q PROVE FdsOf(q)' = FdsOf(q) \ {fd} OBVIOUS
  <2>1. FdsOf(q)' = {d \in FDs : openFileDescTable'[d] # NULL
                                  /\ OwnerOf(openFileDescTable[d].fileEntry)' = q}
    BY DEF FdsOf
  <2>2. FdsOf(q) = {d \in FDs : openFileDescTable[d] # NULL
                                  /\ OwnerOf(openFileDescTable[d].fileEntry) = q}
    BY DEF FdsOf
  <2>3. ASSUME NEW d \in FDs \ {fd}
        PROVE  d \in FdsOf(q)' <=> d \in FdsOf(q)
    BY <1>5, <1>11, <2>1, <2>2
  <2>4. fd \notin FdsOf(q)' /\ FdsOf(q)' \subseteq FDs /\ FdsOf(q) \subseteq FDs
    BY <1>5, <2>1, <2>2
  <2> QED BY ONLY <2>3, <2>4
<1>12. CASE /\ f.refCount > 1 /\ disk' = disk
            /\ openFileTable' = [openFileTable EXCEPT ![i] = [f EXCEPT !.refCount = @ - 1]]
  <2>n. PICK new : new = [f EXCEPT !.refCount = @ - 1] OBVIOUS
  <2>1. /\ new.diskFile = f.diskFile /\ new.unlinkedFile = f.unlinkedFile
        /\ new \in OpenFile
    BY <1>4, <1>12, <2>n DEF OpenFile
  <2>2. new # NULL BY <2>1
  <2>e. openFileTable' = [openFileTable EXCEPT ![i] = new] BY <1>12, <2>n
  <2>3. openFileTable'[i] = new /\ \A j \in FDs \ {i} : openFileTable'[j] = openFileTable[j]
    BY <1>0, <1>3, <2>e
  <2>4. \A j \in FDs : OwnerOf(j)' = OwnerOf(j) BY <1>f, <2>1, <2>3 DEF OwnerOf
  <2>5. \A j \in FDs : openFileTable'[j] # NULL <=> openFileTable[j] # NULL
    BY <1>3, <2>2, <2>3
  <2>6. Unlinked' = Unlinked BY <1>f, <2>1, <2>3, <2>5 DEF Unlinked
  <2>7. \A j \in FDs : OwnEntry(openFileTable'[j]) = OwnEntry(openFileTable[j])
    BY <1>3, <1>f, <2>1, <2>2, <2>3 DEF OwnEntry
  <2>8. \A q \in FileOwners : FileEntries'[q] = FileEntries[q]
    <3> SUFFICES ASSUME NEW q \in FileOwners PROVE FileEntries'[q] = FileEntries[q] OBVIOUS
    <3>1. q \in Slots \/ \E j \in FDs : q = Own(j) BY <1>0, Owned
    <3> QED BY <1>0, <1>1, <2>7, <3>1, Owned, OwnedNext
  <2>9. \A q : FdsOf(q)' = FdsOf(q) \ {fd}
    <3>1. \A d \in FDs \ {fd} : openFileDescTable[d] # NULL =>
            OwnerOf(openFileDescTable[d].fileEntry)' = OwnerOf(openFileDescTable[d].fileEntry)
      <4> SUFFICES ASSUME NEW d \in FDs \ {fd}, openFileDescTable[d] # NULL
                   PROVE  OwnerOf(openFileDescTable[d].fileEntry)'
                            = OwnerOf(openFileDescTable[d].fileEntry)
        OBVIOUS
      <4>j. PICK j : j = openFileDescTable[d].fileEntry OBVIOUS
      <4>1. j \in FDs /\ openFileDescTable'[d].fileEntry = j BY <1>5, <1>7, <4>j
      <4>2. OwnerOf(j)' = OwnerOf(j) BY <2>4, <4>1
      <4> QED BY <4>1, <4>2, <4>j DEF OwnerOf
    <3> QED BY <1>11, <3>1
  <2>10. \A j : j \in Unlinked' <=> j \in Unlinked /\ FdsOf(Own(j)) # {fd}
    <3> SUFFICES ASSUME NEW j \in Unlinked, FdsOf(Own(j)) = {fd} PROVE FALSE BY <2>6
    <3>1. Own(j) = o BY <1>3 DEF FdsOf
    <3> QED BY <1>9, <1>12, <3>1
  <2>11. LiveKept({}) BY <1>12, SameLiveKept
  <2>12. Closes(fd, i, o) BY <1>1, <1>2, <1>10, <2>8, <2>9, <2>10, <2>11 DEF Closes
  <2> QED BY <2>12, CloseSeen
<1>13. CASE /\ f.refCount = 1
            /\ openFileTable' = [openFileTable EXCEPT ![i] = NULL]
            /\ IF f.unlinked /\ DiskEntry(i).first_block # SFS_EMPTY_FILE_BLOCK
               THEN \E last \in LastOf(disk.blk, DiskEntry(i).first_block) :
                      disk' = AfterFree(disk, DiskEntry(i).first_block, last)
               ELSE disk' = disk
  <2>1. openFileTable'[i] = NULL /\ \A j \in FDs \ {i} : openFileTable'[j] = openFileTable[j]
    BY <1>0, <1>3, <1>13
  <2>2. FdsOf(o) = {fd} BY <1>9, <1>13
  <2>3. \A q : FdsOf(q)' = FdsOf(q) \ {fd}
    <3>1. \A d \in FDs \ {fd} : openFileDescTable[d] # NULL =>
            OwnerOf(openFileDescTable[d].fileEntry)' = OwnerOf(openFileDescTable[d].fileEntry)
      <4> SUFFICES ASSUME NEW d \in FDs \ {fd}, openFileDescTable[d] # NULL
                   PROVE  OwnerOf(openFileDescTable[d].fileEntry)'
                            = OwnerOf(openFileDescTable[d].fileEntry)
        OBVIOUS
      <4>j. PICK j : j = openFileDescTable[d].fileEntry OBVIOUS
      <4>1. j \in FDs /\ openFileDescTable'[d].fileEntry = j BY <1>5, <1>7, <4>j
      <4>2. j # i
        <5>1. d \notin Descriptors(i) BY <1>8, <2>2
        <5> QED BY <4>j, <5>1 DEF Descriptors
      <4>3. OwnerOf(j)' = OwnerOf(j) BY <2>1, <4>1, <4>2 DEF OwnerOf
      <4> QED BY <4>1, <4>3, <4>j DEF OwnerOf
    <3> QED BY <1>11, <3>1
  <2>4. \A j \in FDs : j \in Unlinked' <=> j \in Unlinked /\ j # i BY <2>1 DEF Unlinked
  <2>5. \A j : j \in Unlinked' <=> j \in Unlinked /\ FdsOf(Own(j)) # {fd}
    <3>1. Unlinked \subseteq FDs /\ Unlinked' \subseteq FDs BY DEF Unlinked
    <3>2. ASSUME NEW j \in Unlinked PROVE FdsOf(Own(j)) = {fd} <=> j = i
      <4>1. FdsOf(Own(j)) = {fd} <=> Own(j) = o
        <5>1. fd \in FdsOf(Own(j)) => Own(j) = o BY <1>3 DEF FdsOf
        <5> QED BY <2>2, <5>1
      <4>2. OwnerOf(j) = Own(j) /\ openFileTable[j] # NULL /\ j \in FDs BY DEF Unlinked, OwnerOf
      <4>3. j = i <=> Own(j) = o BY <1>3, <1>6, <4>2
      <4> QED BY <4>1, <4>3
    <3> QED BY <2>4, <3>1, <3>2
  <2>6. \A j \in FDs \ {i} : OwnEntry(openFileTable'[j]) = OwnEntry(openFileTable[j]) BY <2>1
  <2>7. \A q \in FileOwners : Live(q)' => FileEntries'[q] = FileEntries[q]
    <3> SUFFICES ASSUME NEW q \in FileOwners, Live(q)' PROVE FileEntries'[q] = FileEntries[q]
      OBVIOUS
    <3>1. CASE q \in Slots BY <1>0, <1>1, <3>1, Owned, OwnedNext
    <3>2. CASE q \notin Slots
      <4>1. PICK j \in FDs : q = Own(j) BY <1>0, <3>2, Owned
      <4>2. j \in Unlinked' BY <1>0, <4>1, OwnedNext
      <4>3. j # i BY <2>4, <4>2
      <4> QED BY <1>0, <2>6, <4>1, <4>3, Owned, OwnedNext
    <3> QED BY <3>1, <3>2
  <2>8. \A q \in FileOwners : Live(q) /\ Live(q)' =>
            FileKept(disk.blk, disk'.blk, FileEntries[q])
    <3>1. CASE disk' = disk
      <4>1. LiveKept({}) BY <3>1, SameLiveKept
      <4> QED BY <1>10, <4>1
    <3>2. CASE ~ (disk' = disk)
      <4>1. f.unlinked /\ DiskEntry(i).first_block # SFS_EMPTY_FILE_BLOCK
        BY <1>13, <3>2
      <4>2. PICK last \in LastOf(disk.blk, DiskEntry(i).first_block) :
              disk' = AfterFree(disk, DiskEntry(i).first_block, last)
        BY <1>13, <4>1
      <4>3. o = Own(i) BY <1>3, <1>4, <1>f, <4>1 DEF OwnerOf
      <4>4. ~ Live(o)'
        <5>1. i \notin Unlinked' BY <1>3, <2>4
        <5> QED BY <1>0, <1>3, <4>3, <5>1, OwnedNext
      <4>5. 0 < allocatedBlocksForFile(FileEntries[o])
        <5>1. FileFacts(o, FileEntries[o]) BY <1>0, <1>3, LiveFile
        <5>2. FileEntries[o].first_block # SFS_EMPTY_FILE_BLOCK BY <1>3, <4>1
        <5>e. PICK e : e = FileEntries[o] OBVIOUS
        <5>3. e \in Entry /\ SizedRight(e) /\ allocatedBlocksForFile(e) \in Nat
          BY <5>1, <5>e DEF FileFacts
        <5>4. allocatedBlocksForFile(e) # 0 BY <5>2, <5>3, <5>e, FileCapacity
        <5> QED BY <5>3, <5>4, <5>e
      <4>6. LiveKept({o}) BY <1>0, <1>3, <4>2, <4>5, FreedLiveKept
      <4> QED BY <4>4, <4>6 DEF LiveKept
    <3> QED BY <3>1, <3>2
  <2>9. Closes(fd, i, o) BY <1>1, <1>2, <2>3, <2>5, <2>7, <2>8 DEF Closes
  <2> QED BY <2>9, CloseSeen
<1> QED BY <1>3, <1>12, <1>13, <1>f DEF Close

-----------------------------------------------------------------------------
(* A file loses its name *)

\* The entry of this slot is unlinked and cleared; the other entries keep their blocks.
Unlinks(slot) ==
    /\ slot \in Slots /\ Occupied(files[slot]) /\ unlinkDirectoryEntry(slot)
    /\ files'[slot] = UnusedEntry
    /\ \A s \in Slots \ {slot} :
        files'[s].size = files[s].size /\ files'[s].first_block = files[s].first_block
    /\ data' = data /\ openFileDescTable' = openFileDescTable

LEMMA UnlinkSeen ==
  ASSUME GoodStep, NEW slot, Unlinks(slot)
  PROVE  /\ \A q \in FileOwners : Live(q) /\ q # slot => FileAt(q)' = FileAt(q)
         /\ orphans' = orphans \cup (IF FileAt(slot).fds = {} THEN {} ELSE {FileAt(slot)})
         /\ pos' = pos
<1>0. /\ Good /\ Good' /\ Pictured /\ Pictured' /\ IInv /\ RefCounts /\ OpenFilesTrackEntries
      /\ openFileTable \in [FDs -> OpenFile \cup {NULL}]
  BY DEF GoodStep, Good, IInv, TypeOK
<1>1. /\ slot \in Slots /\ Occupied(files[slot]) /\ unlinkDirectoryEntry(slot)
      /\ files'[slot] = UnusedEntry
      /\ \A s \in Slots \ {slot} :
          files'[s].size = files[s].size /\ files'[s].first_block = files[s].first_block
      /\ data' = data /\ openFileDescTable' = openFileDescTable
  BY DEF Unlinks
<1>2. slot \in FileOwners /\ Live(slot) /\ FileEntries[slot] = files[slot] BY <1>0, <1>1, Owned
<1>3. pos' = pos BY <1>0, <1>1 DEF Pictured, PosImage
<1>4. \A q \in FileOwners : DataKept(q) BY <1>1 DEF DataKept
<1>5. FileAt(slot).fds = FdsOf(slot) BY DEF FileAt
<1>6. \A d \in FDs : openFileDescTable[d] # NULL =>
        openFileDescTable[d].fileEntry \in FDs
        /\ openFileTable[openFileDescTable[d].fileEntry] # NULL
  BY <1>0, DescriptorFile DEF IInv
<1>7. ASSUME NEW q \in FileOwners, Live(q), q # slot,
             FileKept(disk.blk, disk'.blk, FileEntries[q]),
             q \notin Slots => FileEntries'[q] = FileEntries[q], FdsOf(q)' = FdsOf(q)
      PROVE  FileAt(q)' = FileAt(q)
  <2>1. FileEntries'[q].size = FileEntries[q].size
        /\ FileEntries'[q].first_block = FileEntries[q].first_block
    <3>1. CASE q \in Slots BY <1>0, <1>1, <1>7, <3>1, Owned, OwnedNext
    <3> QED BY <1>7, <3>1
  <2>2. FileAt(q)'.bytes = FileAt(q).bytes BY <1>4, <1>7, <2>1, UnstoredKept
  <2> QED BY <1>7, <2>2 DEF FileAt
<1>8. CASE findOpenFile(slot) # {}
  <2>1. PICK i \in findOpenFile(slot) :
          openFileTable' = [openFileTable EXCEPT ![i].unlinkedFile = files[slot],
                                                 ![i].diskFile = UnlinkedFile,
                                                 ![i].unlinked = TRUE]
    BY <1>1, <1>8 DEF unlinkDirectoryEntry
  <2>2. disk' = disk BY <1>1, <1>8 DEF unlinkDirectoryEntry
  <2>f. PICK f : f = openFileTable[i] OBVIOUS
  <2>3. /\ i \in FDs /\ f # NULL /\ f \in OpenFile /\ f.diskFile = slot
    BY <1>0, <2>f DEF findOpenFile
  <2>n. PICK new : new = [[[f EXCEPT !.unlinkedFile = files[slot]]
                             EXCEPT !.diskFile = UnlinkedFile] EXCEPT !.unlinked = TRUE]
    OBVIOUS
  <2>4. openFileTable'[i] = new /\ \A j \in FDs \ {i} : openFileTable'[j] = openFileTable[j]
    BY <1>0, <2>1, <2>3, <2>f, <2>n
  <2>5. files[slot] \in Entry BY <1>0, <1>1 DEF IInv, TypeOK
  <2>6. new \in OpenFile /\ new.diskFile = UnlinkedFile /\ new.unlinkedFile = files[slot]
    BY ONLY <2>3, <2>5, <2>n DEF OpenFile
  <2>7. new # NULL BY <2>6, NullAssumption
  <2>8. slot # UnlinkedFile BY <1>1, BlockIds
  <2>9. OwnerOf(i) = slot /\ OwnerOf(i)' = Own(i)
    BY <2>3, <2>4, <2>6, <2>8, <2>f DEF OwnerOf
  <2>10. ASSUME NEW j \in FDs \ {i}, openFileTable[j] # NULL
         PROVE  OwnerOf(j)' = OwnerOf(j) /\ OwnerOf(j) # slot /\ OwnerOf(j) # Own(i)
    <3>1. OwnerOf(j)' = OwnerOf(j) BY <2>4 DEF OwnerOf
    <3>2. EntriesAre(FileEntries, files, openFileTable) BY <1>0, EntriesArranged
    <3>3. OwnerOf(j) # slot BY <1>0, <2>3, <2>9, <2>10, <2>f, <3>2, FileOwner
    <3>4. openFileTable[j] \in OpenFile BY <1>0, <2>10
    <3>5. openFileTable[j].diskFile \in Slots \cup {UnlinkedFile} BY <3>4 DEF OpenFile
    <3>6. OwnerOf(j) # Own(i) BY <2>3, <3>5, OwnersApart DEF OwnerOf
    <3> QED BY <3>1, <3>3, <3>6
  <2>11. ASSUME NEW d \in FDs, NEW q
         PROVE  d \in FdsOf(q)' <=>
                  IF q = Own(i) THEN d \in FdsOf(slot) ELSE q # slot /\ d \in FdsOf(q)
    <3>1. CASE openFileDescTable[d] = NULL BY <1>1, <3>1 DEF FdsOf
    <3>2. CASE openFileDescTable[d] # NULL
      <4>j. PICK j : j = openFileDescTable[d].fileEntry OBVIOUS
      <4>1. j \in FDs /\ openFileTable[j] # NULL BY <1>6, <3>2, <4>j
      <4>2. \A r : d \in FdsOf(r) <=> OwnerOf(j) = r BY <3>2, <4>j DEF FdsOf
      <4>3. d \in FdsOf(q)' <=> OwnerOf(j)' = q BY <1>1, <3>2, <4>j DEF FdsOf, OwnerOf
      <4>4. Own(i) # slot BY <1>1, <2>3, OwnersApart
      <4>5. CASE j = i BY <2>9, <4>2, <4>3, <4>4, <4>5
      <4>6. CASE j # i BY <2>10, <4>1, <4>2, <4>3, <4>4, <4>6
      <4> QED BY <4>5, <4>6
    <3> QED BY <3>1, <3>2
  <2>12. \A q : FdsOf(q) \subseteq FDs /\ FdsOf(q)' \subseteq FDs BY DEF FdsOf
  <2>13. FdsOf(Own(i))' = FdsOf(slot) BY <2>11, <2>12
  <2>14. ASSUME NEW q, q # slot, q # Own(i) PROVE FdsOf(q)' = FdsOf(q)
    <3>1. \A d \in FDs : d \in FdsOf(q)' <=> d \in FdsOf(q) BY <2>11, <2>14
    <3>2. FdsOf(q) \subseteq FDs /\ FdsOf(q)' \subseteq FDs BY <2>12
    <3> QED BY ONLY <3>1, <3>2
  <2>15. i \notin Unlinked /\ \A j : j \in Unlinked' <=> j \in Unlinked \/ j = i
    BY <2>3, <2>4, <2>6, <2>7, <2>8, <2>f DEF Unlinked
  <2>16. ~ Live(Own(i)) /\ Own(i) \in FileOwners /\ Own(i) \notin Slots
    BY <1>0, <2>3, <2>15, Owned
  <2>17. \A q \in FileOwners : Live(q) => FileKept(disk.blk, disk'.blk, FileEntries[q])
    <3>1. LiveKept({}) BY <2>2, SameLiveKept
    <3> QED BY <3>1 DEF LiveKept
  <2>18. ASSUME NEW q \in FileOwners, Live(q), q # slot PROVE FileAt(q)' = FileAt(q)
    <3>1. q # Own(i) BY <2>16, <2>18
    <3>2. q \notin Slots => FileEntries'[q] = FileEntries[q]
      <4> SUFFICES ASSUME q \notin Slots PROVE FileEntries'[q] = FileEntries[q] OBVIOUS
      <4>1. PICK j \in FDs : q = Own(j) BY <1>0, Owned
      <4>2. j # i BY <3>1, <4>1
      <4> QED BY <1>0, <2>4, <4>1, <4>2, Owned, OwnedNext
    <3> QED BY <1>7, <2>14, <2>17, <2>18, <3>1, <3>2
  <2>19. FileAt(Own(i))' = FileAt(slot)
    <3>1. FileEntries'[Own(i)] = files[slot]
      <4>1. OwnEntry(openFileTable'[i]) = files[slot] BY <2>4, <2>6, <2>7 DEF OwnEntry
      <4> QED BY <1>0, <2>3, <4>1, OwnedNext
    <3>2. FileKept(disk.blk, disk'.blk, FileEntries[slot]) /\ DataKept(slot)
      BY <1>2, <1>4, <2>17
    <3>3. FileAt(Own(i))'.bytes = FileAt(slot).bytes
      BY <1>2, <2>16, <3>1, <3>2, UnstoredKept
    <3> QED BY <2>13, <3>3 DEF FileAt
  <2>20. FdsOf(slot) # {}
    <3>1. openFileTable[i].refCount > 0 /\ openFileTable[i].refCount = Cardinality(Descriptors(i))
      BY <1>0, <2>3, <2>f DEF RefCounts
    <3>2. Descriptors(i) # {}
      <4>1. Cardinality({}) = 0 BY FS_EmptySet
      <4>2. Cardinality(Descriptors(i)) # 0 BY <3>1
      <4> QED BY <4>1, <4>2
    <3>3. Descriptors(i) \subseteq FdsOf(slot) BY <2>9 DEF Descriptors, FdsOf
    <3> QED BY <3>2, <3>3
  <2>21. \A j \in Unlinked : FileAt(Own(j))' = FileAt(Own(j))
    <3>1. \A j \in Unlinked : Own(j) # slot BY <1>0, <1>1, Owned
    <3> QED BY <2>18, <3>1, OrphansShow
  <2>22. \A g : g \in orphans' <=> g \in orphans \/ g = FileAt(slot)
    BY <2>15, <2>19, <2>21, OrphansShow
  <2>23. orphans' = orphans \cup {FileAt(slot)} BY <2>22
  <2> QED BY <1>3, <1>5, <2>18, <2>20, <2>23
<1>9. CASE findOpenFile(slot) = {}
  <2>1. FdsOf(slot) = {} BY <1>0, <1>1, <1>9, FindOpenIs
  <2>2. openFileTable' = openFileTable BY <1>1, <1>9 DEF unlinkDirectoryEntry
  <2>3. Unlinked' = Unlinked BY <2>2 DEF Unlinked
  <2>4. \A q : FdsOf(q)' = FdsOf(q) BY <1>1, <2>2 DEF FdsOf, OwnerOf
  <2>5. LiveKept({slot})
    <3>1. CASE files[slot].first_block # SFS_EMPTY_FILE_BLOCK
      <4>1. PICK last \in LastOf(disk.blk, files[slot].first_block) :
              disk' = AfterFree(disk, files[slot].first_block, last)
        BY <1>1, <1>9, <3>1 DEF unlinkDirectoryEntry
      <4>2. 0 < allocatedBlocksForFile(FileEntries[slot])
        <5>e. PICK e : e = FileEntries[slot] OBVIOUS
        <5>1. FileFacts(slot, e) BY <1>0, <1>2, <5>e, LiveFile
        <5>2. e \in Entry /\ SizedRight(e) /\ allocatedBlocksForFile(e) \in Nat
          BY <5>1 DEF FileFacts
        <5>3. allocatedBlocksForFile(e) # 0 BY <1>2, <3>1, <5>2, <5>e, FileCapacity
        <5> QED BY <5>2, <5>3, <5>e
      <4> QED BY <1>0, <1>2, <4>1, <4>2, FreedLiveKept
    <3>2. CASE files[slot].first_block = SFS_EMPTY_FILE_BLOCK
      <4>1. disk' = disk BY <1>1, <1>9, <3>2 DEF unlinkDirectoryEntry
      <4>2. LiveKept({}) BY <4>1, SameLiveKept
      <4> QED BY <4>2 DEF LiveKept
    <3> QED BY <3>1, <3>2
  <2>6. ASSUME NEW q \in FileOwners, Live(q), q # slot PROVE FileAt(q)' = FileAt(q)
    <3>1. FileKept(disk.blk, disk'.blk, FileEntries[q]) BY <2>5, <2>6 DEF LiveKept
    <3>2. q \notin Slots => FileEntries'[q] = FileEntries[q]
      <4> SUFFICES ASSUME q \notin Slots PROVE FileEntries'[q] = FileEntries[q] OBVIOUS
      <4>1. PICK j \in FDs : q = Own(j) BY <1>0, Owned
      <4> QED BY <1>0, <2>2, <4>1, Owned, OwnedNext
    <3> QED BY <1>7, <2>4, <2>6, <3>1, <3>2
  <2>7. \A j \in Unlinked : FileAt(Own(j))' = FileAt(Own(j))
    <3>1. \A j \in Unlinked : Own(j) # slot BY <1>0, <1>1, Owned
    <3> QED BY <2>6, <3>1, OrphansShow
  <2>8. \A g : g \in orphans' <=> g \in orphans BY <2>3, <2>7, OrphansShow
  <2>9. orphans' = orphans BY <2>8
  <2> QED BY <1>3, <1>5, <2>1, <2>6, <2>9
<1> QED BY <1>8, <1>9

LEMMA RemoveIs ==
  ASSUME GoodStep, NEW name \in Names, Remove(name)
  PROVE  Api!Next
<1>0. /\ Good /\ Good' /\ Pictured /\ Pictured' /\ IInv /\ Structure /\ UniqueNames
      /\ files \in [Slots -> Entry]
  BY DEF GoodStep, Good, IInv, TypeOK
<1>1. PICK slot \in findDirectoryEntry(name) :
        unlinkDirectoryEntry(slot) /\ files' = [files EXCEPT ![slot] = UnusedEntry]
  BY DEF Remove
<1>2. slot \in Slots /\ Holds(slot, name) /\ Occupied(files[slot])
  BY <1>0, <1>1, FindIs DEF Holds
<1>3. files'[slot] = UnusedEntry /\ \A s \in Slots \ {slot} : files'[s] = files[s]
  BY <1>0, <1>1, <1>2
<1>4. Unlinks(slot) BY <1>1, <1>2, <1>3 DEF Unlinks, Remove
<1>5. /\ \A q \in FileOwners : Live(q) /\ q # slot => FileAt(q)' = FileAt(q)
      /\ orphans' = orphans \cup (IF FileAt(slot).fds = {} THEN {} ELSE {FileAt(slot)})
      /\ pos' = pos
  BY <1>4, UnlinkSeen
<1>6. dir[name] = FileAt(slot) /\ Live(slot) /\ slot \in FileOwners BY <1>2, NameShows
<1>7. dir[name] # NULL BY <1>0, <1>6, FileType, NotNull
<1>8. ~ Occupied(UnusedEntry) BY DEF Occupied, UnusedEntry
<1>9. \A s \in Slots : Holds(s, name) => s = slot BY <1>0, <1>2 DEF UniqueNames, Holds
<1>10. dir'[name] = NULL
  <2>1. \A s \in Slots : ~ Holds(s, name)' BY <1>3, <1>8, <1>9 DEF Holds
  <2> QED BY <2>1, NameShows
<1>11. ASSUME NEW n \in Names, n # name PROVE dir'[n] = dir[n]
  <2>1. ~ Holds(slot, n) BY <1>2, <1>11 DEF Holds
  <2>2. \A s \in Slots : Holds(s, n)' <=> Holds(s, n) BY <1>3, <1>8, <2>1 DEF Holds
  <2>3. \A s \in Slots : Holds(s, n) => FileAt(s)' = FileAt(s) BY <1>5, <2>1, NameShows
  <2> QED BY <2>2, <2>3, NameSame
<1>12. dir' = [dir EXCEPT ![name] = NULL]
  <2>1. dir \in [Names -> FileValues \cup {NULL}] /\ dir' \in [Names -> FileValues \cup {NULL}]
    BY <1>0 DEF Pictured
  <2> QED BY <1>10, <1>11, <2>1
<1>13. orphans' = orphans \cup Api!Orphaned(name) BY <1>5, <1>6, <1>7 DEF Api!Orphaned
<1>14. Api!Remove(name) BY <1>5, <1>7, <1>12, <1>13 DEF Api!Remove
<1> QED BY <1>14 DEF Api!Next

\* The file in this slot gets a new name, which no other slot has after the step.
Renamed(slot, old_name, new_name) ==
    /\ old_name # new_name /\ slot \in Slots /\ Holds(slot, old_name)
    /\ Occupied(files'[slot]) /\ files'[slot].name = new_name
    /\ \A s \in Slots \ {slot}, n \in Names \ {new_name} : Holds(s, n)' <=> Holds(s, n)
    /\ \A s \in Slots \ {slot} : Holds(s, new_name) \/ (Live(s) => FileAt(s)' = FileAt(s))
    /\ FileAt(slot)' = FileAt(slot)

LEMMA RenameSeen ==
  ASSUME GoodStep, NEW slot, NEW old_name \in Names, NEW new_name \in Names,
         Renamed(slot, old_name, new_name)
  PROVE  /\ dir[old_name] # NULL
         /\ dir' = [dir EXCEPT ![new_name] = dir[old_name], ![old_name] = NULL]
<1>0. Good /\ Good' /\ Pictured /\ Pictured' /\ UniqueNames BY DEF GoodStep, Good
<1>1. /\ old_name # new_name /\ slot \in Slots /\ Holds(slot, old_name)
      /\ Occupied(files'[slot]) /\ files'[slot].name = new_name
      /\ \A s \in Slots \ {slot}, n \in Names \ {new_name} : Holds(s, n)' <=> Holds(s, n)
      /\ \A s \in Slots \ {slot} : Holds(s, new_name) \/ (Live(s) => FileAt(s)' = FileAt(s))
      /\ FileAt(slot)' = FileAt(slot)
  BY DEF Renamed
<1>2. dir[old_name] = FileAt(slot) /\ Live(slot) /\ slot \in FileOwners BY <1>1, NameShows
<1>3. dir[old_name] # NULL BY <1>0, <1>2, FileType, NotNull
<1>4. dir'[new_name] = dir[old_name]
  <2>1. Holds(slot, new_name)' BY <1>1 DEF Holds
  <2> QED BY <1>1, <1>2, <2>1, NameShows
<1>5. dir'[old_name] = NULL
  <2>1. ~ Holds(slot, old_name)' BY <1>1 DEF Holds
  <2>2. \A s \in Slots : Holds(s, old_name) => s = slot BY <1>0, <1>1 DEF UniqueNames, Holds
  <2>3. \A s \in Slots : ~ Holds(s, old_name)' BY <1>1, <2>1, <2>2
  <2> QED BY <2>3, NameShows
<1>6. ASSUME NEW n \in Names, n # old_name, n # new_name PROVE dir'[n] = dir[n]
  <2>1. ~ Holds(slot, n) /\ ~ Holds(slot, n)' BY <1>1, <1>6 DEF Holds
  <2>2. \A s \in Slots : Holds(s, n)' <=> Holds(s, n) BY <1>1, <1>6, <2>1
  <2>3. ASSUME NEW s \in Slots, Holds(s, n) PROVE FileAt(s)' = FileAt(s)
    <3>1. s # slot /\ ~ Holds(s, new_name) BY <1>6, <2>1, <2>3 DEF Holds
    <3> QED BY <1>1, <2>3, <3>1, NameShows
  <2> QED BY <2>2, <2>3, NameSame
<1>7. dir' = [dir EXCEPT ![new_name] = dir[old_name], ![old_name] = NULL]
  <2>1. dir \in [Names -> FileValues \cup {NULL}] /\ dir' \in [Names -> FileValues \cup {NULL}]
    BY <1>0 DEF Pictured
  <2> QED BY <1>1, <1>4, <1>5, <1>6, <2>1
<1> QED BY <1>3, <1>7

LEMMA RenameFreshIs ==
  ASSUME GoodStep, NEW old_name \in Names, NEW new_name \in Names,
         RenameFresh(old_name, new_name)
  PROVE  Api!Next
<1>0. /\ Good /\ Good' /\ Pictured /\ Pictured' /\ IInv /\ Structure /\ UniqueNames
      /\ files \in [Slots -> Entry]
  BY DEF GoodStep, Good, IInv, TypeOK
<1>1. PICK slot \in findDirectoryEntry(old_name) : files' = [files EXCEPT ![slot].name = new_name]
  BY DEF RenameFresh
<1>2. /\ old_name # new_name /\ disk' = disk /\ data' = data /\ openFileTable' = openFileTable
      /\ openFileDescTable' = openFileDescTable
  BY DEF RenameFresh
<1>3. slot \in Slots /\ Holds(slot, old_name) /\ Occupied(files[slot])
  BY <1>0, <1>1, FindIs DEF Holds
<1>4. \A s \in Slots : ~ Holds(s, new_name) BY <1>0, FindIs DEF RenameFresh
<1>e. PICK e : e = [files[slot] EXCEPT !.name = new_name] OBVIOUS
<1>5. /\ files'[slot] = e /\ e.name = new_name /\ e.size = files[slot].size
      /\ e.first_block = files[slot].first_block
      /\ \A s \in Slots \ {slot} : files'[s] = files[s]
  <2>1. files[slot] \in Entry BY <1>0, <1>3
  <2>2. e.name = new_name /\ e.size = files[slot].size /\ e.first_block = files[slot].first_block
    BY <1>e, <2>1 DEF Entry
  <2> QED BY <1>0, <1>1, <1>3, <1>e, <2>2
<1>6. Unlinked' = Unlinked BY <1>2 DEF Unlinked
<1>7. ASSUME NEW q \in FileOwners, Live(q) PROVE FileAt(q)' = FileAt(q)
  <2>1. LiveKept({}) BY <1>2, SameLiveKept
  <2>2. FileKept(disk.blk, disk'.blk, FileEntries[q]) BY <1>7, <2>1 DEF LiveKept
  <2>3. DataKept(q) BY <1>2 DEF DataKept
  <2>4. FileEntries'[q].size = FileEntries[q].size
        /\ FileEntries'[q].first_block = FileEntries[q].first_block
    <3>1. CASE q \in Slots BY <1>0, <1>5, <3>1, Owned, OwnedNext
    <3>2. CASE q \notin Slots
      <4>1. PICK j \in FDs : q = Own(j) BY <1>0, <3>2, Owned
      <4> QED BY <1>0, <1>2, <4>1, Owned, OwnedNext
    <3> QED BY <3>1, <3>2
  <2>5. FileAt(q)'.bytes = FileAt(q).bytes BY <1>7, <2>2, <2>3, <2>4, UnstoredKept
  <2>6. FdsOf(q)' = FdsOf(q) BY <1>2 DEF FdsOf, OwnerOf
  <2> QED BY <2>5, <2>6 DEF FileAt
<1>8. Renamed(slot, old_name, new_name)
  <2>1. Occupied(files'[slot]) BY <1>3, <1>5 DEF Occupied
  <2>2. \A s \in Slots \ {slot}, n \in Names \ {new_name} : Holds(s, n)' <=> Holds(s, n)
    BY <1>5 DEF Holds
  <2>3. \A s \in Slots : Live(s) => FileAt(s)' = FileAt(s) BY <1>0, <1>7, Owned
  <2>4. Live(slot) BY <1>0, <1>3, Owned
  <2> QED BY <1>2, <1>3, <1>5, <2>1, <2>2, <2>3, <2>4 DEF Renamed
<1>9. /\ dir[old_name] # NULL
      /\ dir' = [dir EXCEPT ![new_name] = dir[old_name], ![old_name] = NULL]
  BY <1>8, RenameSeen
<1>10. orphans' = orphans
  <2>1. \A j \in Unlinked : FileAt(Own(j))' = FileAt(Own(j)) BY <1>7, OrphansShow
  <2>2. \A g : g \in orphans' <=> g \in orphans BY <1>6, <2>1, OrphansShow
  <2> QED BY <2>2
<1>11. pos' = pos BY <1>0, <1>2 DEF Pictured, PosImage
<1>12. Api!Orphaned(new_name) = {}
  <2>1. dir[new_name] = NULL BY <1>4, NameShows
  <2> QED BY <2>1 DEF Api!Orphaned
<1>13. orphans' = orphans \cup Api!Orphaned(new_name) BY <1>10, <1>12
<1>14. Api!Rename(old_name, new_name) BY <1>2, <1>9, <1>11, <1>13 DEF Api!Rename
<1> QED BY <1>14 DEF Api!Next

LEMMA RenameOverIs ==
  ASSUME GoodStep, NEW old_name \in Names, NEW new_name \in Names,
         RenameOver(old_name, new_name)
  PROVE  Api!Next
<1>0. /\ Good /\ Good' /\ Pictured /\ Pictured' /\ IInv /\ Structure /\ UniqueNames
      /\ files \in [Slots -> Entry]
  BY DEF GoodStep, Good, IInv, TypeOK
<1>1. PICK slot \in findDirectoryEntry(old_name), victim \in findDirectoryEntry(new_name) :
        /\ unlinkDirectoryEntry(victim)
        /\ files' = [files EXCEPT ![victim] = UnusedEntry, ![slot].name = new_name]
  BY DEF RenameOver
<1>2. old_name # new_name /\ data' = data /\ openFileDescTable' = openFileDescTable
  BY DEF RenameOver
<1>3. /\ slot \in Slots /\ Holds(slot, old_name) /\ Occupied(files[slot])
      /\ victim \in Slots /\ Holds(victim, new_name) /\ Occupied(files[victim])
  BY <1>0, <1>1, FindIs DEF Holds
<1>4. slot # victim BY <1>2, <1>3 DEF Holds
<1>e. PICK e : e = [files[slot] EXCEPT !.name = new_name] OBVIOUS
<1>5. /\ files'[slot] = e /\ e.name = new_name /\ e.size = files[slot].size
      /\ e.first_block = files[slot].first_block
      /\ files'[victim] = UnusedEntry
      /\ \A s \in Slots \ {slot, victim} : files'[s] = files[s]
  <2>1. files[slot] \in Entry BY <1>0, <1>3
  <2>2. e.name = new_name /\ e.size = files[slot].size /\ e.first_block = files[slot].first_block
    BY <1>e, <2>1 DEF Entry
  <2> QED BY <1>0, <1>1, <1>3, <1>4, <1>e, <2>2
<1>6. Unlinks(victim) BY <1>1, <1>2, <1>3, <1>5 DEF Unlinks
<1>7. /\ \A q \in FileOwners : Live(q) /\ q # victim => FileAt(q)' = FileAt(q)
      /\ orphans' = orphans \cup (IF FileAt(victim).fds = {} THEN {} ELSE {FileAt(victim)})
      /\ pos' = pos
  BY <1>6, UnlinkSeen
<1>8. Renamed(slot, old_name, new_name)
  <2>1. Occupied(files'[slot]) BY <1>3, <1>5 DEF Occupied
  <2>2. ASSUME NEW s \in Slots \ {slot}, NEW n \in Names \ {new_name}
        PROVE  Holds(s, n)' <=> Holds(s, n)
    <3>1. CASE s = victim
      <4>1. ~ Holds(victim, n) BY <1>3, <2>2 DEF Holds
      <4>2. ~ Holds(victim, n)' BY <1>5 DEF Holds, Occupied, UnusedEntry
      <4> QED BY <3>1, <4>1, <4>2
    <3>2. CASE s # victim BY <1>5, <3>2 DEF Holds
    <3> QED BY <3>1, <3>2
  <2>3. \A s \in Slots \ {slot} : Holds(s, new_name) \/ (Live(s) => FileAt(s)' = FileAt(s))
    BY <1>0, <1>3, <1>7, Owned
  <2>4. Live(slot) /\ slot \in FileOwners BY <1>0, <1>3, Owned
  <2>5. FileAt(slot)' = FileAt(slot) BY <1>4, <1>7, <2>4
  <2> QED BY <1>2, <1>3, <1>5, <2>1, <2>2, <2>3, <2>5 DEF Renamed
<1>9. /\ dir[old_name] # NULL
      /\ dir' = [dir EXCEPT ![new_name] = dir[old_name], ![old_name] = NULL]
  BY <1>8, RenameSeen
<1>10. dir[new_name] = FileAt(victim) /\ Live(victim) /\ victim \in FileOwners
  BY <1>3, NameShows
<1>11. dir[new_name] # NULL BY <1>0, <1>10, FileType, NotNull
<1>12. orphans' = orphans \cup Api!Orphaned(new_name) BY <1>7, <1>10, <1>11 DEF Api!Orphaned
<1>13. Api!Rename(old_name, new_name) BY <1>2, <1>7, <1>9, <1>12 DEF Api!Rename
<1> QED BY <1>13 DEF Api!Next

-----------------------------------------------------------------------------
(* No file is larger than the largest file *)

FilesBounded(f) == \A s \in Slots : f[s].size <= SFS_MAX_FILE_SIZE

TableBounded(t) ==
    \A i \in FDs : t[i] # NULL => t[i].unlinkedFile.size <= SFS_MAX_FILE_SIZE

LEMMA UnusedBounded == UnusedEntry.size <= SFS_MAX_FILE_SIZE
BY DEF UnusedEntry

LEMMA AddedBounded ==
  ASSUME IInv, SizesBounded, NEW slot, addOpenFileEntry(slot)
  PROVE  TableBounded(openFileTable')
<1>0. TypeOK /\ openFileTable \in [FDs -> OpenFile \cup {NULL}] BY DEF IInv, TypeOK
<1>1. PICK fd \in FDs, i \in FDs :
        /\ openFileDescTable[fd] = NULL
        /\ openFileDescTable' =
               [openFileDescTable EXCEPT ![fd] = [fileEntry |-> i, currPos |-> 0]]
        /\ openFileTable' = [openFileTable EXCEPT ![i] =
               IF openFileTable[i] # NULL
               THEN [openFileTable[i] EXCEPT !.refCount = @ + 1]
               ELSE [refCount |-> 1, unlinked |-> FALSE, diskFile |-> slot,
                     unlinkedFile |-> UnusedEntry]]
  BY <1>0, addOpenFileEntryCase
<1>2. \A j \in FDs \ {i} : openFileTable'[j] = openFileTable[j] BY <1>0, <1>1
<1>3. openFileTable'[i].unlinkedFile.size <= SFS_MAX_FILE_SIZE
  <2>1. CASE openFileTable[i] # NULL
    <3>f. PICK f : f = openFileTable[i] OBVIOUS
    <3>n. PICK new : new = [f EXCEPT !.refCount = @ + 1] OBVIOUS
    <3>1. f \in OpenFile BY <1>0, <2>1, <3>f
    <3>2. new.unlinkedFile = f.unlinkedFile BY ONLY <3>1, <3>n DEF OpenFile
    <3>3. openFileTable'[i] = new BY <1>0, <1>1, <2>1, <3>f, <3>n
    <3> QED BY <2>1, <3>2, <3>3, <3>f DEF SizesBounded
  <2>2. CASE openFileTable[i] = NULL
    <3>n. PICK new : new = [refCount |-> 1, unlinked |-> FALSE, diskFile |-> slot,
                            unlinkedFile |-> UnusedEntry]
      OBVIOUS
    <3>1. openFileTable'[i] = new BY <1>0, <1>1, <2>2, <3>n
    <3> QED BY <3>1, <3>n, UnusedBounded
  <2> QED BY <2>1, <2>2
<1> QED BY <1>2, <1>3 DEF TableBounded, SizesBounded

LEMMA CreatedBounded ==
  ASSUME IInv, SizesBounded, NEW name, NEW slot, createFile(name, slot)
  PROVE  SizesBounded'
<1>1. addOpenFileEntry(slot)
      /\ files' = [files EXCEPT ![slot] =
            [first_block |-> SFS_EMPTY_FILE_BLOCK, size |-> 0, name |-> name]]
  BY DEF createFile
<1>2. TableBounded(openFileTable') BY <1>1, AddedBounded
<1>3. FilesBounded(files')
  <2>1. files \in [Slots -> Entry] BY DEF IInv, TypeOK
  <2>e. PICK e : e = [first_block |-> SFS_EMPTY_FILE_BLOCK, size |-> 0, name |-> name] OBVIOUS
  <2>2. e.size = 0 BY <2>e
  <2>3. \A s \in Slots : files'[s] = e \/ files'[s] = files[s] BY <1>1, <2>1, <2>e
  <2> QED BY <2>2, <2>3 DEF FilesBounded, SizesBounded
<1> QED BY <1>2, <1>3 DEF TableBounded, FilesBounded, SizesBounded

LEMMA UnlinkedBounded ==
  ASSUME IInv, SizesBounded, NEW slot \in Slots, unlinkDirectoryEntry(slot)
  PROVE  TableBounded(openFileTable')
<1>0. openFileTable \in [FDs -> OpenFile \cup {NULL}] /\ files[slot] \in Entry
  BY DEF IInv, TypeOK
<1>1. CASE findOpenFile(slot) # {}
  <2>1. PICK i \in findOpenFile(slot) :
          openFileTable' = [openFileTable EXCEPT ![i].unlinkedFile = files[slot],
                                                 ![i].diskFile = UnlinkedFile,
                                                 ![i].unlinked = TRUE]
    BY <1>1 DEF unlinkDirectoryEntry
  <2>f. PICK f : f = openFileTable[i] OBVIOUS
  <2>2. i \in FDs /\ f \in OpenFile BY <1>0, <2>f DEF findOpenFile
  <2>n. PICK new : new = [[[f EXCEPT !.unlinkedFile = files[slot]]
                             EXCEPT !.diskFile = UnlinkedFile] EXCEPT !.unlinked = TRUE]
    OBVIOUS
  <2>3. openFileTable'[i] = new /\ \A j \in FDs \ {i} : openFileTable'[j] = openFileTable[j]
    BY <1>0, <2>1, <2>2, <2>f, <2>n
  <2>4. new.unlinkedFile = files[slot] BY ONLY <2>2, <2>n DEF OpenFile
  <2> QED BY <2>3, <2>4 DEF TableBounded, SizesBounded
<1>2. CASE findOpenFile(slot) = {}
  BY <1>2 DEF unlinkDirectoryEntry, TableBounded, SizesBounded
<1> QED BY <1>1, <1>2

LEMMA AssignedBounded ==
  ASSUME IInv, SizesBounded, NEW i \in FDs, openFileTable[i] # NULL,
         NEW e, e.size <= SFS_MAX_FILE_SIZE, SetDiskEntry(i, e)
  PROVE  SizesBounded'
<1>0. openFileTable \in [FDs -> OpenFile \cup {NULL}] /\ files \in [Slots -> Entry]
  BY DEF IInv, TypeOK
<1>f. PICK f : f = openFileTable[i] OBVIOUS
<1>1. f \in OpenFile BY <1>0, <1>f
<1>2. CASE f.diskFile = UnlinkedFile
  <2>n. PICK new : new = [f EXCEPT !.unlinkedFile = e] OBVIOUS
  <2>1. openFileTable' = [openFileTable EXCEPT ![i] = new] /\ files' = files
    BY <1>2, <1>f, <2>n DEF SetDiskEntry
  <2>2. new.unlinkedFile = e BY ONLY <1>1, <2>n DEF OpenFile
  <2>3. openFileTable'[i] = new /\ \A j \in FDs \ {i} : openFileTable'[j] = openFileTable[j]
    BY <1>0, <2>1
  <2> QED BY <2>1, <2>2, <2>3 DEF SizesBounded
<1>3. CASE f.diskFile # UnlinkedFile
  <2>1. files' = [files EXCEPT ![f.diskFile] = e] /\ openFileTable' = openFileTable
    BY <1>3, <1>f DEF SetDiskEntry
  <2>2. \A s \in Slots : files'[s] = e \/ files'[s] = files[s] BY <1>0, <2>1
  <2> QED BY <2>1, <2>2 DEF SizesBounded
<1> QED BY <1>2, <1>3

LEMMA WrittenBounded ==
  ASSUME IInv, SizesBounded, NEW fd \in FDs, NEW buf \in Buffers, CanWrite(fd, buf),
         NEW blk, NEW first, WriteOut(fd, buf, blk, first)
  PROVE  SizesBounded'
<1>0. TypeOK /\ RefCounts /\ openFileDescTable[fd] # NULL BY DEF IInv, CanWrite
<1>i. PICK i : i = openFileDescTable[fd].fileEntry OBVIOUS
<1>p. PICK p : p = openFileDescTable[fd].currPos OBVIOUS
<1>1. i \in FDs /\ openFileTable[i] # NULL /\ p \in Nat /\ DiskEntry(i) \in Entry
  BY <1>0, <1>i, <1>p, DescriptorFile
<1>old. PICK old : old = DiskEntry(i) OBVIOUS
<1>end. PICK end : end = p + Len(buf) OBVIOUS
<1>e. PICK e : e = [old EXCEPT !.first_block = first,
                               !.size = IF end > old.size THEN end ELSE @]
  OBVIOUS
<1>2. SetDiskEntry(i, e) BY <1>e, <1>end, <1>i, <1>old, <1>p DEF WriteOut
<1>3. e.size = IF end > old.size THEN end ELSE old.size BY <1>1, <1>e, <1>old DEF Entry
<1>4. end <= SFS_MAX_FILE_SIZE
  <2>1. Len(buf) <= SFS_MAX_FILE_SIZE - p BY <1>p DEF CanWrite
  <2>2. Len(buf) \in Nat /\ SFS_MAX_FILE_SIZE \in Nat OBVIOUS
  <2> QED BY <1>1, <1>end, <2>1, <2>2
<1>5. old.size <= SFS_MAX_FILE_SIZE
  <2>1. openFileTable[i] \in OpenFile BY <1>0, <1>1 DEF TypeOK
  <2> QED BY <1>1, <1>old, <2>1 DEF SizesBounded, DiskEntry, OpenFile
<1> QED BY <1>1, <1>2, <1>3, <1>4, <1>5, AssignedBounded

LEMMA SizesNext ==
  ASSUME IInv, SizesBounded, [Next]_vars \/ ExpandedOnly
  PROVE  SizesBounded'
<1>f. files \in [Slots -> Entry] /\ openFileTable \in [FDs -> OpenFile \cup {NULL}]
  BY DEF IInv, TypeOK
<1>0. ASSUME files' = files, TableBounded(openFileTable') PROVE SizesBounded'
  BY <1>0 DEF SizesBounded, TableBounded
<1>s. ASSUME files' = files, openFileTable' = openFileTable PROVE SizesBounded'
  BY <1>s DEF SizesBounded
<1>1. ASSUME NEW name \in Names, OpenExisting(name) PROVE SizesBounded'
  BY <1>0, <1>1, AddedBounded DEF OpenExisting
<1>2. ASSUME NEW name \in Names, OpenCreate(name) PROVE SizesBounded'
  BY <1>2, CreatedBounded DEF OpenCreate
<1>3. ASSUME NEW name \in Names, OpenExpand(name) PROVE SizesBounded'
  BY <1>3, CreatedBounded DEF OpenExpand
<1>4. ASSUME NEW name \in Names, OpenNoMemory(name) PROVE SizesBounded'
  BY <1>4, <1>s DEF OpenNoMemory
<1>5. ASSUME NEW name \in Names, Remove(name) PROVE SizesBounded'
  <2>1. PICK slot \in findDirectoryEntry(name) :
          unlinkDirectoryEntry(slot) /\ files' = [files EXCEPT ![slot] = UnusedEntry]
    BY <1>5 DEF Remove
  <2>2. slot \in Slots BY EntryFound
  <2>3. TableBounded(openFileTable') BY <2>1, <2>2, UnlinkedBounded
  <2>4. \A s \in Slots : files'[s] = UnusedEntry \/ files'[s] = files[s] BY <1>f, <2>1
  <2> QED BY <2>3, <2>4, UnusedBounded DEF SizesBounded, TableBounded
<1>6. ASSUME NEW name \in Names, NEW new_name \in Names, RenameFresh(name, new_name)
      PROVE  SizesBounded'
  <2>1. PICK slot \in findDirectoryEntry(name) : files' = [files EXCEPT ![slot].name = new_name]
    BY <1>6 DEF RenameFresh
  <2>2. slot \in Slots BY EntryFound
  <2>3. \A s \in Slots : files'[s].size = files[s].size
    <3> SUFFICES ASSUME NEW s \in Slots PROVE files'[s].size = files[s].size OBVIOUS
    <3>1. files[s] \in Entry BY <1>f
    <3>2. files'[s] = files[s] \/ files'[s] = [files[s] EXCEPT !.name = new_name]
      BY <1>f, <2>1, <2>2
    <3> QED BY <3>1, <3>2 DEF Entry
  <2>4. openFileTable' = openFileTable BY <1>6 DEF RenameFresh
  <2> QED BY <2>3, <2>4 DEF SizesBounded
<1>7. ASSUME NEW name \in Names, NEW new_name \in Names, RenameOver(name, new_name)
      PROVE  SizesBounded'
  <2>1. PICK slot \in findDirectoryEntry(name), victim \in findDirectoryEntry(new_name) :
          /\ unlinkDirectoryEntry(victim)
          /\ files' = [files EXCEPT ![victim] = UnusedEntry, ![slot].name = new_name]
    BY <1>7 DEF RenameOver
  <2>2. slot \in Slots /\ victim \in Slots BY EntryFound
  <2>3. TableBounded(openFileTable') BY <2>1, <2>2, UnlinkedBounded
  <2>g. PICK g : g = [files EXCEPT ![victim] = UnusedEntry] OBVIOUS
  <2>4. UnusedEntry \in Entry BY BlockIds DEF UnusedEntry, Entry
  <2>5. g \in [Slots -> Entry] /\ \A s \in Slots : g[s] = UnusedEntry \/ g[s] = files[s]
    BY <1>f, <2>2, <2>4, <2>g
  <2>6. files' = [g EXCEPT ![slot].name = new_name] BY <2>1, <2>g
  <2>7. \A s \in Slots : files'[s].size = g[s].size
    <3> SUFFICES ASSUME NEW s \in Slots PROVE files'[s].size = g[s].size OBVIOUS
    <3>1. g[s] \in Entry BY <2>5
    <3>2. files'[s] = g[s] \/ files'[s] = [g[s] EXCEPT !.name = new_name]
      BY <2>2, <2>5, <2>6
    <3> QED BY <3>1, <3>2 DEF Entry
  <2>8. \A s \in Slots : files'[s].size <= SFS_MAX_FILE_SIZE
    BY <2>5, <2>7, UnusedBounded DEF SizesBounded
  <2> QED BY <2>3, <2>8 DEF SizesBounded, TableBounded
<1>8. ASSUME NEW fd \in FDs, Close(fd) PROVE SizesBounded'
  <2>i. PICK i : i = openFileDescTable[fd].fileEntry OBVIOUS
  <2>f. PICK f : f = openFileTable[i] OBVIOUS
  <2>1. i \in FDs /\ f \in OpenFile /\ f # NULL
    BY <1>8, <2>f, <2>i, DescriptorFile DEF Close, IInv
  <2>n. PICK new : new = [f EXCEPT !.refCount = @ - 1] OBVIOUS
  <2>2. new.unlinkedFile = f.unlinkedFile BY ONLY <2>1, <2>n DEF OpenFile
  <2>3. \/ openFileTable' = [openFileTable EXCEPT ![i] = new]
        \/ openFileTable' = [openFileTable EXCEPT ![i] = NULL]
    BY <1>8, <2>f, <2>i, <2>n DEF Close
  <2>4. \A j \in FDs : openFileTable'[j] # NULL =>
          openFileTable[j] # NULL /\ openFileTable'[j].unlinkedFile = openFileTable[j].unlinkedFile
    BY <1>f, <2>1, <2>2, <2>3, <2>f
  <2>5. files' = files BY <1>8 DEF Close
  <2> QED BY <2>4, <2>5 DEF SizesBounded
<1>9. ASSUME NEW fd \in FDs, NEW buf \in Buffers, WriteInPlace(fd, buf) PROVE SizesBounded'
  <2>1. CanWrite(fd, buf) BY <1>9 DEF WriteInPlace
  <2>2. \E blk, first : WriteOut(fd, buf, blk, first) BY <1>9 DEF WriteInPlace
  <2> QED BY <2>1, <2>2, WrittenBounded
<1>10. ASSUME NEW fd \in FDs, NEW buf \in Buffers, WriteGrow(fd, buf) PROVE SizesBounded'
  <2>1. CanWrite(fd, buf) BY <1>10 DEF WriteGrow
  <2>2. \E blk, first : WriteOut(fd, buf, blk, first) BY <1>10 DEF WriteGrow
  <2> QED BY <2>1, <2>2, WrittenBounded
<1>11. ASSUME NEW fd \in FDs, openFileDescTable[fd] # NULL,
              NEW i, i = openFileDescTable[fd].fileEntry, NEW first, NEW size,
              size <= SFS_MAX_FILE_SIZE,
              SetDiskEntry(i, [DiskEntry(i) EXCEPT !.first_block = first, !.size = size])
       PROVE  SizesBounded'
  <2>1. i \in FDs /\ openFileTable[i] # NULL /\ DiskEntry(i) \in Entry
    BY <1>11, DescriptorFile DEF IInv
  <2>e. PICK e : e = [DiskEntry(i) EXCEPT !.first_block = first, !.size = size] OBVIOUS
  <2>2. e.size = size BY <2>1, <2>e DEF Entry
  <2>3. SetDiskEntry(i, e) BY <1>11, <2>e
  <2> QED BY <1>11, <2>1, <2>2, <2>3, AssignedBounded
<1>12. ASSUME NEW fd \in FDs, NEW length \in Lengths, TruncateGrow(fd, length)
       PROVE  SizesBounded'
  <2>i. PICK i : i = openFileDescTable[fd].fileEntry OBVIOUS
  <2>1. openFileDescTable[fd] # NULL /\ length <= SFS_MAX_FILE_SIZE BY <1>12 DEF TruncateGrow
  <2>2. \E first :
          SetDiskEntry(i, [DiskEntry(i) EXCEPT !.first_block = first, !.size = length])
    BY <1>12, <2>i DEF TruncateGrow
  <2> QED BY <1>11, <2>1, <2>2, <2>i
<1>13. ASSUME NEW fd \in FDs, NEW length \in Lengths, TruncateShrink(fd, length)
       PROVE  SizesBounded'
  <2>i. PICK i : i = openFileDescTable[fd].fileEntry OBVIOUS
  <2>1. openFileDescTable[fd] # NULL /\ length < DiskEntry(i).size
    BY <1>13, <2>i DEF TruncateShrink
  <2>2. \E first :
          SetDiskEntry(i, [DiskEntry(i) EXCEPT !.first_block = first, !.size = length])
    BY <1>13, <2>i DEF TruncateShrink
  <2>3. length <= SFS_MAX_FILE_SIZE
    <3>1. i \in FDs /\ openFileTable[i] # NULL /\ openFileTable[i] \in OpenFile
          /\ DiskEntry(i) \in Entry
      BY <2>1, <2>i, DescriptorFile DEF IInv
    <3>2. DiskEntry(i).size <= SFS_MAX_FILE_SIZE
      BY <3>1 DEF SizesBounded, DiskEntry, OpenFile
    <3>3. DiskEntry(i).size \in Nat BY <3>1 DEF Entry
    <3>4. length \in Nat /\ SFS_MAX_FILE_SIZE \in Nat OBVIOUS
    <3> QED BY <2>1, <3>2, <3>3, <3>4
  <2> QED BY <1>11, <2>1, <2>2, <2>3, <2>i
<1>14. ASSUME NEW fd \in FDs, NEW len \in Lengths, Read(fd, len) PROVE SizesBounded'
  BY <1>14, <1>s DEF Read
<1>15. ASSUME NEW fd \in FDs, NEW delta \in Deltas, Seek(fd, delta) PROVE SizesBounded'
  BY <1>15, <1>s DEF Seek
<1>16. CASE UNCHANGED vars BY <1>16, <1>s DEF vars
<1>17. CASE ExpandedOnly BY <1>17, <1>s DEF ExpandedOnly
<1> QED
  BY <1>1, <1>2, <1>3, <1>4, <1>5, <1>6, <1>7, <1>8, <1>9, <1>10, <1>12, <1>13, <1>14, <1>15,
     <1>16, <1>17 DEF Next

LEMMA SizesInit == Init => SizesBounded
<1> SUFFICES ASSUME Init PROVE SizesBounded OBVIOUS
<1>1. \A i \in FDs : openFileTable[i] = NULL BY DEF Init
<1>2. \A s \in Slots : files[s].size <= SFS_MAX_FILE_SIZE
  <2>1. CASE Formatted BY <2>1, UnusedBounded DEF Formatted
  <2>2. CASE LegacyImage
    <3>1. PICK name \in Names :
            files = [s \in Slots |-> IF s = <<0, 1>>
                                     THEN [first_block |-> 1, size |-> 0, name |-> name]
                                     ELSE UnusedEntry]
      BY <2>2 DEF LegacyImage
    <3>e. PICK e : e = [first_block |-> 1, size |-> 0, name |-> name] OBVIOUS
    <3>2. e.size = 0 BY <3>e
    <3>3. \A s \in Slots : files[s] = e \/ files[s] = UnusedEntry BY <3>1, <3>e
    <3> QED BY <3>2, <3>3, UnusedBounded
  <2> QED BY <2>1, <2>2 DEF Init
<1> QED BY <1>1, <1>2 DEF SizesBounded

-----------------------------------------------------------------------------
(* Both programs implement SfsApi *)

(* Every call of SfsDisk is a step of SfsApi. *)
LEMMA StepIs ==
  ASSUME GoodStep, SizesBounded, Next \/ ExpandedOnly
  PROVE  Api!Next \/ UNCHANGED Api!apiVars
<1>1. ASSUME NEW name \in Names, OpenExisting(name) PROVE Api!Next
  BY <1>1, OpenExistingIs
<1>2. ASSUME NEW name \in Names, OpenCreate(name) PROVE Api!Next
  BY <1>2, OpenCreateIs
<1>3. ASSUME NEW name \in Names, OpenExpand(name) PROVE Api!Next
  BY <1>3, OpenExpandIs
<1>4. ASSUME NEW name \in Names, OpenNoMemory(name) PROVE ExpandedOnly
  BY <1>4 DEF OpenNoMemory, ExpandedOnly
<1>5. ASSUME NEW name \in Names, Remove(name) PROVE Api!Next
  BY <1>5, RemoveIs
<1>6. ASSUME NEW name \in Names, NEW new_name \in Names, RenameFresh(name, new_name)
      PROVE  Api!Next
  BY <1>6, RenameFreshIs
<1>7. ASSUME NEW name \in Names, NEW new_name \in Names, RenameOver(name, new_name)
      PROVE  Api!Next
  BY <1>7, RenameOverIs
<1>8. ASSUME NEW fd \in FDs, Close(fd) PROVE Api!Next
  BY <1>8, CloseIs
<1>9. ASSUME NEW fd \in FDs, NEW len \in Lengths, Read(fd, len) PROVE Api!Next
  BY <1>9, ReadIs
<1>10. ASSUME NEW fd \in FDs, NEW buf \in Buffers, WriteInPlace(fd, buf) PROVE Api!Next
  BY <1>10, WriteInPlaceIs
<1>11. ASSUME NEW fd \in FDs, NEW buf \in Buffers, WriteGrow(fd, buf) PROVE Api!Next
  BY <1>11, WriteGrowIs
<1>12. ASSUME NEW fd \in FDs, NEW delta \in Deltas, Seek(fd, delta) PROVE Api!Next
  BY <1>12, SeekIs
<1>13. ASSUME NEW fd \in FDs, NEW length \in Lengths, TruncateGrow(fd, length) PROVE Api!Next
  BY <1>13, TruncateGrowIs
<1>14. ASSUME NEW fd \in FDs, NEW length \in Lengths, TruncateShrink(fd, length) PROVE Api!Next
  BY <1>14, TruncateShrinkIs
<1>15. ASSUME ExpandedOnly PROVE UNCHANGED Api!apiVars
  BY <1>15, ExpandedOnlyIs
<1> QED
  BY <1>1, <1>2, <1>3, <1>4, <1>5, <1>6, <1>7, <1>8, <1>9, <1>10, <1>11, <1>12, <1>13, <1>14,
     <1>15 DEF Next

(* The invariant of the refinement. *)
ImplInv == BothInv /\ UniqueNames /\ SizesBounded /\ Pictured

LEMMA ImplInvGood == ImplInv => Good
BY DEF ImplInv, BothInv, Good

LEMMA ImplInvGoodNext == ImplInv' => Good'
BY ImplInvGood, PTL

LEMMA ImplInvInit == ImplInit => ImplInv
<1> SUFFICES ASSUME ImplInit PROVE ImplInv OBVIOUS
<1>1. Init BY DEF ImplInit, BaselineInit
<1>2. BothInv /\ UniqueNames /\ SizesBounded BY <1>1, BothInit, NamesInit, SizesInit
<1>3. Good BY <1>2 DEF BothInv, Good
<1>4. Shown BY DEF ImplInit, Shown
<1> QED BY <1>2, <1>3, <1>4, ShownPictured DEF ImplInv

(* What is in memory after a step of either program. *)
LEMMA ImplSteps ==
  ASSUME ImplInv, ImplNext
  PROVE  Next \/ ExpandedOnly
<1>1. IInv /\ Structure /\ PosWithinSize BY DEF ImplInv, BothInv
<1>2. CASE program = "sfs-disk" /\ Next BY <1>2
<1>3. CASE program = "sfs-baseline-ref" /\ BaselineNext
  <2>1. CacheAgrees BY <1>3 DEF ImplInv, BothInv
  <2> QED BY <1>1, <1>3, <2>1, BaselineSteps
<1> QED BY <1>2, <1>3 DEF ImplNext

LEMMA ImplInvNext ==
  ASSUME ImplInv, ImplNext
  PROVE  ImplInv'
<1>1. IInv /\ Structure /\ UniqueNames /\ SizesBounded /\ BothInv BY DEF ImplInv, BothInv
<1>2. Next \/ ExpandedOnly BY ImplSteps
<1>3. BothInv' BY <1>1, BothNext
<1>4. IInv' /\ Structure' /\ PosWithinSize' BY <1>3 DEF BothInv
<1>5. UniqueNames'
  <2>1. CASE Next BY <1>1, <1>4, <2>1, NamesNext
  <2>2. CASE ExpandedOnly
    <3>1. files' = files BY <2>2 DEF ExpandedOnly
    <3> QED BY <1>1, <3>1 DEF UniqueNames
  <2> QED BY <1>2, <2>1, <2>2
<1>6. SizesBounded' BY <1>1, <1>2, SizesNext
<1>7. Good' BY <1>4, <1>5 DEF Good
<1>8. Shown' BY DEF ImplNext, Shown
<1> QED BY <1>3, <1>5, <1>6, <1>7, <1>8, ShownPicturedNext DEF ImplInv

LEMMA ImplInvStutters ==
  ASSUME ImplInv, UNCHANGED <<baselineVars, program, dir, orphans, pos>>
  PROVE  ImplInv'
<1>1. UNCHANGED vars /\ UNCHANGED <<program, dir, orphans, pos>> BY DEF baselineVars
<1>2. BothInv' BY BothNext DEF ImplInv
<1>3. /\ disk' = disk /\ data' = data /\ files' = files /\ openFileTable' = openFileTable
      /\ openFileDescTable' = openFileDescTable
  BY <1>1 DEF vars
<1>4. UniqueNames' /\ SizesBounded' BY <1>3 DEF ImplInv, UniqueNames, SizesBounded
<1>5. FileEntries' = FileEntries /\ Unlinked' = Unlinked /\ PosImage' = PosImage
  BY <1>3 DEF FileEntries, Unlinked, PosImage
<1>6. ASSUME NEW o PROVE FileAt(o)' = FileAt(o)
  <2>1. FdsOf(o)' = FdsOf(o) BY <1>3 DEF FdsOf, OwnerOf
  <2> QED BY <1>3, <1>5, <2>1 DEF FileAt
<1>7. ASSUME NEW s, NEW name PROVE Holds(s, name)' <=> Holds(s, name)
  BY <1>3 DEF Holds
<1>8. Pictured BY DEF ImplInv
<1>9. /\ dir' \in [Names -> FileValues \cup {NULL}]
      /\ \A name \in Names : \A s \in Slots : Holds(s, name)' => dir'[name] = FileAt(s)'
      /\ \A name \in Names : (\A s \in Slots : ~ Holds(s, name)') => dir'[name] = NULL
      /\ \A f : f \in orphans' <=> \E i \in Unlinked' : f = FileAt(Own(i))'
      /\ pos' = PosImage'
  BY <1>1, <1>5, <1>6, <1>7, <1>8 DEF Pictured
<1>10. Pictured' BY <1>9 DEF Pictured
<1> QED BY <1>2, <1>4, <1>10 DEF ImplInv

(* The first image shows the files of an initial state of SfsApi. *)
LEMMA FirstImage == ImplInit => Api!Init
<1> SUFFICES ASSUME ImplInit PROVE Api!Init OBVIOUS
<1>0. ImplInv /\ Good /\ Pictured BY ImplInvInit, ImplInvGood DEF ImplInv
<1>1. Init BY DEF ImplInit, BaselineInit
<1>2. openFileTable = [i \in FDs |-> NULL] /\ openFileDescTable = [fd \in FDs |-> NULL]
  BY <1>1 DEF Init
<1>3. orphans = {}
  <2>1. Unlinked = {} BY <1>2 DEF Unlinked
  <2> QED BY <1>0, <2>1 DEF Pictured
<1>4. pos = [fd \in FDs |-> Api!Closed] BY <1>0, <1>2 DEF Pictured, PosImage, Api!Closed
<1>5. \A s \in Slots : Occupied(files[s]) => files[s].size = 0
  <2>1. CASE Formatted
    <3>1. ~ Occupied(UnusedEntry) BY DEF Occupied, UnusedEntry
    <3> QED BY <2>1, <3>1 DEF Formatted
  <2>2. CASE LegacyImage
    <3>1. PICK name \in Names :
            files = [s \in Slots |-> IF s = <<0, 1>>
                                     THEN [first_block |-> 1, size |-> 0, name |-> name]
                                     ELSE UnusedEntry]
      BY <2>2 DEF LegacyImage
    <3>e. PICK e : e = [first_block |-> 1, size |-> 0, name |-> name] OBVIOUS
    <3>2. e.size = 0 /\ UnusedEntry.size = 0 BY <3>e DEF UnusedEntry
    <3>3. \A s \in Slots : files[s] = e \/ files[s] = UnusedEntry BY <3>1, <3>e
    <3> QED BY <3>2, <3>3
  <2> QED BY <1>1, <2>1, <2>2 DEF Init
<1>6. ASSUME NEW name \in Names, NEW s \in Slots, Holds(s, name)
      PROVE  dir[name] = Api!NewFile({})
  <2>1. /\ Occupied(files[s]) /\ s \in FileOwners /\ Live(s) /\ FileEntries[s] = files[s]
    BY <1>0, <1>6, Owned DEF Holds
  <2>2. FileAt(s) \in FileValues /\ Len(FileAt(s).bytes) = 0
    BY <1>0, <1>5, <2>1, FileType
  <2>3. FileAt(s).bytes = <<>> BY <2>2, EmptySeq DEF FileValues
  <2>4. FdsOf(s) = {} BY <1>2 DEF FdsOf
  <2>5. dir[name] = FileAt(s) BY <1>0, <1>6 DEF Pictured
  <2> QED BY <2>3, <2>4, <2>5 DEF FileAt, Api!NewFile
<1>7. ASSUME NEW name \in Names PROVE dir[name] \in {NULL, Api!NewFile({})}
  BY <1>0, <1>6 DEF Pictured
<1>8. dir \in [Names -> {NULL, Api!NewFile({})}] BY <1>0, <1>7 DEF Pictured
<1> QED BY <1>3, <1>4, <1>8 DEF Api!Init

(* Whichever of the two programs is linked, a program that uses it sees the files of    *)
(* sfs-api.h, for every size of image, every number of descriptors and every sequence   *)
(* of calls: it reads what was written and nothing else, zeros where a file grew, a     *)
(* rename takes one step, an unlinked file lives until its last close, and a call that  *)
(* fails changes nothing.                                                               *)
THEOREM ImplementsApiCorrect == ImplSpec => ImplementsApi
<1>1. ImplInv /\ [ImplNext]_<<baselineVars, program, dir, orphans, pos>>
      => ImplInv' /\ [Api!Next]_Api!apiVars
  <2> SUFFICES ASSUME ImplInv, [ImplNext]_<<baselineVars, program, dir, orphans, pos>>
               PROVE  ImplInv' /\ [Api!Next]_Api!apiVars
    OBVIOUS
  <2>1. CASE ImplNext
    <3>1. ImplInv' BY <2>1, ImplInvNext
    <3>2. Good /\ Pictured /\ SizesBounded BY ImplInvGood DEF ImplInv
    <3>3. Good' /\ Pictured' BY <2>1, <3>1, ImplInvGoodNext DEF ImplInv
    <3>4. GoodStep BY <3>2, <3>3 DEF GoodStep
    <3>5. Next \/ ExpandedOnly BY <2>1, ImplSteps
    <3> QED BY <3>1, <3>2, <3>4, <3>5, StepIs
  <2>2. CASE UNCHANGED <<baselineVars, program, dir, orphans, pos>>
    <3>1. UNCHANGED Api!apiVars BY <2>2 DEF Api!apiVars
    <3> QED BY <2>2, <3>1, ImplInvStutters
  <2> QED BY <2>1, <2>2
<1> QED BY <1>1, ImplInvInit, FirstImage, PTL DEF ImplSpec, ImplementsApi, Api!Spec
=============================================================================
