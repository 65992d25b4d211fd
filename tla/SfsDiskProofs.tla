---------------------------- MODULE SfsDiskProofs ----------------------------
(***************************************************************************)
(* Theorems about the file system of SfsDisk, and the facts about the      *)
(* block layer that they rest on: what a walk of a block list returns, and *)
(* that the operations of the allocator keep the disk well typed.          *)
(*                                                                         *)
(* List is a recursive function on sequences, so the first part of this    *)
(* module shows that such a function exists (WalkUnfold) and what it       *)
(* computes (ListIsPath).                                                  *)
(*                                                                         *)
(* The second part is about the block lists: the free list, the            *)
(* directory's blocks and every file's blocks are well formed, share no    *)
(* block, leave out none, and are as long as the sizes say.  The invariant *)
(* (Structure) gives every list an owner, and every owner the path of the  *)
(* blocks on its list (Laid).  The block headers are determined by the     *)
(* paths, so that what an operation of the allocator does to the headers   *)
(* is what it does to the paths: cut one in two, or join two.              *)
(*                                                                         *)
(* The last part is about what those find who walk these lists: the        *)
(* positions of the descriptors, for which it matters that the entries in  *)
(* use are in blocks of the directory; and the directory, whose entries    *)
(* have a physical order that no call disturbs.  From this follows what    *)
(* the searches for a name find, what a loop over sfs_list (SfsList)       *)
(* returns while other threads go on, and that sfs-fsck (SfsFsck) accepts  *)
(* the image.  It ends with the operations that move no block of a path    *)
(* (GrownKept, ExpandedKept), as the reference file system needs them.     *)
(***************************************************************************)
EXTENDS SfsDisk, SfsList, SfsFsck, NaturalSets

-----------------------------------------------------------------------------
(* The walk that List is defined by *)

(* The block that comes after the blocks of s, and whether the walk takes it. *)
Following(blk, first, s) == IF s = <<>> THEN first ELSE blk[s[Len(s)]].next

Goes(blk, first, s) == Following(blk, first, s) \in Blocks /\ Len(s) < NBlocks

Walk(blk, first) ==
    CHOOSE walk : walk = [seen \in Seq(Blocks) |->
        IF Goes(blk, first, seen)
        THEN walk[Append(seen, Following(blk, first, seen))] ELSE seen]

(* Element i of a path is the one that link i leads to. *)
Link(blk, first, s, i) == IF i = 1 THEN first ELSE blk[s[i - 1]].next

(* t is the whole path that continues s. *)
Path(blk, first, s, t) ==
    /\ t \in Seq(Blocks)
    /\ Len(s) <= Len(t)
    /\ \A i \in 1 .. Len(s) : t[i] = s[i]
    /\ \A i \in Len(s) + 1 .. Len(t) : i <= NBlocks /\ t[i] = Link(blk, first, t, i)
    /\ ~ Goes(blk, first, t)

(* A path continues s exactly when it continues s with one more block, as long *)
(* as the walk takes one more; a path that takes no more block is s itself.    *)
LEMMA PathStep ==
  ASSUME NEW blk, NEW first, NEW s \in Seq(Blocks), NEW t
  PROVE  Path(blk, first, s, t) <=>
            IF Goes(blk, first, s)
            THEN Path(blk, first, Append(s, Following(blk, first, s)), t)
            ELSE t = s
<1> USE BlocksAssumption
<1> DEFINE b == Following(blk, first, s)
           u == Append(s, b)
<1>1. CASE Goes(blk, first, s)
  <2>1. b \in Blocks /\ u \in Seq(Blocks) /\ Len(u) = Len(s) + 1 /\ Len(s) \in Nat
        /\ u[Len(u)] = b /\ \A i \in 1 .. Len(s) : u[i] = s[i]
    BY <1>1 DEF Goes
  <2>2. ASSUME Path(blk, first, s, t) PROVE Path(blk, first, u, t)
    <3>1. t \in Seq(Blocks) /\ Len(t) \in Nat /\ Len(s) <= Len(t) BY <2>2 DEF Path
    <3>2. Len(t) # Len(s)
      <4> SUFFICES ASSUME Len(t) = Len(s) PROVE FALSE OBVIOUS
      <4>1. t = s BY <2>2, <3>1 DEF Path
      <4> QED BY <4>1, <1>1, <2>2 DEF Path
    <3>3. t[Len(s) + 1] = Link(blk, first, t, Len(s) + 1) BY <2>2, <3>1, <3>2, <2>1 DEF Path
    <3>4. t[Len(s) + 1] = b
      <4>1. CASE s = <<>> BY <4>1, <3>3 DEF Link, Following
      <4>2. CASE s # <<>>
        <5>1. Len(s) # 0 /\ t[Len(s)] = s[Len(s)] BY <4>2, <2>2, <2>1 DEF Path
        <5>2. Link(blk, first, t, Len(s) + 1) = blk[t[Len(s)]].next BY <5>1, <2>1 DEF Link
        <5> QED BY <5>1, <5>2, <3>3, <4>2 DEF Following
      <4> QED BY <4>1, <4>2
    <3>5. \A i \in 1 .. Len(u) : t[i] = u[i] BY <2>1, <2>2, <3>4 DEF Path
    <3> HIDE DEF u
    <3> QED BY <3>1, <3>2, <3>5, <2>1, <2>2 DEF Path
  <2>3. ASSUME Path(blk, first, u, t) PROVE Path(blk, first, s, t)
    <3>1. t \in Seq(Blocks) /\ Len(t) \in Nat /\ Len(s) + 1 <= Len(t) BY <2>1, <2>3 DEF Path
    <3>2. \A i \in 1 .. Len(s) : t[i] = s[i]
      <4> HIDE DEF u
      <4> QED BY <2>1, <2>3 DEF Path
    <3>3. t[Len(s) + 1] = b
      <4> HIDE DEF u, b
      <4> QED BY <2>1, <2>3 DEF Path
    <3>4. Link(blk, first, t, Len(s) + 1) = b
      <4>1. CASE s = <<>> BY <4>1 DEF Link, Following
      <4>2. CASE s # <<>>
        <5>1. Len(s) # 0 /\ t[Len(s)] = s[Len(s)] BY <4>2, <3>2, <2>1
        <5> QED BY <5>1, <4>2, <2>1 DEF Link, Following
      <4> QED BY <4>1, <4>2
    <3>5. Len(s) + 1 <= NBlocks BY <1>1, <2>1 DEF Goes
    <3>6. \A i \in Len(s) + 1 .. Len(t) : i <= NBlocks /\ t[i] = Link(blk, first, t, i)
      <4> SUFFICES ASSUME NEW i \in Len(s) + 1 .. Len(t)
                   PROVE  i <= NBlocks /\ t[i] = Link(blk, first, t, i)
        OBVIOUS
      <4>1. CASE i = Len(s) + 1 BY <4>1, <3>3, <3>4, <3>5
      <4>2. CASE i # Len(s) + 1
        <5> HIDE DEF u
        <5>1. i \in Len(u) + 1 .. Len(t) BY <4>2, <2>1, <3>1
        <5> QED BY <5>1, <2>3 DEF Path
      <4> QED BY <4>1, <4>2
    <3> HIDE DEF u
    <3> QED BY <3>1, <3>2, <3>6, <2>1, <2>3 DEF Path
  <2> QED BY <1>1, <2>2, <2>3
<1>2. CASE ~ Goes(blk, first, s)
  <2>1. ASSUME Path(blk, first, s, t) PROVE t = s
    <3>1. t \in Seq(Blocks) /\ Len(t) \in Nat /\ Len(s) \in Nat /\ Len(s) <= Len(t)
      BY <2>1 DEF Path
    <3>2. Len(t) = Len(s)
      <4> SUFFICES ASSUME Len(t) # Len(s) PROVE FALSE OBVIOUS
      <4>1. Len(s) + 1 \in Len(s) + 1 .. Len(t) BY <3>1
      <4>2. Len(s) + 1 <= NBlocks /\ t[Len(s) + 1] = Link(blk, first, t, Len(s) + 1)
        BY <4>1, <2>1 DEF Path
      <4>3. t[Len(s) + 1] = b
        <5>1. CASE s = <<>> BY <5>1, <4>2 DEF Link, Following
        <5>2. CASE s # <<>>
          <6>1. Len(s) # 0 /\ t[Len(s)] = s[Len(s)] BY <5>2, <2>1, <3>1 DEF Path
          <6> QED BY <6>1, <5>2, <4>2, <3>1 DEF Link, Following
        <5> QED BY <5>1, <5>2
      <4>4. t[Len(s) + 1] \in Blocks BY <3>1, <4>1
      <4> QED BY <4>2, <4>3, <4>4, <3>1, <1>2 DEF Goes
    <3> QED BY <3>1, <3>2, <2>1 DEF Path
  <2>2. Path(blk, first, s, s) BY <1>2 DEF Path
  <2> QED BY <1>2, <2>1, <2>2
<1> QED BY <1>1, <1>2

LEMMA WalkUnfold ==
  ASSUME NEW blk, NEW first, NEW s \in Seq(Blocks)
  PROVE  Walk(blk, first)[s] = IF Goes(blk, first, s)
                               THEN Walk(blk, first)[Append(s, Following(blk, first, s))]
                               ELSE s
<1> DEFINE F(g) == [seen \in Seq(Blocks) |->
                IF Goes(blk, first, seen)
                THEN g[Append(seen, Following(blk, first, seen))] ELSE seen]
           h == [seen \in Seq(Blocks) |-> CHOOSE t : Path(blk, first, seen, t)]
<1>1. h = F(h)
  <2>1. ASSUME NEW seen \in Seq(Blocks)
        PROVE  h[seen] = IF Goes(blk, first, seen)
                         THEN h[Append(seen, Following(blk, first, seen))] ELSE seen
    <3>1. CASE Goes(blk, first, seen)
      <4>1. Append(seen, Following(blk, first, seen)) \in Seq(Blocks) BY <3>1 DEF Goes
      <4>2. \A t : Path(blk, first, seen, t)
                   <=> Path(blk, first, Append(seen, Following(blk, first, seen)), t)
        BY <3>1, PathStep
      <4>3. (CHOOSE t : Path(blk, first, seen, t))
            = CHOOSE t : Path(blk, first, Append(seen, Following(blk, first, seen)), t)
        BY <4>2
      <4> QED BY <3>1, <4>1, <4>3
    <3>2. CASE ~ Goes(blk, first, seen)
      <4>1. \A t : Path(blk, first, seen, t) <=> t = seen BY <3>2, PathStep
      <4>2. (CHOOSE t : Path(blk, first, seen, t)) = seen BY <4>1
      <4> QED BY <3>2, <4>2
    <3> QED BY <3>1, <3>2
  <2> HIDE DEF h
  <2>2. h = [seen \in Seq(Blocks) |-> h[seen]] BY DEF h
  <2> QED BY <2>1, <2>2
<1>2. Walk(blk, first) = F(Walk(blk, first))
  <2> HIDE DEF h
  <2>1. \E g : g = F(g) BY <1>1
  <2>2. Walk(blk, first) = CHOOSE g : g = F(g) BY DEF Walk
  <2> HIDE DEF F
  <2> QED BY <2>1, <2>2
<1> DEFINE w == Walk(blk, first)
<1> HIDE DEF w
<1>3. w = F(w) BY <1>2 DEF w
<1>4. F(w)[s] = IF Goes(blk, first, s)
                THEN w[Append(s, Following(blk, first, s))] ELSE s
  OBVIOUS
<1> HIDE DEF F
<1>5. w[s] = IF Goes(blk, first, s) THEN w[Append(s, Following(blk, first, s))] ELSE s
  BY <1>3, <1>4
<1> QED BY <1>5 DEF w

(* What List returns: the whole path from `first`. *)
LEMMA ListIsPath ==
  ASSUME NEW blk, NEW first
  PROVE  Path(blk, first, <<>>, List(blk, first))
<1> USE BlocksAssumption
<1> DEFINE w == Walk(blk, first)
           S == {n \in Nat : \A s \in Seq(Blocks) :
                    NBlocks - Len(s) <= n => Path(blk, first, s, w[s])}
<1>1. 0 \in S
  <2> SUFFICES ASSUME NEW s \in Seq(Blocks), NBlocks - Len(s) <= 0
               PROVE  Path(blk, first, s, w[s])
    OBVIOUS
  <2>1. ~ Goes(blk, first, s) BY DEF Goes
  <2> QED BY <2>1, WalkUnfold, PathStep
<1>2. \A n \in Nat : n \in S => n + 1 \in S
  <2> SUFFICES ASSUME NEW n \in S, NEW s \in Seq(Blocks), NBlocks - Len(s) <= n + 1
               PROVE  Path(blk, first, s, w[s])
    OBVIOUS
  <2>1. CASE Goes(blk, first, s)
    <3> DEFINE u == Append(s, Following(blk, first, s))
    <3>1. u \in Seq(Blocks) /\ Len(u) = Len(s) + 1 BY <2>1 DEF Goes
    <3>2. NBlocks - Len(u) <= n BY <3>1
    <3> HIDE DEF u
    <3>3. Path(blk, first, u, w[u]) BY <3>1, <3>2
    <3>4. w[s] = w[u] BY <2>1, WalkUnfold DEF u
    <3> QED BY <3>3, <3>4, <2>1, PathStep DEF u
  <2>2. CASE ~ Goes(blk, first, s) BY <2>2, WalkUnfold, PathStep
  <2> QED BY <2>1, <2>2
<1>3. NBlocks \in S
  <2> HIDE DEF S
  <2> QED BY <1>1, <1>2, SetInduction
<1>4. Path(blk, first, <<>>, w[<<>>])
  <2> DEFINE s == <<>>
  <2>1. s \in Seq(Blocks) /\ Len(s) = 0 OBVIOUS
  <2> HIDE DEF s, w
  <2>2. NBlocks - Len(s) <= NBlocks BY <2>1
  <2>3. Path(blk, first, s, w[s]) BY <1>3, <2>1, <2>2
  <2> QED BY <2>3 DEF s
<1>5. List(blk, first) = w[<<>>] BY DEF List, Walk, Goes, Following
<1> QED BY <1>4, <1>5

(* The same, in the terms in which it is used. *)
LEMMA ListFacts ==
  ASSUME NEW blk, NEW first
  PROVE  LET l == List(blk, first)
         IN  /\ l \in Seq(Blocks)
             /\ Len(l) <= NBlocks
             /\ \A i \in 1 .. Len(l) : l[i] = Link(blk, first, l, i)
             /\ first \in Blocks => Len(l) > 0 /\ l[1] = first
             /\ first \notin Blocks => l = <<>>
             /\ Len(l) < NBlocks /\ l # <<>> => blk[l[Len(l)]].next \notin Blocks
<1> USE BlocksAssumption
<1> DEFINE l == List(blk, first)
<1>1. Path(blk, first, <<>>, l) BY ListIsPath
<1> HIDE DEF l
<1>2. l \in Seq(Blocks) /\ Len(l) \in Nat BY <1>1 DEF Path
<1>3. \A i \in 1 .. Len(l) : i <= NBlocks /\ l[i] = Link(blk, first, l, i)
  BY <1>1, <1>2 DEF Path
<1>4. Len(l) <= NBlocks
  <2>1. CASE l = <<>> BY <2>1
  <2>2. CASE l # <<>>
    <3>1. Len(l) \in 1 .. Len(l) BY <2>2, <1>2
    <3> QED BY <3>1, <1>3
  <2> QED BY <2>1, <2>2
<1>5. ~ Goes(blk, first, l) BY <1>1 DEF Path
<1>6. ASSUME first \in Blocks PROVE Len(l) > 0 /\ l[1] = first
  <2>1. l # <<>>
    <3> SUFFICES ASSUME l = <<>> PROVE FALSE OBVIOUS
    <3>1. Following(blk, first, l) = first /\ Len(l) = 0 BY DEF Following
    <3> QED BY <3>1, <1>5, <1>6 DEF Goes
  <2>2. 1 \in 1 .. Len(l) BY <2>1, <1>2
  <2>3. l[1] = Link(blk, first, l, 1) BY <2>2, <1>3
  <2> QED BY <2>2, <2>3 DEF Link
<1>7. ASSUME first \notin Blocks PROVE l = <<>>
  <2> SUFFICES ASSUME l # <<>> PROVE FALSE OBVIOUS
  <2>1. 1 \in 1 .. Len(l) BY <1>2
  <2>2. l[1] = first BY <2>1, <1>3 DEF Link
  <2> QED BY <2>1, <2>2, <1>2, <1>7
<1>8. ASSUME Len(l) < NBlocks, l # <<>> PROVE blk[l[Len(l)]].next \notin Blocks
  BY <1>8, <1>5 DEF Goes, Following
<1> QED BY <1>2, <1>3, <1>4, <1>6, <1>7, <1>8 DEF l

-----------------------------------------------------------------------------
(* The operations of the block layer are typed *)

LEMMA FoundBlocks ==
  ASSUME NEW blk, NEW first
  PROVE  /\ \A n : fileBlockAt(blk, first, n) \subseteq Blocks
         /\ LastOf(blk, first) \subseteq Blocks
BY DEF fileBlockAt, LastOf

LEMMA AllocatedBlocks ==
  ASSUME NEW d \in Disk, NEW n, NEW last \in LastToAllocate(d, n)
  PROVE  last \in Blocks /\ d.freelist \in Blocks
<1>1. last \in fileBlockAt(d.blk, d.freelist, n - 1) BY DEF LastToAllocate
<1>2. last \in Blocks BY <1>1, FoundBlocks
<1>3. ASSUME d.freelist \notin Blocks PROVE FALSE
  <2>1. List(d.blk, d.freelist) = <<>> BY <1>3, ListFacts
  <2>2. DOMAIN List(d.blk, d.freelist) = {} BY <2>1
  <2> QED BY <1>1, <2>2 DEF fileBlockAt
<1> QED BY <1>2, <1>3

LEMMA AfterAllocateType ==
  ASSUME NEW d \in Disk, NEW type \in {"FREE", "FILE", "DIR"}, NEW last \in Blocks
  PROVE  AfterAllocate(d, type, last) \in Disk
<1> USE BlocksAssumption
<1> DEFINE taken == ListSet([d.blk EXCEPT ![last].next = 0], d.freelist)
<1> HIDE DEF taken
<1>1. AfterAllocate(d, type, last) =
        [freelist |-> d.blk[last].next,
         blk |-> [b \in Blocks |->
                    IF b \in taken
                    THEN [type |-> type, prev |-> d.blk[b].prev,
                          next |-> IF b = last THEN 0 ELSE d.blk[b].next]
                    ELSE IF b = d.blk[last].next THEN [d.blk[b] EXCEPT !.prev = 0]
                    ELSE d.blk[b]]]
  BY DEF AfterAllocate, taken
<1>2. \A b \in Blocks : /\ d.blk[b] \in Header
                        /\ d.blk[b].prev \in BlockId /\ d.blk[b].next \in BlockId
  BY DEF Disk, Header
<1>3. 0 \in BlockId BY DEF BlockId
<1> QED BY <1>1, <1>2, <1>3 DEF Disk, Header

LEMMA AfterFreeType ==
  ASSUME NEW d \in Disk, NEW first \in Blocks, NEW last \in Blocks
  PROVE  AfterFree(d, first, last) \in Disk
<1> USE BlocksAssumption
<1> DEFINE freed == ListSet(d.blk, first)
<1> HIDE DEF freed
<1>1. AfterFree(d, first, last) =
        [freelist |-> first,
         blk |-> [b \in Blocks |->
                    IF b \in freed
                    THEN [type |-> "FREE",
                          prev |-> IF b = first THEN 0 ELSE d.blk[b].prev,
                          next |-> IF b = last THEN d.freelist ELSE d.blk[b].next]
                    ELSE IF b = d.blk[first].prev THEN [d.blk[b] EXCEPT !.next = 0]
                    ELSE IF b = d.freelist THEN [d.blk[b] EXCEPT !.prev = last]
                    ELSE d.blk[b]]]
  BY DEF AfterFree, freed
<1>2. \A b \in Blocks : /\ d.blk[b] \in Header
                        /\ d.blk[b].prev \in BlockId /\ d.blk[b].next \in BlockId
  BY DEF Disk, Header
<1>3. 0 \in BlockId /\ Blocks \subseteq BlockId BY DEF BlockId, Blocks
<1>4. d.freelist \in BlockId BY DEF Disk
<1> QED BY <1>1, <1>2, <1>3, <1>4 DEF Disk, Header

LEMMA AfterAttachType ==
  ASSUME NEW d \in Disk, NEW tail \in BlockId, NEW first \in BlockId
  PROVE  AfterAttach(d, tail, first) \in Disk
<1>1. \A b \in Blocks : d.blk[b] \in Header BY DEF Disk
<1> QED BY <1>1 DEF AfterAttach, Disk, Header
USE BlocksAssumption, SfsAssumption, NullAssumption

-----------------------------------------------------------------------------
(* Searches and entries *)

LEMMA BlockIds ==
  /\ 0 \in BlockId /\ Blocks \subseteq BlockId /\ NBlocks \notin BlockId
  /\ 0 # SFS_EMPTY_FILE_BLOCK
  /\ UnlinkedFile \notin Slots
BY DEF BlockId, Blocks, UnlinkedFile, Slots, SFS_EMPTY_FILE_BLOCK

LEMMA DirectoryBlocksType == DirectoryBlocks \in Seq(BlockId)
<1> DEFINE l == List(disk.blk, next_rootdir)
<1>1. l \in Seq(Blocks) BY ListFacts
<1> HIDE DEF l
<1>2. l \in Seq(BlockId) BY <1>1, BlockIds
<1>3. <<0>> \in Seq(BlockId) BY BlockIds
<1>4. <<0>> \o l \in Seq(BlockId) BY <1>2, <1>3
<1> QED BY <1>4 DEF DirectoryBlocks, l

(* A search of the directory returns slots that match. *)
LEMMA FirstSlotMatches ==
  ASSUME NEW S
  PROVE  FirstSlot(S) \subseteq S \cap Slots
<1> DEFINE Found(blocks) ==
        {SlotAt(blocks, p) : p \in {q \in 1 .. Len(blocks) * DIR_ENTRIES_PER_BLOCK :
            /\ SlotAt(blocks, q) \in S
            /\ \A r \in 1 .. q - 1 : SlotAt(blocks, r) \notin S}}
<1>1. FirstSlot(S) = Found(DirectoryBlocks) \cap Slots
  <2>1. DirectoryBlocks \in Seq(BlockId) BY DirectoryBlocksType
  <2> QED BY <2>1 DEF FirstSlot
<1>2. \A blocks : Found(blocks) \subseteq S OBVIOUS
<1> QED BY <1>1, <1>2

LEMMA EntryFound ==
  ASSUME NEW name, NEW slot \in findDirectoryEntry(name)
  PROVE  slot \in Slots /\ Occupied(files[slot]) /\ files[slot].name = name
<1> DEFINE S == {s \in Slots : Occupied(files[s]) /\ files[s].name = name}
<1>1. slot \in FirstSlot(S) BY DEF findDirectoryEntry
<1> HIDE DEF S
<1>2. slot \in S BY <1>1, FirstSlotMatches
<1> QED BY <1>2 DEF S

LEMMA SlotFound ==
  ASSUME NEW slot \in EmptySlot
  PROVE  slot \in Slots /\ ~ Occupied(files[slot])
<1> DEFINE S == {s \in Slots : ~ Occupied(files[s])}
<1>1. slot \in FirstSlot(S) BY DEF EmptySlot
<1> HIDE DEF S
<1>2. slot \in S BY <1>1, FirstSlotMatches
<1> QED BY <1>2 DEF S

(* The first index with a property exists when any index has it: a search of a *)
(* table fails only when nothing matches.                                      *)
LEMMA FirstIndex ==
  ASSUME NEW S \in SUBSET FDs, S # {}
  PROVE  \E i \in S : \A j \in 0 .. i - 1 : j \notin S
<1>1. FDs \subseteq Nat BY DEF FDs
<1>2. PICK k \in S : TRUE OBVIOUS
<1>3. PICK m \in S : \A n \in S : m <= n BY <1>1, <1>2, LeastElement
<1> QED BY <1>1, <1>3

LEMMA OpenFileSearch ==
  ASSUME NEW slot
  PROVE  /\ \A i \in findOpenFile(slot) :
                i \in FDs /\ openFileTable[i] # NULL /\ openFileTable[i].diskFile = slot
         /\ findOpenFile(slot) = {} =>
                \A i \in FDs : openFileTable[i] # NULL => openFileTable[i].diskFile # slot
<1> DEFINE S == {i \in FDs : openFileTable[i] # NULL /\ openFileTable[i].diskFile = slot}
<1>1. ASSUME S # {} PROVE findOpenFile(slot) # {}
  <2>1. S \in SUBSET FDs OBVIOUS
  <2> HIDE DEF S
  <2>2. PICK i \in S : \A j \in 0 .. i - 1 : j \notin S BY <2>1, <1>1, FirstIndex
  <2>3. i \in FDs /\ \A j \in 0 .. i - 1 : j \in FDs BY <2>1 DEF FDs
  <2>4. i \in findOpenFile(slot) BY <2>2, <2>3 DEF S, findOpenFile
  <2> QED BY <2>4
<1> QED BY <1>1 DEF findOpenFile

LEMMA NullSearch ==
  ASSUME NEW table
  PROVE  /\ \A i \in FirstNull(table) : i \in FDs /\ table[i] = NULL
         /\ FirstNull(table) = {} => \A i \in FDs : table[i] # NULL
<1> DEFINE S == {i \in FDs : table[i] = NULL}
<1>1. ASSUME S # {} PROVE FirstNull(table) # {}
  <2>1. S \in SUBSET FDs OBVIOUS
  <2> HIDE DEF S
  <2>2. PICK i \in S : \A j \in 0 .. i - 1 : j \notin S BY <2>1, <1>1, FirstIndex
  <2>3. i \in FDs /\ \A j \in 0 .. i - 1 : j \in FDs BY <2>1 DEF FDs
  <2>4. i \in FirstNull(table) BY <2>2, <2>3 DEF S, FirstNull
  <2> QED BY <2>4
<1> QED BY <1>1 DEF FirstNull

LEMMA DiskEntryType ==
  ASSUME TypeOK, NEW i \in FDs, openFileTable[i] # NULL
  PROVE  DiskEntry(i) \in Entry
<1>1. openFileTable[i] \in OpenFile BY DEF TypeOK
<1>2. openFileTable[i].diskFile \in Slots \cup {UnlinkedFile} /\ openFileTable[i].unlinkedFile \in Entry
  BY <1>1 DEF OpenFile
<1> QED BY <1>2 DEF DiskEntry, TypeOK

LEMMA StoreBytesType ==
  ASSUME TypeOK, NEW blk, NEW first, NEW from, NEW bytes,
         \A k \in DOMAIN bytes : bytes[k] \in Bytes
  PROVE  StoreBytes(blk, first, from, bytes) \in [Blocks -> BlockData]
<1> DEFINE Index(blocks, b, i) ==
            {k \in {(j - 1) * BLOCK_DATA_SIZE + i + 1 - from :
                        j \in {n \in DOMAIN blocks : blocks[n] = b}} : k \in DOMAIN bytes}
           Stored(blocks) ==
            [b \in Blocks |-> [i \in 0 .. BLOCK_DATA_SIZE - 1 |->
                IF Index(blocks, b, i) = {} THEN data[b][i]
                ELSE bytes[CHOOSE k \in Index(blocks, b, i) : TRUE]]]
           l == List(blk, first)
<1>1. StoreBytes(blk, first, from, bytes) = Stored(l)
  <2>1. l \in Seq(Blocks) BY ListFacts
  <2> HIDE DEF l
  <2> QED BY <2>1 DEF StoreBytes, l
<1>2. \A blocks, b, i : Index(blocks, b, i) \subseteq DOMAIN bytes OBVIOUS
<1> HIDE DEF Index
<1>3. \A blocks, b, i : Index(blocks, b, i) # {} =>
        bytes[CHOOSE k \in Index(blocks, b, i) : TRUE] \in Bytes
  BY <1>2
<1>4. \A b \in Blocks, i \in 0 .. BLOCK_DATA_SIZE - 1 : data[b][i] \in Bytes
  BY DEF TypeOK, BlockData
<1>5. Stored(l) \in [Blocks -> BlockData] BY <1>3, <1>4 DEF BlockData
<1> QED BY <1>1, <1>5

-----------------------------------------------------------------------------
(* The two tables *)

LEMMA DescriptorsFinite ==
  ASSUME NEW i \in FDs
  PROVE  IsFiniteSet(Descriptors(i)) /\ Cardinality(Descriptors(i)) \in Nat
<1>1. IsFiniteSet(FDs)
  <2>1. 0 \in Int /\ OPEN_FILE_LIMIT - 1 \in Int OBVIOUS
  <2> QED BY <2>1, FS_Interval DEF FDs
<1>2. Descriptors(i) \in SUBSET FDs BY DEF Descriptors
<1>3. IsFiniteSet(Descriptors(i)) BY <1>1, <1>2, FS_Subset
<1> QED BY <1>3, FS_CardinalityType

(* A descriptor refers to an open file, which has an entry. *)
LEMMA DescriptorFile ==
  ASSUME TypeOK, RefCounts, NEW fd \in FDs, openFileDescTable[fd] # NULL
  PROVE  LET desc == openFileDescTable[fd]
         IN  /\ desc \in Descriptor
             /\ desc.fileEntry \in FDs /\ desc.currPos \in Nat
             /\ openFileTable[desc.fileEntry] # NULL
             /\ openFileTable[desc.fileEntry] \in OpenFile
             /\ DiskEntry(desc.fileEntry) \in Entry
<1> DEFINE desc == openFileDescTable[fd]
<1>1. desc \in Descriptor BY DEF TypeOK
<1>2. desc.fileEntry \in FDs /\ desc.currPos \in Nat BY <1>1 DEF Descriptor
<1>3. fd \in Descriptors(desc.fileEntry) BY DEF Descriptors
<1>4. openFileTable[desc.fileEntry] # NULL BY <1>2, <1>3 DEF RefCounts
<1>5. openFileTable[desc.fileEntry] \in OpenFile BY <1>2, <1>4 DEF TypeOK
<1>6. DiskEntry(desc.fileEntry) \in Entry BY <1>2, <1>4, DiskEntryType
<1> QED BY <1>1, <1>2, <1>4, <1>5, <1>6

(* Counts stay right when descriptors keep their files and files their counts. *)
LEMMA CountsKept ==
  ASSUME TypeOK, RefCounts,
         \A fd \in FDs :
            /\ openFileDescTable'[fd] = NULL <=> openFileDescTable[fd] = NULL
            /\ openFileDescTable[fd] # NULL =>
                openFileDescTable'[fd].fileEntry = openFileDescTable[fd].fileEntry,
         \A i \in FDs :
            /\ openFileTable'[i] = NULL <=> openFileTable[i] = NULL
            /\ openFileTable[i] # NULL => openFileTable'[i].refCount = openFileTable[i].refCount
  PROVE  RefCounts'
<1> SUFFICES ASSUME NEW i \in FDs
             PROVE  IF openFileTable'[i] = NULL THEN Descriptors(i)' = {}
                    ELSE /\ openFileTable'[i].refCount > 0
                         /\ openFileTable'[i].refCount = Cardinality(Descriptors(i)')
  BY DEF RefCounts
<1>1. Descriptors(i)' = Descriptors(i) BY DEF Descriptors
<1> QED BY <1>1 DEF RefCounts

LEMMA addOpenFileEntryCase ==
  ASSUME TypeOK, NEW slot, addOpenFileEntry(slot)
  PROVE  \E fd \in FDs, i \in FDs :
            /\ openFileDescTable[fd] = NULL
            /\ openFileDescTable' =
                [openFileDescTable EXCEPT ![fd] = [fileEntry |-> i, currPos |-> 0]]
            /\ openFileTable' = [openFileTable EXCEPT ![i] =
                   IF openFileTable[i] # NULL
                   THEN [openFileTable[i] EXCEPT !.refCount = @ + 1]
                   ELSE [refCount |-> 1, unlinked |-> FALSE, diskFile |-> slot,
                         unlinkedFile |-> UnusedEntry]]
            /\ openFileTable[i] = NULL =>
                    \A j \in FDs : openFileTable[j] # NULL => openFileTable[j].diskFile # slot
<1>1. PICK fd \in FirstNull(openFileDescTable) :
      \E i \in IF findOpenFile(slot) # {} THEN findOpenFile(slot)
               ELSE FirstNull(openFileTable) :
        /\ openFileTable' = [openFileTable EXCEPT ![i] =
               IF openFileTable[i] # NULL
               THEN [openFileTable[i] EXCEPT !.refCount = @ + 1]
               ELSE [refCount |-> 1, unlinked |-> FALSE, diskFile |-> slot,
                     unlinkedFile |-> UnusedEntry]]
        /\ openFileDescTable' =
               [openFileDescTable EXCEPT ![fd] = [fileEntry |-> i, currPos |-> 0]]
  BY DEF addOpenFileEntry
<1>2. PICK i \in IF findOpenFile(slot) # {} THEN findOpenFile(slot)
                ELSE FirstNull(openFileTable) :
        /\ openFileTable' = [openFileTable EXCEPT ![i] =
               IF openFileTable[i] # NULL
               THEN [openFileTable[i] EXCEPT !.refCount = @ + 1]
               ELSE [refCount |-> 1, unlinked |-> FALSE, diskFile |-> slot,
                     unlinkedFile |-> UnusedEntry]]
        /\ openFileDescTable' =
               [openFileDescTable EXCEPT ![fd] = [fileEntry |-> i, currPos |-> 0]]
  BY <1>1
<1>3. fd \in FDs /\ openFileDescTable[fd] = NULL BY NullSearch
<1>4. i \in FDs BY NullSearch, OpenFileSearch
<1>5. openFileTable[i] = NULL =>
        \A j \in FDs : openFileTable[j] # NULL => openFileTable[j].diskFile # slot
  BY OpenFileSearch
<1> QED BY <1>2, <1>3, <1>4, <1>5

(* Opening a slot whose entry is in use keeps the tables right. *)
LEMMA addOpenFileEntryKeeps ==
  ASSUME TypeOK, RefCounts, OpenFilesTrackEntries,
         NEW slot \in Slots, addOpenFileEntry(slot),
         files' \in [Slots -> Entry],
         \A s \in Slots : Occupied(files[s]) \/ s = slot => Occupied(files'[s])
  PROVE  /\ openFileTable' \in [FDs -> OpenFile \cup {NULL}]
         /\ openFileDescTable' \in [FDs -> Descriptor \cup {NULL}]
         /\ RefCounts'
         /\ OpenFilesTrackEntries'
<1>1. PICK fd \in FDs, i \in FDs :
            /\ openFileDescTable[fd] = NULL
            /\ openFileDescTable' =
                [openFileDescTable EXCEPT ![fd] = [fileEntry |-> i, currPos |-> 0]]
            /\ openFileTable' = [openFileTable EXCEPT ![i] =
                   IF openFileTable[i] # NULL
                   THEN [openFileTable[i] EXCEPT !.refCount = @ + 1]
                   ELSE [refCount |-> 1, unlinked |-> FALSE, diskFile |-> slot,
                         unlinkedFile |-> UnusedEntry]]
            /\ openFileTable[i] = NULL =>
                    \A j \in FDs : openFileTable[j] # NULL => openFileTable[j].diskFile # slot
  BY addOpenFileEntryCase
<1>2. openFileTable \in [FDs -> OpenFile \cup {NULL}]
      /\ openFileDescTable \in [FDs -> Descriptor \cup {NULL}]
  BY DEF TypeOK
<1>3. openFileDescTable' \in [FDs -> Descriptor \cup {NULL}]
  <2>1. [fileEntry |-> i, currPos |-> 0] \in Descriptor BY DEF Descriptor
  <2> QED BY <1>1, <1>2, <2>1
<1>4. UnusedEntry \in Entry BY BlockIds DEF UnusedEntry, Entry
<1>5. openFileTable' \in [FDs -> OpenFile \cup {NULL}] /\ openFileTable'[i] \in OpenFile
  <2>1. CASE openFileTable[i] # NULL
    <3>1. openFileTable[i] \in OpenFile BY <2>1, <1>2
    <3>2. [openFileTable[i] EXCEPT !.refCount = @ + 1] \in OpenFile BY <3>1 DEF OpenFile
    <3> QED BY <1>1, <1>2, <2>1, <3>2
  <2>2. CASE openFileTable[i] = NULL
    <3>1. [refCount |-> 1, unlinked |-> FALSE, diskFile |-> slot,
           unlinkedFile |-> UnusedEntry] \in OpenFile
      BY <1>4 DEF OpenFile
    <3> QED BY <1>1, <1>2, <2>2, <3>1
  <2> QED BY <2>1, <2>2
<1>6. [fileEntry |-> i, currPos |-> 0] # NULL
  BY NullAssumption
<1>7. RefCounts'
  <2> SUFFICES ASSUME NEW j \in FDs
               PROVE  IF openFileTable'[j] = NULL THEN Descriptors(j)' = {}
                      ELSE /\ openFileTable'[j].refCount > 0
                           /\ openFileTable'[j].refCount = Cardinality(Descriptors(j)')
    BY DEF RefCounts
  <2>1. CASE j # i
    <3>1. Descriptors(j)' = Descriptors(j) BY <2>1, <1>1, <1>2, <1>6 DEF Descriptors
    <3>2. openFileTable'[j] = openFileTable[j] BY <2>1, <1>1, <1>2
    <3> QED BY <3>1, <3>2 DEF RefCounts
  <2>2. CASE j = i
    <3>1. Descriptors(j)' = Descriptors(j) \cup {fd} /\ fd \notin Descriptors(j)
      BY <2>2, <1>1, <1>2, <1>6 DEF Descriptors
    <3>2. Cardinality(Descriptors(j)') = Cardinality(Descriptors(j)) + 1
      BY <3>1, DescriptorsFinite, FS_AddElement
    <3>3. openFileTable'[j] # NULL
      BY <1>5, <2>2, NullAssumption
    <3>4. openFileTable'[j].refCount = Cardinality(Descriptors(j)) + 1
      <4>1. CASE openFileTable[i] # NULL
        <5>1. openFileTable[i] \in OpenFile BY <4>1, <1>2
        <5>2. openFileTable'[i].refCount = openFileTable[i].refCount + 1
          BY <4>1, <5>1, <1>1, <1>2 DEF OpenFile
        <5> QED BY <4>1, <5>2, <2>2 DEF RefCounts
      <4>2. CASE openFileTable[i] = NULL
        <5>1. Cardinality(Descriptors(i)) = 0 BY <4>2, FS_EmptySet DEF RefCounts
        <5>2. openFileTable'[i].refCount = 1 BY <4>2, <1>1, <1>2
        <5> QED BY <5>1, <5>2, <2>2
      <4> QED BY <4>1, <4>2
    <3> QED BY <3>2, <3>3, <3>4, DescriptorsFinite
  <2> QED BY <2>1, <2>2
<1>8. \A j \in FDs : openFileTable'[j] # NULL =>
        \/ /\ openFileTable[j] # NULL
           /\ openFileTable'[j].diskFile = openFileTable[j].diskFile
           /\ openFileTable'[j].unlinked = openFileTable[j].unlinked
           /\ openFileTable'[j].unlinkedFile = openFileTable[j].unlinkedFile
        \/ /\ j = i /\ openFileTable[i] = NULL
           /\ openFileTable'[j].diskFile = slot /\ openFileTable'[j].unlinked = FALSE
  <2> SUFFICES ASSUME NEW j \in FDs, openFileTable'[j] # NULL
               PROVE  \/ /\ openFileTable[j] # NULL
                         /\ openFileTable'[j].diskFile = openFileTable[j].diskFile
                         /\ openFileTable'[j].unlinked = openFileTable[j].unlinked
                         /\ openFileTable'[j].unlinkedFile = openFileTable[j].unlinkedFile
                      \/ /\ j = i /\ openFileTable[i] = NULL
                         /\ openFileTable'[j].diskFile = slot
                         /\ openFileTable'[j].unlinked = FALSE
    OBVIOUS
  <2>1. CASE j # i BY <2>1, <1>1, <1>2
  <2>2. CASE j = i /\ openFileTable[i] = NULL BY <2>2, <1>1, <1>2
  <2>3. CASE j = i /\ openFileTable[i] # NULL
    <3>1. openFileTable[i] \in OpenFile BY <2>3, <1>2
    <3> QED BY <2>3, <3>1, <1>1, <1>2 DEF OpenFile
  <2> QED BY <2>1, <2>2, <2>3
<1>9. OpenFilesTrackEntries'
  <2> SUFFICES ASSUME NEW j \in FDs, openFileTable'[j] # NULL
               PROVE  /\ openFileTable'[j].unlinked <=> openFileTable'[j].diskFile = UnlinkedFile
                      /\ Occupied(DiskEntry(j)')
                      /\ ~ openFileTable'[j].unlinked => \A k \in FDs \ {j} :
                            openFileTable'[k] # NULL =>
                                openFileTable'[k].diskFile # openFileTable'[j].diskFile
    BY DEF OpenFilesTrackEntries, Occupied
  <2>1. openFileTable'[j].unlinked <=> openFileTable'[j].diskFile = UnlinkedFile
    BY <1>8, BlockIds DEF OpenFilesTrackEntries
  <2>2. Occupied(DiskEntry(j)')
    <3>1. CASE j = i /\ openFileTable[i] = NULL
      BY <3>1, <1>8, BlockIds DEF DiskEntry
    <3>2. CASE ~ (j = i /\ openFileTable[i] = NULL)
      <4>1. /\ openFileTable[j] # NULL
            /\ openFileTable'[j].diskFile = openFileTable[j].diskFile
            /\ openFileTable'[j].unlinkedFile = openFileTable[j].unlinkedFile
        BY <3>2, <1>8
      <4>2. openFileTable[j].diskFile \in Slots \cup {UnlinkedFile}
        BY <4>1, <1>2 DEF OpenFile
      <4>3. Occupied(DiskEntry(j)) BY <4>1 DEF OpenFilesTrackEntries
      <4> QED BY <4>1, <4>2, <4>3 DEF DiskEntry
    <3> QED BY <3>1, <3>2
  <2>3. ASSUME ~ openFileTable'[j].unlinked, NEW k \in FDs \ {j}, openFileTable'[k] # NULL
        PROVE  openFileTable'[k].diskFile # openFileTable'[j].diskFile
    BY <2>3, <1>1, <1>8 DEF OpenFilesTrackEntries
  <2> QED BY <2>1, <2>2, <2>3
<1> QED BY <1>3, <1>5, <1>7, <1>9

(* Assigning an entry in use to *file->diskFile keeps the tables right. *)
LEMMA SetDiskEntryKeeps ==
  ASSUME TypeOK, OpenFilesTrackEntries,
         NEW i \in FDs, openFileTable[i] # NULL,
         NEW entry \in Entry, Occupied(entry), SetDiskEntry(i, entry)
  PROVE  /\ files' \in [Slots -> Entry]
         /\ openFileTable' \in [FDs -> OpenFile \cup {NULL}]
         /\ \A j \in FDs :
                /\ openFileTable'[j] = NULL <=> openFileTable[j] = NULL
                /\ openFileTable[j] # NULL =>
                    openFileTable'[j].refCount = openFileTable[j].refCount
         /\ OpenFilesTrackEntries'
<1>1. openFileTable \in [FDs -> OpenFile \cup {NULL}] /\ files \in [Slots -> Entry]
  BY DEF TypeOK
<1>2. openFileTable[i] \in OpenFile BY <1>1
<1>3. openFileTable[i].diskFile \in Slots \cup {UnlinkedFile} BY <1>2 DEF OpenFile
<1>4. CASE openFileTable[i].diskFile = UnlinkedFile
  <2> DEFINE new == [openFileTable[i] EXCEPT !.unlinkedFile = entry]
  <2>1. openFileTable' = [openFileTable EXCEPT ![i] = new] /\ files' = files
    BY <1>4 DEF SetDiskEntry
  <2>2. /\ new \in OpenFile
        /\ new.refCount = openFileTable[i].refCount
        /\ new.unlinked = openFileTable[i].unlinked
        /\ new.diskFile = openFileTable[i].diskFile
        /\ new.unlinkedFile = entry
    BY <1>2 DEF OpenFile
  <2>3. new # NULL BY <2>2, NullAssumption
  <2> HIDE DEF new
  <2>4. OpenFilesTrackEntries'
    <3> SUFFICES ASSUME NEW j \in FDs, openFileTable'[j] # NULL
                 PROVE  /\ openFileTable'[j].unlinked <=> openFileTable'[j].diskFile = UnlinkedFile
                        /\ Occupied(DiskEntry(j)')
                        /\ ~ openFileTable'[j].unlinked => \A k \in FDs \ {j} :
                              openFileTable'[k] # NULL =>
                                  openFileTable'[k].diskFile # openFileTable'[j].diskFile
      BY DEF OpenFilesTrackEntries, Occupied
    <3>1. \A k \in FDs : openFileTable'[k] # NULL =>
            /\ openFileTable[k] # NULL
            /\ openFileTable'[k].unlinked = openFileTable[k].unlinked
            /\ openFileTable'[k].diskFile = openFileTable[k].diskFile
      BY <1>1, <2>1, <2>2
    <3>2. Occupied(DiskEntry(j)')
      <4>1. CASE j = i BY <4>1, <1>4, <2>1, <2>2, <1>1 DEF DiskEntry
      <4>2. CASE j # i
        <5>1. Occupied(DiskEntry(j)) BY <3>1 DEF OpenFilesTrackEntries
        <5> QED BY <5>1, <4>2, <2>1, <1>1 DEF DiskEntry
      <4> QED BY <4>1, <4>2
    <3> QED BY <3>1, <3>2 DEF OpenFilesTrackEntries
  <2> QED BY <1>1, <2>1, <2>2, <2>3, <2>4
<1>5. CASE openFileTable[i].diskFile # UnlinkedFile
  <2>1. files' = [files EXCEPT ![openFileTable[i].diskFile] = entry]
        /\ openFileTable' = openFileTable /\ openFileTable[i].diskFile \in Slots
    BY <1>3, <1>5 DEF SetDiskEntry
  <2>2. files' \in [Slots -> Entry] BY <1>1, <2>1
  <2>3. \A s \in Slots : Occupied(files[s]) => Occupied(files'[s]) BY <1>1, <2>1
  <2>4. OpenFilesTrackEntries'
    <3>1. ASSUME NEW j \in FDs, openFileTable'[j] # NULL PROVE Occupied(DiskEntry(j)')
      <4>1. Occupied(DiskEntry(j)) BY <3>1, <2>1 DEF OpenFilesTrackEntries
      <4>2. openFileTable[j].diskFile \in Slots \cup {UnlinkedFile}
        BY <3>1, <2>1, <1>1 DEF OpenFile
      <4> QED BY <4>1, <4>2, <2>1, <2>3 DEF DiskEntry
    <3> QED BY <3>1, <2>1 DEF OpenFilesTrackEntries, Occupied
  <2> QED BY <1>1, <2>1, <2>2, <2>4
<1> QED BY <1>4, <1>5

(* Clearing a slot after unlinkDirectoryEntry keeps the tables right: a file that *)
(* is open now has its entry in its own copy, and no other file points here.      *)
LEMMA unlinkDirectoryEntryKeeps ==
  ASSUME TypeOK, RefCounts, OpenFilesTrackEntries,
         NEW slot \in Slots, Occupied(files[slot]), unlinkDirectoryEntry(slot),
         files' \in [Slots -> Entry],
         \A s \in Slots \ {slot} : Occupied(files[s]) => Occupied(files'[s])
  PROVE  /\ disk' \in Disk
         /\ openFileTable' \in [FDs -> OpenFile \cup {NULL}]
         /\ \A j \in FDs :
                /\ openFileTable'[j] = NULL <=> openFileTable[j] = NULL
                /\ openFileTable[j] # NULL =>
                    openFileTable'[j].refCount = openFileTable[j].refCount
         /\ OpenFilesTrackEntries'
<1>1. /\ openFileTable \in [FDs -> OpenFile \cup {NULL}]
      /\ files \in [Slots -> Entry] /\ disk \in Disk
  BY DEF TypeOK
<1>2. CASE findOpenFile(slot) # {}
  <2>1. PICK i \in findOpenFile(slot) :
            openFileTable' = [openFileTable EXCEPT
                  ![i].unlinkedFile = files[slot],
                  ![i].diskFile = UnlinkedFile,
                  ![i].unlinked = TRUE]
    BY <1>2 DEF unlinkDirectoryEntry
  <2>2. i \in FDs /\ openFileTable[i] # NULL /\ openFileTable[i].diskFile = slot
    BY OpenFileSearch
  <2>3. openFileTable[i] \in OpenFile BY <1>1, <2>2
  <2> DEFINE new == [openFileTable[i] EXCEPT
                  !.unlinkedFile = files[slot], !.diskFile = UnlinkedFile, !.unlinked = TRUE]
  <2>4. /\ new \in OpenFile
        /\ new.refCount = openFileTable[i].refCount
        /\ new.unlinked = TRUE
        /\ new.diskFile = UnlinkedFile
        /\ new.unlinkedFile = files[slot]
    BY <2>3, <1>1 DEF OpenFile
  <2>5. openFileTable' = [openFileTable EXCEPT ![i] = new] BY <2>1, <1>1, <2>2
  <2>6. new # NULL BY <2>4, NullAssumption
  <2> HIDE DEF new
  <2>7. disk' = disk BY <1>2 DEF unlinkDirectoryEntry
  <2>8. OpenFilesTrackEntries'
    <3> SUFFICES ASSUME NEW j \in FDs, openFileTable'[j] # NULL
                 PROVE  /\ openFileTable'[j].unlinked <=> openFileTable'[j].diskFile = UnlinkedFile
                        /\ Occupied(DiskEntry(j)')
                        /\ ~ openFileTable'[j].unlinked => \A k \in FDs \ {j} :
                              openFileTable'[k] # NULL =>
                                  openFileTable'[k].diskFile # openFileTable'[j].diskFile
      BY DEF OpenFilesTrackEntries, Occupied
    <3>1. CASE j = i
      <4>1. openFileTable'[j] = new BY <3>1, <2>5, <1>1
      <4> QED BY <4>1, <2>4 DEF DiskEntry
    <3>2. CASE j # i
      <4>1. openFileTable'[j] = openFileTable[j] /\ openFileTable[j] # NULL
        BY <3>2, <2>5, <1>1
      <4>2. openFileTable[j].diskFile # slot
        <5>1. ~ openFileTable[i].unlinked BY <2>2, BlockIds DEF OpenFilesTrackEntries
        <5> QED BY <5>1, <4>1, <3>2, <2>2 DEF OpenFilesTrackEntries
      <4>3. openFileTable[j].diskFile \in Slots \cup {UnlinkedFile}
        BY <4>1, <1>1 DEF OpenFile
      <4>4. Occupied(DiskEntry(j)')
        <5>1. Occupied(DiskEntry(j)) BY <4>1 DEF OpenFilesTrackEntries
        <5> QED BY <5>1, <4>1, <4>2, <4>3 DEF DiskEntry
      <4>5. ASSUME ~ openFileTable'[j].unlinked, NEW k \in FDs \ {j}, openFileTable'[k] # NULL
            PROVE  openFileTable'[k].diskFile # openFileTable'[j].diskFile
        <5>1. openFileTable[j].diskFile # UnlinkedFile
          BY <4>1, <4>5 DEF OpenFilesTrackEntries
        <5>2. CASE k = i BY <5>1, <5>2, <4>1, <2>4, <2>5, <1>1
        <5>3. CASE k # i
          <6>1. openFileTable'[k] = openFileTable[k] BY <5>3, <2>5, <1>1
          <6> QED BY <6>1, <4>1, <4>5 DEF OpenFilesTrackEntries
        <5> QED BY <5>2, <5>3
      <4>6. openFileTable'[j].unlinked <=> openFileTable'[j].diskFile = UnlinkedFile
        BY <4>1 DEF OpenFilesTrackEntries
      <4> QED BY <4>4, <4>5, <4>6
    <3> QED BY <3>1, <3>2
  <2> QED BY <1>1, <2>2, <2>4, <2>5, <2>6, <2>7, <2>8
<1>3. CASE findOpenFile(slot) = {}
  <2>1. openFileTable' = openFileTable BY <1>3 DEF unlinkDirectoryEntry
  <2>2. disk' \in Disk
    <3>1. CASE files[slot].first_block = SFS_EMPTY_FILE_BLOCK
      BY <3>1, <1>1, <1>3 DEF unlinkDirectoryEntry
    <3>2. CASE files[slot].first_block # SFS_EMPTY_FILE_BLOCK
      <4>1. PICK last \in LastOf(disk.blk, files[slot].first_block) :
                disk' = AfterFree(disk, files[slot].first_block, last)
        BY <3>2, <1>3 DEF unlinkDirectoryEntry
      <4>2. last \in Blocks BY FoundBlocks
      <4>3. files[slot].first_block \in Blocks
        BY <1>1, <3>2 DEF Entry, Occupied, BlockId, Blocks
      <4> QED BY <4>1, <4>2, <4>3, <1>1, AfterFreeType
    <3> QED BY <3>1, <3>2
  <2>3. OpenFilesTrackEntries'
    <3>1. ASSUME NEW j \in FDs, openFileTable'[j] # NULL PROVE Occupied(DiskEntry(j)')
      <4>1. Occupied(DiskEntry(j)) BY <3>1, <2>1 DEF OpenFilesTrackEntries
      <4>2. openFileTable[j].diskFile \in Slots \cup {UnlinkedFile}
        BY <3>1, <2>1, <1>1 DEF OpenFile
      <4>3. openFileTable[j].diskFile # slot BY <1>3, <3>1, <2>1, OpenFileSearch
      <4> QED BY <4>1, <4>2, <4>3, <2>1 DEF DiskEntry
    <3> QED BY <3>1, <2>1 DEF OpenFilesTrackEntries, Occupied
  <2> QED BY <1>1, <2>1, <2>2, <2>3
<1> QED BY <1>2, <1>3

-----------------------------------------------------------------------------
(* The actions *)

(* The inductive invariant of the tables.  RefCounts needs TypeOK for finite    *)
(* counts, and TypeOK needs RefCounts and OpenFilesTrackEntries: a descriptor   *)
(* must lead to an open file, and that file to an entry in use, for the blocks  *)
(* that a call changes to be blocks of the disk.                                *)
IInv == TypeOK /\ RefCounts /\ OpenFilesTrackEntries

LEMMA expandDirectoryType ==
  ASSUME TypeOK, NEW new \in LastToAllocate(disk, 1), NEW last \in LastDirectoryBlock,
         expandDirectory(new, last)
  PROVE  /\ new \in Blocks /\ <<new, 1>> \in Slots
         /\ disk' \in Disk /\ data' \in [Blocks -> BlockData] /\ next_rootdir' \in BlockId
<1>1. disk \in Disk /\ data \in [Blocks -> BlockData] /\ next_rootdir \in BlockId BY DEF TypeOK
<1>2. new \in Blocks BY <1>1, AllocatedBlocks
<1>3. new \in BlockId /\ <<new, 1>> \in Slots BY <1>2, BlockIds DEF Slots
<1>4. last \in BlockId
  <2>1. CASE next_rootdir = 0 BY <2>1, BlockIds DEF LastDirectoryBlock
  <2>2. CASE next_rootdir # 0 BY <2>2, FoundBlocks, BlockIds DEF LastDirectoryBlock
  <2> QED BY <2>1, <2>2
<1> DEFINE allocated == AfterAllocate(disk, "DIR", new)
<1>5. allocated \in Disk BY <1>1, <1>2, AfterAllocateType
<1> HIDE DEF allocated
<1>6. disk' \in Disk /\ next_rootdir' \in BlockId
  <2>1. CASE last = 0
    <3>1. next_rootdir' = new /\ disk' = [allocated EXCEPT !.blk[new].prev = 0]
      BY <2>1 DEF expandDirectory, allocated
    <3>2. allocated.blk[new] \in Header BY <1>2, <1>5 DEF Disk
    <3> QED BY <3>1, <3>2, <1>3, <1>5, BlockIds DEF Disk, Header
  <2>2. CASE last # 0
    <3>1. next_rootdir' = next_rootdir /\ disk' = AfterAttach(allocated, last, new)
      BY <2>2 DEF expandDirectory, allocated
    <3> QED BY <3>1, <1>1, <1>3, <1>4, <1>5, AfterAttachType
  <2> QED BY <2>1, <2>2
<1>7. data' \in [Blocks -> BlockData]
  <2>1. data' = [data EXCEPT ![new] = [i \in 0 .. BLOCK_DATA_SIZE - 1 |-> 0]]
    BY DEF expandDirectory
  <2>2. [i \in 0 .. BLOCK_DATA_SIZE - 1 |-> 0] \in BlockData BY DEF BlockData
  <2> QED BY <1>1, <2>1, <2>2
<1> QED BY <1>2, <1>3, <1>6, <1>7

LEMMA GrownDiskType ==
  ASSUME TypeOK, NEW n, NEW new \in LastToAllocate(disk, n),
         NEW entry \in Entry, Occupied(entry), NEW tail \in FileTail(entry)
  PROVE  /\ GrownDisk(entry, new, tail) \in Disk
         /\ GrownFirst(entry) \in Blocks
<1>1. disk \in Disk BY DEF TypeOK
<1>2. new \in Blocks /\ disk.freelist \in Blocks BY <1>1, AllocatedBlocks
<1>3. AfterAllocate(disk, "FILE", new) \in Disk BY <1>1, <1>2, AfterAllocateType
<1>4. tail \in BlockId
  <2>1. CASE entry.first_block = SFS_EMPTY_FILE_BLOCK BY <2>1, BlockIds DEF FileTail
  <2>2. CASE entry.first_block # SFS_EMPTY_FILE_BLOCK
    BY <2>2, FoundBlocks, BlockIds DEF FileTail
  <2> QED BY <2>1, <2>2
<1>5. GrownDisk(entry, new, tail) \in Disk
  BY <1>2, <1>3, <1>4, AfterAttachType, BlockIds DEF GrownDisk
<1>6. entry.first_block # SFS_EMPTY_FILE_BLOCK => entry.first_block \in Blocks
  BY DEF Entry, Occupied, BlockId, Blocks
<1> QED BY <1>2, <1>5, <1>6 DEF GrownFirst

LEMMA OpenExistingKeeps ==
  ASSUME IInv, NEW name \in Names, OpenExisting(name)
  PROVE  IInv'
<1>1. PICK slot \in findDirectoryEntry(name) : addOpenFileEntry(slot) BY DEF OpenExisting
<1>2. slot \in Slots /\ Occupied(files[slot]) BY EntryFound
<1>3. /\ openFileTable' \in [FDs -> OpenFile \cup {NULL}]
      /\ openFileDescTable' \in [FDs -> Descriptor \cup {NULL}]
      /\ RefCounts' /\ OpenFilesTrackEntries'
  <2>1. files' = files BY DEF OpenExisting
  <2>2. files' \in [Slots -> Entry]
        /\ \A s \in Slots : Occupied(files[s]) \/ s = slot => Occupied(files'[s])
    BY <1>2, <2>1 DEF IInv, TypeOK
  <2> QED BY <1>1, <1>2, <2>2, addOpenFileEntryKeeps DEF IInv
<1> QED BY <1>3 DEF IInv, TypeOK, OpenExisting

LEMMA createFileKeeps ==
  ASSUME IInv, NEW name \in Names, NEW slot \in Slots, createFile(name, slot)
  PROVE  /\ files' \in [Slots -> Entry]
         /\ openFileTable' \in [FDs -> OpenFile \cup {NULL}]
         /\ openFileDescTable' \in [FDs -> Descriptor \cup {NULL}]
         /\ RefCounts' /\ OpenFilesTrackEntries'
<1> DEFINE entry == [first_block |-> SFS_EMPTY_FILE_BLOCK, size |-> 0, name |-> name]
<1>1. entry \in Entry /\ Occupied(entry) BY BlockIds DEF Entry, Occupied
<1>2. files' = [files EXCEPT ![slot] = entry] /\ addOpenFileEntry(slot) BY DEF createFile
<1> HIDE DEF entry
<1>3. files \in [Slots -> Entry] BY DEF IInv, TypeOK
<1>4. files' \in [Slots -> Entry]
      /\ \A s \in Slots : Occupied(files[s]) \/ s = slot => Occupied(files'[s])
  BY <1>1, <1>2, <1>3
<1> QED BY <1>2, <1>4, addOpenFileEntryKeeps DEF IInv

LEMMA OpenCreateKeeps ==
  ASSUME IInv, NEW name \in Names, OpenCreate(name)
  PROVE  IInv'
<1>1. PICK slot \in EmptySlot : createFile(name, slot) BY DEF OpenCreate
<1>2. slot \in Slots BY SlotFound
<1> QED BY <1>1, <1>2, createFileKeeps DEF IInv, TypeOK, OpenCreate

LEMMA OpenExpandKeeps ==
  ASSUME IInv, NEW name \in Names, OpenExpand(name)
  PROVE  IInv'
<1>1. PICK new \in LastToAllocate(disk, 1), last \in LastDirectoryBlock :
        expandDirectory(new, last) /\ createFile(name, <<new, 1>>)
  BY DEF OpenExpand
<1>2. /\ <<new, 1>> \in Slots
      /\ disk' \in Disk /\ data' \in [Blocks -> BlockData] /\ next_rootdir' \in BlockId
  BY <1>1, expandDirectoryType DEF IInv
<1> QED BY <1>1, <1>2, createFileKeeps DEF IInv, TypeOK

LEMMA OpenNoMemoryKeeps ==
  ASSUME IInv, NEW name \in Names, OpenNoMemory(name)
  PROVE  IInv'
<1>1. PICK new \in LastToAllocate(disk, 1), last \in LastDirectoryBlock :
        expandDirectory(new, last)
  BY DEF OpenNoMemory
<1>2. disk' \in Disk /\ data' \in [Blocks -> BlockData] /\ next_rootdir' \in BlockId
  BY <1>1, expandDirectoryType DEF IInv
<1>3. UNCHANGED <<files, openFileTable, openFileDescTable>> BY DEF OpenNoMemory
<1>4. TypeOK' BY <1>2, <1>3 DEF IInv, TypeOK
<1>5. RefCounts' BY <1>3 DEF IInv, RefCounts, Descriptors
<1>6. OpenFilesTrackEntries' BY <1>3 DEF IInv, OpenFilesTrackEntries, DiskEntry, Occupied
<1> QED BY <1>4, <1>5, <1>6 DEF IInv

LEMMA CloseKeeps ==
  ASSUME IInv, NEW fd \in FDs, Close(fd)
  PROVE  IInv'
<1>0. openFileDescTable[fd] # NULL /\ openFileDescTable[fd].fileEntry \in FDs
  BY DescriptorFile DEF IInv, Close
<1> PICK i \in FDs : i = openFileDescTable[fd].fileEntry BY <1>0
<1> DEFINE first == DiskEntry(i).first_block
<1>1. /\ openFileTable \in [FDs -> OpenFile \cup {NULL}]
      /\ openFileDescTable \in [FDs -> Descriptor \cup {NULL}]
      /\ disk \in Disk /\ openFileDescTable[fd] # NULL
      /\ openFileDescTable' = [openFileDescTable EXCEPT ![fd] = NULL]
      /\ UNCHANGED <<data, next_rootdir, files>>
  BY DEF IInv, TypeOK, Close
<1>2. /\ i \in FDs /\ openFileTable[i] # NULL /\ openFileTable[i] \in OpenFile
      /\ DiskEntry(i) \in Entry
  BY <1>1, DescriptorFile DEF IInv
<1>3. openFileDescTable' \in [FDs -> Descriptor \cup {NULL}] BY <1>1
<1>4. openFileTable[i].refCount \in Nat BY <1>2 DEF OpenFile
<1>5. Descriptors(i)' = Descriptors(i) \ {fd} /\ fd \in Descriptors(i) BY <1>1 DEF Descriptors
<1>6. \A j \in FDs \ {i} : Descriptors(j)' = Descriptors(j) BY <1>1 DEF Descriptors
<1>7. IsFiniteSet(Descriptors(i))
      /\ Cardinality(Descriptors(i)') = openFileTable[i].refCount - 1
  <2>1. IsFiniteSet(Descriptors(i)) BY <1>2, DescriptorsFinite
  <2>2. Cardinality(Descriptors(i)) = openFileTable[i].refCount BY <1>2 DEF IInv, RefCounts
  <2>3. Cardinality(Descriptors(i) \ {fd}) = Cardinality(Descriptors(i)) - 1
    BY <2>1, <1>5, FS_RemoveElement
  <2> QED BY <2>1, <2>2, <2>3, <1>5
<1>8. CASE openFileTable[i].refCount > 1 /\ disk' = disk
           /\ openFileTable' = [openFileTable EXCEPT ![i].refCount = @ - 1]
  <2> DEFINE new == [openFileTable[i] EXCEPT !.refCount = @ - 1]
  <2>1. openFileTable' = [openFileTable EXCEPT ![i] = new] BY <1>8
  <2>2. /\ new \in OpenFile /\ new.refCount = openFileTable[i].refCount - 1
        /\ new.unlinked = openFileTable[i].unlinked
        /\ new.diskFile = openFileTable[i].diskFile
        /\ new.unlinkedFile = openFileTable[i].unlinkedFile
    <3>f. PICK f : f = openFileTable[i] OBVIOUS
    <3>n. PICK n : n = f.refCount - 1 OBVIOUS
    <3>1. f \in OpenFile /\ n \in Nat BY <1>2, <1>4, <1>8, <3>f, <3>n
    <3>2. new = [f EXCEPT !.refCount = n] BY <3>f, <3>n
    <3>3. /\ [f EXCEPT !.refCount = n] \in OpenFile
          /\ [f EXCEPT !.refCount = n].refCount = n
          /\ [f EXCEPT !.refCount = n].unlinked = f.unlinked
          /\ [f EXCEPT !.refCount = n].diskFile = f.diskFile
          /\ [f EXCEPT !.refCount = n].unlinkedFile = f.unlinkedFile
      BY ONLY <3>1 DEF OpenFile
    <3> QED BY <3>2, <3>3, <3>f, <3>n
  <2>3. new # NULL BY <2>2, NullAssumption
  <2> HIDE DEF new
  <2>4. openFileTable' \in [FDs -> OpenFile \cup {NULL}] BY <1>1, <2>1, <2>2
  <2>5. TypeOK' BY <1>1, <1>3, <1>8, <2>4 DEF IInv, TypeOK
  <2>6. RefCounts'
    <3> SUFFICES ASSUME NEW j \in FDs
                 PROVE  IF openFileTable'[j] = NULL THEN Descriptors(j)' = {}
                        ELSE /\ openFileTable'[j].refCount > 0
                             /\ openFileTable'[j].refCount = Cardinality(Descriptors(j)')
      BY DEF RefCounts
    <3>1. CASE j = i
      <4>1. openFileTable'[j] = new BY <3>1, <2>1, <1>1, <1>2
      <4>2. new.refCount > 0 BY <2>2, <1>4, <1>8
      <4> QED BY <3>1, <4>1, <4>2, <2>2, <2>3, <1>7
    <3>2. CASE j # i
      <4>1. openFileTable'[j] = openFileTable[j] BY <3>2, <2>1, <1>1
      <4> QED BY <3>2, <4>1, <1>6 DEF IInv, RefCounts
    <3> QED BY <3>1, <3>2
  <2>7. OpenFilesTrackEntries'
    <3>1. \A j \in FDs : openFileTable'[j] # NULL =>
            /\ openFileTable[j] # NULL
            /\ openFileTable'[j].unlinked = openFileTable[j].unlinked
            /\ openFileTable'[j].diskFile = openFileTable[j].diskFile
            /\ openFileTable'[j].unlinkedFile = openFileTable[j].unlinkedFile
      BY <1>1, <1>2, <2>1, <2>2
    <3>2. ASSUME NEW j \in FDs, openFileTable'[j] # NULL PROVE Occupied(DiskEntry(j)')
      <4>1. Occupied(DiskEntry(j)) BY <3>1, <3>2 DEF IInv, OpenFilesTrackEntries
      <4> QED BY <4>1, <3>1, <3>2, <1>1 DEF DiskEntry
    <3> QED BY <3>1, <3>2 DEF IInv, OpenFilesTrackEntries, Occupied
  <2> QED BY <2>5, <2>6, <2>7 DEF IInv
<1>9. CASE /\ openFileTable[i].refCount = 1
           /\ openFileTable' = [openFileTable EXCEPT ![i] = NULL]
           /\ IF openFileTable[i].unlinked /\ first # SFS_EMPTY_FILE_BLOCK
              THEN \E last \in LastOf(disk.blk, first) : disk' = AfterFree(disk, first, last)
              ELSE UNCHANGED disk
  <2>1. disk' \in Disk
    <3>1. CASE openFileTable[i].unlinked /\ first # SFS_EMPTY_FILE_BLOCK
      <4>1. PICK last \in LastOf(disk.blk, first) : disk' = AfterFree(disk, first, last)
        BY <1>9, <3>1
      <4>2. last \in Blocks BY FoundBlocks
      <4>3. Occupied(DiskEntry(i)) BY <1>2 DEF IInv, OpenFilesTrackEntries
      <4>4. first \in Blocks BY <4>3, <3>1, <1>2 DEF Entry, Occupied, BlockId, Blocks
      <4> QED BY <4>1, <4>2, <4>4, <1>1, AfterFreeType
    <3>2. CASE ~ (openFileTable[i].unlinked /\ first # SFS_EMPTY_FILE_BLOCK)
      BY <3>2, <1>1, <1>9
    <3> QED BY <3>1, <3>2
  <2>2. openFileTable' = [openFileTable EXCEPT ![i] = NULL] BY <1>9
  <2>3. Cardinality(Descriptors(i)') = 0 BY <1>7, <1>9
  <2>4. Descriptors(i)' = {}
    <3>1. IsFiniteSet(Descriptors(i)') BY <1>5, <1>7, FS_RemoveElement
    <3> QED BY <2>3, <3>1, FS_EmptySet
  <2>5. TypeOK' BY <1>1, <1>3, <2>1, <2>2 DEF IInv, TypeOK
  <2>6. RefCounts'
    <3>1. \A j \in FDs \ {i} : openFileTable'[j] = openFileTable[j] BY <2>2, <1>1
    <3>2. openFileTable'[i] = NULL BY <2>2, <1>1, <1>2
    <3> QED BY <3>1, <3>2, <2>4, <1>6 DEF IInv, RefCounts
  <2>7. OpenFilesTrackEntries'
    <3>1. \A j \in FDs : openFileTable'[j] # NULL => openFileTable'[j] = openFileTable[j]
      BY <2>2, <1>1
    <3>2. ASSUME NEW j \in FDs, openFileTable'[j] # NULL PROVE Occupied(DiskEntry(j)')
      <4>1. Occupied(DiskEntry(j)) BY <3>1, <3>2 DEF IInv, OpenFilesTrackEntries
      <4> QED BY <4>1, <3>1, <3>2, <1>1 DEF DiskEntry
    <3> QED BY <3>1, <3>2 DEF IInv, OpenFilesTrackEntries, Occupied
  <2> QED BY <2>5, <2>6, <2>7 DEF IInv
<1> QED BY <1>8, <1>9 DEF Close

(* Moving the position of one descriptor keeps the tables right. *)
LEMMA MovedKeeps ==
  ASSUME IInv, NEW fd \in FDs, openFileDescTable[fd] # NULL, NEW pos \in Nat,
         openFileDescTable' = [openFileDescTable EXCEPT ![fd].currPos = pos]
  PROVE  /\ openFileDescTable' \in [FDs -> Descriptor \cup {NULL}]
         /\ \A d \in FDs :
                /\ openFileDescTable'[d] = NULL <=> openFileDescTable[d] = NULL
                /\ openFileDescTable[d] # NULL =>
                    openFileDescTable'[d].fileEntry = openFileDescTable[d].fileEntry
<1> DEFINE new == [openFileDescTable[fd] EXCEPT !.currPos = pos]
<1>1. openFileDescTable \in [FDs -> Descriptor \cup {NULL}] BY DEF IInv, TypeOK
<1>2. openFileDescTable[fd] \in Descriptor BY <1>1
<1>3. new \in Descriptor /\ new.fileEntry = openFileDescTable[fd].fileEntry
  BY <1>2 DEF Descriptor
<1>4. new # NULL BY <1>3, NullAssumption DEF Descriptor
<1>5. openFileDescTable' = [openFileDescTable EXCEPT ![fd] = new] BY <1>1
<1> HIDE DEF new
<1> QED BY <1>1, <1>3, <1>4, <1>5

LEMMA ReadKeeps ==
  ASSUME IInv, NEW fd \in FDs, NEW len \in Lengths, Read(fd, len)
  PROVE  IInv'
<1> DEFINE desc == openFileDescTable[fd]
           size == DiskEntry(desc.fileEntry).size
           pos == desc.currPos + sizeMin(size - desc.currPos, len)
<1>1. /\ desc # NULL
      /\ openFileDescTable' = [openFileDescTable EXCEPT ![fd].currPos = pos]
      /\ UNCHANGED <<disk, data, next_rootdir, files, openFileTable>>
  BY DEF Read
<1>2. desc.currPos \in Nat /\ size \in Nat
  <2>1. DiskEntry(desc.fileEntry) \in Entry /\ desc.currPos \in Nat
    BY <1>1, DescriptorFile DEF IInv
  <2> QED BY <2>1 DEF Entry
<1>3. pos \in Nat
  <2> HIDE DEF desc, size
  <2> QED BY <1>2 DEF sizeMin
<1> HIDE DEF pos
<1>4. openFileDescTable' \in [FDs -> Descriptor \cup {NULL}] /\ RefCounts'
  BY <1>1, <1>3, MovedKeeps, CountsKept DEF IInv
<1>5. TypeOK' BY <1>1, <1>4 DEF IInv, TypeOK
<1>6. OpenFilesTrackEntries' BY <1>1 DEF IInv, OpenFilesTrackEntries, DiskEntry, Occupied
<1> QED BY <1>4, <1>5, <1>6 DEF IInv

LEMMA SeekKeeps ==
  ASSUME IInv, NEW fd \in FDs, NEW delta \in Deltas, Seek(fd, delta)
  PROVE  IInv'
<1> DEFINE desc == openFileDescTable[fd]
           size == DiskEntry(desc.fileEntry).size
           pos == IF delta < 0
                  THEN IF -delta > desc.currPos THEN 0 ELSE desc.currPos + delta
                  ELSE IF delta > size - desc.currPos THEN size ELSE desc.currPos + delta
<1>1. /\ desc # NULL
      /\ openFileDescTable' = [openFileDescTable EXCEPT ![fd].currPos = pos]
      /\ UNCHANGED <<disk, data, next_rootdir, files, openFileTable>>
  BY DEF Seek
<1>2. desc.currPos \in Nat /\ size \in Nat
  <2>1. DiskEntry(desc.fileEntry) \in Entry /\ desc.currPos \in Nat
    BY <1>1, DescriptorFile DEF IInv
  <2> QED BY <2>1 DEF Entry
<1>3. pos \in Nat
  <2> HIDE DEF desc, size
  <2> QED BY <1>2
<1> HIDE DEF pos
<1>4. openFileDescTable' \in [FDs -> Descriptor \cup {NULL}] /\ RefCounts'
  BY <1>1, <1>3, MovedKeeps, CountsKept DEF IInv
<1>5. TypeOK' BY <1>1, <1>4 DEF IInv, TypeOK
<1>6. OpenFilesTrackEntries' BY <1>1 DEF IInv, OpenFilesTrackEntries, DiskEntry, Occupied
<1> QED BY <1>4, <1>5, <1>6 DEF IInv

LEMMA WriteOutKeeps ==
  ASSUME IInv, NEW fd \in FDs, NEW buf \in Buffers, CanWrite(fd, buf), disk' \in Disk,
         NEW blk, NEW first \in Blocks, WriteOut(fd, buf, blk, first)
  PROVE  IInv'
<1>0. openFileDescTable[fd] # NULL BY DEF CanWrite
<1>1. openFileDescTable[fd].fileEntry \in FDs BY <1>0, DescriptorFile DEF IInv
<1> PICK i \in FDs : i = openFileDescTable[fd].fileEntry BY <1>1
<1> DEFINE pos == openFileDescTable[fd].currPos
           end == pos + Len(buf)
           new == [DiskEntry(i) EXCEPT !.first_block = first,
                        !.size = IF end > DiskEntry(i).size THEN end ELSE @]
<1>2. /\ data' = StoreBytes(blk, first, pos, buf)
      /\ openFileDescTable' = [openFileDescTable EXCEPT ![fd].currPos = end]
      /\ SetDiskEntry(i, new)
      /\ next_rootdir' = next_rootdir
  BY DEF WriteOut
<1>3. pos \in Nat /\ openFileTable[i] # NULL /\ DiskEntry(i) \in Entry
  BY <1>0, DescriptorFile DEF IInv
<1>4. buf \in Seq(Bytes) /\ Len(buf) \in Nat /\ \A k \in DOMAIN buf : buf[k] \in Bytes
  OBVIOUS
<1>5. end \in Nat BY <1>3, <1>4
<1>6. new \in Entry /\ Occupied(new)
  <2> HIDE DEF end
  <2>1. first \in BlockId /\ first # 0 BY BlockIds DEF Blocks
  <2> QED BY <1>3, <1>5, <2>1 DEF Entry, Occupied
<1>7. data' \in [Blocks -> BlockData] BY <1>2, <1>4, StoreBytesType DEF IInv
<1> HIDE DEF new, end
<1>8. openFileDescTable' \in [FDs -> Descriptor \cup {NULL}]
      /\ \A d \in FDs :
            /\ openFileDescTable'[d] = NULL <=> openFileDescTable[d] = NULL
            /\ openFileDescTable[d] # NULL =>
                openFileDescTable'[d].fileEntry = openFileDescTable[d].fileEntry
  BY <1>0, <1>2, <1>5, MovedKeeps
<1>9. /\ files' \in [Slots -> Entry]
      /\ openFileTable' \in [FDs -> OpenFile \cup {NULL}]
      /\ \A j \in FDs :
            /\ openFileTable'[j] = NULL <=> openFileTable[j] = NULL
            /\ openFileTable[j] # NULL =>
                openFileTable'[j].refCount = openFileTable[j].refCount
      /\ OpenFilesTrackEntries'
  BY <1>2, <1>3, <1>6, SetDiskEntryKeeps DEF IInv
<1>10. RefCounts' BY <1>8, <1>9, CountsKept DEF IInv
<1>11. TypeOK' BY <1>2, <1>7, <1>8, <1>9 DEF IInv, TypeOK
<1> QED BY <1>9, <1>10, <1>11 DEF IInv

LEMMA WriteInPlaceKeeps ==
  ASSUME IInv, NEW fd \in FDs, NEW buf \in Buffers, WriteInPlace(fd, buf)
  PROVE  IInv'
<1> DEFINE desc  == openFileDescTable[fd]
           entry == DiskEntry(desc.fileEntry)
<1>1. /\ CanWrite(fd, buf) /\ disk' = disk
      /\ desc.currPos + Len(buf) <= allocatedBlocksForFile(entry) * BLOCK_DATA_SIZE
      /\ WriteOut(fd, buf, disk.blk, entry.first_block)
  BY DEF WriteInPlace
<1>2. desc # NULL BY <1>1 DEF CanWrite
<1>3. /\ entry \in Entry /\ desc.currPos \in Nat
      /\ desc.fileEntry \in FDs /\ openFileTable[desc.fileEntry] # NULL
  BY <1>2, DescriptorFile DEF IInv
<1>4. Occupied(entry) BY <1>3 DEF IInv, OpenFilesTrackEntries
<1>5. entry.first_block # SFS_EMPTY_FILE_BLOCK
  <2> SUFFICES ASSUME entry.first_block = SFS_EMPTY_FILE_BLOCK PROVE FALSE OBVIOUS
  <2>1. allocatedBlocksForFile(entry) = 0 BY DEF allocatedBlocksForFile
  <2>2. Len(buf) \in Nat /\ Len(buf) # 0 BY <1>1 DEF CanWrite
  <2> HIDE DEF desc, entry
  <2> QED BY <1>1, <1>3, <2>1, <2>2
<1>6. entry.first_block \in Blocks
  BY <1>3, <1>4, <1>5 DEF Entry, Occupied, BlockId, Blocks
<1>7. disk' \in Disk BY <1>1 DEF IInv, TypeOK
<1> QED BY <1>1, <1>6, <1>7, WriteOutKeeps

LEMMA WriteGrowKeeps ==
  ASSUME IInv, NEW fd \in FDs, NEW buf \in Buffers, WriteGrow(fd, buf)
  PROVE  IInv'
<1> DEFINE desc    == openFileDescTable[fd]
           entry   == DiskEntry(desc.fileEntry)
           end     == desc.currPos + Len(buf)
           current == allocatedBlocksForFile(entry) * BLOCK_DATA_SIZE
           extra   == (roundUp(end, BLOCK_DATA_SIZE) - current) \div BLOCK_DATA_SIZE
<1>1. CanWrite(fd, buf) BY DEF WriteGrow
<1>2. PICK new \in LastToAllocate(disk, extra), tail \in FileTail(entry) :
            /\ disk' = GrownDisk(entry, new, tail)
            /\ WriteOut(fd, buf, disk'.blk, GrownFirst(entry))
  BY DEF WriteGrow
<1>3. desc # NULL BY <1>1 DEF CanWrite
<1>4. entry \in Entry /\ desc.fileEntry \in FDs /\ openFileTable[desc.fileEntry] # NULL
  BY <1>3, DescriptorFile DEF IInv
<1>5. Occupied(entry) BY <1>4 DEF IInv, OpenFilesTrackEntries
<1>6. disk' \in Disk /\ GrownFirst(entry) \in Blocks
  BY <1>2, <1>4, <1>5, GrownDiskType DEF IInv
<1> HIDE DEF entry
<1> QED BY <1>1, <1>2, <1>6, WriteOutKeeps

LEMMA TruncateGrowKeeps ==
  ASSUME IInv, NEW fd \in FDs, NEW length \in Lengths, TruncateGrow(fd, length)
  PROVE  IInv'
<1>0. openFileDescTable[fd] # NULL /\ openFileDescTable' = openFileDescTable
      /\ next_rootdir' = next_rootdir
  BY DEF TruncateGrow
<1>1. openFileDescTable[fd].fileEntry \in FDs BY <1>0, DescriptorFile DEF IInv
<1> PICK i \in FDs : i = openFileDescTable[fd].fileEntry BY <1>1
<1> DEFINE entry == DiskEntry(i)
           extra == blocksForFileSize(length) - allocatedBlocksForFile(entry)
           Resized(first) == [entry EXCEPT !.first_block = first, !.size = length]
           bytes == Zeros(entry.size, length)
<1>2. openFileTable[i] # NULL /\ entry \in Entry BY <1>0, DescriptorFile DEF IInv
<1>3. Occupied(entry) BY <1>2 DEF IInv, OpenFilesTrackEntries
<1>4. PICK first \in Blocks \cup {SFS_EMPTY_FILE_BLOCK} :
            /\ disk' \in Disk
            /\ data' = StoreBytes(disk'.blk, first, entry.size, bytes)
            /\ SetDiskEntry(i, Resized(first))
  <2>1. CASE \E new \in LastToAllocate(disk, extra), tail \in FileTail(entry) :
                /\ disk' = GrownDisk(entry, new, tail)
                /\ data' = StoreBytes(disk'.blk, GrownFirst(entry), entry.size, bytes)
                /\ SetDiskEntry(i, Resized(GrownFirst(entry)))
    <3>1. PICK new \in LastToAllocate(disk, extra), tail \in FileTail(entry) :
                /\ disk' = GrownDisk(entry, new, tail)
                /\ data' = StoreBytes(disk'.blk, GrownFirst(entry), entry.size, bytes)
                /\ SetDiskEntry(i, Resized(GrownFirst(entry)))
      BY <2>1
    <3> HIDE DEF entry
    <3>2. GrownDisk(entry, new, tail) \in Disk /\ GrownFirst(entry) \in Blocks
      BY <1>2, <1>3, GrownDiskType DEF IInv
    <3> QED BY <3>1, <3>2
  <2>2. CASE /\ disk' = disk
             /\ data' = StoreBytes(disk'.blk, entry.first_block, entry.size, bytes)
             /\ SetDiskEntry(i, Resized(entry.first_block))
    <3>1. entry.first_block \in Blocks \cup {SFS_EMPTY_FILE_BLOCK}
      BY <1>2, <1>3 DEF Entry, Occupied, BlockId, Blocks
    <3> QED BY <2>2, <3>1 DEF IInv, TypeOK
  <2> QED BY <2>1, <2>2 DEF TruncateGrow
<1>5. Resized(first) \in Entry /\ Occupied(Resized(first))
  <2>1. first \in BlockId \cup {SFS_EMPTY_FILE_BLOCK} /\ first # 0
    BY BlockIds DEF Blocks
  <2> QED BY <1>2, <2>1 DEF Entry, Occupied
<1>6. \A k \in DOMAIN bytes : bytes[k] \in Bytes BY DEF Zeros
<1>7. data' \in [Blocks -> BlockData] BY <1>4, <1>6, StoreBytesType DEF IInv
<1> HIDE DEF Resized
<1>8. /\ files' \in [Slots -> Entry]
      /\ openFileTable' \in [FDs -> OpenFile \cup {NULL}]
      /\ \A j \in FDs :
            /\ openFileTable'[j] = NULL <=> openFileTable[j] = NULL
            /\ openFileTable[j] # NULL =>
                openFileTable'[j].refCount = openFileTable[j].refCount
      /\ OpenFilesTrackEntries'
  BY <1>2, <1>4, <1>5, SetDiskEntryKeeps DEF IInv
<1>9. RefCounts' BY <1>0, <1>8, CountsKept DEF IInv
<1>10. TypeOK' BY <1>0, <1>4, <1>7, <1>8 DEF IInv, TypeOK
<1> QED BY <1>8, <1>9, <1>10 DEF IInv

LEMMA TruncateShrinkKeeps ==
  ASSUME IInv, NEW fd \in FDs, NEW length \in Lengths, TruncateShrink(fd, length)
  PROVE  IInv'
<1>0. openFileDescTable[fd] # NULL /\ next_rootdir' = next_rootdir BY DEF TruncateShrink
<1>1. openFileDescTable[fd].fileEntry \in FDs BY <1>0, DescriptorFile DEF IInv
<1> PICK i \in FDs : i = openFileDescTable[fd].fileEntry BY <1>1
<1> DEFINE entry == DiskEntry(i)
           first == entry.first_block
           old_blocks == allocatedBlocksForFile(entry)
           new_blocks == blocksForFileSize(length)
           new == [entry EXCEPT
                !.first_block = IF new_blocks = 0 THEN SFS_EMPTY_FILE_BLOCK ELSE first,
                !.size = length]
           bytes == Zeros(length, new_blocks * BLOCK_DATA_SIZE)
<1>2. openFileTable[i] # NULL /\ entry \in Entry BY <1>0, DescriptorFile DEF IInv
<1>3. Occupied(entry) BY <1>2 DEF IInv, OpenFilesTrackEntries
<1>4. /\ IF new_blocks < old_blocks
         THEN \E first_free \in fileBlockAt(disk.blk, first, new_blocks),
                 last \in LastOf(disk.blk, first) :
                   disk' = AfterFree(disk, first_free, last)
         ELSE UNCHANGED disk
      /\ data' = StoreBytes(disk'.blk, first, length, bytes)
      /\ SetDiskEntry(i, new)
      /\ openFileDescTable' = [d \in FDs |->
                IF /\ openFileDescTable[d] # NULL
                   /\ openFileDescTable[d].fileEntry = i
                   /\ openFileDescTable[d].currPos > length
                THEN [openFileDescTable[d] EXCEPT !.currPos = length]
                ELSE openFileDescTable[d]]
  BY DEF TruncateShrink
<1>5. disk' \in Disk
  <2>1. disk \in Disk BY DEF IInv, TypeOK
  <2>2. CASE \E first_free \in fileBlockAt(disk.blk, first, new_blocks),
                last \in LastOf(disk.blk, first) : disk' = AfterFree(disk, first_free, last)
    BY <2>1, <2>2, FoundBlocks, AfterFreeType
  <2>3. CASE UNCHANGED disk BY <2>1, <2>3
  <2> QED BY <1>4, <2>2, <2>3
<1>6. new \in Entry /\ Occupied(new)
  BY <1>2, <1>3, BlockIds DEF Entry, Occupied
<1>7. \A k \in DOMAIN bytes : bytes[k] \in Bytes BY DEF Zeros
<1>8. data' \in [Blocks -> BlockData] BY <1>4, <1>7, StoreBytesType DEF IInv
<1> HIDE DEF new
<1>9. /\ openFileDescTable' \in [FDs -> Descriptor \cup {NULL}]
      /\ \A d \in FDs :
            /\ openFileDescTable'[d] = NULL <=> openFileDescTable[d] = NULL
            /\ openFileDescTable[d] # NULL =>
                openFileDescTable'[d].fileEntry = openFileDescTable[d].fileEntry
  <2>1. openFileDescTable \in [FDs -> Descriptor \cup {NULL}] BY DEF IInv, TypeOK
  <2>2. ASSUME NEW d \in FDs, openFileDescTable[d] # NULL
        PROVE  LET moved == [openFileDescTable[d] EXCEPT !.currPos = length]
               IN  /\ moved \in Descriptor /\ moved # NULL
                   /\ moved.fileEntry = openFileDescTable[d].fileEntry
    <3> DEFINE moved == [openFileDescTable[d] EXCEPT !.currPos = length]
    <3>1. openFileDescTable[d] \in Descriptor BY <2>1, <2>2
    <3>2. moved \in Descriptor /\ moved.fileEntry = openFileDescTable[d].fileEntry
      BY <3>1 DEF Descriptor
    <3>3. moved # NULL BY <3>2, NullAssumption DEF Descriptor
    <3> QED BY <3>2, <3>3
  <2> QED BY <1>4, <2>1, <2>2
<1>10. /\ files' \in [Slots -> Entry]
       /\ openFileTable' \in [FDs -> OpenFile \cup {NULL}]
       /\ \A j \in FDs :
            /\ openFileTable'[j] = NULL <=> openFileTable[j] = NULL
            /\ openFileTable[j] # NULL =>
                openFileTable'[j].refCount = openFileTable[j].refCount
       /\ OpenFilesTrackEntries'
  BY <1>2, <1>4, <1>6, SetDiskEntryKeeps DEF IInv
<1>11. RefCounts' BY <1>9, <1>10, CountsKept DEF IInv
<1>12. TypeOK' BY <1>0, <1>5, <1>8, <1>9, <1>10 DEF IInv, TypeOK
<1> QED BY <1>10, <1>11, <1>12 DEF IInv

LEMMA RemoveKeeps ==
  ASSUME IInv, NEW name \in Names, Remove(name)
  PROVE  IInv'
<1>1. PICK slot \in findDirectoryEntry(name) :
        /\ unlinkDirectoryEntry(slot)
        /\ files' = [files EXCEPT ![slot] = UnusedEntry]
  BY DEF Remove
<1>2. slot \in Slots /\ Occupied(files[slot]) BY EntryFound
<1>3. UNCHANGED <<data, next_rootdir, openFileDescTable>> BY DEF Remove
<1>4. files \in [Slots -> Entry] /\ UnusedEntry \in Entry
  BY BlockIds DEF IInv, TypeOK, UnusedEntry, Entry
<1>5. files' \in [Slots -> Entry]
      /\ \A s \in Slots \ {slot} : Occupied(files[s]) => Occupied(files'[s])
  BY <1>1, <1>4
<1>6. /\ disk' \in Disk
      /\ openFileTable' \in [FDs -> OpenFile \cup {NULL}]
      /\ \A j \in FDs :
            /\ openFileTable'[j] = NULL <=> openFileTable[j] = NULL
            /\ openFileTable[j] # NULL =>
                openFileTable'[j].refCount = openFileTable[j].refCount
      /\ OpenFilesTrackEntries'
  BY <1>1, <1>2, <1>5, unlinkDirectoryEntryKeeps DEF IInv
<1>7. RefCounts' BY <1>3, <1>6, CountsKept DEF IInv
<1>8. TypeOK' BY <1>3, <1>5, <1>6 DEF IInv, TypeOK
<1> QED BY <1>6, <1>7, <1>8 DEF IInv

LEMMA RenameOverKeeps ==
  ASSUME IInv, NEW old_name \in Names, NEW new_name \in Names, RenameOver(old_name, new_name)
  PROVE  IInv'
<1>1. PICK slot \in findDirectoryEntry(old_name), victim \in findDirectoryEntry(new_name) :
        /\ unlinkDirectoryEntry(victim)
        /\ files' = [files EXCEPT ![victim] = UnusedEntry, ![slot].name = new_name]
  BY DEF RenameOver
<1>2. /\ slot \in Slots /\ Occupied(files[slot]) /\ files[slot].name = old_name
      /\ victim \in Slots /\ Occupied(files[victim]) /\ files[victim].name = new_name
  BY EntryFound
<1>3. slot # victim BY <1>2 DEF RenameOver
<1>4. UNCHANGED <<data, next_rootdir, openFileDescTable>> BY DEF RenameOver
<1>5. files \in [Slots -> Entry] /\ UnusedEntry \in Entry
  BY BlockIds DEF IInv, TypeOK, UnusedEntry, Entry
<1>6. files' \in [Slots -> Entry]
      /\ \A s \in Slots \ {victim} : Occupied(files[s]) => Occupied(files'[s])
  <2> DEFINE renamed == [files[slot] EXCEPT !.name = new_name]
  <2>1. renamed \in Entry /\ Occupied(renamed) BY <1>2, <1>5 DEF Entry, Occupied
  <2>2. files' = [files EXCEPT ![victim] = UnusedEntry, ![slot] = renamed]
    BY <1>1, <1>2, <1>3, <1>5
  <2> HIDE DEF renamed
  <2> QED BY <2>1, <2>2, <1>5
<1>7. /\ disk' \in Disk
      /\ openFileTable' \in [FDs -> OpenFile \cup {NULL}]
      /\ \A j \in FDs :
            /\ openFileTable'[j] = NULL <=> openFileTable[j] = NULL
            /\ openFileTable[j] # NULL =>
                openFileTable'[j].refCount = openFileTable[j].refCount
      /\ OpenFilesTrackEntries'
  BY <1>1, <1>2, <1>6, unlinkDirectoryEntryKeeps DEF IInv
<1>8. RefCounts' BY <1>4, <1>7, CountsKept DEF IInv
<1>9. TypeOK' BY <1>4, <1>6, <1>7 DEF IInv, TypeOK
<1> QED BY <1>7, <1>8, <1>9 DEF IInv

LEMMA RenameFreshKeeps ==
  ASSUME IInv, NEW old_name \in Names, NEW new_name \in Names, RenameFresh(old_name, new_name)
  PROVE  IInv'
<1>1. PICK slot \in findDirectoryEntry(old_name) :
        files' = [files EXCEPT ![slot].name = new_name]
  BY DEF RenameFresh
<1>2. slot \in Slots BY EntryFound
<1>3. UNCHANGED <<disk, data, next_rootdir, openFileTable, openFileDescTable>> BY DEF RenameFresh
<1>4. files \in [Slots -> Entry] BY DEF IInv, TypeOK
<1>5. files' \in [Slots -> Entry]
      /\ \A s \in Slots : Occupied(files[s]) <=> Occupied(files'[s])
  <2> DEFINE renamed == [files[slot] EXCEPT !.name = new_name]
  <2>1. renamed \in Entry /\ renamed.first_block = files[slot].first_block
    BY <1>2, <1>4 DEF Entry
  <2>2. files' = [files EXCEPT ![slot] = renamed] BY <1>1, <1>2, <1>4
  <2> HIDE DEF renamed
  <2> QED BY <2>1, <2>2, <1>4 DEF Occupied
<1>6. TypeOK' BY <1>3, <1>5 DEF IInv, TypeOK
<1>7. RefCounts' BY <1>3 DEF IInv, RefCounts, Descriptors
<1>8. OpenFilesTrackEntries'
  <2>1. ASSUME NEW j \in FDs, openFileTable'[j] # NULL PROVE Occupied(DiskEntry(j)')
    <3>1. Occupied(DiskEntry(j)) BY <1>3, <2>1 DEF IInv, OpenFilesTrackEntries
    <3>2. openFileTable[j].diskFile \in Slots \cup {UnlinkedFile}
      BY <1>3, <2>1 DEF IInv, TypeOK, OpenFile
    <3> QED BY <3>1, <3>2, <1>3, <1>5 DEF DiskEntry
  <2> QED BY <2>1, <1>3 DEF IInv, OpenFilesTrackEntries, Occupied
<1> QED BY <1>6, <1>7, <1>8 DEF IInv

-----------------------------------------------------------------------------
(* The invariant *)

LEMMA InitKeeps == Init => IInv
<1> SUFFICES ASSUME Init PROVE IInv OBVIOUS
<1>1. /\ data = [b \in Blocks |-> [i \in 0 .. BLOCK_DATA_SIZE - 1 |-> 0]]
      /\ next_rootdir = 0
      /\ openFileTable = [i \in FDs |-> NULL]
      /\ openFileDescTable = [fd \in FDs |-> NULL]
  BY DEF Init
<1>2. FormattedDisk \in Disk
  <2>1. \A b \in Blocks : b - 1 \in BlockId /\ (b + 1 # NBlocks => b + 1 \in BlockId)
    BY DEF Blocks, BlockId
  <2>2. 1 \in BlockId BY DEF BlockId
  <2> QED BY <2>1, <2>2, BlockIds DEF FormattedDisk, Disk, Header
<1>3. UnusedEntry \in Entry BY BlockIds DEF UnusedEntry, Entry
<1>4. disk \in Disk /\ files \in [Slots -> Entry]
  <2>1. CASE Formatted BY <2>1, <1>2, <1>3 DEF Formatted
  <2>2. CASE LegacyImage
    <3>1. 1 \in Blocks /\ 1 \in BlockId BY DEF Blocks, BlockId
    <3>2. disk \in Disk BY <2>2, <3>1, <1>2, AfterAllocateType DEF LegacyImage
    <3>3. PICK name \in Names :
            files = [s \in Slots |-> IF s = <<0, 1>>
                                     THEN [first_block |-> 1, size |-> 0, name |-> name]
                                     ELSE UnusedEntry]
      BY <2>2 DEF LegacyImage
    <3>4. [first_block |-> 1, size |-> 0, name |-> name] \in Entry BY <3>1 DEF Entry
    <3> QED BY <3>2, <3>3, <3>4, <1>3
  <2> QED BY <2>1, <2>2 DEF Init
<1>5. TypeOK
  <2>1. [i \in 0 .. BLOCK_DATA_SIZE - 1 |-> 0] \in BlockData BY DEF BlockData
  <2> QED BY <2>1, <1>1, <1>4, BlockIds DEF TypeOK
<1>6. RefCounts BY <1>1 DEF RefCounts, Descriptors
<1>7. OpenFilesTrackEntries BY <1>1 DEF OpenFilesTrackEntries
<1> QED BY <1>5, <1>6, <1>7 DEF IInv

LEMMA NextKeeps == IInv /\ [Next]_vars => IInv'
<1> SUFFICES ASSUME IInv, [Next]_vars PROVE IInv' OBVIOUS
<1>1. ASSUME NEW name \in Names, OpenExisting(name) PROVE IInv' BY <1>1, OpenExistingKeeps
<1>2. ASSUME NEW name \in Names, OpenCreate(name) PROVE IInv' BY <1>2, OpenCreateKeeps
<1>3. ASSUME NEW name \in Names, OpenExpand(name) PROVE IInv' BY <1>3, OpenExpandKeeps
<1>4. ASSUME NEW name \in Names, OpenNoMemory(name) PROVE IInv' BY <1>4, OpenNoMemoryKeeps
<1>5. ASSUME NEW name \in Names, Remove(name) PROVE IInv' BY <1>5, RemoveKeeps
<1>6. ASSUME NEW name \in Names, NEW new_name \in Names, RenameFresh(name, new_name)
      PROVE  IInv'
  BY <1>6, RenameFreshKeeps
<1>7. ASSUME NEW name \in Names, NEW new_name \in Names, RenameOver(name, new_name)
      PROVE  IInv'
  BY <1>7, RenameOverKeeps
<1>8. ASSUME NEW fd \in FDs, Close(fd) PROVE IInv' BY <1>8, CloseKeeps
<1>9. ASSUME NEW fd \in FDs, NEW len \in Lengths, Read(fd, len) PROVE IInv' BY <1>9, ReadKeeps
<1>10. ASSUME NEW fd \in FDs, NEW buf \in Buffers, WriteInPlace(fd, buf) PROVE IInv'
  BY <1>10, WriteInPlaceKeeps
<1>11. ASSUME NEW fd \in FDs, NEW buf \in Buffers, WriteGrow(fd, buf) PROVE IInv'
  BY <1>11, WriteGrowKeeps
<1>12. ASSUME NEW fd \in FDs, NEW delta \in Deltas, Seek(fd, delta) PROVE IInv'
  BY <1>12, SeekKeeps
<1>13. ASSUME NEW fd \in FDs, NEW length \in Lengths, TruncateGrow(fd, length) PROVE IInv'
  BY <1>13, TruncateGrowKeeps
<1>14. ASSUME NEW fd \in FDs, NEW length \in Lengths, TruncateShrink(fd, length) PROVE IInv'
  BY <1>14, TruncateShrinkKeeps
<1>15. CASE UNCHANGED vars
  BY <1>15 DEF vars, IInv, TypeOK, RefCounts, Descriptors, OpenFilesTrackEntries, DiskEntry, Occupied
<1> QED
  BY <1>1, <1>2, <1>3, <1>4, <1>5, <1>6, <1>7, <1>8, <1>9, <1>10, <1>11, <1>12, <1>13, <1>14,
     <1>15 DEF Next

(* The state is always well typed, whatever the sizes of the disk, of a block and *)
(* of the tables: every pointer that allocateBlocks, freeBlocks and the attaching *)
(* of new blocks store is the id of a block or 0, and every slot and descriptor   *)
(* index is within its table.                                                     *)
THEOREM TypeCorrect == Spec => []TypeOK
<1>1. IInv => TypeOK BY DEF IInv
<1> QED BY <1>1, InitKeeps, NextKeeps, PTL DEF Spec

(* The reference count of an open file is the number of its descriptors, for any *)
(* number of callers that share, close, unlink and rename over it; so no          *)
(* descriptor outlives its open file (sfs_close frees it at the right close).     *)
THEOREM RefCountsCorrect == Spec => []RefCounts
<1>1. IInv => RefCounts BY DEF IInv
<1> QED BY <1>1, InitKeeps, NextKeeps, PTL DEF Spec

(* An open file points to an entry in use that no other open file points to, or  *)
(* to its own copy when its name is gone: sfs_remove and sfs_rename never leave   *)
(* an open file on a cleared entry.                                               *)
THEOREM OpenFilesCorrect == Spec => []OpenFilesTrackEntries
<1>1. IInv => OpenFilesTrackEntries BY DEF IInv
<1> QED BY <1>1, InitKeeps, NextKeeps, PTL DEF Spec

-----------------------------------------------------------------------------
(* The two tables together *)

(* Counting: were every slot of the table of open files taken, each would have a *)
(* descriptor of its own, so an injection of the slots into the descriptors in    *)
(* use would exist, and those are fewer.                                          *)
LEMMA RoomForOpenFile ==
  ASSUME TypeOK, RefCounts, FirstNull(openFileDescTable) # {}
  PROVE  FirstNull(openFileTable) # {}
<1> SUFFICES ASSUME FirstNull(openFileTable) = {} PROVE FALSE OBVIOUS
<1>1. \A i \in FDs : openFileTable[i] # NULL BY NullSearch
<1>2. PICK free \in FDs : openFileDescTable[free] = NULL BY NullSearch
<1>3. ASSUME NEW i \in FDs PROVE Descriptors(i) # {}
  <2>1. Cardinality(Descriptors(i)) > 0 BY <1>1 DEF RefCounts
  <2> QED BY <2>1, FS_EmptySet
<1> DEFINE used == FDs \ {free}
           f == [i \in FDs |-> CHOOSE fd \in FDs : fd \in Descriptors(i)]
<1>4. \A i \in FDs : f[i] \in FDs /\ f[i] \in Descriptors(i)
  BY <1>3 DEF Descriptors
<1>5. f \in [FDs -> used]
  <2>1. \A i \in FDs : f[i] # free BY <1>2, <1>4 DEF Descriptors
  <2> HIDE DEF f
  <2>2. f = [i \in FDs |-> f[i]] BY DEF f
  <2> QED BY <2>1, <2>2, <1>4
<1>6. IsFiniteSet(FDs) /\ Cardinality(FDs) \in Nat
  <2>1. 0 \in Int /\ OPEN_FILE_LIMIT - 1 \in Int OBVIOUS
  <2>2. IsFiniteSet(FDs) BY <2>1, FS_Interval DEF FDs
  <2> QED BY <2>2, FS_CardinalityType
<1>7. IsFiniteSet(used) /\ Cardinality(used) = Cardinality(FDs) - 1
  BY <1>6, FS_RemoveElement
<1>8. \E i, j \in FDs : i # j /\ f[i] = f[j]
  <2> HIDE DEF f, used
  <2> QED BY <1>5, <1>6, <1>7, FS_PigeonHole
<1>9. PICK i \in FDs, j \in FDs : i # j /\ f[i] = f[j] BY <1>8
<1> HIDE DEF f
<1> QED BY <1>4, <1>9 DEF Descriptors

(* The assertion of addOpenFileEntry (a descriptor to spare means room in the    *)
(* table of open files) and the one of sfs_has_open_files (no descriptor means no *)
(* open file) hold for every OPEN_FILE_LIMIT.                                     *)
THEOREM TablesAgreeCorrect == Spec => []TablesAgree
<1>1. IInv => TablesAgree
  <2> SUFFICES ASSUME IInv PROVE TablesAgree OBVIOUS
  <2>1. FirstNull(openFileDescTable) # {} => FirstNull(openFileTable) # {}
    BY RoomForOpenFile DEF IInv
  <2>2. ASSUME \A fd \in FDs : openFileDescTable[fd] = NULL, NEW i \in FDs
        PROVE  openFileTable[i] = NULL
    <3>1. Descriptors(i) = {} BY <2>2 DEF Descriptors
    <3>2. Cardinality(Descriptors(i)) = 0 BY <3>1, FS_EmptySet
    <3> QED BY <3>2 DEF IInv, RefCounts
  <2> QED BY <2>1, <2>2 DEF TablesAgree
<1> QED BY <1>1, InitKeeps, NextKeeps, PTL DEF Spec
-----------------------------------------------------------------------------
(* The positions of the descriptors.  The calls that expand the directory are not here: *)
(* that the new slots are not in use follows from the block lists.                      *)

(* A descriptor and its file, one step later. *)
LEMMA DescriptorFileNext ==
  ASSUME IInv', NEW d \in FDs, openFileDescTable'[d] # NULL
  PROVE  /\ openFileDescTable'[d].fileEntry \in FDs
         /\ openFileTable'[openFileDescTable'[d].fileEntry] # NULL
<1> DEFINE desc == openFileDescTable'[d]
<1>1. desc \in Descriptor BY DEF IInv, TypeOK
<1>2. desc.fileEntry \in FDs BY <1>1 DEF Descriptor
<1>3. PICK i : i = desc.fileEntry OBVIOUS
<1>4. d \in Descriptors(i)' BY <1>3 DEF Descriptors
<1>5. RefCounts' BY DEF IInv
<1>6. openFileTable'[i] # NULL BY <1>2, <1>3, <1>4, <1>5 DEF RefCounts
<1> QED BY <1>2, <1>3, <1>6

LEMMA EntryNextType ==
  ASSUME IInv', NEW i \in FDs, openFileTable'[i] # NULL
  PROVE  DiskEntry(i)' \in Entry
<1>1. openFileTable'[i] \in OpenFile /\ files' \in [Slots -> Entry] BY DEF IInv, TypeOK
<1>2. openFileTable'[i].diskFile \in Slots \cup {UnlinkedFile}
      /\ openFileTable'[i].unlinkedFile \in Entry
  BY <1>1 DEF OpenFile
<1> QED BY <1>1, <1>2 DEF DiskEntry

(* A step that moves no descriptor but to the start of a file, and shrinks no open *)
(* file, keeps the positions right.                                                *)
LEMMA PositionsKept ==
  ASSUME IInv, IInv', PosWithinSize,
         \A d \in FDs : openFileDescTable'[d] # NULL =>
            openFileDescTable'[d].currPos = 0 \/ openFileDescTable'[d] = openFileDescTable[d],
         \A j \in FDs : openFileTable[j] # NULL /\ openFileTable'[j] # NULL =>
            DiskEntry(j).size <= DiskEntry(j)'.size
  PROVE  PosWithinSize'
<1> SUFFICES ASSUME NEW d \in FDs, openFileDescTable'[d] # NULL
             PROVE  openFileDescTable'[d].currPos
                        <= DiskEntry(openFileDescTable[d].fileEntry)'.size
  BY DEF PosWithinSize
<1>j. PICK j : j = openFileDescTable'[d].fileEntry OBVIOUS
<1>1. j \in FDs /\ openFileTable'[j] # NULL BY <1>j, DescriptorFileNext
<1>2. DiskEntry(j)'.size \in Nat
  <2>1. DiskEntry(j)' \in Entry BY <1>1, EntryNextType
  <2> QED BY <2>1 DEF Entry
<1>3. DiskEntry(openFileDescTable[d].fileEntry)' = DiskEntry(j)' BY <1>j DEF DiskEntry
<1>4. openFileDescTable'[d].currPos <= DiskEntry(j)'.size
  <2>1. CASE openFileDescTable'[d].currPos = 0 BY <1>2, <2>1
  <2>2. CASE openFileDescTable'[d] = openFileDescTable[d]
    <3>1. openFileDescTable[d] # NULL /\ j = openFileDescTable[d].fileEntry BY <1>j, <2>2
    <3>2. /\ openFileDescTable[d].currPos \in Nat /\ openFileTable[j] # NULL
          /\ DiskEntry(j) \in Entry
      BY <3>1, DescriptorFile DEF IInv
    <3>3. openFileDescTable[d].currPos <= DiskEntry(j).size BY <3>1 DEF PosWithinSize
    <3>4. DiskEntry(j).size <= DiskEntry(j)'.size BY <1>1, <3>2
    <3>5. DiskEntry(j).size \in Nat BY <3>2 DEF Entry
    <3> QED BY ONLY <1>2, <2>2, <3>2, <3>3, <3>4, <3>5
  <2> QED BY <2>1, <2>2
<1> QED BY <1>3, <1>4

(* The assignment to *file->diskFile is seen through no other open file. *)
LEMMA EntryAssigned ==
  ASSUME IInv, NEW i \in FDs, openFileTable[i] # NULL, NEW e \in Entry, SetDiskEntry(i, e)
  PROVE  /\ DiskEntry(i)' = e
         /\ \A j \in FDs \ {i} : openFileTable[j] # NULL => DiskEntry(j)' = DiskEntry(j)
<1>1. openFileTable \in [FDs -> OpenFile \cup {NULL}] /\ files \in [Slots -> Entry]
  BY DEF IInv, TypeOK
<1>2. openFileTable[i] \in OpenFile BY <1>1
<1>3. openFileTable[i].diskFile \in Slots \cup {UnlinkedFile} BY <1>2 DEF OpenFile
<1>4. CASE openFileTable[i].diskFile = UnlinkedFile
  <2> DEFINE new == [openFileTable[i] EXCEPT !.unlinkedFile = e]
  <2>1. openFileTable' = [openFileTable EXCEPT ![i] = new] /\ files' = files
    BY <1>4 DEF SetDiskEntry
  <2>2. new.diskFile = openFileTable[i].diskFile /\ new.unlinkedFile = e BY <1>2 DEF OpenFile
  <2> HIDE DEF new
  <2>3. openFileTable'[i] = new /\ \A j \in FDs \ {i} : openFileTable'[j] = openFileTable[j]
    BY <1>1, <2>1
  <2> QED BY <1>4, <2>1, <2>2, <2>3 DEF DiskEntry
<1>5. CASE openFileTable[i].diskFile # UnlinkedFile
  <2>1. PICK s \in Slots : s = openFileTable[i].diskFile BY <1>3, <1>5
  <2>2. files' = [files EXCEPT ![s] = e] /\ openFileTable' = openFileTable
    BY <1>5, <2>1 DEF SetDiskEntry
  <2>3. DiskEntry(i)' = e BY <1>1, <1>5, <2>1, <2>2 DEF DiskEntry
  <2>4. ASSUME NEW j \in FDs \ {i}, openFileTable[j] # NULL
        PROVE  DiskEntry(j)' = DiskEntry(j)
    <3>1. openFileTable[j].diskFile # s BY <1>5, <2>1, <2>4 DEF IInv, OpenFilesTrackEntries
    <3>2. openFileTable[j] \in OpenFile BY <1>1, <2>4
    <3>3. openFileTable[j].diskFile \in Slots \cup {UnlinkedFile} BY <3>2 DEF OpenFile
    <3> QED BY <1>1, <2>2, <3>1, <3>3 DEF DiskEntry
  <2> QED BY <2>3, <2>4
<1> QED BY <1>4, <1>5

\* Descriptor d is left within a size if it refers to open file i, and not moved otherwise.
StaysWithin(d, i, size) ==
    /\ openFileDescTable[d] # NULL
    /\ openFileDescTable'[d].fileEntry = openFileDescTable[d].fileEntry
    /\ IF openFileDescTable[d].fileEntry = i
       THEN openFileDescTable'[d].currPos <= size
       ELSE openFileDescTable'[d].currPos = openFileDescTable[d].currPos

(* A call on a descriptor that assigns the entry of its file e keeps the positions *)
(* right if it leaves those of the file within the new size, and moves no other.   *)
LEMMA PositionsAssigned ==
  ASSUME IInv, IInv', PosWithinSize,
         NEW i \in FDs, openFileTable[i] # NULL, NEW e \in Entry, SetDiskEntry(i, e),
         \A d \in FDs : openFileDescTable'[d] # NULL => StaysWithin(d, i, e.size)
  PROVE  PosWithinSize'
<1> SUFFICES ASSUME NEW d \in FDs, openFileDescTable'[d] # NULL
             PROVE  openFileDescTable'[d].currPos
                        <= DiskEntry(openFileDescTable[d].fileEntry)'.size
  BY DEF PosWithinSize
<1>j. PICK j : j = openFileDescTable'[d].fileEntry OBVIOUS
<1>1. j = openFileDescTable[d].fileEntry /\ openFileDescTable[d] # NULL BY <1>j DEF StaysWithin
<1>2. j \in FDs /\ openFileTable[j] # NULL BY <1>1, DescriptorFile DEF IInv
<1>3. DiskEntry(openFileDescTable[d].fileEntry)' = DiskEntry(j)' BY <1>j DEF DiskEntry
<1>4. CASE j = i
  <2>1. DiskEntry(j)' = e BY <1>4, EntryAssigned
  <2> QED BY <1>1, <1>3, <1>4, <2>1 DEF StaysWithin
<1>5. CASE j # i
  <2>1. DiskEntry(j)' = DiskEntry(j) BY <1>2, <1>5, EntryAssigned
  <2>2. openFileDescTable'[d].currPos = openFileDescTable[d].currPos
    BY <1>1, <1>5 DEF StaysWithin
  <2>3. openFileDescTable[d].currPos <= DiskEntry(j).size BY <1>1 DEF PosWithinSize
  <2> QED BY <1>3, <2>1, <2>2, <2>3
<1> QED BY <1>4, <1>5

(* The position of one descriptor changes. *)
LEMMA PositionMoved ==
  ASSUME IInv, NEW fd \in FDs, openFileDescTable[fd] # NULL, NEW pos \in Nat,
         openFileDescTable' = [openFileDescTable EXCEPT ![fd].currPos = pos]
  PROVE  /\ openFileDescTable'[fd] # NULL /\ openFileDescTable'[fd].currPos = pos
         /\ openFileDescTable'[fd].fileEntry = openFileDescTable[fd].fileEntry
         /\ \A d \in FDs \ {fd} : openFileDescTable'[d] = openFileDescTable[d]
<1> DEFINE new == [openFileDescTable[fd] EXCEPT !.currPos = pos]
<1>1. openFileDescTable \in [FDs -> Descriptor \cup {NULL}] BY DEF IInv, TypeOK
<1>2. openFileDescTable[fd] \in Descriptor BY <1>1
<1>3. new \in Descriptor /\ new.fileEntry = openFileDescTable[fd].fileEntry /\ new.currPos = pos
  BY <1>2 DEF Descriptor
<1>4. new # NULL BY <1>3, NullAssumption DEF Descriptor
<1>5. openFileDescTable' = [openFileDescTable EXCEPT ![fd] = new] BY <1>1
<1> HIDE DEF new
<1> QED BY <1>1, <1>3, <1>4, <1>5

(* sfs_read and sfs_seek stop at the end of the file. *)
LEMMA MovedPositions ==
  ASSUME IInv, PosWithinSize, NEW fd \in FDs, openFileDescTable[fd] # NULL, NEW pos \in Nat,
         openFileDescTable' = [openFileDescTable EXCEPT ![fd].currPos = pos],
         pos <= DiskEntry(openFileDescTable[fd].fileEntry).size,
         UNCHANGED <<files, openFileTable>>
  PROVE  PosWithinSize'
<1>1. /\ openFileDescTable'[fd].currPos = pos
      /\ openFileDescTable'[fd].fileEntry = openFileDescTable[fd].fileEntry
      /\ \A d \in FDs \ {fd} : openFileDescTable'[d] = openFileDescTable[d]
  BY PositionMoved
<1>2. ASSUME NEW d \in FDs, openFileDescTable'[d] # NULL
      PROVE  openFileDescTable'[d].currPos
                <= DiskEntry(openFileDescTable[d].fileEntry)'.size
  <2>1. DiskEntry(openFileDescTable[d].fileEntry)' = DiskEntry(openFileDescTable'[d].fileEntry)
    BY DEF DiskEntry
  <2>2. CASE d = fd BY <1>1, <2>1, <2>2
  <2>3. CASE d # fd
    <3>1. openFileDescTable'[d] = openFileDescTable[d] /\ openFileDescTable[d] # NULL
      BY <1>1, <1>2, <2>3
    <3> QED BY <2>1, <3>1 DEF PosWithinSize
  <2> QED BY <2>2, <2>3
<1> QED BY <1>2 DEF PosWithinSize

LEMMA ReadPositions ==
  ASSUME IInv, PosWithinSize, NEW fd \in FDs, NEW len \in Lengths, Read(fd, len)
  PROVE  PosWithinSize'
<1>p. PICK p : p = openFileDescTable[fd].currPos OBVIOUS
<1>s. PICK size : size = DiskEntry(openFileDescTable[fd].fileEntry).size OBVIOUS
<1>n. PICK pos : pos = p + sizeMin(size - p, len) OBVIOUS
<1>1. /\ openFileDescTable[fd] # NULL
      /\ openFileDescTable' = [openFileDescTable EXCEPT ![fd].currPos = pos]
      /\ UNCHANGED <<files, openFileTable>>
  BY <1>p, <1>s, <1>n DEF Read
<1>2. p \in Nat /\ size \in Nat /\ p <= size /\ len \in Nat
  <2>1. DiskEntry(openFileDescTable[fd].fileEntry) \in Entry
        /\ openFileDescTable[fd].currPos \in Nat
    BY <1>1, DescriptorFile DEF IInv
  <2>2. size \in Nat BY <1>s, <2>1 DEF Entry
  <2>3. p <= size BY <1>p, <1>s, <1>1 DEF PosWithinSize
  <2>4. len \in Nat BY SfsAssumption
  <2> QED BY <1>p, <2>1, <2>2, <2>3, <2>4
<1>3. pos \in Nat /\ pos <= size BY ONLY <1>2, <1>n DEF sizeMin
<1> QED BY <1>1, <1>3, <1>s, MovedPositions

LEMMA SeekPositions ==
  ASSUME IInv, PosWithinSize, NEW fd \in FDs, NEW delta \in Deltas, Seek(fd, delta)
  PROVE  PosWithinSize'
<1>p. PICK p : p = openFileDescTable[fd].currPos OBVIOUS
<1>s. PICK size : size = DiskEntry(openFileDescTable[fd].fileEntry).size OBVIOUS
<1>n. PICK pos : pos = IF delta < 0 THEN IF -delta > p THEN 0 ELSE p + delta
                       ELSE IF delta > size - p THEN size ELSE p + delta
  OBVIOUS
<1>1. /\ openFileDescTable[fd] # NULL
      /\ openFileDescTable' = [openFileDescTable EXCEPT ![fd].currPos = pos]
      /\ UNCHANGED <<files, openFileTable>>
  BY <1>p, <1>s, <1>n DEF Seek
<1>2. p \in Nat /\ size \in Nat /\ p <= size /\ delta \in Int
  <2>1. DiskEntry(openFileDescTable[fd].fileEntry) \in Entry
        /\ openFileDescTable[fd].currPos \in Nat
    BY <1>1, DescriptorFile DEF IInv
  <2>2. size \in Nat BY <1>s, <2>1 DEF Entry
  <2>3. p <= size BY <1>p, <1>s, <1>1 DEF PosWithinSize
  <2>4. delta \in Int BY SfsAssumption
  <2> QED BY <1>p, <2>1, <2>2, <2>3, <2>4
<1>3. pos \in Nat /\ pos <= size BY ONLY <1>2, <1>n
<1> QED BY <1>1, <1>3, <1>s, MovedPositions

(* sfs_write leaves the position at the end of what it wrote, which is in the file. *)
LEMMA WriteOutPositions ==
  ASSUME IInv, IInv', PosWithinSize, NEW fd \in FDs, NEW buf \in Buffers, CanWrite(fd, buf),
         NEW blk, NEW first \in BlockId \cup {SFS_EMPTY_FILE_BLOCK},
         WriteOut(fd, buf, blk, first)
  PROVE  PosWithinSize'
<1>i. PICK i : i = openFileDescTable[fd].fileEntry OBVIOUS
<1>o. PICK old : old = DiskEntry(i) OBVIOUS
<1>p. PICK end : end = openFileDescTable[fd].currPos + Len(buf) OBVIOUS
<1>e. PICK e : e = [old EXCEPT !.first_block = first,
                               !.size = IF end > old.size THEN end ELSE @]
  OBVIOUS
<1>1. /\ openFileDescTable' = [openFileDescTable EXCEPT ![fd].currPos = end]
      /\ SetDiskEntry(i, e)
  BY <1>i, <1>o, <1>p, <1>e DEF WriteOut
<1>2. openFileDescTable[fd] # NULL BY DEF CanWrite
<1>3. /\ i \in FDs /\ openFileTable[i] # NULL /\ old \in Entry
      /\ openFileDescTable[fd].currPos \in Nat
  BY <1>2, <1>i, <1>o, DescriptorFile DEF IInv
<1>4. end \in Nat
  <2>1. Len(buf) \in Nat BY SfsAssumption
  <2> QED BY <1>3, <1>p, <2>1
<1>5. e \in Entry /\ e.size = IF end > old.size THEN end ELSE old.size
  BY <1>3, <1>4, <1>e DEF Entry
<1>6. old.size \in Nat BY <1>3 DEF Entry
<1>7. end <= e.size /\ old.size <= e.size BY ONLY <1>4, <1>5, <1>6
<1>8. /\ openFileDescTable'[fd].currPos = end
      /\ openFileDescTable'[fd].fileEntry = openFileDescTable[fd].fileEntry
      /\ \A d \in FDs \ {fd} : openFileDescTable'[d] = openFileDescTable[d]
  BY <1>1, <1>2, <1>4, PositionMoved
<1>9. ASSUME NEW d \in FDs, openFileDescTable'[d] # NULL
      PROVE  StaysWithin(d, i, e.size)
  <2>1. CASE d = fd BY <1>2, <1>7, <1>8, <1>i, <2>1 DEF StaysWithin
  <2>2. CASE d # fd
    <3>1. openFileDescTable'[d] = openFileDescTable[d] /\ openFileDescTable[d] # NULL
      BY <1>8, <1>9, <2>2
    <3>2. ASSUME openFileDescTable[d].fileEntry = i
          PROVE  openFileDescTable'[d].currPos <= e.size
      <4>1. openFileDescTable[d].currPos <= old.size BY <1>o, <3>1, <3>2 DEF PosWithinSize
      <4>2. openFileDescTable[d].currPos \in Nat BY <3>1, DescriptorFile DEF IInv
      <4>3. e.size \in Nat BY <1>5 DEF Entry
      <4> QED BY ONLY <1>6, <1>7, <3>1, <4>1, <4>2, <4>3
    <3> QED BY <3>1, <3>2 DEF StaysWithin
  <2> QED BY <2>1, <2>2
<1> QED BY <1>1, <1>3, <1>5, <1>9, PositionsAssigned

LEMMA WriteInPlacePositions ==
  ASSUME IInv, IInv', PosWithinSize, NEW fd \in FDs, NEW buf \in Buffers, WriteInPlace(fd, buf)
  PROVE  PosWithinSize'
<1>o. PICK old : old = DiskEntry(openFileDescTable[fd].fileEntry) OBVIOUS
<1>1. CanWrite(fd, buf) /\ WriteOut(fd, buf, disk.blk, old.first_block)
  BY <1>o DEF WriteInPlace
<1>2. old \in Entry BY <1>1, <1>o, DescriptorFile DEF IInv, CanWrite
<1>3. old.first_block \in BlockId \cup {SFS_EMPTY_FILE_BLOCK} BY <1>2 DEF Entry
<1> QED BY <1>1, <1>3, WriteOutPositions

LEMMA WriteGrowPositions ==
  ASSUME IInv, IInv', PosWithinSize, NEW fd \in FDs, NEW buf \in Buffers, WriteGrow(fd, buf)
  PROVE  PosWithinSize'
<1>o. PICK old : old = DiskEntry(openFileDescTable[fd].fileEntry) OBVIOUS
<1>1. CanWrite(fd, buf) /\ WriteOut(fd, buf, disk'.blk, GrownFirst(old))
  BY <1>o DEF WriteGrow
<1>2. old \in Entry BY <1>1, <1>o, DescriptorFile DEF IInv, CanWrite
<1>3. disk.freelist \in BlockId BY DEF IInv, TypeOK, Disk
<1>4. GrownFirst(old) \in BlockId \cup {SFS_EMPTY_FILE_BLOCK}
  BY <1>2, <1>3 DEF Entry, GrownFirst
<1> QED BY <1>1, <1>4, WriteOutPositions

LEMMA TruncateGrowPositions ==
  ASSUME IInv, IInv', PosWithinSize, NEW fd \in FDs, NEW length \in Lengths,
         TruncateGrow(fd, length)
  PROVE  PosWithinSize'
<1>i. PICK i : i = openFileDescTable[fd].fileEntry OBVIOUS
<1>o. PICK old : old = DiskEntry(i) OBVIOUS
<1>1. /\ openFileDescTable[fd] # NULL /\ openFileDescTable' = openFileDescTable
      /\ length > old.size
      /\ \/ SetDiskEntry(i, [old EXCEPT !.first_block = GrownFirst(old), !.size = length])
         \/ SetDiskEntry(i, [old EXCEPT !.first_block = old.first_block, !.size = length])
  BY <1>i, <1>o DEF TruncateGrow
<1>2. i \in FDs /\ openFileTable[i] # NULL /\ old \in Entry
  BY <1>1, <1>i, <1>o, DescriptorFile DEF IInv
<1>3. disk.freelist \in BlockId BY DEF IInv, TypeOK, Disk
<1>4. PICK first \in BlockId \cup {SFS_EMPTY_FILE_BLOCK} :
        SetDiskEntry(i, [old EXCEPT !.first_block = first, !.size = length])
  <2>1. old.first_block \in BlockId \cup {SFS_EMPTY_FILE_BLOCK} BY <1>2 DEF Entry
  <2>2. GrownFirst(old) \in BlockId \cup {SFS_EMPTY_FILE_BLOCK}
    BY <1>3, <2>1 DEF GrownFirst
  <2> QED BY <1>1, <2>1, <2>2
<1>e. PICK e : e = [old EXCEPT !.first_block = first, !.size = length] OBVIOUS
<1>5. length \in Nat BY SfsAssumption
<1>6. e \in Entry /\ e.size = length /\ old.size \in Nat BY <1>2, <1>4, <1>5, <1>e DEF Entry
<1>7. ASSUME NEW d \in FDs, openFileDescTable'[d] # NULL
      PROVE  StaysWithin(d, i, e.size)
  <2>1. openFileDescTable'[d] = openFileDescTable[d] /\ openFileDescTable[d] # NULL
    BY <1>1, <1>7
  <2>2. ASSUME openFileDescTable[d].fileEntry = i
        PROVE  openFileDescTable'[d].currPos <= e.size
    <3>1. openFileDescTable[d].currPos <= old.size BY <1>o, <2>1, <2>2 DEF PosWithinSize
    <3>2. openFileDescTable[d].currPos \in Nat BY <2>1, DescriptorFile DEF IInv
    <3> QED BY ONLY <1>1, <1>5, <1>6, <2>1, <3>1, <3>2
  <2> QED BY <2>1, <2>2 DEF StaysWithin
<1> QED BY <1>2, <1>4, <1>6, <1>7, <1>e, PositionsAssigned

(* sfs_ftruncate pulls back every descriptor of the file that is past its end. *)
LEMMA TruncateShrinkPositions ==
  ASSUME IInv, IInv', PosWithinSize, NEW fd \in FDs, NEW length \in Lengths,
         TruncateShrink(fd, length)
  PROVE  PosWithinSize'
<1>i. PICK i : i = openFileDescTable[fd].fileEntry OBVIOUS
<1>o. PICK old : old = DiskEntry(i) OBVIOUS
<1>f. PICK first : first = IF blocksForFileSize(length) = 0 THEN SFS_EMPTY_FILE_BLOCK
                           ELSE old.first_block
  OBVIOUS
<1>e. PICK e : e = [old EXCEPT !.first_block = first, !.size = length] OBVIOUS
<1>1. /\ openFileDescTable[fd] # NULL
      /\ openFileDescTable' = [d \in FDs |->
                IF /\ openFileDescTable[d] # NULL
                   /\ openFileDescTable[d].fileEntry = i
                   /\ openFileDescTable[d].currPos > length
                THEN [openFileDescTable[d] EXCEPT !.currPos = length]
                ELSE openFileDescTable[d]]
      /\ SetDiskEntry(i, e)
  BY <1>i, <1>o, <1>f, <1>e DEF TruncateShrink
<1>2. i \in FDs /\ openFileTable[i] # NULL /\ old \in Entry
  BY <1>1, <1>i, <1>o, DescriptorFile DEF IInv
<1>3. length \in Nat BY SfsAssumption
<1>4. e \in Entry /\ e.size = length
  <2>1. first \in BlockId \cup {SFS_EMPTY_FILE_BLOCK} BY <1>2, <1>f DEF Entry
  <2> QED BY <1>2, <1>3, <1>e, <2>1 DEF Entry
<1>5. ASSUME NEW d \in FDs, openFileDescTable'[d] # NULL
      PROVE  StaysWithin(d, i, e.size)
  <2>1. CASE /\ openFileDescTable[d] # NULL
             /\ openFileDescTable[d].fileEntry = i
             /\ openFileDescTable[d].currPos > length
    <3>1. openFileDescTable'[d] = [openFileDescTable[d] EXCEPT !.currPos = length]
      BY <1>1, <2>1
    <3>2. openFileDescTable[d] \in Descriptor BY <2>1, DescriptorFile DEF IInv
    <3>3. openFileDescTable'[d].fileEntry = openFileDescTable[d].fileEntry
          /\ openFileDescTable'[d].currPos = length
      BY <3>1, <3>2 DEF Descriptor
    <3> QED BY <1>3, <1>4, <2>1, <3>3 DEF StaysWithin
  <2>2. CASE ~ (/\ openFileDescTable[d] # NULL
                /\ openFileDescTable[d].fileEntry = i
                /\ openFileDescTable[d].currPos > length)
    <3>1. openFileDescTable'[d] = openFileDescTable[d] BY <1>1, <2>2
    <3>2. openFileDescTable[d] # NULL BY <1>5, <3>1
    <3>3. openFileDescTable[d].currPos \in Nat BY <3>2, DescriptorFile DEF IInv
    <3>4. openFileDescTable[d].fileEntry = i => openFileDescTable[d].currPos <= length
      BY <1>3, <2>2, <3>2, <3>3
    <3> QED BY <1>4, <3>1, <3>2, <3>4 DEF StaysWithin
  <2> QED BY <2>1, <2>2
<1> QED BY <1>1, <1>2, <1>4, <1>5, PositionsAssigned

(* An open file keeps its entry, up to its name, when its slot or its copy does. *)
LEMMA EntryStays ==
  ASSUME IInv, NEW j \in FDs, openFileTable[j] # NULL,
         openFileTable'[j].diskFile = openFileTable[j].diskFile,
         openFileTable'[j].unlinkedFile = openFileTable[j].unlinkedFile,
         NEW slot, \A s \in Slots \ {slot} : files'[s].size = files[s].size,
         openFileTable[j].diskFile = slot => files'[slot].size = files[slot].size
  PROVE  DiskEntry(j).size <= DiskEntry(j)'.size
<1>1. openFileTable[j] \in OpenFile BY DEF IInv, TypeOK
<1>2. openFileTable[j].diskFile \in Slots \cup {UnlinkedFile} BY <1>1 DEF OpenFile
<1>3. DiskEntry(j) \in Entry BY DiskEntryType DEF IInv
<1>4. DiskEntry(j).size \in Nat BY <1>3 DEF Entry
<1>5. DiskEntry(j)'.size = DiskEntry(j).size BY <1>2 DEF DiskEntry
<1> QED BY <1>4, <1>5

(* sfs_open adds a descriptor at the start of the file. *)
LEMMA OpenedPositions ==
  ASSUME IInv, IInv', PosWithinSize, NEW slot \in Slots, addOpenFileEntry(slot),
         \A s \in Slots \ {slot} : files'[s].size = files[s].size,
         Occupied(files[slot]) => files'[slot].size = files[slot].size
  PROVE  PosWithinSize'
<1>1. PICK fd \in FDs, i \in FDs :
            /\ openFileDescTable[fd] = NULL
            /\ openFileDescTable' =
                [openFileDescTable EXCEPT ![fd] = [fileEntry |-> i, currPos |-> 0]]
            /\ openFileTable' = [openFileTable EXCEPT ![i] =
                   IF openFileTable[i] # NULL
                   THEN [openFileTable[i] EXCEPT !.refCount = @ + 1]
                   ELSE [refCount |-> 1, unlinked |-> FALSE, diskFile |-> slot,
                         unlinkedFile |-> UnusedEntry]]
  BY addOpenFileEntryCase DEF IInv
<1>2. openFileDescTable \in [FDs -> Descriptor \cup {NULL}]
      /\ openFileTable \in [FDs -> OpenFile \cup {NULL}]
  BY DEF IInv, TypeOK
<1>3. ASSUME NEW d \in FDs, openFileDescTable'[d] # NULL
      PROVE  openFileDescTable'[d].currPos = 0 \/ openFileDescTable'[d] = openFileDescTable[d]
  BY <1>1, <1>2
<1>4. ASSUME NEW j \in FDs, openFileTable[j] # NULL
      PROVE  DiskEntry(j).size <= DiskEntry(j)'.size
  <2>1. openFileTable'[j].diskFile = openFileTable[j].diskFile
        /\ openFileTable'[j].unlinkedFile = openFileTable[j].unlinkedFile
    <3>1. CASE j # i BY <1>1, <1>2, <3>1
    <3>2. CASE j = i
      <4>1. openFileTable[i] \in OpenFile BY <1>2, <1>4, <3>2
      <4>2. openFileTable'[i] = [openFileTable[i] EXCEPT !.refCount = @ + 1]
        BY <1>1, <1>2, <1>4, <3>2
      <4> QED BY <3>2, <4>1, <4>2 DEF OpenFile
    <3> QED BY <3>1, <3>2
  <2>2. openFileTable[j].diskFile = slot => Occupied(files[slot])
    BY <1>4, BlockIds DEF IInv, OpenFilesTrackEntries, DiskEntry
  <2> QED BY <1>4, <2>1, <2>2, EntryStays
<1> QED BY <1>3, <1>4, PositionsKept

LEMMA CreatedPositions ==
  ASSUME IInv, IInv', PosWithinSize, NEW name, NEW slot \in Slots, ~ Occupied(files[slot]),
         createFile(name, slot)
  PROVE  PosWithinSize'
<1>1. files \in [Slots -> Entry] BY DEF IInv, TypeOK
<1>2. \A s \in Slots \ {slot} : files'[s].size = files[s].size BY <1>1 DEF createFile
<1>3. addOpenFileEntry(slot) BY DEF createFile
<1> QED BY <1>2, <1>3, OpenedPositions

LEMMA OpenPositions ==
  ASSUME IInv, IInv', PosWithinSize, NEW name \in Names,
         OpenExisting(name) \/ OpenCreate(name)
  PROVE  PosWithinSize'
<1>1. CASE OpenExisting(name)
  <2>1. PICK slot \in findDirectoryEntry(name) : addOpenFileEntry(slot)
    BY <1>1 DEF OpenExisting
  <2>2. slot \in Slots /\ files' = files BY <1>1, EntryFound DEF OpenExisting
  <2> QED BY <2>1, <2>2, OpenedPositions
<1>2. CASE OpenCreate(name)
  <2>1. PICK slot \in EmptySlot : createFile(name, slot) BY <1>2 DEF OpenCreate
  <2> QED BY <2>1, SlotFound, CreatedPositions
<1> QED BY <1>1, <1>2

(* The descriptors of an unlinked file see the copy of its entry. *)
LEMMA UnlinkedPositions ==
  ASSUME IInv, IInv', PosWithinSize, NEW slot \in Slots, Occupied(files[slot]),
         unlinkDirectoryEntry(slot), openFileDescTable' = openFileDescTable,
         \A s \in Slots \ {slot} : files'[s].size = files[s].size
  PROVE  PosWithinSize'
<1>1. openFileTable \in [FDs -> OpenFile \cup {NULL}] /\ files \in [Slots -> Entry]
  BY DEF IInv, TypeOK
<1>2. ASSUME NEW j \in FDs, openFileTable[j] # NULL
      PROVE  DiskEntry(j).size <= DiskEntry(j)'.size
  <2>1. CASE findOpenFile(slot) # {}
    <3>1. PICK i \in findOpenFile(slot) :
              openFileTable' = [openFileTable EXCEPT
                  ![i].unlinkedFile = files[slot],
                  ![i].diskFile = UnlinkedFile,
                  ![i].unlinked = TRUE]
      BY <2>1 DEF unlinkDirectoryEntry
    <3>2. i \in FDs /\ openFileTable[i] # NULL /\ openFileTable[i].diskFile = slot
      BY OpenFileSearch
    <3>3. CASE j = i
      <4>1. openFileTable[i] \in OpenFile BY <1>1, <3>2
      <4>2. openFileTable'[i].diskFile = UnlinkedFile
            /\ openFileTable'[i].unlinkedFile = files[slot]
        BY <1>1, <3>1, <3>2, <4>1 DEF OpenFile
      <4>3. DiskEntry(j)' = files[slot] BY <3>3, <4>2 DEF DiskEntry
      <4>4. DiskEntry(j) = files[slot] BY <3>2, <3>3, BlockIds DEF DiskEntry
      <4>5. files[slot].size \in Nat BY <1>1 DEF Entry
      <4> QED BY <4>3, <4>4, <4>5
    <3>4. CASE j # i
      <4>1. openFileTable'[j] = openFileTable[j] BY <1>1, <3>1, <3>4
      <4>2. ~ openFileTable[i].unlinked
        BY <3>2, BlockIds DEF IInv, OpenFilesTrackEntries
      <4>3. openFileTable[j].diskFile # slot
        BY <1>2, <3>2, <3>4, <4>2 DEF IInv, OpenFilesTrackEntries
      <4> QED BY <1>2, <4>1, <4>3, EntryStays
    <3> QED BY <3>3, <3>4
  <2>2. CASE findOpenFile(slot) = {}
    <3>1. openFileTable' = openFileTable BY <2>2 DEF unlinkDirectoryEntry
    <3>2. openFileTable[j].diskFile # slot BY <1>2, <2>2, OpenFileSearch
    <3> QED BY <1>2, <3>1, <3>2, EntryStays
  <2> QED BY <2>1, <2>2
<1> QED BY <1>2, PositionsKept

LEMMA RemovePositions ==
  ASSUME IInv, IInv', PosWithinSize, NEW name \in Names, Remove(name)
  PROVE  PosWithinSize'
<1>1. PICK slot \in findDirectoryEntry(name) :
        unlinkDirectoryEntry(slot) /\ files' = [files EXCEPT ![slot] = UnusedEntry]
  BY DEF Remove
<1>2. slot \in Slots /\ Occupied(files[slot]) BY EntryFound
<1>3. openFileDescTable' = openFileDescTable BY DEF Remove
<1>4. \A s \in Slots \ {slot} : files'[s].size = files[s].size BY <1>1 DEF IInv, TypeOK
<1> QED BY <1>1, <1>2, <1>3, <1>4, UnlinkedPositions

LEMMA RenamePositions ==
  ASSUME IInv, IInv', PosWithinSize, NEW old_name \in Names, NEW new_name \in Names,
         RenameFresh(old_name, new_name) \/ RenameOver(old_name, new_name)
  PROVE  PosWithinSize'
<1>1. files \in [Slots -> Entry] BY DEF IInv, TypeOK
<1>2. CASE RenameFresh(old_name, new_name)
  <2>1. PICK slot \in findDirectoryEntry(old_name) :
            files' = [files EXCEPT ![slot].name = new_name]
    BY <1>2 DEF RenameFresh
  <2>2. slot \in Slots BY EntryFound
  <2>3. \A s \in Slots : files'[s].size = files[s].size
    <3>1. files'[slot] = [files[slot] EXCEPT !.name = new_name] BY <1>1, <2>1, <2>2
    <3>2. files'[slot].size = files[slot].size BY <1>1, <2>2, <3>1 DEF Entry
    <3> QED BY <1>1, <2>1, <3>2
  <2>4. openFileTable' = openFileTable /\ openFileDescTable' = openFileDescTable
    BY <1>2 DEF RenameFresh
  <2>5. ASSUME NEW j \in FDs, openFileTable[j] # NULL
        PROVE  DiskEntry(j).size <= DiskEntry(j)'.size
    BY <2>2, <2>3, <2>4, <2>5, EntryStays
  <2> QED BY <2>4, <2>5, PositionsKept
<1>3. CASE RenameOver(old_name, new_name)
  <2>1. PICK slot \in findDirectoryEntry(old_name), victim \in findDirectoryEntry(new_name) :
            /\ unlinkDirectoryEntry(victim)
            /\ files' = [files EXCEPT ![victim] = UnusedEntry, ![slot].name = new_name]
    BY <1>3 DEF RenameOver
  <2>2. /\ slot \in Slots /\ victim \in Slots /\ Occupied(files[victim])
        /\ files[slot].name = old_name /\ files[victim].name = new_name
    BY EntryFound
  <2>3. slot # victim BY <1>3, <2>2 DEF RenameOver
  <2>4. \A s \in Slots \ {victim} : files'[s].size = files[s].size
    <3>1. files'[slot] = [files[slot] EXCEPT !.name = new_name] BY <1>1, <2>1, <2>2, <2>3
    <3>2. files'[slot].size = files[slot].size BY <1>1, <2>2, <3>1 DEF Entry
    <3>3. \A s \in Slots \ {victim, slot} : files'[s] = files[s] BY <1>1, <2>1
    <3> QED BY <3>2, <3>3
  <2>5. openFileDescTable' = openFileDescTable BY <1>3 DEF RenameOver
  <2> QED BY <2>1, <2>2, <2>4, <2>5, UnlinkedPositions
<1> QED BY <1>2, <1>3

LEMMA ClosePositions ==
  ASSUME IInv, IInv', PosWithinSize, NEW fd \in FDs, Close(fd)
  PROVE  PosWithinSize'
<1>i. PICK i : i = openFileDescTable[fd].fileEntry OBVIOUS
<1>1. /\ openFileDescTable[fd] # NULL /\ files' = files
      /\ openFileDescTable' = [openFileDescTable EXCEPT ![fd] = NULL]
      /\ \/ openFileTable' = [openFileTable EXCEPT ![i].refCount = @ - 1]
         \/ openFileTable' = [openFileTable EXCEPT ![i] = NULL]
  BY <1>i DEF Close
<1>2. /\ openFileDescTable \in [FDs -> Descriptor \cup {NULL}]
      /\ openFileTable \in [FDs -> OpenFile \cup {NULL}]
  BY DEF IInv, TypeOK
<1>3. i \in FDs /\ openFileTable[i] \in OpenFile BY <1>1, <1>i, DescriptorFile DEF IInv
<1>4. ASSUME NEW d \in FDs, openFileDescTable'[d] # NULL
      PROVE  openFileDescTable'[d] = openFileDescTable[d]
  BY <1>1, <1>2, <1>4
<1>5. ASSUME NEW j \in FDs, openFileTable[j] # NULL, openFileTable'[j] # NULL
      PROVE  DiskEntry(j).size <= DiskEntry(j)'.size
  <2>1. openFileTable'[j].diskFile = openFileTable[j].diskFile
        /\ openFileTable'[j].unlinkedFile = openFileTable[j].unlinkedFile
    <3>1. CASE j # i BY <1>1, <1>2, <3>1
    <3>2. CASE j = i
      <4>1. openFileTable'[i] = [openFileTable[i] EXCEPT !.refCount = @ - 1]
        BY <1>1, <1>2, <1>3, <1>5, <3>2
      <4> QED BY <1>3, <3>2, <4>1 DEF OpenFile
    <3> QED BY <3>1, <3>2
  <2> QED BY <1>1, <1>5, <2>1, EntryStays
<1> QED BY <1>4, <1>5, PositionsKept

-----------------------------------------------------------------------------
(* Owners and paths *)

\* The owners are those of Lists: the free list, the directory, a slot of the directory,
\* and the own copy of an open file.
FreeList == <<NBlocks, 1>>
Root     == <<NBlocks, 2>>
Own(i)   == <<NBlocks + 1, i>>

FileOwners == Slots \cup {Own(i) : i \in FDs}
Owners     == FileOwners \cup {FreeList, Root}

TypeOf(o) == IF o = FreeList THEN "FREE" ELSE IF o = Root THEN "DIR" ELSE "FILE"

\* The paths P, of lengths L, are the lists of the headers blk that start at the heads H:
\* block b is on the path of own[b] alone, at place at[b], and its header says so.
Laid(blk, H, L, P, own, at) ==
    /\ \A o \in Owners :
        /\ L[o] \in Nat
        /\ L[o] = 0 => H[o] \notin Blocks
        /\ L[o] # 0 => H[o] = P[o][1]
        /\ \A i \in 1 .. L[o] : P[o][i] \in Blocks /\ own[P[o][i]] = o /\ at[P[o][i]] = i
    /\ \A b \in Blocks :
        /\ own[b] \in Owners /\ at[b] \in 1 .. L[own[b]] /\ P[own[b]][at[b]] = b
        /\ blk[b].type = TypeOf(own[b])
        /\ blk[b].prev = IF at[b] = 1 THEN 0 ELSE P[own[b]][at[b] - 1]
        /\ blk[b].next = IF at[b] = L[own[b]] THEN 0 ELSE P[own[b]][at[b] + 1]

LEMMA OwnersApart ==
  /\ FreeList # Root /\ FreeList \notin FileOwners /\ Root \notin FileOwners
  /\ \A i \in FDs : Own(i) \notin Slots
  /\ \A i, j \in FDs : Own(i) = Own(j) => i = j
  /\ FreeList \in Owners /\ Root \in Owners /\ FileOwners \subseteq Owners
  /\ TypeOf(FreeList) = "FREE" /\ TypeOf(Root) = "DIR"
  /\ \A o \in FileOwners : TypeOf(o) = "FILE"
<1>1. \A s \in Slots : s[1] \in BlockId /\ s[1] # NBlocks /\ s[1] # NBlocks + 1
  BY DEF Slots, BlockId
<1>2. FreeList[1] = NBlocks /\ Root[1] = NBlocks /\ \A i : Own(i)[1] = NBlocks + 1 /\ Own(i)[2] = i
  BY DEF FreeList, Root, Own
<1>3. FreeList[2] = 1 /\ Root[2] = 2 BY DEF FreeList, Root
<1>4. NBlocks + 1 # NBlocks OBVIOUS
<1>5. FreeList # Root BY <1>3
<1>6. FreeList \notin Slots /\ Root \notin Slots /\ \A i : Own(i) \notin Slots
  BY <1>1, <1>2
<1>7. \A i : Own(i) # FreeList /\ Own(i) # Root BY <1>2, <1>4
<1>8. \A i, j : Own(i) = Own(j) => i = j BY <1>2
<1> QED BY <1>5, <1>6, <1>7, <1>8 DEF FileOwners, Owners, TypeOf

(* A path of distinct blocks is shorter than the disk, ... *)
LEMMA PathLength ==
  ASSUME NEW m \in Nat, NEW p \in [1 .. m -> Blocks],
         \A i, j \in 1 .. m : p[i] = p[j] => i = j
  PROVE  m < NBlocks
<1>1. IsFiniteSet(Blocks) /\ Cardinality(Blocks) = NBlocks - 1
  <2>1. 1 \in Int /\ NBlocks - 1 \in Int OBVIOUS
  <2>2. IsFiniteSet(1 .. NBlocks - 1)
        /\ Cardinality(1 .. NBlocks - 1)
            = IF 1 > NBlocks - 1 THEN 0 ELSE NBlocks - 1 - 1 + 1
    BY <2>1, FS_Interval
  <2> QED BY <2>2 DEF Blocks
<1>2. IsFiniteSet(1 .. m) /\ Cardinality(1 .. m) = m BY FS_Interval
<1>3. p \in Injection(1 .. m, Blocks) BY DEF Injection, IsInjective
<1>4. m <= NBlocks - 1 BY <1>1, <1>2, <1>3, FS_Injection
<1> QED BY <1>4

(* ... and it is what List returns if the headers link it from `first` to an end. *)
LEMMA ListIs ==
  ASSUME NEW blk, NEW first, NEW m \in Nat, NEW p \in [1 .. m -> Blocks],
         \A i, j \in 1 .. m : p[i] = p[j] => i = j,
         m = 0 => first \notin Blocks, m # 0 => first = p[1],
         m # 0 => blk[p[m]].next \notin Blocks,
         \A i \in 1 .. m : i # m => blk[p[i]].next = p[i + 1]
  PROVE  /\ List(blk, first) \in Seq(Blocks)
         /\ Len(List(blk, first)) = m
         /\ \A i \in 1 .. m : List(blk, first)[i] = p[i]
<1>1. PICK l : l = List(blk, first) OBVIOUS
<1>2. /\ l \in Seq(Blocks) /\ Len(l) \in Nat /\ Len(l) <= NBlocks
      /\ \A i \in 1 .. Len(l) : l[i] = Link(blk, first, l, i)
      /\ first \in Blocks => Len(l) > 0 /\ l[1] = first
      /\ first \notin Blocks => l = <<>>
      /\ Len(l) < NBlocks /\ l # <<>> => blk[l[Len(l)]].next \notin Blocks
  BY <1>1, ListFacts
<1>3. m < NBlocks BY PathLength
<1> DEFINE S == {i \in Nat : i \in 1 .. m /\ i \in 1 .. Len(l) => l[i] = p[i]}
<1>4. 0 \in S OBVIOUS
<1>5. ASSUME NEW i \in Nat, i \in S PROVE i + 1 \in S
  <2> SUFFICES ASSUME i + 1 \in 1 .. m, i + 1 \in 1 .. Len(l) PROVE l[i + 1] = p[i + 1]
    OBVIOUS
  <2>1. l[i + 1] = Link(blk, first, l, i + 1) BY <1>2
  <2>2. CASE i = 0 BY <2>1, <2>2 DEF Link
  <2>3. CASE i # 0
    <3>1. i \in 1 .. m /\ i \in 1 .. Len(l) /\ i # m BY <1>2, <2>3
    <3>2. l[i] = p[i] BY <1>5, <3>1
    <3>3. l[i + 1] = blk[p[i]].next BY <1>2, <2>1, <2>3, <3>2 DEF Link
    <3> QED BY <3>1, <3>3
  <2> QED BY <2>2, <2>3
<1>6. ASSUME NEW i \in 1 .. m, i \in 1 .. Len(l) PROVE l[i] = p[i]
  <2>1. i \in S
    <3> HIDE DEF S
    <3> QED BY <1>4, <1>5, SetInduction
  <2> QED BY <1>6, <2>1
<1>7. CASE m = 0 BY <1>1, <1>2, <1>7
<1>8. CASE m # 0
  <2>1. first \in Blocks /\ Len(l) > 0 BY <1>2, <1>8
  <2>2. ASSUME Len(l) > m PROVE FALSE
    <3>1. m \in 1 .. m /\ m \in 1 .. Len(l) /\ m + 1 \in 1 .. Len(l) BY <1>2, <1>8, <2>2
    <3>2. l[m + 1] = blk[l[m]].next
      <4>1. m + 1 # 1 /\ (m + 1) - 1 = m BY <1>8
      <4> QED BY <1>2, <3>1, <4>1 DEF Link
    <3>3. l[m] = p[m] BY <1>6, <3>1
    <3>4. l[m + 1] \in Blocks BY <1>2, <3>1
    <3> QED BY <3>1, <3>2, <3>3, <3>4
  <2>3. ASSUME Len(l) < m PROVE FALSE
    <3>1. Len(l) \in 1 .. m /\ Len(l) # m /\ Len(l) \in 1 .. Len(l) /\ Len(l) < NBlocks
      BY <1>2, <1>3, <2>1, <2>3
    <3>2. l # <<>> BY <1>2, <2>1
    <3>3. blk[l[Len(l)]].next \notin Blocks BY <1>2, <3>1, <3>2
    <3>4. l[Len(l)] = p[Len(l)] BY <1>6, <3>1
    <3>5. blk[p[Len(l)]].next = p[Len(l) + 1] /\ Len(l) + 1 \in 1 .. m BY <1>2, <3>1
    <3>6. p[Len(l) + 1] \in Blocks BY <3>5
    <3> QED BY <3>3, <3>4, <3>5, <3>6
  <2>4. Len(l) = m BY <1>2, <2>2, <2>3
  <2> QED BY <1>1, <1>2, <1>6, <2>4
<1> QED BY <1>7, <1>8

(* In the form in which the searches of the block layer use it. *)
LEMMA ListSetIs ==
  ASSUME NEW blk, NEW first, NEW m \in Nat, NEW p \in [1 .. m -> Blocks],
         \A i, j \in 1 .. m : p[i] = p[j] => i = j,
         m = 0 => first \notin Blocks, m # 0 => first = p[1],
         m # 0 => blk[p[m]].next \notin Blocks,
         \A i \in 1 .. m : i # m => blk[p[i]].next = p[i + 1]
  PROVE  /\ \A b : b \in ListSet(blk, first) <=> \E i \in 1 .. m : p[i] = b
         /\ \A k \in Nat : \A b : b \in fileBlockAt(blk, first, k) <=> k < m /\ b = p[k + 1]
         /\ \A b : b \in LastOf(blk, first) <=> m # 0 /\ b = p[m]
<1>1. PICK l : l = List(blk, first) OBVIOUS
<1>2. l \in Seq(Blocks) /\ Len(l) = m /\ \A i \in 1 .. m : l[i] = p[i] BY <1>1, ListIs
<1>3. DOMAIN l = 1 .. m BY <1>2
<1>4. ListSet(blk, first) = {l[i] : i \in 1 .. m} BY <1>1, <1>3 DEF ListSet
<1>5. ASSUME NEW k \in Int PROVE fileBlockAt(blk, first, k) = {p[i] : i \in {k + 1} \cap 1 .. m}
  <2>1. fileBlockAt(blk, first, k) = {l[i] : i \in {k + 1} \cap 1 .. m} \cap Blocks
    BY <1>1, <1>3 DEF fileBlockAt
  <2>2. \A i \in {k + 1} \cap 1 .. m : l[i] = p[i] /\ p[i] \in Blocks BY <1>2
  <2> QED BY <2>1, <2>2
<1>6. LastOf(blk, first) = fileBlockAt(blk, first, m - 1) BY <1>1, <1>2 DEF LastOf
<1>7. m - 1 \in Int /\ (m - 1) + 1 = m OBVIOUS
<1>8. fileBlockAt(blk, first, m - 1) = {p[i] : i \in {m} \cap 1 .. m} BY <1>5, <1>7
<1>9. ListSet(blk, first) = {p[i] : i \in 1 .. m} BY <1>2, <1>4
<1>10. \A b : b \in ListSet(blk, first) <=> \E i \in 1 .. m : p[i] = b BY <1>9
<1>11. ASSUME NEW k \in Nat, NEW b
       PROVE  b \in fileBlockAt(blk, first, k) <=> k < m /\ b = p[k + 1]
  <2>1. k + 1 \in 1 .. m <=> k < m OBVIOUS
  <2> QED BY <1>5, <2>1
<1>12. ASSUME NEW b PROVE b \in LastOf(blk, first) <=> m # 0 /\ b = p[m]
  <2>1. m \in 1 .. m <=> m # 0 OBVIOUS
  <2> QED BY <1>6, <1>8, <2>1
<1> QED BY <1>10, <1>11, <1>12
-----------------------------------------------------------------------------
(* The lists of laid out blocks *)

LEMMA PathsApart ==
  ASSUME NEW blk, NEW H, NEW L, NEW P, NEW own, NEW at, Laid(blk, H, L, P, own, at),
         NEW o \in Owners
  PROVE  /\ L[o] \in Nat
         /\ [i \in 1 .. L[o] |-> P[o][i]] \in [1 .. L[o] -> Blocks]
         /\ \A i, j \in 1 .. L[o] : P[o][i] = P[o][j] => i = j
         /\ \A i \in 1 .. L[o] : P[o][i] \in Blocks /\ own[P[o][i]] = o /\ at[P[o][i]] = i
         /\ L[o] # 0 => blk[P[o][L[o]]].next = 0
         /\ \A i \in 1 .. L[o] : i # L[o] => blk[P[o][i]].next = P[o][i + 1]
         /\ \A b : (\E i \in 1 .. L[o] : P[o][i] = b) <=> b \in Blocks /\ own[b] = o
<1> DEFINE m == L[o]
           p == [i \in 1 .. m |-> P[o][i]]
<1>1. /\ m \in Nat
      /\ \A i \in 1 .. m : P[o][i] \in Blocks /\ own[P[o][i]] = o /\ at[P[o][i]] = i
  BY DEF Laid
<1>2. \A i, j \in 1 .. m : P[o][i] = P[o][j] => i = j BY <1>1
<1>3. \A b \in Blocks : own[b] = o =>
        at[b] \in 1 .. m /\ P[o][at[b]] = b
        /\ blk[b].next = IF at[b] = m THEN 0 ELSE P[o][at[b] + 1]
  BY DEF Laid
<1>4. m # 0 => blk[P[o][m]].next = 0 BY <1>1, <1>3
<1>5. ASSUME NEW i \in 1 .. m, i # m PROVE blk[P[o][i]].next = P[o][i + 1]
  <2>1. P[o][i] \in Blocks /\ own[P[o][i]] = o /\ at[P[o][i]] = i BY <1>1
  <2> QED BY <2>1, <1>3, <1>5
<1>6. \A b : (\E i \in 1 .. m : P[o][i] = b) <=> b \in Blocks /\ own[b] = o BY <1>1, <1>3
<1> QED BY <1>1, <1>2, <1>4, <1>5, <1>6

(* The searches of the block layer find the blocks of the paths. *)
LEMMA LaidLists ==
  ASSUME NEW blk, NEW H, NEW L, NEW P, NEW own, NEW at, Laid(blk, H, L, P, own, at),
         NEW o \in Owners
  PROVE  /\ \A b : b \in ListSet(blk, H[o]) <=> b \in Blocks /\ own[b] = o
         /\ \A k \in Nat : \A b :
                b \in fileBlockAt(blk, H[o], k) <=> k < L[o] /\ b = P[o][k + 1]
         /\ \A b : b \in LastOf(blk, H[o]) <=> L[o] # 0 /\ b = P[o][L[o]]
<1> PICK m : m = L[o] OBVIOUS
<1> PICK p : p = [i \in 1 .. m |-> P[o][i]] OBVIOUS
<1> PICK first : first = H[o] OBVIOUS
<1>1. /\ m \in Nat /\ p \in [1 .. m -> Blocks]
      /\ \A i, j \in 1 .. m : P[o][i] = P[o][j] => i = j
      /\ m # 0 => blk[P[o][m]].next = 0
      /\ \A i \in 1 .. m : i # m => blk[P[o][i]].next = P[o][i + 1]
      /\ \A b : (\E i \in 1 .. m : P[o][i] = b) <=> b \in Blocks /\ own[b] = o
  <2>1. /\ L[o] \in Nat
        /\ [i \in 1 .. L[o] |-> P[o][i]] \in [1 .. L[o] -> Blocks]
        /\ \A i, j \in 1 .. L[o] : P[o][i] = P[o][j] => i = j
        /\ L[o] # 0 => blk[P[o][L[o]]].next = 0
        /\ \A i \in 1 .. L[o] : i # L[o] => blk[P[o][i]].next = P[o][i + 1]
        /\ \A b : (\E i \in 1 .. L[o] : P[o][i] = b) <=> b \in Blocks /\ own[b] = o
    BY PathsApart
  <2> QED BY <2>1
<1>2. \A i \in 1 .. m : p[i] = P[o][i] OBVIOUS
<1>3. (m = 0 => first \notin Blocks) /\ (m # 0 => first = p[1])
  <2>1. (m = 0 => first \notin Blocks) /\ (m # 0 => first = P[o][1]) BY DEF Laid
  <2>2. m # 0 => 1 \in 1 .. m BY <1>1
  <2> QED BY <2>1, <2>2, <1>2
<1>4. \A i, j \in 1 .. m : p[i] = p[j] => i = j BY <1>1, <1>2
<1>5. m # 0 => blk[p[m]].next \notin Blocks
  <2>1. m # 0 => m \in 1 .. m BY <1>1
  <2>2. 0 \notin Blocks BY DEF Blocks
  <2> QED BY <2>1, <2>2, <1>1, <1>2
<1>6. \A i \in 1 .. m : i # m => blk[p[i]].next = p[i + 1]
  <2>1. \A i \in 1 .. m : i # m => i + 1 \in 1 .. m BY <1>1
  <2> QED BY <2>1, <1>1, <1>2
<1>7. /\ \A b : b \in ListSet(blk, first) <=> \E i \in 1 .. m : p[i] = b
      /\ \A k \in Nat : \A b : b \in fileBlockAt(blk, first, k) <=> k < m /\ b = p[k + 1]
      /\ \A b : b \in LastOf(blk, first) <=> m # 0 /\ b = p[m]
  <2>1. m \in Nat /\ p \in [1 .. m -> Blocks] BY <1>1
  <2> QED BY ONLY <2>1, <1>3, <1>4, <1>5, <1>6, ListSetIs, ZenonT(60)
<1>8. \A k \in Nat : k < m => k + 1 \in 1 .. m BY <1>1
<1>9. m # 0 => m \in 1 .. m BY <1>1
<1>10. \A b : b \in ListSet(blk, first) <=> b \in Blocks /\ own[b] = o BY <1>1, <1>2, <1>7
<1>11. \A k \in Nat : \A b : b \in fileBlockAt(blk, first, k) <=> k < m /\ b = P[o][k + 1]
  BY <1>2, <1>7, <1>8
<1>12. \A b : b \in LastOf(blk, first) <=> m # 0 /\ b = P[o][m] BY <1>2, <1>7, <1>9
<1> QED BY <1>10, <1>11, <1>12

-----------------------------------------------------------------------------
(* The allocator cuts and joins paths *)

\* The headers on which allocateBlocks walks the blocks it takes.
Cut(blk, last) == [blk EXCEPT ![last].next = 0]

\* What is taken when `last` is the n-th block of the free list.
TakesFirst(d, L, P, own, at, n, last) ==
    /\ n # 0 /\ n <= L[FreeList] /\ last = P[FreeList][n]
    /\ d.freelist = P[FreeList][1] /\ last \in Blocks
    /\ d.blk[last].next = IF n = L[FreeList] THEN 0 ELSE P[FreeList][n + 1]
    /\ \A b : b \in ListSet(Cut(d.blk, last), d.freelist)
              <=> b \in Blocks /\ own[b] = FreeList /\ at[b] <= n

(* allocateBlocks finds the n-th block of the free list and takes the first n. *)
LEMMA TakenBlocks ==
  ASSUME NEW d \in Disk, NEW H, NEW L, NEW P, NEW own, NEW at,
         Laid(d.blk, H, L, P, own, at), H[FreeList] = d.freelist,
         NEW n \in Nat, NEW last \in LastToAllocate(d, n)
  PROVE  TakesFirst(d, L, P, own, at, n, last)
<1> PICK F : F = FreeList OBVIOUS
<1> PICK first : first = d.freelist OBVIOUS
<1> PICK blk : blk = d.blk OBVIOUS
<1>c. PICK cut : cut = Cut(blk, last) OBVIOUS
<1>p. PICK p : p = [i \in 1 .. n |-> P[F][i]] OBVIOUS
<1>1. F \in Owners BY OwnersApart
<1>2. n # 0 /\ last \in fileBlockAt(blk, H[F], n - 1)
  <2>1. n # 0 BY DEF LastToAllocate
  <2> QED BY <2>1 DEF LastToAllocate
<1>3. n - 1 < L[F] /\ last = P[F][n]
  <2>1. n - 1 \in Nat /\ (n - 1) + 1 = n BY <1>2
  <2>2. \A k \in Nat : \A b :
            b \in fileBlockAt(blk, H[F], k) <=> k < L[F] /\ b = P[F][k + 1]
    <3>1. Laid(blk, H, L, P, own, at) OBVIOUS
    <3> QED BY ONLY <1>1, <3>1, LaidLists
  <2> QED BY <1>2, <2>1, <2>2
<1>4. /\ L[F] \in Nat
      /\ \A i \in 1 .. L[F] : P[F][i] \in Blocks /\ own[P[F][i]] = F /\ at[P[F][i]] = i
      /\ L[F] # 0 => first = P[F][1]
  BY <1>1 DEF Laid
<1>5. \A b \in Blocks : own[b] = F =>
        at[b] \in 1 .. L[F] /\ P[F][at[b]] = b
        /\ blk[b].next = IF at[b] = L[F] THEN 0 ELSE P[F][at[b] + 1]
  BY DEF Laid
<1>6. n <= L[F] /\ n \in 1 .. L[F] BY <1>2, <1>3, <1>4
<1>7. last \in Blocks /\ own[last] = F /\ at[last] = n BY <1>3, <1>4, <1>6
<1>8. blk[last].next = IF n = L[F] THEN 0 ELSE P[F][n + 1] BY <1>5, <1>7
<1>9. first = P[F][1] BY <1>2, <1>4, <1>6
<1>10. \A b \in Blocks : cut[b].next = IF b = last THEN 0 ELSE blk[b].next
  BY <1>c DEF Cut, Disk, Header
<1>11. \A i \in 1 .. n : /\ i \in 1 .. L[F] /\ p[i] = P[F][i] /\ p[i] \in Blocks
                         /\ own[p[i]] = F /\ at[p[i]] = i
  BY <1>4, <1>6, <1>p
<1>12. p \in [1 .. n -> Blocks] BY <1>11, <1>p
<1>13. \A i, j \in 1 .. n : p[i] = p[j] => i = j BY <1>11
<1>14. first = p[1]
  <2>1. 1 \in 1 .. n BY <1>2
  <2> QED BY <1>9, <1>p, <2>1
<1>15. cut[p[n]].next \notin Blocks
  <2>1. n \in 1 .. n BY <1>2
  <2>3. p[n] = last BY <1>3, <1>p, <2>1
  <2>2. 0 \notin Blocks BY DEF Blocks
  <2> QED BY <1>7, <1>10, <2>3, <2>2
<1>16. ASSUME NEW i \in 1 .. n, i # n PROVE cut[p[i]].next = p[i + 1]
  <2>1. p[i] \in Blocks /\ at[p[i]] = i /\ own[p[i]] = F /\ p[i] # last
    BY <1>7, <1>11, <1>16
  <2>2. cut[p[i]].next = blk[p[i]].next BY <1>10, <2>1
  <2>3. blk[p[i]].next = P[F][i + 1]
    <3>1. i # L[F] BY <1>6, <1>16
    <3> QED BY <1>5, <2>1, <3>1
  <2>4. i + 1 \in 1 .. n BY <1>16
  <2> QED BY <1>11, <2>2, <2>3, <2>4
<1>17. \A b : b \in ListSet(cut, first) <=> \E i \in 1 .. n : p[i] = b
  <2>1. n = 0 => first \notin Blocks BY <1>2
  <2>2. /\ n # 0 => first = p[1]
        /\ n # 0 => cut[p[n]].next \notin Blocks
    BY <1>14, <1>15
  <2>3. n \in Nat OBVIOUS
  <2> QED BY ONLY <1>12, <1>13, <1>16, <2>1, <2>2, <2>3, ListSetIs
<1>18. ASSUME NEW b PROVE b \in ListSet(cut, first) <=> b \in Blocks /\ own[b] = F /\ at[b] <= n
  <2>1. ASSUME b \in Blocks, own[b] = F, at[b] <= n PROVE \E i \in 1 .. n : p[i] = b
    <3>1. at[b] \in 1 .. n /\ P[F][at[b]] = b BY <1>5, <2>1
    <3> QED BY <1>11, <3>1
  <2> QED BY <1>11, <1>17, <2>1
<1> QED BY <1>2, <1>3, <1>6, <1>7, <1>8, <1>9, <1>18, <1>c DEF TakesFirst

\* Owner o has `len` blocks now, the owners other than the free list as many as they had,
\* and the directory the blocks that it had, in the places where it had them.
Rearranged(blk2, H2, L, own, at, o, len) ==
    \E L2, P2, own2, at2 :
        /\ Laid(blk2, H2, L2, P2, own2, at2)
        /\ L2[o] = len
        /\ \A q \in Owners \ {FreeList, o} : L2[q] = L[q]
        /\ \A b \in Blocks : own[b] = Root => own2[b] = Root /\ at2[b] = at[b]

\* Owner o, whose list ends at tail, is given the first n blocks of the free list.
Takes(d, H, L, P, own, at, n, last, o, tail, d2, H2) ==
    /\ d \in Disk /\ Laid(d.blk, H, L, P, own, at) /\ H[FreeList] = d.freelist
    /\ n \in Nat /\ last \in LastToAllocate(d, n)
    /\ o \in Owners /\ o # FreeList
    /\ L[o] # 0 => tail = P[o][L[o]]
    /\ L[o] = 0 => d2 = AfterAllocate(d, TypeOf(o), last)
    /\ L[o] # 0 => d2 = AfterAttach(AfterAllocate(d, TypeOf(o), last), tail, d.freelist)
    /\ H2[FreeList] = d2.freelist
    /\ L[o] = 0 => H2[o] = d.freelist
    /\ L[o] # 0 => H2[o] = H[o]
    /\ \A q \in Owners \ {FreeList, o} : H2[q] = H[q]

(* allocateBlocks, and the attaching of what it returns, move the first n blocks of *)
(* the free list to the end of the list of their new owner.                         *)
LEMMA TakeBlocks ==
  ASSUME NEW d, NEW H, NEW L, NEW P, NEW own, NEW at, NEW n, NEW last, NEW o, NEW tail,
         NEW d2, NEW H2, Takes(d, H, L, P, own, at, n, last, o, tail, d2, H2)
  PROVE  Rearranged(d2.blk, H2, L, own, at, o, L[o] + n)
<1> SUFFICES ASSUME d \in Disk, Laid(d.blk, H, L, P, own, at), H[FreeList] = d.freelist,
                    n \in Nat, last \in LastToAllocate(d, n),
                    o \in Owners, o # FreeList,
                    L[o] # 0 => tail = P[o][L[o]],
                    L[o] = 0 => d2 = AfterAllocate(d, TypeOf(o), last),
                    L[o] # 0 =>
                       d2 = AfterAttach(AfterAllocate(d, TypeOf(o), last), tail, d.freelist),
                    H2[FreeList] = d2.freelist,
                    L[o] = 0 => H2[o] = d.freelist,
                    L[o] # 0 => H2[o] = H[o],
                    \A q \in Owners \ {FreeList, o} : H2[q] = H[q]
             PROVE  \E L2, P2, own2, at2 :
                      /\ Laid(d2.blk, H2, L2, P2, own2, at2)
                      /\ L2[o] = L[o] + n
                      /\ \A q \in Owners \ {FreeList, o} : L2[q] = L[q]
                      /\ \A b \in Blocks : own[b] = Root => own2[b] = Root /\ at2[b] = at[b]
  BY DEF Takes, Rearranged
<1> PICK F : F = FreeList OBVIOUS
<1> PICK blk : blk = d.blk OBVIOUS
<1>t. PICK taken : taken = ListSet(Cut(d.blk, last), d.freelist) OBVIOUS
<1>r. PICK rest : rest = d.blk[last].next OBVIOUS
<1> PICK m : m = L[o] OBVIOUS
<1>1. /\ n # 0 /\ n <= L[F] /\ last = P[F][n] /\ d.freelist = P[F][1] /\ last \in Blocks
      /\ rest = IF n = L[F] THEN 0 ELSE P[F][n + 1]
      /\ \A b : b \in taken <=> b \in Blocks /\ own[b] = F /\ at[b] <= n
  <2>1. TakesFirst(d, L, P, own, at, n, last) BY TakenBlocks
  <2> QED BY <2>1, <1>t, <1>r DEF TakesFirst
<1>2. F \in Owners /\ o # F BY OwnersApart
<1>3. \A q \in Owners :
        /\ L[q] \in Nat
        /\ L[q] = 0 => H[q] \notin Blocks
        /\ L[q] # 0 => H[q] = P[q][1]
        /\ \A i \in 1 .. L[q] : P[q][i] \in Blocks /\ own[P[q][i]] = q /\ at[P[q][i]] = i
  BY DEF Laid
<1>4. \A b \in Blocks :
        /\ own[b] \in Owners /\ at[b] \in 1 .. L[own[b]] /\ P[own[b]][at[b]] = b
        /\ blk[b].type = TypeOf(own[b])
        /\ blk[b].prev = IF at[b] = 1 THEN 0 ELSE P[own[b]][at[b] - 1]
        /\ blk[b].next = IF at[b] = L[own[b]] THEN 0 ELSE P[own[b]][at[b] + 1]
  BY DEF Laid
<1>5. \A b \in Blocks : blk[b] = [type |-> blk[b].type, prev |-> blk[b].prev, next |-> blk[b].next]
  BY DEF Disk, Header
<1>a. PICK a : a = AfterAllocate(d, TypeOf(o), last) OBVIOUS
<1>6. /\ a.freelist = rest
      /\ a.blk = [b \in Blocks |->
                    IF b \in taken
                    THEN [type |-> TypeOf(o), prev |-> blk[b].prev,
                          next |-> IF b = last THEN 0 ELSE blk[b].next]
                    ELSE IF b = rest THEN [blk[b] EXCEPT !.prev = 0]
                    ELSE blk[b]]
  BY <1>a, <1>t, <1>r DEF AfterAllocate, Cut
<1>7. /\ d2.freelist = rest
      /\ \A b \in Blocks :
            /\ d2.blk[b].type = IF b \in taken THEN TypeOf(o) ELSE blk[b].type
            /\ d2.blk[b].prev = IF m # 0 /\ b = P[F][1] THEN tail
                                ELSE IF b \notin taken /\ b = rest THEN 0 ELSE blk[b].prev
            /\ d2.blk[b].next = IF m # 0 /\ b = tail THEN P[F][1]
                                ELSE IF b = last THEN 0 ELSE blk[b].next
  <2>0. last \in taken /\ P[F][1] \in taken
    <3>1. 1 \in 1 .. L[F] /\ n \in 1 .. L[F] BY <1>1, <1>2, <1>3
    <3>2. P[F][1] \in Blocks /\ own[P[F][1]] = F /\ at[P[F][1]] = 1
          /\ P[F][n] \in Blocks /\ own[P[F][n]] = F /\ at[P[F][n]] = n
      BY <1>2, <1>3, <3>1
    <3>3. 1 <= n BY <1>1
    <3> QED BY <1>1, <3>2, <3>3
  <2>1. \A b \in Blocks :
            /\ a.blk[b] = [type |-> a.blk[b].type, prev |-> a.blk[b].prev, next |-> a.blk[b].next]
            /\ a.blk[b].type = IF b \in taken THEN TypeOf(o) ELSE blk[b].type
            /\ a.blk[b].prev = IF b \notin taken /\ b = rest THEN 0 ELSE blk[b].prev
            /\ a.blk[b].next = IF b = last THEN 0 ELSE blk[b].next
    <3> SUFFICES ASSUME NEW b \in Blocks
                 PROVE  /\ a.blk[b] = [type |-> a.blk[b].type, prev |-> a.blk[b].prev,
                                       next |-> a.blk[b].next]
                        /\ a.blk[b].type = IF b \in taken THEN TypeOf(o) ELSE blk[b].type
                        /\ a.blk[b].prev = IF b \notin taken /\ b = rest THEN 0 ELSE blk[b].prev
                        /\ a.blk[b].next = IF b = last THEN 0 ELSE blk[b].next
      OBVIOUS
    <3> PICK hd : hd = blk[b] OBVIOUS
    <3>1. hd = [type |-> hd.type, prev |-> hd.prev, next |-> hd.next] BY <1>5
    <3>2. CASE b \in taken
      <4>1. a.blk[b] = [type |-> TypeOf(o), prev |-> hd.prev,
                        next |-> IF b = last THEN 0 ELSE hd.next]
        BY <1>6, <3>2
      <4> QED BY <3>2, <4>1
    <3>3. CASE b \notin taken /\ b = rest
      <4>1. a.blk[b] = [hd EXCEPT !.prev = 0] BY <1>6, <3>3
      <4>2. a.blk[b] = [type |-> hd.type, prev |-> 0, next |-> hd.next] BY <3>1, <4>1
      <4> QED BY <2>0, <3>3, <4>2
    <3>4. CASE b \notin taken /\ b # rest
      <4>1. a.blk[b] = hd BY <1>6, <3>4
      <4> QED BY <2>0, <3>1, <3>4, <4>1
    <3> QED BY <3>2, <3>3, <3>4
  <2>11. a.freelist = rest BY <1>6
  <2>2. CASE m = 0
    <3>1. d2 = a BY <1>a, <2>2
    <3> QED BY <2>0, <2>1, <2>11, <2>2, <3>1
  <2>3. CASE m # 0
    <3>1. d2 = AfterAttach(a, tail, P[F][1]) BY <1>1, <1>a, <2>3
    <3>2. a = [freelist |-> a.freelist, blk |-> a.blk] BY <1>a DEF AfterAllocate
    <3>3. d2.freelist = a.freelist /\ d2.blk =
            [b \in Blocks |->
                IF b = tail THEN [a.blk[b] EXCEPT !.next = P[F][1]]
                ELSE IF b = P[F][1] THEN [a.blk[b] EXCEPT !.prev = tail]
                ELSE a.blk[b]]
      BY <3>1, <3>2 DEF AfterAttach
    <3>4. tail \in Blocks /\ tail \notin taken
      <4>1. tail = P[o][m] /\ m \in 1 .. L[o] BY <1>3, <2>3
      <4> QED BY <1>1, <1>2, <1>3, <4>1
    <3>5. tail # P[F][1] /\ tail # last BY <2>0, <3>4
    <3>6. d2.freelist = rest BY <1>6, <3>3
    <3>7. ASSUME NEW b \in Blocks
          PROVE  /\ d2.blk[b].type = a.blk[b].type
                 /\ d2.blk[b].prev = IF b = P[F][1] THEN tail ELSE a.blk[b].prev
                 /\ d2.blk[b].next = IF b = tail THEN P[F][1] ELSE a.blk[b].next
      <4> PICK hd : hd = a.blk[b] OBVIOUS
      <4>1. hd = [type |-> hd.type, prev |-> hd.prev, next |-> hd.next] BY <2>1
      <4>2. CASE b = tail
        <5>1. d2.blk[b] = [hd EXCEPT !.next = P[F][1]] BY <3>3, <4>2
        <5>2. d2.blk[b] = [type |-> hd.type, prev |-> hd.prev, next |-> P[F][1]]
          BY <4>1, <5>1
        <5> QED BY <3>5, <4>2, <5>2
      <4>3. CASE b = P[F][1]
        <5>1. d2.blk[b] = [hd EXCEPT !.prev = tail] BY <3>3, <3>5, <4>3
        <5>2. d2.blk[b] = [type |-> hd.type, prev |-> tail, next |-> hd.next]
          BY <4>1, <5>1
        <5> QED BY <3>5, <4>3, <5>2
      <4>4. CASE b # tail /\ b # P[F][1]
        <5>1. d2.blk[b] = hd BY <3>3, <4>4
        <5> QED BY <4>4, <5>1
      <4> QED BY <4>2, <4>3, <4>4
    <3> SUFFICES ASSUME NEW b \in Blocks
                 PROVE  /\ d2.blk[b].type = IF b \in taken THEN TypeOf(o) ELSE blk[b].type
                        /\ d2.blk[b].prev = IF m # 0 /\ b = P[F][1] THEN tail
                                            ELSE IF b \notin taken /\ b = rest
                                            THEN 0 ELSE blk[b].prev
                        /\ d2.blk[b].next = IF m # 0 /\ b = tail THEN P[F][1]
                                            ELSE IF b = last THEN 0 ELSE blk[b].next
      BY <3>6
    <3>8. /\ a.blk[b].type = IF b \in taken THEN TypeOf(o) ELSE blk[b].type
          /\ a.blk[b].prev = IF b \notin taken /\ b = rest THEN 0 ELSE blk[b].prev
          /\ a.blk[b].next = IF b = last THEN 0 ELSE blk[b].next
      BY <2>1
    <3>9. /\ d2.blk[b].type = a.blk[b].type
          /\ d2.blk[b].prev = IF b = P[F][1] THEN tail ELSE a.blk[b].prev
          /\ d2.blk[b].next = IF b = tail THEN P[F][1] ELSE a.blk[b].next
      BY <3>7
    <3> QED BY ONLY <2>3, <3>8, <3>9
  <2> QED BY <2>2, <2>3
<1>L. PICK L2 : L2 = [q \in Owners |-> IF q = F THEN L[F] - n
                                     ELSE IF q = o THEN m + n ELSE L[q]]
  OBVIOUS
<1>P. PICK P2 : P2 = [q \in Owners |->
                    IF q = F THEN [i \in Nat |-> P[F][i + n]]
                    ELSE IF q = o
                    THEN [i \in Nat |-> IF i <= m THEN P[o][i] ELSE P[F][i - m]]
                    ELSE P[q]]
  OBVIOUS
<1>o. PICK own2 : own2 = [b \in Blocks |-> IF b \in taken THEN o ELSE own[b]] OBVIOUS
<1>q. PICK at2 : at2 = [b \in Blocks |-> IF b \in taken THEN at[b] + m
                                        ELSE IF own[b] = F THEN at[b] - n ELSE at[b]]
  OBVIOUS
<1>8. m \in Nat /\ L[F] \in Nat /\ L2[F] = L[F] - n /\ L2[o] = m + n
      /\ \A q \in Owners \ {F, o} : L2[q] = L[q]
  BY <1>2, <1>3, <1>L
<1>9. \A q \in Owners \ {F, o} : P2[q] = P[q] BY <1>2, <1>P
<1>9f. \A i, j \in Nat : j = i + n => P2[F][i] = P[F][j]
  <2>1. \A i \in Nat : P2[F][i] = P[F][i + n] BY <1>2, <1>P
  <2> QED BY ONLY <2>1
<1>9o. \A i \in Nat : i <= m => P2[o][i] = P[o][i]
  BY <1>2, <1>P
<1>9n. \A i, j \in Nat : ~ (i <= m) /\ j = i - m => P2[o][i] = P[F][j]
  <2>1. \A i \in Nat : ~ (i <= m) => P2[o][i] = P[F][i - m] BY <1>2, <1>P
  <2> QED BY ONLY <2>1
<1>oq. \A b \in Blocks :
        /\ own2[b] = IF b \in taken THEN o ELSE own[b]
        /\ at2[b] = IF b \in taken THEN at[b] + m
                     ELSE IF own[b] = F THEN at[b] - n ELSE at[b]
  BY <1>o, <1>q
<1>10. ASSUME NEW q \in Owners
       PROVE  /\ L2[q] \in Nat
              /\ L2[q] = 0 => H2[q] \notin Blocks
              /\ L2[q] # 0 => H2[q] = P2[q][1]
              /\ \A i \in 1 .. L2[q] :
                    P2[q][i] \in Blocks /\ own2[P2[q][i]] = q /\ at2[P2[q][i]] = i
  <2>1. CASE q = F
    <3>1. L2[q] \in Nat BY <1>1, <1>8, <2>1
    <3>2. H2[q] = rest BY <1>7, <2>1
    <3>3. 0 \notin Blocks BY DEF Blocks
    <3>4. L2[q] = 0 => rest = 0 BY <1>1, <1>8, <2>1
    <3>5. L2[q] # 0 => rest = P[F][n + 1] /\ P2[q][1] = P[F][n + 1]
      <4>1. 1 \in Nat /\ n + 1 \in Nat /\ n + 1 = 1 + n OBVIOUS
      <4>2. P2[F][1] = P[F][n + 1] BY ONLY <1>9f, <4>1
      <4>3. L2[q] # 0 => n # L[F] BY <1>8, <2>1
      <4> QED BY <1>1, <2>1, <4>2, <4>3
    <3>6. ASSUME NEW i \in 1 .. L2[q]
          PROVE  P2[q][i] \in Blocks /\ own2[P2[q][i]] = q /\ at2[P2[q][i]] = i
      <4>0. i \in Nat /\ i + n \in Nat /\ i + n = i + n BY <1>8, <2>1
      <4>1. P2[q][i] = P[F][i + n] /\ i + n \in 1 .. L[F] /\ ~ (i + n <= n)
        <5>1. P2[F][i] = P[F][i + n] BY ONLY <1>9f, <4>0
        <5> QED BY <1>8, <2>1, <5>1
      <4>2. P[F][i + n] \in Blocks /\ own[P[F][i + n]] = F /\ at[P[F][i + n]] = i + n
        BY <1>2, <1>3, <4>1
      <4>3. P[F][i + n] \notin taken BY <1>1, <4>1, <4>2
      <4> QED BY <1>oq, <2>1, <4>1, <4>2, <4>3
    <3> QED BY <3>1, <3>2, <3>3, <3>4, <3>5, <3>6
  <2>2. CASE q = o
    <3>1. L2[q] \in Nat /\ L2[q] # 0 BY <1>1, <1>8, <2>2
    <3>2. H2[q] = P2[q][1]
      <4>1. CASE m = 0
        <5>1. 1 \in Nat /\ ~ (1 <= m) /\ 1 = 1 - m BY <4>1
        <5>2. P2[o][1] = P[F][1] BY ONLY <1>9n, <5>1
        <5> QED BY <1>1, <2>2, <4>1, <5>2
      <4>2. CASE m # 0
        <5>1. 1 \in Nat /\ 1 <= m BY <1>8, <4>2
        <5>2. P2[o][1] = P[o][1] BY ONLY <1>9o, <5>1
        <5> QED BY <1>3, <2>2, <4>2, <5>2
      <4> QED BY <4>1, <4>2
    <3>3. ASSUME NEW i \in 1 .. L2[q]
          PROVE  P2[q][i] \in Blocks /\ own2[P2[q][i]] = q /\ at2[P2[q][i]] = i
      <4>1. CASE i <= m
        <5>0. i \in Nat /\ i \in 1 .. L[o] BY <1>8, <2>2, <4>1
        <5>1. P2[q][i] = P[o][i] /\ i \in 1 .. L[o] BY <1>9o, <2>2, <4>1, <5>0
        <5>2. P[o][i] \in Blocks /\ own[P[o][i]] = o /\ at[P[o][i]] = i BY <1>3, <5>1
        <5> QED BY <1>oq, <1>1, <1>2, <2>2, <5>1, <5>2
      <4>2. CASE ~ (i <= m)
        <5>1. P2[q][i] = P[F][i - m] /\ i - m \in 1 .. L[F] /\ i - m <= n
          <6>1. /\ i \in Nat /\ i - m \in Nat /\ i - m = i - m /\ ~ (i <= m)
                /\ i - m \in 1 .. L[F] /\ i - m <= n
            <7>1. L2[q] = m + n BY <1>8, <2>2
            <7>2. i \in 1 .. m + n BY <7>1
            <7>3. m \in Nat /\ n \in Nat /\ n <= L[F] /\ L[F] \in Nat BY <1>1, <1>8
            <7> QED BY ONLY <4>2, <7>2, <7>3
          <6>2. P2[o][i] = P[F][i - m] BY ONLY <1>9n, <6>1
          <6> QED BY <2>2, <6>1, <6>2
        <5>2. P[F][i - m] \in Blocks /\ own[P[F][i - m]] = F /\ at[P[F][i - m]] = i - m
          BY <1>2, <1>3, <5>1
        <5>3. P[F][i - m] \in taken /\ (i - m) + m = i
          <6>1. P[F][i - m] \in taken BY <1>1, <5>1, <5>2
          <6>2. m \in Nat /\ i \in Nat BY <1>8
          <6> QED BY ONLY <6>1, <6>2
        <5> QED BY <1>oq, <2>2, <5>1, <5>2, <5>3
      <4> QED BY <4>1, <4>2
    <3> QED BY <3>1, <3>2, <3>3
  <2>3. CASE q # F /\ q # o
    <3>1. L2[q] = L[q] /\ P2[q] = P[q] /\ H2[q] = H[q] BY <1>8, <1>9, <2>3
    <3>2. \A i \in 1 .. L[q] : P[q][i] \notin taken /\ own[P[q][i]] # F BY <1>1, <1>3, <2>3
    <3> QED BY <1>oq, <1>3, <2>3, <3>1, <3>2
  <2> QED BY <2>1, <2>2, <2>3
<1>11. ASSUME NEW b \in Blocks
       PROVE  /\ own2[b] \in Owners /\ at2[b] \in 1 .. L2[own2[b]] /\ P2[own2[b]][at2[b]] = b
              /\ d2.blk[b].type = TypeOf(own2[b])
              /\ d2.blk[b].prev = IF at2[b] = 1 THEN 0 ELSE P2[own2[b]][at2[b] - 1]
              /\ d2.blk[b].next = IF at2[b] = L2[own2[b]] THEN 0 ELSE P2[own2[b]][at2[b] + 1]
  <2> PICK k : k = at[b] OBVIOUS
  <2>0. /\ own[b] \in Owners /\ k \in 1 .. L[own[b]] /\ P[own[b]][k] = b
        /\ blk[b].type = TypeOf(own[b])
        /\ blk[b].prev = IF k = 1 THEN 0 ELSE P[own[b]][k - 1]
        /\ blk[b].next = IF k = L[own[b]] THEN 0 ELSE P[own[b]][k + 1]
    BY <1>4
  <2>00. /\ d2.blk[b].type = IF b \in taken THEN TypeOf(o) ELSE blk[b].type
         /\ d2.blk[b].prev = IF m # 0 /\ b = P[F][1] THEN tail
                             ELSE IF b \notin taken /\ b = rest THEN 0 ELSE blk[b].prev
         /\ d2.blk[b].next = IF m # 0 /\ b = tail THEN P[F][1]
                             ELSE IF b = last THEN 0 ELSE blk[b].next
    BY <1>7
  <2>01. at[P[F][1]] = 1 /\ own[P[F][1]] = F /\ at[last] = n /\ own[last] = F
    <3>1. 1 \in 1 .. L[F] /\ n \in 1 .. L[F] BY <1>1, <1>8
    <3> QED BY <1>1, <1>2, <1>3, <3>1
  <2>02. m # 0 => tail = P[o][m] /\ own[tail] = o /\ at[tail] = m
    <3>1. m # 0 => m \in 1 .. L[o] BY <1>8
    <3> QED BY <1>3, <3>1
  <2>03. n # L[F] => rest = P[F][n + 1] /\ at[rest] = n + 1 /\ own[rest] = F
    <3>1. n # L[F] => n + 1 \in 1 .. L[F] BY <1>1, <1>8
    <3> QED BY <1>1, <1>2, <1>3, <3>1
  <2>04. n = L[F] => rest # b BY <1>1 DEF Blocks
  <2>1. CASE b \in taken
    <3>1. own[b] = F /\ k <= n /\ own2[b] = o /\ at2[b] = k + m /\ k \in Nat /\ k # 0
      BY <1>oq, <1>1, <1>8, <2>0, <2>1
    <3>2. at2[b] \in 1 .. L2[o] BY <1>8, <3>1
    <3>3. P2[o][k + m] = b
      <4>1. k + m \in Nat /\ k \in Nat /\ ~ (k + m <= m) /\ k = (k + m) - m BY <1>8, <3>1, SMTT(30)
      <4>2. P2[o][k + m] = P[F][k] BY ONLY <1>9n, <4>1
      <4> QED BY <2>0, <3>1, <4>2
    <3>4. d2.blk[b].type = TypeOf(o) BY <2>00, <2>1
    <3>5. d2.blk[b].prev = IF k + m = 1 THEN 0 ELSE P2[o][(k + m) - 1]
      <4>1. CASE k = 1
        <5>1. b = P[F][1] BY <2>0, <3>1, <4>1
        <5>2. CASE m = 0 BY <2>0, <2>00, <2>1, <4>1, <5>2
        <5>3. CASE m # 0
          <6>1. (k + m) - 1 = m /\ k + m # 1 /\ m \in Nat /\ m <= m BY <1>8, <4>1, <5>3
          <6>2. P2[o][m] = P[o][m] BY ONLY <1>9o, <6>1
          <6> QED BY <2>00, <2>02, <5>1, <5>3, <6>1, <6>2
        <5> QED BY <5>2, <5>3
      <4>2. CASE k # 1
        <5>1. b # P[F][1] BY <2>01, <4>2
        <5>2. d2.blk[b].prev = P[F][k - 1] BY <2>0, <2>00, <2>1, <3>1, <4>2, <5>1
        <5>3. /\ (k + m) - 1 \in Nat /\ k - 1 \in Nat /\ ~ ((k + m) - 1 <= m)
              /\ k - 1 = ((k + m) - 1) - m /\ k + m # 1
          BY <1>8, <3>1, <4>2
        <5>4. P2[o][(k + m) - 1] = P[F][k - 1] BY ONLY <1>9n, <5>3
        <5> QED BY <5>2, <5>3, <5>4
      <4> QED BY <4>1, <4>2
    <3>6. d2.blk[b].next = IF k + m = L2[o] THEN 0 ELSE P2[o][(k + m) + 1]
      <4>0. m # 0 => b # tail BY <1>2, <2>02, <3>1
      <4>1. CASE k = n
        <5>1. b = last BY <1>1, <2>0, <3>1, <4>1
        <5>2. k + m = L2[o] BY <1>8, <4>1
        <5> QED BY <2>00, <4>0, <5>1, <5>2
      <4>2. CASE k # n
        <5>1. b # last BY <2>01, <4>2
        <5>2. k # L[F] BY <1>1, <1>8, <3>1, <4>2
        <5>3. d2.blk[b].next = P[F][k + 1] BY <2>0, <2>00, <3>1, <4>0, <5>1, <5>2
        <5>4. /\ (k + m) + 1 \in Nat /\ k + 1 \in Nat /\ ~ ((k + m) + 1 <= m)
              /\ k + 1 = ((k + m) + 1) - m /\ k + m # m + n
          BY <1>8, <3>1, <4>2
        <5>5. P2[o][(k + m) + 1] = P[F][k + 1] BY ONLY <1>9n, <5>4
        <5> QED BY <1>8, <5>3, <5>4, <5>5
      <4> QED BY <4>1, <4>2
    <3> QED BY <3>1, <3>2, <3>3, <3>4, <3>5, <3>6
  <2>2. CASE b \notin taken /\ own[b] = F
    <3>1. k > n /\ own2[b] = F /\ at2[b] = k - n /\ k \in 1 .. L[F] /\ k \in Nat
      BY <1>oq, <1>1, <1>8, <2>0, <2>2
    <3>2. at2[b] \in 1 .. L2[F] BY <1>8, <3>1
    <3>3. P2[F][k - n] = b
      <4>1. k - n \in Nat /\ k \in Nat /\ k = (k - n) + n BY <3>1
      <4>2. P2[F][k - n] = P[F][k] BY ONLY <1>9f, <4>1
      <4> QED BY <2>0, <2>2, <4>2
    <3>4. d2.blk[b].type = TypeOf(F) BY <2>0, <2>00, <2>2
    <3>5. b # P[F][1] /\ b # last BY <1>1, <2>01, <3>1
    <3>6. m # 0 => b # tail BY <1>2, <2>02, <2>2
    <3>7. d2.blk[b].prev = IF k - n = 1 THEN 0 ELSE P2[F][(k - n) - 1]
      <4>1. CASE k = n + 1
        <5>1. n # L[F] /\ k - n = 1 BY <1>8, <3>1, <4>1
        <5>2. b = rest BY <2>0, <2>03, <2>2, <4>1, <5>1
        <5> QED BY <2>00, <2>2, <3>5, <5>1, <5>2
      <4>2. CASE k # n + 1
        <5>1. b # rest BY <1>1, <2>03, <2>04, <4>2
        <5>2. /\ k # 1 /\ k - n # 1 /\ (k - n) - 1 \in Nat /\ k - 1 \in Nat
              /\ k - 1 = ((k - n) - 1) + n
          BY <1>1, <3>1, <4>2
        <5>3. d2.blk[b].prev = P[F][k - 1] BY <2>0, <2>00, <2>2, <3>5, <5>1, <5>2
        <5>4. P2[F][(k - n) - 1] = P[F][k - 1] BY ONLY <1>9f, <5>2
        <5> QED BY <5>2, <5>3, <5>4
      <4> QED BY <4>1, <4>2
    <3>8. d2.blk[b].next = IF k - n = L2[F] THEN 0 ELSE P2[F][(k - n) + 1]
      <4>1. d2.blk[b].next = IF k = L[F] THEN 0 ELSE P[F][k + 1]
        BY <2>0, <2>00, <2>2, <3>5, <3>6
      <4>2. /\ (k - n) + 1 \in Nat /\ k + 1 \in Nat /\ k + 1 = ((k - n) + 1) + n
            /\ (k - n = L2[F] <=> k = L[F])
        <5>1. L[F] \in Nat /\ L2[F] = L[F] - n /\ n \in Nat BY <1>8
        <5>2. k \in Nat /\ k > n BY <3>1
        <5> QED BY ONLY <5>1, <5>2
      <4>3. P2[F][(k - n) + 1] = P[F][k + 1] BY ONLY <1>9f, <4>2
      <4> QED BY <4>1, <4>2, <4>3
    <3> QED BY <1>2, <3>1, <3>2, <3>3, <3>4, <3>7, <3>8
  <2>3. CASE own[b] # F
    <3>1. b \notin taken /\ own2[b] = own[b] /\ at2[b] = k BY <1>oq, <1>1, <2>3
    <3>2. b # P[F][1] /\ b # last /\ b # rest BY <1>1, <2>01, <2>03, <2>04, <2>3
    <3>3. d2.blk[b].type = TypeOf(own[b]) /\ d2.blk[b].prev = blk[b].prev
      BY <2>0, <2>00, <3>1, <3>2
    <3>4. CASE own[b] = o
      <4>1. k \in 1 .. m /\ k \in Nat /\ k <= m /\ m \in Nat BY <1>8, <2>0, <3>4
      <4>2. k \in 1 .. L2[o] BY <1>8, <4>1
      <4>3. P2[o][k] = b BY <1>9o, <2>0, <3>4, <4>1
      <4>4. d2.blk[b].prev = IF k = 1 THEN 0 ELSE P2[o][k - 1]
        <5>1. k # 1 => k - 1 \in Nat /\ k - 1 <= m BY <4>1
        <5>2. k # 1 => P2[o][k - 1] = P[o][k - 1] BY ONLY <1>9o, <5>1
        <5> QED BY <2>0, <3>3, <3>4, <5>2
      <4>5. d2.blk[b].next = IF k = L2[o] THEN 0 ELSE P2[o][k + 1]
        <5>1. k # L2[o] BY <1>1, <1>8, <4>1
        <5>2. CASE k = m
          <6>1. b = tail /\ m # 0 BY <2>0, <2>02, <3>4, <4>1, <5>2
          <6>2. k + 1 \in Nat /\ 1 \in Nat /\ ~ (k + 1 <= m) /\ 1 = (k + 1) - m BY <4>1, <5>2
          <6>3. P2[o][k + 1] = P[F][1] BY ONLY <1>9n, <6>2
          <6> QED BY <2>00, <5>1, <6>1, <6>3
        <5>3. CASE k # m
          <6>1. m # 0 => b # tail BY <2>02, <5>3
          <6>2. k + 1 \in Nat /\ k + 1 <= m BY <4>1, <5>3
          <6>3. P2[o][k + 1] = P[o][k + 1] BY ONLY <1>9o, <6>2
          <6>4. d2.blk[b].next = P[o][k + 1] BY <2>0, <2>00, <3>2, <3>4, <5>3, <6>1
          <6> QED BY <5>1, <6>3, <6>4
        <5> QED BY <5>2, <5>3
      <4> QED BY <3>1, <3>3, <3>4, <4>2, <4>3, <4>4, <4>5
    <3>5. CASE own[b] # o
      <4>1. m # 0 => b # tail BY <2>02, <3>5
      <4>2. d2.blk[b].next = blk[b].next BY <2>00, <3>2, <4>1
      <4>3. L2[own[b]] = L[own[b]] /\ P2[own[b]] = P[own[b]] BY <1>8, <1>9, <2>0, <2>3, <3>5
      <4> QED BY <2>0, <3>1, <3>3, <4>2, <4>3
    <3> QED BY <3>4, <3>5
  <2> QED BY <2>1, <2>2, <2>3
<1>12. Laid(d2.blk, H2, L2, P2, own2, at2) BY <1>10, <1>11 DEF Laid
<1>13. \A b \in Blocks : own[b] = Root => own2[b] = Root /\ at2[b] = at[b]
  BY <1>1, <1>oq, OwnersApart
<1> QED BY <1>8, <1>12, <1>13

\* What is freed when `first` is block k of owner o, counted from 0, and `last` its last one.
FreesFrom(d, L, P, own, at, o, k, first, last) ==
    /\ first \in Blocks /\ own[first] = o /\ at[first] = k + 1
    /\ last \in Blocks /\ own[last] = o /\ at[last] = L[o]
    /\ d.blk[first].prev = IF k = 0 THEN 0 ELSE P[o][k]
    /\ \A b : b \in ListSet(d.blk, first) <=> b \in Blocks /\ own[b] = o /\ at[b] > k

(* The list that starts in the middle of another is the rest of it. *)
LEMMA FreedBlocks ==
  ASSUME NEW d \in Disk, NEW H, NEW L, NEW P, NEW own, NEW at,
         Laid(d.blk, H, L, P, own, at),
         NEW o \in Owners, NEW k \in Nat, k < L[o],
         NEW first, first = P[o][k + 1], NEW last, last = P[o][L[o]]
  PROVE  FreesFrom(d, L, P, own, at, o, k, first, last)
<1> PICK blk : blk = d.blk OBVIOUS
<1>1. /\ L[o] \in Nat
      /\ \A i \in 1 .. L[o] : P[o][i] \in Blocks /\ own[P[o][i]] = o /\ at[P[o][i]] = i
  BY DEF Laid
<1>2. \A b \in Blocks : own[b] = o =>
        /\ at[b] \in 1 .. L[o] /\ P[o][at[b]] = b
        /\ blk[b].prev = IF at[b] = 1 THEN 0 ELSE P[o][at[b] - 1]
        /\ blk[b].next = IF at[b] = L[o] THEN 0 ELSE P[o][at[b] + 1]
  BY DEF Laid
<1> PICK m : m = L[o] - k OBVIOUS
<1>3. m \in Nat /\ m # 0 /\ k + m = L[o] BY <1>1
<1>p. PICK p : p = [i \in 1 .. m |-> P[o][k + i]] OBVIOUS
<1>4. first \in Blocks /\ own[first] = o /\ at[first] = k + 1
  <2>1. k + 1 \in 1 .. L[o] BY <1>1
  <2> QED BY <1>1, <2>1
<1>5. last \in Blocks /\ own[last] = o /\ at[last] = L[o]
  <2>1. L[o] \in 1 .. L[o] BY <1>1
  <2> QED BY <1>1, <2>1
<1>6. blk[first].prev = IF k = 0 THEN 0 ELSE P[o][k]
  <2>1. blk[first].prev = IF k + 1 = 1 THEN 0 ELSE P[o][(k + 1) - 1] BY <1>2, <1>4
  <2>2. (k + 1) - 1 = k /\ (k + 1 = 1 <=> k = 0) OBVIOUS
  <2> QED BY ONLY <2>1, <2>2
<1>7. ASSUME NEW i \in 1 .. m
      PROVE  p[i] \in Blocks /\ own[p[i]] = o /\ at[p[i]] = k + i /\ p[i] = P[o][k + i]
  <2>1. k + i \in 1 .. L[o] BY <1>3
  <2> QED BY <1>1, <1>p, <2>1
<1>8. p \in [1 .. m -> Blocks] BY <1>7, <1>p
<1>9. ASSUME NEW i \in 1 .. m, NEW j \in 1 .. m, p[i] = p[j] PROVE i = j
  <2>1. k + i = k + j BY <1>7, <1>9
  <2> QED BY <2>1
<1>10. first = p[1]
  <2>1. 1 \in 1 .. m BY <1>3
  <2> QED BY <1>7, <2>1
<1>11. blk[p[m]].next \notin Blocks
  <2>1. m \in 1 .. m BY <1>3
  <2>2. p[m] \in Blocks /\ own[p[m]] = o /\ at[p[m]] = L[o] BY <1>3, <1>7, <2>1
  <2>3. 0 \notin Blocks BY DEF Blocks
  <2> QED BY <1>2, <2>2, <2>3
<1>12. ASSUME NEW i \in 1 .. m, i # m PROVE blk[p[i]].next = p[i + 1]
  <2>1. p[i] \in Blocks /\ own[p[i]] = o /\ at[p[i]] = k + i BY <1>7
  <2>2. k + i # L[o] /\ i + 1 \in 1 .. m /\ (k + i) + 1 = k + (i + 1) BY <1>3, <1>12
  <2>3. blk[p[i]].next = P[o][(k + i) + 1] BY <1>2, <2>1, <2>2
  <2>4. p[i + 1] = P[o][k + (i + 1)] BY <1>7, <2>2
  <2> QED BY ONLY <2>2, <2>3, <2>4
<1>13. \A b : b \in ListSet(blk, first) <=> \E i \in 1 .. m : p[i] = b
  <2>1. (m = 0 => first \notin Blocks) /\ (m # 0 => first = p[1]) BY <1>3, <1>10
  <2>2. m # 0 => blk[p[m]].next \notin Blocks BY <1>11
  <2>3. m \in Nat BY <1>3
  <2> QED BY ONLY <1>8, <1>9, <1>12, <2>1, <2>2, <2>3, ListSetIs
<1>14. ASSUME NEW b PROVE b \in ListSet(blk, first) <=> b \in Blocks /\ own[b] = o /\ at[b] > k
  <2>1. ASSUME b \in Blocks, own[b] = o, at[b] > k PROVE \E i \in 1 .. m : p[i] = b
    <3> PICK i : i = at[b] - k OBVIOUS
    <3>1. at[b] \in 1 .. L[o] /\ P[o][at[b]] = b BY <1>2, <2>1
    <3>2. i \in 1 .. m /\ k + i = at[b] BY <1>3, <2>1, <3>1
    <3>3. p[i] = P[o][k + i] BY <1>7, <3>2
    <3> QED BY <3>1, <3>2, <3>3
  <2>2. ASSUME NEW i \in 1 .. m, p[i] = b PROVE b \in Blocks /\ own[b] = o /\ at[b] > k
    <3>1. k + i > k OBVIOUS
    <3> QED BY <1>7, <2>2, <3>1
  <2> QED BY <1>13, <2>1, <2>2
<1> QED BY <1>4, <1>5, <1>6, <1>14 DEF FreesFrom

\* Owner o keeps its first k blocks, and loses those from first to last.
Frees(d, H, L, P, own, at, k, o, first, last, d2, H2) ==
    /\ d \in Disk /\ Laid(d.blk, H, L, P, own, at) /\ H[FreeList] = d.freelist
    /\ o \in Owners /\ o # FreeList /\ o # Root
    /\ k \in Nat /\ k < L[o]
    /\ first = P[o][k + 1] /\ last = P[o][L[o]]
    /\ d2 = AfterFree(d, first, last)
    /\ H2[FreeList] = first
    /\ k = 0 => H2[o] \notin Blocks
    /\ k # 0 => H2[o] = H[o]
    /\ \A q \in Owners \ {FreeList, o} : H2[q] = H[q]

(* freeBlocks moves the end of the list of its owner to the front of the free list. *)
LEMMA FreeBlocks ==
  ASSUME NEW d, NEW H, NEW L, NEW P, NEW own, NEW at, NEW k, NEW o, NEW first, NEW last,
         NEW d2, NEW H2, Frees(d, H, L, P, own, at, k, o, first, last, d2, H2)
  PROVE  Rearranged(d2.blk, H2, L, own, at, o, k)
<1> SUFFICES ASSUME d \in Disk, Laid(d.blk, H, L, P, own, at), H[FreeList] = d.freelist,
                    o \in Owners, o # FreeList, o # Root,
                    k \in Nat, k < L[o],
                    first = P[o][k + 1], last = P[o][L[o]],
                    d2 = AfterFree(d, first, last),
                    H2[FreeList] = first,
                    k = 0 => H2[o] \notin Blocks,
                    k # 0 => H2[o] = H[o],
                    \A q \in Owners \ {FreeList, o} : H2[q] = H[q]
             PROVE  \E L2, P2, own2, at2 :
                      /\ Laid(d2.blk, H2, L2, P2, own2, at2)
                      /\ L2[o] = k
                      /\ \A q \in Owners \ {FreeList, o} : L2[q] = L[q]
                      /\ \A b \in Blocks : own[b] = Root => own2[b] = Root /\ at2[b] = at[b]
  BY DEF Frees, Rearranged
<1> PICK F : F = FreeList OBVIOUS
<1> PICK blk : blk = d.blk OBVIOUS
<1>f. PICK freed : freed = ListSet(d.blk, first) OBVIOUS
<1>h. PICK head : head = d.freelist OBVIOUS
<1>v. PICK before : before = d.blk[first].prev OBVIOUS
<1>1. /\ first \in Blocks /\ own[first] = o /\ at[first] = k + 1
      /\ last \in Blocks /\ own[last] = o /\ at[last] = L[o]
      /\ before = IF k = 0 THEN 0 ELSE P[o][k]
      /\ \A b : b \in freed <=> b \in Blocks /\ own[b] = o /\ at[b] > k
  <2>1. FreesFrom(d, L, P, own, at, o, k, first, last) BY FreedBlocks
  <2> QED BY <2>1, <1>f, <1>v DEF FreesFrom
<1>2. F \in Owners /\ o # F /\ TypeOf(F) = "FREE" BY OwnersApart
<1>3. \A q \in Owners :
        /\ L[q] \in Nat
        /\ L[q] = 0 => H[q] \notin Blocks
        /\ L[q] # 0 => H[q] = P[q][1]
        /\ \A i \in 1 .. L[q] : P[q][i] \in Blocks /\ own[P[q][i]] = q /\ at[P[q][i]] = i
  BY DEF Laid
<1>4. \A b \in Blocks :
        /\ own[b] \in Owners /\ at[b] \in 1 .. L[own[b]] /\ P[own[b]][at[b]] = b
        /\ blk[b].type = TypeOf(own[b])
        /\ blk[b].prev = IF at[b] = 1 THEN 0 ELSE P[own[b]][at[b] - 1]
        /\ blk[b].next = IF at[b] = L[own[b]] THEN 0 ELSE P[own[b]][at[b] + 1]
  BY DEF Laid
<1>5. /\ L[F] = 0 => head = 0
      /\ L[F] # 0 => head = P[F][1] /\ head \in Blocks /\ own[head] = F /\ at[head] = 1
  <2>1. head \in BlockId /\ head = H[F] BY <1>h DEF Disk
  <2>2. CASE L[F] = 0
    <3>1. head \notin Blocks BY <1>2, <1>3, <2>1, <2>2
    <3> QED BY <2>1, <2>2, <3>1 DEF Blocks, BlockId
  <2>3. CASE L[F] # 0
    <3>1. head = P[F][1] /\ 1 \in 1 .. L[F] BY <1>2, <1>3, <2>1, <2>3
    <3> QED BY <1>2, <1>3, <2>3, <3>1
  <2> QED BY <2>2, <2>3
<1>6. /\ k # 0 => before \in Blocks /\ own[before] = o /\ at[before] = k
      /\ k = 0 => before = 0
      /\ 0 \notin Blocks
  <2>1. k # 0 => k \in 1 .. L[o] BY <1>3
  <2> QED BY <1>1, <1>3, <2>1 DEF Blocks
<1>7. \A b \in Blocks :
        /\ d2.blk[b].type = IF b \in freed THEN "FREE" ELSE blk[b].type
        /\ d2.blk[b].prev = IF b \in freed THEN IF b = first THEN 0 ELSE blk[b].prev
                            ELSE IF b # before /\ b = head THEN last ELSE blk[b].prev
        /\ d2.blk[b].next = IF b \in freed THEN IF b = last THEN head ELSE blk[b].next
                            ELSE IF b = before THEN 0 ELSE blk[b].next
  <2>1. d2.blk = [b \in Blocks |->
                    IF b \in freed
                    THEN [type |-> "FREE",
                          prev |-> IF b = first THEN 0 ELSE blk[b].prev,
                          next |-> IF b = last THEN head ELSE blk[b].next]
                    ELSE IF b = before THEN [blk[b] EXCEPT !.next = 0]
                    ELSE IF b = head THEN [blk[b] EXCEPT !.prev = last]
                    ELSE blk[b]]
    BY <1>f, <1>h, <1>v DEF AfterFree
  <2>2. ASSUME NEW b \in Blocks
        PROVE  /\ d2.blk[b].type = IF b \in freed THEN "FREE" ELSE blk[b].type
               /\ d2.blk[b].prev = IF b \in freed THEN IF b = first THEN 0 ELSE blk[b].prev
                                   ELSE IF b # before /\ b = head THEN last ELSE blk[b].prev
               /\ d2.blk[b].next = IF b \in freed THEN IF b = last THEN head ELSE blk[b].next
                                   ELSE IF b = before THEN 0 ELSE blk[b].next
    <3> PICK hd : hd = blk[b] OBVIOUS
    <3>1. hd = [type |-> hd.type, prev |-> hd.prev, next |-> hd.next] BY DEF Disk, Header
    <3>2. CASE b \in freed
      <4>1. d2.blk[b] = [type |-> "FREE", prev |-> IF b = first THEN 0 ELSE hd.prev,
                         next |-> IF b = last THEN head ELSE hd.next]
        BY <2>1, <3>2
      <4> QED BY <3>2, <4>1
    <3>3. CASE b \notin freed /\ b = before
      <4>1. d2.blk[b] = [hd EXCEPT !.next = 0] BY <2>1, <3>3
      <4>2. d2.blk[b] = [type |-> hd.type, prev |-> hd.prev, next |-> 0] BY <3>1, <4>1
      <4> QED BY <3>3, <4>2
    <3>4. CASE b \notin freed /\ b # before /\ b = head
      <4>1. d2.blk[b] = [hd EXCEPT !.prev = last] BY <2>1, <3>4
      <4>2. d2.blk[b] = [type |-> hd.type, prev |-> last, next |-> hd.next] BY <3>1, <4>1
      <4> QED BY <3>4, <4>2
    <3>5. CASE b \notin freed /\ b # before /\ b # head
      <4>1. d2.blk[b] = hd BY <2>1, <3>5
      <4> QED BY <3>5, <4>1
    <3> QED BY <3>2, <3>3, <3>4, <3>5
  <2> QED BY <2>2
<1> PICK s : s = L[o] - k OBVIOUS
<1>8. s \in Nat /\ s # 0 /\ s + k = L[o] /\ L[F] \in Nat BY <1>2, <1>3
<1>L. PICK L2 : L2 = [q \in Owners |-> IF q = F THEN s + L[F]
                                       ELSE IF q = o THEN k ELSE L[q]]
  OBVIOUS
<1>P. PICK P2 : P2 = [q \in Owners |->
                      IF q = F
                      THEN [i \in Nat |-> IF i <= s THEN P[o][i + k] ELSE P[F][i - s]]
                      ELSE P[q]]
  OBVIOUS
<1>o. PICK own2 : own2 = [b \in Blocks |-> IF b \in freed THEN F ELSE own[b]] OBVIOUS
<1>q. PICK at2 : at2 = [b \in Blocks |-> IF b \in freed THEN at[b] - k
                                          ELSE IF own[b] = F THEN at[b] + s ELSE at[b]]
  OBVIOUS
<1>9l. L2[F] = s + L[F] /\ L2[o] = k /\ \A q \in Owners \ {F, o} : L2[q] = L[q]
  BY <1>2, <1>L
<1>9. \A q \in Owners \ {F} : P2[q] = P[q] BY <1>2, <1>P
<1>9f. \A i, j \in Nat : i <= s /\ j = i + k => P2[F][i] = P[o][j]
  <2>1. \A i \in Nat : i <= s => P2[F][i] = P[o][i + k] BY <1>2, <1>P
  <2> QED BY ONLY <2>1
<1>9n. \A i, j \in Nat : ~ (i <= s) /\ j = i - s => P2[F][i] = P[F][j]
  <2>1. \A i \in Nat : ~ (i <= s) => P2[F][i] = P[F][i - s] BY <1>2, <1>P
  <2> QED BY ONLY <2>1
<1>oq. \A b \in Blocks :
        /\ own2[b] = IF b \in freed THEN F ELSE own[b]
        /\ at2[b] = IF b \in freed THEN at[b] - k
                     ELSE IF own[b] = F THEN at[b] + s ELSE at[b]
  BY <1>o, <1>q
<1>10. ASSUME NEW q \in Owners
       PROVE  /\ L2[q] \in Nat
              /\ L2[q] = 0 => H2[q] \notin Blocks
              /\ L2[q] # 0 => H2[q] = P2[q][1]
              /\ \A i \in 1 .. L2[q] :
                    P2[q][i] \in Blocks /\ own2[P2[q][i]] = q /\ at2[P2[q][i]] = i
  <2>1. CASE q = F
    <3>1. L2[q] = s + L[F] /\ L2[q] \in Nat /\ L2[q] # 0 BY <1>8, <1>9l, <2>1
    <3>2. H2[q] = P2[q][1]
      <4>1. 1 \in Nat /\ k + 1 \in Nat /\ 1 <= s /\ k + 1 = 1 + k BY <1>8
      <4>2. P2[F][1] = P[o][k + 1] BY ONLY <1>9f, <4>1
      <4> QED BY <2>1, <4>2
    <3>3. ASSUME NEW i \in 1 .. L2[q]
          PROVE  P2[q][i] \in Blocks /\ own2[P2[q][i]] = q /\ at2[P2[q][i]] = i
      <4>0. i \in 1 .. s + L[F] BY <3>1
      <4>1. CASE i <= s
        <5>1. /\ i \in Nat /\ i + k \in Nat /\ i <= s /\ i + k = i + k
              /\ i + k \in 1 .. L[o] /\ i + k > k /\ (i + k) - k = i
          <6>1. s \in Nat /\ k \in Nat /\ s + k = L[o] /\ L[F] \in Nat /\ L[o] \in Nat BY <1>3, <1>8
          <6> QED BY ONLY <4>0, <4>1, <6>1
        <5>2. P2[F][i] = P[o][i + k] BY ONLY <1>9f, <5>1
        <5>3. P[o][i + k] \in Blocks /\ own[P[o][i + k]] = o /\ at[P[o][i + k]] = i + k
          BY <1>3, <5>1
        <5>4. P[o][i + k] \in freed BY <1>1, <5>1, <5>3
        <5>5. own2[P[o][i + k]] = F /\ at2[P[o][i + k]] = (i + k) - k BY <1>oq, <5>3, <5>4
        <5> QED BY <2>1, <5>1, <5>2, <5>3, <5>5
      <4>2. CASE ~ (i <= s)
        <5>1. /\ i \in Nat /\ i - s \in Nat /\ i - s = i - s /\ ~ (i <= s)
              /\ i - s \in 1 .. L[F] /\ (i - s) + s = i
          BY <1>8, <4>0, <4>2
        <5>2. P2[F][i] = P[F][i - s] BY ONLY <1>9n, <5>1
        <5>3. P[F][i - s] \in Blocks /\ own[P[F][i - s]] = F /\ at[P[F][i - s]] = i - s
          <6>1. \A h \in 1 .. L[F] : P[F][h] \in Blocks /\ own[P[F][h]] = F /\ at[P[F][h]] = h
            BY <1>2, <1>3
          <6> QED BY ONLY <5>1, <6>1
        <5>4. P[F][i - s] \notin freed BY <1>1, <1>2, <5>3
        <5>5. own2[P[F][i - s]] = F /\ at2[P[F][i - s]] = (i - s) + s BY <1>oq, <5>3, <5>4
        <5> QED BY <2>1, <5>1, <5>2, <5>3, <5>5
      <4> QED BY <4>1, <4>2
    <3> QED BY <3>1, <3>2, <3>3
  <2>2. CASE q = o
    <3>1. L2[q] = k /\ P2[q] = P[o] BY <1>2, <1>9, <1>9l, <2>2
    <3>2. k # 0 => H2[q] = P[o][1] BY <1>3, <2>2
    <3>3. ASSUME NEW i \in 1 .. k
          PROVE  P[o][i] \in Blocks /\ own2[P[o][i]] = o /\ at2[P[o][i]] = i
      <4>1. i \in 1 .. L[o] /\ ~ (i > k) BY <1>3
      <4>2. P[o][i] \in Blocks /\ own[P[o][i]] = o /\ at[P[o][i]] = i BY <1>3, <4>1
      <4>3. P[o][i] \notin freed BY <1>1, <4>1, <4>2
      <4> QED BY <1>2, <1>oq, <4>2, <4>3
    <3> QED BY <2>2, <3>1, <3>2, <3>3
  <2>3. CASE q # F /\ q # o
    <3>1. L2[q] = L[q] /\ P2[q] = P[q] /\ H2[q] = H[q] BY <1>9, <1>9l, <2>3
    <3>2. \A i \in 1 .. L[q] : P[q][i] \notin freed /\ own[P[q][i]] # F BY <1>1, <1>3, <2>3
    <3> QED BY <1>oq, <1>3, <2>3, <3>1, <3>2
  <2> QED BY <2>1, <2>2, <2>3

<1>11. ASSUME NEW b \in Blocks
       PROVE  /\ own2[b] \in Owners /\ at2[b] \in 1 .. L2[own2[b]] /\ P2[own2[b]][at2[b]] = b
              /\ d2.blk[b].type = TypeOf(own2[b])
              /\ d2.blk[b].prev = IF at2[b] = 1 THEN 0 ELSE P2[own2[b]][at2[b] - 1]
              /\ d2.blk[b].next = IF at2[b] = L2[own2[b]] THEN 0 ELSE P2[own2[b]][at2[b] + 1]
  <2> PICK j : j = at[b] OBVIOUS
  <2>0. /\ own[b] \in Owners /\ j \in 1 .. L[own[b]] /\ P[own[b]][j] = b
        /\ blk[b].type = TypeOf(own[b])
        /\ blk[b].prev = IF j = 1 THEN 0 ELSE P[own[b]][j - 1]
        /\ blk[b].next = IF j = L[own[b]] THEN 0 ELSE P[own[b]][j + 1]
    BY <1>4
  <2>00. /\ d2.blk[b].type = IF b \in freed THEN "FREE" ELSE blk[b].type
         /\ d2.blk[b].prev = IF b \in freed THEN IF b = first THEN 0 ELSE blk[b].prev
                             ELSE IF b # before /\ b = head THEN last ELSE blk[b].prev
         /\ d2.blk[b].next = IF b \in freed THEN IF b = last THEN head ELSE blk[b].next
                             ELSE IF b = before THEN 0 ELSE blk[b].next
    BY <1>7
  <2>000. own2[b] = (IF b \in freed THEN F ELSE own[b])
          /\ at2[b] = (IF b \in freed THEN j - k ELSE IF own[b] = F THEN j + s ELSE j)
    BY <1>oq
  <2>1. CASE b \in freed
    <3>1. own[b] = o /\ j > k /\ own2[b] = F /\ at2[b] = j - k BY <1>1, <2>000, <2>1
    <3>2. j \in 1 .. L[o] /\ P[o][j] = b BY <2>0, <3>1
    <3>3. /\ j \in Nat /\ j - k \in Nat /\ j - k <= s /\ j = (j - k) + k
          /\ j - k \in 1 .. s + L[F]
      <4>1. /\ s \in Nat /\ k \in Nat /\ s + k = L[o] /\ L[F] \in Nat /\ L[o] \in Nat
            /\ j > k /\ j \in 1 .. L[o]
        BY <1>3, <1>8, <3>1, <3>2
      <4> QED BY ONLY <4>1
    <3>4. P2[F][j - k] = b
      <4>1. P2[F][j - k] = P[o][j] BY ONLY <1>9f, <3>3
      <4> QED BY <3>2, <4>1
    <3>5. d2.blk[b].type = TypeOf(F) BY <1>2, <2>00, <2>1
    <3>6. d2.blk[b].prev = IF j - k = 1 THEN 0 ELSE P2[F][(j - k) - 1]
      <4>1. CASE j = k + 1
        <5>1. b = first /\ j - k = 1 BY <3>2, <4>1
        <5> QED BY <2>00, <2>1, <5>1
      <4>2. CASE j # k + 1
        <5>1. b # first BY <1>1, <4>2
        <5>2. /\ j # 1 /\ j - k # 1 /\ j - 1 \in Nat /\ (j - k) - 1 \in Nat
              /\ (j - k) - 1 <= s /\ j - 1 = ((j - k) - 1) + k
          <6>1. k \in Nat /\ s \in Nat BY <1>8
          <6>2. j > k BY <3>1
          <6> QED BY ONLY <3>3, <4>2, <6>1, <6>2
        <5>3. P2[F][(j - k) - 1] = P[o][j - 1] BY ONLY <1>9f, <5>2
        <5> QED BY <2>0, <2>00, <2>1, <3>1, <5>1, <5>2, <5>3
      <4> QED BY <4>1, <4>2
    <3>7. d2.blk[b].next = IF j - k = s + L[F] THEN 0 ELSE P2[F][(j - k) + 1]
      <4>1. CASE j = L[o]
        <5>1. b = last /\ j - k = s BY <1>8, <3>2, <4>1
        <5>2. d2.blk[b].next = head BY <2>00, <2>1, <5>1
        <5>3. CASE L[F] = 0
          <6>1. s + L[F] = s BY <1>8, <5>3
          <6> QED BY <1>5, <5>1, <5>2, <5>3, <6>1
        <5>4. CASE L[F] # 0
          <6>1. s # s + L[F] /\ s + 1 \in Nat /\ 1 \in Nat /\ ~ (s + 1 <= s) /\ 1 = (s + 1) - s
            BY <1>8, <5>4, SMTT(30)
          <6>2. P2[F][s + 1] = P[F][1] BY ONLY <1>9n, <6>1
          <6> QED BY <1>5, <5>1, <5>2, <5>4, <6>1, <6>2
        <5> QED BY <5>3, <5>4
      <4>2. CASE j # L[o]
        <5>1. b # last BY <1>1, <4>2
        <5>2. /\ j - k # s + L[F] /\ j + 1 \in Nat /\ (j - k) + 1 \in Nat
              /\ (j - k) + 1 <= s /\ j + 1 = ((j - k) + 1) + k
          <6>1. k \in Nat /\ s \in Nat /\ L[F] \in Nat /\ s + k = L[o] /\ L[o] \in Nat
            BY <1>3, <1>8
          <6>2. j > k BY <3>1
          <6>3. j \in 1 .. L[o] BY <3>2
          <6> QED BY ONLY <4>2, <6>1, <6>2, <6>3
        <5>3. P2[F][(j - k) + 1] = P[o][j + 1] BY ONLY <1>9f, <5>2
        <5>4. d2.blk[b].next = P[o][j + 1] BY <2>0, <2>00, <2>1, <3>1, <4>2, <5>1
        <5> QED BY ONLY <5>2, <5>3, <5>4
      <4> QED BY <4>1, <4>2
    <3> QED BY <1>2, <1>9l, <3>1, <3>3, <3>4, <3>5, <3>6, <3>7
  <2>2. CASE own[b] = F
    <3>1. b \notin freed /\ own2[b] = F /\ at2[b] = j + s BY <1>1, <1>2, <2>000, <2>2
    <3>2. j \in 1 .. L[F] /\ P[F][j] = b BY <2>0, <2>2
    <3>3. /\ j \in Nat /\ j + s \in Nat /\ ~ (j + s <= s) /\ j = (j + s) - s
          /\ j + s \in 1 .. s + L[F]
      BY <1>8, <3>2, SMTT(30)
    <3>4. P2[F][j + s] = b
      <4>1. P2[F][j + s] = P[F][j] BY ONLY <1>9n, <3>3
      <4> QED BY <3>2, <4>1
    <3>5. b # before BY <1>2, <1>6, <2>2
    <3>6. d2.blk[b].type = TypeOf(F) BY <2>0, <2>00, <2>2, <3>1
    <3>7. d2.blk[b].prev = IF j + s = 1 THEN 0 ELSE P2[F][(j + s) - 1]
      <4>0. j + s # 1 BY <1>8, <3>2
      <4>1. CASE j = 1
        <5>1. b = head
          <6>1. L[F] # 0 BY <1>8, <3>2
          <6> QED BY <1>5, <3>2, <4>1, <6>1
        <5>2. d2.blk[b].prev = last BY <2>00, <3>1, <3>5, <5>1
        <5>3. s \in Nat /\ L[o] \in Nat /\ s <= s /\ L[o] = s + k /\ (j + s) - 1 = s
          BY <1>8, <4>1
        <5>4. P2[F][s] = P[o][L[o]] BY ONLY <1>9f, <5>3
        <5> QED BY <4>0, <5>2, <5>3, <5>4
      <4>2. CASE j # 1
        <5>1. b # head
          <6>1. L[F] # 0 BY <1>8, <3>2
          <6> QED BY <1>5, <4>2, <6>1
        <5>2. d2.blk[b].prev = P[F][j - 1] BY <2>0, <2>00, <2>2, <3>1, <4>2, <5>1
        <5>3. /\ (j + s) - 1 \in Nat /\ j - 1 \in Nat /\ ~ ((j + s) - 1 <= s)
              /\ j - 1 = ((j + s) - 1) - s
          BY <1>8, <3>2, <4>2
        <5>4. P2[F][(j + s) - 1] = P[F][j - 1] BY ONLY <1>9n, <5>3
        <5> QED BY <4>0, <5>2, <5>4
      <4> QED BY <4>1, <4>2
    <3>8. d2.blk[b].next = IF j + s = s + L[F] THEN 0 ELSE P2[F][(j + s) + 1]
      <4>1. d2.blk[b].next = IF j = L[F] THEN 0 ELSE P[F][j + 1]
        BY <2>0, <2>00, <2>2, <3>1, <3>5
      <4>2. /\ (j + s) + 1 \in Nat /\ j + 1 \in Nat /\ ~ ((j + s) + 1 <= s)
            /\ j + 1 = ((j + s) + 1) - s /\ (j + s = s + L[F] <=> j = L[F])
        <5>1. s \in Nat /\ L[F] \in Nat /\ j \in Nat BY <1>8, <3>3
        <5> QED BY ONLY <5>1
      <4>3. P2[F][(j + s) + 1] = P[F][j + 1] BY ONLY <1>9n, <4>2
      <4> QED BY ONLY <4>1, <4>2, <4>3
    <3> QED BY <1>2, <1>9l, <3>1, <3>3, <3>4, <3>6, <3>7, <3>8
  <2>3. CASE own[b] # F /\ b \notin freed
    <3>1. own2[b] = own[b] /\ at2[b] = j /\ P2[own[b]] = P[own[b]]
      BY <1>9, <2>0, <2>000, <2>3
    <3>2. b # head
      <4>1. CASE L[F] = 0 BY <1>5, <1>6, <4>1
      <4>2. CASE L[F] # 0 BY <1>5, <2>3, <4>2
      <4> QED BY <4>1, <4>2
    <3>3. d2.blk[b].type = blk[b].type /\ d2.blk[b].prev = blk[b].prev BY <2>00, <2>3, <3>2
    <3>4. CASE own[b] = o
      <4>1. j \in 1 .. L[o] /\ ~ (j > k) /\ L2[o] = k BY <1>1, <1>9l, <2>0, <2>3, <3>4
      <4>2. j \in 1 .. k BY <4>1
      <4>3. d2.blk[b].next = IF j = k THEN 0 ELSE P[o][j + 1]
        <5>1. CASE j = k
          <6>1. b = before
            <7>1. k # 0 /\ b = P[o][k] BY <2>0, <3>4, <4>2, <5>1
            <7> QED BY <1>1, <7>1
          <6> QED BY <2>00, <2>3, <5>1, <6>1
        <5>2. CASE j # k
          <6>1. b # before
            <7>1. k # 0 BY <4>2
            <7> QED BY <1>6, <5>2, <7>1
          <6>2. j # L[o] BY <1>3, <4>2
          <6> QED BY <2>0, <2>00, <2>3, <3>4, <5>2, <6>1, <6>2
        <5> QED BY <5>1, <5>2
      <4> QED BY <2>0, <3>1, <3>3, <3>4, <4>1, <4>2, <4>3
    <3>5. CASE own[b] # o
      <4>1. b # before BY <1>6, <3>5
      <4>2. d2.blk[b].next = blk[b].next /\ L2[own[b]] = L[own[b]]
        BY <1>9l, <2>0, <2>00, <2>3, <3>5, <4>1
      <4> QED BY <2>0, <3>1, <3>3, <4>2
    <3> QED BY <3>4, <3>5
  <2> QED BY <2>1, <2>2, <2>3
<1>12. Laid(d2.blk, H2, L2, P2, own2, at2) BY <1>10, <1>11 DEF Laid
<1>13. \A b \in Blocks : own[b] = Root => own2[b] = Root /\ at2[b] = at[b]
  BY <1>1, <1>oq, OwnersApart
<1> QED BY <1>9l, <1>12, <1>13

-----------------------------------------------------------------------------
(* Sizes *)

(* blocksForFileSize is the least number of blocks that hold the bytes. *)
LEMMA BlockCount ==
  ASSUME NEW size \in Nat
  PROVE  LET n == blocksForFileSize(size)
         IN  /\ n \in Nat /\ (n = 0 <=> size = 0)
             /\ size <= n * BLOCK_DATA_SIZE
             /\ size # 0 => n * BLOCK_DATA_SIZE < size + BLOCK_DATA_SIZE
             /\ size # 0 => roundUp(size, BLOCK_DATA_SIZE) = BLOCK_DATA_SIZE * n
<1> PICK B : B = BLOCK_DATA_SIZE OBVIOUS
<1>1. B \in Nat \ {0} OBVIOUS
<1>2. CASE size = 0
  <2>1. blocksForFileSize(size) = 0 BY <1>2 DEF blocksForFileSize
  <2> QED BY <1>1, <1>2, <2>1
<1>3. CASE size # 0
  <2> PICK q : q = (size + (B - 1)) \div B OBVIOUS
  <2>1. size + (B - 1) \in Nat BY <1>1
  <2>2. q \in Nat /\ B * q <= size + (B - 1) /\ size + (B - 1) < B * q + B BY <1>1, <2>1
  <2>3. roundUp(size, B) = B * q BY <1>3 DEF roundUp
  <2>4. (B * q) \div B = q BY <1>1, <2>2
  <2>5. blocksForFileSize(size) = q BY <1>3, <2>3, <2>4 DEF blocksForFileSize
  <2>6. q # 0
    <3>1. B * 0 = 0 BY <1>1
    <3>2. q = 0 => size + (B - 1) < B BY <1>1, <2>2, <3>1
    <3> QED BY <1>1, <1>3, <3>2
  <2>7. B * q = q * B /\ B * q \in Nat BY <1>1, <2>2
  <2>8. size <= q * B /\ q * B < size + B
    <3> PICK x : x = B * q OBVIOUS
    <3>1. x \in Nat /\ x <= size + (B - 1) /\ size + (B - 1) < x + B BY <2>2, <2>7
    <3>2. size <= x /\ x < size + B BY <1>1, <3>1
    <3> QED BY <2>7, <3>2
  <2> QED BY <1>3, <2>2, <2>3, <2>5, <2>6, <2>8
<1> QED BY <1>2, <1>3

LEMMA CountFits ==
  ASSUME NEW size \in Nat, NEW c \in Nat, size <= c * BLOCK_DATA_SIZE
  PROVE  blocksForFileSize(size) <= c
<1> PICK B : B = BLOCK_DATA_SIZE OBVIOUS
<1> PICK n : n = blocksForFileSize(size) OBVIOUS
<1>1. B \in Nat \ {0} /\ c \in Nat OBVIOUS
<1>2. /\ n \in Nat /\ (n = 0 <=> size = 0)
      /\ size # 0 => n * B < size + B
  BY BlockCount
<1>3. CASE size = 0 BY <1>2, <1>3
<1>4. CASE size # 0
  <2>1. B * n = n * B /\ B * c = c * B /\ B * n \in Nat /\ B * c \in Nat BY <1>1, <1>2
  <2>2. size <= B * c /\ B * n < size + B BY <1>2, <1>4, <2>1
  <2>3. B * n < B * c + B
    <3> PICK x : x = B * n OBVIOUS
    <3> PICK y : y = B * c OBVIOUS
    <3>1. x \in Nat /\ y \in Nat /\ size <= y /\ x < size + B BY <2>1, <2>2
    <3>2. x < y + B BY <1>1, <3>1
    <3> QED BY <3>2
  <2>4. n <= c BY ONLY <1>1, <1>2, <2>3
  <2> QED BY <2>4
<1> QED BY <1>3, <1>4

LEMMA CountMonotone ==
  ASSUME NEW s \in Nat, NEW t \in Nat, s <= t
  PROVE  blocksForFileSize(s) <= blocksForFileSize(t)
<1> PICK n : n = blocksForFileSize(t) OBVIOUS
<1>1. n \in Nat /\ t <= n * BLOCK_DATA_SIZE BY BlockCount
<1>2. n * BLOCK_DATA_SIZE \in Nat BY <1>1
<1> PICK x : x = n * BLOCK_DATA_SIZE OBVIOUS
<1>3. s <= x BY <1>1, <1>2
<1> QED BY <1>1, <1>3, CountFits

\* The entry of a live file without blocks says that the file is empty.
SizedRight(e) == e.first_block = SFS_EMPTY_FILE_BLOCK => e.size = 0

(* The bytes of a file are within its blocks, ... *)
LEMMA FileCapacity ==
  ASSUME NEW e \in Entry, SizedRight(e)
  PROVE  /\ allocatedBlocksForFile(e) \in Nat
         /\ allocatedBlocksForFile(e) = 0 <=> e.first_block = SFS_EMPTY_FILE_BLOCK
         /\ e.size <= allocatedBlocksForFile(e) * BLOCK_DATA_SIZE
<1>1. e.size \in Nat BY DEF Entry
<1>2. CASE e.first_block = SFS_EMPTY_FILE_BLOCK
  <2>1. allocatedBlocksForFile(e) = 0 /\ e.size = 0
    BY <1>2 DEF allocatedBlocksForFile, SizedRight
  <2> QED BY <1>2, <2>1
<1>3. CASE e.first_block # SFS_EMPTY_FILE_BLOCK /\ e.size = 0
  <2>1. allocatedBlocksForFile(e) = 1 BY <1>3 DEF allocatedBlocksForFile
  <2> QED BY <1>3, <2>1
<1>4. CASE e.first_block # SFS_EMPTY_FILE_BLOCK /\ e.size # 0
  <2>1. allocatedBlocksForFile(e) = blocksForFileSize(e.size)
    BY <1>4 DEF allocatedBlocksForFile
  <2> QED BY <1>1, <1>4, <2>1, BlockCount
<1> QED BY <1>2, <1>3, <1>4

(* ... and a size that is larger but needs no more blocks needs as many. *)
LEMMA GrowthFits ==
  ASSUME NEW e \in Entry, SizedRight(e), NEW size \in Nat, e.size <= size, size # 0,
         blocksForFileSize(size) <= allocatedBlocksForFile(e)
  PROVE  /\ e.first_block # SFS_EMPTY_FILE_BLOCK
         /\ blocksForFileSize(size) = allocatedBlocksForFile(e)
<1> PICK n : n = allocatedBlocksForFile(e) OBVIOUS
<1>1. e.size \in Nat BY DEF Entry
<1>2. n \in Nat /\ (n = 0 <=> e.first_block = SFS_EMPTY_FILE_BLOCK) BY FileCapacity
<1>3. blocksForFileSize(size) <= n OBVIOUS
<1>4. blocksForFileSize(size) \in Nat /\ blocksForFileSize(size) # 0 BY BlockCount
<1>5. n # 0 /\ e.first_block # SFS_EMPTY_FILE_BLOCK BY <1>2, <1>3, <1>4
<1>6. CASE e.size = 0
  <2>1. n = 1 BY <1>5, <1>6 DEF allocatedBlocksForFile
  <2> QED BY <1>3, <1>4, <1>5, <2>1
<1>7. CASE e.size # 0
  <2>1. n = blocksForFileSize(e.size) BY <1>5, <1>7 DEF allocatedBlocksForFile
  <2>2. blocksForFileSize(e.size) <= blocksForFileSize(size) BY <1>1, CountMonotone
  <2> QED BY <1>2, <1>3, <1>4, <1>5, <2>1, <2>2
<1> QED BY <1>6, <1>7

(* What sfs_write asks the allocator for is what the new size is short of. *)
LEMMA ExtraBlocks ==
  ASSUME NEW have \in Nat, NEW end \in Nat, end > have * BLOCK_DATA_SIZE
  PROVE  LET extra == (roundUp(end, BLOCK_DATA_SIZE) - have * BLOCK_DATA_SIZE)
                        \div BLOCK_DATA_SIZE
         IN  extra \in Nat /\ have + extra = blocksForFileSize(end)
<1> PICK B : B = BLOCK_DATA_SIZE OBVIOUS
<1> PICK n : n = blocksForFileSize(end) OBVIOUS
<1>1. B \in Nat \ {0} OBVIOUS
<1>2. have * B \in Nat /\ have * B = B * have BY <1>1
<1>3. end # 0 BY <1>2
<1>4. n \in Nat /\ end <= n * B /\ roundUp(end, B) = B * n BY <1>3, BlockCount
<1>5. n * B = B * n /\ B * n \in Nat BY <1>1, <1>4
<1>6. n > have
  <2> SUFFICES ASSUME n <= have PROVE FALSE BY <1>4
  <2>1. B * n <= B * have BY <1>1, <1>4
  <2> PICK x : x = B * n OBVIOUS
  <2> PICK y : y = B * have OBVIOUS
  <2>2. x \in Nat /\ y \in Nat /\ x <= y /\ end <= x /\ end > y BY <1>2, <1>4, <1>5, <2>1
  <2> QED BY <2>2
<1>7. n - have \in Nat BY <1>4, <1>6
<1>8. B * n - have * B = B * (n - have) BY <1>1, <1>2, <1>4
<1>9. (B * (n - have)) \div B = n - have BY <1>1, <1>7
<1>10. have + (n - have) = n BY <1>4
<1> QED BY <1>4, <1>7, <1>8, <1>9, <1>10

-----------------------------------------------------------------------------
(* The disk, the head of the directory's list, and the entries of the files *)

\* The blocks of a live file are as many as its entry says.
FileFits(e, n) == Occupied(e) => SizedRight(e) /\ n = allocatedBlocksForFile(e)

\* The heads H of the lists.  E is the entry of each file that may have blocks.
Headed(H, free, root, E) ==
    H[FreeList] = free /\ H[Root] = root /\ \A o \in FileOwners : H[o] = E[o].first_block

\* The lists of the disk are laid out, and each is as long as it should be.
Arranged(d, root, E) ==
    \E H, L, P, own, at :
        /\ Headed(H, d.freelist, root, E)
        /\ Laid(d.blk, H, L, P, own, at)
        /\ \A o \in FileOwners : FileFits(E[o], L[o])

(* A file has blocks if its entry has a first block. *)
HasBlocks(E, H, L, P, o) ==
    /\ o \in Owners /\ o # FreeList /\ o # Root /\ TypeOf(o) = "FILE"
    /\ L[o] \in Nat /\ H[o] = E[o].first_block
    /\ L[o] # 0 <=> E[o].first_block \in Blocks
    /\ L[o] # 0 => E[o].first_block = P[o][1]
    /\ Occupied(E[o]) => /\ SizedRight(E[o]) /\ L[o] = allocatedBlocksForFile(E[o])
                         /\ L[o] = 0 <=> E[o].first_block = SFS_EMPTY_FILE_BLOCK

LEMMA FileBlocks ==
  ASSUME NEW blk, NEW free, NEW root, NEW E \in [FileOwners -> Entry],
         NEW H, NEW L, NEW P, NEW own, NEW at,
         Headed(H, free, root, E), Laid(blk, H, L, P, own, at),
         NEW o \in FileOwners, FileFits(E[o], L[o])
  PROVE  HasBlocks(E, H, L, P, o)
<1>1. /\ o \in Owners /\ H[o] = E[o].first_block
      /\ o # FreeList /\ o # Root /\ TypeOf(o) = "FILE"
  BY OwnersApart DEF Headed
<1>2. /\ L[o] \in Nat /\ (L[o] = 0 => H[o] \notin Blocks) /\ (L[o] # 0 => H[o] = P[o][1])
      /\ \A i \in 1 .. L[o] : P[o][i] \in Blocks
  BY <1>1 DEF Laid
<1>3. L[o] # 0 => P[o][1] \in Blocks
  <2>1. L[o] # 0 => 1 \in 1 .. L[o] BY <1>2
  <2> QED BY <1>2, <2>1
<1>4. ASSUME Occupied(E[o])
      PROVE  /\ SizedRight(E[o]) /\ L[o] = allocatedBlocksForFile(E[o])
             /\ L[o] = 0 <=> E[o].first_block = SFS_EMPTY_FILE_BLOCK
  <2>1. SizedRight(E[o]) /\ L[o] = allocatedBlocksForFile(E[o]) BY <1>4 DEF FileFits
  <2>2. E[o] \in Entry OBVIOUS
  <2> QED BY <2>1, <2>2, FileCapacity
<1> QED BY <1>1, <1>2, <1>3, <1>4 DEF HasBlocks

(* The heads may change as long as they are those of the paths. *)
LEMMA LaidAgain ==
  ASSUME NEW blk, NEW H, NEW L, NEW P, NEW own, NEW at, Laid(blk, H, L, P, own, at),
         NEW H2,
         \A q \in Owners :
            (L[q] = 0 => H2[q] \notin Blocks) /\ (L[q] # 0 => H2[q] = P[q][1])
  PROVE  Laid(blk, H2, L, P, own, at)
BY DEF Laid

\* The heads of a state.
LEMMA HeadsExist ==
  ASSUME NEW free, NEW root, NEW E
  PROVE  \E H : Headed(H, free, root, E)
<1> DEFINE H == [o \in Owners |-> IF o = FreeList THEN free ELSE IF o = Root THEN root
                                  ELSE E[o].first_block]
<1>1. Headed(H, free, root, E) BY OwnersApart DEF Headed
<1> QED BY <1>1

(* An entry changes and no block does: the file keeps its blocks, or has none. *)
LEMMA EntryChanged ==
  ASSUME NEW d, NEW root, NEW E \in [FileOwners -> Entry], Arranged(d, root, E),
         NEW o \in FileOwners, NEW E2 \in [FileOwners -> Entry],
         \A q \in FileOwners \ {o} : E2[q] = E[q],
         \/ E2[o].first_block = E[o].first_block
         \/ E2[o].first_block \notin Blocks /\ E[o].first_block \notin Blocks,
         Occupied(E2[o]) => SizedRight(E2[o]),
         E2[o].first_block \in Blocks =>
            Occupied(E[o]) /\ allocatedBlocksForFile(E2[o]) = allocatedBlocksForFile(E[o])
  PROVE  Arranged(d, root, E2)
<1>1. PICK H, L, P, own, at :
        /\ Headed(H, d.freelist, root, E) /\ Laid(d.blk, H, L, P, own, at)
        /\ \A q \in FileOwners : FileFits(E[q], L[q])
  BY DEF Arranged
<1>2. PICK H2 : Headed(H2, d.freelist, root, E2) BY HeadsExist
<1>3. /\ H2[FreeList] = H[FreeList] /\ H2[Root] = H[Root]
      /\ \A q \in FileOwners : H[q] = E[q].first_block /\ H2[q] = E2[q].first_block
  BY <1>1, <1>2 DEF Headed
<1>4. L[o] \in Nat /\ (L[o] # 0 <=> E[o].first_block \in Blocks)
  <2>1. FileFits(E[o], L[o]) BY <1>1
  <2>2. HasBlocks(E, H, L, P, o) BY <1>1, <2>1, FileBlocks
  <2> QED BY <2>2 DEF HasBlocks
<1>5. Laid(d.blk, H2, L, P, own, at)
  <2>1. ASSUME NEW q \in Owners
        PROVE  (L[q] = 0 => H2[q] \notin Blocks) /\ (L[q] # 0 => H2[q] = P[q][1])
    <3>1. (L[q] = 0 => H[q] \notin Blocks) /\ (L[q] # 0 => H[q] = P[q][1]) BY <1>1 DEF Laid
    <3>2. CASE q \in FileOwners \ {o}
      <4>1. H2[q] = H[q] BY <1>3, <3>2
      <4> QED BY <3>1, <4>1
    <3>3. CASE q = o
      <4>1. H[q] = E[o].first_block /\ H2[q] = E2[o].first_block BY <1>3, <3>3
      <4> QED BY <1>4, <3>1, <3>3, <4>1
    <3>4. CASE q = FreeList \/ q = Root BY <1>3, <3>1, <3>4
    <3> QED BY <3>2, <3>3, <3>4 DEF Owners
  <2> QED BY ONLY <1>1, <2>1, LaidAgain
<1>6. ASSUME NEW q \in FileOwners PROVE FileFits(E2[q], L[q])
  <2>1. CASE q # o BY <1>1, <2>1
  <2>2. CASE q = o
    <3> SUFFICES ASSUME Occupied(E2[o])
                 PROVE  SizedRight(E2[o]) /\ L[o] = allocatedBlocksForFile(E2[o])
      BY <2>2 DEF FileFits
    <3>1. SizedRight(E2[o]) OBVIOUS
    <3>2. CASE E2[o].first_block \in Blocks
      <4>1. FileFits(E[o], L[o]) BY <1>1
      <4> QED BY <3>1, <3>2, <4>1 DEF FileFits
    <3>3. CASE E2[o].first_block \notin Blocks
      <4>1. L[o] = 0 BY <1>4, <3>3
      <4>2. E2[o] \in Entry OBVIOUS
      <4>3. E2[o].first_block = SFS_EMPTY_FILE_BLOCK
        BY <3>3, <4>2 DEF Entry, Occupied, BlockId, Blocks
      <4> QED BY <3>1, <4>1, <4>3 DEF allocatedBlocksForFile
    <3> QED BY <3>2, <3>3
  <2> QED BY <2>1, <2>2
<1> QED BY <1>2, <1>5, <1>6 DEF Arranged

\* What is in the directory stays there, and each of its blocks is followed by the one
\* that followed it.
DirsKept(blk, blk2) ==
    \A b \in Blocks : blk[b].type = "DIR" =>
        blk2[b].type = "DIR" /\ (blk[b].next # 0 => blk2[b].next = blk[b].next)

RootKept(own, at, own2, at2) ==
    \A b \in Blocks : own[b] = Root => own2[b] = Root /\ at2[b] = at[b]

LEMMA DirsStay ==
  ASSUME NEW blk, NEW H, NEW L, NEW P, NEW own, NEW at, Laid(blk, H, L, P, own, at),
         NEW blk2, NEW H2, NEW L2, NEW P2, NEW own2, NEW at2,
         Laid(blk2, H2, L2, P2, own2, at2), RootKept(own, at, own2, at2)
  PROVE  DirsKept(blk, blk2)
<1> SUFFICES ASSUME NEW b \in Blocks, blk[b].type = "DIR"
             PROVE  blk2[b].type = "DIR" /\ (blk[b].next # 0 => blk2[b].next = blk[b].next)
  BY DEF DirsKept
<1>1. blk[b].type = TypeOf(own[b]) BY DEF Laid
<1>2. blk2[b].type = TypeOf(own2[b]) BY DEF Laid
<1>3. own[b] = Root BY <1>1 DEF TypeOf
<1>4. own2[b] = Root /\ at2[b] = at[b] BY <1>3 DEF RootKept
<1>5. blk2[b].type = "DIR" BY <1>2, <1>4, OwnersApart
<1>6. ASSUME blk[b].next # 0 PROVE blk2[b].next = blk[b].next
  <2> PICK k : k = at[b] OBVIOUS
  <2>c. PICK c : c = blk[b].next OBVIOUS
  <2>1. Root \in Owners BY OwnersApart
  <2>2. L[Root] \in Nat /\ L2[Root] \in Nat BY <2>1 DEF Laid
  <2>3. k \in 1 .. L[Root] /\ blk[b].next = IF k = L[Root] THEN 0 ELSE P[Root][k + 1]
    BY <1>3 DEF Laid
  <2>4. k # L[Root] /\ c = P[Root][k + 1] BY <1>6, <2>3, <2>c
  <2>5. k + 1 \in 1 .. L[Root] BY <2>2, <2>3, <2>4
  <2>6. c \in Blocks /\ own[c] = Root /\ at[c] = k + 1 BY <2>1, <2>4, <2>5 DEF Laid
  <2>7. own2[c] = Root /\ at2[c] = k + 1 BY <2>6 DEF RootKept
  <2>8. k + 1 \in 1 .. L2[Root] /\ P2[Root][k + 1] = c BY <2>6, <2>7 DEF Laid
  <2>9. k # L2[Root] BY <2>2, <2>3, <2>8
  <2>10. blk2[b].next = IF k = L2[Root] THEN 0 ELSE P2[Root][k + 1] BY <1>4 DEF Laid
  <2> QED BY <2>8, <2>9, <2>10, <2>c
<1> QED BY <1>5, <1>6

\* From d to d2 the file o of the entries E takes the n free blocks up to last, behind
\* its last block tail, and has the entry that E2 says.
Grows(d, E, o, n, last, tail, d2, E2) ==
    /\ n \in Nat /\ last \in LastToAllocate(d, n)
    /\ E \in [FileOwners -> Entry] /\ E2 \in [FileOwners -> Entry]
    /\ o \in FileOwners /\ Occupied(E[o])
    /\ \A q \in FileOwners \ {o} : E2[q] = E[q]
    /\ IF E[o].first_block = SFS_EMPTY_FILE_BLOCK
       THEN /\ d2 = AfterAllocate(d, "FILE", last)
            /\ E2[o].first_block = d.freelist
       ELSE /\ tail \in LastOf(d.blk, E[o].first_block)
            /\ d2 = AfterAttach(AfterAllocate(d, "FILE", last), tail, d.freelist)
            /\ E2[o].first_block = E[o].first_block
    /\ FileFits(E2[o], allocatedBlocksForFile(E[o]) + n)

(* A file grows by the first blocks of the free list. *)
LEMMA GrowArranged ==
  ASSUME NEW d \in Disk, NEW root, NEW E, Arranged(d, root, E),
         NEW o, NEW n, NEW last, NEW tail, NEW d2, NEW E2,
         Grows(d, E, o, n, last, tail, d2, E2)
  PROVE  Arranged(d2, root, E2) /\ DirsKept(d.blk, d2.blk)
<1>0. /\ n \in Nat /\ last \in LastToAllocate(d, n)
      /\ E \in [FileOwners -> Entry] /\ E2 \in [FileOwners -> Entry]
      /\ o \in FileOwners /\ Occupied(E[o])
      /\ \A q \in FileOwners \ {o} : E2[q] = E[q]
      /\ E[o].first_block = SFS_EMPTY_FILE_BLOCK =>
            d2 = AfterAllocate(d, "FILE", last) /\ E2[o].first_block = d.freelist
      /\ E[o].first_block # SFS_EMPTY_FILE_BLOCK =>
            /\ tail \in LastOf(d.blk, E[o].first_block)
            /\ d2 = AfterAttach(AfterAllocate(d, "FILE", last), tail, d.freelist)
            /\ E2[o].first_block = E[o].first_block
      /\ FileFits(E2[o], allocatedBlocksForFile(E[o]) + n)
  BY DEF Grows
<1>1. PICK H, L, P, own, at :
        /\ Headed(H, d.freelist, root, E) /\ Laid(d.blk, H, L, P, own, at)
        /\ \A q \in FileOwners : FileFits(E[q], L[q])
  BY DEF Arranged
<1>2. PICK H2 : Headed(H2, d2.freelist, root, E2) BY HeadsExist
<1>3. /\ o \in Owners /\ o # FreeList /\ o # Root /\ TypeOf(o) = "FILE"
      /\ L[o] \in Nat /\ H[o] = E[o].first_block /\ L[o] = allocatedBlocksForFile(E[o])
      /\ L[o] = 0 <=> E[o].first_block = SFS_EMPTY_FILE_BLOCK
  <2>1. FileFits(E[o], L[o]) BY <1>0, <1>1
  <2>2. E \in [FileOwners -> Entry] /\ o \in FileOwners /\ Occupied(E[o]) BY <1>0
  <2>3. HasBlocks(E, H, L, P, o) BY ONLY <1>1, <2>1, <2>2, FileBlocks
  <2> QED BY ONLY <2>2, <2>3 DEF HasBlocks
<1>4. /\ H[FreeList] = d.freelist /\ H2[FreeList] = d2.freelist /\ H2[o] = E2[o].first_block
      /\ \A q \in Owners \ {FreeList, o} : H2[q] = H[q]
  BY <1>0, <1>1, <1>2 DEF Headed, Owners
<1>5. L[o] # 0 => tail = P[o][L[o]]
  <2>1. \A b : b \in LastOf(d.blk, H[o]) <=> L[o] # 0 /\ b = P[o][L[o]]
    BY ONLY <1>1, <1>3, LaidLists
  <2> QED BY <1>0, <1>3, <2>1
<1>6. /\ L[o] = 0 => d2 = AfterAllocate(d, TypeOf(o), last)
      /\ L[o] # 0 => d2 = AfterAttach(AfterAllocate(d, TypeOf(o), last), tail, d.freelist)
      /\ L[o] = 0 => H2[o] = d.freelist
      /\ L[o] # 0 => H2[o] = H[o]
  BY <1>0, <1>3, <1>4
<1>7. PICK L2, P2, own2, at2 :
        /\ Laid(d2.blk, H2, L2, P2, own2, at2)
        /\ L2[o] = L[o] + n
        /\ \A q \in Owners \ {FreeList, o} : L2[q] = L[q]
        /\ \A b \in Blocks : own[b] = Root => own2[b] = Root /\ at2[b] = at[b]
  <2>1. Takes(d, H, L, P, own, at, n, last, o, tail, d2, H2)
    BY <1>0, <1>1, <1>3, <1>4, <1>5, <1>6 DEF Takes
  <2>2. Rearranged(d2.blk, H2, L, own, at, o, L[o] + n) BY ONLY <2>1, TakeBlocks
  <2> QED BY ONLY <2>2 DEF Rearranged
<1>8. ASSUME NEW q \in FileOwners PROVE FileFits(E2[q], L2[q])
  <2>1. CASE q = o BY <1>0, <1>3, <1>7, <2>1
  <2>2. CASE q # o
    <3>1. q \in Owners \ {FreeList, o} BY <2>2, OwnersApart
    <3> QED BY <1>0, <1>1, <1>7, <2>2, <3>1
  <2> QED BY <2>1, <2>2
<1>9. Arranged(d2, root, E2) BY <1>2, <1>7, <1>8 DEF Arranged
<1>10. DirsKept(d.blk, d2.blk)
  <2>1. RootKept(own, at, own2, at2) BY <1>7 DEF RootKept
  <2> QED BY ONLY <1>1, <1>7, <2>1, DirsStay
<1> QED BY <1>9, <1>10

(* The blocks of a file from the (k + 1)st on are freed. *)
LEMMA FreeArranged ==
  ASSUME NEW d \in Disk, NEW root, NEW E \in [FileOwners -> Entry], Arranged(d, root, E),
         NEW o \in FileOwners, Occupied(E[o]),
         NEW k \in Nat, k < allocatedBlocksForFile(E[o]),
         NEW first,
         \/ first \in fileBlockAt(d.blk, E[o].first_block, k)
         \/ k = 0 /\ first = E[o].first_block,
         NEW last \in LastOf(d.blk, E[o].first_block),
         NEW d2, d2 = AfterFree(d, first, last),
         NEW E2 \in [FileOwners -> Entry], \A q \in FileOwners \ {o} : E2[q] = E[q],
         k = 0 => E2[o].first_block \notin Blocks,
         k # 0 => E2[o].first_block = E[o].first_block,
         FileFits(E2[o], k)
  PROVE  Arranged(d2, root, E2) /\ DirsKept(d.blk, d2.blk)
<1>1. PICK H, L, P, own, at :
        /\ Headed(H, d.freelist, root, E) /\ Laid(d.blk, H, L, P, own, at)
        /\ \A q \in FileOwners : FileFits(E[q], L[q])
  BY DEF Arranged
<1>2. PICK H2 : Headed(H2, d2.freelist, root, E2) BY HeadsExist
<1>3. /\ o \in Owners /\ o # FreeList /\ o # Root
      /\ L[o] \in Nat /\ H[o] = E[o].first_block /\ L[o] = allocatedBlocksForFile(E[o])
      /\ L[o] # 0 => E[o].first_block = P[o][1]
  <2>1. FileFits(E[o], L[o]) BY <1>1
  <2>2. E \in [FileOwners -> Entry] /\ o \in FileOwners /\ Occupied(E[o]) OBVIOUS
  <2>3. HasBlocks(E, H, L, P, o) BY ONLY <1>1, <2>1, <2>2, FileBlocks
  <2> QED BY ONLY <2>2, <2>3 DEF HasBlocks
<1>4. k \in Nat /\ k < L[o] BY <1>3
<1>5. first = P[o][k + 1] /\ last = P[o][L[o]]
  <2>1. /\ \A i \in Nat : \A b :
              b \in fileBlockAt(d.blk, H[o], i) <=> i < L[o] /\ b = P[o][i + 1]
        /\ \A b : b \in LastOf(d.blk, H[o]) <=> L[o] # 0 /\ b = P[o][L[o]]
    BY ONLY <1>1, <1>3, LaidLists, SMTT(30)
  <2>2. CASE first \in fileBlockAt(d.blk, E[o].first_block, k) BY <1>3, <2>1, <2>2
  <2>3. CASE k = 0 /\ first = E[o].first_block
    <3>1. 0 + 1 = 1 /\ L[o] # 0 BY <1>3, <1>4
    <3> QED BY <1>3, <2>1, <2>3, <3>1
  <2> QED BY <2>2, <2>3
<1>6. /\ H[FreeList] = d.freelist /\ H2[FreeList] = first
      /\ k = 0 => H2[o] \notin Blocks
      /\ k # 0 => H2[o] = H[o]
      /\ \A q \in Owners \ {FreeList, o} : H2[q] = H[q]
  <2>1. d2.freelist = first BY DEF AfterFree
  <2> QED BY <1>1, <1>2, <1>3, <2>1 DEF Headed, Owners
<1>7. PICK L2, P2, own2, at2 :
        /\ Laid(d2.blk, H2, L2, P2, own2, at2)
        /\ L2[o] = k
        /\ \A q \in Owners \ {FreeList, o} : L2[q] = L[q]
        /\ \A b \in Blocks : own[b] = Root => own2[b] = Root /\ at2[b] = at[b]
  <2>1. Frees(d, H, L, P, own, at, k, o, first, last, d2, H2)
      BY <1>1, <1>3, <1>4, <1>5, <1>6 DEF Frees
  <2>2. Rearranged(d2.blk, H2, L, own, at, o, k) BY ONLY <2>1, FreeBlocks
  <2> QED BY ONLY <2>2 DEF Rearranged
<1>8. ASSUME NEW q \in FileOwners PROVE FileFits(E2[q], L2[q])
  <2>1. CASE q = o BY <1>7, <2>1
  <2>2. CASE q # o
    <3>1. q \in Owners \ {FreeList, o} BY <2>2, OwnersApart
    <3> QED BY <1>1, <1>7, <2>2, <3>1
  <2> QED BY <2>1, <2>2
<1>9. Arranged(d2, root, E2) BY <1>2, <1>7, <1>8 DEF Arranged
<1>10. DirsKept(d.blk, d2.blk)
  <2>1. RootKept(own, at, own2, at2) BY <1>7 DEF RootKept
  <2> QED BY ONLY <1>1, <1>7, <2>1, DirsStay
<1> QED BY <1>9, <1>10

(* The blocks of one file become those of another, which had none: what happens *)
(* when an open file takes over the entry of the name that it loses.            *)
LEMMA MoveArranged ==
  ASSUME NEW d, NEW root, NEW E \in [FileOwners -> Entry], Arranged(d, root, E),
         NEW s \in FileOwners, NEW o \in FileOwners, s # o,
         E[o].first_block \notin Blocks,
         NEW E2 \in [FileOwners -> Entry], \A q \in FileOwners \ {s, o} : E2[q] = E[q],
         E2[o] = E[s], ~ Occupied(E2[s])
  PROVE  Arranged(d, root, E2)
<1>1. PICK H, L, P, own, at :
        /\ Headed(H, d.freelist, root, E) /\ Laid(d.blk, H, L, P, own, at)
        /\ \A q \in FileOwners : FileFits(E[q], L[q])
  BY DEF Arranged
<1>2. PICK H2 : Headed(H2, d.freelist, root, E2) BY HeadsExist
<1>3. ASSUME NEW q \in FileOwners PROVE HasBlocks(E, H, L, P, q)
  <2>1. FileFits(E[q], L[q]) BY <1>1
  <2> QED BY <1>1, <2>1, FileBlocks
<1>4. L[o] = 0 /\ E2[s].first_block \notin Blocks
  <2>1. HasBlocks(E, H, L, P, o) BY <1>3
  <2> QED BY <2>1 DEF HasBlocks, Occupied, Blocks
<1>5. /\ s \in Owners /\ o \in Owners /\ TypeOf(s) = "FILE" /\ TypeOf(o) = "FILE"
      /\ H2[o] = H[s] /\ H2[s] \notin Blocks
      /\ \A q \in Owners \ {s, o} : H2[q] = H[q]
  <2>1. H2[o] = H[s] /\ H2[s] \notin Blocks BY <1>1, <1>2, <1>4 DEF Headed
  <2>2. \A q \in Owners \ {s, o} : H2[q] = H[q] BY <1>1, <1>2 DEF Headed, Owners
  <2> QED BY <2>1, <2>2, OwnersApart
<1>l. PICK L2 : \A q \in Owners : L2[q] = IF q = s THEN 0 ELSE IF q = o THEN L[s] ELSE L[q]
  <2> DEFINE f == [q \in Owners |-> IF q = s THEN 0 ELSE IF q = o THEN L[s] ELSE L[q]]
  <2>1. \A q \in Owners : f[q] = IF q = s THEN 0 ELSE IF q = o THEN L[s] ELSE L[q] OBVIOUS
  <2> QED BY <2>1
<1>p. PICK P2 : \A q \in Owners : P2[q] = IF q = o THEN P[s] ELSE P[q]
  <2> DEFINE f == [q \in Owners |-> IF q = o THEN P[s] ELSE P[q]]
  <2>1. \A q \in Owners : f[q] = IF q = o THEN P[s] ELSE P[q] OBVIOUS
  <2> QED BY <2>1
<1>o. PICK own2 : \A b \in Blocks : own2[b] = IF own[b] = s THEN o ELSE own[b]
  <2> DEFINE f == [b \in Blocks |-> IF own[b] = s THEN o ELSE own[b]]
  <2>1. \A b \in Blocks : f[b] = IF own[b] = s THEN o ELSE own[b] OBVIOUS
  <2> QED BY <2>1
<1>6. /\ L2[s] = 0 /\ L2[o] = L[s] /\ P2[o] = P[s]
      /\ \A q \in Owners \ {s, o} : L2[q] = L[q] /\ P2[q] = P[q]
  BY <1>5, <1>l, <1>p
<1>7. \A q \in Owners :
        /\ L[q] \in Nat
        /\ L[q] = 0 => H[q] \notin Blocks
        /\ L[q] # 0 => H[q] = P[q][1]
        /\ \A i \in 1 .. L[q] : P[q][i] \in Blocks /\ own[P[q][i]] = q /\ at[P[q][i]] = i
  BY <1>1 DEF Laid
<1>8. \A b \in Blocks :
        /\ own[b] \in Owners /\ at[b] \in 1 .. L[own[b]] /\ P[own[b]][at[b]] = b
        /\ d.blk[b].type = TypeOf(own[b])
        /\ d.blk[b].prev = IF at[b] = 1 THEN 0 ELSE P[own[b]][at[b] - 1]
        /\ d.blk[b].next = IF at[b] = L[own[b]] THEN 0 ELSE P[own[b]][at[b] + 1]
  BY <1>1 DEF Laid
<1>9. ASSUME NEW q \in Owners
      PROVE  /\ L2[q] \in Nat
             /\ L2[q] = 0 => H2[q] \notin Blocks
             /\ L2[q] # 0 => H2[q] = P2[q][1]
             /\ \A i \in 1 .. L2[q] :
                    P2[q][i] \in Blocks /\ own2[P2[q][i]] = q /\ at[P2[q][i]] = i
  <2>1. CASE q = s
    <3>1. 1 .. 0 = {} OBVIOUS
    <3> QED BY <1>5, <1>6, <2>1, <3>1
  <2>2. CASE q = o
    <3>1. /\ L[s] \in Nat /\ (L[s] = 0 => H[s] \notin Blocks) /\ (L[s] # 0 => H[s] = P[s][1])
          /\ \A i \in 1 .. L[s] :
                P[s][i] \in Blocks /\ own2[P[s][i]] = o /\ at[P[s][i]] = i
      BY <1>5, <1>7, <1>o
    <3> QED BY <1>5, <1>6, <2>2, <3>1
  <2>3. CASE q # s /\ q # o
    <3>1. /\ L[q] \in Nat /\ (L[q] = 0 => H[q] \notin Blocks) /\ (L[q] # 0 => H[q] = P[q][1])
          /\ \A i \in 1 .. L[q] :
                P[q][i] \in Blocks /\ own2[P[q][i]] = q /\ at[P[q][i]] = i
      BY <1>7, <1>o, <2>3
    <3>2. L2[q] = L[q] /\ P2[q] = P[q] /\ H2[q] = H[q] BY <1>5, <1>6, <2>3
    <3> QED BY <3>1, <3>2
  <2> QED BY <2>1, <2>2, <2>3
<1>10. ASSUME NEW b \in Blocks
       PROVE  /\ own2[b] \in Owners /\ at[b] \in 1 .. L2[own2[b]] /\ P2[own2[b]][at[b]] = b
              /\ d.blk[b].type = TypeOf(own2[b])
              /\ d.blk[b].prev = IF at[b] = 1 THEN 0 ELSE P2[own2[b]][at[b] - 1]
              /\ d.blk[b].next = IF at[b] = L2[own2[b]] THEN 0 ELSE P2[own2[b]][at[b] + 1]
  <2>1. own[b] # o
    <3>1. own[b] = o => at[b] \in 1 .. 0 BY <1>4, <1>8
    <3>2. 1 .. 0 = {} OBVIOUS
    <3> QED BY <3>1, <3>2
  <2>2. /\ own2[b] \in Owners /\ L2[own2[b]] = L[own[b]] /\ P2[own2[b]] = P[own[b]]
        /\ TypeOf(own2[b]) = TypeOf(own[b])
    BY <1>5, <1>6, <1>8, <1>o, <2>1
  <2> QED BY <1>8, <2>2
<1>11. Laid(d.blk, H2, L2, P2, own2, at) BY <1>9, <1>10 DEF Laid
<1>12. ASSUME NEW q \in FileOwners PROVE FileFits(E2[q], L2[q])
  <2>1. CASE q = s BY <2>1 DEF FileFits
  <2>2. CASE q = o
    <3>1. FileFits(E[s], L[s]) BY <1>1
    <3> QED BY <1>6, <2>2, <3>1
  <2>3. CASE q # s /\ q # o
    <3>1. q \in Owners \ {s, o} BY <2>3, OwnersApart
    <3> QED BY <1>1, <1>6, <2>3, <3>1
  <2> QED BY <2>1, <2>2, <2>3
<1> QED BY <1>2, <1>11, <1>12 DEF Arranged

(* The directory grows by the first block of the free list. *)
LEMMA ExpandArranged ==
  ASSUME NEW d \in Disk, NEW root \in BlockId, NEW E \in [FileOwners -> Entry],
         Arranged(d, root, E),
         NEW new \in LastToAllocate(d, 1), NEW last, root # 0 => last \in LastOf(d.blk, root),
         NEW d2,
         root = 0 => d2 = [AfterAllocate(d, "DIR", new) EXCEPT !.blk[new].prev = 0],
         root # 0 => d2 = AfterAttach(AfterAllocate(d, "DIR", new), last, new),
         NEW root2, root = 0 => root2 = new, root # 0 => root2 = root
  PROVE  /\ Arranged(d2, root2, E) /\ DirsKept(d.blk, d2.blk)
         /\ new \in Blocks /\ d2.blk[new].type = "DIR" /\ d.blk[new].type = "FREE"
<1>1. PICK H, L, P, own, at :
        /\ Headed(H, d.freelist, root, E) /\ Laid(d.blk, H, L, P, own, at)
        /\ \A q \in FileOwners : FileFits(E[q], L[q])
  BY DEF Arranged
<1>2. PICK H2 : Headed(H2, d2.freelist, root2, E) BY HeadsExist
<1>3. /\ Root \in Owners /\ Root # FreeList /\ TypeOf(Root) = "DIR"
      /\ FreeList \in Owners
      /\ H[FreeList] = d.freelist /\ H[Root] = root
  BY <1>1, OwnersApart DEF Headed
<1>4. /\ \A q \in Owners :
            /\ L[q] \in Nat
            /\ L[q] = 0 => H[q] \notin Blocks
            /\ L[q] # 0 => H[q] = P[q][1]
            /\ \A i \in 1 .. L[q] : P[q][i] \in Blocks /\ own[P[q][i]] = q /\ at[P[q][i]] = i
      /\ \A b \in Blocks : d.blk[b].prev = IF at[b] = 1 THEN 0 ELSE P[own[b]][at[b] - 1]
  BY <1>1 DEF Laid
<1>5. L[Root] = 0 <=> root = 0
  <2>1. L[Root] # 0 => 1 \in 1 .. L[Root] BY <1>3, <1>4
  <2>2. L[Root] # 0 => root \in Blocks BY <1>3, <1>4, <2>1
  <2>3. L[Root] = 0 => root \notin Blocks BY <1>3, <1>4
  <2> QED BY <2>2, <2>3 DEF BlockId, Blocks
<1>6. /\ new = d.freelist /\ new = P[FreeList][1] /\ L[FreeList] # 0 /\ new \in Blocks
      /\ own[new] = FreeList /\ new \in ListSet(Cut(d.blk, new), d.freelist)
  <2>1. 1 \in Nat /\ d \in Disk /\ new \in LastToAllocate(d, 1) OBVIOUS
  <2>2. TakesFirst(d, L, P, own, at, 1, new) BY ONLY <1>1, <1>3, <2>1, TakenBlocks
  <2>3. L[FreeList] \in Nat BY <1>3, <1>4
  <2>4. /\ new = d.freelist /\ new = P[FreeList][1] /\ L[FreeList] # 0 /\ new \in Blocks
        /\ \A b : b \in ListSet(Cut(d.blk, new), d.freelist)
                  <=> b \in Blocks /\ own[b] = FreeList /\ at[b] <= 1
    BY <1>3, <2>2, <2>3 DEF TakesFirst
  <2>5. own[new] = FreeList /\ at[new] = 1
    <3>1. 1 \in 1 .. L[FreeList] BY <2>3, <2>4
    <3> QED BY <1>3, <1>4, <2>4, <3>1
  <2> QED BY <2>4, <2>5
<1>7. root = 0 => d2 = AfterAllocate(d, "DIR", new)
  <2> SUFFICES ASSUME root = 0 PROVE d2 = AfterAllocate(d, "DIR", new) OBVIOUS
  <2>1. PICK a : a = AfterAllocate(d, "DIR", new) OBVIOUS
  <2>2. d.blk[new].prev = 0
    <3>1. 1 \in 1 .. L[FreeList] BY <1>3, <1>4, <1>6
    <3>2. at[new] = 1 BY <1>3, <1>4, <1>6, <3>1
    <3> QED BY <1>4, <1>6, <3>2
  <2>3. a.blk[new].prev = 0
    <3>1. PICK taken : taken = ListSet([d.blk EXCEPT ![new].next = 0], d.freelist) OBVIOUS
    <3>2. a.blk[new] = IF new \in taken
                       THEN [type |-> "DIR", prev |-> d.blk[new].prev,
                             next |-> IF new = new THEN 0 ELSE d.blk[new].next]
                       ELSE IF new = d.blk[new].next THEN [d.blk[new] EXCEPT !.prev = 0]
                       ELSE d.blk[new]
      BY ONLY <1>6, <2>1, <3>1 DEF AfterAllocate
    <3>3. d.blk[new] \in Header BY <1>6 DEF Disk
    <3>4. [d.blk[new] EXCEPT !.prev = 0].prev = 0 BY <3>3 DEF Header
    <3>5. CASE new \in taken BY <2>2, <3>2, <3>5
    <3>6. CASE new \notin taken BY <2>2, <3>2, <3>4, <3>6
    <3> QED BY <3>5, <3>6
  <2>4. a \in Disk BY <1>6, <2>1, AfterAllocateType
  <2>5. d2 = [a EXCEPT !.blk[new].prev = 0] BY <2>1
  <2>6. d2 = a
    <3>1. a = [freelist |-> a.freelist, blk |-> a.blk] BY <2>4 DEF Disk
    <3>2. a.blk[new] = [type |-> a.blk[new].type, prev |-> a.blk[new].prev,
                        next |-> a.blk[new].next]
      BY <1>6, <2>4 DEF Disk, Header
    <3>3. [a.blk[new] EXCEPT !.prev = 0] = a.blk[new] BY <2>3, <3>2
    <3>4. [a.blk EXCEPT ![new].prev = 0] = a.blk BY <2>4, <3>3 DEF Disk
    <3>5. d2.freelist = a.freelist /\ d2.blk = a.blk
          /\ d2 = [freelist |-> d2.freelist, blk |-> d2.blk]
      BY <2>5, <3>1, <3>4
    <3> QED BY <3>1, <3>5
  <2> QED BY <2>1, <2>6
<1>8. /\ H2[FreeList] = d2.freelist /\ H2[Root] = root2
      /\ \A q \in Owners \ {FreeList, Root} : H2[q] = H[q]
  BY <1>1, <1>2 DEF Headed, Owners
<1>9. L[Root] # 0 => last = P[Root][L[Root]]
  <2>1. ASSUME NEW o \in Owners
        PROVE  \A b : b \in LastOf(d.blk, H[o]) <=> L[o] # 0 /\ b = P[o][L[o]]
    BY ONLY <1>1, <2>1, LaidLists
  <2>2. Root \in Owners BY <1>3
  <2>3. \A b : b \in LastOf(d.blk, H[Root]) <=> L[Root] # 0 /\ b = P[Root][L[Root]]
    BY ONLY <2>1, <2>2
  <2> QED BY <1>3, <1>5, <2>3
<1>10. PICK L2, P2, own2, at2 :
        /\ Laid(d2.blk, H2, L2, P2, own2, at2)
        /\ \A q \in Owners \ {FreeList, Root} : L2[q] = L[q]
        /\ \A b \in Blocks : own[b] = Root => own2[b] = Root /\ at2[b] = at[b]
  <2>1. /\ L[Root] = 0 => d2 = AfterAllocate(d, TypeOf(Root), new)
        /\ L[Root] # 0 => d2 = AfterAttach(AfterAllocate(d, TypeOf(Root), new), last, d.freelist)
        /\ L[Root] = 0 => H2[Root] = d.freelist
        /\ L[Root] # 0 => H2[Root] = H[Root]
    BY <1>3, <1>5, <1>6, <1>7, <1>8
  <2>2. Takes(d, H, L, P, own, at, 1, new, Root, last, d2, H2)
    BY <1>1, <1>3, <1>8, <1>9, <2>1 DEF Takes
  <2>3. Rearranged(d2.blk, H2, L, own, at, Root, L[Root] + 1) BY ONLY <2>2, TakeBlocks
  <2> QED BY ONLY <2>3 DEF Rearranged
<1>11. ASSUME NEW q \in FileOwners PROVE FileFits(E[q], L2[q])
  <2>1. q \in Owners \ {FreeList, Root} BY OwnersApart
  <2> QED BY <1>1, <1>10, <2>1
<1>12. Arranged(d2, root2, E) BY <1>2, <1>10, <1>11 DEF Arranged
<1>13. DirsKept(d.blk, d2.blk)
  <2>1. RootKept(own, at, own2, at2) BY <1>10 DEF RootKept
  <2> QED BY ONLY <1>1, <1>10, <2>1, DirsStay
<1>14. d.blk[new].type = "FREE"
  <2>1. d.blk[new].type = TypeOf(own[new]) BY <1>1, <1>6 DEF Laid
  <2> QED BY <1>6, <2>1, OwnersApart
<1>15. d2.blk[new].type = "DIR"
  <2>1. PICK a : a = AfterAllocate(d, "DIR", new) OBVIOUS
  <2>2. new \in ListSet([d.blk EXCEPT ![new].next = 0], d.freelist) BY <1>6 DEF Cut
  <2>3. a.blk[new] = [type |-> "DIR", prev |-> d.blk[new].prev, next |-> 0]
    BY <1>6, <2>1, <2>2 DEF AfterAllocate
  <2>4. CASE root = 0 BY <1>7, <2>1, <2>3, <2>4
  <2>5. CASE root # 0
    <3>1. d2 = AfterAttach(a, last, new) BY <2>1, <2>5
    <3>2. \/ d2.blk[new] = [a.blk[new] EXCEPT !.next = new]
          \/ d2.blk[new] = [a.blk[new] EXCEPT !.prev = last]
      <4>1. a = [freelist |-> a.freelist, blk |-> a.blk] BY <2>1 DEF AfterAllocate
      <4>2. d2.blk = [b \in Blocks |->
                        IF b = last THEN [a.blk[b] EXCEPT !.next = new]
                        ELSE IF b = new THEN [a.blk[b] EXCEPT !.prev = last]
                        ELSE a.blk[b]]
        BY <3>1, <4>1 DEF AfterAttach
      <4> QED BY <1>6, <4>2
    <3> QED BY <2>3, <3>2
  <2> QED BY <2>4, <2>5
<1> QED BY <1>6, <1>12, <1>13, <1>14, <1>15

(* The bytes of a live file are within its blocks. *)
LEMMA LiveSized ==
  ASSUME NEW d, NEW root, NEW E, Arranged(d, root, E),
         NEW o \in FileOwners, Occupied(E[o])
  PROVE  SizedRight(E[o])
BY DEF Arranged, FileFits

-----------------------------------------------------------------------------
(* The entries of a state, and how the operations assign them *)

\* The copy of its entry that an open file keeps when its name is gone.
OwnEntry(file) ==
    IF file # NULL /\ file.diskFile = UnlinkedFile THEN file.unlinkedFile ELSE UnusedEntry

\* E is the entry of each file: of every slot of the directory f, and of the own copy of
\* every file of the table t.
EntriesAre(E, f, t) ==
    /\ E \in [FileOwners -> Entry]
    /\ \A s \in Slots : E[s] = f[s]
    /\ \A i \in FDs : E[Own(i)] = OwnEntry(t[i])

\* Slot s is in a block of the directory: an entry in any other block would be lost.
InDirectory(d, s) == s[1] = 0 \/ (s[1] \in Blocks /\ d.blk[s[1]].type = "DIR")

\* The invariant: the lists of the disk are those of the directory and of the entries,
\* and the entries in use are in the directory.
Structure ==
    /\ \E E : EntriesAre(E, files, openFileTable) /\ Arranged(disk, next_rootdir, E)
    /\ \A s \in Slots : Occupied(files[s]) => InDirectory(disk, s)

\* The list of the directory keeps its blocks: it may only be continued.
DirectoryGrows ==
    DirsKept(disk.blk, disk'.blk) /\ (next_rootdir # 0 => next_rootdir' = next_rootdir)

LEMMA DirectoryKept ==
  ASSUME Structure, DirsKept(disk.blk, disk'.blk),
         \A s \in Slots : Occupied(files'[s]) => Occupied(files[s])
  PROVE  \A s \in Slots : Occupied(files'[s]) => InDirectory(disk', s)
BY DEF Structure, DirsKept, InDirectory

LEMMA AssignedOccupied ==
  ASSUME TypeOK, NEW i \in FDs, Occupied(DiskEntry(i)), NEW e, SetDiskEntry(i, e)
  PROVE  \A s \in Slots : Occupied(files'[s]) => Occupied(files[s])
<1>1. files \in [Slots -> Entry] BY DEF TypeOK
<1>2. CASE openFileTable[i].diskFile = UnlinkedFile BY <1>2 DEF SetDiskEntry
<1>3. CASE openFileTable[i].diskFile # UnlinkedFile
  <2>1. files' = [files EXCEPT ![openFileTable[i].diskFile] = e]
        /\ Occupied(files[openFileTable[i].diskFile])
    BY <1>3 DEF SetDiskEntry, DiskEntry
  <2> QED BY <1>1, <2>1
<1> QED BY <1>2, <1>3

LEMMA EntriesExist ==
  ASSUME NEW f \in [Slots -> Entry], NEW t \in [FDs -> OpenFile \cup {NULL}]
  PROVE  \E E : EntriesAre(E, f, t)
<1> DEFINE E == [o \in FileOwners |-> IF o \in Slots THEN f[o] ELSE OwnEntry(t[o[2]])]
<1>1. UnusedEntry \in Entry BY BlockIds DEF UnusedEntry, Entry
<1>2. ASSUME NEW i \in FDs PROVE OwnEntry(t[i]) \in Entry
  <2>1. CASE t[i] # NULL /\ t[i].diskFile = UnlinkedFile
    <3>1. t[i] \in OpenFile BY <2>1
    <3> QED BY <2>1, <3>1 DEF OwnEntry, OpenFile
  <2>2. CASE ~ (t[i] # NULL /\ t[i].diskFile = UnlinkedFile) BY <1>1, <2>2 DEF OwnEntry
  <2> QED BY <2>1, <2>2
<1>3. \A i \in FDs : Own(i)[2] = i /\ Own(i) \notin Slots /\ Own(i) \in FileOwners
  BY OwnersApart DEF Own, FileOwners
<1>4. ASSUME NEW o \in FileOwners PROVE E[o] \in Entry
  <2>1. CASE o \in Slots BY <2>1
  <2>2. CASE o \notin Slots
    <3>1. PICK i \in FDs : o = Own(i) BY <2>2 DEF FileOwners
    <3> QED BY <1>2, <1>3, <2>2, <3>1
  <2> QED BY <2>1, <2>2
<1>5. EntriesAre(E, f, t) BY <1>3, <1>4 DEF EntriesAre, FileOwners
<1> QED BY <1>5

\* The entry of owner o, which was old, is new; the others are what they were.
Reassigned(E, E2, o, old, new) ==
    /\ E \in [FileOwners -> Entry] /\ E2 \in [FileOwners -> Entry]
    /\ o \in FileOwners /\ E[o] = old /\ E2[o] = new
    /\ \A q \in FileOwners \ {o} : E2[q] = E[q]

(* The assignment of a file's entry changes the entry of one owner. *)
LEMMA FileReassigned ==
  ASSUME TypeOK, NEW i \in FDs, openFileTable[i] # NULL,
         NEW e \in Entry, SetDiskEntry(i, e),
         NEW E, EntriesAre(E, files, openFileTable)
  PROVE  \E E2, o : /\ EntriesAre(E2, files', openFileTable')
                    /\ Reassigned(E, E2, o, DiskEntry(i), e)
<1>1. /\ openFileTable \in [FDs -> OpenFile \cup {NULL}] /\ files \in [Slots -> Entry]
      /\ E \in [FileOwners -> Entry]
      /\ \A s \in Slots : E[s] = files[s]
      /\ \A j \in FDs : E[Own(j)] = OwnEntry(openFileTable[j])
  BY DEF TypeOK, EntriesAre
<1>2. openFileTable[i] \in OpenFile BY <1>1
<1>3. /\ \A j \in FDs : Own(j) \in FileOwners /\ Own(j) \notin Slots
      /\ \A j, k \in FDs : Own(j) = Own(k) => j = k
      /\ Slots \subseteq FileOwners
      /\ \A q \in FileOwners : q \in Slots \/ \E j \in FDs : q = Own(j)
  BY OwnersApart DEF FileOwners
<1>4. CASE openFileTable[i].diskFile = UnlinkedFile
  <2>n. PICK new : new = [openFileTable[i] EXCEPT !.unlinkedFile = e] OBVIOUS
  <2>1. openFileTable' = [openFileTable EXCEPT ![i] = new] /\ files' = files
    BY <1>4, <2>n DEF SetDiskEntry
  <2>2. new \in OpenFile /\ new.diskFile = UnlinkedFile /\ new.unlinkedFile = e
    BY <1>2, <1>4, <2>n DEF OpenFile
  <2>3. new # NULL BY <2>2, NullAssumption
  <2>4. /\ openFileTable'[i] = new
        /\ \A j \in FDs \ {i} : openFileTable'[j] = openFileTable[j]
        /\ openFileTable' \in [FDs -> OpenFile \cup {NULL}]
    BY ONLY <1>1, <2>1, <2>2
  <2>5. PICK E2 : EntriesAre(E2, files', openFileTable') BY <1>1, <2>1, <2>4, EntriesExist
  <2>6. /\ E2 \in [FileOwners -> Entry]
        /\ \A s \in Slots : E2[s] = files[s]
        /\ \A j \in FDs : E2[Own(j)] = OwnEntry(openFileTable'[j])
    BY <2>1, <2>5 DEF EntriesAre
  <2>7. E[Own(i)] = DiskEntry(i) BY <1>1, <1>4 DEF OwnEntry, DiskEntry
  <2>8. E2[Own(i)] = e BY <2>2, <2>3, <2>4, <2>6 DEF OwnEntry
  <2>9. \A q \in FileOwners \ {Own(i)} : E2[q] = E[q] BY <1>1, <1>3, <2>4, <2>6
  <2>10. Reassigned(E, E2, Own(i), DiskEntry(i), e)
    BY <1>1, <1>3, <2>6, <2>7, <2>8, <2>9 DEF Reassigned
  <2> QED BY <2>5, <2>10
<1>5. CASE openFileTable[i].diskFile # UnlinkedFile
  <2>s. PICK s : s = openFileTable[i].diskFile OBVIOUS
  <2>1. s \in Slots BY <1>2, <1>5, <2>s DEF OpenFile
  <2>2. files' = [files EXCEPT ![s] = e] /\ openFileTable' = openFileTable
    BY <1>5, <2>s DEF SetDiskEntry
  <2>3. /\ files'[s] = e /\ files' \in [Slots -> Entry]
        /\ \A r \in Slots \ {s} : files'[r] = files[r]
    BY <1>1, <2>1, <2>2
  <2>4. PICK E2 : EntriesAre(E2, files', openFileTable') BY <1>1, <2>2, <2>3, EntriesExist
  <2>5. /\ E2 \in [FileOwners -> Entry]
        /\ \A r \in Slots : E2[r] = files'[r]
        /\ \A j \in FDs : E2[Own(j)] = OwnEntry(openFileTable[j])
    BY <2>2, <2>4 DEF EntriesAre
  <2>6. E[s] = DiskEntry(i) BY <1>1, <1>5, <2>1, <2>s DEF DiskEntry
  <2>7. E2[s] = e BY <2>1, <2>3, <2>5
  <2>8. \A q \in FileOwners \ {s} : E2[q] = E[q] BY <1>1, <1>3, <2>3, <2>5
  <2>9. Reassigned(E, E2, s, DiskEntry(i), e)
    BY <1>1, <1>3, <2>1, <2>5, <2>6, <2>7, <2>8 DEF Reassigned
  <2> QED BY <2>4, <2>9
<1> QED BY <1>4, <1>5

-----------------------------------------------------------------------------
(* Every call keeps the structure *)

LEMMA LiveEntry ==
  ASSUME IInv, Structure, NEW i \in FDs, openFileTable[i] # NULL
  PROVE  /\ DiskEntry(i) \in Entry /\ Occupied(DiskEntry(i)) /\ SizedRight(DiskEntry(i))
         /\ disk \in Disk /\ next_rootdir \in BlockId
<1>1. DiskEntry(i) \in Entry /\ Occupied(DiskEntry(i))
  BY DiskEntryType DEF IInv, OpenFilesTrackEntries
<1>2. disk \in Disk /\ next_rootdir \in BlockId BY DEF IInv, TypeOK
<1>3. PICK E : EntriesAre(E, files, openFileTable) /\ Arranged(disk, next_rootdir, E)
  BY DEF Structure
<1>4. PICK o \in FileOwners : E[o] = DiskEntry(i)
  <2>1. openFileTable[i] \in OpenFile BY DEF IInv, TypeOK
  <2>2. CASE openFileTable[i].diskFile = UnlinkedFile
    <3>1. E[Own(i)] = DiskEntry(i) /\ Own(i) \in FileOwners
      BY <1>3, <2>2 DEF EntriesAre, OwnEntry, DiskEntry, FileOwners
    <3> QED BY <3>1
  <2>3. CASE openFileTable[i].diskFile # UnlinkedFile
    <3>1. openFileTable[i].diskFile \in Slots BY <2>1, <2>3 DEF OpenFile
    <3> QED BY <1>3, <2>3, <3>1 DEF EntriesAre, DiskEntry, FileOwners
  <2> QED BY <2>2, <2>3
<1>5. SizedRight(E[o]) BY <1>1, <1>3, <1>4, LiveSized
<1> QED BY <1>1, <1>2, <1>4, <1>5

(* A file is given blocks and the size that needs them. *)
LEMMA FileGrown ==
  ASSUME IInv, Structure, NEW i \in FDs, openFileTable[i] # NULL,
         NEW n \in Nat, NEW new \in LastToAllocate(disk, n), NEW tail \in FileTail(DiskEntry(i)),
         disk' = GrownDisk(DiskEntry(i), new, tail), next_rootdir' = next_rootdir,
         NEW e \in Entry, SetDiskEntry(i, e), e.first_block = GrownFirst(DiskEntry(i)),
         e.size # 0,
         blocksForFileSize(e.size) = allocatedBlocksForFile(DiskEntry(i)) + n
  PROVE  Structure' /\ DirectoryGrows
<1>1. PICK E : EntriesAre(E, files, openFileTable) /\ Arranged(disk, next_rootdir, E)
  BY DEF Structure
<1>2. TypeOK /\ disk \in Disk BY DEF IInv, TypeOK
<1>e. PICK old : old = DiskEntry(i) OBVIOUS
<1>3. PICK E2, o : EntriesAre(E2, files', openFileTable') /\ Reassigned(E, E2, o, old, e)
  BY <1>1, <1>2, <1>e, FileReassigned
<1>4. /\ E \in [FileOwners -> Entry] /\ E2 \in [FileOwners -> Entry]
      /\ o \in FileOwners /\ E[o] = old /\ E2[o] = e
      /\ \A q \in FileOwners \ {o} : E2[q] = E[q]
  BY <1>3 DEF Reassigned
<1>5. Occupied(E[o]) BY <1>4, <1>e, LiveEntry
<1>6. e.first_block # SFS_EMPTY_FILE_BLOCK
  <2>1. old.first_block # SFS_EMPTY_FILE_BLOCK \/ e.first_block = disk.freelist
    BY <1>e DEF GrownFirst
  <2>2. disk.freelist # SFS_EMPTY_FILE_BLOCK BY <1>2, BlockIds DEF Disk, SFS_EMPTY_FILE_BLOCK
  <2>3. old.first_block # SFS_EMPTY_FILE_BLOCK => e.first_block = old.first_block
    BY <1>e DEF GrownFirst
  <2> QED BY <2>1, <2>2, <2>3
<1>7. FileFits(E2[o], allocatedBlocksForFile(E[o]) + n)
  BY <1>4, <1>6, <1>e DEF FileFits, SizedRight, allocatedBlocksForFile
<1>8. /\ E[o].first_block # SFS_EMPTY_FILE_BLOCK => tail \in LastOf(disk.blk, E[o].first_block)
      /\ E[o].first_block = SFS_EMPTY_FILE_BLOCK => disk' = AfterAllocate(disk, "FILE", new)
      /\ E[o].first_block # SFS_EMPTY_FILE_BLOCK =>
            disk' = AfterAttach(AfterAllocate(disk, "FILE", new), tail, disk.freelist)
      /\ E[o].first_block = SFS_EMPTY_FILE_BLOCK => E2[o].first_block = disk.freelist
      /\ E[o].first_block # SFS_EMPTY_FILE_BLOCK => E2[o].first_block = E[o].first_block
  BY <1>4, <1>e DEF FileTail, GrownDisk, GrownFirst
<1>9. Arranged(disk', next_rootdir, E2) /\ DirsKept(disk.blk, disk'.blk)
  <2>1. Arranged(disk, next_rootdir, E) BY <1>1
  <2>2. Grows(disk, E, o, n, new, tail, disk', E2) BY <1>4, <1>5, <1>7, <1>8 DEF Grows
  <2> QED BY <1>2, <2>1, <2>2, GrowArranged
<1>10. \A s \in Slots : Occupied(files'[s]) => InDirectory(disk', s)
  <2>1. \A s \in Slots : Occupied(files'[s]) => Occupied(files[s])
    BY <1>2, LiveEntry, AssignedOccupied
  <2> QED BY <1>9, <2>1, DirectoryKept
<1> QED BY <1>3, <1>9, <1>10 DEF Structure, DirectoryGrows

(* A file keeps its blocks, and the new size needs as many. *)
LEMMA FileResized ==
  ASSUME IInv, Structure, NEW i \in FDs, openFileTable[i] # NULL,
         disk' = disk, next_rootdir' = next_rootdir,
         NEW e \in Entry, SetDiskEntry(i, e), e.first_block = DiskEntry(i).first_block,
         e.first_block # SFS_EMPTY_FILE_BLOCK,
         allocatedBlocksForFile(e) = allocatedBlocksForFile(DiskEntry(i))
  PROVE  Structure' /\ DirectoryGrows
<1>1. PICK E : EntriesAre(E, files, openFileTable) /\ Arranged(disk, next_rootdir, E)
  BY DEF Structure
<1>2. TypeOK BY DEF IInv
<1>e. PICK old : old = DiskEntry(i) OBVIOUS
<1>3. PICK E2, o : EntriesAre(E2, files', openFileTable') /\ Reassigned(E, E2, o, old, e)
  BY <1>1, <1>2, <1>e, FileReassigned
<1>4. /\ E \in [FileOwners -> Entry] /\ E2 \in [FileOwners -> Entry]
      /\ o \in FileOwners /\ E[o] = old /\ E2[o] = e
      /\ \A q \in FileOwners \ {o} : E2[q] = E[q]
  BY <1>3 DEF Reassigned
<1>5. Occupied(E[o]) BY <1>4, <1>e, LiveEntry
<1>6. /\ E2[o].first_block = E[o].first_block /\ SizedRight(E2[o])
      /\ allocatedBlocksForFile(E2[o]) = allocatedBlocksForFile(E[o])
  BY <1>4, <1>e DEF SizedRight
<1>7. Arranged(disk, next_rootdir, E2) BY ONLY <1>1, <1>4, <1>5, <1>6, EntryChanged
<1>8. \A s \in Slots : Occupied(files'[s]) => InDirectory(disk', s)
  <2>1. \A s \in Slots : Occupied(files'[s]) => Occupied(files[s])
    BY <1>2, LiveEntry, AssignedOccupied
  <2>2. DirsKept(disk.blk, disk'.blk) BY DEF DirsKept
  <2> QED BY <2>1, <2>2, DirectoryKept
<1>9. DirectoryGrows BY DEF DirectoryGrows, DirsKept
<1> QED BY <1>3, <1>7, <1>8, <1>9 DEF Structure

(* A file loses its blocks from the (k + 1)st on, and the new size needs the others. *)
LEMMA FileShrunk ==
  ASSUME IInv, Structure, NEW i \in FDs, openFileTable[i] # NULL,
         NEW k \in Nat, k < allocatedBlocksForFile(DiskEntry(i)),
         NEW first \in fileBlockAt(disk.blk, DiskEntry(i).first_block, k),
         NEW last \in LastOf(disk.blk, DiskEntry(i).first_block),
         disk' = AfterFree(disk, first, last), next_rootdir' = next_rootdir,
         NEW e \in Entry, SetDiskEntry(i, e), SizedRight(e), allocatedBlocksForFile(e) = k,
         k = 0 => e.first_block = SFS_EMPTY_FILE_BLOCK,
         k # 0 => e.first_block = DiskEntry(i).first_block
  PROVE  Structure' /\ DirectoryGrows
<1>1. PICK E : EntriesAre(E, files, openFileTable) /\ Arranged(disk, next_rootdir, E)
  BY DEF Structure
<1>2. TypeOK /\ disk \in Disk BY DEF IInv, TypeOK
<1>e. PICK old : old = DiskEntry(i) OBVIOUS
<1>3. PICK E2, o : EntriesAre(E2, files', openFileTable') /\ Reassigned(E, E2, o, old, e)
  BY <1>1, <1>2, <1>e, FileReassigned
<1>4. /\ E \in [FileOwners -> Entry] /\ E2 \in [FileOwners -> Entry]
      /\ o \in FileOwners /\ E[o] = old /\ E2[o] = e
      /\ \A q \in FileOwners \ {o} : E2[q] = E[q]
  BY <1>3 DEF Reassigned
<1>5. Occupied(E[o]) BY <1>4, <1>e, LiveEntry
<1>6. /\ k \in Nat /\ k < allocatedBlocksForFile(E[o])
      /\ first \in fileBlockAt(disk.blk, E[o].first_block, k)
      /\ last \in LastOf(disk.blk, E[o].first_block)
      /\ disk' = AfterFree(disk, first, last)
      /\ k = 0 => E2[o].first_block \notin Blocks
      /\ k # 0 => E2[o].first_block = E[o].first_block
      /\ FileFits(E2[o], k)
  BY <1>4, <1>e DEF FileFits, SFS_EMPTY_FILE_BLOCK, Blocks
<1>7. Arranged(disk, next_rootdir, E) BY <1>1
<1>8. Arranged(disk', next_rootdir, E2) /\ DirsKept(disk.blk, disk'.blk)
  BY ONLY <1>2, <1>4, <1>5, <1>6, <1>7, FreeArranged
<1>9. \A s \in Slots : Occupied(files'[s]) => InDirectory(disk', s)
  <2>1. \A s \in Slots : Occupied(files'[s]) => Occupied(files[s])
    BY <1>2, LiveEntry, AssignedOccupied
  <2> QED BY <1>8, <2>1, DirectoryKept
<1> QED BY <1>3, <1>8, <1>9 DEF Structure, DirectoryGrows

(* A write of a descriptor: the assigned entry, and what its guards say. *)
LEMMA WriteFacts ==
  ASSUME IInv, Structure, NEW fd \in FDs, NEW buf \in Buffers, CanWrite(fd, buf),
         NEW blk, NEW first \in Blocks, WriteOut(fd, buf, blk, first),
         NEW i, i = openFileDescTable[fd].fileEntry,
         NEW end, end = openFileDescTable[fd].currPos + Len(buf)
  PROVE  /\ i \in FDs /\ openFileTable[i] # NULL /\ next_rootdir' = next_rootdir
         /\ end \in Nat /\ end # 0
         /\ DiskEntry(i) \in Entry /\ Occupied(DiskEntry(i)) /\ SizedRight(DiskEntry(i))
         /\ \E e \in Entry : /\ SetDiskEntry(i, e) /\ e.first_block = first
                             /\ e.size = IF end > DiskEntry(i).size THEN end
                                         ELSE DiskEntry(i).size
<1>1. openFileDescTable[fd] # NULL /\ Len(buf) # 0 BY DEF CanWrite
<1>2. i \in FDs /\ openFileDescTable[fd].currPos \in Nat /\ openFileTable[i] # NULL
  BY <1>1, DescriptorFile DEF IInv
<1>3. buf \in Seq(Bytes) /\ Len(buf) \in Nat OBVIOUS
<1>4. end \in Nat /\ end # 0
  <2> PICK p : p = openFileDescTable[fd].currPos OBVIOUS
  <2> PICK l : l = Len(buf) OBVIOUS
  <2>1. p \in Nat /\ l \in Nat /\ l # 0 /\ end = p + l BY <1>1, <1>2, <1>3
  <2> QED BY ONLY <2>1
<1>5. DiskEntry(i) \in Entry /\ Occupied(DiskEntry(i)) /\ SizedRight(DiskEntry(i))
  BY <1>2, LiveEntry
<1>e. PICK old : old = DiskEntry(i) OBVIOUS
<1>n. PICK e : e = [old EXCEPT !.first_block = first,
                               !.size = IF end > old.size THEN end ELSE old.size]
  OBVIOUS
<1>6. first \in BlockId BY BlockIds
<1>7. e \in Entry /\ e.first_block = first
      /\ e.size = IF end > old.size THEN end ELSE old.size
  BY ONLY <1>4, <1>5, <1>6, <1>e, <1>n DEF Entry
<1>8. SetDiskEntry(i, e) /\ next_rootdir' = next_rootdir BY <1>e, <1>n DEF WriteOut
<1> QED BY <1>2, <1>4, <1>5, <1>7, <1>8, <1>e

LEMMA WriteInPlaceArranges ==
  ASSUME IInv, Structure, NEW fd \in FDs, NEW buf \in Buffers, WriteInPlace(fd, buf)
  PROVE  Structure' /\ DirectoryGrows
<1>i. PICK i : i = openFileDescTable[fd].fileEntry OBVIOUS
<1>e. PICK old : old = DiskEntry(i) OBVIOUS
<1>n. PICK end : end = openFileDescTable[fd].currPos + Len(buf) OBVIOUS
<1>1. /\ CanWrite(fd, buf) /\ disk' = disk
      /\ end <= allocatedBlocksForFile(old) * BLOCK_DATA_SIZE
      /\ WriteOut(fd, buf, disk.blk, old.first_block)
  BY <1>i, <1>e, <1>n DEF WriteInPlace
<1>2. /\ i \in FDs /\ openFileTable[i] # NULL
      /\ old \in Entry /\ Occupied(old) /\ SizedRight(old) /\ end \in Nat /\ end # 0
  <2>1. openFileDescTable[fd] # NULL /\ Len(buf) # 0 BY <1>1 DEF CanWrite
  <2>2. i \in FDs /\ openFileDescTable[fd].currPos \in Nat /\ openFileTable[i] # NULL
    BY <1>i, <2>1, DescriptorFile DEF IInv
  <2>3. old \in Entry /\ Occupied(old) /\ SizedRight(old) BY <1>e, <2>2, LiveEntry
  <2>4. buf \in Seq(Bytes) /\ Len(buf) \in Nat OBVIOUS
  <2> PICK l : l = Len(buf) OBVIOUS
  <2> PICK p : p = openFileDescTable[fd].currPos OBVIOUS
  <2>5. p \in Nat /\ l \in Nat /\ l # 0 /\ end = p + l BY <1>n, <2>1, <2>2, <2>4
  <2>6. end \in Nat /\ end # 0 BY ONLY <2>5
  <2> QED BY <2>2, <2>3, <2>6
<1>3. allocatedBlocksForFile(old) \in Nat BY <1>2, FileCapacity
<1>4. blocksForFileSize(end) <= allocatedBlocksForFile(old) BY <1>1, <1>2, <1>3, CountFits
<1>5. old.first_block # SFS_EMPTY_FILE_BLOCK
  <2>1. blocksForFileSize(end) \in Nat /\ blocksForFileSize(end) # 0 BY <1>2, BlockCount
  <2>2. allocatedBlocksForFile(old) # 0 BY <1>3, <1>4, <2>1
  <2> QED BY <2>2 DEF allocatedBlocksForFile
<1>6. old.first_block \in Blocks
  BY <1>2, <1>5 DEF Entry, Occupied, BlockId, Blocks
<1>7. PICK e \in Entry : /\ SetDiskEntry(i, e) /\ e.first_block = old.first_block
                         /\ e.size = IF end > old.size THEN end ELSE old.size
  BY <1>1, <1>6, <1>i, <1>e, <1>n, WriteFacts
<1>8. next_rootdir' = next_rootdir BY <1>1 DEF WriteOut
<1>9. allocatedBlocksForFile(e) = allocatedBlocksForFile(old)
  <2>1. CASE end > old.size
    <3>1. old.size \in Nat /\ old.size <= end BY <1>2, <2>1 DEF Entry
    <3>2. blocksForFileSize(end) = allocatedBlocksForFile(old)
      BY <1>2, <1>4, <3>1, GrowthFits
    <3>3. allocatedBlocksForFile(e) = blocksForFileSize(end)
      BY <1>2, <1>5, <1>7, <2>1 DEF allocatedBlocksForFile
    <3> QED BY <3>2, <3>3
  <2>2. CASE ~ (end > old.size)
    <3>1. e.size = old.size /\ e.first_block = old.first_block BY <1>7, <2>2
    <3> QED BY <3>1 DEF allocatedBlocksForFile
  <2> QED BY <2>1, <2>2
<1> QED BY <1>1, <1>2, <1>5, <1>7, <1>8, <1>9, <1>e, FileResized

LEMMA WriteGrowArranges ==
  ASSUME IInv, Structure, NEW fd \in FDs, NEW buf \in Buffers, WriteGrow(fd, buf)
  PROVE  Structure' /\ DirectoryGrows
<1>i. PICK i : i = openFileDescTable[fd].fileEntry OBVIOUS
<1>e. PICK old : old = DiskEntry(i) OBVIOUS
<1>n. PICK end : end = openFileDescTable[fd].currPos + Len(buf) OBVIOUS
<1>h. PICK have : have = allocatedBlocksForFile(old) OBVIOUS
<1>x. PICK extra : extra = (roundUp(end, BLOCK_DATA_SIZE) - have * BLOCK_DATA_SIZE)
                              \div BLOCK_DATA_SIZE
  OBVIOUS
<1>1. /\ CanWrite(fd, buf) /\ end > have * BLOCK_DATA_SIZE
      /\ \E new \in LastToAllocate(disk, extra), tail \in FileTail(old) :
            /\ disk' = GrownDisk(old, new, tail)
            /\ WriteOut(fd, buf, disk'.blk, GrownFirst(old))
  BY <1>i, <1>e, <1>n, <1>h, <1>x DEF WriteGrow
<1>2. PICK new \in LastToAllocate(disk, extra), tail \in FileTail(old) :
            /\ disk' = GrownDisk(old, new, tail)
            /\ WriteOut(fd, buf, disk'.blk, GrownFirst(old))
  BY <1>1
<1>3. i \in FDs /\ openFileTable[i] # NULL
  BY <1>1, <1>i, DescriptorFile DEF IInv, CanWrite
<1>4. old \in Entry /\ Occupied(old) /\ SizedRight(old) BY <1>3, <1>e, LiveEntry
<1>5. GrownFirst(old) \in Blocks BY <1>2, <1>4, GrownDiskType DEF IInv
<1>6. /\ end \in Nat /\ end # 0 /\ next_rootdir' = next_rootdir
      /\ \E e \in Entry : /\ SetDiskEntry(i, e) /\ e.first_block = GrownFirst(old)
                          /\ e.size = IF end > old.size THEN end ELSE old.size
  BY <1>1, <1>2, <1>5, <1>i, <1>e, <1>n, WriteFacts
<1>7. PICK e \in Entry : /\ SetDiskEntry(i, e) /\ e.first_block = GrownFirst(old)
                         /\ e.size = IF end > old.size THEN end ELSE old.size
  BY <1>6
<1>8. have \in Nat /\ old.size <= have * BLOCK_DATA_SIZE /\ old.size \in Nat
  BY <1>4, <1>h, FileCapacity DEF Entry
<1>9. e.size = end
  <2> PICK c : c = have * BLOCK_DATA_SIZE OBVIOUS
  <2>1. end \in Nat /\ old.size \in Nat /\ old.size <= c /\ end > c /\ c \in Nat
    BY <1>1, <1>6, <1>8
  <2>2. end > old.size BY <2>1
  <2> QED BY <1>7, <2>2
<1>10. extra \in Nat /\ have + extra = blocksForFileSize(end)
  BY <1>1, <1>6, <1>8, <1>x, ExtraBlocks
<1> QED BY <1>2, <1>3, <1>6, <1>7, <1>9, <1>10, <1>e, <1>h, FileGrown

LEMMA TruncateGrowArranges ==
  ASSUME IInv, Structure, NEW fd \in FDs, NEW length \in Lengths, TruncateGrow(fd, length)
  PROVE  Structure' /\ DirectoryGrows
<1>i. PICK i : i = openFileDescTable[fd].fileEntry OBVIOUS
<1>e. PICK old : old = DiskEntry(i) OBVIOUS
<1>h. PICK have : have = allocatedBlocksForFile(old) OBVIOUS
<1>x. PICK extra : extra = blocksForFileSize(length) - have OBVIOUS
<1>1. /\ openFileDescTable[fd] # NULL /\ length > old.size /\ next_rootdir' = next_rootdir
      /\ \/ /\ extra > 0
            /\ \E new \in LastToAllocate(disk, extra), tail \in FileTail(old) :
                    disk' = GrownDisk(old, new, tail)
            /\ SetDiskEntry(i, [old EXCEPT !.first_block = GrownFirst(old), !.size = length])
         \/ /\ extra <= 0
            /\ disk' = disk
            /\ SetDiskEntry(i, [old EXCEPT !.first_block = old.first_block, !.size = length])
  BY <1>i, <1>e, <1>h, <1>x DEF TruncateGrow
<1>2. i \in FDs /\ openFileTable[i] # NULL BY <1>1, <1>i, DescriptorFile DEF IInv
<1>3. old \in Entry /\ Occupied(old) /\ SizedRight(old) BY <1>2, <1>e, LiveEntry
<1>4. have \in Nat /\ old.size \in Nat BY <1>3, <1>h, FileCapacity DEF Entry
<1>5. length \in Nat /\ length # 0 BY <1>1, <1>4
<1>6. blocksForFileSize(length) \in Nat BY <1>5, BlockCount
<1>7. CASE extra > 0
  <2>1. PICK new \in LastToAllocate(disk, extra), tail \in FileTail(old) :
            disk' = GrownDisk(old, new, tail)
    BY <1>1, <1>4, <1>6, <1>7, <1>x
  <2>n. PICK e : e = [old EXCEPT !.first_block = GrownFirst(old), !.size = length] OBVIOUS
  <2>2. SetDiskEntry(i, e) BY <1>1, <1>4, <1>6, <1>7, <1>x, <2>n
  <2>3. GrownFirst(old) \in BlockId
    <3>1. GrownFirst(old) \in Blocks BY <1>3, <2>1, GrownDiskType DEF IInv
    <3> QED BY <3>1, BlockIds
  <2>4. e \in Entry /\ e.first_block = GrownFirst(old) /\ e.size = length
    BY ONLY <1>3, <1>5, <2>3, <2>n DEF Entry
  <2>5. extra \in Nat /\ have + extra = blocksForFileSize(length)
    BY ONLY <1>4, <1>6, <1>7, <1>x
  <2> QED BY <1>1, <1>2, <1>5, <2>1, <2>2, <2>4, <2>5, <1>e, <1>h, FileGrown
<1>8. CASE ~ (extra > 0)
  <2>n. PICK e : e = [old EXCEPT !.first_block = old.first_block, !.size = length] OBVIOUS
  <2>1. disk' = disk /\ SetDiskEntry(i, e) BY <1>1, <1>8, <2>n
  <2>2. e \in Entry /\ e.first_block = old.first_block /\ e.size = length
    BY ONLY <1>3, <1>5, <2>n DEF Entry
  <2>3. blocksForFileSize(length) <= have BY ONLY <1>4, <1>6, <1>8, <1>x
  <2>4. old.first_block # SFS_EMPTY_FILE_BLOCK /\ blocksForFileSize(length) = have
    <3>1. old.size <= length BY <1>1, <1>4, <1>5
    <3> QED BY <1>3, <1>5, <1>h, <2>3, <3>1, GrowthFits
  <2>5. allocatedBlocksForFile(e) = allocatedBlocksForFile(old)
    BY <1>5, <1>h, <2>2, <2>4 DEF allocatedBlocksForFile
  <2> QED BY <1>1, <1>2, <2>1, <2>2, <2>4, <2>5, <1>e, FileResized
<1> QED BY <1>7, <1>8

LEMMA TruncateShrinkArranges ==
  ASSUME IInv, Structure, NEW fd \in FDs, NEW length \in Lengths, TruncateShrink(fd, length)
  PROVE  Structure' /\ DirectoryGrows
<1>i. PICK i : i = openFileDescTable[fd].fileEntry OBVIOUS
<1>e. PICK old : old = DiskEntry(i) OBVIOUS
<1>h. PICK have : have = allocatedBlocksForFile(old) OBVIOUS
<1>k. PICK k : k = blocksForFileSize(length) OBVIOUS
<1>n. PICK e : e = [old EXCEPT !.first_block = IF k = 0 THEN SFS_EMPTY_FILE_BLOCK
                                               ELSE old.first_block,
                               !.size = length]
  OBVIOUS
<1>1. /\ openFileDescTable[fd] # NULL /\ length < old.size /\ next_rootdir' = next_rootdir
      /\ IF k < have
         THEN \E first \in fileBlockAt(disk.blk, old.first_block, k),
                 last \in LastOf(disk.blk, old.first_block) :
                    disk' = AfterFree(disk, first, last)
         ELSE disk' = disk
      /\ SetDiskEntry(i, e)
  BY <1>i, <1>e, <1>h, <1>k, <1>n DEF TruncateShrink
<1>2. i \in FDs /\ openFileTable[i] # NULL BY <1>1, <1>i, DescriptorFile DEF IInv
<1>3. old \in Entry /\ Occupied(old) /\ SizedRight(old) BY <1>2, <1>e, LiveEntry
<1>4. length \in Nat /\ old.size \in Nat /\ old.size # 0
  <2>1. length \in Nat OBVIOUS
  <2>2. old.size \in Nat BY <1>3 DEF Entry
  <2> QED BY <1>1, <2>1, <2>2
<1>5. /\ old.first_block # SFS_EMPTY_FILE_BLOCK
      /\ have = blocksForFileSize(old.size)
  BY <1>3, <1>4, <1>h DEF SizedRight, allocatedBlocksForFile
<1>6. k \in Nat /\ (k = 0 <=> length = 0) BY <1>4, <1>k, BlockCount
<1>7. have \in Nat /\ have # 0 BY <1>4, <1>5, BlockCount
<1>8. k <= have BY <1>1, <1>4, <1>5, <1>k, CountMonotone
<1>9. /\ e \in Entry /\ e.size = length
      /\ e.first_block = IF k = 0 THEN SFS_EMPTY_FILE_BLOCK ELSE old.first_block
  <2>1. SFS_EMPTY_FILE_BLOCK \in BlockId \cup {SFS_EMPTY_FILE_BLOCK} OBVIOUS
  <2> QED BY ONLY <1>3, <1>4, <1>n, <2>1 DEF Entry
<1>10. SizedRight(e) /\ allocatedBlocksForFile(e) = k
  <2>1. CASE k = 0 BY <1>6, <1>9, <2>1 DEF SizedRight, allocatedBlocksForFile
  <2>2. CASE k # 0 BY <1>5, <1>6, <1>9, <1>k, <2>2 DEF SizedRight, allocatedBlocksForFile
  <2> QED BY <2>1, <2>2
<1>11. CASE k < have
  <2>1. PICK first \in fileBlockAt(disk.blk, old.first_block, k),
             last \in LastOf(disk.blk, old.first_block) :
                disk' = AfterFree(disk, first, last)
    BY <1>1, <1>11
  <2> QED BY <1>1, <1>2, <1>6, <1>9, <1>10, <1>11, <2>1, <1>e, <1>h, FileShrunk
<1>12. CASE ~ (k < have)
  <2>1. k = have BY ONLY <1>6, <1>7, <1>8, <1>12
  <2>2. e.first_block = old.first_block BY <1>7, <1>9, <2>1
  <2> QED BY <1>1, <1>2, <1>5, <1>9, <1>10, <1>12, <2>1, <2>2, <1>e, <1>h, FileResized
<1> QED BY <1>11, <1>12

(* The lists of open files do not depend on how often a file is open. *)
LEMMA OpenedSame ==
  ASSUME TypeOK, NEW slot \in Slots, addOpenFileEntry(slot)
  PROVE  \A j \in FDs : OwnEntry(openFileTable'[j]) = OwnEntry(openFileTable[j])
<1>1. PICK i \in FDs :
        openFileTable' = [openFileTable EXCEPT ![i] =
               IF openFileTable[i] # NULL
               THEN [openFileTable[i] EXCEPT !.refCount = @ + 1]
               ELSE [refCount |-> 1, unlinked |-> FALSE, diskFile |-> slot,
                     unlinkedFile |-> UnusedEntry]]
  BY addOpenFileEntryCase
<1>2. openFileTable \in [FDs -> OpenFile \cup {NULL}] BY DEF TypeOK
<1>3. \A j \in FDs \ {i} : openFileTable'[j] = openFileTable[j] BY <1>1, <1>2
<1>4. OwnEntry(openFileTable'[i]) = OwnEntry(openFileTable[i])
  <2>1. CASE openFileTable[i] # NULL
    <3>0. openFileTable[i] \in OpenFile BY <1>2, <2>1
    <3>n. PICK new : new = [openFileTable[i] EXCEPT !.refCount = @ + 1] OBVIOUS
    <3>1. openFileTable'[i] = new BY <1>1, <1>2, <2>1, <3>n
    <3>2. /\ new \in OpenFile /\ new.diskFile = openFileTable[i].diskFile
          /\ new.unlinkedFile = openFileTable[i].unlinkedFile
      BY ONLY <3>0, <3>n DEF OpenFile
    <3>3. new # NULL BY <3>2, NullAssumption
    <3> QED BY <2>1, <3>1, <3>2, <3>3 DEF OwnEntry
  <2>2. CASE openFileTable[i] = NULL
    <3>1. openFileTable'[i].diskFile = slot BY <1>1, <1>2, <2>2
    <3>2. slot # UnlinkedFile BY BlockIds
    <3> QED BY <2>2, <3>1, <3>2 DEF OwnEntry
  <2> QED BY <2>1, <2>2
<1> QED BY <1>3, <1>4

LEMMA EntriesSame ==
  ASSUME NEW E, EntriesAre(E, files, openFileTable), files' = files,
         \A j \in FDs : OwnEntry(openFileTable'[j]) = OwnEntry(openFileTable[j])
  PROVE  EntriesAre(E, files', openFileTable')
BY DEF EntriesAre

\* Nothing that the lists depend on changes.
LEMMA StructureSame ==
  ASSUME Structure, disk' = disk, next_rootdir' = next_rootdir, files' = files,
         \A j \in FDs : OwnEntry(openFileTable'[j]) = OwnEntry(openFileTable[j])
  PROVE  Structure' /\ DirectoryGrows
<1>1. PICK E : EntriesAre(E, files, openFileTable) /\ Arranged(disk, next_rootdir, E)
  BY DEF Structure
<1>2. EntriesAre(E, files', openFileTable') BY <1>1, EntriesSame
<1>3. \A s \in Slots : Occupied(files'[s]) => InDirectory(disk', s) BY DEF Structure
<1>4. DirectoryGrows BY DEF DirectoryGrows, DirsKept
<1> QED BY <1>1, <1>2, <1>3, <1>4 DEF Structure

LEMMA OpenExistingArranges ==
  ASSUME IInv, Structure, NEW name \in Names, OpenExisting(name)
  PROVE  Structure' /\ DirectoryGrows
<1>1. PICK slot \in findDirectoryEntry(name) : addOpenFileEntry(slot) BY DEF OpenExisting
<1>2. slot \in Slots BY EntryFound
<1>3. \A j \in FDs : OwnEntry(openFileTable'[j]) = OwnEntry(openFileTable[j])
  BY <1>1, <1>2, OpenedSame DEF IInv
<1> QED BY <1>3, StructureSame DEF OpenExisting

(* The entry of a slot changes, and so do the own copies in the table t. *)
LEMMA SlotReassigned ==
  ASSUME NEW f \in [Slots -> Entry], NEW t, NEW E, EntriesAre(E, f, t),
         NEW s \in Slots, NEW f2 \in [Slots -> Entry], \A r \in Slots \ {s} : f2[r] = f[r],
         NEW t2 \in [FDs -> OpenFile \cup {NULL}],
         \A j \in FDs : OwnEntry(t2[j]) = OwnEntry(t[j])
  PROVE  \E E2 : EntriesAre(E2, f2, t2) /\ Reassigned(E, E2, s, f[s], f2[s])
<1>1. PICK E2 : EntriesAre(E2, f2, t2) BY EntriesExist
<1>2. /\ E \in [FileOwners -> Entry] /\ E2 \in [FileOwners -> Entry]
      /\ \A r \in Slots : E[r] = f[r] /\ E2[r] = f2[r]
      /\ \A j \in FDs : E[Own(j)] = OwnEntry(t[j]) /\ E2[Own(j)] = OwnEntry(t2[j])
  BY <1>1 DEF EntriesAre
<1>3. \A q \in FileOwners \ {s} : E2[q] = E[q] BY <1>2 DEF FileOwners
<1>4. Reassigned(E, E2, s, f[s], f2[s]) BY <1>2, <1>3 DEF Reassigned, FileOwners
<1> QED BY <1>1, <1>4

(* createFile puts an empty file in an unused slot of the directory. *)
LEMMA CreatedArranged ==
  ASSUME TypeOK, NEW E, EntriesAre(E, files, openFileTable),
         NEW d, NEW root, Arranged(d, root, E),
         NEW name \in Names, NEW slot \in Slots, ~ Occupied(files[slot]),
         createFile(name, slot), openFileTable' \in [FDs -> OpenFile \cup {NULL}]
  PROVE  /\ \E E2 : EntriesAre(E2, files', openFileTable') /\ Arranged(d, root, E2)
         /\ \A s \in Slots \ {slot} : files'[s] = files[s]
<1>n. PICK new : new = [first_block |-> SFS_EMPTY_FILE_BLOCK, size |-> 0, name |-> name]
  OBVIOUS
<1>1. new \in Entry /\ new.first_block = SFS_EMPTY_FILE_BLOCK /\ new.size = 0
  BY <1>n DEF Entry
<1>2. files' = [files EXCEPT ![slot] = new] /\ addOpenFileEntry(slot)
  BY <1>n DEF createFile
<1>3. files \in [Slots -> Entry] BY DEF TypeOK
<1>4. /\ files' \in [Slots -> Entry] /\ files'[slot] = new
      /\ \A s \in Slots \ {slot} : files'[s] = files[s]
  BY ONLY <1>1, <1>2, <1>3, slot \in Slots
<1>5. \A j \in FDs : OwnEntry(openFileTable'[j]) = OwnEntry(openFileTable[j])
  BY <1>2, OpenedSame
<1>6. PICK E2 : /\ EntriesAre(E2, files', openFileTable')
                /\ Reassigned(E, E2, slot, files[slot], files'[slot])
  BY <1>3, <1>4, <1>5, SlotReassigned
<1>7. /\ E \in [FileOwners -> Entry] /\ E2 \in [FileOwners -> Entry] /\ slot \in FileOwners
      /\ E[slot] = files[slot] /\ E2[slot] = new
      /\ \A q \in FileOwners \ {slot} : E2[q] = E[q]
  BY <1>4, <1>6 DEF Reassigned
<1>8. /\ E2[slot].first_block \notin Blocks /\ E[slot].first_block \notin Blocks
      /\ SizedRight(E2[slot])
  BY <1>1, <1>7 DEF Occupied, SizedRight, Blocks, SFS_EMPTY_FILE_BLOCK
<1>9. Arranged(d, root, E) OBVIOUS
<1>10. Arranged(d, root, E2) BY ONLY <1>7, <1>8, <1>9, EntryChanged
<1> QED BY <1>4, <1>6, <1>10

(* An unused slot that the search finds is in the directory. *)
LEMMA EmptySlotInDirectory ==
  ASSUME IInv, Structure, NEW slot \in EmptySlot
  PROVE  InDirectory(disk, slot)
<1> PICK S : S = {s \in Slots : ~ Occupied(files[s])} OBVIOUS
<1> PICK blocks : blocks = DirectoryBlocks OBVIOUS
<1>1. blocks \in Seq(BlockId) BY DirectoryBlocksType
<1>2. slot \in FirstSlot(S) BY DEF EmptySlot
<1>3. PICK p \in 1 .. Len(blocks) * DIR_ENTRIES_PER_BLOCK : slot = SlotAt(blocks, p)
  BY <1>1, <1>2 DEF FirstSlot
<1>4. PICK n : n = ((p - 1) \div DIR_ENTRIES_PER_BLOCK) + 1 OBVIOUS
<1>5. slot[1] = blocks[n] BY <1>3, <1>4 DEF SlotAt
<1>6. n \in 1 .. Len(blocks)
  <2> PICK B : B = DIR_ENTRIES_PER_BLOCK OBVIOUS
  <2>l. PICK l : l = Len(blocks) OBVIOUS
  <2>1. B \in Nat \ {0} /\ l \in Nat /\ p \in 1 .. l * B BY <1>1, <2>l
  <2>2. PICK q : q = (p - 1) \div B OBVIOUS
  <2>3. l * B = B * l /\ B * l \in Nat BY <2>1
  <2>4. p - 1 \in Nat /\ p - 1 < B * l BY <2>1, <2>3
  <2>5. q \in Nat /\ B * q <= p - 1 BY <2>1, <2>2, <2>4
  <2>6. B * q < B * l
    <3> PICK x : x = B * q OBVIOUS
    <3> PICK y : y = B * l OBVIOUS
    <3>1. x \in Nat /\ y \in Nat /\ p - 1 \in Nat /\ x <= p - 1 /\ p - 1 < y
      BY <2>1, <2>3, <2>4, <2>5
    <3>2. x < y BY ONLY <3>1
    <3> QED BY <3>2
  <2>7. q < l BY ONLY <2>1, <2>5, <2>6
  <2>8. n = q + 1 BY <1>4, <2>2
  <2> QED BY ONLY <2>1, <2>5, <2>7, <2>8, <2>l
<1>7. \/ slot[1] = 0
      \/ slot[1] \in ListSet(disk.blk, next_rootdir)
  <2>l. PICK l : l = List(disk.blk, next_rootdir) OBVIOUS
  <2>1. l \in Seq(Blocks) BY <2>l, ListFacts
  <2>2. blocks = <<0>> \o l BY <2>l DEF DirectoryBlocks
  <2>3. Len(blocks) = Len(l) + 1 /\ Len(l) \in Nat BY <2>1, <2>2
  <2>4. CASE n = 1 BY <1>5, <2>1, <2>2, <2>4
  <2>5. CASE n # 1
    <3>1. n - 1 \in 1 .. Len(l) BY ONLY <1>6, <2>3, <2>5
    <3>2. blocks[n] = l[n - 1] BY <2>1, <2>2, <2>3, <1>6, <2>5
    <3>3. n - 1 \in DOMAIN l BY <2>1, <3>1
    <3> QED BY <1>5, <2>l, <3>2, <3>3 DEF ListSet
  <2> QED BY <2>4, <2>5
<1>8. ASSUME slot[1] \in ListSet(disk.blk, next_rootdir) PROVE InDirectory(disk, slot)
  <2>1. PICK E : Arranged(disk, next_rootdir, E) BY DEF Structure
  <2>2. PICK H, L, P, own, at :
          Headed(H, disk.freelist, next_rootdir, E) /\ Laid(disk.blk, H, L, P, own, at)
    BY <2>1 DEF Arranged
  <2>3. H[Root] = next_rootdir BY <2>2 DEF Headed
  <2>4. ASSUME NEW o \in Owners
        PROVE  \A b : b \in ListSet(disk.blk, H[o]) <=> b \in Blocks /\ own[b] = o
    BY ONLY <2>2, <2>4, LaidLists
  <2>5. Root \in Owners BY OwnersApart
  <2>6. slot[1] \in Blocks /\ own[slot[1]] = Root BY <1>8, <2>3, <2>4, <2>5
  <2>7. disk.blk[slot[1]].type = TypeOf(Root) BY <2>2, <2>6 DEF Laid
  <2> QED BY <2>6, <2>7, OwnersApart DEF InDirectory
<1> QED BY <1>7, <1>8 DEF InDirectory

LEMMA OpenCreateArranges ==
  ASSUME IInv, Structure, NEW name \in Names, OpenCreate(name)
  PROVE  Structure' /\ DirectoryGrows
<1>1. PICK slot \in EmptySlot : createFile(name, slot) BY DEF OpenCreate
<1>2. slot \in Slots /\ ~ Occupied(files[slot]) BY SlotFound
<1>3. PICK E : EntriesAre(E, files, openFileTable) /\ Arranged(disk, next_rootdir, E)
  BY DEF Structure
<1>4. TypeOK /\ openFileTable' \in [FDs -> OpenFile \cup {NULL}]
  BY <1>1, <1>2, createFileKeeps DEF IInv
<1>5. /\ \E E2 : EntriesAre(E2, files', openFileTable') /\ Arranged(disk, next_rootdir, E2)
      /\ \A s \in Slots \ {slot} : files'[s] = files[s]
  BY <1>1, <1>2, <1>3, <1>4, CreatedArranged
<1>6. InDirectory(disk, slot) BY EmptySlotInDirectory
<1>7. disk' = disk /\ next_rootdir' = next_rootdir BY DEF OpenCreate
<1>8. \A s \in Slots : Occupied(files'[s]) => InDirectory(disk', s)
  BY <1>5, <1>6, <1>7 DEF Structure
<1>9. DirectoryGrows BY <1>7 DEF DirectoryGrows, DirsKept
<1> QED BY <1>5, <1>7, <1>8, <1>9 DEF Structure

(* expandDirectory gives the directory a block in which no entry is in use. *)
LEMMA Expanded ==
  ASSUME IInv, Structure, NEW new \in LastToAllocate(disk, 1), NEW last \in LastDirectoryBlock,
         expandDirectory(new, last)
  PROVE  /\ \E E : /\ EntriesAre(E, files, openFileTable)
                   /\ Arranged(disk', next_rootdir', E)
         /\ \A s \in Slots : InDirectory(disk, s) => InDirectory(disk', s)
         /\ InDirectory(disk', <<new, 1>>) /\ <<new, 1>> \in Slots
         /\ ~ Occupied(files[<<new, 1>>]) /\ DirectoryGrows
         /\ new \in Blocks /\ disk.blk[new].type = "FREE"
<1>1. PICK E : EntriesAre(E, files, openFileTable) /\ Arranged(disk, next_rootdir, E)
  BY DEF Structure
<1>2. disk \in Disk /\ next_rootdir \in BlockId /\ E \in [FileOwners -> Entry]
  BY <1>1 DEF IInv, TypeOK, EntriesAre
<1>3. last = 0 <=> next_rootdir = 0
  <2>1. CASE next_rootdir = 0 BY <2>1 DEF LastDirectoryBlock
  <2>2. CASE next_rootdir # 0
    <3>1. last \in Blocks BY <2>2, FoundBlocks DEF LastDirectoryBlock
    <3> QED BY <2>2, <3>1 DEF Blocks
  <2> QED BY <2>1, <2>2
<1>4. next_rootdir # 0 => last \in LastOf(disk.blk, next_rootdir) BY DEF LastDirectoryBlock
<1>5. /\ next_rootdir = 0 =>
            /\ disk' = [AfterAllocate(disk, "DIR", new) EXCEPT !.blk[new].prev = 0]
            /\ next_rootdir' = new
      /\ next_rootdir # 0 =>
            /\ disk' = AfterAttach(AfterAllocate(disk, "DIR", new), last, new)
            /\ next_rootdir' = next_rootdir
  BY <1>3 DEF expandDirectory
<1>6. /\ Arranged(disk', next_rootdir', E) /\ DirsKept(disk.blk, disk'.blk)
      /\ new \in Blocks /\ disk'.blk[new].type = "DIR" /\ disk.blk[new].type = "FREE"
  <2>1. new \in LastToAllocate(disk, 1) OBVIOUS
  <2> QED BY ONLY <1>1, <1>2, <1>4, <1>5, <2>1, ExpandArranged
<1>7. \A s \in Slots : InDirectory(disk, s) => InDirectory(disk', s)
  BY <1>6 DEF InDirectory, DirsKept
<1>8. <<new, 1>> \in Slots /\ <<new, 1>>[1] = new BY <1>6, BlockIds DEF Slots
<1>9. InDirectory(disk', <<new, 1>>) BY <1>6, <1>8 DEF InDirectory
<1>10. ~ InDirectory(disk, <<new, 1>>)
  <2>1. new # 0 BY <1>6 DEF Blocks
  <2> QED BY <1>6, <1>8, <2>1 DEF InDirectory
<1>11. ~ Occupied(files[<<new, 1>>]) BY <1>8, <1>10 DEF Structure
<1>12. DirectoryGrows BY <1>5, <1>6 DEF DirectoryGrows
<1> QED BY <1>1, <1>6, <1>7, <1>8, <1>9, <1>11, <1>12

LEMMA OpenExpandArranges ==
  ASSUME IInv, Structure, NEW name \in Names, OpenExpand(name)
  PROVE  Structure' /\ DirectoryGrows
<1>1. PICK new \in LastToAllocate(disk, 1), last \in LastDirectoryBlock :
        expandDirectory(new, last) /\ createFile(name, <<new, 1>>)
  BY DEF OpenExpand
<1>2. PICK slot : slot = <<new, 1>> OBVIOUS
<1>3. /\ \E E : /\ EntriesAre(E, files, openFileTable)
                /\ Arranged(disk', next_rootdir', E)
      /\ \A s \in Slots : InDirectory(disk, s) => InDirectory(disk', s)
      /\ InDirectory(disk', slot) /\ slot \in Slots
      /\ ~ Occupied(files[slot]) /\ DirectoryGrows
  BY <1>1, <1>2, Expanded
<1>4. PICK E : EntriesAre(E, files, openFileTable) /\ Arranged(disk', next_rootdir', E)
  BY <1>3
<1>5. createFile(name, slot) BY <1>1, <1>2
<1>6. TypeOK /\ openFileTable' \in [FDs -> OpenFile \cup {NULL}]
  BY <1>3, <1>5, createFileKeeps DEF IInv
<1>7. /\ \E E2 : EntriesAre(E2, files', openFileTable') /\ Arranged(disk', next_rootdir', E2)
      /\ \A s \in Slots \ {slot} : files'[s] = files[s]
  BY <1>3, <1>4, <1>5, <1>6, CreatedArranged
<1>8. \A s \in Slots : Occupied(files'[s]) => InDirectory(disk', s)
  BY <1>3, <1>7 DEF Structure
<1> QED BY <1>3, <1>7, <1>8 DEF Structure

LEMMA OpenNoMemoryArranges ==
  ASSUME IInv, Structure, NEW name \in Names, OpenNoMemory(name)
  PROVE  Structure' /\ DirectoryGrows
<1>1. PICK new \in LastToAllocate(disk, 1), last \in LastDirectoryBlock :
        expandDirectory(new, last)
  BY DEF OpenNoMemory
<1>2. /\ \E E : EntriesAre(E, files, openFileTable) /\ Arranged(disk', next_rootdir', E)
      /\ \A s \in Slots : InDirectory(disk, s) => InDirectory(disk', s)
      /\ DirectoryGrows
  BY <1>1, Expanded
<1>3. files' = files /\ openFileTable' = openFileTable BY DEF OpenNoMemory
<1> QED BY <1>2, <1>3 DEF Structure

(* A file that nobody needs any more gives its blocks back, if it has any. *)
LEMMA DroppedArranged ==
  ASSUME NEW d \in Disk, NEW root, NEW E \in [FileOwners -> Entry], Arranged(d, root, E),
         NEW o \in FileOwners, Occupied(E[o]),
         NEW d2,
         E[o].first_block = SFS_EMPTY_FILE_BLOCK => d2 = d,
         E[o].first_block # SFS_EMPTY_FILE_BLOCK =>
            \E last \in LastOf(d.blk, E[o].first_block) :
                d2 = AfterFree(d, E[o].first_block, last),
         NEW E2 \in [FileOwners -> Entry], \A q \in FileOwners \ {o} : E2[q] = E[q],
         ~ Occupied(E2[o])
  PROVE  Arranged(d2, root, E2) /\ DirsKept(d.blk, d2.blk)
<1>1. E2[o].first_block \notin Blocks BY DEF Occupied, Blocks
<1>0. /\ E \in [FileOwners -> Entry] /\ E2 \in [FileOwners -> Entry] /\ o \in FileOwners
      /\ Arranged(d, root, E) /\ d \in Disk
      /\ \A q \in FileOwners \ {o} : E2[q] = E[q]
      /\ Occupied(E[o])
  OBVIOUS
<1>2. CASE E[o].first_block = SFS_EMPTY_FILE_BLOCK
  <2>1. d2 = d /\ E[o].first_block \notin Blocks BY <1>2 DEF SFS_EMPTY_FILE_BLOCK, Blocks
  <2>2. ~ Occupied(E2[o]) OBVIOUS
  <2>3. Arranged(d, root, E2) BY ONLY <1>0, <1>1, <2>1, <2>2, EntryChanged
  <2> QED BY <2>1, <2>3 DEF DirsKept
<1>3. CASE E[o].first_block # SFS_EMPTY_FILE_BLOCK
  <2>1. PICK last \in LastOf(d.blk, E[o].first_block) :
            d2 = AfterFree(d, E[o].first_block, last)
    BY <1>3
  <2>k. PICK k : k = 0 OBVIOUS
  <2>f. PICK first : first = E[o].first_block OBVIOUS
  <2>2. 0 < allocatedBlocksForFile(E[o])
    <3>1. SizedRight(E[o]) BY <1>0, LiveSized
    <3>2. E[o] \in Entry OBVIOUS
    <3>3. allocatedBlocksForFile(E[o]) \in Nat /\ allocatedBlocksForFile(E[o]) # 0
      BY <1>3, <3>1, <3>2, FileCapacity
    <3> QED BY <3>3
  <2>3. /\ k \in Nat /\ k < allocatedBlocksForFile(E[o])
        /\ k = 0 /\ first = E[o].first_block
        /\ last \in LastOf(d.blk, E[o].first_block)
        /\ d2 = AfterFree(d, first, last)
        /\ FileFits(E2[o], k)
    BY <2>1, <2>2, <2>k, <2>f DEF FileFits
  <2> QED BY ONLY <1>0, <1>1, <2>3, FreeArranged
<1> QED BY <1>2, <1>3

(* unlinkDirectoryEntry: the entry of the slot moves to the open file, or its blocks *)
(* are freed.                                                                        *)
LEMMA UnlinkArranged ==
  ASSUME TypeOK, NEW slot \in Slots, Occupied(files[slot]), unlinkDirectoryEntry(slot),
         openFileTable' \in [FDs -> OpenFile \cup {NULL}],
         NEW E, EntriesAre(E, files, openFileTable), Arranged(disk, next_rootdir, E),
         NEW f2 \in [Slots -> Entry], f2[slot] = UnusedEntry,
         \A s \in Slots \ {slot} : f2[s] = files[s]
  PROVE  /\ \E E2 : EntriesAre(E2, f2, openFileTable') /\ Arranged(disk', next_rootdir, E2)
         /\ DirsKept(disk.blk, disk'.blk)
<1>1. PICK E2 : EntriesAre(E2, f2, openFileTable') BY EntriesExist
<1>2. /\ openFileTable \in [FDs -> OpenFile \cup {NULL}] /\ disk \in Disk
      /\ E \in [FileOwners -> Entry] /\ E2 \in [FileOwners -> Entry]
      /\ \A s \in Slots : E[s] = files[s] /\ E2[s] = f2[s]
      /\ \A j \in FDs : /\ E[Own(j)] = OwnEntry(openFileTable[j])
                        /\ E2[Own(j)] = OwnEntry(openFileTable'[j])
  BY <1>1 DEF TypeOK, EntriesAre
<1>3. /\ slot \in FileOwners /\ Occupied(E[slot]) /\ ~ Occupied(E2[slot])
      /\ Arranged(disk, next_rootdir, E)
  BY <1>2 DEF FileOwners, Occupied, UnusedEntry
<1>4. /\ \A j \in FDs : Own(j) \in FileOwners /\ Own(j) \notin Slots
      /\ \A j, k \in FDs : Own(j) = Own(k) => j = k
      /\ \A q \in FileOwners : q \in Slots \/ \E j \in FDs : q = Own(j)
  BY OwnersApart DEF FileOwners
<1>5. CASE findOpenFile(slot) # {}
  <2>1. PICK i \in findOpenFile(slot) :
          openFileTable' = [openFileTable EXCEPT
                  ![i].unlinkedFile = files[slot],
                  ![i].diskFile = UnlinkedFile,
                  ![i].unlinked = TRUE]
    BY <1>5 DEF unlinkDirectoryEntry
  <2>2. disk' = disk BY <1>5 DEF unlinkDirectoryEntry
  <2>3. i \in FDs /\ openFileTable[i] # NULL /\ openFileTable[i].diskFile = slot
    BY OpenFileSearch
  <2>n. PICK new : new = [openFileTable[i] EXCEPT
                  !.unlinkedFile = files[slot], !.diskFile = UnlinkedFile, !.unlinked = TRUE]
    OBVIOUS
  <2>4. /\ openFileTable'[i] = new
        /\ \A j \in FDs \ {i} : openFileTable'[j] = openFileTable[j]
    BY <1>2, <2>1, <2>3, <2>n
  <2>5. openFileTable[i] \in OpenFile BY <1>2, <2>3
  <2>6. new.diskFile = UnlinkedFile /\ new.unlinkedFile = files[slot]
    BY ONLY <2>5, <2>n DEF OpenFile
  <2>7. new # NULL
    <3>1. new \in OpenFile \cup {NULL} BY <2>3, <2>4
    <3>2. files[slot] \in Entry BY DEF TypeOK
    <3>3. new \in OpenFile BY ONLY <2>5, <2>n, <3>2 DEF OpenFile
    <3> QED BY <3>3, NullAssumption
  <2>8. E2[Own(i)] = E[slot] BY <1>2, <2>3, <2>4, <2>6, <2>7 DEF OwnEntry
  <2>9. E[Own(i)].first_block \notin Blocks
    <3>1. slot # UnlinkedFile BY BlockIds
    <3> QED BY <1>2, <2>3, <3>1 DEF OwnEntry, UnusedEntry, Blocks
  <2>10. \A q \in FileOwners \ {slot, Own(i)} : E2[q] = E[q] BY <1>2, <1>4, <2>4
  <2>11. slot # Own(i) /\ Own(i) \in FileOwners BY <1>4, <2>3
  <2>12. Arranged(disk, next_rootdir, E2)
    BY ONLY <1>2, <1>3, <2>8, <2>9, <2>10, <2>11, MoveArranged
  <2> QED BY <1>1, <2>2, <2>12 DEF DirsKept
<1>6. CASE findOpenFile(slot) = {}
  <2>1. openFileTable' = openFileTable BY <1>6 DEF unlinkDirectoryEntry
  <2>2. /\ E[slot].first_block = SFS_EMPTY_FILE_BLOCK => disk' = disk
        /\ E[slot].first_block # SFS_EMPTY_FILE_BLOCK =>
            \E last \in LastOf(disk.blk, E[slot].first_block) :
                disk' = AfterFree(disk, E[slot].first_block, last)
    BY <1>2, <1>6 DEF unlinkDirectoryEntry
  <2>3. \A q \in FileOwners \ {slot} : E2[q] = E[q] BY <1>2, <1>4, <2>1
  <2>4. Arranged(disk', next_rootdir, E2) /\ DirsKept(disk.blk, disk'.blk)
    BY ONLY <1>2, <1>3, <2>2, <2>3, DroppedArranged, SMTT(30)
  <2> QED BY <1>1, <2>4
<1> QED BY <1>5, <1>6

LEMMA RemoveArranges ==
  ASSUME IInv, IInv', Structure, NEW name \in Names, Remove(name)
  PROVE  Structure' /\ DirectoryGrows
<1>1. PICK slot \in findDirectoryEntry(name) :
        /\ unlinkDirectoryEntry(slot)
        /\ files' = [files EXCEPT ![slot] = UnusedEntry]
  BY DEF Remove
<1>2. slot \in Slots /\ Occupied(files[slot]) BY EntryFound
<1>3. PICK E : EntriesAre(E, files, openFileTable) /\ Arranged(disk, next_rootdir, E)
  BY DEF Structure
<1>4. /\ TypeOK /\ files \in [Slots -> Entry] /\ files' \in [Slots -> Entry]
      /\ openFileTable' \in [FDs -> OpenFile \cup {NULL}]
  BY DEF IInv, TypeOK
<1>5. files'[slot] = UnusedEntry /\ \A s \in Slots \ {slot} : files'[s] = files[s]
  BY <1>1, <1>2, <1>4
<1>6. /\ \E E2 : EntriesAre(E2, files', openFileTable') /\ Arranged(disk', next_rootdir, E2)
      /\ DirsKept(disk.blk, disk'.blk)
  BY <1>1, <1>2, <1>3, <1>4, <1>5, UnlinkArranged
<1>7. \A s \in Slots : Occupied(files'[s]) => Occupied(files[s])
  BY <1>5 DEF Occupied, UnusedEntry
<1>8. next_rootdir' = next_rootdir BY DEF Remove
<1>9. DirectoryGrows BY <1>6, <1>8 DEF DirectoryGrows
<1> QED BY <1>6, <1>7, <1>8, <1>9, DirectoryKept DEF Structure

(* A file keeps its blocks when its name changes. *)
LEMMA RenamedArranged ==
  ASSUME NEW f \in [Slots -> Entry], NEW t \in [FDs -> OpenFile \cup {NULL}],
         NEW E, EntriesAre(E, f, t), NEW d, NEW root, Arranged(d, root, E),
         NEW s \in Slots, Occupied(f[s]), NEW name \in Names,
         NEW f2 \in [Slots -> Entry], \A r \in Slots \ {s} : f2[r] = f[r],
         f2[s] = [f[s] EXCEPT !.name = name]
  PROVE  \E E2 : EntriesAre(E2, f2, t) /\ Arranged(d, root, E2)
<1>1. PICK E2 : EntriesAre(E2, f2, t) /\ Reassigned(E, E2, s, f[s], f2[s])
  BY SlotReassigned
<1>2. /\ E \in [FileOwners -> Entry] /\ E2 \in [FileOwners -> Entry] /\ s \in FileOwners
      /\ E[s] = f[s] /\ E2[s] = f2[s]
      /\ \A q \in FileOwners \ {s} : E2[q] = E[q]
  BY <1>1 DEF Reassigned
<1>3. E2[s].first_block = E[s].first_block /\ E2[s].size = E[s].size
  <2>1. f[s] \in Entry /\ f2[s] = [f[s] EXCEPT !.name = name] OBVIOUS
  <2> QED BY ONLY <1>2, <2>1 DEF Entry
<1>4. Occupied(E[s]) /\ SizedRight(E[s]) BY <1>2, LiveSized
<1>5. /\ SizedRight(E2[s])
      /\ allocatedBlocksForFile(E2[s]) = allocatedBlocksForFile(E[s])
      /\ Arranged(d, root, E)
  BY <1>3, <1>4 DEF SizedRight, allocatedBlocksForFile
<1>6. Arranged(d, root, E2) BY ONLY <1>2, <1>3, <1>4, <1>5, EntryChanged
<1> QED BY <1>1, <1>6

LEMMA RenameFreshArranges ==
  ASSUME IInv, IInv', Structure, NEW old_name \in Names, NEW new_name \in Names,
         RenameFresh(old_name, new_name)
  PROVE  Structure' /\ DirectoryGrows
<1>1. PICK slot \in findDirectoryEntry(old_name) :
        files' = [files EXCEPT ![slot].name = new_name]
  BY DEF RenameFresh
<1>2. slot \in Slots /\ Occupied(files[slot]) BY EntryFound
<1>3. UNCHANGED <<disk, next_rootdir, openFileTable>> BY DEF RenameFresh
<1>4. /\ files \in [Slots -> Entry] /\ files' \in [Slots -> Entry]
      /\ openFileTable \in [FDs -> OpenFile \cup {NULL}]
  BY DEF IInv, TypeOK
<1>5. PICK E : EntriesAre(E, files, openFileTable) /\ Arranged(disk, next_rootdir, E)
  BY DEF Structure
<1>6. /\ files'[slot] = [files[slot] EXCEPT !.name = new_name]
      /\ \A s \in Slots \ {slot} : files'[s] = files[s]
  BY <1>1, <1>2, <1>4
<1>7. \E E2 : EntriesAre(E2, files', openFileTable) /\ Arranged(disk, next_rootdir, E2)
  BY <1>2, <1>4, <1>5, <1>6, RenamedArranged
<1>8. \A s \in Slots : Occupied(files'[s]) => Occupied(files[s]) BY <1>2, <1>6
<1>9. \A s \in Slots : Occupied(files'[s]) => InDirectory(disk', s)
  BY <1>3, <1>8 DEF Structure
<1>10. DirectoryGrows BY <1>3 DEF DirectoryGrows, DirsKept
<1> QED BY <1>3, <1>7, <1>9, <1>10 DEF Structure

LEMMA RenameOverArranges ==
  ASSUME IInv, IInv', Structure, NEW old_name \in Names, NEW new_name \in Names,
         RenameOver(old_name, new_name)
  PROVE  Structure' /\ DirectoryGrows
<1>1. PICK slot \in findDirectoryEntry(old_name), victim \in findDirectoryEntry(new_name) :
        /\ unlinkDirectoryEntry(victim)
        /\ files' = [files EXCEPT ![victim] = UnusedEntry, ![slot].name = new_name]
  BY DEF RenameOver
<1>2. /\ slot \in Slots /\ Occupied(files[slot]) /\ files[slot].name = old_name
      /\ victim \in Slots /\ Occupied(files[victim]) /\ files[victim].name = new_name
  BY EntryFound
<1>3. slot # victim BY <1>2 DEF RenameOver
<1>4. /\ TypeOK /\ files \in [Slots -> Entry] /\ files' \in [Slots -> Entry]
      /\ openFileTable' \in [FDs -> OpenFile \cup {NULL}]
  BY DEF IInv, TypeOK
<1>5. PICK E : EntriesAre(E, files, openFileTable) /\ Arranged(disk, next_rootdir, E)
  BY DEF Structure
<1>u. PICK f : f = [files EXCEPT ![victim] = UnusedEntry] OBVIOUS
<1>6. UnusedEntry \in Entry BY BlockIds DEF UnusedEntry, Entry
<1>7. /\ f \in [Slots -> Entry] /\ f[victim] = UnusedEntry
      /\ \A s \in Slots \ {victim} : f[s] = files[s]
  BY <1>2, <1>4, <1>6, <1>u
<1>8. files' = [f EXCEPT ![slot].name = new_name] BY <1>1, <1>u
<1>9. /\ files'[slot] = [f[slot] EXCEPT !.name = new_name]
      /\ \A s \in Slots \ {slot} : files'[s] = f[s]
  BY <1>2, <1>7, <1>8
<1>10. /\ \E E1 : EntriesAre(E1, f, openFileTable') /\ Arranged(disk', next_rootdir, E1)
       /\ DirsKept(disk.blk, disk'.blk)
  BY <1>1, <1>2, <1>4, <1>5, <1>7, UnlinkArranged
<1>11. PICK E1 : EntriesAre(E1, f, openFileTable') /\ Arranged(disk', next_rootdir, E1)
  BY <1>10
<1>12. Occupied(f[slot]) BY <1>2, <1>3, <1>7
<1>13. \E E2 : EntriesAre(E2, files', openFileTable') /\ Arranged(disk', next_rootdir, E2)
  BY <1>2, <1>4, <1>7, <1>9, <1>11, <1>12, RenamedArranged
<1>14. \A s \in Slots : Occupied(files'[s]) => Occupied(files[s])
  <2> SUFFICES ASSUME NEW s \in Slots, Occupied(files'[s]) PROVE Occupied(files[s]) OBVIOUS
  <2>1. CASE s = slot BY <1>2, <2>1
  <2>2. CASE s = victim
    <3>1. files'[s] = UnusedEntry BY <1>3, <1>7, <1>9, <2>2
    <3> QED BY <3>1 DEF Occupied, UnusedEntry
  <2>3. CASE s # slot /\ s # victim BY <1>7, <1>9, <2>3
  <2> QED BY <2>1, <2>2, <2>3
<1>15. next_rootdir' = next_rootdir BY DEF RenameOver
<1>16. DirectoryGrows BY <1>10, <1>15 DEF DirectoryGrows
<1> QED BY <1>10, <1>13, <1>14, <1>15, <1>16, DirectoryKept DEF Structure

(* sfs_close frees the blocks of an unlinked file when nobody has it open any more. *)
LEMMA CloseArranges ==
  ASSUME IInv, IInv', Structure, NEW fd \in FDs, Close(fd)
  PROVE  Structure' /\ DirectoryGrows
<1>i. PICK i : i = openFileDescTable[fd].fileEntry OBVIOUS
<1>1. /\ openFileDescTable[fd] # NULL
      /\ UNCHANGED <<next_rootdir, files>>
      /\ \/ /\ openFileTable' = [openFileTable EXCEPT ![i].refCount = @ - 1]
            /\ openFileTable[i].refCount > 1 /\ disk' = disk
         \/ /\ openFileTable' = [openFileTable EXCEPT ![i] = NULL]
            /\ IF openFileTable[i].unlinked
                  /\ DiskEntry(i).first_block # SFS_EMPTY_FILE_BLOCK
               THEN \E last \in LastOf(disk.blk, DiskEntry(i).first_block) :
                      disk' = AfterFree(disk, DiskEntry(i).first_block, last)
               ELSE disk' = disk
  BY <1>i DEF Close
<1>2. i \in FDs /\ openFileTable[i] # NULL BY <1>1, <1>i, DescriptorFile DEF IInv
<1>3. /\ openFileTable \in [FDs -> OpenFile \cup {NULL}] /\ disk \in Disk
      /\ openFileTable' \in [FDs -> OpenFile \cup {NULL}] /\ files \in [Slots -> Entry]
  BY DEF IInv, TypeOK
<1>4. openFileTable[i] \in OpenFile BY <1>2, <1>3
<1>5. openFileTable[i].unlinked <=> openFileTable[i].diskFile = UnlinkedFile
  BY <1>2 DEF IInv, OpenFilesTrackEntries
<1>6. CASE /\ openFileTable' = [openFileTable EXCEPT ![i].refCount = @ - 1]
           /\ openFileTable[i].refCount > 1 /\ disk' = disk
  <2>n. PICK new : new = [openFileTable[i] EXCEPT !.refCount = @ - 1] OBVIOUS
  <2>1. openFileTable'[i] = new /\ \A j \in FDs \ {i} : openFileTable'[j] = openFileTable[j]
    BY <1>2, <1>3, <1>6, <2>n
  <2>2. new.diskFile = openFileTable[i].diskFile
        /\ new.unlinkedFile = openFileTable[i].unlinkedFile
    BY ONLY <1>4, <2>n DEF OpenFile
  <2>3. new # NULL
    <3>1. openFileTable[i].refCount - 1 \in Nat BY ONLY <1>4, <1>6 DEF OpenFile
    <3>2. new \in OpenFile BY ONLY <1>4, <2>n, <3>1 DEF OpenFile
    <3> QED BY ONLY <3>2, NullAssumption
  <2>4. \A j \in FDs : OwnEntry(openFileTable'[j]) = OwnEntry(openFileTable[j])
    BY <1>2, <2>1, <2>2, <2>3 DEF OwnEntry
  <2> QED BY <1>1, <1>6, <2>4, StructureSame
<1>7. CASE /\ openFileTable' = [openFileTable EXCEPT ![i] = NULL]
           /\ ~ openFileTable[i].unlinked /\ disk' = disk
  <2>1. OwnEntry(openFileTable'[i]) = OwnEntry(openFileTable[i])
    BY <1>2, <1>3, <1>5, <1>7 DEF OwnEntry
  <2>2. \A j \in FDs : OwnEntry(openFileTable'[j]) = OwnEntry(openFileTable[j])
    BY <1>3, <1>7, <2>1
  <2> QED BY <1>1, <1>7, <2>2, StructureSame
<1>8. CASE /\ openFileTable' = [openFileTable EXCEPT ![i] = NULL]
           /\ openFileTable[i].unlinked
           /\ IF DiskEntry(i).first_block # SFS_EMPTY_FILE_BLOCK
              THEN \E last \in LastOf(disk.blk, DiskEntry(i).first_block) :
                      disk' = AfterFree(disk, DiskEntry(i).first_block, last)
              ELSE disk' = disk
  <2>1. PICK E : EntriesAre(E, files, openFileTable) /\ Arranged(disk, next_rootdir, E)
    BY DEF Structure
  <2>2. PICK E2 : EntriesAre(E2, files', openFileTable') BY <1>1, <1>3, EntriesExist
  <2>o. PICK o : o = Own(i) OBVIOUS
  <2>3. /\ E \in [FileOwners -> Entry] /\ E2 \in [FileOwners -> Entry]
        /\ \A s \in Slots : E[s] = files[s] /\ E2[s] = files[s]
        /\ \A j \in FDs : /\ E[Own(j)] = OwnEntry(openFileTable[j])
                          /\ E2[Own(j)] = OwnEntry(openFileTable'[j])
    BY <1>1, <2>1, <2>2 DEF EntriesAre
  <2>4. openFileTable'[i] = NULL /\ \A j \in FDs \ {i} : openFileTable'[j] = openFileTable[j]
    BY <1>2, <1>3, <1>8
  <2>5. o \in FileOwners /\ E[o] = DiskEntry(i) /\ ~ Occupied(E2[o])
    <3>1. o \in FileOwners BY <1>2, <2>o DEF FileOwners
    <3>2. E[o] = DiskEntry(i) BY <1>2, <1>5, <1>8, <2>3, <2>o DEF OwnEntry, DiskEntry
    <3>3. E2[o] = UnusedEntry BY <1>2, <2>3, <2>4, <2>o DEF OwnEntry
    <3> QED BY <3>1, <3>2, <3>3 DEF UnusedEntry, Occupied
  <2>6. \A q \in FileOwners \ {o} : E2[q] = E[q] BY <2>3, <2>4, <2>o DEF FileOwners
  <2>7. Occupied(E[o]) BY <1>2, <2>5, LiveEntry
  <2>8. /\ E[o].first_block = SFS_EMPTY_FILE_BLOCK => disk' = disk
        /\ E[o].first_block # SFS_EMPTY_FILE_BLOCK =>
            \E last \in LastOf(disk.blk, E[o].first_block) :
                disk' = AfterFree(disk, E[o].first_block, last)
    BY <1>8, <2>5
  <2>9. Arranged(disk', next_rootdir, E2) /\ DirsKept(disk.blk, disk'.blk)
    BY ONLY <1>3, <2>1, <2>3, <2>5, <2>6, <2>7, <2>8, DroppedArranged
  <2>10. \A s \in Slots : Occupied(files'[s]) => Occupied(files[s]) BY <1>1
  <2>11. DirectoryGrows BY <1>1, <2>9 DEF DirectoryGrows
  <2> QED BY <1>1, <2>2, <2>9, <2>10, <2>11, DirectoryKept DEF Structure
<1> QED BY <1>1, <1>6, <1>7, <1>8

-----------------------------------------------------------------------------
(* The initial states *)

(* sfs_format puts every block on the free list, in order. *)
LEMMA FormattedLaid ==
  ASSUME NEW H, H[FreeList] = 1, \A q \in Owners \ {FreeList} : H[q] \notin Blocks
  PROVE  \E L, P, own, at :
            /\ Laid(FormattedDisk.blk, H, L, P, own, at)
            /\ L[FreeList] = NBlocks - 1
            /\ \A q \in Owners \ {FreeList} : L[q] = 0
<1>l. PICK L : L = [q \in Owners |-> IF q = FreeList THEN NBlocks - 1 ELSE 0] OBVIOUS
<1>p. PICK P : P = [q \in Owners |-> [i \in Blocks |-> i]] OBVIOUS
<1>o. PICK own : own = [b \in Blocks |-> FreeList] OBVIOUS
<1>s. PICK at : at = [b \in Blocks |-> b] OBVIOUS
<1>1. FreeList \in Owners BY OwnersApart
<1>2. NBlocks - 1 \in Nat /\ NBlocks - 1 # 0 /\ Blocks = 1 .. NBlocks - 1 BY DEF Blocks
<1>3. /\ L[FreeList] = NBlocks - 1 /\ P[FreeList] = [i \in Blocks |-> i]
      /\ \A q \in Owners \ {FreeList} : L[q] = 0
  BY <1>1, <1>l, <1>p
<1>4. ASSUME NEW q \in Owners
      PROVE  /\ L[q] \in Nat
             /\ L[q] = 0 => H[q] \notin Blocks
             /\ L[q] # 0 => H[q] = P[q][1]
             /\ \A i \in 1 .. L[q] : P[q][i] \in Blocks /\ own[P[q][i]] = q /\ at[P[q][i]] = i
  <2>1. CASE q = FreeList
    <3>1. 1 \in Blocks BY <1>2
    <3>2. P[q][1] = 1 BY <1>3, <2>1, <3>1
    <3>3. L[q] = NBlocks - 1 /\ H[q] = 1 BY <1>3, <2>1
    <3>4. ASSUME NEW i \in 1 .. L[q]
          PROVE  P[q][i] \in Blocks /\ own[P[q][i]] = q /\ at[P[q][i]] = i
      <4>1. i \in Blocks BY <1>2, <3>3
      <4>2. P[q][i] = i BY <1>3, <2>1, <4>1
      <4> QED BY <1>o, <1>s, <2>1, <4>1, <4>2
    <3> QED BY <1>2, <3>2, <3>3, <3>4
  <2>2. CASE q # FreeList
    <3>1. L[q] = 0 /\ H[q] \notin Blocks BY <1>3, <2>2
    <3> QED BY <3>1
  <2> QED BY <2>1, <2>2
<1>5. ASSUME NEW b \in Blocks
      PROVE  /\ own[b] \in Owners /\ at[b] \in 1 .. L[own[b]] /\ P[own[b]][at[b]] = b
             /\ FormattedDisk.blk[b].type = TypeOf(own[b])
             /\ FormattedDisk.blk[b].prev = IF at[b] = 1 THEN 0 ELSE P[own[b]][at[b] - 1]
             /\ FormattedDisk.blk[b].next
                    = IF at[b] = L[own[b]] THEN 0 ELSE P[own[b]][at[b] + 1]
  <2>1. own[b] = FreeList /\ at[b] = b BY <1>o, <1>s
  <2>2. /\ FormattedDisk.blk[b].type = "FREE" /\ FormattedDisk.blk[b].prev = b - 1
        /\ FormattedDisk.blk[b].next = IF b + 1 = NBlocks THEN 0 ELSE b + 1
    BY DEF FormattedDisk
  <2>3. b \in 1 .. NBlocks - 1 BY <1>2
  <2>4. b # 1 => b - 1 \in Blocks /\ P[FreeList][b - 1] = b - 1
    <3>1. b # 1 => b - 1 \in Blocks BY <1>2, <2>3
    <3> QED BY <1>3, <3>1
  <2>5. b # NBlocks - 1 => b + 1 \in Blocks /\ P[FreeList][b + 1] = b + 1
    <3>1. b # NBlocks - 1 => b + 1 \in Blocks BY <1>2, <2>3
    <3> QED BY <1>3, <3>1
  <2>6. b + 1 = NBlocks <=> b = NBlocks - 1 BY <2>3
  <2>7. FormattedDisk.blk[b].prev = IF b = 1 THEN 0 ELSE P[FreeList][b - 1]
    <3>1. b = 1 => b - 1 = 0 OBVIOUS
    <3> QED BY <2>2, <2>4, <3>1
  <2>8. FormattedDisk.blk[b].next = IF b = NBlocks - 1 THEN 0 ELSE P[FreeList][b + 1]
    BY ONLY <2>2, <2>5, <2>6
  <2>9. P[FreeList][b] = b BY <1>3
  <2> QED BY <1>1, <1>3, <2>1, <2>2, <2>3, <2>7, <2>8, <2>9, OwnersApart
<1>6. Laid(FormattedDisk.blk, H, L, P, own, at) BY <1>4, <1>5 DEF Laid
<1> QED BY <1>3, <1>6

\* No file has an entry, and no file has blocks.
AllUnused(E) == E \in [FileOwners -> Entry] /\ \A o \in FileOwners : E[o] = UnusedEntry

LEMMA FormattedHeads ==
  ASSUME NEW E, AllUnused(E), NEW H, Headed(H, FormattedDisk.freelist, 0, E)
  PROVE  \E L, P, own, at :
            /\ Laid(FormattedDisk.blk, H, L, P, own, at)
            /\ L[FreeList] = NBlocks - 1 /\ H[FreeList] = 1
            /\ \A q \in Owners \ {FreeList} : L[q] = 0 /\ H[q] = 0
<1>1. 0 \notin Blocks BY DEF Blocks
<1>2. H[FreeList] = 1 BY DEF Headed, FormattedDisk
<1>3. \A q \in Owners \ {FreeList} : H[q] = 0 BY DEF Owners, Headed, AllUnused, UnusedEntry
<1> QED BY <1>1, <1>2, <1>3, FormattedLaid

(* An empty file of a legacy image has the first block of the free list. *)
LEMMA LegacyArranged ==
  ASSUME NEW E, AllUnused(E), NEW o \in FileOwners, NEW E2 \in [FileOwners -> Entry],
         \A q \in FileOwners \ {o} : E2[q] = E[q],
         E2[o].first_block = 1, E2[o].size = 0
  PROVE  Arranged(AfterAllocate(FormattedDisk, "FILE", 1), 0, E2)
<1>d. PICK d : d = FormattedDisk OBVIOUS
<1>2. PICK d2 : d2 = AfterAllocate(d, "FILE", 1) OBVIOUS
<1>h. PICK H : Headed(H, d.freelist, 0, E) BY HeadsExist
<1>k. PICK H2 : Headed(H2, d2.freelist, 0, E2) BY HeadsExist
<1>3. PICK L, P, own, at : /\ Laid(d.blk, H, L, P, own, at)
                            /\ L[FreeList] = NBlocks - 1 /\ H[FreeList] = 1
                            /\ \A q \in Owners \ {FreeList} : L[q] = 0 /\ H[q] = 0
  BY <1>d, <1>h, FormattedHeads
<1>4. /\ o \in Owners /\ o # FreeList /\ o # Root /\ TypeOf(o) = "FILE"
      /\ FreeList \in Owners
  BY OwnersApart
<1>5. L[o] = 0 /\ H[o] = 0 BY <1>3, <1>4
<1>6. d \in Disk /\ d.freelist = 1
  <2>1. \A b \in Blocks : b - 1 \in BlockId /\ (b + 1 # NBlocks => b + 1 \in BlockId)
    BY DEF Blocks, BlockId
  <2>2. 1 \in BlockId BY DEF BlockId
  <2> QED BY <1>d, <2>1, <2>2, BlockIds DEF FormattedDisk, Disk, Header
<1>7. 1 \in LastToAllocate(d, 1)
  <2>1. ASSUME NEW q \in Owners
        PROVE  \A k \in Nat : \A b :
                  b \in fileBlockAt(d.blk, H[q], k) <=> k < L[q] /\ b = P[q][k + 1]
    <3>1. PICK blk : blk = d.blk OBVIOUS
    <3>2. Laid(blk, H, L, P, own, at) BY <1>3, <3>1
    <3>3. \A k \in Nat : \A b : b \in fileBlockAt(blk, H[q], k) <=> k < L[q] /\ b = P[q][k + 1]
      BY ONLY <2>1, <3>2, LaidLists
    <3> QED BY ONLY <3>1, <3>3
  <2>2. 0 < L[FreeList] /\ 0 \in Nat /\ 0 + 1 = 1 BY <1>3
  <2>3. P[FreeList][1] = 1
    <3>1. L[FreeList] # 0 => H[FreeList] = P[FreeList][1] BY <1>3, <1>4 DEF Laid
    <3> QED BY <1>3, <2>2, <3>1
  <2>4. 1 \in fileBlockAt(d.blk, d.freelist, 0)
    <3>1. \A k \in Nat : \A b :
            b \in fileBlockAt(d.blk, H[FreeList], k) <=> k < L[FreeList] /\ b = P[FreeList][k + 1]
      BY <1>4, <2>1
    <3>2. 1 \in fileBlockAt(d.blk, H[FreeList], 0) <=> 0 < L[FreeList] /\ 1 = P[FreeList][0 + 1]
      BY <2>2, <3>1
    <3> QED BY <1>3, <1>6, <2>2, <2>3, <3>2
  <2> QED BY <2>4 DEF LastToAllocate
<1>8. H2[o] = 1 /\ H2[FreeList] = d2.freelist /\ H2[Root] = 0 BY <1>k DEF Headed
<1>9. \A q \in Owners \ {FreeList, o} : H2[q] = H[q]
  <2>1. ASSUME NEW q \in FileOwners, q # o PROVE H2[q] = H[q]
    <3>1. H2[q] = E2[q].first_block /\ H[q] = E[q].first_block /\ E2[q] = E[q]
      BY <1>h, <1>k, <2>1 DEF Headed
    <3> QED BY <3>1
  <2>2. H2[Root] = H[Root] BY <1>h, <1>8 DEF Headed
  <2> QED BY <2>1, <2>2 DEF Owners
<1>10. Takes(d, H, L, P, own, at, 1, 1, o, 0, d2, H2)
  BY <1>2, <1>3, <1>4, <1>5, <1>6, <1>7, <1>8, <1>9 DEF Takes
<1>11. Rearranged(d2.blk, H2, L, own, at, o, L[o] + 1) BY ONLY <1>10, TakeBlocks
<1>12. PICK L2, P2, own2, at2 :
        /\ Laid(d2.blk, H2, L2, P2, own2, at2)
        /\ L2[o] = 1 /\ \A q \in Owners \ {FreeList, o} : L2[q] = L[q]
  BY <1>5, <1>11 DEF Rearranged
<1>13. ASSUME NEW q \in FileOwners PROVE FileFits(E2[q], L2[q])
  <2>1. CASE q = o
    <3>1. SFS_EMPTY_FILE_BLOCK # 1 BY DEF SFS_EMPTY_FILE_BLOCK
    <3> QED BY <1>12, <2>1, <3>1 DEF FileFits, SizedRight, allocatedBlocksForFile
  <2>2. CASE q # o BY <2>2 DEF FileFits, AllUnused, Occupied, UnusedEntry
  <2> QED BY <2>1, <2>2
<1>14. Arranged(d2, 0, E2) BY <1>12, <1>13, <1>k DEF Arranged
<1> QED BY <1>2, <1>14, <1>d

LEMMA StructureInit == Init => Structure
<1> SUFFICES ASSUME Init PROVE Structure OBVIOUS
<1>1. /\ next_rootdir = 0 /\ \A i \in FDs : openFileTable[i] = NULL
      /\ openFileTable \in [FDs -> OpenFile \cup {NULL}]
  BY DEF Init
<1>2. UnusedEntry \in Entry BY BlockIds DEF UnusedEntry, Entry
<1>3. PICK E : E = [o \in FileOwners |-> UnusedEntry] OBVIOUS
<1>4. AllUnused(E) BY <1>2, <1>3 DEF AllUnused
<1>5. \A i \in FDs : OwnEntry(openFileTable[i]) = UnusedEntry /\ Own(i) \in FileOwners
                     /\ Own(i) \notin Slots
  BY <1>1, OwnersApart DEF OwnEntry, FileOwners
<1>6. Slots \subseteq FileOwners BY DEF FileOwners
<1>7. CASE Formatted
  <2>1. disk = FormattedDisk /\ \A s \in Slots : files[s] = UnusedEntry BY <1>7 DEF Formatted
  <2>2. EntriesAre(E, files, openFileTable) BY <1>4, <1>5, <1>6, <2>1 DEF EntriesAre, AllUnused
  <2>3. PICK H : Headed(H, FormattedDisk.freelist, 0, E) BY HeadsExist
  <2>4. \E L, P, own, at : Laid(FormattedDisk.blk, H, L, P, own, at)
    BY <1>4, <2>3, FormattedHeads
  <2>5. \A q \in FileOwners : \A n : FileFits(E[q], n)
    BY <1>4 DEF FileFits, AllUnused, Occupied, UnusedEntry
  <2>6. Arranged(FormattedDisk, 0, E) BY <2>3, <2>4, <2>5 DEF Arranged
  <2>7. \A s \in Slots : ~ Occupied(files[s]) BY <2>1 DEF Occupied, UnusedEntry
  <2> QED BY <1>1, <2>1, <2>2, <2>6, <2>7 DEF Structure
<1>8. CASE LegacyImage
  <2>o. PICK o : o = <<0, 1>> OBVIOUS
  <2>1. PICK name \in Names :
            files = [s \in Slots |-> IF s = o THEN [first_block |-> 1, size |-> 0, name |-> name]
                                     ELSE UnusedEntry]
    BY <1>8, <2>o DEF LegacyImage
  <2>2. disk = AfterAllocate(FormattedDisk, "FILE", 1) BY <1>8 DEF LegacyImage
  <2>3. o \in Slots /\ o \in FileOwners
    <3>1. 0 \in BlockId /\ 1 \in 1 .. DIR_ENTRIES_PER_BLOCK BY BlockIds
    <3> QED BY <1>6, <2>o, <3>1 DEF Slots
  <2>e. PICK e : e = [first_block |-> 1, size |-> 0, name |-> name] OBVIOUS
  <2>4. e \in Entry /\ e.first_block = 1 /\ e.size = 0
    <3>1. 1 \in BlockId BY DEF BlockId
    <3> QED BY <2>e, <3>1 DEF Entry
  <2>5. PICK E2 : E2 = [q \in FileOwners |-> IF q = o THEN e ELSE UnusedEntry] OBVIOUS
  <2>6. /\ E2 \in [FileOwners -> Entry] /\ E2[o] = e
        /\ \A q \in FileOwners \ {o} : E2[q] = E[q] /\ E2[q] = UnusedEntry
    BY <1>2, <1>3, <2>3, <2>4, <2>5
  <2>7. Arranged(disk, 0, E2)
    <3>1. \A q \in FileOwners \ {o} : E2[q] = E[q] BY <2>6
    <3>2. E2 \in [FileOwners -> Entry] /\ E2[o].first_block = 1 /\ E2[o].size = 0
      BY <2>4, <2>6
    <3> QED BY ONLY <1>4, <2>2, <2>3, <3>1, <3>2, LegacyArranged
  <2>8. EntriesAre(E2, files, openFileTable)
    <3>1. \A s \in Slots : E2[s] = files[s] BY <1>6, <2>1, <2>e, <2>6
    <3>2. \A i \in FDs : Own(i) # o BY <1>5, <2>3
    <3> QED BY <1>5, <2>6, <3>1, <3>2 DEF EntriesAre
  <2>9. ASSUME NEW s \in Slots, Occupied(files[s]) PROVE InDirectory(disk, s)
    <3>1. s = o BY <2>1, <2>9 DEF Occupied, UnusedEntry
    <3> QED BY <2>o, <3>1 DEF InDirectory
  <2> QED BY <1>1, <2>7, <2>8, <2>9 DEF Structure
<1> QED BY <1>7, <1>8 DEF Init

-----------------------------------------------------------------------------
(* The invariant *)

LEMMA StructureNext ==
  ASSUME IInv, IInv', Structure, [Next]_vars
  PROVE  Structure' /\ DirectoryGrows
<1>1. ASSUME NEW name \in Names, OpenExisting(name) PROVE Structure' /\ DirectoryGrows
  BY <1>1, OpenExistingArranges
<1>2. ASSUME NEW name \in Names, OpenCreate(name)
      PROVE  Structure' /\ DirectoryGrows
  BY <1>2, OpenCreateArranges
<1>3. ASSUME NEW name \in Names, OpenExpand(name)
      PROVE  Structure' /\ DirectoryGrows
  BY <1>3, OpenExpandArranges
<1>4. ASSUME NEW name \in Names, OpenNoMemory(name) PROVE Structure' /\ DirectoryGrows
  BY <1>4, OpenNoMemoryArranges
<1>5. ASSUME NEW name \in Names, Remove(name)
      PROVE  Structure' /\ DirectoryGrows
  BY <1>5, RemoveArranges
<1>6. ASSUME NEW name \in Names, NEW new_name \in Names, RenameFresh(name, new_name)
      PROVE  Structure' /\ DirectoryGrows
  BY <1>6, RenameFreshArranges
<1>7. ASSUME NEW name \in Names, NEW new_name \in Names, RenameOver(name, new_name)
      PROVE  Structure' /\ DirectoryGrows
  BY <1>7, RenameOverArranges
<1>8. ASSUME NEW fd \in FDs, Close(fd) PROVE Structure' /\ DirectoryGrows BY <1>8, CloseArranges
<1>9. ASSUME NEW fd \in FDs, NEW buf \in Buffers, WriteInPlace(fd, buf)
      PROVE  Structure' /\ DirectoryGrows
  BY <1>9, WriteInPlaceArranges
<1>10. ASSUME NEW fd \in FDs, NEW buf \in Buffers, WriteGrow(fd, buf)
       PROVE  Structure' /\ DirectoryGrows
  BY <1>10, WriteGrowArranges
<1>11. ASSUME NEW fd \in FDs, NEW length \in Lengths, TruncateGrow(fd, length)
       PROVE  Structure' /\ DirectoryGrows
  BY <1>11, TruncateGrowArranges
<1>12. ASSUME NEW fd \in FDs, NEW length \in Lengths, TruncateShrink(fd, length)
       PROVE  Structure' /\ DirectoryGrows
  BY <1>12, TruncateShrinkArranges
<1>13. ASSUME UNCHANGED <<disk, next_rootdir, files, openFileTable>>
       PROVE  Structure' /\ DirectoryGrows
  BY <1>13, StructureSame
<1>14. ASSUME NEW fd \in FDs, NEW len \in Lengths, Read(fd, len)
       PROVE  Structure' /\ DirectoryGrows
  BY <1>13, <1>14 DEF Read
<1>15. ASSUME NEW fd \in FDs, NEW delta \in Deltas, Seek(fd, delta)
       PROVE  Structure' /\ DirectoryGrows
  BY <1>13, <1>15 DEF Seek
<1>16. CASE UNCHANGED vars BY <1>13, <1>16 DEF vars
<1> QED
  BY <1>1, <1>2, <1>3, <1>4, <1>5, <1>6, <1>7, <1>8, <1>9, <1>10, <1>11, <1>12, <1>14, <1>15,
     <1>16 DEF Next

(* The lists of the disk are laid out along disjoint paths at all times, whatever the *)
(* calls, and every entry in use is in a block that is in the directory's list.       *)
THEOREM StructureInvariant == Spec => [](IInv /\ Structure)
<1>1. Init => IInv /\ Structure BY InitKeeps, StructureInit
<1>2. IInv /\ Structure /\ [Next]_vars => IInv' /\ Structure'
  <2> SUFFICES ASSUME IInv, Structure, [Next]_vars PROVE IInv' /\ Structure' OBVIOUS
  <2>1. IInv' BY NextKeeps
  <2> QED BY <2>1, StructureNext
<1> QED BY <1>1, <1>2, PTL DEF Spec

-----------------------------------------------------------------------------
(* What the invariant says of the lists *)

\* The list of owner o, as Lists names it.
ListOf(H, o) == [owner |-> o, head |-> H[o], type |-> TypeOf(o)]

LEMMA ListOwners ==
  ASSUME NEW E, EntriesAre(E, files, openFileTable),
         NEW H, Headed(H, disk.freelist, next_rootdir, E)
  PROVE  /\ \A l \in Lists : \E o \in Owners : l = ListOf(H, o)
         /\ \A o \in Owners : H[o] \in Blocks => ListOf(H, o) \in Lists
<1>1. /\ ListOf(H, FreeList) = [owner |-> <<NBlocks, 1>>, head |-> disk.freelist, type |-> "FREE"]
      /\ ListOf(H, Root) = [owner |-> <<NBlocks, 2>>, head |-> next_rootdir, type |-> "DIR"]
  BY OwnersApart DEF ListOf, Headed, FreeList, Root
<1>2. \A s \in Slots : /\ s \in FileOwners
                       /\ ListOf(H, s) = [owner |-> s, head |-> files[s].first_block,
                                          type |-> "FILE"]
  BY OwnersApart DEF ListOf, Headed, EntriesAre, FileOwners
<1>3. \A i \in FDs : Own(i) \in FileOwners /\ TypeOf(Own(i)) = "FILE"
                     /\ H[Own(i)] = OwnEntry(openFileTable[i]).first_block
  BY OwnersApart DEF Headed, EntriesAre, FileOwners
<1>4. ASSUME NEW i \in Unlinked
      PROVE  i \in FDs /\ ListOf(H, Own(i)) = [owner |-> <<NBlocks + 1, i>>,
                              head |-> DiskEntry(i).first_block, type |-> "FILE"]
  <2>1. i \in FDs /\ openFileTable[i] # NULL /\ openFileTable[i].diskFile = UnlinkedFile
    BY DEF Unlinked
  <2>2. OwnEntry(openFileTable[i]) = DiskEntry(i) BY <2>1 DEF OwnEntry, DiskEntry
  <2> QED BY <1>3, <2>1, <2>2 DEF ListOf, Own
<1>5. \A i \in FDs \ Unlinked : H[Own(i)] = 0
  BY <1>3 DEF Unlinked, OwnEntry, UnusedEntry
<1>6. ASSUME NEW l \in Lists PROVE \E o \in Owners : l = ListOf(H, o)
  <2>1. CASE l = ListOf(H, FreeList) \/ l = ListOf(H, Root) BY <2>1, OwnersApart
  <2>2. CASE \E s \in Slots : l = [owner |-> s, head |-> files[s].first_block, type |-> "FILE"]
    BY <1>2, <2>2, OwnersApart
  <2>3. CASE \E i \in Unlinked : l = [owner |-> <<NBlocks + 1, i>>,
                                      head |-> DiskEntry(i).first_block, type |-> "FILE"]
    BY <1>3, <1>4, <2>3, OwnersApart
  <2> QED BY <1>1, <2>1, <2>2, <2>3 DEF Lists
<1>7. ASSUME NEW o \in Owners, H[o] \in Blocks PROVE ListOf(H, o) \in Lists
  <2>h. ListOf(H, o).head \in Blocks BY <1>7 DEF ListOf
  <2>1. CASE o = FreeList BY <1>1, <2>1, <2>h DEF Lists
  <2>2. CASE o = Root BY <1>1, <2>2, <2>h DEF Lists
  <2>3. CASE o \in Slots BY <1>2, <2>3, <2>h DEF Lists
  <2>4. CASE \E i \in FDs : o = Own(i)
    <3>1. PICK i \in FDs : o = Own(i) BY <2>4
    <3>2. 0 \notin Blocks BY DEF Blocks
    <3>3. i \in Unlinked BY <1>5, <1>7, <3>1, <3>2
    <3> QED BY <1>4, <3>1, <3>3, <2>h DEF Lists
  <2> QED BY <2>1, <2>2, <2>3, <2>4 DEF Owners, FileOwners
<1> QED BY <1>6, <1>7

\* The list of an owner is the blocks that it owns, ended by 0 and linked both ways.
Listed(blk, H, own, o) ==
    /\ \A b : b \in ListSet(blk, H[o]) <=> b \in Blocks /\ own[b] = o
    /\ H[o] \in Blocks =>
        /\ \E last \in LastOf(blk, H[o]) : blk[last].next = 0
        /\ blk[H[o]].prev = 0
    /\ \A b \in Blocks : own[b] = o =>
        /\ H[o] \in Blocks /\ blk[b].type = TypeOf(o)
        /\ blk[b].next # 0 => blk[blk[b].next].prev = b

LEMMA LaidListed ==
  ASSUME NEW blk, NEW H, NEW L, NEW P, NEW own, NEW at, Laid(blk, H, L, P, own, at),
         NEW o \in Owners
  PROVE  Listed(blk, H, own, o)
<1>1. /\ \A b : b \in ListSet(blk, H[o]) <=> b \in Blocks /\ own[b] = o
      /\ \A b : b \in LastOf(blk, H[o]) <=> L[o] # 0 /\ b = P[o][L[o]]
  BY LaidLists
<1>2. /\ L[o] \in Nat
      /\ \A i \in 1 .. L[o] : P[o][i] \in Blocks /\ own[P[o][i]] = o /\ at[P[o][i]] = i
      /\ L[o] = 0 => H[o] \notin Blocks
      /\ L[o] # 0 => H[o] = P[o][1]
  BY DEF Laid
<1>3. \A b \in Blocks : own[b] = o =>
        /\ at[b] \in 1 .. L[o] /\ P[o][at[b]] = b /\ blk[b].type = TypeOf(o)
        /\ blk[b].prev = IF at[b] = 1 THEN 0 ELSE P[o][at[b] - 1]
        /\ blk[b].next = IF at[b] = L[o] THEN 0 ELSE P[o][at[b] + 1]
  BY DEF Laid
<1>4. L[o] # 0 => 1 \in 1 .. L[o] /\ L[o] \in 1 .. L[o] BY <1>2
<1>5. ASSUME H[o] \in Blocks
      PROVE  (\E last \in LastOf(blk, H[o]) : blk[last].next = 0) /\ blk[H[o]].prev = 0
  <2>1. L[o] # 0 BY <1>2, <1>5
  <2>2. P[o][L[o]] \in LastOf(blk, H[o]) BY <1>1, <2>1
  <2>3. blk[P[o][L[o]]].next = 0 BY <1>2, <1>3, <1>4, <2>1
  <2>4. blk[H[o]].prev = 0 BY <1>2, <1>3, <1>4, <2>1
  <2> QED BY <2>2, <2>3, <2>4
<1>6. ASSUME NEW b \in Blocks, own[b] = o
      PROVE  /\ H[o] \in Blocks /\ blk[b].type = TypeOf(o)
             /\ blk[b].next # 0 => blk[blk[b].next].prev = b
  <2>1. at[b] \in 1 .. L[o] /\ blk[b].type = TypeOf(o) BY <1>3, <1>6
  <2>2. L[o] # 0 BY <1>2, <2>1
  <2>3. H[o] \in Blocks BY <1>2, <1>4, <2>2
  <2>4. ASSUME blk[b].next # 0 PROVE blk[blk[b].next].prev = b
    <3>k. PICK k : k = at[b] + 1 OBVIOUS
    <3>1. at[b] # L[o] /\ blk[b].next = P[o][k] BY <1>3, <1>6, <2>4, <3>k
    <3>2. k \in 1 .. L[o] /\ k # 1 /\ k - 1 = at[b] BY ONLY <1>2, <2>1, <3>1, <3>k
    <3>3. P[o][k] \in Blocks /\ own[P[o][k]] = o /\ at[P[o][k]] = k BY <1>2, <3>2
    <3>4. blk[P[o][k]].prev = P[o][at[b]] BY <1>3, <3>2, <3>3
    <3> QED BY <1>3, <1>6, <3>1, <3>4
  <2> QED BY <2>1, <2>3, <2>4
<1> QED BY <1>1, <1>5, <1>6 DEF Listed

LEMMA StructurePartitions == Structure => BlocksPartitioned /\ ListsWellFormed
<1> SUFFICES ASSUME Structure PROVE BlocksPartitioned /\ ListsWellFormed OBVIOUS
<1>1. PICK E : EntriesAre(E, files, openFileTable) /\ Arranged(disk, next_rootdir, E)
  BY DEF Structure
<1>2. PICK H, L, P, own, at : /\ Headed(H, disk.freelist, next_rootdir, E)
                               /\ Laid(disk.blk, H, L, P, own, at)
  BY <1>1 DEF Arranged
<1>3. /\ \A l \in Lists : \E o \in Owners : l = ListOf(H, o)
      /\ \A o \in Owners : H[o] \in Blocks => ListOf(H, o) \in Lists
  BY ONLY <1>1, <1>2, ListOwners
<1>b. PICK blk : blk = disk.blk OBVIOUS
<1>4. ASSUME NEW o \in Owners PROVE Listed(blk, H, own, o)
  <2>1. Laid(blk, H, L, P, own, at) BY <1>2, <1>b
  <2> QED BY ONLY <1>4, <2>1, LaidListed
<1>5. BlocksPartitioned
  <2> SUFFICES ASSUME NEW b \in Blocks
               PROVE  Cardinality({l \in Lists : b \in ListSet(blk, l.head)}) = 1
    BY <1>b DEF BlocksPartitioned
  <2>1. own[b] \in Owners BY <1>2 DEF Laid
  <2>2. ListOf(H, own[b]) \in Lists /\ b \in ListSet(blk, H[own[b]])
    BY <1>3, <1>4, <2>1 DEF Listed
  <2>3. ASSUME NEW l \in Lists, b \in ListSet(blk, l.head) PROVE l = ListOf(H, own[b])
    <3>1. PICK o \in Owners : l = ListOf(H, o) BY <1>3
    <3>2. l.head = H[o] BY <3>1 DEF ListOf
    <3>3. own[b] = o BY <1>4, <2>3, <3>2 DEF Listed
    <3> QED BY <3>1, <3>3
  <2>4. ListOf(H, own[b]).head = H[own[b]] BY DEF ListOf
  <2>5. {l \in Lists : b \in ListSet(blk, l.head)} = {ListOf(H, own[b])}
    BY <2>2, <2>3, <2>4
  <2> QED BY <2>5, FS_Singleton
<1>6. ListsWellFormed
  <2> SUFFICES ASSUME NEW l \in Lists
               PROVE  /\ \E last \in LastOf(blk, l.head) : blk[last].next = 0
                      /\ blk[l.head].prev = 0
                      /\ \A b \in ListSet(blk, l.head) :
                            /\ blk[b].type = l.type
                            /\ blk[b].next # 0 => blk[blk[b].next].prev = b
    BY <1>b DEF ListsWellFormed
  <2>1. PICK o \in Owners : l = ListOf(H, o) BY <1>3
  <2>2. l.head = H[o] /\ l.type = TypeOf(o) BY <2>1 DEF ListOf
  <2>3. l.head \in Blocks BY DEF Lists
  <2> QED BY <1>4, <2>2, <2>3 DEF Listed
<1> QED BY <1>5, <1>6

(* The list of an owner has as many blocks as its path is long. *)
LEMMA ListLength ==
  ASSUME NEW blk, NEW H, NEW L, NEW P, NEW own, NEW at, Laid(blk, H, L, P, own, at),
         NEW o \in Owners
  PROVE  Cardinality(ListSet(blk, H[o])) = L[o]
<1>m. PICK m : m = L[o] OBVIOUS
<1>s. PICK S : S = ListSet(blk, H[o]) OBVIOUS
<1>p. PICK p : p = [i \in 1 .. m |-> P[o][i]] OBVIOUS
<1>1. \A b : b \in S <=> b \in Blocks /\ own[b] = o BY <1>s, LaidLists
<1>2. m \in Nat
      /\ \A i \in 1 .. m : P[o][i] \in Blocks /\ own[P[o][i]] = o /\ at[P[o][i]] = i
  BY <1>m DEF Laid
<1>3. \A b \in Blocks : own[b] = o => at[b] \in 1 .. m /\ P[o][at[b]] = b BY <1>m DEF Laid
<1>4. p \in [1 .. m -> S] BY <1>1, <1>2, <1>p
<1>5. \A i, j \in 1 .. m : p[i] = p[j] => i = j BY <1>2, <1>p
<1>6. \A b \in S : \E i \in 1 .. m : p[i] = b BY <1>1, <1>3, <1>p
<1>7. p \in Bijection(1 .. m, S)
  BY ONLY <1>4, <1>5, <1>6 DEF Bijection, Injection, IsInjective, Surjection
<1>8. ExistsBijection(1 .. m, S) BY <1>7 DEF ExistsBijection
<1>9. Cardinality(S) = m BY ONLY <1>2, <1>8, FS_CountingElements
<1> QED BY <1>m, <1>s, <1>9

LEMMA StructureSizes == IInv /\ Structure => SizesMatchBlocks
<1> SUFFICES ASSUME IInv, Structure PROVE SizesMatchBlocks OBVIOUS
<1>1. PICK E : EntriesAre(E, files, openFileTable) /\ Arranged(disk, next_rootdir, E)
  BY DEF Structure
<1>2. PICK H, L, P, own, at : /\ Headed(H, disk.freelist, next_rootdir, E)
                               /\ Laid(disk.blk, H, L, P, own, at)
                               /\ \A o \in FileOwners : FileFits(E[o], L[o])
  BY <1>1 DEF Arranged
<1>b. PICK blk : blk = disk.blk OBVIOUS
<1>3. ASSUME NEW o \in FileOwners, Occupied(E[o])
      PROVE  Cardinality(ListSet(blk, E[o].first_block)) = allocatedBlocksForFile(E[o])
  <2>1. o \in Owners /\ H[o] = E[o].first_block BY <1>2, OwnersApart DEF Headed
  <2>2. Laid(blk, H, L, P, own, at) BY <1>2, <1>b
  <2>3. Cardinality(ListSet(blk, H[o])) = L[o] BY ONLY <2>1, <2>2, ListLength
  <2>4. L[o] = allocatedBlocksForFile(E[o]) BY <1>2, <1>3 DEF FileFits
  <2> QED BY <2>1, <2>3, <2>4
<1>4. ASSUME NEW s \in Slots, Occupied(files[s])
      PROVE  Cardinality(ListSet(blk, files[s].first_block)) = allocatedBlocksForFile(files[s])
  <2>1. s \in FileOwners /\ E[s] = files[s] BY <1>1 DEF FileOwners, EntriesAre
  <2> QED BY <1>3, <1>4, <2>1
<1>5. ASSUME NEW i \in Unlinked
      PROVE  Cardinality(ListSet(blk, DiskEntry(i).first_block))
                = allocatedBlocksForFile(DiskEntry(i))
  <2>1. i \in FDs /\ openFileTable[i] # NULL /\ openFileTable[i].diskFile = UnlinkedFile
    BY DEF Unlinked
  <2>2. Own(i) \in FileOwners /\ E[Own(i)] = DiskEntry(i)
    BY <1>1, <2>1 DEF FileOwners, EntriesAre, OwnEntry, DiskEntry
  <2>3. Occupied(DiskEntry(i)) BY <2>1 DEF IInv, OpenFilesTrackEntries
  <2> QED BY <1>3, <2>2, <2>3
<1> QED BY <1>4, <1>5, <1>b DEF SizesMatchBlocks

(* Every block of the disk is on exactly one list, whatever the callers open, write, *)
(* truncate, unlink, rename over and close, and however often allocateBlocks and      *)
(* freeBlocks cut and join the lists: no block is lost, and none has two owners.      *)
THEOREM BlocksPartitionedCorrect == Spec => []BlocksPartitioned
<1>1. IInv /\ Structure => BlocksPartitioned BY StructurePartitions
<1> QED BY <1>1, StructureInvariant, PTL

(* Every list is ended by 0, holds blocks of one type, and is linked in both ways, so *)
(* that check_blocklist of sfs-fsck would accept it between any two calls.            *)
THEOREM ListsWellFormedCorrect == Spec => []ListsWellFormed
<1>1. IInv /\ Structure => ListsWellFormed BY StructurePartitions
<1> QED BY <1>1, StructureInvariant, PTL

(* A live file, in the directory or unlinked, has as many blocks as its size needs,   *)
(* or one if it is an empty file of a legacy image: the walks of sfs_read, sfs_write  *)
(* and sfs_ftruncate meet no end of list on the way.                                  *)
THEOREM SizesMatchBlocksCorrect == Spec => []SizesMatchBlocks
<1>1. IInv /\ Structure => SizesMatchBlocks BY StructureSizes
<1> QED BY <1>1, StructureInvariant, PTL

-----------------------------------------------------------------------------
(* The positions of the descriptors *)

(* The slot of a file that sfs_open makes in a new block of the directory was not in use: *)
(* the block was free, and so in no list of the directory.                                *)
LEMMA OpenExpandPositions ==
  ASSUME IInv, IInv', Structure, PosWithinSize, NEW name \in Names, OpenExpand(name)
  PROVE  PosWithinSize'
<1>1. PICK new \in LastToAllocate(disk, 1), last \in LastDirectoryBlock :
        expandDirectory(new, last) /\ createFile(name, <<new, 1>>)
  BY DEF OpenExpand
<1>2. PICK slot : slot = <<new, 1>> OBVIOUS
<1>3. slot \in Slots /\ ~ Occupied(files[slot]) BY <1>1, <1>2, Expanded
<1>4. createFile(name, slot) BY <1>1, <1>2
<1> QED BY <1>3, <1>4, CreatedPositions

LEMMA NextPositions ==
  ASSUME IInv, IInv', Structure, PosWithinSize, [Next]_vars
  PROVE  PosWithinSize'
<1>1. ASSUME NEW name \in Names, OpenExisting(name) \/ OpenCreate(name) PROVE PosWithinSize'
  BY <1>1, OpenPositions
<1>14. ASSUME NEW name \in Names, OpenExpand(name) PROVE PosWithinSize'
  BY <1>14, OpenExpandPositions
<1>2. ASSUME UNCHANGED <<files, openFileTable, openFileDescTable>> PROVE PosWithinSize'
  <2>1. \A d \in FDs : DiskEntry(openFileDescTable[d].fileEntry)'
                       = DiskEntry(openFileDescTable[d].fileEntry)
    BY <1>2 DEF DiskEntry
  <2> QED BY <1>2, <2>1 DEF PosWithinSize
<1>3. ASSUME NEW name \in Names, OpenNoMemory(name) PROVE PosWithinSize'
  BY <1>2, <1>3 DEF OpenNoMemory
<1>4. ASSUME NEW name \in Names, Remove(name) PROVE PosWithinSize' BY <1>4, RemovePositions
<1>5. ASSUME NEW name \in Names, NEW new_name \in Names,
             RenameFresh(name, new_name) \/ RenameOver(name, new_name)
      PROVE  PosWithinSize'
  BY <1>5, RenamePositions
<1>6. ASSUME NEW fd \in FDs, Close(fd) PROVE PosWithinSize' BY <1>6, ClosePositions
<1>7. ASSUME NEW fd \in FDs, NEW len \in Lengths, Read(fd, len) PROVE PosWithinSize'
  BY <1>7, ReadPositions
<1>8. ASSUME NEW fd \in FDs, NEW buf \in Buffers, WriteInPlace(fd, buf) PROVE PosWithinSize'
  BY <1>8, WriteInPlacePositions
<1>9. ASSUME NEW fd \in FDs, NEW buf \in Buffers, WriteGrow(fd, buf) PROVE PosWithinSize'
  BY <1>9, WriteGrowPositions
<1>10. ASSUME NEW fd \in FDs, NEW delta \in Deltas, Seek(fd, delta) PROVE PosWithinSize'
  BY <1>10, SeekPositions
<1>11. ASSUME NEW fd \in FDs, NEW length \in Lengths, TruncateGrow(fd, length)
       PROVE  PosWithinSize'
  BY <1>11, TruncateGrowPositions
<1>12. ASSUME NEW fd \in FDs, NEW length \in Lengths, TruncateShrink(fd, length)
       PROVE  PosWithinSize'
  BY <1>12, TruncateShrinkPositions
<1>13. CASE UNCHANGED vars BY <1>2, <1>13 DEF vars
<1> QED
  BY <1>1, <1>3, <1>4, <1>5, <1>6, <1>7, <1>8, <1>9, <1>10, <1>11, <1>12, <1>13,
     <1>14 DEF Next

(* No descriptor is past the end of its file, however many descriptors share it and    *)
(* whichever of them truncates, writes, unlinks or renames over it: the assertions at  *)
(* the head of sfs_read and sfs_write hold, and their sizes do not wrap below zero.    *)
THEOREM PosWithinSizeCorrect == Spec => []PosWithinSize
<1>1. Init => IInv /\ Structure /\ PosWithinSize
  <2> SUFFICES ASSUME Init PROVE IInv /\ Structure /\ PosWithinSize OBVIOUS
  <2>1. \A fd \in FDs : openFileDescTable[fd] = NULL BY DEF Init
  <2>2. PosWithinSize BY <2>1 DEF PosWithinSize
  <2> QED BY <2>2, InitKeeps, StructureInit
<1>2. IInv /\ Structure /\ PosWithinSize /\ [Next]_vars
        => IInv' /\ Structure' /\ PosWithinSize'
  <2> SUFFICES ASSUME IInv, Structure, PosWithinSize, [Next]_vars
               PROVE  IInv' /\ Structure' /\ PosWithinSize'
    OBVIOUS
  <2>1. IInv' BY NextKeeps
  <2>2. Structure' BY <2>1, StructureNext
  <2> QED BY <2>1, <2>2, NextPositions
<1> QED BY <1>1, <1>2, PTL DEF Spec

-----------------------------------------------------------------------------
(* The blocks of the directory *)

\* l is the list of the directory that starts at root: it links all the blocks of type DIR.
DirectoryIs(blk, root, l) ==
    /\ l \in Seq(Blocks)
    /\ root = 0 <=> Len(l) = 0
    /\ root # 0 => l[1] = root
    /\ \A i \in 1 .. Len(l) : blk[l[i]].type = "DIR"
                              /\ blk[l[i]].next = IF i = Len(l) THEN 0 ELSE l[i + 1]
    /\ \A i, j \in 1 .. Len(l) : l[i] = l[j] => i = j
    /\ \A b \in Blocks : blk[b].type = "DIR" => \E i \in 1 .. Len(l) : l[i] = b

LEMMA DirectoryList ==
  ASSUME NEW d \in Disk, NEW root \in BlockId, NEW E, Arranged(d, root, E)
  PROVE  DirectoryIs(d.blk, root, List(d.blk, root))
<1>1. PICK H, L, P, own, at :
        Headed(H, d.freelist, root, E) /\ Laid(d.blk, H, L, P, own, at)
  BY DEF Arranged
<1>b. PICK blk : blk = d.blk OBVIOUS
<1>m. PICK m : m = L[Root] OBVIOUS
<1>l. PICK l : l = List(blk, root) OBVIOUS
<1>2. Root \in Owners /\ TypeOf(Root) = "DIR" /\ H[Root] = root
  BY <1>1, OwnersApart DEF Headed
<1>3. /\ m \in Nat
      /\ m = 0 => root \notin Blocks
      /\ m # 0 => root = P[Root][1]
      /\ \A i \in 1 .. m : P[Root][i] \in Blocks /\ own[P[Root][i]] = Root
                           /\ at[P[Root][i]] = i
  BY <1>1, <1>2, <1>m DEF Laid
<1>4. \A b \in Blocks : /\ blk[b].type = TypeOf(own[b])
                        /\ own[b] = Root => /\ at[b] \in 1 .. m /\ P[Root][at[b]] = b
                                            /\ blk[b].next = IF at[b] = m THEN 0
                                                             ELSE P[Root][at[b] + 1]
  BY <1>1, <1>b, <1>m DEF Laid
<1>p. PICK p : p = [i \in 1 .. m |-> P[Root][i]] OBVIOUS
<1>5. \A i \in 1 .. m : p[i] \in Blocks /\ own[p[i]] = Root /\ at[p[i]] = i
  BY <1>3, <1>p
<1>6. p \in [1 .. m -> Blocks] BY <1>5, <1>p
<1>7. \A i, j \in 1 .. m : p[i] = p[j] => i = j BY <1>5
<1>8. m # 0 => root = p[1]
  <2>1. m # 0 => 1 \in 1 .. m BY <1>3
  <2> QED BY <1>3, <1>p, <2>1
<1>9. ASSUME NEW i \in 1 .. m
      PROVE  blk[p[i]].type = "DIR" /\ blk[p[i]].next = IF i = m THEN 0 ELSE p[i + 1]
  <2>1. blk[p[i]].next = IF i = m THEN 0 ELSE P[Root][i + 1] BY <1>4, <1>5
  <2>2. i # m => i + 1 \in 1 .. m BY <1>3
  <2> QED BY <1>2, <1>4, <1>5, <1>p, <2>1, <2>2
<1>10. 0 \notin Blocks BY DEF Blocks
<1>11. m # 0 => blk[p[m]].next \notin Blocks
  <2>1. m # 0 => m \in 1 .. m BY <1>3
  <2> QED BY <1>9, <1>10, <2>1
<1>12. l \in Seq(Blocks) /\ Len(l) = m /\ \A i \in 1 .. m : l[i] = p[i]
  <2>1. \A i \in 1 .. m : i # m => blk[p[i]].next = p[i + 1] BY <1>9
  <2>2. m \in Nat /\ (m = 0 => root \notin Blocks) BY <1>3
  <2> QED BY ONLY <1>6, <1>7, <1>8, <1>11, <1>l, <2>1, <2>2, ListIs
<1>13. root = 0 <=> m = 0
  <2>1. m # 0 => 1 \in 1 .. m BY <1>3
  <2>2. m # 0 => root \in Blocks BY <1>5, <1>8, <2>1
  <2>3. root \in Blocks \/ root = 0 BY DEF BlockId, Blocks
  <2> QED BY <1>3, <1>10, <2>2, <2>3
<1>14. root # 0 => l[1] = root
  <2>1. m # 0 => 1 \in 1 .. m BY <1>3
  <2> QED BY <1>8, <1>12, <1>13, <2>1
<1>15. ASSUME NEW b \in Blocks, blk[b].type = "DIR" PROVE \E i \in 1 .. m : l[i] = b
  <2>1. own[b] = Root BY <1>4, <1>15 DEF TypeOf
  <2> QED BY <1>4, <1>12, <1>p, <2>1
<1>16. \A i \in 1 .. m : blk[l[i]].type = "DIR"
                         /\ blk[l[i]].next = IF i = m THEN 0 ELSE l[i + 1]
  <2>1. \A i \in 1 .. m : i # m => i + 1 \in 1 .. m BY <1>3
  <2> QED BY <1>9, <1>12, <2>1
<1>17. \A i, j \in 1 .. m : l[i] = l[j] => i = j BY <1>7, <1>12
<1> QED BY <1>12, <1>13, <1>14, <1>15, <1>16, <1>17, <1>b, <1>l DEF DirectoryIs

(* A list whose blocks stay linked as they were is continued, if it changes. *)
LEMMA DirectoryContinues ==
  ASSUME NEW blk, NEW root, NEW l, DirectoryIs(blk, root, l),
         NEW blk2, NEW root2, NEW l2, DirectoryIs(blk2, root2, l2),
         DirsKept(blk, blk2), root # 0 => root2 = root
  PROVE  Len(l) <= Len(l2) /\ \A i \in 1 .. Len(l) : l2[i] = l[i]
<1>m. PICK m : m = Len(l) OBVIOUS
<1>n. PICK m2 : m2 = Len(l2) OBVIOUS
<1>1. /\ l \in Seq(Blocks) /\ m \in Nat /\ m2 \in Nat
      /\ root = 0 <=> m = 0
      /\ root # 0 => l[1] = root
      /\ \A i \in 1 .. m : l[i] \in Blocks /\ blk[l[i]].type = "DIR"
                           /\ blk[l[i]].next = IF i = m THEN 0 ELSE l[i + 1]
      /\ root2 = 0 <=> m2 = 0
      /\ root2 # 0 => l2[1] = root2
      /\ \A i \in 1 .. m2 : blk2[l2[i]].next = IF i = m2 THEN 0 ELSE l2[i + 1]
  BY <1>m, <1>n DEF DirectoryIs
<1> DEFINE S == {k \in Nat : k + 1 <= m => k + 1 <= m2 /\ l2[k + 1] = l[k + 1]}
<1>2. 0 \in S
  <2> SUFFICES ASSUME 0 + 1 <= m PROVE 0 + 1 <= m2 /\ l2[0 + 1] = l[0 + 1] OBVIOUS
  <2>1. 0 + 1 = 1 OBVIOUS
  <2>2. m # 0 BY <1>1
  <2>3. root # 0 /\ root2 = root BY <1>1, <2>2
  <2>4. m2 # 0 BY <1>1, <2>3
  <2>5. 1 <= m2 BY <1>1, <2>4
  <2> QED BY <1>1, <2>1, <2>3, <2>5
<1>3. ASSUME NEW k \in Nat, k \in S PROVE k + 1 \in S
  <2> SUFFICES ASSUME (k + 1) + 1 <= m PROVE (k + 1) + 1 <= m2 /\ l2[(k + 1) + 1] = l[(k + 1) + 1]
    OBVIOUS
  <2>i. PICK i : i = k + 1 OBVIOUS
  <2>1. i \in Nat /\ i + 1 <= m /\ i \in 1 .. m /\ i # m /\ i + 1 \in 1 .. m BY <1>1, <2>i
  <2>2. i <= m2 /\ l2[i] = l[i] BY <1>3, <2>1, <2>i
  <2>3. i \in 1 .. m2 BY <1>1, <2>1, <2>2
  <2>4. blk[l[i]].next = l[i + 1] /\ l[i] \in Blocks /\ blk[l[i]].type = "DIR"
    BY <1>1, <2>1
  <2>5. l[i + 1] # 0
    <3>1. l[i + 1] \in Blocks BY <1>1, <2>1
    <3> QED BY <3>1 DEF Blocks
  <2>6. blk2[l[i]].next = l[i + 1] BY <2>4, <2>5 DEF DirsKept
  <2>7. i # m2 /\ l2[i + 1] = l[i + 1] BY <1>1, <2>2, <2>3, <2>5, <2>6
  <2>8. i + 1 <= m2 BY <1>1, <2>1, <2>3, <2>7
  <2> QED BY <2>7, <2>8, <2>i
<1>4. ASSUME NEW i \in 1 .. m PROVE i <= m2 /\ l2[i] = l[i]
  <2>k. PICK k : k = i - 1 OBVIOUS
  <2>1. k \in Nat /\ k + 1 = i /\ i <= m BY <1>1, <2>k
  <2>2. k \in S
    <3> HIDE DEF S
    <3> QED BY <1>2, <1>3, <2>1, SetInduction
  <2> QED BY <2>1, <2>2
<1>5. m <= m2
  <2>1. CASE m = 0 BY <1>1, <2>1
  <2>2. CASE m # 0
    <3>1. m \in 1 .. m BY <1>1, <2>2
    <3> QED BY <1>4, <3>1
  <2> QED BY <2>1, <2>2
<1> QED BY <1>4, <1>5, <1>m, <1>n

-----------------------------------------------------------------------------
(* The physical order of the slots *)

\* Positions 1 .. n * DIR_ENTRIES_PER_BLOCK of n blocks, by block and entry in the block.
LEMMA PositionParts ==
  ASSUME NEW n \in Nat, NEW p \in 1 .. n * DIR_ENTRIES_PER_BLOCK
  PROVE  /\ ((p - 1) \div DIR_ENTRIES_PER_BLOCK) + 1 \in 1 .. n
         /\ ((p - 1) % DIR_ENTRIES_PER_BLOCK) + 1 \in 1 .. DIR_ENTRIES_PER_BLOCK
         /\ p = DIR_ENTRIES_PER_BLOCK * ((p - 1) \div DIR_ENTRIES_PER_BLOCK)
                + ((p - 1) % DIR_ENTRIES_PER_BLOCK) + 1
<1> PICK B : B = DIR_ENTRIES_PER_BLOCK OBVIOUS
<1>1. B \in Nat \ {0} BY SfsAssumption
<1>x. PICK x : x = p - 1 OBVIOUS
<1>q. PICK q : q = x \div B OBVIOUS
<1>r. PICK r : r = x % B OBVIOUS
<1>2. n * B = B * n /\ B * n \in Nat BY <1>1
<1>3. p \in Nat /\ x \in Nat /\ x < B * n /\ p = x + 1
  <2>c. PICK c : c = B * n OBVIOUS
  <2>1. c \in Nat /\ p \in 1 .. c BY <1>2, <2>c
  <2> QED BY ONLY <2>1, <2>c, <1>x
<1>4. x = B * q + r /\ r \in 0 .. B - 1 /\ q \in Nat BY ONLY <1>1, <1>3, <1>q, <1>r
<1>5. q < n
  <2>1. B * q < B * n
    <3> PICK u : u = B * q OBVIOUS
    <3> PICK v : v = B * n OBVIOUS
    <3>1. u \in Nat BY <1>1, <1>4
    <3>2. v \in Nat /\ x = u + r /\ r \in Nat /\ x < v BY <1>2, <1>3, <1>4
    <3>3. u < v BY ONLY <3>1, <3>2
    <3> QED BY <3>3
  <2> QED BY ONLY <1>1, <1>4, <2>1, n \in Nat
<1>6. q + 1 \in 1 .. n BY <1>4, <1>5
<1>7. r + 1 \in 1 .. B BY <1>1, <1>4
<1>8. p = B * q + r + 1 BY <1>3, <1>4
<1> QED BY <1>6, <1>7, <1>8, <1>q, <1>r, <1>x

\* Position p of n blocks is that of entry e of block i.
IsPosition(p, n, i, e) ==
    /\ p \in 1 .. n * DIR_ENTRIES_PER_BLOCK
    /\ ((p - 1) \div DIR_ENTRIES_PER_BLOCK) + 1 = i
    /\ ((p - 1) % DIR_ENTRIES_PER_BLOCK) + 1 = e

LEMMA PositionExists ==
  ASSUME NEW n \in Nat, NEW i \in 1 .. n, NEW e \in 1 .. DIR_ENTRIES_PER_BLOCK
  PROVE  \E p : IsPosition(p, n, i, e)
<1> PICK B : B = DIR_ENTRIES_PER_BLOCK OBVIOUS
<1>1. B \in Nat \ {0} BY SfsAssumption
<1>q. PICK q : q = i - 1 OBVIOUS
<1>r. PICK r : r = e - 1 OBVIOUS
<1>2. q \in Nat /\ q < n /\ r \in Nat /\ r < B /\ i = q + 1 /\ e = r + 1
  <2>1. i \in 1 .. n /\ n \in Nat /\ e \in 1 .. B OBVIOUS
  <2> QED BY ONLY <1>1, <1>q, <1>r, <2>1
<1>x. PICK x : x = B * q + r OBVIOUS
<1>3. x \in Nat /\ x \div B = q /\ x % B = r BY ONLY <1>1, <1>2, <1>x
<1>4. x < B * n
  <2>1. B * q + B <= B * n
    <3>1. B * (q + 1) <= B * n BY ONLY <1>1, <1>2, n \in Nat
    <3>2. B * (q + 1) = B * q + B BY <1>1, <1>2
    <3> QED BY <3>1, <3>2
  <2>u. PICK u : u = B * q OBVIOUS
  <2>v. PICK v : v = B * n OBVIOUS
  <2>2. u \in Nat /\ v \in Nat BY <1>1, <1>2, <2>u, <2>v
  <2>3. u + B <= v /\ x = u + r BY <1>x, <2>1, <2>u, <2>v
  <2>4. x < v BY ONLY <1>1, <1>2, <2>2, <2>3
  <2> QED BY <2>4, <2>v
<1>p. PICK p : p = x + 1 OBVIOUS
<1>5. p \in 1 .. n * B /\ p - 1 = x
  <2>v. PICK v : v = B * n OBVIOUS
  <2>1. v \in Nat /\ n * B = v /\ x < v BY <1>1, <1>4, <2>v
  <2> QED BY ONLY <1>3, <1>p, <2>1
<1>6. IsPosition(p, n, i, e) BY <1>2, <1>3, <1>5 DEF IsPosition
<1> QED BY <1>6

\* In the blocks of a directory every position is a slot of its own, and every slot of
\* the directory has a position.
Ordered(d, blocks) ==
    /\ blocks \in Seq(BlockId)
    /\ \A p \in 1 .. Len(blocks) * DIR_ENTRIES_PER_BLOCK : SlotAt(blocks, p) \in Slots
    /\ \A p, q \in 1 .. Len(blocks) * DIR_ENTRIES_PER_BLOCK :
            SlotAt(blocks, p) = SlotAt(blocks, q) => p = q
    /\ \A s \in Slots : InDirectory(d, s) =>
            \E p \in 1 .. Len(blocks) * DIR_ENTRIES_PER_BLOCK : SlotAt(blocks, p) = s

LEMMA DirectoryOrdered ==
  ASSUME NEW d \in Disk, NEW root \in BlockId, NEW E, Arranged(d, root, E)
  PROVE  Ordered(d, <<0>> \o List(d.blk, root))
<1>l. PICK l : l = List(d.blk, root) OBVIOUS
<1>b. PICK blocks : blocks = <<0>> \o l OBVIOUS
<1>n. PICK n : n = Len(blocks) OBVIOUS
<1>1. DirectoryIs(d.blk, root, l) BY <1>l, DirectoryList
<1>2. /\ l \in Seq(Blocks) /\ Len(l) \in Nat
      /\ \A i \in 1 .. Len(l) : l[i] \in Blocks
      /\ \A i, j \in 1 .. Len(l) : l[i] = l[j] => i = j
      /\ \A b \in Blocks : d.blk[b].type = "DIR" => \E i \in 1 .. Len(l) : l[i] = b
  BY <1>1 DEF DirectoryIs
<1>3. /\ blocks \in Seq(BlockId) /\ n \in Nat /\ n = Len(l) + 1
      /\ blocks[1] = 0
      /\ \A i \in 1 .. n : i # 1 => blocks[i] = l[i - 1] /\ i - 1 \in 1 .. Len(l)
  <2>1. l \in Seq(BlockId) BY <1>2, BlockIds
  <2>2. 0 \in BlockId BY BlockIds
  <2> QED BY ONLY <1>2, <1>b, <1>n, <2>1, <2>2
<1>4. \A i, j \in 1 .. n : blocks[i] = blocks[j] => i = j
  <2> SUFFICES ASSUME NEW i \in 1 .. n, NEW j \in 1 .. n, blocks[i] = blocks[j] PROVE i = j
    OBVIOUS
  <2>0. 0 \notin Blocks BY DEF Blocks
  <2>1. CASE i = 1 \/ j = 1 BY <1>2, <1>3, <2>0, <2>1
  <2>2. CASE i # 1 /\ j # 1
    <3>1. i - 1 \in 1 .. Len(l) /\ j - 1 \in 1 .. Len(l) /\ l[i - 1] = l[j - 1] BY <1>3, <2>2
    <3>2. i - 1 = j - 1 BY <1>2, <3>1
    <3> QED BY <1>3, <3>2
  <2> QED BY <2>1, <2>2
<1> PICK B : B = DIR_ENTRIES_PER_BLOCK OBVIOUS
<1>5. \A p \in 1 .. n * B :
        /\ ((p - 1) \div B) + 1 \in 1 .. n /\ ((p - 1) % B) + 1 \in 1 .. B
        /\ p = B * ((p - 1) \div B) + ((p - 1) % B) + 1
        /\ SlotAt(blocks, p) = <<blocks[((p - 1) \div B) + 1], ((p - 1) % B) + 1>>
  BY <1>3, PositionParts DEF SlotAt
<1>6. ASSUME NEW p \in 1 .. n * B PROVE SlotAt(blocks, p) \in Slots
  <2>1. blocks[((p - 1) \div B) + 1] \in BlockId BY <1>3, <1>5, <1>n
  <2> QED BY <1>5, <2>1 DEF Slots
<1>7. ASSUME NEW p \in 1 .. n * B, NEW q \in 1 .. n * B, SlotAt(blocks, p) = SlotAt(blocks, q)
      PROVE  p = q
  <2>d. PICK dp : dp = (p - 1) \div B OBVIOUS
  <2>e. PICK dq : dq = (q - 1) \div B OBVIOUS
  <2>f. PICK rp : rp = (p - 1) % B OBVIOUS
  <2>g. PICK rq : rq = (q - 1) % B OBVIOUS
  <2>1. /\ dp + 1 \in 1 .. n /\ dq + 1 \in 1 .. n /\ rp + 1 \in 1 .. B /\ rq + 1 \in 1 .. B
        /\ p = B * dp + rp + 1 /\ q = B * dq + rq + 1
        /\ <<blocks[dp + 1], rp + 1>> = <<blocks[dq + 1], rq + 1>>
    BY <1>5, <1>7, <2>d, <2>e, <2>f, <2>g
  <2>2. blocks[dp + 1] = blocks[dq + 1] /\ rp + 1 = rq + 1 BY ONLY <2>1
  <2>3. dp + 1 = dq + 1 BY <1>4, <2>1, <2>2
  <2>4. dp \in Int /\ dq \in Int /\ rp \in Int /\ rq \in Int BY <2>d, <2>e, <2>f, <2>g, <1>3
  <2>5. dp = dq /\ rp = rq BY ONLY <2>2, <2>3, <2>4
  <2> QED BY <2>1, <2>5
<1>8. ASSUME NEW s \in Slots, InDirectory(d, s) PROVE \E p \in 1 .. n * B : SlotAt(blocks, p) = s
  <2>1. s = <<s[1], s[2]>> /\ s[2] \in 1 .. B BY DEF Slots
  <2>2. PICK i \in 1 .. n : blocks[i] = s[1]
    <3>1. CASE s[1] = 0 BY <1>3, <3>1
    <3>2. CASE s[1] # 0
      <4>1. PICK k \in 1 .. Len(l) : l[k] = s[1] BY <1>2, <1>8, <3>2 DEF InDirectory
      <4>2. k + 1 \in 1 .. n /\ k + 1 # 1 /\ (k + 1) - 1 = k BY <1>2, <1>3
      <4> QED BY <1>3, <4>1, <4>2
    <3> QED BY <3>1, <3>2
  <2>k. PICK k : k = s[2] OBVIOUS
  <2>3. n \in Nat /\ i \in 1 .. n /\ k \in 1 .. DIR_ENTRIES_PER_BLOCK BY <1>3, <2>1, <2>k
  <2>p. PICK p : IsPosition(p, n, i, k) BY ONLY <2>3, PositionExists
  <2>4. /\ p \in 1 .. n * DIR_ENTRIES_PER_BLOCK
        /\ ((p - 1) \div DIR_ENTRIES_PER_BLOCK) + 1 = i
        /\ ((p - 1) % DIR_ENTRIES_PER_BLOCK) + 1 = k
    BY <2>p DEF IsPosition
  <2>5. SlotAt(blocks, p) = <<blocks[i], k>> BY ONLY <2>4 DEF SlotAt
  <2>6. SlotAt(blocks, p) = s BY <2>1, <2>2, <2>5, <2>k
  <2> QED BY <2>4, <2>6
<1> QED BY <1>3, <1>6, <1>7, <1>8, <1>b, <1>l, <1>n DEF Ordered

(* A directory that is continued keeps its slots where they are. *)
LEMMA SlotsStay ==
  ASSUME NEW blocks \in Seq(BlockId), NEW blocks2 \in Seq(BlockId),
         Len(blocks) <= Len(blocks2), \A i \in 1 .. Len(blocks) : blocks2[i] = blocks[i]
  PROVE  \A p \in 1 .. Len(blocks) * DIR_ENTRIES_PER_BLOCK :
            /\ p \in 1 .. Len(blocks2) * DIR_ENTRIES_PER_BLOCK
            /\ SlotAt(blocks2, p) = SlotAt(blocks, p)
<1> PICK B : B = DIR_ENTRIES_PER_BLOCK OBVIOUS
<1>n. PICK n : n = Len(blocks) OBVIOUS
<1>m. PICK m : m = Len(blocks2) OBVIOUS
<1>1. B \in Nat /\ n \in Nat /\ m \in Nat /\ n <= m BY <1>n, <1>m, SfsAssumption
<1>2. n * B <= m * B BY ONLY <1>1
<1> SUFFICES ASSUME NEW p \in 1 .. n * B
             PROVE  p \in 1 .. m * B /\ SlotAt(blocks2, p) = SlotAt(blocks, p)
  BY <1>n, <1>m
<1>3. p \in 1 .. m * B
  <2>u. PICK u : u = n * B OBVIOUS
  <2>v. PICK v : v = m * B OBVIOUS
  <2>1. u \in Nat /\ v \in Nat /\ u <= v /\ p \in 1 .. u BY <1>1, <1>2, <2>u, <2>v
  <2> QED BY ONLY <2>1, <2>v
<1>4. ((p - 1) \div B) + 1 \in 1 .. n BY <1>1, PositionParts
<1> QED BY <1>3, <1>4, <1>n DEF SlotAt

LEMMA DirectoryOrder ==
  ASSUME IInv, Structure
  PROVE  Ordered(disk, DirectoryBlocks)
<1>1. PICK E : Arranged(disk, next_rootdir, E) BY DEF Structure
<1>2. disk \in Disk /\ next_rootdir \in BlockId BY DEF IInv, TypeOK
<1> QED BY <1>1, <1>2, DirectoryOrdered DEF DirectoryBlocks

-----------------------------------------------------------------------------
(* Names *)

(* A search of the directory finds what is there: it is complete. *)
LEMMA SearchComplete ==
  ASSUME IInv, Structure, NEW S, FirstSlot(S) = {},
         NEW s \in Slots, InDirectory(disk, s)
  PROVE  s \notin S
<1> SUFFICES ASSUME s \in S PROVE FALSE OBVIOUS
<1>b. PICK blocks : blocks = DirectoryBlocks OBVIOUS
<1>n. PICK n : n = Len(blocks) * DIR_ENTRIES_PER_BLOCK OBVIOUS
<1> DEFINE Hits == {q \in 1 .. n : SlotAt(blocks, q) \in S}
<1>1. Ordered(disk, blocks) BY <1>b, DirectoryOrder
<1>2. PICK p \in 1 .. n : SlotAt(blocks, p) = s BY <1>1, <1>n DEF Ordered
<1>3. blocks \in Seq(BlockId) /\ \A q \in 1 .. n : SlotAt(blocks, q) \in Slots
  BY <1>1, <1>n DEF Ordered
<1>4. n \in Nat BY <1>3, <1>n
<1>5. Hits \in SUBSET Nat /\ p \in Hits BY <1>2, <1>4
<1>6. PICK q \in Hits : \A r \in Hits : q <= r
  <2> HIDE DEF Hits
  <2> QED BY <1>5, LeastElement
<1>7. \A r \in 1 .. q - 1 : SlotAt(blocks, r) \notin S BY <1>4, <1>6
<1>8. SlotAt(blocks, q) \in FirstSlot(S)
  <2>1. q \in 1 .. Len(blocks) * DIR_ENTRIES_PER_BLOCK /\ SlotAt(blocks, q) \in S BY <1>6, <1>n
  <2>2. SlotAt(blocks, q) \in Slots BY <1>3, <1>6
  <2> QED BY <1>3, <1>7, <1>b, <2>1, <2>2 DEF FirstSlot
<1> QED BY <1>8

LEMMA NameIsNew ==
  ASSUME IInv, Structure, NEW name, findDirectoryEntry(name) = {},
         NEW s \in Slots, Occupied(files[s])
  PROVE  files[s].name # name
<1> PICK S : S = {t \in Slots : Occupied(files[t]) /\ files[t].name = name} OBVIOUS
<1>1. FirstSlot(S) = {} BY DEF findDirectoryEntry
<1>2. InDirectory(disk, s) BY DEF Structure
<1>3. s \notin S BY <1>1, <1>2, SearchComplete
<1> QED BY <1>3

\* The files of the directory have names, and no two of them the same.
UniqueNames ==
    \A s, t \in Slots : Occupied(files[s]) =>
        /\ files[s].name \in Names
        /\ Occupied(files[t]) /\ files[s].name = files[t].name => s = t

\* Slot s holds, if it is in use, a file that had its name here before.
NameStays(s) ==
    Occupied(files'[s]) => Occupied(files[s]) /\ files'[s].name = files[s].name

LEMMA NamesStay ==
  ASSUME UniqueNames, \A s \in Slots : NameStays(s)
  PROVE  UniqueNames'
BY DEF UniqueNames, NameStays

(* A slot is given a name that no other slot keeps. *)
LEMMA NameGiven ==
  ASSUME UniqueNames, NEW slot \in Slots, NEW name \in Names, files'[slot].name = name,
         \A s \in Slots \ {slot} :
            NameStays(s) /\ (Occupied(files'[s]) => files[s].name # name)
  PROVE  UniqueNames'
<1> SUFFICES ASSUME NEW s \in Slots, NEW t \in Slots, Occupied(files'[s])
             PROVE  /\ files'[s].name \in Names
                    /\ Occupied(files'[t]) /\ files'[s].name = files'[t].name => s = t
  BY DEF UniqueNames, Occupied
<1>1. \A r \in Slots \ {slot} : Occupied(files'[r]) =>
            /\ Occupied(files[r]) /\ files'[r].name = files[r].name /\ files[r].name # name
  BY DEF NameStays
<1>2. files'[s].name \in Names BY <1>1 DEF UniqueNames
<1>3. ASSUME Occupied(files'[t]), files'[s].name = files'[t].name PROVE s = t
  BY <1>1, <1>3 DEF UniqueNames
<1> QED BY <1>2, <1>3

LEMMA SetDiskEntryNames ==
  ASSUME IInv, UniqueNames, NEW i \in FDs, openFileTable[i] # NULL,
         NEW e, e.name = DiskEntry(i).name, SetDiskEntry(i, e)
  PROVE  UniqueNames'
<1>1. CASE openFileTable[i].diskFile = UnlinkedFile
  <2>1. files' = files BY <1>1 DEF SetDiskEntry
  <2> QED BY <2>1, NamesStay DEF NameStays
<1>2. CASE openFileTable[i].diskFile # UnlinkedFile
  <2>s. PICK s : s = openFileTable[i].diskFile OBVIOUS
  <2>1. files' = [files EXCEPT ![s] = e] /\ DiskEntry(i) = files[s]
    BY <1>2, <2>s DEF SetDiskEntry, DiskEntry
  <2>2. Occupied(files[s]) BY <2>1 DEF IInv, OpenFilesTrackEntries
  <2>3. files \in [Slots -> Entry] BY DEF IInv, TypeOK
  <2>4. \A r \in Slots : NameStays(r) BY <2>1, <2>2, <2>3 DEF NameStays
  <2> QED BY <2>4, NamesStay
<1> QED BY <1>1, <1>2

LEMMA CreatedNames ==
  ASSUME IInv, Structure, UniqueNames, NEW name \in Names, findDirectoryEntry(name) = {},
         NEW slot \in Slots, createFile(name, slot)
  PROVE  UniqueNames'
<1>1. files' = [files EXCEPT ![slot] =
            [first_block |-> SFS_EMPTY_FILE_BLOCK, size |-> 0, name |-> name]]
  BY DEF createFile
<1>2. files \in [Slots -> Entry] BY DEF IInv, TypeOK
<1>3. files'[slot].name = name BY <1>1, <1>2
<1>4. ASSUME NEW s \in Slots \ {slot}
      PROVE  NameStays(s) /\ (Occupied(files'[s]) => files[s].name # name)
  <2>1. files'[s] = files[s] BY <1>1, <1>2
  <2>2. Occupied(files[s]) => files[s].name # name BY NameIsNew
  <2> QED BY <2>1, <2>2 DEF NameStays
<1> QED BY <1>3, <1>4, NameGiven

LEMMA NamesNext ==
  ASSUME IInv, IInv', Structure, UniqueNames, [Next]_vars
  PROVE  UniqueNames'
<1>0. ASSUME files' = files PROVE UniqueNames' BY <1>0, NamesStay DEF NameStays
<1>f. files \in [Slots -> Entry] BY DEF IInv, TypeOK
<1>t. openFileTable \in [FDs -> OpenFile \cup {NULL}]
      /\ openFileDescTable \in [FDs -> Descriptor \cup {NULL}]
  BY DEF IInv, TypeOK
<1>1. ASSUME NEW name \in Names, OpenExisting(name) PROVE UniqueNames'
  BY <1>0, <1>1 DEF OpenExisting
<1>2. ASSUME NEW name \in Names, OpenCreate(name) PROVE UniqueNames'
  <2>1. PICK slot \in EmptySlot : createFile(name, slot) BY <1>2 DEF OpenCreate
  <2>2. slot \in Slots BY SlotFound
  <2>3. findDirectoryEntry(name) = {} BY <1>2 DEF OpenCreate
  <2> QED BY <2>1, <2>2, <2>3, CreatedNames
<1>3. ASSUME NEW name \in Names, OpenExpand(name) PROVE UniqueNames'
  <2>1. PICK new \in LastToAllocate(disk, 1) : createFile(name, <<new, 1>>)
    BY <1>3 DEF OpenExpand
  <2>2. new \in Blocks BY <2>1, FoundBlocks DEF LastToAllocate
  <2>3. <<new, 1>> \in Slots BY <2>2, BlockIds DEF Slots
  <2>4. findDirectoryEntry(name) = {} BY <1>3 DEF OpenExpand
  <2> QED BY <2>1, <2>3, <2>4, CreatedNames
<1>4. ASSUME NEW name \in Names, OpenNoMemory(name) PROVE UniqueNames'
  BY <1>0, <1>4 DEF OpenNoMemory
<1>5. ASSUME NEW name \in Names, Remove(name) PROVE UniqueNames'
  <2>1. PICK slot \in findDirectoryEntry(name) : files' = [files EXCEPT ![slot] = UnusedEntry]
    BY <1>5 DEF Remove
  <2>2. ~ Occupied(UnusedEntry) BY DEF Occupied, UnusedEntry
  <2>3. \A s \in Slots : NameStays(s) BY <1>f, <2>1, <2>2 DEF NameStays
  <2> QED BY <2>3, NamesStay
<1>6. ASSUME NEW name \in Names, NEW new_name \in Names, RenameFresh(name, new_name)
      PROVE  UniqueNames'
  <2>1. PICK slot \in findDirectoryEntry(name) : files' = [files EXCEPT ![slot].name = new_name]
    BY <1>6 DEF RenameFresh
  <2>2. slot \in Slots /\ Occupied(files[slot]) BY EntryFound
  <2>3. findDirectoryEntry(new_name) = {} BY <1>6 DEF RenameFresh
  <2>4. files'[slot].name = new_name
    <3>1. files[slot] \in Entry /\ files'[slot] = [files[slot] EXCEPT !.name = new_name]
      BY <1>f, <2>1, <2>2
    <3> QED BY <3>1 DEF Entry
  <2>5. ASSUME NEW s \in Slots \ {slot}
        PROVE  NameStays(s) /\ (Occupied(files'[s]) => files[s].name # new_name)
    <3>1. files'[s] = files[s] BY <1>f, <2>1
    <3>2. Occupied(files[s]) => files[s].name # new_name BY <2>3, NameIsNew
    <3> QED BY <3>1, <3>2 DEF NameStays
  <2> QED BY <2>2, <2>4, <2>5, NameGiven
<1>7. ASSUME NEW name \in Names, NEW new_name \in Names, RenameOver(name, new_name)
      PROVE  UniqueNames'
  <2>1. PICK slot \in findDirectoryEntry(name), victim \in findDirectoryEntry(new_name) :
          files' = [files EXCEPT ![victim] = UnusedEntry, ![slot].name = new_name]
    BY <1>7 DEF RenameOver
  <2>2. /\ slot \in Slots /\ Occupied(files[slot]) /\ files[slot].name = name
        /\ victim \in Slots /\ Occupied(files[victim]) /\ files[victim].name = new_name
    BY EntryFound
  <2>3. slot # victim BY <1>7, <2>2 DEF RenameOver
  <2>f. PICK f : f = [files EXCEPT ![victim] = UnusedEntry] OBVIOUS
  <2>4. UnusedEntry \in Entry BY BlockIds DEF UnusedEntry, Entry
  <2>5. f \in [Slots -> Entry] /\ f[victim] = UnusedEntry
        /\ \A s \in Slots \ {victim} : f[s] = files[s]
    BY <1>f, <2>2, <2>4, <2>f
  <2>6. files' = [f EXCEPT ![slot].name = new_name] BY <2>1, <2>f
  <2>7. files'[slot].name = new_name
    <3>1. f[slot] \in Entry /\ files'[slot] = [f[slot] EXCEPT !.name = new_name]
      BY <2>2, <2>5, <2>6
    <3> QED BY <3>1 DEF Entry
  <2>8. ASSUME NEW s \in Slots \ {slot}
        PROVE  NameStays(s) /\ (Occupied(files'[s]) => files[s].name # new_name)
    <3>1. files'[s] = f[s] BY <2>5, <2>6
    <3>2. ~ Occupied(UnusedEntry) BY DEF Occupied, UnusedEntry
    <3>3. CASE s = victim BY <2>5, <3>1, <3>2, <3>3 DEF NameStays
    <3>4. CASE s # victim
      <4>1. files'[s] = files[s] BY <2>5, <3>1, <3>4
      <4>2. Occupied(files[s]) => files[s].name # new_name BY <2>2, <3>4 DEF UniqueNames
      <4> QED BY <4>1, <4>2 DEF NameStays
    <3> QED BY <3>3, <3>4
  <2> QED BY <2>2, <2>7, <2>8, NameGiven
<1>8. ASSUME NEW fd \in FDs, Close(fd) PROVE UniqueNames' BY <1>0, <1>8 DEF Close
<1>9. ASSUME NEW fd \in FDs, openFileDescTable[fd] # NULL,
             NEW i, i = openFileDescTable[fd].fileEntry, NEW first, NEW size,
             SetDiskEntry(i, [DiskEntry(i) EXCEPT !.first_block = first, !.size = size])
      PROVE  UniqueNames'
  <2>1. i \in FDs /\ openFileTable[i] # NULL /\ DiskEntry(i) \in Entry
    BY <1>9, DescriptorFile DEF IInv
  <2>e. PICK e : e = [DiskEntry(i) EXCEPT !.first_block = first, !.size = size] OBVIOUS
  <2>2. e.name = DiskEntry(i).name BY <2>1, <2>e DEF Entry
  <2>3. SetDiskEntry(i, e) BY <1>9, <2>e
  <2> QED BY <2>1, <2>2, <2>3, SetDiskEntryNames
<1>10. ASSUME NEW fd \in FDs, NEW buf \in Buffers,
              WriteInPlace(fd, buf) \/ WriteGrow(fd, buf)
       PROVE  UniqueNames'
  <2>i. PICK i : i = openFileDescTable[fd].fileEntry OBVIOUS
  <2>1. openFileDescTable[fd] # NULL BY <1>10 DEF WriteInPlace, WriteGrow, CanWrite
  <2>2. \E first, size :
          SetDiskEntry(i, [DiskEntry(i) EXCEPT !.first_block = first, !.size = size])
    <3>1. CASE WriteInPlace(fd, buf) BY <3>1, <2>i DEF WriteInPlace, WriteOut
    <3>2. CASE WriteGrow(fd, buf) BY <3>2, <2>i DEF WriteGrow, WriteOut
    <3> QED BY <1>10, <3>1, <3>2
  <2> QED BY <1>9, <2>1, <2>2, <2>i
<1>11. ASSUME NEW fd \in FDs, NEW length \in Lengths,
              TruncateGrow(fd, length) \/ TruncateShrink(fd, length)
       PROVE  UniqueNames'
  <2>i. PICK i : i = openFileDescTable[fd].fileEntry OBVIOUS
  <2>1. openFileDescTable[fd] # NULL BY <1>11 DEF TruncateGrow, TruncateShrink
  <2>2. \E first, size :
          SetDiskEntry(i, [DiskEntry(i) EXCEPT !.first_block = first, !.size = size])
    <3>1. CASE TruncateGrow(fd, length) BY <3>1, <2>i DEF TruncateGrow
    <3>2. CASE TruncateShrink(fd, length) BY <3>2, <2>i DEF TruncateShrink
    <3> QED BY <1>11, <3>1, <3>2
  <2> QED BY <1>9, <2>1, <2>2, <2>i
<1>12. ASSUME NEW fd \in FDs, NEW len \in Lengths, Read(fd, len) PROVE UniqueNames'
  BY <1>0, <1>12 DEF Read
<1>13. ASSUME NEW fd \in FDs, NEW delta \in Deltas, Seek(fd, delta) PROVE UniqueNames'
  BY <1>0, <1>13 DEF Seek
<1>14. CASE UNCHANGED vars BY <1>0, <1>14 DEF vars
<1> QED
  BY <1>1, <1>2, <1>3, <1>4, <1>5, <1>6, <1>7, <1>8, <1>10, <1>11, <1>12, <1>13, <1>14 DEF Next

LEMMA NamesInit == Init => UniqueNames
<1> SUFFICES ASSUME Init PROVE UniqueNames OBVIOUS
<1>1. ~ Occupied(UnusedEntry) BY DEF Occupied, UnusedEntry
<1>2. CASE Formatted
  <2>1. \A s \in Slots : ~ Occupied(files[s]) BY <1>1, <1>2 DEF Formatted
  <2> QED BY <2>1 DEF UniqueNames
<1>3. CASE LegacyImage
  <2>1. PICK name \in Names :
          files = [s \in Slots |-> IF s = <<0, 1>>
                                   THEN [first_block |-> 1, size |-> 0, name |-> name]
                                   ELSE UnusedEntry]
    BY <1>3 DEF LegacyImage
  <2>2. \A s \in Slots : Occupied(files[s]) => s = <<0, 1>> /\ files[s].name = name
    BY <1>1, <2>1
  <2> QED BY <2>2 DEF UniqueNames
<1> QED BY <1>2, <1>3 DEF Init

(* No call gives a file a name that another file of the directory has: a search that fails *)
(* has looked at every entry in use, also after the directory has grown.                   *)
THEOREM UniqueNamesCorrect == Spec => []UniqueNames
<1>1. Init => IInv /\ Structure /\ UniqueNames BY InitKeeps, StructureInit, NamesInit
<1>2. IInv /\ Structure /\ UniqueNames /\ [Next]_vars => (IInv /\ Structure /\ UniqueNames)'
  <2> SUFFICES ASSUME IInv, Structure, UniqueNames, [Next]_vars
               PROVE  IInv' /\ Structure' /\ UniqueNames'
    OBVIOUS
  <2>1. IInv' BY NextKeeps
  <2> QED BY <2>1, StructureNext, NamesNext
<1> QED BY <1>1, <1>2, PTL DEF Spec

-----------------------------------------------------------------------------
(* A loop over sfs_list *)

\* The entry at position p of the directory.
EntryAt(p) == <<SlotAt(DirectoryBlocks, p), files[SlotAt(DirectoryBlocks, p)].name>>

\* The names that a loop has returned hold this one once, or not at all.
ListedOnce(names, name) ==
    \E i \in DOMAIN names : names[i] = name /\ \A j \in DOMAIN names : names[j] = name => j = i

NotListed(names, name) == \A i \in DOMAIN names : names[i] # name

\* The invariant of a loop: it has returned the kept entries up to the cookie, each once,
\* and none of those that follow.
Listing ==
    /\ listed \in Seq(Names)
    /\ cookie = 0 \/ cookie \in Positions
    /\ cookie # 0 =>
        /\ kept \subseteq Entries
        /\ \A p \in Positions : EntryAt(p) \in kept =>
            IF p <= cookie THEN ListedOnce(listed, EntryAt(p)[2])
            ELSE NotListed(listed, EntryAt(p)[2])
    /\ cookie = 0 => \A e \in kept : ListedOnce(listed, e[2])

LEMMA PositionFacts ==
  ASSUME IInv, Structure
  PROVE  /\ Positions \subseteq Nat \ {0}
         /\ \A p \in Positions : SlotAt(DirectoryBlocks, p) \in Slots
         /\ \A p, q \in Positions :
                SlotAt(DirectoryBlocks, p) = SlotAt(DirectoryBlocks, q) => p = q
         /\ \A e \in Entries : \E p \in Positions : e = EntryAt(p)
<1>1. Ordered(disk, DirectoryBlocks) BY DirectoryOrder
<1>2. Positions \subseteq Nat \ {0}
  <2>1. Len(DirectoryBlocks) * DIR_ENTRIES_PER_BLOCK \in Nat
    <3>1. Len(DirectoryBlocks) \in Nat BY <1>1 DEF Ordered
    <3> QED BY <3>1
  <2>n. PICK n : n = Len(DirectoryBlocks) * DIR_ENTRIES_PER_BLOCK OBVIOUS
  <2> QED BY <2>1, <2>n DEF Positions
<1>3. ASSUME NEW e \in Entries PROVE \E p \in Positions : e = EntryAt(p)
  <2>1. PICK s \in Slots : e = <<s, files[s].name>> /\ Occupied(files[s]) BY DEF Entries
  <2>2. InDirectory(disk, s) BY <2>1 DEF Structure
  <2>3. PICK p \in Positions : SlotAt(DirectoryBlocks, p) = s
    BY <1>1, <2>2 DEF Ordered, Positions
  <2> QED BY <2>1, <2>3 DEF EntryAt
<1> QED BY <1>1, <1>2, <1>3 DEF Ordered, Positions

LEMMA KeptEntry ==
  ASSUME NEW p \in Positions, EntryAt(p) \in Entries
  PROVE  Occupied(files[SlotAt(DirectoryBlocks, p)])
<1>1. PICK s \in Slots : EntryAt(p) = <<s, files[s].name>> /\ Occupied(files[s])
  BY DEF Entries
<1> QED BY <1>1 DEF EntryAt

(* The loop returns the name of position p, which it has not returned yet. *)
LEMMA NameReturned ==
  ASSUME NEW s \in Seq(Names), listed \in Seq(Names), NEW name \in Names,
         listed' = s \o <<name>>, s = <<>> \/ s = listed
  PROVE  /\ listed' \in Seq(Names)
         /\ s = <<>> \/ NotListed(listed, name) => ListedOnce(listed', name)
         /\ \A other \in Names : other # name =>
                /\ s = <<>> \/ NotListed(listed, other) => NotListed(listed', other)
                /\ s = listed /\ ListedOnce(listed, other) => ListedOnce(listed', other)
<1>n. PICK n : n = Len(s) OBVIOUS
<1>1. /\ n \in Nat /\ s \in Seq(Names) /\ DOMAIN s = 1 .. n
      /\ listed' \in Seq(Names) /\ Len(listed') = n + 1 /\ DOMAIN listed' = 1 .. n + 1
      /\ listed'[n + 1] = name
      /\ \A i \in 1 .. n : listed'[i] = s[i]
      /\ \A i \in 1 .. n + 1 : i # n + 1 => i \in 1 .. n
      /\ 1 .. n \subseteq 1 .. n + 1 /\ n + 1 \notin 1 .. n
      /\ s = <<>> => n = 0
  BY <1>n
<1>2. \A i \in DOMAIN s : s = listed
  <2>1. s = <<>> => DOMAIN s = {} OBVIOUS
  <2> QED BY <2>1
<1>3. ASSUME s = <<>> \/ NotListed(listed, name) PROVE ListedOnce(listed', name)
  <2>1. \A i \in 1 .. n : s[i] # name BY <1>1, <1>2, <1>3 DEF NotListed
  <2>2. n + 1 \in DOMAIN listed' BY <1>1
  <2>3. \A j \in DOMAIN listed' : listed'[j] = name => j = n + 1 BY <1>1, <2>1
  <2> QED BY <1>1, <2>2, <2>3 DEF ListedOnce
<1>4. ASSUME NEW other \in Names, other # name, s = <<>> \/ NotListed(listed, other)
      PROVE  NotListed(listed', other)
  <2>1. \A i \in 1 .. n : s[i] # other BY <1>1, <1>2, <1>4 DEF NotListed
  <2> QED BY <1>1, <1>4, <2>1 DEF NotListed
<1>5. ASSUME NEW other \in Names, other # name, s = listed, ListedOnce(listed, other)
      PROVE  ListedOnce(listed', other)
  <2>1. PICK i \in DOMAIN s : s[i] = other /\ \A j \in DOMAIN s : s[j] = other => j = i
    BY <1>5 DEF ListedOnce
  <2>2. i \in DOMAIN listed' /\ listed'[i] = other BY <1>1, <2>1
  <2>3. \A j \in DOMAIN listed' : listed'[j] = other => j = i BY <1>1, <1>5, <2>1
  <2> QED BY <2>2, <2>3 DEF ListedOnce
<1> QED BY <1>1, <1>3, <1>4, <1>5

LEMMA ListNameKeeps ==
  ASSUME IInv, Structure, UniqueNames, Listing, ListName
  PROVE  Listing'
<1>b. PICK blocks : blocks = DirectoryBlocks OBVIOUS
<1>1. PICK p \in Resume(cookie) :
        /\ \A q \in Resume(cookie) : p <= q
        /\ cookie' = p
        /\ listed' = (IF cookie = 0 THEN <<>> ELSE listed) \o <<files[SlotAt(blocks, p)].name>>
  BY <1>b DEF ListName
<1>2. /\ kept' = IF cookie = 0 THEN Entries ELSE kept
      /\ UNCHANGED vars
  BY DEF ListName
<1>3. /\ Positions' = Positions /\ Entries' = Entries
      /\ \A q : EntryAt(q)' = EntryAt(q)
  BY <1>2 DEF Positions, Entries, EntryAt, DirectoryBlocks, vars, SlotAt, Occupied
<1>4. /\ Positions \subseteq Nat \ {0}
      /\ \A q \in Positions : SlotAt(blocks, q) \in Slots
      /\ \A q, r \in Positions : SlotAt(blocks, q) = SlotAt(blocks, r) => q = r
  BY <1>b, PositionFacts
<1>5. p \in Positions /\ p > cookie /\ Occupied(files[SlotAt(blocks, p)])
      /\ \A q \in Positions : q > cookie /\ Occupied(files[SlotAt(blocks, q)]) => p <= q
  BY <1>1, <1>b DEF Resume
<1>n. PICK name : name = files[SlotAt(blocks, p)].name OBVIOUS
<1>6. name \in Names /\ \A q \in Positions :
        Occupied(files[SlotAt(blocks, q)]) =>
            files[SlotAt(blocks, q)].name \in Names
            /\ (q # p => files[SlotAt(blocks, q)].name # name)
  BY <1>4, <1>5, <1>n DEF UniqueNames
<1>s. PICK s : s = IF cookie = 0 THEN <<>> ELSE listed OBVIOUS
<1>7. s \in Seq(Names) /\ listed \in Seq(Names) /\ (s = <<>> \/ s = listed)
      /\ listed' = s \o <<name>>
  BY <1>1, <1>n, <1>s DEF Listing
<1>8. /\ listed' \in Seq(Names)
      /\ s = <<>> \/ NotListed(listed, name) => ListedOnce(listed', name)
      /\ \A other \in Names : other # name =>
            /\ s = <<>> \/ NotListed(listed, other) => NotListed(listed', other)
            /\ s = listed /\ ListedOnce(listed, other) => ListedOnce(listed', other)
  BY <1>6, <1>7, NameReturned
<1>9. kept' \subseteq Entries BY <1>2, <1>5, <1>4 DEF Listing
<1>10. ASSUME NEW q \in Positions, EntryAt(q) \in kept'
       PROVE  IF q <= p THEN ListedOnce(listed', EntryAt(q)[2])
              ELSE NotListed(listed', EntryAt(q)[2])
  <2>m. PICK other : other = files[SlotAt(blocks, q)].name OBVIOUS
  <2>1. EntryAt(q)[2] = other BY <1>b, <2>m DEF EntryAt
  <2>2. Occupied(files[SlotAt(blocks, q)]) BY <1>9, <1>10, <1>b, KeptEntry
  <2>3. other \in Names /\ (q # p => other # name) BY <1>6, <2>2, <2>m
  <2>4. q \in Nat /\ p \in Nat /\ q # 0 /\ (cookie = 0 \/ cookie \in Nat)
    BY <1>4, <1>5 DEF Listing
  <2>5. q > cookie => p <= q BY <1>5, <2>2
  <2>6. CASE cookie = 0
    <3>1. s = <<>> BY <1>s, <2>6
    <3>2. q = p \/ ~ (q <= p) BY <2>4, <2>5, <2>6
    <3>3. CASE q = p
      <4>1. other = name BY <1>n, <2>m, <3>3
      <4> QED BY <1>8, <2>1, <2>4, <3>1, <3>3, <4>1
    <3>4. CASE ~ (q <= p)
      <4>1. q # p BY <2>4, <3>4
      <4> QED BY <1>8, <2>1, <2>3, <3>1, <3>4, <4>1
    <3> QED BY <3>2, <3>3, <3>4
  <2>7. CASE cookie # 0
    <3>1. s = listed BY <1>s, <2>7
    <3>2. EntryAt(q) \in kept BY <1>2, <1>10, <2>7
    <3>3. IF q <= cookie THEN ListedOnce(listed, other) ELSE NotListed(listed, other)
      BY <2>1, <2>7, <3>2 DEF Listing
    <3>4. CASE q <= cookie
      <4>1. q <= p /\ q # p BY <1>5, <2>4, <2>7, <3>4
      <4> QED BY <1>8, <2>1, <2>3, <3>1, <3>3, <3>4, <4>1
    <3>5. CASE ~ (q <= cookie)
      <4>1. p <= q BY <2>4, <2>5, <2>7, <3>5
      <4>2. CASE q = p
        <5>1. other = name BY <1>n, <2>m, <4>2
        <5> QED BY <1>8, <2>1, <2>4, <3>3, <3>5, <4>2, <5>1
      <4>3. CASE q # p
        <5>1. ~ (q <= p) BY <2>4, <4>1, <4>3
        <5> QED BY <1>8, <2>1, <2>3, <3>3, <3>5, <4>3, <5>1
      <4> QED BY <4>2, <4>3
    <3> QED BY <3>4, <3>5
  <2> QED BY <2>6, <2>7
<1>11. cookie' # 0 /\ cookie' \in Positions' BY <1>1, <1>3, <1>4, <1>5
<1>12. \A q \in Positions' : EntryAt(q)' \in kept' =>
         IF q <= cookie' THEN ListedOnce(listed', EntryAt(q)'[2])
         ELSE NotListed(listed', EntryAt(q)'[2])
  BY <1>1, <1>3, <1>10
<1> QED BY <1>3, <1>8, <1>9, <1>11, <1>12 DEF Listing

LEMMA ListEndKeeps ==
  ASSUME IInv, Structure, Listing, ListEnd
  PROVE  Listing'
<1>1. cookie # 0 /\ Resume(cookie) = {} /\ cookie' = 0 /\ listed' = listed /\ kept' = kept
  BY DEF ListEnd
<1>2. ASSUME NEW e \in kept PROVE ListedOnce(listed, e[2])
  <2>1. e \in Entries BY <1>1, <1>2 DEF Listing
  <2>2. PICK p \in Positions : e = EntryAt(p) BY <2>1, PositionFacts
  <2>3. Occupied(files[SlotAt(DirectoryBlocks, p)]) BY <2>1, <2>2, KeptEntry
  <2>4. ~ (p > cookie) BY <1>1, <2>3 DEF Resume
  <2>5. p \in Nat /\ cookie \in Nat BY <1>1, PositionFacts DEF Listing
  <2>6. p <= cookie BY <2>4, <2>5
  <2> QED BY <1>1, <1>2, <2>2, <2>6 DEF Listing
<1>3. listed \in Seq(Names) BY DEF Listing
<1>4. \A e \in kept' : ListedOnce(listed', e[2]) BY <1>1, <1>2 DEF ListedOnce
<1> QED BY <1>1, <1>3, <1>4 DEF Listing

(* What other threads do in the meantime moves no entry. *)
LEMMA DirectoryStays ==
  ASSUME IInv, Structure, IInv', Structure', DirectoryGrows
  PROVE  /\ \A p \in Positions : p \in Positions'
                /\ SlotAt(DirectoryBlocks', p) = SlotAt(DirectoryBlocks, p)
         /\ \A p, q \in Positions' :
                SlotAt(DirectoryBlocks', p) = SlotAt(DirectoryBlocks', q) => p = q
<1>b. PICK blocks : blocks = DirectoryBlocks OBVIOUS
<1>c. PICK blocks2 : blocks2 = DirectoryBlocks' OBVIOUS
<1>l. PICK l : l = List(disk.blk, next_rootdir) OBVIOUS
<1>m. PICK l2 : l2 = List(disk'.blk, next_rootdir') OBVIOUS
<1>1. PICK E : Arranged(disk, next_rootdir, E) BY DEF Structure
<1>2. PICK E2 : Arranged(disk', next_rootdir', E2) BY DEF Structure
<1>3. disk \in Disk /\ next_rootdir \in BlockId /\ disk' \in Disk /\ next_rootdir' \in BlockId
  BY DEF IInv, TypeOK
<1>4. blocks = <<0>> \o l /\ blocks2 = <<0>> \o l2
  BY <1>b, <1>c, <1>l, <1>m DEF DirectoryBlocks
<1>5. DirectoryIs(disk.blk, next_rootdir, l) BY <1>1, <1>3, <1>l, DirectoryList
<1>6. DirectoryIs(disk'.blk, next_rootdir', l2) BY <1>2, <1>3, <1>m, DirectoryList
<1>7. Ordered(disk', blocks2) BY <1>2, <1>3, <1>4, <1>m, DirectoryOrdered
<1>8. Len(l) <= Len(l2) /\ \A i \in 1 .. Len(l) : l2[i] = l[i]
  BY <1>5, <1>6, DirectoryContinues DEF DirectoryGrows
<1>9. l \in Seq(Blocks) /\ l2 \in Seq(Blocks) BY <1>5, <1>6 DEF DirectoryIs
<1>10. blocks \in Seq(BlockId) /\ blocks2 \in Seq(BlockId)
  <2>1. l \in Seq(BlockId) /\ l2 \in Seq(BlockId) /\ 0 \in BlockId BY <1>9, BlockIds
  <2> QED BY <1>4, <2>1
<1>11. Len(blocks) <= Len(blocks2) BY <1>4, <1>8, <1>9
<1>12. ASSUME NEW i \in 1 .. Len(blocks) PROVE blocks2[i] = blocks[i]
  <2>1. CASE i = 1 BY <1>4, <1>9, <2>1
  <2>2. CASE i # 1
    <3>1. i \in Nat /\ i - 1 \in 1 .. Len(l) BY <1>4, <1>9, <2>2
    <3>2. i - 1 \in 1 .. Len(l2) BY <1>8, <1>9, <3>1
    <3>3. blocks[i] = l[i - 1] BY <1>4, <1>9, <2>2, <3>1
    <3>4. blocks2[i] = l2[i - 1] BY <1>4, <1>9, <2>2, <3>1, <3>2
    <3> QED BY <1>8, <3>1, <3>3, <3>4
  <2> QED BY <2>1, <2>2
<1>13. \A p \in 1 .. Len(blocks) * DIR_ENTRIES_PER_BLOCK :
         /\ p \in 1 .. Len(blocks2) * DIR_ENTRIES_PER_BLOCK
         /\ SlotAt(blocks2, p) = SlotAt(blocks, p)
  BY ONLY <1>10, <1>11, <1>12, SlotsStay
<1>14. Positions = 1 .. Len(blocks) * DIR_ENTRIES_PER_BLOCK
       /\ Positions' = 1 .. Len(blocks2) * DIR_ENTRIES_PER_BLOCK
  BY <1>b, <1>c DEF Positions
<1>15. \A p, q \in Positions' : SlotAt(blocks2, p) = SlotAt(blocks2, q) => p = q
  BY <1>7, <1>14 DEF Ordered
<1> QED BY <1>13, <1>14, <1>15, <1>b, <1>c

LEMMA OtherCallKeeps ==
  ASSUME IInv, Structure, IInv', Structure', DirectoryGrows, Listing, OtherCall
  PROVE  Listing'
<1>1. CASE cookie = 0
  <2>1. listed' = <<>> /\ kept' = {} /\ cookie' = 0 BY <1>1 DEF OtherCall
  <2> QED BY <2>1 DEF Listing
<1>2. CASE cookie # 0
  <2>1. kept' = kept \cap Entries' /\ listed' = listed /\ cookie' = cookie
    BY <1>2 DEF OtherCall
  <2>b. PICK blocks : blocks = DirectoryBlocks OBVIOUS
  <2>c. PICK blocks2 : blocks2 = DirectoryBlocks' OBVIOUS
  <2>2. \A p \in Positions : p \in Positions' /\ SlotAt(blocks2, p) = SlotAt(blocks, p)
    BY DirectoryStays, <2>b, <2>c
  <2>3. ASSUME NEW p \in Positions', EntryAt(p)' \in kept'
        PROVE  p \in Positions /\ EntryAt(p)' = EntryAt(p) /\ EntryAt(p) \in kept
    <3>1. EntryAt(p)' \in kept /\ EntryAt(p)' \in Entries BY <1>2, <2>1, <2>3 DEF Listing
    <3>2. PICK q \in Positions : EntryAt(p)' = EntryAt(q) BY <3>1, PositionFacts
    <3>3. SlotAt(blocks2, p) = SlotAt(blocks, q) BY <2>b, <2>c, <3>2 DEF EntryAt
    <3>4. q \in Positions' /\ SlotAt(blocks2, q) = SlotAt(blocks, q) BY <2>2
    <3>5. p = q BY <2>c, <3>3, <3>4, DirectoryStays
    <3> QED BY <3>1, <3>2, <3>5
  <2>4. \A name :
          /\ ListedOnce(listed', name) = ListedOnce(listed, name)
          /\ NotListed(listed', name) = NotListed(listed, name)
    BY <2>1 DEF ListedOnce, NotListed
  <2>5. \A p \in Positions' : EntryAt(p)' \in kept' =>
          IF p <= cookie' THEN ListedOnce(listed', EntryAt(p)'[2])
          ELSE NotListed(listed', EntryAt(p)'[2])
    BY <1>2, <2>1, <2>3, <2>4 DEF Listing
  <2>6. cookie' \in Positions' BY <1>2, <2>1, <2>2 DEF Listing
  <2>7. listed' \in Seq(Names) /\ cookie' # 0 /\ kept' \subseteq Entries'
    BY <1>2, <2>1 DEF Listing
  <2> QED BY <2>5, <2>6, <2>7 DEF Listing
<1> QED BY <1>1, <1>2

LEMMA ListingListed ==
  ASSUME Listing
  PROVE  KeptListedOnce
<1> SUFFICES ASSUME cookie = 0, NEW e \in kept
             PROVE  Cardinality({i \in DOMAIN listed : listed[i] = e[2]}) = 1
  BY DEF KeptListedOnce
<1>1. ListedOnce(listed, e[2]) BY DEF Listing
<1>2. PICK i \in DOMAIN listed :
        listed[i] = e[2] /\ \A j \in DOMAIN listed : listed[j] = e[2] => j = i
  BY <1>1 DEF ListedOnce
<1>3. {j \in DOMAIN listed : listed[j] = e[2]} = {i} BY <1>2
<1> QED BY <1>3, FS_Singleton

\* The inductive invariant of SfsList.
LInv == IInv /\ Structure /\ UniqueNames /\ Listing

(* A loop over sfs_list returns every entry that stays in place once, although nothing is *)
(* locked between its calls: other calls move no entry, and the directory only gets       *)
(* longer, so that the cookie keeps its meaning.                                          *)
THEOREM KeptListedOnceCorrect == ListSpec => []KeptListedOnce
<1>1. ListInit => LInv
  <2> SUFFICES ASSUME ListInit PROVE LInv OBVIOUS
  <2>1. IInv /\ Structure /\ UniqueNames
    BY InitKeeps, StructureInit, NamesInit DEF ListInit
  <2>2. Listing BY DEF ListInit, Listing
  <2> QED BY <2>1, <2>2 DEF LInv
<1>2. LInv /\ [ListNext]_<<vars, listVars>> => LInv'
  <2> SUFFICES ASSUME LInv, [ListNext]_<<vars, listVars>> PROVE LInv' OBVIOUS
  <2>1. [Next]_vars BY DEF ListNext, ListName, ListEnd, OtherCall
  <2>2. IInv' BY <2>1, NextKeeps DEF LInv
  <2>3. Structure' /\ DirectoryGrows BY <2>1, <2>2, StructureNext DEF LInv
  <2>4. UniqueNames' BY <2>1, <2>2, NamesNext DEF LInv
  <2>5. ASSUME ListName PROVE Listing' BY <2>5, ListNameKeeps DEF LInv
  <2>6. ASSUME ListEnd PROVE Listing' BY <2>6, ListEndKeeps DEF LInv
  <2>7. ASSUME OtherCall PROVE Listing' BY <2>2, <2>3, <2>7, OtherCallKeeps DEF LInv
  <2>8. ASSUME UNCHANGED <<vars, listVars>> PROVE Listing'
    <3>1. Listing' = Listing
      BY <2>8 DEF Listing, listVars, vars, Positions, Entries, EntryAt, DirectoryBlocks, SlotAt,
            Occupied, ListedOnce, NotListed
    <3> QED BY <3>1 DEF LInv
  <2>9. Listing' BY <2>5, <2>6, <2>7, <2>8 DEF ListNext, LInv
  <2> QED BY <2>2, <2>3, <2>4, <2>9 DEF LInv
<1>3. LInv => KeptListedOnce BY ListingListed DEF LInv
<1> QED BY <1>1, <1>2, <1>3, PTL DEF ListSpec

-----------------------------------------------------------------------------
(* sfs-fsck *)

\* The paths of the lists on the disk, and the entries of the files that own them.
Image(E, H, L, P, own, at) ==
    /\ EntriesAre(E, files, openFileTable)
    /\ Headed(H, disk.freelist, next_rootdir, E)
    /\ Laid(disk.blk, H, L, P, own, at)
    /\ \A o \in FileOwners : FileFits(E[o], L[o])

\* The state of a check that has met no error.
Accepted(visited) == [ok |-> TRUE, visited |-> visited]

OwnedBy(own, o) == {b \in Blocks : own[b] = o}

\* The path p of length m is linked from first on.
Linked(blk, first, m, p) ==
    /\ m \in Nat /\ p \in [1 .. m -> Blocks]
    /\ \A i, j \in 1 .. m : p[i] = p[j] => i = j
    /\ m = 0 => first \notin Blocks
    /\ m # 0 => first = p[1]
    /\ m # 0 => blk[p[m]].next \notin Blocks
    /\ \A i \in 1 .. m : i # m => blk[p[i]].next = p[i + 1]

LEMMA LinkedList ==
  ASSUME NEW blk, NEW first, NEW m, NEW p, Linked(blk, first, m, p)
  PROVE  /\ List(blk, first) \in Seq(Blocks) /\ Len(List(blk, first)) = m
         /\ \A i \in 1 .. m : List(blk, first)[i] = p[i]
BY ListIs, SMTT(60) DEF Linked

LEMMA LaidList ==
  ASSUME NEW blk, NEW H, NEW L, NEW P, NEW own, NEW at, Laid(blk, H, L, P, own, at),
         NEW o \in Owners
  PROVE  /\ List(blk, H[o]) \in Seq(Blocks) /\ Len(List(blk, H[o])) = L[o]
         /\ \A i \in 1 .. L[o] : List(blk, H[o])[i] = P[o][i]
<1>m. PICK m : m = L[o] OBVIOUS
<1>p. PICK p : p = [i \in 1 .. m |-> P[o][i]] OBVIOUS
<1>f. PICK first : first = H[o] OBVIOUS
<1>1. /\ m \in Nat /\ p \in [1 .. m -> Blocks]
      /\ \A i, j \in 1 .. m : P[o][i] = P[o][j] => i = j
      /\ m # 0 => blk[P[o][m]].next = 0
      /\ \A i \in 1 .. m : i # m => blk[P[o][i]].next = P[o][i + 1]
  BY ONLY PathsApart, <1>m, <1>p, Laid(blk, H, L, P, own, at), o \in Owners
<1>2. \A i \in 1 .. m : p[i] = P[o][i] BY <1>p
<1>3. m # 0 => m \in 1 .. m /\ 1 \in 1 .. m BY <1>1
<1>4. (m = 0 => first \notin Blocks) /\ (m # 0 => first = p[1])
  BY <1>2, <1>3, <1>m, <1>f DEF Laid
<1>5. \A i, j \in 1 .. m : p[i] = p[j] => i = j BY <1>1, <1>2
<1>6. m # 0 => blk[p[m]].next \notin Blocks
  <2>1. 0 \notin Blocks BY DEF Blocks
  <2> QED BY <1>1, <1>2, <1>3, <2>1
<1>7. \A i \in 1 .. m : i # m => blk[p[i]].next = p[i + 1]
  <2>1. \A i \in 1 .. m : i # m => i + 1 \in 1 .. m BY <1>1
  <2> QED BY <1>1, <1>2, <2>1
<1>8. /\ List(blk, first) \in Seq(Blocks) /\ Len(List(blk, first)) = m
      /\ \A i \in 1 .. m : List(blk, first)[i] = p[i]
  <2>1. m \in Nat /\ p \in [1 .. m -> Blocks] BY <1>1
  <2>2. m = 0 => first \notin Blocks BY <1>4
  <2>3. m # 0 => first = p[1] BY <1>4
  <2>4. Linked(blk, first, m, p) BY <2>1, <2>2, <2>3, <1>5, <1>6, <1>7 DEF Linked
  <2> QED BY <2>4, LinkedList
<1> QED BY <1>2, <1>8, <1>m, <1>f

(* check_blocklist accepts the list of an owner of which no block was visited. *)
LEMMA BlocklistAccepted ==
  ASSUME NEW H, NEW L, NEW P, NEW own, NEW at, Laid(disk.blk, H, L, P, own, at),
         NEW o \in Owners, H[o] \in BlockId,
         NEW visited, OwnedBy(own, o) \cap visited = {}
  PROVE  check_blocklist(Accepted(visited), H[o], TypeOf(o))
            = Accepted(visited \cup OwnedBy(own, o))
<1>b. PICK blk : blk = disk.blk OBVIOUS
<1>m. PICK m : m = L[o] OBVIOUS
<1>f. PICK first : first = H[o] OBVIOUS
<1>l. PICK list : list = List(blk, first) OBVIOUS
<1>0. Laid(blk, H, L, P, own, at) BY <1>b
<1>1. /\ list \in Seq(Blocks) /\ Len(list) = m /\ m \in Nat /\ DOMAIN list = 1 .. m
      /\ \A i \in 1 .. m : list[i] = P[o][i]
  <2>1. /\ List(blk, H[o]) \in Seq(Blocks) /\ Len(List(blk, H[o])) = L[o]
        /\ \A i \in 1 .. L[o] : List(blk, H[o])[i] = P[o][i]
    BY ONLY <1>0, LaidList, o \in Owners
  <2> QED BY <2>1, <1>f, <1>l, <1>m
<1>2. /\ \A i \in 1 .. m : list[i] \in Blocks /\ own[list[i]] = o /\ at[list[i]] = i
      /\ \A b \in OwnedBy(own, o) : at[b] \in 1 .. m /\ list[at[b]] = b
  <2>1. \A i \in 1 .. m : P[o][i] \in Blocks /\ own[P[o][i]] = o /\ at[P[o][i]] = i
    BY <1>0, <1>m DEF Laid
  <2>2. \A b \in OwnedBy(own, o) : at[b] \in 1 .. m /\ P[o][at[b]] = b
    BY <1>0, <1>m DEF Laid, OwnedBy
  <2> QED BY <1>1, <2>1, <2>2
<1>3. {list[i] : i \in DOMAIN list} = OwnedBy(own, o) BY <1>1, <1>2 DEF OwnedBy
<1>4. ASSUME NEW i \in 1 .. m
      PROVE  /\ list[i] \notin visited
             /\ \A j \in 1 .. i - 1 : list[j] # list[i]
             /\ blk[list[i]].type = TypeOf(o)
             /\ blk[list[i]].prev = (<<0>> \o list)[i]
             /\ blk[list[i]].next = IF i = m THEN 0 ELSE list[i + 1]
  <2>1. list[i] \in OwnedBy(own, o) BY <1>2 DEF OwnedBy
  <2>2. list[i] \notin visited BY <2>1
  <2>3. ASSUME NEW j \in 1 .. i - 1 PROVE list[j] # list[i]
    <3>1. j \in 1 .. m /\ j # i BY <1>1
    <3> QED BY <1>2, <3>1
  <2>4. /\ blk[list[i]].type = TypeOf(o)
        /\ blk[list[i]].prev = IF i = 1 THEN 0 ELSE P[o][i - 1]
        /\ blk[list[i]].next = IF i = m THEN 0 ELSE P[o][i + 1]
    <3>b. PICK b : b = list[i] OBVIOUS
    <3>1. b \in Blocks /\ own[b] = o /\ at[b] = i BY <1>2, <3>b
    <3>2. /\ blk[b].type = TypeOf(o)
          /\ blk[b].prev = IF i = 1 THEN 0 ELSE P[o][i - 1]
          /\ blk[b].next = IF i = L[o] THEN 0 ELSE P[o][i + 1]
      BY ONLY <1>0, <3>1 DEF Laid
    <3> QED BY <1>m, <3>2, <3>b
  <2>5. i # 1 => i - 1 \in 1 .. m BY <1>1
  <2>6. i # m => i + 1 \in 1 .. m BY <1>1
  <2>7. (<<0>> \o list)[i] = IF i = 1 THEN 0 ELSE list[i - 1]
    <3>1. list \in Seq(Nat) BY <1>1 DEF Blocks
    <3> QED BY <1>1, <3>1
  <2> QED BY <1>1, <2>2, <2>3, <2>4, <2>5, <2>6, <2>7
<1>5. (IF m = 0 THEN first ELSE blk[list[m]].next) = 0
  <2>1. CASE m = 0
    <3>1. first \notin Blocks BY <1>0, <1>f, <1>m, <2>1 DEF Laid
    <3> QED BY <1>f, <2>1, <3>1 DEF BlockId, Blocks
  <2>2. CASE m # 0
    <3>1. m \in 1 .. m BY <1>1, <2>2
    <3> QED BY <1>4, <2>2, <3>1
  <2> QED BY <2>1, <2>2
<1>c. PICK check : check = Accepted(visited) OBVIOUS
<1>6. check.ok = TRUE /\ check.visited = visited BY <1>c DEF Accepted
<1>t. PICK type : type = TypeOf(o) OBVIOUS
<1>7. check_blocklist(check, first, type)
        = [ok |-> /\ check.ok /\ (IF Len(list) = 0 THEN first ELSE blk[list[Len(list)]].next) = 0
                  /\ \A i \in DOMAIN list :
                        /\ list[i] \notin check.visited
                        /\ \A j \in 1 .. i - 1 : list[j] # list[i]
                        /\ blk[list[i]].type = type
                        /\ blk[list[i]].prev = (<<0>> \o list)[i],
           visited |-> check.visited \cup {list[i] : i \in DOMAIN list}]
  BY <1>b, <1>l, ZenonT(60) DEF check_blocklist
<1>8. /\ check.ok /\ (IF Len(list) = 0 THEN first ELSE blk[list[Len(list)]].next) = 0
      /\ \A i \in DOMAIN list :
            /\ list[i] \notin check.visited
            /\ \A j \in 1 .. i - 1 : list[j] # list[i]
            /\ blk[list[i]].type = type
            /\ blk[list[i]].prev = (<<0>> \o list)[i]
  BY <1>1, <1>4, <1>5, <1>6, <1>t
<1>9. check_blocklist(check, first, type)
        = [ok |-> TRUE, visited |-> visited \cup OwnedBy(own, o)]
  BY ONLY <1>3, <1>6, <1>7, <1>8, Zenon
<1> QED BY <1>9, <1>c, <1>f, <1>t DEF Accepted

LEMMA SuperblockAccepted ==
  ASSUME IInv, NEW E, NEW H, NEW L, NEW P, NEW own, NEW at, Image(E, H, L, P, own, at)
  PROVE  check_superblock = Accepted(OwnedBy(own, FreeList) \cup OwnedBy(own, Root))
<1>1. Laid(disk.blk, H, L, P, own, at) /\ H[FreeList] = disk.freelist /\ H[Root] = next_rootdir
  BY DEF Image, Headed
<1>2. disk.freelist \in BlockId /\ next_rootdir \in BlockId BY DEF IInv, TypeOK, Disk
<1>3. Unvisited = Accepted({}) BY DEF Unvisited, Accepted
<1>4. check_blocklist(Accepted({}), H[FreeList], TypeOf(FreeList))
        = Accepted({} \cup OwnedBy(own, FreeList))
  BY <1>1, <1>2, OwnersApart, BlocklistAccepted
<1>5. check_blocklist(Accepted(OwnedBy(own, FreeList)), H[Root], TypeOf(Root))
        = Accepted(OwnedBy(own, FreeList) \cup OwnedBy(own, Root))
  <2>1. OwnedBy(own, Root) \cap OwnedBy(own, FreeList) = {} BY OwnersApart DEF OwnedBy
  <2>v. PICK visited : visited = OwnedBy(own, FreeList) OBVIOUS
  <2>2. check_blocklist(Accepted(visited), H[Root], TypeOf(Root))
          = Accepted(visited \cup OwnedBy(own, Root))
    BY <1>1, <1>2, <2>1, <2>v, OwnersApart, BlocklistAccepted
  <2> QED BY <2>2, <2>v
<1>6. {} \cup OwnedBy(own, FreeList) = OwnedBy(own, FreeList) OBVIOUS
<1> QED BY <1>1, <1>3, <1>4, <1>5, <1>6, OwnersApart DEF check_superblock

(* check_directory_entries computes the number of blocks as the file system does. *)
LEMMA ExpectedBlocks ==
  ASSUME NEW e \in Entry, e.first_block # SFS_EMPTY_FILE_BLOCK
  PROVE  (IF e.size = 0 THEN 1 ELSE (e.size + BLOCK_DATA_SIZE - 1) \div BLOCK_DATA_SIZE)
            = allocatedBlocksForFile(e)
<1>n. PICK size : size = e.size OBVIOUS
<1>b. PICK B : B = BLOCK_DATA_SIZE OBVIOUS
<1>1. size \in Nat BY <1>n DEF Entry
<1>2. B \in Nat \ {0} BY <1>b
<1>3. CASE size = 0 BY <1>3, <1>n DEF allocatedBlocksForFile
<1>4. CASE size # 0
  <2>q. PICK q : q = (size + (B - 1)) \div B OBVIOUS
  <2>1. size + B - 1 = size + (B - 1) /\ size + (B - 1) \in Nat BY ONLY <1>1, <1>2
  <2>2. q \in Nat BY ONLY <1>2, <2>1, <2>q
  <2>3. roundUp(size, B) = B * q BY <1>4, <2>q DEF roundUp
  <2>4. (B * q) \div B = q BY ONLY <1>2, <2>2
  <2>5. blocksForFileSize(size) = q BY <1>4, <1>b, <2>3, <2>4 DEF blocksForFileSize
  <2>6. allocatedBlocksForFile(e) = q BY <1>4, <1>n, <2>5 DEF allocatedBlocksForFile
  <2>7. (size + B - 1) \div B = q BY <2>1, <2>q
  <2> QED BY <1>4, <1>b, <1>n, <2>6, <2>7
<1> QED BY <1>3, <1>4

(* check_directory_entries accepts an entry whose blocks were not visited. *)
LEMMA EntryAccepted ==
  ASSUME IInv, UniqueNames, NEW E, NEW H, NEW L, NEW P, NEW own, NEW at,
         Image(E, H, L, P, own, at),
         NEW s \in Slots, NEW visited, OwnedBy(own, s) \cap visited = {}
  PROVE  check_entry(Accepted(visited), files[s]) = Accepted(visited \cup OwnedBy(own, s))
<1>e. PICK entry : entry = files[s] OBVIOUS
<1>c. PICK check : check = Accepted(visited) OBVIOUS
<1>d. PICK after : after = Accepted(visited \cup OwnedBy(own, s)) OBVIOUS
<1>1. /\ Laid(disk.blk, H, L, P, own, at) /\ Headed(H, disk.freelist, next_rootdir, E)
      /\ E \in [FileOwners -> Entry] /\ E[s] = entry /\ s \in FileOwners
      /\ FileFits(E[s], L[s])
  BY <1>e DEF Image, EntriesAre, FileOwners
<1>2. HasBlocks(E, H, L, P, s) BY ONLY <1>1, FileBlocks
<1>3. /\ s \in Owners /\ TypeOf(s) = "FILE" /\ L[s] \in Nat /\ H[s] = entry.first_block
      /\ L[s] # 0 <=> entry.first_block \in Blocks
      /\ Occupied(entry) => /\ SizedRight(entry) /\ L[s] = allocatedBlocksForFile(entry)
                            /\ L[s] = 0 <=> entry.first_block = SFS_EMPTY_FILE_BLOCK
  BY <1>1, <1>2 DEF HasBlocks
<1>4. entry \in Entry BY <1>1
<1>5. L[s] = 0 => OwnedBy(own, s) = {}
  <2>1. \A b \in Blocks : at[b] \in 1 .. L[own[b]] BY <1>1 DEF Laid
  <2> QED BY <2>1 DEF OwnedBy
<1>6. CASE entry.first_block = 0
  <2>1. L[s] = 0 BY <1>3, <1>6 DEF Blocks
  <2>2. check_entry(check, entry) = check BY <1>6 DEF check_entry
  <2>3. visited \cup OwnedBy(own, s) = visited BY <1>5, <2>1
  <2> QED BY <1>c, <1>e, <2>2, <2>3
<1>7. ASSUME entry.first_block # 0, NEW walked, walked = after,
             walked = IF entry.first_block = SFS_EMPTY_FILE_BLOCK THEN check
                      ELSE check_blocklist(check, entry.first_block, "FILE"),
             Len(List(disk.blk, entry.first_block))
                = IF entry.first_block = SFS_EMPTY_FILE_BLOCK THEN 0
                  ELSE IF entry.size = 0 THEN 1
                  ELSE (entry.size + BLOCK_DATA_SIZE - 1) \div BLOCK_DATA_SIZE
      PROVE  check_entry(check, entry) = after
  <2>f. PICK fine : fine = (/\ walked.ok /\ entry.name # NoName
                            /\ entry.first_block = SFS_EMPTY_FILE_BLOCK => entry.size = 0
                            /\ Len(List(disk.blk, entry.first_block))
                                = IF entry.first_block = SFS_EMPTY_FILE_BLOCK THEN 0
                                  ELSE IF entry.size = 0 THEN 1
                                  ELSE (entry.size + BLOCK_DATA_SIZE - 1) \div BLOCK_DATA_SIZE)
    OBVIOUS
  <2>1. check_entry(check, entry) = [walked EXCEPT !.ok = fine]
    BY <1>7, <2>f DEF check_entry
  <2>2. entry.name # NoName BY <1>7, <1>e, SfsAssumption DEF UniqueNames, Occupied
  <2>3. entry.first_block = SFS_EMPTY_FILE_BLOCK => entry.size = 0
    BY <1>3, <1>7 DEF Occupied, SizedRight
  <2>v. PICK all : all = visited \cup OwnedBy(own, s) OBVIOUS
  <2>w. walked = [ok |-> TRUE, visited |-> all] BY <1>7, <1>d, <2>v DEF Accepted
  <2>4. walked.ok = TRUE BY ONLY <2>w
  <2>5. fine = TRUE BY <1>7, <2>2, <2>3, <2>4, <2>f
  <2>6. [walked EXCEPT !.ok = TRUE] = walked
    <3>1. ASSUME NEW t, NEW w, w = [ok |-> t, visited |-> all] PROVE [w EXCEPT !.ok = t] = w
      BY <3>1
    <3> QED BY ONLY <2>w, <3>1, Zenon
  <2> QED BY <1>7, <2>1, <2>5, <2>6
<1>8. CASE entry.first_block = SFS_EMPTY_FILE_BLOCK
  <2>1. L[s] = 0 /\ entry.first_block # 0 BY <1>3, <1>8, BlockIds DEF Occupied
  <2>2. visited \cup OwnedBy(own, s) = visited BY <1>5, <2>1
  <2>3. List(disk.blk, entry.first_block) = <<>>
    <3>1. entry.first_block \notin Blocks BY <1>3, <2>1
    <3> QED BY <3>1, ListFacts
  <2>4. Len(List(disk.blk, entry.first_block)) = 0 BY <2>3
  <2> QED BY <1>7, <1>8, <1>c, <1>d, <1>e, <2>1, <2>2, <2>4
<1>9. CASE entry.first_block # 0 /\ entry.first_block # SFS_EMPTY_FILE_BLOCK
  <2>1. L[s] = allocatedBlocksForFile(entry) BY <1>3, <1>9 DEF Occupied
  <2>2. H[s] \in BlockId BY <1>3, <1>4, <1>9 DEF Entry
  <2>3. check_blocklist(check, entry.first_block, "FILE") = after
    BY <1>1, <1>3, <1>c, <1>d, <2>2, BlocklistAccepted
  <2>4. Len(List(disk.blk, entry.first_block)) = L[s] BY <1>1, <1>3, LaidList
  <2>5. (IF entry.size = 0 THEN 1 ELSE (entry.size + BLOCK_DATA_SIZE - 1) \div BLOCK_DATA_SIZE)
          = allocatedBlocksForFile(entry)
    BY <1>4, <1>9, ExpectedBlocks
  <2>6. check_entry(check, entry) = after
    BY <1>7, <1>9, <2>1, <2>3, <2>4, <2>5
  <2> QED BY <1>c, <1>d, <1>e, <2>6
<1> QED BY <1>6, <1>8, <1>9

-----------------------------------------------------------------------------
(* The loop of check_root_directory *)

LEMMA MaxOf ==
  ASSUME NEW n \in Nat, NEW S \in SUBSET (1 .. n), S # {}
  PROVE  Seqs!Max(S) \in S /\ \A y \in S : Seqs!Max(S) >= y
<1>1. S \in SUBSET (0 .. n) OBVIOUS
<1>2. PICK m \in S : \A y \in S : y <= m BY <1>1, GreatestElement
<1>3. \A y \in S : m >= y BY <1>2
<1> QED BY <1>3 DEF Seqs!Max

LEMMA MaxInterval ==
  ASSUME NEW k \in Nat
  PROVE  Seqs!Max(1 .. k + 1) = k + 1 /\ (1 .. k + 1) \ {k + 1} = 1 .. k
<1> PICK m : m = Seqs!Max(1 .. k + 1) OBVIOUS
<1> PICK T : T = 1 .. k + 1 OBVIOUS
<1>1. k + 1 \in Nat /\ T \in SUBSET (1 .. k + 1) /\ k + 1 \in T OBVIOUS
<1>2. m \in T /\ \A y \in T : m >= y BY <1>1, MaxOf
<1>3. m \in 1 .. k + 1 /\ m >= k + 1 BY <1>1, <1>2
<1>4. m = k + 1 BY ONLY <1>3, k \in Nat
<1> QED BY <1>4

\* W is the fold of check_entry over every set of positions of the entries e.
IsFold(W, check, e) ==
    W = [s \in SUBSET DOMAIN e |->
            IF s = {} THEN check
            ELSE LET x == Seqs!Max(s) IN check_entry(W[s \ {x}], e[x])]

\* The loop over the entries e.
Checked(check, e) == Seqs!FoldLeft(check_entry, check, e)

\* V is the state of the check after the n entries at any set of positions.
Comes(V, n, check, e) ==
    /\ DOMAIN e = 1 .. n
    /\ V = [S \in SUBSET (1 .. n) |-> V[S]]
    /\ V[{}] = check
    /\ \A S \in SUBSET (1 .. n) : \A x \in S : check_entry(V[S \ {x}], e[x]) = V[S]

(* Then the loop computes V. *)
LEMMA FoldIs ==
  ASSUME NEW n \in Nat, NEW e, NEW check, NEW V, Comes(V, n, check, e)
  PROVE  Checked(check, e) = V[1 .. n]
<1>c. /\ DOMAIN e = 1 .. n /\ V = [S \in SUBSET (1 .. n) |-> V[S]] /\ V[{}] = check
      /\ \A S \in SUBSET (1 .. n) : \A x \in S : check_entry(V[S \ {x}], e[x]) = V[S]
  BY DEF Comes
<1> DEFINE Step(W, s) == IF s = {} THEN check
                         ELSE check_entry(W[s \ {Seqs!Max(s)}], e[Seqs!Max(s)])
<1>0. \A W : IsFold(W, check, e) <=> W = [s \in SUBSET (1 .. n) |-> Step(W, s)]
  BY <1>c DEF IsFold
<1>1. \A s \in SUBSET (1 .. n) : s # {} => Seqs!Max(s) \in s BY MaxOf
<1>2. \A s \in SUBSET (1 .. n) : V[s] = Step(V, s) BY <1>1, <1>c
<1>3. IsFold(V, check, e)
  <2> HIDE DEF Step
  <2>1. [s \in SUBSET (1 .. n) |-> V[s]] = [s \in SUBSET (1 .. n) |-> Step(V, s)] BY <1>2
  <2> QED BY <1>0, <1>c, <2>1
<1>w. PICK W : W = CHOOSE W0 : IsFold(W0, check, e) OBVIOUS
<1>4. IsFold(W, check, e) BY <1>3, <1>w
<1>5. \A s \in SUBSET (1 .. n) : W[s] = Step(W, s)
  <2> HIDE DEF Step
  <2>1. W = [s \in SUBSET (1 .. n) |-> Step(W, s)] BY <1>0, <1>4
  <2> QED BY <2>1
<1> DEFINE T == {k \in Nat : k <= n => W[1 .. k] = V[1 .. k]}
<1>6. 0 \in T
  <2>1. 1 .. 0 = {} /\ {} \in SUBSET (1 .. n) OBVIOUS
  <2>2. W[{}] = check BY <1>5, <2>1
  <2> QED BY <1>c, <2>1, <2>2
<1>7. ASSUME NEW k \in Nat, k \in T PROVE k + 1 \in T
  <2> SUFFICES ASSUME k + 1 <= n PROVE W[1 .. k + 1] = V[1 .. k + 1] OBVIOUS
  <2>s. PICK s : s = 1 .. k + 1 OBVIOUS
  <2>r. PICK r : r = 1 .. k OBVIOUS
  <2>1. s \in SUBSET (1 .. n) /\ s # {} /\ k + 1 \in s BY <2>s, SMTT(30)
  <2>2. Seqs!Max(s) = k + 1 /\ s \ {k + 1} = r BY <2>s, <2>r, MaxInterval
  <2>3. W[r] = V[r] BY <1>7, <2>r
  <2>4. W[s] = check_entry(W[r], e[k + 1]) BY <1>5, <2>1, <2>2
  <2>5. V[s] = check_entry(V[r], e[k + 1]) BY <1>2, <2>1, <2>2
  <2> QED BY <2>3, <2>4, <2>5, <2>s
<1>8. n \in T
  <2> HIDE DEF T
  <2> QED BY <1>6, <1>7, SetInduction
<1>9. Checked(check, e) = W[1 .. n]
  <2>1. Checked(check, e) = (CHOOSE W0 : IsFold(W0, check, e))[DOMAIN e]
    BY ONLY TRUE DEF Checked, Seqs!FoldLeft, Seqs!MapThenFoldSet, IsFold
  <2> QED BY ONLY <1>c, <1>w, <2>1
<1> QED BY <1>8, <1>9

\* The blocks that were visited after the entries at the positions S.
VisitedAt(own, S) ==
    {b \in Blocks : own[b] = FreeList \/ own[b] = Root
                    \/ \E p \in S : own[b] = SlotAt(DirectoryBlocks, p)}

(* The entry at one more position is accepted: its blocks were not visited. *)
LEMMA VisitedNext ==
  ASSUME IInv, Structure, UniqueNames, NEW E, NEW H, NEW L, NEW P, NEW own, NEW at,
         Image(E, H, L, P, own, at), NEW S \in SUBSET Positions, NEW x \in S
  PROVE  check_entry(Accepted(VisitedAt(own, S \ {x})), files[SlotAt(DirectoryBlocks, x)])
            = Accepted(VisitedAt(own, S))
<1>s. PICK s : s = SlotAt(DirectoryBlocks, x) OBVIOUS
<1>v. PICK visited : visited = VisitedAt(own, S \ {x}) OBVIOUS
<1>1. /\ s \in Slots
      /\ \A p \in S : p # x => SlotAt(DirectoryBlocks, p) # s
  BY <1>s, PositionFacts
<1>2. s # FreeList /\ s # Root BY <1>1, OwnersApart DEF FileOwners
<1>3. OwnedBy(own, s) \cap visited = {} BY <1>1, <1>2, <1>v DEF VisitedAt, OwnedBy
<1>4. visited \cup OwnedBy(own, s) = VisitedAt(own, S)
  BY <1>s, <1>v DEF VisitedAt, OwnedBy
<1>5. check_entry(Accepted(visited), files[s]) = Accepted(visited \cup OwnedBy(own, s))
  BY <1>1, <1>3, EntryAccepted
<1> QED BY <1>4, <1>5, <1>s, <1>v

LEMMA RootDirectoryAccepted ==
  ASSUME IInv, Structure, UniqueNames, NEW E, NEW H, NEW L, NEW P, NEW own, NEW at,
         Image(E, H, L, P, own, at)
  PROVE  check_root_directory(check_superblock) = Accepted(VisitedAt(own, Positions))
<1>n. PICK n : n = Len(DirectoryBlocks) * DIR_ENTRIES_PER_BLOCK OBVIOUS
<1>c. PICK check : check = check_superblock OBVIOUS
<1>e. PICK e : e = [p \in 1 .. n |-> files[SlotAt(DirectoryBlocks, p)]] OBVIOUS
<1>v. PICK V : V = [S \in SUBSET (1 .. n) |-> Accepted(VisitedAt(own, S))] OBVIOUS
<1>1. n \in Nat
  <2>1. DirectoryBlocks \in Seq(BlockId) BY DirectoryOrder DEF Ordered
  <2>2. Len(DirectoryBlocks) \in Nat BY <2>1
  <2> QED BY <1>n, <2>2
<1>2. Positions = 1 .. n BY <1>n DEF Positions
<1>3. \A S \in SUBSET (1 .. n) : V[S] = Accepted(VisitedAt(own, S)) BY <1>v
<1>4. V = [S \in SUBSET (1 .. n) |-> V[S]] BY <1>v
<1>5. V[{}] = check
  <2>1. VisitedAt(own, {}) = OwnedBy(own, FreeList) \cup OwnedBy(own, Root)
    BY DEF VisitedAt, OwnedBy
  <2>2. V[{}] = Accepted(VisitedAt(own, {})) BY <1>3
  <2>3. check = Accepted(OwnedBy(own, FreeList) \cup OwnedBy(own, Root))
    BY <1>c, SuperblockAccepted
  <2> QED BY <2>1, <2>2, <2>3
<1>6. ASSUME NEW S \in SUBSET (1 .. n), NEW x \in S
      PROVE  check_entry(V[S \ {x}], e[x]) = V[S]
  <2>1. e[x] = files[SlotAt(DirectoryBlocks, x)] BY <1>e
  <2>2. V[S \ {x}] = Accepted(VisitedAt(own, S \ {x})) BY <1>3
  <2>3. V[S] = Accepted(VisitedAt(own, S)) BY <1>3
  <2>4. S \in SUBSET Positions BY <1>2
  <2>5. check_entry(Accepted(VisitedAt(own, S \ {x})), files[SlotAt(DirectoryBlocks, x)])
          = Accepted(VisitedAt(own, S))
    BY <2>4, VisitedNext
  <2> QED BY <2>1, <2>2, <2>3, <2>5
<1>7. DOMAIN e = 1 .. n BY <1>e
<1>8. Checked(check, e) = V[1 .. n]
  <2>1. \A S \in SUBSET (1 .. n) : \A x \in S : check_entry(V[S \ {x}], e[x]) = V[S]
    BY <1>6
  <2>2. Comes(V, n, check, e) BY <1>4, <1>5, <1>7, <2>1 DEF Comes
  <2> QED BY <1>1, <2>2, FoldIs
<1>9. V[1 .. n] = Accepted(VisitedAt(own, Positions)) BY <1>2, <1>3
<1>10. check_root_directory(check_superblock) = Checked(check, e)
  BY <1>n, <1>c, <1>e DEF Checked, check_root_directory
<1> QED BY <1>8, <1>9, <1>10

(* What is not visited belongs to files that are unlinked and still open. *)
LEMMA LostAreUnlinked ==
  ASSUME IInv, Structure, NEW E, NEW H, NEW L, NEW P, NEW own, NEW at,
         Image(E, H, L, P, own, at)
  PROVE  Blocks \ VisitedAt(own, Positions)
            = UNION {ListSet(disk.blk, DiskEntry(i).first_block) : i \in Unlinked}
<1>1. /\ Laid(disk.blk, H, L, P, own, at) /\ Headed(H, disk.freelist, next_rootdir, E)
      /\ E \in [FileOwners -> Entry] /\ \A o \in FileOwners : FileFits(E[o], L[o])
      /\ \A s \in Slots : E[s] = files[s]
      /\ \A i \in FDs : E[Own(i)] = OwnEntry(openFileTable[i])
  BY DEF Image, EntriesAre
<1>2. \A o \in FileOwners : HasBlocks(E, H, L, P, o) BY <1>1, FileBlocks
<1>3. ASSUME NEW b \in Blocks
      PROVE  /\ own[b] \in Owners
             /\ own[b] \in FileOwners => H[own[b]] \in Blocks /\ H[own[b]] = E[own[b]].first_block
  <2>1. own[b] \in Owners /\ at[b] \in 1 .. L[own[b]] BY <1>1 DEF Laid
  <2>2. L[own[b]] # 0 BY <2>1
  <2> QED BY <1>2, <2>1, <2>2 DEF HasBlocks
<1>4. ASSUME NEW i \in FDs, NEW b
      PROVE  b \in ListSet(disk.blk, H[Own(i)]) <=> b \in Blocks /\ own[b] = Own(i)
  <2>1. Own(i) \in Owners BY DEF Owners, FileOwners
  <2> QED BY <1>1, <2>1, LaidLists
<1>5. ASSUME NEW i \in Unlinked
      PROVE  i \in FDs /\ H[Own(i)] = DiskEntry(i).first_block
  <2>1. /\ i \in FDs /\ openFileTable[i] # NULL /\ openFileTable[i].diskFile = UnlinkedFile
    BY DEF Unlinked
  <2>2. E[Own(i)] = openFileTable[i].unlinkedFile BY <1>1, <2>1 DEF OwnEntry
  <2>3. H[Own(i)] = E[Own(i)].first_block BY <1>1, <2>1 DEF Headed, FileOwners
  <2> QED BY <2>1, <2>2, <2>3 DEF DiskEntry
<1>6. ASSUME NEW b \in Blocks, NEW i \in FDs, own[b] = Own(i) PROVE i \in Unlinked
  <2>1. Own(i) \in FileOwners BY DEF FileOwners
  <2>2. OwnEntry(openFileTable[i]).first_block \in Blocks BY <1>1, <1>3, <1>6, <2>1
  <2>3. UnusedEntry.first_block \notin Blocks BY DEF UnusedEntry, Blocks
  <2> QED BY <2>2, <2>3 DEF OwnEntry, Unlinked
<1>7. ASSUME NEW b \in Blocks, own[b] \in Slots
      PROVE  \E p \in Positions : own[b] = SlotAt(DirectoryBlocks, p)
  <2>1. own[b] \in FileOwners BY <1>7 DEF FileOwners
  <2>2. files[own[b]].first_block \in Blocks BY <1>1, <1>3, <1>7, <2>1
  <2>3. Occupied(files[own[b]]) BY <2>2 DEF Occupied, Blocks
  <2>4. InDirectory(disk, own[b]) BY <1>7, <2>3 DEF Structure
  <2> QED BY <1>7, <2>4, DirectoryOrder DEF Ordered, Positions
<1>8. ASSUME NEW i \in FDs
      PROVE  /\ Own(i) # FreeList /\ Own(i) # Root
             /\ \A p \in Positions : SlotAt(DirectoryBlocks, p) # Own(i)
  BY OwnersApart, PositionFacts DEF FileOwners
<1>9. ASSUME NEW b
      PROVE  b \in Blocks \ VisitedAt(own, Positions)
                <=> \E i \in Unlinked : b \in ListSet(disk.blk, DiskEntry(i).first_block)
  <2>1. ASSUME b \in Blocks \ VisitedAt(own, Positions)
        PROVE  \E i \in Unlinked : b \in ListSet(disk.blk, DiskEntry(i).first_block)
    <3>1. /\ b \in Blocks /\ own[b] # FreeList /\ own[b] # Root
          /\ ~ \E p \in Positions : own[b] = SlotAt(DirectoryBlocks, p)
      BY <2>1 DEF VisitedAt
    <3>2. own[b] \notin Slots BY <1>7, <3>1
    <3>3. PICK i \in FDs : own[b] = Own(i) BY <1>3, <3>1, <3>2 DEF Owners, FileOwners
    <3>4. i \in Unlinked BY <1>6, <3>1, <3>3
    <3>5. b \in ListSet(disk.blk, H[Own(i)]) BY <1>4, <3>1, <3>3
    <3> QED BY <1>5, <3>4, <3>5
  <2>2. ASSUME NEW i \in Unlinked, b \in ListSet(disk.blk, DiskEntry(i).first_block)
        PROVE  b \in Blocks \ VisitedAt(own, Positions)
    <3>1. i \in FDs /\ H[Own(i)] = DiskEntry(i).first_block BY <1>5
    <3>2. b \in Blocks /\ own[b] = Own(i) BY <1>4, <2>2, <3>1
    <3> QED BY <1>8, <3>1, <3>2 DEF VisitedAt
  <2> QED BY <2>1, <2>2
<1> QED BY <1>9

(* sfs-fsck accepts the image after every call: it finds no error, and the blocks it *)
(* reports as lost are those of the files that are unlinked and still open.          *)
THEOREM FsckAcceptsCorrect == Spec => []FsckAccepts
<1>1. Init => IInv /\ Structure /\ UniqueNames BY InitKeeps, StructureInit, NamesInit
<1>2. IInv /\ Structure /\ UniqueNames /\ [Next]_vars => (IInv /\ Structure /\ UniqueNames)'
  <2> SUFFICES ASSUME IInv, Structure, UniqueNames, [Next]_vars
               PROVE  IInv' /\ Structure' /\ UniqueNames'
    OBVIOUS
  <2>1. IInv' BY NextKeeps
  <2> QED BY <2>1, StructureNext, NamesNext
<1>3. IInv /\ Structure /\ UniqueNames => FsckAccepts
  <2> SUFFICES ASSUME IInv, Structure, UniqueNames PROVE FsckAccepts OBVIOUS
  <2>1. PICK E, H, L, P, own, at : Image(E, H, L, P, own, at)
    BY DEF Structure, Arranged, Image
  <2>c. PICK check : check = check_root_directory(check_superblock) OBVIOUS
  <2>2. check = Accepted(VisitedAt(own, Positions)) BY <2>1, <2>c, RootDirectoryAccepted
  <2>3. check.ok /\ check.visited = VisitedAt(own, Positions) BY <2>2 DEF Accepted
  <2>4. Blocks \ check.visited
          = UNION {ListSet(disk.blk, DiskEntry(i).first_block) : i \in Unlinked}
    BY <2>1, <2>3, LostAreUnlinked
  <2> QED BY <2>3, <2>4, <2>c DEF FsckAccepts, LostBlocks
<1> QED BY <1>1, <1>2, <1>3, PTL DEF Spec

-----------------------------------------------------------------------------
(* Which calls move the blocks of a path *)

\* The path p of length m is walked from first on, and may go on after it.
Walked(blk, first, m, p) ==
    /\ m \in Nat /\ p \in [1 .. m -> Blocks]
    /\ \A i, j \in 1 .. m : p[i] = p[j] => i = j
    /\ m # 0 => first = p[1]
    /\ \A i \in 1 .. m : i # m => blk[p[i]].next = p[i + 1]

(* A walk finds the blocks of a path, whatever comes after it. *)
LEMMA WalkedBlocks ==
  ASSUME NEW blk, NEW first, NEW m, NEW p, Walked(blk, first, m, p), NEW k \in Nat, k < m
  PROVE  fileBlockAt(blk, first, k) = {p[k + 1]}
<1>0. /\ m \in Nat /\ p \in [1 .. m -> Blocks]
      /\ \A i, j \in 1 .. m : p[i] = p[j] => i = j
      /\ first = p[1]
      /\ \A i \in 1 .. m : i # m => blk[p[i]].next = p[i + 1]
  BY DEF Walked
<1>1. PICK l : l = List(blk, first) OBVIOUS
<1>2. /\ l \in Seq(Blocks) /\ Len(l) \in Nat /\ Len(l) <= NBlocks
      /\ \A i \in 1 .. Len(l) : l[i] = Link(blk, first, l, i)
      /\ first \in Blocks => Len(l) > 0 /\ l[1] = first
      /\ Len(l) < NBlocks /\ l # <<>> => blk[l[Len(l)]].next \notin Blocks
  BY <1>1, ListFacts
<1>3. m < NBlocks BY <1>0, PathLength
<1> DEFINE S == {i \in Nat : i \in 1 .. m /\ i \in 1 .. Len(l) => l[i] = p[i]}
<1>4. 0 \in S OBVIOUS
<1>5. ASSUME NEW i \in Nat, i \in S PROVE i + 1 \in S
  <2> SUFFICES ASSUME i + 1 \in 1 .. m, i + 1 \in 1 .. Len(l) PROVE l[i + 1] = p[i + 1]
    OBVIOUS
  <2>1. l[i + 1] = Link(blk, first, l, i + 1) BY <1>2
  <2>2. CASE i = 0 BY <1>0, <2>1, <2>2 DEF Link
  <2>3. CASE i # 0
    <3>1. i \in 1 .. m /\ i \in 1 .. Len(l) /\ i # m BY <1>0, <1>2, <2>3
    <3>2. l[i] = p[i] BY <1>5, <3>1
    <3>3. l[i + 1] = blk[p[i]].next BY <1>2, <2>1, <2>3, <3>2 DEF Link
    <3> QED BY <1>0, <3>1, <3>3
  <2> QED BY <2>2, <2>3
<1>6. ASSUME NEW i \in 1 .. m, i \in 1 .. Len(l) PROVE l[i] = p[i]
  <2>1. i \in S
    <3>1. i \in Nat OBVIOUS
    <3> HIDE DEF S
    <3> QED BY <1>4, <1>5, <3>1, SetInduction
  <2> QED BY <1>6, <2>1
<1>7. first \in Blocks /\ Len(l) > 0
  <2>1. 1 \in 1 .. m BY <1>0
  <2> QED BY <1>0, <1>2, <2>1
<1>8. ASSUME Len(l) < m PROVE FALSE
  <2>1. Len(l) \in 1 .. m /\ Len(l) # m /\ Len(l) \in 1 .. Len(l) /\ Len(l) < NBlocks
    BY <1>0, <1>2, <1>3, <1>7, <1>8
  <2>2. l # <<>> BY <1>2, <1>7
  <2>3. blk[l[Len(l)]].next \notin Blocks BY <1>2, <2>1, <2>2
  <2>4. l[Len(l)] = p[Len(l)] BY <1>6, <2>1
  <2>5. blk[p[Len(l)]].next = p[Len(l) + 1] /\ Len(l) + 1 \in 1 .. m BY <1>0, <1>2, <2>1
  <2>6. p[Len(l) + 1] \in Blocks BY <1>0, <2>5
  <2> QED BY <2>3, <2>4, <2>5, <2>6
<1>9. k + 1 \in 1 .. m /\ k + 1 \in 1 .. Len(l) BY <1>0, <1>2, <1>8
<1>10. l[k + 1] = p[k + 1] /\ p[k + 1] \in Blocks BY <1>0, <1>6, <1>9
<1>11. DOMAIN l = 1 .. Len(l) BY <1>2
<1>12. fileBlockAt(blk, first, k) = {l[i] : i \in {k + 1} \cap 1 .. Len(l)} \cap Blocks
  BY <1>1, <1>11 DEF fileBlockAt
<1> QED BY <1>9, <1>10, <1>12

LEMMA LinkedBlocks ==
  ASSUME NEW blk, NEW first, NEW m, NEW p, Linked(blk, first, m, p)
  PROVE  /\ \A k \in Nat : \A b : b \in fileBlockAt(blk, first, k) <=> k < m /\ b = p[k + 1]
         /\ \A b : b \in LastOf(blk, first) <=> m # 0 /\ b = p[m]
<1>1. m \in Nat /\ p \in [1 .. m -> Blocks] BY DEF Linked
<1>2. \A i, j \in 1 .. m : p[i] = p[j] => i = j BY DEF Linked
<1>3. m = 0 => first \notin Blocks BY DEF Linked
<1>4. m # 0 => first = p[1] BY DEF Linked
<1>5. m # 0 => blk[p[m]].next \notin Blocks BY DEF Linked
<1>6. \A i \in 1 .. m : i # m => blk[p[i]].next = p[i + 1] BY DEF Linked
<1> QED BY ONLY <1>1, <1>2, <1>3, <1>4, <1>5, <1>6, ListSetIs

(* The rest of a path is linked from any of its blocks on. *)
Rest(p, m, c) == [i \in 1 .. m - c |-> p[c + i]]

LEMMA LinkedRest ==
  ASSUME NEW blk, NEW first, NEW m, NEW p, Linked(blk, first, m, p), NEW c \in Nat, c < m
  PROVE  Linked(blk, p[c + 1], m - c, Rest(p, m, c))
<1>1. /\ m \in Nat /\ p \in [1 .. m -> Blocks]
      /\ \A i, j \in 1 .. m : p[i] = p[j] => i = j
      /\ m # 0 => blk[p[m]].next \notin Blocks
      /\ \A i \in 1 .. m : i # m => blk[p[i]].next = p[i + 1]
  BY DEF Linked
<1>n. PICK n : n = m - c OBVIOUS
<1>q. PICK q : q = Rest(p, m, c) OBVIOUS
<1>2. n \in Nat /\ n # 0 /\ c + n = m BY <1>1, <1>n
<1>3. \A i \in 1 .. n : c + i \in 1 .. m /\ q[i] = p[c + i] BY <1>1, <1>2, <1>n, <1>q DEF Rest
<1>4. q \in [1 .. n -> Blocks] BY <1>1, <1>3, <1>n, <1>q DEF Rest
<1>5. ASSUME NEW i \in 1 .. n, NEW j \in 1 .. n, q[i] = q[j] PROVE i = j
  <2>1. c + i = c + j BY <1>1, <1>3, <1>5
  <2> QED BY <1>2, <2>1
<1>6. q[1] = p[c + 1]
  <2>1. 1 \in 1 .. n BY <1>2
  <2> QED BY <1>3, <2>1
<1>7. blk[q[n]].next \notin Blocks
  <2>1. n \in 1 .. n BY <1>2
  <2>2. q[n] = p[m] BY <1>2, <1>3, <2>1
  <2>3. m # 0 BY <1>1
  <2> QED BY <1>1, <2>2, <2>3
<1>8. ASSUME NEW i \in 1 .. n, i # n PROVE blk[q[i]].next = q[i + 1]
  <2>1. i + 1 \in 1 .. n /\ c + i \in 1 .. m /\ c + i # m /\ c + (i + 1) = (c + i) + 1
    BY <1>1, <1>2, <1>8
  <2>2. q[i] = p[c + i] /\ q[i + 1] = p[(c + i) + 1] BY <1>3, <2>1
  <2> QED BY <1>1, <2>1, <2>2
<1>9. Linked(blk, p[c + 1], n, q) BY <1>2, <1>4, <1>5, <1>6, <1>7, <1>8 DEF Linked
<1> QED BY <1>9, <1>n, <1>q

LEMMA OwnerLinked ==
  ASSUME NEW blk, NEW H, NEW L, NEW P, NEW own, NEW at, Laid(blk, H, L, P, own, at),
         NEW o \in Owners
  PROVE  Linked(blk, H[o], L[o], [i \in 1 .. L[o] |-> P[o][i]])
<1>m. PICK m : m = L[o] OBVIOUS
<1>p. PICK p : p = [i \in 1 .. m |-> P[o][i]] OBVIOUS
<1>f. PICK first : first = H[o] OBVIOUS
<1>1. /\ m \in Nat /\ p \in [1 .. m -> Blocks]
      /\ \A i, j \in 1 .. m : P[o][i] = P[o][j] => i = j
      /\ m # 0 => blk[P[o][m]].next = 0
      /\ \A i \in 1 .. m : i # m => blk[P[o][i]].next = P[o][i + 1]
  BY ONLY PathsApart, <1>m, <1>p, Laid(blk, H, L, P, own, at), o \in Owners
<1>2. \A i \in 1 .. m : p[i] = P[o][i] BY <1>p
<1>3. m # 0 => m \in 1 .. m /\ 1 \in 1 .. m BY <1>1
<1>4. (m = 0 => first \notin Blocks) /\ (m # 0 => first = p[1])
  BY <1>2, <1>3, <1>m, <1>f DEF Laid
<1>5. \A i, j \in 1 .. m : p[i] = p[j] => i = j BY <1>1, <1>2
<1>6. m # 0 => blk[p[m]].next \notin Blocks
  <2>1. 0 \notin Blocks BY DEF Blocks
  <2> QED BY <1>1, <1>2, <1>3, <2>1
<1>7. \A i \in 1 .. m : i # m => blk[p[i]].next = p[i + 1]
  <2>1. \A i \in 1 .. m : i # m => i + 1 \in 1 .. m BY <1>1
  <2> QED BY <1>1, <1>2, <2>1
<1>8. m \in Nat /\ p \in [1 .. m -> Blocks] BY <1>1
<1>9. Linked(blk, first, m, p) BY <1>4, <1>5, <1>6, <1>7, <1>8 DEF Linked
<1> QED BY <1>9, <1>m, <1>p, <1>f

\* The first n blocks of the list from first on are where they were.
BlocksKept(blk, blk2, first, n) ==
    \A k \in Nat : k < n => fileBlockAt(blk2, first, k) = fileBlockAt(blk, first, k)

(* A walk only follows links, and only the links before the block it looks for. *)
LEMMA OwnerKept ==
  ASSUME NEW blk, NEW H, NEW L, NEW P, NEW own, NEW at, Laid(blk, H, L, P, own, at),
         NEW o \in Owners, NEW n \in Nat, n <= L[o], NEW blk2,
         \A b \in Blocks : own[b] = o /\ at[b] < n => blk2[b].next = blk[b].next
  PROVE  BlocksKept(blk, blk2, H[o], n)
<1>m. PICK m : m = L[o] OBVIOUS
<1>f. PICK first : first = H[o] OBVIOUS
<1>p. PICK p : p = [i \in 1 .. m |-> P[o][i]] OBVIOUS
<1>1. Linked(blk, first, m, p)
  <2>1. Linked(blk, H[o], L[o], [i \in 1 .. L[o] |-> P[o][i]]) BY OwnerLinked
  <2>2. p = [i \in 1 .. L[o] |-> P[o][i]] BY <1>m, <1>p
  <2> QED BY ONLY <2>1, <2>2, <1>f, <1>m
<1>2. /\ m \in Nat /\ p \in [1 .. m -> Blocks]
      /\ \A i, j \in 1 .. m : p[i] = p[j] => i = j
      /\ m # 0 => first = p[1]
      /\ \A i \in 1 .. m : i # m => blk[p[i]].next = p[i + 1]
  BY <1>1 DEF Linked
<1>3. \A i \in 1 .. m : p[i] \in Blocks /\ own[p[i]] = o /\ at[p[i]] = i
  BY <1>m, <1>p DEF Laid
<1>4. n \in Nat /\ n <= m BY <1>m
<1>q. PICK q : q = [i \in 1 .. n |-> p[i]] OBVIOUS
<1>5. \A i \in 1 .. n : i \in 1 .. m /\ q[i] = p[i] /\ q[i] \in Blocks BY <1>2, <1>4, <1>q
<1>6. q \in [1 .. n -> Blocks] BY <1>5, <1>q
<1>7. \A i, j \in 1 .. n : q[i] = q[j] => i = j BY <1>2, <1>5
<1>8. n # 0 => first = q[1]
  <2>1. n # 0 => 1 \in 1 .. n /\ m # 0 BY <1>2, <1>4
  <2> QED BY <1>2, <1>5, <2>1
<1>9. ASSUME NEW i \in 1 .. n, i # n
      PROVE  blk[q[i]].next = q[i + 1] /\ blk2[q[i]].next = q[i + 1]
  <2>1. i \in 1 .. m /\ i # m /\ i + 1 \in 1 .. n /\ i < n BY <1>2, <1>4, <1>9
  <2>2. blk[q[i]].next = q[i + 1] BY <1>2, <1>5, <2>1
  <2>3. q[i] \in Blocks /\ own[q[i]] = o /\ at[q[i]] = i BY <1>3, <1>5, <2>1
  <2>4. blk2[q[i]].next = blk[q[i]].next BY <2>1, <2>3
  <2> QED BY <2>2, <2>4
<1>10. Walked(blk, first, n, q) /\ Walked(blk2, first, n, q)
  BY <1>4, <1>6, <1>7, <1>8, <1>9 DEF Walked
<1>11. ASSUME NEW k \in Nat, k < n
       PROVE  fileBlockAt(blk2, first, k) = fileBlockAt(blk, first, k)
  <2>1. fileBlockAt(blk2, first, k) = {q[k + 1]} BY <1>10, <1>11, WalkedBlocks
  <2>2. fileBlockAt(blk, first, k) = {q[k + 1]} BY <1>10, <1>11, WalkedBlocks
  <2> QED BY <2>1, <2>2
<1> QED BY <1>11, <1>f DEF BlocksKept

\* The links between blocks that are not free are as they were.
LinksKept(blk, blk2) ==
    \A b \in Blocks : blk[b].type # "FREE" /\ blk[b].next # 0 => blk2[b].next = blk[b].next

\* All the blocks of the file with entry e are where they were.
FileKept(blk, blk2, e) == BlocksKept(blk, blk2, e.first_block, allocatedBlocksForFile(e))

LEMMA LinkedFileKept ==
  ASSUME NEW d \in Disk, NEW root, NEW E \in [FileOwners -> Entry], Arranged(d, root, E),
         NEW o \in FileOwners, Occupied(E[o]), NEW blk2, LinksKept(d.blk, blk2)
  PROVE  FileKept(d.blk, blk2, E[o])
<1>1. PICK H, L, P, own, at :
        /\ Headed(H, d.freelist, root, E) /\ Laid(d.blk, H, L, P, own, at)
        /\ \A q \in FileOwners : FileFits(E[q], L[q])
  BY DEF Arranged
<1>2. /\ o \in Owners /\ o # FreeList /\ TypeOf(o) = "FILE"
      /\ L[o] \in Nat /\ H[o] = E[o].first_block /\ L[o] = allocatedBlocksForFile(E[o])
  <2>1. FileFits(E[o], L[o]) BY <1>1
  <2>2. E \in [FileOwners -> Entry] /\ o \in FileOwners /\ Occupied(E[o]) OBVIOUS
  <2>3. HasBlocks(E, H, L, P, o) BY ONLY <1>1, <2>1, <2>2, FileBlocks
  <2> QED BY <2>2, <2>3 DEF HasBlocks
<1>3. ASSUME NEW b \in Blocks, own[b] = o, at[b] < L[o] PROVE blk2[b].next = d.blk[b].next
  <2>1. d.blk[b].type = "FILE" BY <1>1, <1>2, <1>3 DEF Laid
  <2>2. d.blk[b].next = P[o][at[b] + 1] /\ at[b] \in 1 .. L[o] BY <1>1, <1>2, <1>3 DEF Laid
  <2>3. at[b] + 1 \in 1 .. L[o] BY <1>2, <1>3, <2>2
  <2>4. P[o][at[b] + 1] \in Blocks BY <1>1, <1>2, <2>3 DEF Laid
  <2>5. d.blk[b].next # 0 BY <2>2, <2>4 DEF Blocks
  <2> QED BY <2>1, <2>5 DEF LinksKept
<1>4. BlocksKept(d.blk, blk2, H[o], L[o])
  <2>1. L[o] <= L[o] BY <1>2
  <2> QED BY <1>1, <1>2, <1>3, <2>1, OwnerKept
<1> QED BY <1>2, <1>4 DEF FileKept

LEMMA AllocateLinks ==
  ASSUME NEW d \in Disk, NEW root, NEW E, Arranged(d, root, E),
         NEW n \in Nat, NEW last \in LastToAllocate(d, n), NEW type
  PROVE  \A b \in Blocks : d.blk[b].type # "FREE" =>
            AfterAllocate(d, type, last).blk[b].next = d.blk[b].next
<1>1. PICK H, L, P, own, at :
        Headed(H, d.freelist, root, E) /\ Laid(d.blk, H, L, P, own, at)
  BY DEF Arranged
<1>2. TakesFirst(d, L, P, own, at, n, last) BY <1>1, TakenBlocks DEF Headed
<1>3. \A b : b \in ListSet([d.blk EXCEPT ![last].next = 0], d.freelist)
             => b \in Blocks /\ own[b] = FreeList
  BY <1>2 DEF TakesFirst, Cut
<1> SUFFICES ASSUME NEW b \in Blocks, d.blk[b].type # "FREE"
             PROVE  AfterAllocate(d, type, last).blk[b].next = d.blk[b].next
  OBVIOUS
<1>4. own[b] # FreeList BY <1>1, OwnersApart DEF Laid
<1>5. b \notin ListSet([d.blk EXCEPT ![last].next = 0], d.freelist) BY <1>3, <1>4
<1>6. d.blk \in [Blocks -> Header] /\ d.blk[b] \in Header BY DEF Disk
<1> PICK taken : taken = ListSet([d.blk EXCEPT ![last].next = 0], d.freelist) OBVIOUS
<1> PICK rest : rest = d.blk[last].next OBVIOUS
<1>7. AfterAllocate(d, type, last).blk[b]
        = IF b = rest THEN [d.blk[b] EXCEPT !.prev = 0] ELSE d.blk[b]
  BY <1>5 DEF AfterAllocate
<1> QED BY <1>6, <1>7 DEF Header

(* Nothing comes after the last block of a list, and chaining blocks behind it, or *)
(* setting a prev pointer, changes no other link.                                  *)
LEMMA LastEnds ==
  ASSUME NEW blk, NEW H, NEW L, NEW P, NEW own, NEW at, Laid(blk, H, L, P, own, at),
         NEW o \in Owners, NEW tail \in LastOf(blk, H[o])
  PROVE  tail \in Blocks /\ blk[tail].next = 0
<1>m. PICK m : m = L[o] OBVIOUS
<1>1. m # 0 /\ tail = P[o][m] BY <1>m, LaidLists
<1>2. m \in Nat /\ m \in 1 .. m /\ blk[P[o][m]].next = 0 /\ P[o][m] \in Blocks
  <2>1. m \in Nat BY <1>m DEF Laid
  <2>2. m \in 1 .. m BY <1>1, <2>1
  <2>3. P[o][m] \in Blocks BY <1>m, <2>2 DEF Laid
  <2>4. blk[P[o][m]].next = 0 BY <1>m, <1>1, PathsApart
  <2> QED BY <2>1, <2>2, <2>3, <2>4
<1> QED BY <1>1, <1>2

LEMMA AttachLinks ==
  ASSUME NEW blk \in [Blocks -> Header], NEW d \in Disk,
         \A b \in Blocks : blk[b].type # "FREE" => d.blk[b].next = blk[b].next,
         NEW tail \in Blocks, blk[tail].next = 0, NEW first \in BlockId
  PROVE  LinksKept(blk, AfterAttach(d, tail, first).blk)
<1> SUFFICES ASSUME NEW b \in Blocks, blk[b].type # "FREE", blk[b].next # 0
             PROVE  AfterAttach(d, tail, first).blk[b].next = blk[b].next
  BY DEF LinksKept
<1>1. b # tail OBVIOUS
<1>2. d.blk[b] \in Header /\ d.blk[b].next = blk[b].next BY DEF Disk
<1>3. AfterAttach(d, tail, first).blk
        = [c \in Blocks |-> IF c = tail THEN [d.blk[c] EXCEPT !.next = first]
                            ELSE IF c = first THEN [d.blk[c] EXCEPT !.prev = tail]
                            ELSE d.blk[c]]
  BY DEF AfterAttach, Disk
<1>4. AfterAttach(d, tail, first).blk[b]
        = IF b = first THEN [d.blk[b] EXCEPT !.prev = tail] ELSE d.blk[b]
  BY <1>1, <1>3
<1> QED BY <1>2, <1>4 DEF Header

\* The owner of the blocks of open file i.
OwnerOf(i) ==
    IF openFileTable[i].diskFile = UnlinkedFile THEN Own(i) ELSE openFileTable[i].diskFile

LEMMA FileOwner ==
  ASSUME IInv, NEW E, EntriesAre(E, files, openFileTable),
         NEW i \in FDs, openFileTable[i] # NULL
  PROVE  /\ OwnerOf(i) \in FileOwners /\ E[OwnerOf(i)] = DiskEntry(i)
         /\ Occupied(DiskEntry(i)) /\ DiskEntry(i) \in Entry
         /\ \A j \in FDs \ {i} : openFileTable[j] # NULL => OwnerOf(j) # OwnerOf(i)
<1>1. DiskEntry(i) \in Entry /\ Occupied(DiskEntry(i))
  BY DiskEntryType DEF IInv, OpenFilesTrackEntries
<1>2. ASSUME NEW j \in FDs, openFileTable[j] # NULL
      PROVE  /\ openFileTable[j].diskFile \in Slots \cup {UnlinkedFile}
             /\ openFileTable[j].unlinked <=> openFileTable[j].diskFile = UnlinkedFile
  <2>1. openFileTable[j] \in OpenFile BY <1>2 DEF IInv, TypeOK
  <2> QED BY <1>2, <2>1 DEF IInv, OpenFilesTrackEntries, OpenFile
<1>3. CASE openFileTable[i].diskFile = UnlinkedFile
  <2>1. OwnerOf(i) = Own(i) BY <1>3 DEF OwnerOf
  <2>2. E[Own(i)] = DiskEntry(i) /\ Own(i) \in FileOwners
    BY <1>3 DEF EntriesAre, OwnEntry, DiskEntry, FileOwners
  <2>3. ASSUME NEW j \in FDs \ {i}, openFileTable[j] # NULL PROVE OwnerOf(j) # Own(i)
    <3>1. CASE openFileTable[j].diskFile = UnlinkedFile BY <3>1, OwnersApart DEF OwnerOf
    <3>2. CASE openFileTable[j].diskFile # UnlinkedFile
      BY <1>2, <2>3, <3>2, OwnersApart DEF OwnerOf
    <3> QED BY <3>1, <3>2
  <2> QED BY <1>1, <2>1, <2>2, <2>3
<1>4. CASE openFileTable[i].diskFile # UnlinkedFile
  <2>s. PICK s : s = openFileTable[i].diskFile OBVIOUS
  <2>1. OwnerOf(i) = s /\ s \in Slots BY <1>2, <1>4, <2>s DEF OwnerOf
  <2>2. E[s] = DiskEntry(i) /\ s \in FileOwners
    BY <1>4, <2>1, <2>s DEF EntriesAre, DiskEntry, FileOwners
  <2>3. ASSUME NEW j \in FDs \ {i}, openFileTable[j] # NULL PROVE OwnerOf(j) # s
    <3>1. CASE openFileTable[j].diskFile = UnlinkedFile
      BY <2>1, <3>1, OwnersApart DEF OwnerOf
    <3>2. CASE openFileTable[j].diskFile # UnlinkedFile
      <4>1. ~ openFileTable[i].unlinked BY <1>2, <1>4
      <4>2. openFileTable[j].diskFile # s
        BY <2>3, <2>s, <4>1 DEF IInv, OpenFilesTrackEntries
      <4> QED BY <3>2, <4>2 DEF OwnerOf
    <3> QED BY <3>1, <3>2
  <2> QED BY <1>1, <2>1, <2>2, <2>3
<1> QED BY <1>3, <1>4

\* The blocks of every open file are where they were.
OpenFilesKept ==
    \A j \in FDs : openFileTable[j] # NULL => FileKept(disk.blk, disk'.blk, DiskEntry(j))

LEMMA LinkedOpenKept ==
  ASSUME IInv, Structure, LinksKept(disk.blk, disk'.blk)
  PROVE  OpenFilesKept
<1> SUFFICES ASSUME NEW j \in FDs, openFileTable[j] # NULL
             PROVE  FileKept(disk.blk, disk'.blk, DiskEntry(j))
  BY DEF OpenFilesKept
<1>1. PICK E : EntriesAre(E, files, openFileTable) /\ Arranged(disk, next_rootdir, E)
  BY DEF Structure
<1>2. disk \in Disk /\ E \in [FileOwners -> Entry] BY <1>1 DEF IInv, TypeOK, EntriesAre
<1>o. PICK o : o = OwnerOf(j) OBVIOUS
<1>3. o \in FileOwners /\ E[o] = DiskEntry(j) /\ Occupied(E[o]) BY <1>1, <1>o, FileOwner
<1>4. FileKept(disk.blk, disk'.blk, E[o]) BY <1>1, <1>2, <1>3, LinkedFileKept
<1> QED BY <1>3, <1>4

(* A file grows without moving a block of any file. *)
LEMMA GrownKept ==
  ASSUME IInv, Structure, NEW i \in FDs, openFileTable[i] # NULL,
         NEW n \in Nat, NEW new \in LastToAllocate(disk, n), NEW tail \in FileTail(DiskEntry(i)),
         disk' = GrownDisk(DiskEntry(i), new, tail)
  PROVE  OpenFilesKept /\ LinksKept(disk.blk, disk'.blk)
<1>1. PICK E : EntriesAre(E, files, openFileTable) /\ Arranged(disk, next_rootdir, E)
  BY DEF Structure
<1>2. disk \in Disk /\ disk.blk \in [Blocks -> Header] /\ disk.freelist \in BlockId
  BY DEF IInv, TypeOK, Disk
<1>a. PICK d : d = AfterAllocate(disk, "FILE", new) OBVIOUS
<1>3. d \in Disk
  <2>1. new \in Blocks BY <1>2, AllocatedBlocks
  <2> QED BY <1>2, <1>a, <2>1, AfterAllocateType
<1>4. \A b \in Blocks : disk.blk[b].type # "FREE" => d.blk[b].next = disk.blk[b].next
  BY <1>1, <1>2, <1>a, AllocateLinks
<1>5. LinksKept(disk.blk, disk'.blk)
  <2>1. CASE DiskEntry(i).first_block = SFS_EMPTY_FILE_BLOCK
    <3>1. disk' = d BY <1>a, <2>1 DEF GrownDisk
    <3> QED BY <1>4, <3>1 DEF LinksKept
  <2>2. CASE DiskEntry(i).first_block # SFS_EMPTY_FILE_BLOCK
    <3>1. disk' = AfterAttach(d, tail, disk.freelist) BY <1>a, <2>2 DEF GrownDisk
    <3>o. PICK o : o = OwnerOf(i) OBVIOUS
    <3>2. o \in FileOwners /\ E[o] = DiskEntry(i) BY <1>1, <3>o, FileOwner
    <3>3. PICK H, L, P, own, at :
            Headed(H, disk.freelist, next_rootdir, E) /\ Laid(disk.blk, H, L, P, own, at)
      BY <1>1 DEF Arranged
    <3>4. o \in Owners /\ tail \in LastOf(disk.blk, H[o])
      BY <2>2, <3>2, <3>3, OwnersApart DEF Headed, FileTail
    <3>5. tail \in Blocks /\ disk.blk[tail].next = 0 BY <3>3, <3>4, LastEnds
    <3> QED BY <1>2, <1>3, <1>4, <3>1, <3>5, AttachLinks
  <2> QED BY <2>1, <2>2
<1> QED BY <1>5, LinkedOpenKept

(* So does the directory. *)
LEMMA ExpandedKept ==
  ASSUME IInv, Structure, NEW new \in LastToAllocate(disk, 1), NEW last \in LastDirectoryBlock,
         expandDirectory(new, last)
  PROVE  OpenFilesKept /\ LinksKept(disk.blk, disk'.blk)
<1>1. PICK E : EntriesAre(E, files, openFileTable) /\ Arranged(disk, next_rootdir, E)
  BY DEF Structure
<1>2. disk \in Disk /\ disk.blk \in [Blocks -> Header] BY DEF IInv, TypeOK, Disk
<1>a. PICK d : d = AfterAllocate(disk, "DIR", new) OBVIOUS
<1>n. new \in Blocks /\ new \in BlockId
  <2>1. new \in Blocks BY <1>2, AllocatedBlocks
  <2> QED BY <2>1, BlockIds
<1>3. d \in Disk BY <1>2, <1>a, <1>n, AfterAllocateType
<1>4. \A b \in Blocks : disk.blk[b].type # "FREE" => d.blk[b].next = disk.blk[b].next
  <2>1. 1 \in Nat OBVIOUS
  <2> QED BY <1>1, <1>2, <1>a, <2>1, AllocateLinks
<1>5. LinksKept(disk.blk, disk'.blk)
  <2>1. CASE last = 0
    <3>1. disk' = [d EXCEPT !.blk[new].prev = 0] BY <1>a, <2>1 DEF expandDirectory
    <3>2. \A b \in Blocks : disk'.blk[b].next = d.blk[b].next
      BY <1>3, <3>1 DEF Disk, Header
    <3> QED BY <1>4, <3>2 DEF LinksKept
  <2>2. CASE last # 0
    <3>1. disk' = AfterAttach(d, last, new) BY <1>a, <2>2 DEF expandDirectory
    <3>2. last \in LastOf(disk.blk, next_rootdir) BY <2>2 DEF LastDirectoryBlock
    <3>3. PICK H, L, P, own, at :
            Headed(H, disk.freelist, next_rootdir, E) /\ Laid(disk.blk, H, L, P, own, at)
      BY <1>1 DEF Arranged
    <3>4. Root \in Owners /\ last \in LastOf(disk.blk, H[Root])
      BY <3>2, <3>3, OwnersApart DEF Headed
    <3>5. last \in Blocks /\ disk.blk[last].next = 0 BY <3>3, <3>4, LastEnds
    <3> QED BY <1>2, <1>3, <1>4, <1>n, <3>1, <3>5, AttachLinks
  <2> QED BY <2>1, <2>2
<1> QED BY <1>5, LinkedOpenKept

(* What freeBlocks takes from the end of one file moves no block of another, nor one *)
(* of the blocks that the file keeps.                                                *)
LEMMA FreedFileKept ==
  ASSUME NEW d \in Disk, NEW root, NEW E \in [FileOwners -> Entry], Arranged(d, root, E),
         NEW o \in FileOwners, Occupied(E[o]),
         NEW k \in Nat, k < allocatedBlocksForFile(E[o]),
         NEW first,
         \/ first \in fileBlockAt(d.blk, E[o].first_block, k)
         \/ k = 0 /\ first = E[o].first_block,
         NEW last \in LastOf(d.blk, E[o].first_block),
         NEW q \in FileOwners, Occupied(E[q]),
         NEW n \in Nat, n <= allocatedBlocksForFile(E[q]), q = o => n <= k
  PROVE  BlocksKept(d.blk, AfterFree(d, first, last).blk, E[q].first_block, n)
<1>1. PICK H, L, P, own, at :
        /\ Headed(H, d.freelist, root, E) /\ Laid(d.blk, H, L, P, own, at)
        /\ \A r \in FileOwners : FileFits(E[r], L[r])
  BY DEF Arranged
<1>2. ASSUME NEW r \in FileOwners, Occupied(E[r])
      PROVE  /\ r \in Owners /\ r # FreeList
             /\ L[r] \in Nat /\ H[r] = E[r].first_block /\ L[r] = allocatedBlocksForFile(E[r])
             /\ L[r] # 0 => E[r].first_block = P[r][1]
  <2>1. FileFits(E[r], L[r]) BY <1>1
  <2>2. E \in [FileOwners -> Entry] /\ r \in FileOwners /\ Occupied(E[r]) BY <1>2
  <2>3. HasBlocks(E, H, L, P, r) BY ONLY <1>1, <2>1, <2>2, FileBlocks
  <2> QED BY <2>2, <2>3 DEF HasBlocks
<1>3. /\ o \in Owners /\ o # FreeList
      /\ L[o] \in Nat /\ H[o] = E[o].first_block /\ L[o] = allocatedBlocksForFile(E[o])
      /\ L[o] # 0 => E[o].first_block = P[o][1]
  BY <1>2
<1>4. q \in Owners /\ q # FreeList /\ L[q] \in Nat /\ H[q] = E[q].first_block /\ n <= L[q]
  BY <1>2
<1>5. first = P[o][k + 1] /\ last = P[o][L[o]] /\ k < L[o]
  <2>b. PICK blk : blk = d.blk OBVIOUS
  <2>h. PICK h : h = H[o] OBVIOUS
  <2>m. PICK m : m = L[o] OBVIOUS
  <2>p. PICK p : p = [i \in 1 .. m |-> P[o][i]] OBVIOUS
  <2>0. Laid(blk, H, L, P, own, at) /\ o \in Owners BY <1>1, <1>3, <2>b
  <2>1. Linked(blk, h, m, p)
    <3>1. Linked(blk, H[o], L[o], [i \in 1 .. L[o] |-> P[o][i]]) BY ONLY <2>0, OwnerLinked
    <3>2. p = [i \in 1 .. L[o] |-> P[o][i]] BY <2>m, <2>p
    <3> QED BY ONLY <3>1, <3>2, <2>h, <2>m
  <2>2. /\ \A c \in Nat : \A b : b \in fileBlockAt(blk, h, c) <=> c < m /\ b = p[c + 1]
        /\ \A b : b \in LastOf(blk, h) <=> m # 0 /\ b = p[m]
    BY ONLY <2>1, LinkedBlocks
  <2>3. m \in Nat /\ k < m /\ k + 1 \in 1 .. m /\ m \in 1 .. m BY <1>3, <2>m
  <2>4. p[k + 1] = P[o][k + 1] /\ p[m] = P[o][m] BY <2>3, <2>p
  <2>5. last = P[o][m] BY <1>3, <2>2, <2>4, <2>b, <2>h
  <2>8. first = P[o][k + 1]
    <3>1. CASE first \in fileBlockAt(d.blk, E[o].first_block, k)
      BY <1>3, <2>2, <2>4, <2>b, <2>h, <3>1
    <3>2. CASE k = 0 /\ first = E[o].first_block
      <4>1. k + 1 = 1 /\ L[o] # 0 BY <1>3, <3>2
      <4> QED BY <1>3, <3>2, <4>1
    <3> QED BY <3>1, <3>2
  <2>9. k < L[o] BY <2>3, <2>m
  <2>10. last = P[o][L[o]] BY <2>5, <2>m
  <2> QED BY <2>8, <2>9, <2>10
<1>6. FreesFrom(d, L, P, own, at, o, k, first, last)
  BY <1>1, <1>3, <1>5, FreedBlocks
<1>b. PICK blk2 : blk2 = AfterFree(d, first, last).blk OBVIOUS
<1>7. ASSUME NEW b \in Blocks, own[b] = q, at[b] < n PROVE blk2[b].next = d.blk[b].next
  <2>1. at[b] \in 1 .. L[q] BY <1>1, <1>7 DEF Laid
  <2>2. q = o => at[b] < k BY <1>4, <1>7, <2>1
  <2>3. b \notin ListSet(d.blk, first)
    <3>1. b \in ListSet(d.blk, first) => own[b] = o /\ at[b] > k BY <1>6 DEF FreesFrom
    <3> QED BY <1>7, <2>1, <2>2, <3>1
  <2>4. b # d.blk[first].prev
    <3>1. d.blk[first].prev = IF k = 0 THEN 0 ELSE P[o][k] BY <1>6 DEF FreesFrom
    <3>2. b # 0 BY DEF Blocks
    <3>3. k # 0 => k \in 1 .. L[o] BY <1>3, <1>5
    <3>4. k # 0 => own[P[o][k]] = o /\ at[P[o][k]] = k BY <1>1, <1>3, <3>3 DEF Laid
    <3> QED BY <1>7, <2>1, <2>2, <3>1, <3>2, <3>4
  <2>5. blk2[b] = IF b = d.freelist THEN [d.blk[b] EXCEPT !.prev = last] ELSE d.blk[b]
    BY <1>b, <2>3, <2>4 DEF AfterFree
  <2>6. d.blk[b] \in Header BY DEF Disk
  <2> QED BY <2>5, <2>6 DEF Header
<1>8. BlocksKept(d.blk, blk2, H[q], n) BY <1>1, <1>4, <1>7, OwnerKept
<1> QED BY <1>4, <1>8, <1>b

(* A file that is cut to its first k blocks. *)
LEMMA ShrunkKept ==
  ASSUME IInv, Structure, NEW i \in FDs, openFileTable[i] # NULL,
         NEW k \in Nat, k < allocatedBlocksForFile(DiskEntry(i)),
         NEW first \in fileBlockAt(disk.blk, DiskEntry(i).first_block, k),
         NEW last \in LastOf(disk.blk, DiskEntry(i).first_block),
         disk' = AfterFree(disk, first, last)
  PROVE  /\ BlocksKept(disk.blk, disk'.blk, DiskEntry(i).first_block, k)
         /\ \A j \in FDs \ {i} : openFileTable[j] # NULL =>
                FileKept(disk.blk, disk'.blk, DiskEntry(j))
<1>1. PICK E : EntriesAre(E, files, openFileTable) /\ Arranged(disk, next_rootdir, E)
  BY DEF Structure
<1>2. disk \in Disk /\ E \in [FileOwners -> Entry] BY <1>1 DEF IInv, TypeOK, EntriesAre
<1>o. PICK o : o = OwnerOf(i) OBVIOUS
<1>3. o \in FileOwners /\ E[o] = DiskEntry(i) /\ Occupied(E[o]) BY <1>1, <1>o, FileOwner
<1>4. /\ k < allocatedBlocksForFile(E[o])
      /\ first \in fileBlockAt(disk.blk, E[o].first_block, k)
      /\ last \in LastOf(disk.blk, E[o].first_block)
  BY <1>3
<1>b. PICK blk2 : blk2 = AfterFree(disk, first, last).blk OBVIOUS
<1>5. BlocksKept(disk.blk, blk2, E[o].first_block, k)
  <2>1. k <= allocatedBlocksForFile(E[o]) /\ k <= k
    <3>1. allocatedBlocksForFile(E[o]) \in Nat BY <1>2, <1>3, <1>1, LiveSized, FileCapacity
    <3> QED BY <1>4, <3>1
  <2> QED BY <1>1, <1>2, <1>3, <1>4, <1>b, <2>1, FreedFileKept
<1>6. ASSUME NEW j \in FDs \ {i}, openFileTable[j] # NULL
      PROVE  FileKept(disk.blk, blk2, DiskEntry(j))
  <2>q. PICK q : q = OwnerOf(j) OBVIOUS
  <2>1. q \in FileOwners /\ E[q] = DiskEntry(j) /\ Occupied(E[q]) /\ q # o
    BY <1>1, <1>o, <1>6, <2>q, FileOwner
  <2>n. PICK n : n = allocatedBlocksForFile(E[q]) OBVIOUS
  <2>2. n \in Nat /\ n <= n
    <3>1. n \in Nat BY <1>2, <1>1, <2>1, <2>n, LiveSized, FileCapacity
    <3> QED BY <3>1
  <2>3. BlocksKept(disk.blk, blk2, E[q].first_block, n)
    BY <1>1, <1>2, <1>3, <1>4, <1>b, <2>1, <2>2, <2>n, FreedFileKept
  <2> QED BY <2>1, <2>3, <2>n DEF FileKept
<1> QED BY <1>3, <1>5, <1>6, <1>b

(* A file, with owner o, that gives all its blocks back. *)
LEMMA DroppedKept ==
  ASSUME IInv, NEW E, EntriesAre(E, files, openFileTable), Arranged(disk, next_rootdir, E),
         NEW o \in FileOwners, Occupied(E[o]), E[o].first_block # SFS_EMPTY_FILE_BLOCK,
         NEW last \in LastOf(disk.blk, E[o].first_block),
         disk' = AfterFree(disk, E[o].first_block, last),
         NEW j \in FDs, openFileTable[j] # NULL, OwnerOf(j) # o
  PROVE  FileKept(disk.blk, disk'.blk, DiskEntry(j))
<1>2. disk \in Disk /\ E \in [FileOwners -> Entry] BY DEF IInv, TypeOK, EntriesAre
<1>b. PICK blk2 : blk2 = AfterFree(disk, E[o].first_block, last).blk OBVIOUS
<1>q. PICK q : q = OwnerOf(j) OBVIOUS
<1>3. q \in FileOwners /\ E[q] = DiskEntry(j) /\ Occupied(E[q]) /\ q # o
  BY <1>q, FileOwner
<1>n. PICK n : n = allocatedBlocksForFile(E[q]) OBVIOUS
<1>4. n \in Nat /\ n <= n
  <2>1. n \in Nat BY <1>2, <1>3, <1>n, LiveSized, FileCapacity
  <2> QED BY <2>1
<1>5. 0 \in Nat /\ 0 < allocatedBlocksForFile(E[o])
  <2>1. E[o] \in Entry /\ SizedRight(E[o]) BY <1>2, LiveSized
  <2>2. /\ allocatedBlocksForFile(E[o]) \in Nat
        /\ allocatedBlocksForFile(E[o]) # 0
    BY <2>1, FileCapacity
  <2> QED BY <2>2
<1>6. BlocksKept(disk.blk, blk2, E[q].first_block, n)
  BY <1>2, <1>3, <1>4, <1>5, <1>b, <1>n, FreedFileKept
<1> QED BY <1>3, <1>6, <1>b, <1>n DEF FileKept
=============================================================================
