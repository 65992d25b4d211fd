------------------------------- MODULE Malloc -------------------------------
(***************************************************************************)
(* The allocator of malloclab-handout/mm.c, down to the words of its heap: *)
(* boundary tags (no footer in an allocated block, whose state the next    *)
(* header remembers), segregated circular free lists linked through the    *)
(* payloads of free blocks, and the in-place paths of mm_realloc.          *)
(*                                                                         *)
(* Addresses count words of WSIZE = 4 bytes, sizes count bytes.  Tags,     *)
(* links and what the user stores share one memory; the user's words are   *)
(* negative, so that whatever overwrites them shows.                       *)
(***************************************************************************)
EXTENDS Integers, FiniteSets, FiniteSetsExt

CONSTANTS
    MAX_HEAP,       \* bound: where mem_sbrk fails, in bytes
    CHUNKSIZE,
    Requests,       \* bound: the sizes asked for, in bytes
    Ids             \* bound: the allocations alive at one time

ASSUME MallocAssumption ==
    /\ MAX_HEAP \in Nat /\ MAX_HEAP % 8 = 0 /\ MAX_HEAP >= 16 + CHUNKSIZE
    /\ CHUNKSIZE \in Nat /\ CHUNKSIZE % 8 = 0 /\ CHUNKSIZE >= 16
    /\ Requests \subseteq Nat \ {0}
    /\ Ids \subseteq Nat

VARIABLES
    heap,       \* [mem: the words, brk: their number, seg: the heads of the lists]
    live        \* the user's allocations: by id, [ptr, size]

vars == <<heap, live>>

CLASSNUM == 12
NULL == 0

-----------------------------------------------------------------------------
(* Sizes *)

\* Payloads of 17 to 512 bytes are rounded to the next power of two.
round_payload(size) ==
    IF size <= 16 \/ size > 512 THEN size ELSE Min({n \in {32, 64, 128, 256, 512} : n >= size})

\* Slip of asize: the header is forgotten.
asize_payload_only(size) ==
    IF round_payload(size) <= 8 THEN 16 ELSE 8 * ((round_payload(size) + 7) \div 8)

\* With the header, in multiples of 8 bytes.
asize(size) ==
    IF round_payload(size) <= 8 THEN 16 ELSE 8 * ((round_payload(size) + 11) \div 8)

\* The class of a block: the bits of the sixteenths in its payload.
find_index(size) ==
    IF size <= 16 THEN 0
    ELSE Min({c \in 0 .. CLASSNUM - 2 : (size - 5) \div 16 < 2 ^ c} \cup {CLASSNUM - 1})

-----------------------------------------------------------------------------
(* Words of a heap h *)

Address == 0 .. MAX_HEAP \div 4

Heap == [mem : [Address -> Int], brk : Address, seg : [0 .. CLASSNUM - 1 -> Address]]

Put(h, a, word) == [h EXCEPT !.mem[a] = word]

SizeIn(word) == word - (word % 8)

Size(h, bp)      == SizeIn(h.mem[bp - 1])
Alloc(h, bp)     == h.mem[bp - 1] % 2
PrevAlloc(h, bp) == (h.mem[bp - 1] \div 2) % 2

NextBlock(h, bp) == bp + Size(h, bp) \div 4
PrevBlock(h, bp) == bp - SizeIn(h.mem[bp - 2]) \div 4

PutHeader(h, bp, size, prev, alloc) == Put(h, bp - 1, size + 2 * prev + alloc)

\* Header and footer of a free block; nothing reads what is left between them, which
\* counts as 0.
PutFree(h, bp, size, prev) ==
    LET footer == bp + size \div 4 - 2
    IN  [h EXCEPT !.mem = [a \in Address |->
            IF a \in {bp - 1, footer} THEN size + 2 * prev
            ELSE IF a \in bp .. footer - 1 THEN 0 ELSE h.mem[a]]]

\* Slip of SetPrev: the next block is not told.
SetPrevLost(h, bp, prev) == h

\* A block learns whether the one before it is allocated.
SetPrev(h, bp, prev) == PutHeader(h, bp, Size(h, bp), prev, Alloc(h, bp))

\* The same for its footer, if it is free.
SetPrevBoth(h, bp, prev) ==
    IF Alloc(h, bp) = 1 THEN SetPrev(h, bp, prev)
    ELSE Put(SetPrev(h, bp, prev), NextBlock(h, bp) - 2, Size(h, bp) + 2 * prev)

-----------------------------------------------------------------------------
(* Free lists: a free block starts with links to the previous and the next one *)

insert_node(h, bp) ==
    LET index == find_index(Size(h, bp))
        head  == h.seg[index]
        last  == h.mem[head]
        mem   == IF head = NULL THEN [h.mem EXCEPT ![bp] = bp, ![bp + 1] = bp]
                 ELSE [h.mem EXCEPT ![bp + 1] = head, ![bp] = last,
                                    ![last + 1] = bp, ![head] = bp]
    IN  [h EXCEPT !.mem = mem, !.seg[index] = bp]

remove_node(h, bp) ==
    LET index    == find_index(Size(h, bp))
        cur_prev == h.mem[bp]
        cur_next == h.mem[bp + 1]
        linked   == Put(Put(h, cur_prev + 1, cur_next), cur_next, cur_prev)
    IN  IF h.seg[index] # bp THEN linked
        ELSE [linked EXCEPT !.seg[index] = IF cur_next = bp THEN NULL ELSE cur_next]

MaxBlocks == MAX_HEAP \div 16

\* The list that starts at head, as a function of the position, round and round.
OnList(h, head) ==
    LET at[i \in 0 .. MaxBlocks] == IF i = 0 THEN head ELSE h.mem[at[i - 1] + 1]
    IN  at

\* The positions of one round.
Round(h, head) ==
    IF head = NULL THEN {}
    ELSE LET at == OnList(h, head)
         IN  {i \in 0 .. MaxBlocks : \A j \in 1 .. i : at[j] # head}

\* The smallest block that fits, the first of these, on the list of a class.
FitsIn(h, index, size) ==
    LET at   == OnList(h, h.seg[index])
        fits == {i \in Round(h, h.seg[index]) : Size(h, at[i]) >= size}
        best == {i \in fits : \A j \in fits : Size(h, at[i]) <= Size(h, at[j])}
    IN  {at[i] : i \in {k \in best : \A j \in best : k <= j}}

\* find_fit: in the first class, from that of the size on, that has one.
find_fit(h, size) ==
    LET classes == {c \in find_index(size) .. CLASSNUM - 1 : FitsIn(h, c, size) # {}}
    IN  IF classes = {} THEN {} ELSE FitsIn(h, Min(classes), size)

-----------------------------------------------------------------------------
(* Blocks *)

\* Allocate a free block, and split it if the rest can be a block.
place(h, bp, size) ==
    LET free == remove_node(h, bp)
    IN  IF Size(h, bp) - size >= 16
        THEN LET rest == bp + size \div 4
             IN  insert_node(PutFree(PutHeader(free, bp, size, PrevAlloc(h, bp), 1),
                                     rest, Size(h, bp) - size, 1), rest)
        ELSE SetPrev(PutHeader(free, bp, Size(h, bp), PrevAlloc(h, bp), 1),
                     NextBlock(h, bp), 1)

\* Merge a free block with its free neighbours and put the result on its list.
coalesce(h, bp) ==
    LET next   == NextBlock(h, bp)
        first  == IF PrevAlloc(h, bp) = 1 THEN bp ELSE PrevBlock(h, bp)
        before == IF first = bp THEN h ELSE remove_node(h, first)
        free   == IF Alloc(h, next) = 1 THEN before ELSE remove_node(before, next)
        size   == 4 * (bp - first) + Size(h, bp)
                    + IF Alloc(h, next) = 1 THEN 0 ELSE Size(h, next)
    IN  [h  |-> insert_node(PutFree(free, first, size, PrevAlloc(h, first)), first),
         bp |-> first]

CanGrow(h, bytes) == 4 * h.brk + bytes <= MAX_HEAP

\* More memory, which begins with the old epilogue and ends with a new one.
mem_sbrk(h, bytes) == [h EXCEPT !.brk = @ + bytes \div 4]

extend_heap(h, bytes) ==
    LET bp    == h.brk
        grown == PutFree(mem_sbrk(h, bytes), bp, bytes, PrevAlloc(h, bp))
    IN  coalesce(PutHeader(grown, NextBlock(grown, bp), 0, 0, 1), bp)

\* mm_malloc of more than 0 bytes: the heap and the block, or NULL.
mm_malloc(h, size) ==
    LET fit    == find_fit(h, asize(size))
        extend == Max({asize(size), CHUNKSIZE})
    IN  IF fit # {} THEN LET bp == CHOOSE b \in fit : TRUE
                         IN  [h |-> place(h, bp, asize(size)), bp |-> bp]
        ELSE IF CanGrow(h, extend)
        THEN LET more == extend_heap(h, extend)
             IN  [h |-> place(more.h, more.bp, asize(size)), bp |-> more.bp]
        ELSE [h |-> h, bp |-> NULL]

\* mm_free of a block.
mm_free(h, bp) ==
    LET free == PutFree(h, bp, Size(h, bp), PrevAlloc(h, bp))
    IN  coalesce(SetPrev(free, NextBlock(free, bp), 0), bp).h

\* mm_init, and what it does to a new heap.
Empty ==
    [mem |-> [a \in Address |-> IF a \in {1, 2} THEN 9 ELSE IF a = 3 THEN 3 ELSE 0],
     brk |-> 4,
     seg |-> [c \in 0 .. CLASSNUM - 1 |-> NULL]]

Init ==
    /\ heap = extend_heap(Empty, CHUNKSIZE).h
    /\ live = [id \in {} |-> NULL]

-----------------------------------------------------------------------------
(* The user: allocates, fills every word of the payload, resizes, frees *)

Words(size) == (size + 3) \div 4

Token(id, i) == -(100 * (id + 1) + i)

\* The user fills the words of a payload from one on; the slack behind it counts as 0.
Filled(h, bp, id, from, size) ==
    [h EXCEPT !.mem = [a \in Address |->
        IF a \in bp + from .. bp + Words(size) - 1 THEN Token(id, a - bp)
        ELSE IF a \in bp + Words(size) .. NextBlock(h, bp) - 2 THEN 0 ELSE h.mem[a]]]

NewId == IF Ids \subseteq DOMAIN live THEN {} ELSE {Min(Ids \ DOMAIN live)}

Malloc(size) ==
    \E id \in NewId :
        LET got == mm_malloc(heap, size)
        IN  /\ got.bp # NULL
            /\ heap' = Filled(got.h, got.bp, id, 0, size)
            /\ live' = [x \in DOMAIN live \cup {id} |->
                            IF x = id THEN [ptr |-> got.bp, size |-> size] ELSE live[x]]

Free(id) ==
    /\ id \in DOMAIN live
    /\ heap' = mm_free(heap, live[id].ptr)
    /\ live' = [x \in DOMAIN live \ {id} |-> live[x]]

-----------------------------------------------------------------------------
(* mm_realloc: its ways, in the order in which it tries them *)

\* Some slack, which rounding may take up again.
Slack(size) == size + size \div 16

\* id gets size bytes at bp, and the user fills what is new.
Resized(h, id, bp, size) ==
    /\ heap' = Filled(h, bp, id, Min({Words(live[id].size), Words(size)}), size)
    /\ live' = [live EXCEPT ![id] = [ptr |-> bp, size |-> size]]

\* The payload of bp is copied to another place; the old one is read first.
Moved(h, from, to, bytes) ==
    [h EXCEPT !.mem = [a \in Address |->
        IF a \in to .. to + bytes \div 4 - 1 THEN h.mem[from + a - to] ELSE h.mem[a]]]

\* The block at first takes the space up to `total` bytes, but for a rest that can be
\* split off after `need` bytes.
Splits(total, need) == total - need >= 32

Taken(h, first, total, need) ==
    LET prev == PrevAlloc(h, first)
    IN  IF Splits(total, need)
        THEN PutFree(PutHeader(h, first, need, prev, 1), first + need \div 4, total - need, 1)
        ELSE SetPrevBoth(PutHeader(h, first, total, prev, 1), first + total \div 4, 1)

\* A block, the size it needs, and the free space on either side.
Block(id)  == live[id].ptr
Need(size) == asize(Slack(size))
Next1(bp)  == NextBlock(heap, bp)
After(bp)  == IF Alloc(heap, Next1(bp)) = 0 THEN Size(heap, Next1(bp)) ELSE 0
Before(bp) == IF PrevAlloc(heap, bp) = 0 THEN SizeIn(heap.mem[bp - 2]) ELSE 0

AtEnd(bp) == Size(heap, bp) = 0

Missing(id, size) == Need(size) - Size(heap, Block(id))

\* Smaller, or no larger: what can be split off becomes a free block.
ReallocShrink(id, size) ==
    /\ id \in DOMAIN live
    /\ Missing(id, size) <= 0
    /\ LET bp    == Block(id)
           rest  == bp + Need(size) \div 4
           split == PutFree(PutHeader(heap, bp, Need(size), PrevAlloc(heap, bp), 1),
                            rest, - Missing(id, size), 1)
       IN  Resized(IF - Missing(id, size) < 16 THEN heap
                   ELSE coalesce(SetPrevBoth(split, NextBlock(split, rest), 0), rest).h,
                   id, bp, size)

\* The last block, or the last but for a free one that is too small, grows with the heap;
\* if that fails, mm_realloc fails.
ReallocExtend(id, size) ==
    /\ id \in DOMAIN live
    /\ LET bp      == Block(id)
           missing == Missing(id, size) - After(bp)
       IN  /\ missing > 0
           /\ AtEnd(bp + (Size(heap, bp) + After(bp)) \div 4)
           /\ CanGrow(heap, missing)
           /\ LET free == IF After(bp) = 0 THEN heap ELSE remove_node(heap, Next1(bp))
                  more == PutHeader(mem_sbrk(free, missing), bp, Need(size),
                                    PrevAlloc(heap, bp), 1)
              IN  Resized(PutHeader(more, NextBlock(more, bp), 0, 1, 1), id, bp, size)

\* Slip of ReallocNext: what is left of the next block goes on no list.
ReallocNextLoses(id, size) ==
    /\ id \in DOMAIN live
    /\ Missing(id, size) \in 1 .. After(Block(id))
    /\ LET bp    == Block(id)
           total == Size(heap, bp) + After(bp)
       IN  Resized(Taken(remove_node(heap, Next1(bp)), bp, total, Need(size)), id, bp, size)

\* The free block after this one is large enough.
ReallocNext(id, size) ==
    /\ id \in DOMAIN live
    /\ Missing(id, size) \in 1 .. After(Block(id))
    /\ LET bp    == Block(id)
           total == Size(heap, bp) + After(bp)
           taken == Taken(remove_node(heap, Next1(bp)), bp, total, Need(size))
       IN  Resized(IF Splits(total, Need(size)) THEN insert_node(taken, NextBlock(taken, bp))
                   ELSE taken, id, bp, size)

\* None of these: mm_realloc has to move the payload.
MustMove(id, size) ==
    /\ id \in DOMAIN live
    /\ Missing(id, size) > After(Block(id))
    /\ ~ AtEnd(Block(id) + (Size(heap, Block(id)) + After(Block(id))) \div 4)

\* Slip of ReallocPrev: the payload is moved after the tags are written.
ReallocPrevLate(id, size) ==
    /\ MustMove(id, size)
    /\ Missing(id, size) <= Before(Block(id))
    /\ LET bp    == Block(id)
           to    == PrevBlock(heap, bp)
           total == Size(heap, bp) + Before(bp)
           taken == Taken(remove_node(heap, to), to, total, Need(size))
           moved == Moved(taken, bp, to, Size(heap, bp) - 4)
           rest  == NextBlock(moved, to)
       IN  Resized(IF ~ Splits(total, Need(size)) THEN moved
                   ELSE coalesce(SetPrevBoth(moved, NextBlock(moved, rest), 0), rest).h,
                   id, to, size)

\* Back into the free block before this one, if that alone is large enough.
ReallocPrev(id, size) ==
    /\ MustMove(id, size)
    /\ Missing(id, size) <= Before(Block(id))
    /\ LET bp    == Block(id)
           bsize == Size(heap, bp)
           to    == PrevBlock(heap, bp)
           total == bsize + Before(bp)
           taken == Taken(Moved(remove_node(heap, to), bp, to, bsize - 4),
                          to, total, Need(size))
           rest  == NextBlock(taken, to)
       IN  Resized(IF ~ Splits(total, Need(size)) THEN taken
                   ELSE coalesce(SetPrevBoth(taken, NextBlock(taken, rest), 0), rest).h,
                   id, to, size)

BothSides(id, size) ==
    LET bp == Block(id)
    IN  Before(bp) > 0 /\ After(bp) > 0 /\ Missing(id, size) <= Before(bp) + After(bp)

\* Into both neighbours.
ReallocBoth(id, size) ==
    /\ MustMove(id, size)
    /\ Missing(id, size) > Before(Block(id))
    /\ BothSides(id, size)
    /\ LET bp    == Block(id)
           bsize == Size(heap, bp)
           to    == PrevBlock(heap, bp)
           total == bsize + Before(bp) + After(bp)
           free  == remove_node(remove_node(heap, Next1(bp)), to)
           taken == Taken(Moved(free, bp, to, bsize - 4), to, total, Need(size))
       IN  Resized(IF Splits(total, Need(size)) THEN insert_node(taken, NextBlock(taken, to))
                   ELSE taken, id, to, size)

\* To a new block: allocate, copy, free.
ReallocMove(id, size) ==
    /\ MustMove(id, size)
    /\ Missing(id, size) > Before(Block(id))
    /\ ~ BothSides(id, size)
    /\ LET bp  == Block(id)
           got == mm_malloc(heap, Slack(size))
       IN  /\ got.bp # NULL
           /\ Resized(mm_free(Moved(got.h, bp, got.bp, Size(heap, bp) - 4), bp),
                      id, got.bp, size)

Next ==
    \/ \E size \in Requests : Malloc(size)
    \/ \E id \in Ids : Free(id)
    \/ \E id \in Ids, size \in Requests :
        \/ ReallocShrink(id, size) \/ ReallocExtend(id, size) \/ ReallocNext(id, size)
        \/ ReallocPrev(id, size) \/ ReallocBoth(id, size) \/ ReallocMove(id, size)

Spec == Init /\ [][Next]_vars

-----------------------------------------------------------------------------
(* Safety *)

\* The blocks of the heap, by their headers from the first one to the epilogue.
BlockAt[i \in 0 .. MaxBlocks] ==
    IF i = 0 THEN 4
    ELSE LET bp == BlockAt[i - 1]
         IN  IF Size(heap, bp) \in 8 .. 4 * (heap.brk - bp) THEN NextBlock(heap, bp) ELSE bp

Ends == {BlockAt[i] : i \in 0 .. MaxBlocks}
Blocks == Ends \ {heap.brk}

\* The headers lead from block to block to the epilogue, each as large as a block must
\* be; a header knows whether the block before is allocated; of two neighbours one is
\* allocated; and the footer of a free block, by which the next one finds it, is right.
TagsAgree ==
    /\ heap.brk \in Ends /\ Size(heap, heap.brk) = 0 /\ Alloc(heap, heap.brk) = 1
    /\ PrevAlloc(heap, 4) = 1
    /\ \A b \in Blocks :
        /\ Size(heap, b) >= 16
        /\ PrevAlloc(heap, NextBlock(heap, b)) = Alloc(heap, b)
        /\ Alloc(heap, b) = 0 =>
            /\ Alloc(heap, NextBlock(heap, b)) = 1
            /\ PrevBlock(heap, NextBlock(heap, b)) = b

\* Every free block is on the list of its class, once, and nothing else is on a list;
\* the links back agree with the links forth.
ListsHoldFreeBlocks ==
    \A c \in 0 .. CLASSNUM - 1 :
        LET head == heap.seg[c]
            at   == OnList(heap, head)
            on   == {at[i] : i \in Round(heap, head)}
        IN  /\ on = {b \in Blocks : Alloc(heap, b) = 0 /\ find_index(Size(heap, b)) = c}
            /\ \A b \in on : heap.mem[heap.mem[b + 1]] = b

\* The user's blocks are the allocated ones: none is given twice or lost, and each has
\* room for what was asked for.
LiveAreAllocated ==
    /\ {b \in Blocks : Alloc(heap, b) = 1} = {live[id].ptr : id \in DOMAIN live}
    /\ \A i, j \in DOMAIN live : i # j => live[i].ptr # live[j].ptr
    /\ \A id \in DOMAIN live : live[id].size <= Size(heap, live[id].ptr) - 4

\* No call changes a byte of a payload: not by tags or links, not by another block's
\* payload, not when mm_realloc moves it.
PayloadsIntact ==
    \A id \in DOMAIN live : \A i \in 0 .. Words(live[id].size) - 1 :
        heap.mem[live[id].ptr + i] = Token(id, i)

=============================================================================
