---------------------------- MODULE MallocProofs ----------------------------
(***************************************************************************)
(* Theorems about the allocator, for any size of heap and of chunks, any   *)
(* requests and any number of allocations.                                 *)
(*                                                                         *)
(* A heap is in order (Ok) when some set E of addresses cuts it into       *)
(* blocks whose tags agree (Tags), each class has a circle of just its     *)
(* free blocks (Listed), and no two neighbours are free (Coal).  Between   *)
(* the steps of a call some blocks are on no list, and some have free      *)
(* neighbours (Part).                                                      *)
(*                                                                         *)
(* The sections go as the code does: lists, tags, one C function each, the *)
(* paths of mm_realloc, and last the payloads of the user.  What a path of *)
(* mm_realloc has taken off the lists and not yet divided is Opened; what  *)
(* it hands to the user is Regiven.                                        *)
(***************************************************************************)
EXTENDS Malloc, NaturalSets

-----------------------------------------------------------------------------
(* Words and tags *)

Top == MAX_HEAP \div 4

LEMMA TopFacts == Top \in Nat /\ 4 * Top = MAX_HEAP /\ Address = 0 .. Top /\ Top >= 8
BY MallocAssumption DEF Top, Address

Bit == {0, 1}

\* A tag holds a size and two bits.
LEMMA TagWord ==
  ASSUME NEW size \in Int, size % 8 = 0, NEW prev \in Bit, NEW alloc \in Bit
  PROVE  /\ SizeIn(size + 2 * prev + alloc) = size
         /\ (size + 2 * prev + alloc) % 2 = alloc
         /\ ((size + 2 * prev + alloc) \div 2) % 2 = prev
BY DEF SizeIn, Bit

LEMMA SizeInFacts ==
  ASSUME NEW word \in Int
  PROVE  /\ SizeIn(word) \in Int /\ SizeIn(word) % 8 = 0
         /\ 4 * (SizeIn(word) \div 4) = SizeIn(word)
BY DEF SizeIn

LEMMA HeapFields ==
  ASSUME NEW h \in Heap
  PROVE  /\ h.mem \in [Address -> Int] /\ h.brk \in Address
         /\ h.seg \in [0 .. CLASSNUM - 1 -> Address]
         /\ h = [mem |-> h.mem, brk |-> h.brk, seg |-> h.seg]
BY DEF Heap

LEMMA TagFacts ==
  ASSUME NEW h \in Heap, NEW b \in 1 .. Top
  PROVE  /\ Size(h, b) \in Int /\ Size(h, b) % 8 = 0
         /\ 4 * (Size(h, b) \div 4) = Size(h, b)
         /\ Alloc(h, b) \in Bit /\ PrevAlloc(h, b) \in Bit
<1>1. h.mem[b - 1] \in Int BY TopFacts, HeapFields
<1>2. h.mem[b - 1] % 2 \in Bit /\ (h.mem[b - 1] \div 2) % 2 \in Bit BY <1>1 DEF Bit
<1> QED BY <1>1, <1>2, SizeInFacts DEF Size, Alloc, PrevAlloc

\* g is h but for the words from lo to hi.
Wrote(h, g, lo, hi) ==
    /\ g \in Heap /\ g.brk = h.brk /\ g.seg = h.seg
    /\ \A x \in Address : x < lo \/ x > hi => g.mem[x] = h.mem[x]

LEMMA WroteTrans ==
  ASSUME NEW h, NEW u, NEW q, NEW lo \in Int, NEW hi \in Int, NEW lo1 \in Int, NEW hi1 \in Int,
         NEW lo2 \in Int, NEW hi2 \in Int, Wrote(h, u, lo1, hi1), Wrote(u, q, lo2, hi2),
         lo <= lo1, lo <= lo2, hi1 <= hi, hi2 <= hi
  PROVE  Wrote(h, q, lo, hi)
<1>1. q \in Heap /\ q.brk = h.brk /\ q.seg = h.seg BY DEF Wrote
<1>2. ASSUME NEW x \in Address, x < lo \/ x > hi PROVE q.mem[x] = h.mem[x]
  <2>1. x \in Int BY TopFacts
  <2>2. (x < lo1 \/ x > hi1) /\ (x < lo2 \/ x > hi2) BY <1>2, <2>1
  <2> QED BY <2>2 DEF Wrote
<1> QED BY <1>1, <1>2 DEF Wrote

LEMMA PutFacts ==
  ASSUME NEW h \in Heap, NEW a \in Address, NEW word \in Int
  PROVE  Wrote(h, Put(h, a, word), a, a) /\ Put(h, a, word).mem[a] = word
<1>1. Put(h, a, word) \in Heap BY DEF Put, Heap
<1>2. Put(h, a, word).brk = h.brk /\ Put(h, a, word).seg = h.seg BY DEF Put, Heap
<1>3. Put(h, a, word).mem[a] = word BY DEF Put, Heap
<1>4. \A x \in Address : x # a => Put(h, a, word).mem[x] = h.mem[x] BY DEF Put, Heap
<1>5. \A x \in Address : x < a \/ x > a => x # a BY TopFacts
<1> QED BY <1>1, <1>2, <1>3, <1>4, <1>5 DEF Wrote

LEMMA PutHeaderFacts ==
  ASSUME NEW h \in Heap, NEW b \in 1 .. Top, NEW size \in Int, size % 8 = 0,
         NEW prev \in Bit, NEW alloc \in Bit, NEW g, g = PutHeader(h, b, size, prev, alloc)
  PROVE  /\ Wrote(h, g, b - 1, b - 1)
         /\ Size(g, b) = size /\ PrevAlloc(g, b) = prev /\ Alloc(g, b) = alloc
<1>1. b - 1 \in Address /\ size + 2 * prev + alloc \in Int BY TopFacts DEF Bit
<1>2. Wrote(h, g, b - 1, b - 1) /\ g.mem[b - 1] = size + 2 * prev + alloc
  BY <1>1, PutFacts DEF PutHeader
<1> QED BY <1>2, TagWord DEF Size, Alloc, PrevAlloc

LEMMA PutFreeFacts ==
  ASSUME NEW h \in Heap, NEW b \in 1 .. Top, NEW size \in Int, size % 8 = 0, size >= 16,
         b + size \div 4 <= Top + 2, NEW prev \in Bit, NEW g, g = PutFree(h, b, size, prev)
  PROVE  /\ Wrote(h, g, b - 1, b + size \div 4 - 2)
         /\ Size(g, b) = size /\ PrevAlloc(g, b) = prev /\ Alloc(g, b) = 0
         /\ SizeIn(g.mem[b + size \div 4 - 2]) = size
<1> DEFINE footer == b + size \div 4 - 2
<1>1. b - 1 \in Address /\ footer \in Address /\ footer > b - 1 BY TopFacts
<1>2. size + 2 * prev \in Int BY DEF Bit
<1> DEFINE mem == [a \in Address |->
            IF a \in {b - 1, footer} THEN size + 2 * prev
            ELSE IF a \in b .. footer - 1 THEN 0 ELSE h.mem[a]]
<1>3. g = [h EXCEPT !.mem = mem] BY DEF PutFree
<1>4. mem \in [Address -> Int] BY <1>2, HeapFields
<1>5. mem[b - 1] = size + 2 * prev /\ mem[footer] = size + 2 * prev BY <1>1
<1>6. \A x \in Address : x < b - 1 \/ x > footer => mem[x] = h.mem[x] BY <1>1
<1> HIDE DEF mem
<1>7. g \in Heap /\ g.mem = mem /\ g.brk = h.brk /\ g.seg = h.seg BY <1>3, <1>4 DEF Heap
<1>8. 0 \in Bit BY DEF Bit
<1>9. size + 2 * prev + 0 = size + 2 * prev BY <1>2
<1> QED BY <1>5, <1>6, <1>7, <1>8, <1>9, TagWord DEF Wrote, Size, Alloc, PrevAlloc

\* SetPrev changes one bit of a header.
LEMMA SetPrevFacts ==
  ASSUME NEW h \in Heap, NEW b \in 1 .. Top, NEW prev \in Bit, NEW g, g = SetPrev(h, b, prev)
  PROVE  /\ Wrote(h, g, b - 1, b - 1)
         /\ Size(g, b) = Size(h, b) /\ PrevAlloc(g, b) = prev /\ Alloc(g, b) = Alloc(h, b)
BY TagFacts, PutHeaderFacts DEF SetPrev

-----------------------------------------------------------------------------
(* Free lists *)

Classes == 0 .. CLASSNUM - 1

LEMMA ClassFacts ==
  ASSUME NEW size \in Int
  PROVE  find_index(size) \in Classes
<1>1. CASE size <= 16 BY <1>1 DEF find_index, Classes, CLASSNUM
<1>2. CASE ~ (size <= 16)
  <2> DEFINE S == {c \in 0 .. CLASSNUM - 2 : (size - 5) \div 16 < 2 ^ c} \cup {CLASSNUM - 1}
  <2>1. S \in SUBSET Nat /\ CLASSNUM - 1 \in S /\ S \subseteq Classes BY DEF Classes, CLASSNUM
  <2>2. find_index(size) = Min(S) BY <1>2 DEF find_index
  <2> HIDE DEF S
  <2>3. \E m \in S : \A n \in S : m <= n BY <2>1, LeastElement
  <2>4. Min(S) \in S BY <2>3 DEF Min
  <2> QED BY <2>1, <2>2, <2>4
<1> QED BY <1>1, <1>2

\* The circular list with its head at `head` goes through s, which enumerates S.
Circle(h, head, n, s, S) ==
    /\ S = {s[i] : i \in 1 .. n}
    /\ \A i, j \in 1 .. n : s[i] = s[j] => i = j
    /\ IF n = 0 THEN head = NULL ELSE head = s[1]
    /\ \A i \in 1 .. n : /\ h.mem[s[i] + 1] = s[IF i = n THEN 1 ELSE i + 1]
                         /\ h.mem[s[i]] = s[IF i = 1 THEN n ELSE i - 1]

Cls(h, F, c) == {b \in F : find_index(Size(h, b)) = c}

CircleOf(h, F, c) == \E n \in Nat : \E s \in [1 .. n -> Address] :
    Circle(h, h.seg[c], n, s, Cls(h, F, c))

\* The lists hold the blocks in F, by their classes.
Listed(h, F) == \A c \in Classes : CircleOf(h, F, c)

\* The blocks in F have room for links that do not overlap each other or a header.
Spread(F) ==
    /\ \A b \in F : b \in 4 .. Top - 2
    /\ \A b, c \in F : b = c \/ b + 4 <= c \/ c + 4 <= b

\* g is h but for links of the blocks in F.
Linked(h, g, F) ==
    /\ g \in Heap /\ g.brk = h.brk
    /\ \A x \in Address : (\A f \in F : x # f /\ x # f + 1) => g.mem[x] = h.mem[x]

\* A class is not disturbed by links of other blocks.
LEMMA CircleFrame ==
  ASSUME NEW h \in Heap, NEW g \in Heap, NEW F, NEW G, NEW c \in Classes,
         CircleOf(h, F, c), g.seg[c] = h.seg[c], Cls(g, G, c) = Cls(h, F, c),
         \A b \in Cls(h, F, c) : g.mem[b] = h.mem[b] /\ g.mem[b + 1] = h.mem[b + 1]
  PROVE  CircleOf(g, G, c)
<1>1. PICK n \in Nat : \E s \in [1 .. n -> Address] : Circle(h, h.seg[c], n, s, Cls(h, F, c))
  BY DEF CircleOf
<1>2. PICK s \in [1 .. n -> Address] : Circle(h, h.seg[c], n, s, Cls(h, F, c)) BY <1>1
<1>3. \A i \in 1 .. n : g.mem[s[i]] = h.mem[s[i]] /\ g.mem[s[i] + 1] = h.mem[s[i] + 1]
  BY <1>2 DEF Circle
<1>4. Circle(g, g.seg[c], n, s, Cls(g, G, c)) BY <1>2, <1>3 DEF Circle
<1> QED BY <1>4 DEF CircleOf

\* Links are no headers.
LEMMA LinkedSizes ==
  ASSUME NEW h \in Heap, NEW F, Spread(F), NEW g, Linked(h, g, F), NEW b \in F
  PROVE  Size(g, b) = Size(h, b) /\ b - 1 \in Address
<1>1. b - 1 \in Address /\ \A f \in F : b - 1 # f /\ b - 1 # f + 1
  BY TopFacts DEF Spread
<1> QED BY <1>1 DEF Linked, Size

\* g is h with bp between the last block of a list and its head.
Inserted(h, g, bp, index, head, last) ==
    /\ g \in Heap /\ g.brk = h.brk
    /\ g.seg[index] = bp /\ \A c \in Classes \ {index} : g.seg[c] = h.seg[c]
    /\ head = NULL => g.mem = [h.mem EXCEPT ![bp] = bp, ![bp + 1] = bp]
    /\ head # NULL => g.mem = [h.mem EXCEPT ![bp + 1] = head, ![bp] = last,
                                    ![last + 1] = bp, ![head] = bp]

LEMMA InsertMem ==
  ASSUME NEW h \in Heap, NEW bp \in 4 .. Top - 2, NEW index \in Classes,
         index = find_index(Size(h, bp)), NEW head, head = h.seg[index],
         NEW last, last = h.mem[head], NEW g, g = insert_node(h, bp),
         head # NULL => last \in 4 .. Top - 2
  PROVE  Inserted(h, g, bp, index, head, last)
<1> DEFINE mem == IF head = NULL THEN [h.mem EXCEPT ![bp] = bp, ![bp + 1] = bp]
                 ELSE [h.mem EXCEPT ![bp + 1] = head, ![bp] = last,
                                    ![last + 1] = bp, ![head] = bp]
<1>1. g = [h EXCEPT !.mem = mem, !.seg[index] = bp] BY DEF insert_node
<1>2. h.mem \in [Address -> Int] /\ h.seg \in [Classes -> Address] BY HeapFields DEF Classes
<1>3. mem \in [Address -> Int]
  <2>1. bp \in Int /\ head \in Int BY <1>2, TopFacts
  <2>2. head # NULL => last \in Int OBVIOUS
  <2> QED BY <1>2, <2>1, <2>2
<1> HIDE DEF mem
<1>4. g.mem = mem /\ g.brk = h.brk /\ g.seg = [h.seg EXCEPT ![index] = bp] BY <1>1 DEF Heap
<1>5. g.seg \in [Classes -> Address] BY <1>2, <1>4, TopFacts
<1>6. g \in Heap BY <1>1, <1>3, <1>5, <1>4 DEF Heap, Classes
<1>7. g.seg[index] = bp /\ \A c \in Classes \ {index} : g.seg[c] = h.seg[c] BY <1>2, <1>4
<1> QED BY <1>4, <1>6, <1>7 DEF mem, Inserted

\* insert_node puts a block on the list of its class.
LEMMA InsertNode ==
  ASSUME NEW h \in Heap, NEW F, NEW bp, bp \notin F, Spread(F \cup {bp}), Listed(h, F),
         NEW g, g = insert_node(h, bp)
  PROVE  Listed(g, F \cup {bp}) /\ Linked(h, g, F \cup {bp})
<1> DEFINE index == find_index(Size(h, bp))
           head == h.seg[index]
           last == h.mem[head]
           G == F \cup {bp}
<1>1. bp \in 4 .. Top - 2 /\ \A f \in F : f \in 4 .. Top - 2 BY DEF Spread
<1>2. \A b, c \in G : b = c \/ b + 4 <= c \/ c + 4 <= b BY DEF Spread
<1>3. index \in Classes
  <2>1. bp \in 1 .. Top BY <1>1, TopFacts
  <2>2. Size(h, bp) \in Int BY <2>1, TagFacts
  <2> QED BY <2>2, ClassFacts
<1>4. h.mem \in [Address -> Int] /\ Address = 0 .. Top /\ Top \in Nat
  BY HeapFields, TopFacts
<1>5. PICK n \in Nat : \E s \in [1 .. n -> Address] : Circle(h, head, n, s, Cls(h, F, index))
  BY <1>3 DEF Listed, CircleOf
<1>6. PICK s \in [1 .. n -> Address] : Circle(h, head, n, s, Cls(h, F, index)) BY <1>5
<1>7. \A i \in 1 .. n : s[i] \in Cls(h, F, index) /\ s[i] \in F /\ s[i] \in 4 .. Top - 2
  BY <1>1, <1>6 DEF Circle, Cls
<1>8. IF n = 0 THEN head = NULL ELSE head = s[1] /\ last = s[n] BY <1>6 DEF Circle
<1>9. head # NULL => head \in Cls(h, F, index) /\ last \in Cls(h, F, index)
  BY <1>7, <1>8
<1>10. \A c \in Classes : Cls(h, F, c) \subseteq F BY DEF Cls
<1> HIDE DEF index, head, last
<1>11. /\ g \in Heap /\ g.brk = h.brk
       /\ g.seg[index] = bp /\ \A c \in Classes \ {index} : g.seg[c] = h.seg[c]
       /\ head = NULL => g.mem = [h.mem EXCEPT ![bp] = bp, ![bp + 1] = bp]
       /\ head # NULL => g.mem = [h.mem EXCEPT ![bp + 1] = head, ![bp] = last,
                                    ![last + 1] = bp, ![head] = bp]
  <2>1. head # NULL => last \in 4 .. Top - 2 BY <1>1, <1>3, <1>9, <1>10
  <2>2. index = find_index(Size(h, bp)) /\ head = h.seg[index] /\ last = h.mem[head]
    BY DEF index, head, last
  <2>3. h \in Heap /\ g = insert_node(h, bp) OBVIOUS
  <2>4. bp \in 4 .. Top - 2 BY <1>1
  <2>5. Inserted(h, g, bp, index, head, last)
    BY ONLY <1>3, <2>1, <2>2, <2>3, <2>4, InsertMem
  <2> QED BY <2>5 DEF Inserted
<1>12. Linked(h, g, G)
  <2>1. \A x \in Address : (\A f \in G : x # f /\ x # f + 1) => g.mem[x] = h.mem[x]
    <3>1. CASE head = NULL BY <1>4, <1>11, <3>1
    <3>2. CASE head # NULL
      <4>1. head \in G /\ last \in G BY <1>3, <1>9, <1>10, <3>2
      <4> QED BY <1>4, <1>11, <3>2, <4>1
    <3> QED BY <3>1, <3>2
  <2> QED BY <1>11, <2>1 DEF Linked
<1>13. \A c \in Classes : Cls(g, G, c) = Cls(h, F, c) \cup (IF c = index THEN {bp} ELSE {})
  <2>1. \A b \in G : Size(g, b) = Size(h, b) BY <1>12, LinkedSizes
  <2> QED BY <2>1 DEF Cls, index
<1>14. ASSUME NEW c \in Classes PROVE CircleOf(g, G, c)
  <2>1. CASE c # index
    <3>1. ASSUME NEW b \in Cls(h, F, c)
          PROVE  g.mem[b] = h.mem[b] /\ g.mem[b + 1] = h.mem[b + 1]
      <4>1. b \in F /\ b \in 4 .. Top - 2 /\ b # bp BY <1>1, <1>10
      <4>2. head # NULL => b # head /\ b # last BY <1>9, <2>1 DEF Cls, index
      <4>3. head # NULL => head \in F /\ last \in F BY <1>3, <1>9, <1>10
      <4>4. b \in Address /\ b + 1 \in Address /\ b # bp + 1 /\ b + 1 # bp /\ b + 1 # bp + 1
        BY <1>1, <1>2, <1>4, <4>1
      <4>5. CASE head = NULL BY <1>4, <1>11, <4>1, <4>4, <4>5
      <4>6. CASE head # NULL
        <5>1. b # last + 1 /\ b + 1 # last + 1 /\ b + 1 # head /\ b # head
          <6>1. b \in G /\ head \in G /\ last \in G BY <4>1, <4>3, <4>6
          <6>2. (b + 4 <= last \/ last + 4 <= b) /\ (b + 4 <= head \/ head + 4 <= b)
            BY <1>2, <4>2, <4>6, <6>1
          <6>3. b \in Int /\ head \in Int /\ last \in Int
            <7>1. head \in F /\ last \in F BY <4>3, <4>6
            <7>2. head \in 4 .. Top - 2 /\ last \in 4 .. Top - 2 BY <1>1, <7>1
            <7> QED BY <4>1, <7>2
          <6> QED BY <6>2, <6>3
        <5>2. b # bp /\ b # bp + 1 /\ b + 1 # bp /\ b + 1 # bp + 1 BY <4>1, <4>4
        <5> QED BY <1>4, <1>11, <4>4, <4>6, <5>1, <5>2
      <4> QED BY <4>5, <4>6
    <3>2. CircleOf(h, F, c) /\ g.seg[c] = h.seg[c] /\ Cls(g, G, c) = Cls(h, F, c)
      BY <1>11, <1>13, <2>1 DEF Listed
    <3> QED BY <1>11, <3>1, <3>2, CircleFrame
  <2>2. CASE c = index
    <3> DEFINE t == [i \in 1 .. n + 1 |-> IF i = 1 THEN bp ELSE s[i - 1]]
    <3>1. t \in [1 .. n + 1 -> Address] BY <1>1, <1>4
    <3>2. t[1] = bp /\ \A i \in 1 .. n : t[i + 1] = s[i] OBVIOUS
    <3>3. \A i \in 2 .. n + 1 : i - 1 \in 1 .. n /\ t[i] = s[i - 1] OBVIOUS
    <3> HIDE DEF t
    <3>4. Cls(g, G, c) = {t[i] : i \in 1 .. n + 1}
      <4>1. Cls(h, F, index) = {s[i] : i \in 1 .. n} BY <1>6 DEF Circle
      <4>2. Cls(g, G, c) = {s[i] : i \in 1 .. n} \cup {bp} BY <1>13, <2>2, <4>1
      <4>3. \A i \in 1 .. n : s[i] = t[i + 1] /\ i + 1 \in 1 .. n + 1 BY <3>2
      <4>4. \A i \in 1 .. n + 1 : i = 1 \/ i \in 2 .. n + 1 OBVIOUS
      <4>5. {t[i] : i \in 1 .. n + 1} \subseteq {s[i] : i \in 1 .. n} \cup {bp}
        BY <3>2, <3>3, <4>4
      <4>6. {s[i] : i \in 1 .. n} \subseteq {t[i] : i \in 1 .. n + 1} BY <4>3
      <4>7. 1 \in 1 .. n + 1 OBVIOUS
      <4>8. bp \in {t[i] : i \in 1 .. n + 1} BY <3>2, <4>7
      <4> QED BY <4>2, <4>5, <4>6, <4>8
    <3>5. \A i, j \in 1 .. n + 1 : t[i] = t[j] => i = j
      <4>1. \A i \in 1 .. n + 1 : i = 1 \/ i \in 2 .. n + 1 OBVIOUS
      <4>2. \A i \in 2 .. n + 1 : t[i] # bp BY <1>7, <3>3
      <4>3. \A i, j \in 1 .. n : s[i] = s[j] => i = j BY <1>6 DEF Circle
      <4> QED BY <3>2, <3>3, <4>1, <4>2, <4>3
    <3>6. \A i \in 1 .. n + 1 : /\ g.mem[t[i] + 1] = t[IF i = n + 1 THEN 1 ELSE i + 1]
                                /\ g.mem[t[i]] = t[IF i = 1 THEN n + 1 ELSE i - 1]
      <4>1. CASE n = 0
        <5>1. head = NULL BY <1>8, <4>1
        <5>2. g.mem[bp] = bp /\ g.mem[bp + 1] = bp BY <1>1, <1>4, <1>11, <5>1
        <5>3. n + 1 = 1 /\ \A i \in 1 .. 1 : i = 1 BY <4>1
        <5>4. t[1] = bp BY <3>2
        <5> QED BY <5>2, <5>3, <5>4
      <4>2. CASE n # 0
        <5>1. head # NULL /\ head = s[1] /\ last = s[n] /\ 1 \in 1 .. n /\ n \in 1 .. n
          BY <1>7, <1>8, <4>2 DEF NULL
        <5>2. head \in F /\ last \in F /\ head \in 4 .. Top - 2 /\ last \in 4 .. Top - 2
          BY <1>7, <5>1
        <5>3. g.mem[bp + 1] = head /\ g.mem[bp] = last /\ g.mem[last + 1] = bp /\ g.mem[head] = bp
          <6>1. /\ bp # bp + 1 /\ bp # last + 1 /\ bp # head /\ bp + 1 # last + 1
                /\ bp + 1 # head /\ last + 1 # head
            BY <1>1, <1>2, <5>2
          <6>2. /\ bp \in 0 .. Top /\ bp + 1 \in 0 .. Top /\ last + 1 \in 0 .. Top
                /\ head \in 0 .. Top
            BY <1>1, <1>4, <5>2
          <6>3. g.mem = [h.mem EXCEPT ![bp + 1] = head, ![bp] = last,
                                    ![last + 1] = bp, ![head] = bp]
            BY <1>11, <5>1
          <6> QED BY <1>4, <6>1, <6>2, <6>3
        <5>4. ASSUME NEW i \in 1 .. n
              PROVE  /\ i # n => g.mem[s[i] + 1] = h.mem[s[i] + 1]
                     /\ i # 1 => g.mem[s[i]] = h.mem[s[i]]
          <6>1. s[i] \in F /\ s[i] \in 4 .. Top - 2 /\ s[i] # bp BY <1>7
          <6>2. (i # n => s[i] # last) /\ (i # 1 => s[i] # head) BY <1>6, <5>1 DEF Circle
          <6>3. /\ s[i] # bp + 1 /\ s[i] + 1 # bp /\ s[i] # last + 1 /\ s[i] + 1 # head
            BY <1>1, <1>2, <5>2, <6>1
          <6>4. s[i] + 1 # bp + 1 /\ (i # n => s[i] + 1 # last + 1)
            BY <1>1, <5>2, <6>1, <6>2
          <6>5. s[i] \in Address /\ s[i] + 1 \in Address BY <1>4, <6>1
          <6> QED BY <1>4, <1>11, <5>1, <6>1, <6>2, <6>3, <6>4, <6>5
        <5>5. \A i \in 1 .. n : /\ h.mem[s[i] + 1] = s[IF i = n THEN 1 ELSE i + 1]
                                /\ h.mem[s[i]] = s[IF i = 1 THEN n ELSE i - 1]
          BY <1>6 DEF Circle
        <5>6. ASSUME NEW i \in 1 .. n + 1
              PROVE  /\ g.mem[t[i] + 1] = t[IF i = n + 1 THEN 1 ELSE i + 1]
                     /\ g.mem[t[i]] = t[IF i = 1 THEN n + 1 ELSE i - 1]
          <6>1. CASE i = 1 BY <3>2, <5>1, <5>3, <6>1, <4>2
          <6>2. CASE i # 1
            <7>1. i - 1 \in 1 .. n /\ t[i] = s[i - 1] BY <3>3, <6>2
            <7>2. g.mem[t[i] + 1] = t[IF i = n + 1 THEN 1 ELSE i + 1]
              <8>1. CASE i = n + 1 BY <3>2, <5>1, <5>3, <7>1, <8>1
              <8>2. CASE i # n + 1
                <9>1. g.mem[s[i - 1] + 1] = s[i] /\ t[i + 1] = s[i]
                  BY <3>2, <5>4, <5>5, <7>1, <8>2
                <9> QED BY <7>1, <8>2, <9>1
              <8> QED BY <8>1, <8>2
            <7>3. g.mem[t[i]] = t[i - 1]
              <8>1. CASE i = 2 BY <3>2, <5>1, <5>3, <7>1, <8>1
              <8>2. CASE i # 2
                <9>1. g.mem[s[i - 1]] = s[i - 2] /\ t[i - 1] = s[i - 2]
                  BY <3>3, <5>4, <5>5, <6>2, <7>1, <8>2
                <9> QED BY <7>1, <9>1
              <8> QED BY <8>1, <8>2
            <7> QED BY <6>2, <7>2, <7>3
          <6> QED BY <6>1, <6>2
        <5> QED BY <5>6
      <4> QED BY <4>1, <4>2
    <3>7. Circle(g, g.seg[c], n + 1, t, Cls(g, G, c))
      <4>1. n + 1 # 0 /\ g.seg[c] = t[1] BY <1>11, <2>2, <3>2
      <4> QED BY <3>4, <3>5, <3>6, <4>1 DEF Circle
    <3> QED BY <3>1, <3>7 DEF CircleOf
  <2> QED BY <2>1, <2>2
<1> QED BY <1>12, <1>14 DEF Listed

\* A list without its element at k.
Cut(s, n, k) == [i \in 1 .. n - 1 |-> IF i < k THEN s[i] ELSE s[i + 1]]

\* Element i of it was element j; what follows and precedes it is what did, but for the one
\* that is cut out.
WasAt(s, n, k, i, j) ==
    /\ j \in 1 .. n /\ j # k /\ Cut(s, n, k)[i] = s[j]
    /\ Cut(s, n, k)[IF i = n - 1 THEN 1 ELSE i + 1] =
         IF j = (IF k = 1 THEN n ELSE k - 1) THEN s[IF k = n THEN 1 ELSE k + 1]
         ELSE s[IF j = n THEN 1 ELSE j + 1]
    /\ Cut(s, n, k)[IF i = 1 THEN n - 1 ELSE i - 1] =
         IF j = (IF k = n THEN 1 ELSE k + 1) THEN s[IF k = 1 THEN n ELSE k - 1]
         ELSE s[IF j = 1 THEN n ELSE j - 1]

LEMMA CutFacts ==
  ASSUME NEW n \in Nat, n > 1, NEW k \in 1 .. n, NEW S, NEW s \in [1 .. n -> S],
         NEW i \in 1 .. n - 1, NEW j, j = IF i < k THEN i ELSE i + 1
  PROVE  WasAt(s, n, k, i, j)
<1> DEFINE after == IF i = n - 1 THEN 1 ELSE i + 1
           before == IF i = 1 THEN n - 1 ELSE i - 1
<1>1. \A m \in 1 .. n - 1 : Cut(s, n, k)[m] = IF m < k THEN s[m] ELSE s[m + 1] BY DEF Cut
<1>2. after \in 1 .. n - 1 /\ before \in 1 .. n - 1 OBVIOUS
<1>3. Cut(s, n, k)[after] = IF after < k THEN s[after] ELSE s[after + 1] BY <1>1, <1>2
<1>4. Cut(s, n, k)[before] = IF before < k THEN s[before] ELSE s[before + 1] BY <1>1, <1>2
<1>5. (IF after < k THEN after ELSE after + 1) =
          IF j = (IF k = 1 THEN n ELSE k - 1) THEN (IF k = n THEN 1 ELSE k + 1)
          ELSE (IF j = n THEN 1 ELSE j + 1)
  OBVIOUS
<1>6. (IF before < k THEN before ELSE before + 1) =
          IF j = (IF k = n THEN 1 ELSE k + 1) THEN (IF k = 1 THEN n ELSE k - 1)
          ELSE (IF j = 1 THEN n ELSE j - 1)
  OBVIOUS
<1> HIDE DEF after, before
<1>7. Cut(s, n, k)[after] = s[IF after < k THEN after ELSE after + 1] BY <1>3
<1>8. Cut(s, n, k)[before] = s[IF before < k THEN before ELSE before + 1] BY <1>4
<1>9. Cut(s, n, k)[after] = s[IF j = (IF k = 1 THEN n ELSE k - 1) THEN (IF k = n THEN 1 ELSE k + 1)
          ELSE (IF j = n THEN 1 ELSE j + 1)] BY <1>5, <1>7
<1>10. Cut(s, n, k)[before] = s[IF j = (IF k = n THEN 1 ELSE k + 1)
          THEN (IF k = 1 THEN n ELSE k - 1) ELSE (IF j = 1 THEN n ELSE j - 1)] BY <1>6, <1>8
<1>11. j \in 1 .. n /\ j # k /\ Cut(s, n, k)[i] = s[j] BY <1>1
<1> QED BY <1>9, <1>10, <1>11 DEF after, before, WasAt

\* remove_node takes a block from the list of its class.
LEMMA RemoveNode ==
  ASSUME NEW h \in Heap, NEW F, NEW bp \in F, Spread(F), Listed(h, F),
         NEW g, g = remove_node(h, bp)
  PROVE  Listed(g, F \ {bp}) /\ Linked(h, g, F) /\ g.mem \in [Address -> Int]
<1> DEFINE index == find_index(Size(h, bp))
           prev == h.mem[bp]
           next == h.mem[bp + 1]
           G == F \ {bp}
<1>1. \A f \in F : f \in 4 .. Top - 2 BY DEF Spread
<1>2. \A b, c \in F : b = c \/ b + 4 <= c \/ c + 4 <= b BY DEF Spread
<1>3. index \in Classes
  <2>1. bp \in 1 .. Top BY <1>1, TopFacts
  <2>2. Size(h, bp) \in Int BY <2>1, TagFacts
  <2> QED BY <2>2, ClassFacts
<1>4. h.mem \in [Address -> Int] /\ Address = 0 .. Top /\ Top \in Nat
  BY HeapFields, TopFacts
<1>5. PICK n \in Nat : \E s \in [1 .. n -> Address] :
        Circle(h, h.seg[index], n, s, Cls(h, F, index))
  BY <1>3 DEF Listed, CircleOf
<1>6. PICK s \in [1 .. n -> Address] : Circle(h, h.seg[index], n, s, Cls(h, F, index))
  BY <1>5
<1>7. \A i \in 1 .. n : s[i] \in Cls(h, F, index) /\ s[i] \in F /\ s[i] \in 4 .. Top - 2
  BY <1>1, <1>6 DEF Circle, Cls
<1>8. PICK k \in 1 .. n : s[k] = bp
  <2>1. bp \in Cls(h, F, index) BY DEF Cls
  <2> QED BY <1>6, <2>1 DEF Circle
<1> DEFINE kp == IF k = 1 THEN n ELSE k - 1
           kn == IF k = n THEN 1 ELSE k + 1
<1>9. prev = s[kp] /\ next = s[kn] /\ kp \in 1 .. n /\ kn \in 1 .. n
  BY <1>6, <1>8 DEF Circle
<1>10. prev \in F /\ next \in F /\ prev \in Cls(h, F, index) /\ next \in Cls(h, F, index)
  BY <1>7, <1>9
<1>11. \A c \in Classes : Cls(h, F, c) \subseteq F BY DEF Cls
<1>12. h.seg[index] = bp <=> k = 1
  <2>1. h.seg[index] = s[1] /\ 1 \in 1 .. n BY <1>6, <1>8 DEF Circle
  <2> QED BY <1>6, <1>8, <2>1 DEF Circle
<1>13. next = bp <=> n = 1
  <2>1. s[kn] = s[k] => kn = k BY <1>6, <1>9 DEF Circle
  <2> QED BY <1>8, <1>9, <2>1
<1>14. /\ g \in Heap /\ g.brk = h.brk
       /\ \A c \in Classes \ {index} : g.seg[c] = h.seg[c]
       /\ g.seg[index] = IF k # 1 THEN h.seg[index] ELSE IF n = 1 THEN NULL ELSE next
       /\ g.mem = [h.mem EXCEPT ![prev + 1] = next, ![next] = prev]
  <2> DEFINE linked == Put(Put(h, prev + 1, next), next, prev)
             mem == [h.mem EXCEPT ![prev + 1] = next, ![next] = prev]
  <2>1. linked = [h EXCEPT !.mem = mem] BY DEF Put, Heap
  <2>2. prev + 1 \in Address /\ next \in Address /\ prev \in Int /\ next \in Int
    <3>1. prev \in 4 .. Top - 2 /\ next \in 4 .. Top - 2 BY <1>1, <1>10
    <3> HIDE DEF prev, next
    <3> QED BY <1>4, <3>1
  <2>3. mem \in [Address -> Int] BY <1>4, <2>2
  <2>4. g = IF h.seg[index] # bp THEN linked
            ELSE [linked EXCEPT !.seg[index] = IF next = bp THEN NULL ELSE next]
    BY DEF remove_node
  <2> HIDE DEF linked, mem, index, prev, next
  <2>5. linked \in Heap /\ linked.mem = mem /\ linked.brk = h.brk /\ linked.seg = h.seg
    BY <2>1, <2>3 DEF Heap
  <2>6. h.seg \in [Classes -> Address] BY HeapFields DEF Classes
  <2>7. CASE h.seg[index] # bp
    <3>1. g = linked BY <2>4, <2>7
    <3>2. k # 1 BY <1>12, <2>7
    <3> QED BY <2>5, <3>1, <3>2 DEF mem
  <2>8. CASE h.seg[index] = bp
    <3>1. PICK v \in Address : v = IF next = bp THEN NULL ELSE next
      BY <1>4, <2>2 DEF NULL
    <3>2. g = [linked EXCEPT !.seg = [h.seg EXCEPT ![index] = v]]
      BY <2>4, <2>5, <2>8, <3>1 DEF Heap
    <3>3. [h.seg EXCEPT ![index] = v] \in [Classes -> Address] BY <2>6
    <3>4. g.seg = [h.seg EXCEPT ![index] = v] /\ g.mem = mem /\ g.brk = h.brk
      BY <2>5, <3>2 DEF Heap
    <3>5. g \in Heap BY <2>5, <3>2, <3>3 DEF Heap, Classes
    <3>6. g.seg[index] = v /\ \A c \in Classes \ {index} : g.seg[c] = h.seg[c]
      BY <1>3, <2>6, <3>4
    <3>7. k = 1 BY <1>12, <2>8
    <3> QED BY <1>13, <3>1, <3>4, <3>5, <3>6, <3>7 DEF mem
  <2> QED BY <2>7, <2>8
<1> HIDE DEF index, prev, next
<1>15. Linked(h, g, F)
  <2>1. ASSUME NEW x \in Address, \A f \in F : x # f /\ x # f + 1
        PROVE  g.mem[x] = h.mem[x]
    <3>1. x # prev + 1 /\ x # next BY <1>10, <2>1
    <3> QED BY <1>4, <1>14, <3>1
  <2> QED BY <1>14, <2>1 DEF Linked
<1>16. \A c \in Classes : Cls(g, G, c) = IF c = index THEN Cls(h, F, c) \ {bp} ELSE Cls(h, F, c)
  <2>1. \A b \in F : Size(g, b) = Size(h, b) BY <1>15, LinkedSizes
  <2> QED BY <2>1 DEF Cls, index
<1>17. ASSUME NEW c \in Classes PROVE CircleOf(g, G, c)
  <2>1. CASE c # index
    <3>1. ASSUME NEW b \in Cls(h, F, c)
          PROVE  g.mem[b] = h.mem[b] /\ g.mem[b + 1] = h.mem[b + 1]
      <4>1. b \in F /\ b \in 4 .. Top - 2 BY <1>1, <1>11
      <4>2. b # prev /\ b # next BY <1>10, <2>1 DEF Cls
      <4>3. (b + 4 <= prev \/ prev + 4 <= b) /\ (b + 4 <= next \/ next + 4 <= b)
        BY <1>2, <1>10, <4>1, <4>2
      <4>4. prev \in 4 .. Top - 2 /\ next \in 4 .. Top - 2 BY <1>1, <1>10
      <4>5. b # prev + 1 /\ b + 1 # prev + 1 /\ b + 1 # next /\ b # next
            /\ b \in Address /\ b + 1 \in Address
        BY <1>4, <4>1, <4>3, <4>4
      <4> QED BY <1>4, <1>14, <4>5
    <3>2. CircleOf(h, F, c) /\ g.seg[c] = h.seg[c] /\ Cls(g, G, c) = Cls(h, F, c)
      BY <1>14, <1>16, <2>1 DEF Listed
    <3> QED BY <1>14, <3>1, <3>2, CircleFrame
  <2>2. CASE c = index
    <3> DEFINE t == Cut(s, n, k)
    <3>1. t \in [1 .. n - 1 -> Address] BY DEF Cut
    <3>2. n - 1 \in Nat BY <1>8
    <3>3. \A i \in 1 .. n - 1 : t[i] = IF i < k THEN s[i] ELSE s[i + 1] BY DEF Cut
    <3>4. \A i, j \in 1 .. n : s[i] = s[j] => i = j BY <1>6 DEF Circle
    <3> HIDE DEF t
    <3>5. Cls(g, G, c) = {t[i] : i \in 1 .. n - 1}
      <4>1. Cls(h, F, index) = {s[i] : i \in 1 .. n} BY <1>6 DEF Circle
      <4>2. Cls(g, G, c) = {s[i] : i \in 1 .. n} \ {s[k]} BY <1>8, <1>16, <2>2, <4>1
      <4>3. ASSUME NEW i \in 1 .. n - 1 PROVE t[i] \in {s[j] : j \in 1 .. n} \ {s[k]}
        <5>1. CASE i < k BY <3>3, <3>4, <5>1
        <5>2. CASE ~ (i < k)
          <6>1. i + 1 \in 1 .. n /\ i + 1 # k /\ t[i] = s[i + 1] BY <3>3, <5>2
          <6> QED BY <3>4, <6>1
        <5> QED BY <5>1, <5>2
      <4>4. ASSUME NEW j \in 1 .. n, j # k PROVE s[j] \in {t[i] : i \in 1 .. n - 1}
        <5>1. CASE j < k
          <6>1. j \in 1 .. n - 1 /\ t[j] = s[j] BY <3>3, <5>1
          <6> QED BY <6>1
        <5>2. CASE j > k
          <6>1. j - 1 \in 1 .. n - 1 /\ t[j - 1] = s[j] BY <3>3, <5>2
          <6> QED BY <6>1
        <5> QED BY <4>4, <5>1, <5>2
      <4>5. {t[i] : i \in 1 .. n - 1} \subseteq {s[i] : i \in 1 .. n} \ {s[k]} BY <4>3
      <4>6. {s[i] : i \in 1 .. n} \ {s[k]} \subseteq {t[i] : i \in 1 .. n - 1} BY <4>4
      <4> QED BY <4>2, <4>5, <4>6
    <3>6. \A i, j \in 1 .. n - 1 : t[i] = t[j] => i = j
      <4>1. \A i \in 1 .. n - 1 : i \in 1 .. n /\ i + 1 \in 1 .. n OBVIOUS
      <4> QED BY <3>3, <3>4, <4>1
    <3>7. CASE n = 1
      <4>1. k = 1 BY <3>7
      <4>2. g.seg[c] = NULL BY <1>14, <2>2, <3>7, <4>1
      <4>3. Circle(g, g.seg[c], n - 1, t, Cls(g, G, c))
        BY <3>5, <3>6, <3>7, <4>2 DEF Circle
      <4> QED BY <3>1, <3>2, <4>3 DEF CircleOf
    <3>8. CASE n # 1
      <4>1. n > 1 BY <3>2, <3>8
      <4>2. g.seg[c] = t[1]
        <5>1. k # 1 => t[1] = s[1] BY <3>3, <4>1
        <5>2. k = 1 => t[1] = s[kn] BY <3>3, <4>1
        <5>3. h.seg[index] = s[1] BY <1>6, <4>1 DEF Circle
        <5> QED BY <1>9, <1>14, <2>2, <3>8, <5>1, <5>2, <5>3
      <4>3. \A j \in 1 .. n : /\ h.mem[s[j] + 1] = s[IF j = n THEN 1 ELSE j + 1]
                              /\ h.mem[s[j]] = s[IF j = 1 THEN n ELSE j - 1]
        BY <1>6 DEF Circle
      <4>4. prev \in 4 .. Top - 2 /\ next \in 4 .. Top - 2 BY <1>1, <1>10
      <4>5. ASSUME NEW j \in 1 .. n
            PROVE  /\ g.mem[s[j] + 1] = IF j = kp THEN s[kn] ELSE h.mem[s[j] + 1]
                   /\ g.mem[s[j]] = IF j = kn THEN s[kp] ELSE h.mem[s[j]]
        <5>1. s[j] \in F /\ s[j] \in 4 .. Top - 2 BY <1>7
        <5>2. (s[j] = prev <=> j = kp) /\ (s[j] = next <=> j = kn) BY <1>9, <3>4
        <5>3. s[j] + 1 # next /\ s[j] # prev + 1
          <6>1. s[j] = prev \/ s[j] + 4 <= prev \/ prev + 4 <= s[j] BY <1>2, <1>10, <5>1
          <6>2. s[j] = next \/ s[j] + 4 <= next \/ next + 4 <= s[j] BY <1>2, <1>10, <5>1
          <6> QED BY <4>4, <5>1, <6>1, <6>2
        <5>4. s[j] + 1 \in Address /\ s[j] \in Address /\ prev + 1 # next
          <6>1. prev = next \/ prev + 4 <= next \/ next + 4 <= prev BY <1>2, <1>10
          <6> QED BY <1>4, <4>4, <5>1, <6>1
        <5>5. s[j] + 1 = prev + 1 <=> s[j] = prev BY <4>4, <5>1
        <5>6. prev = s[kp] /\ next = s[kn] BY <1>9
        <5> HIDE DEF kp, kn
        <5> QED BY <1>4, <1>14, <5>2, <5>3, <5>4, <5>5, <5>6
      <4>6. ASSUME NEW i \in 1 .. n - 1
            PROVE  /\ g.mem[t[i] + 1] = t[IF i = n - 1 THEN 1 ELSE i + 1]
                   /\ g.mem[t[i]] = t[IF i = 1 THEN n - 1 ELSE i - 1]
        <5>1. PICK j : j = IF i < k THEN i ELSE i + 1 OBVIOUS
        <5>2. /\ j \in 1 .. n /\ t[i] = s[j]
              /\ t[IF i = n - 1 THEN 1 ELSE i + 1] =
                   IF j = kp THEN s[kn] ELSE s[IF j = n THEN 1 ELSE j + 1]
              /\ t[IF i = 1 THEN n - 1 ELSE i - 1] =
                   IF j = kn THEN s[kp] ELSE s[IF j = 1 THEN n ELSE j - 1]
          <6>1. n \in Nat /\ k \in 1 .. n /\ s \in [1 .. n -> Address] /\ i \in 1 .. n - 1
            OBVIOUS
          <6>2. WasAt(s, n, k, i, j) BY ONLY <4>1, <5>1, <6>1, CutFacts
          <6> QED BY <6>2 DEF t, WasAt
        <5> HIDE DEF kp, kn
        <5> QED BY <4>3, <4>5, <5>2
      <4>7. n - 1 # 0 BY <4>1
      <4>8. Circle(g, g.seg[c], n - 1, t, Cls(g, G, c))
        BY <3>5, <3>6, <4>2, <4>6, <4>7 DEF Circle
      <4> QED BY <3>1, <3>2, <4>8 DEF CircleOf
    <3> QED BY <3>7, <3>8
  <2> QED BY <2>1, <2>2
<1> QED BY <1>14, <1>15, <1>17, HeapFields DEF Listed

\* What leaves the links and the sizes of the listed blocks alone leaves the lists alone.
LEMMA ListedFrame ==
  ASSUME NEW h \in Heap, NEW g \in Heap, NEW F, Listed(h, F), g.seg = h.seg,
         \A b \in F : Size(g, b) = Size(h, b) /\ g.mem[b] = h.mem[b] /\ g.mem[b + 1] = h.mem[b + 1]
  PROVE  Listed(g, F)
<1>1. ASSUME NEW c \in Classes PROVE CircleOf(g, F, c)
  <2>1. Cls(g, F, c) = Cls(h, F, c) /\ Cls(h, F, c) \subseteq F BY DEF Cls
  <2>2. CircleOf(h, F, c) BY DEF Listed
  <2> QED BY <2>1, <2>2, CircleFrame
<1> QED BY <1>1 DEF Listed

\* f starts at a and takes k steps of next.
Steps(f, D, next, a, k) ==
    f \in [0 .. k -> D] /\ f[0] = a /\ \A i \in 1 .. k : f[i] = next[f[i - 1]]

HasSteps(D, next, a, k) == \E f : Steps(f, D, next, a, k)

\* A function can be applied again and again.
LEMMA Iterates ==
  ASSUME NEW D, NEW next \in [D -> D], NEW a \in D, NEW k \in Nat
  PROVE  HasSteps(D, next, a, k)
<1> DEFINE Good(n, f) == f[0] = a /\ \A i \in 1 .. n : f[i] = next[f[i - 1]]
           S == {n \in Nat : \E f \in [0 .. n -> D] : Good(n, f)}
<1>1. 0 \in S
  <2>1. [i \in 0 .. 0 |-> a] \in [0 .. 0 -> D] /\ Good(0, [i \in 0 .. 0 |-> a]) OBVIOUS
  <2> QED BY <2>1
<1>2. ASSUME NEW n \in Nat, n \in S PROVE n + 1 \in S
  <2>1. PICK f \in [0 .. n -> D] : Good(n, f) BY <1>2
  <2> DEFINE g == [i \in 0 .. n + 1 |-> IF i = n + 1 THEN next[f[n]] ELSE f[i]]
  <2>2. g \in [0 .. n + 1 -> D] BY <2>1
  <2>3. \A i \in 1 .. n + 1 : g[i] = next[g[i - 1]]
    <3>1. ASSUME NEW i \in 1 .. n PROVE g[i] = next[g[i - 1]]
      <4>1. f[i] = next[f[i - 1]] /\ i \in 0 .. n + 1 /\ i # n + 1 BY <2>1, <3>1
      <4>2. i - 1 \in 0 .. n + 1 /\ i - 1 # n + 1 BY <3>1
      <4>3. g[i] = f[i] BY <4>1
      <4>4. g[i - 1] = f[i - 1] BY <4>2
      <4> QED BY <4>1, <4>3, <4>4
    <3>2. g[n + 1] = next[g[n]] BY <2>1
    <3> QED BY <3>1, <3>2
  <2>4. g[0] = a BY <2>1
  <2> QED BY <2>2, <2>3, <2>4
<1>3. S \subseteq Nat OBVIOUS
<1> HIDE DEF S
<1>4. k \in S BY <1>1, <1>2, SetInduction
<1> QED BY <1>4 DEF S, HasSteps, Steps

LEMMA MaxBlocksNat == MaxBlocks \in Nat /\ 4 * MaxBlocks <= Top /\ Top <= 4 * MaxBlocks + 3
BY MallocAssumption, TopFacts DEF MaxBlocks

\* Going round a list (OnList) takes its blocks in order.
LEMMA OnListFacts ==
  ASSUME NEW h \in Heap, NEW head, NEW n \in Nat, n > 0, NEW s \in [1 .. n -> Address],
         NEW S, Circle(h, head, n, s, S), NEW at, at = OnList(h, head)
  PROVE  /\ \A i \in 0 .. MaxBlocks : at[i] \in S
         /\ \A i \in 1 .. MaxBlocks : at[i] = h.mem[at[i - 1] + 1]
         /\ \A i \in 0 .. MaxBlocks : i < n => at[i] = s[i + 1]
<1> DEFINE Eq(f) == f = [i \in 0 .. MaxBlocks |-> IF i = 0 THEN head ELSE h.mem[f[i - 1] + 1]]
<1>1. MaxBlocks \in Nat BY MaxBlocksNat
<1>2. /\ S = {s[i] : i \in 1 .. n} /\ head = s[1]
      /\ \A i \in 1 .. n : h.mem[s[i] + 1] = s[IF i = n THEN 1 ELSE i + 1]
  BY DEF Circle
<1>3. head \in S BY <1>2
<1>4. \A b \in S : h.mem[b + 1] \in S
  <2>1. ASSUME NEW i \in 1 .. n PROVE h.mem[s[i] + 1] \in S
    <3>1. (IF i = n THEN 1 ELSE i + 1) \in 1 .. n OBVIOUS
    <3> QED BY <1>2, <3>1
  <2> QED BY <1>2, <2>1
<1>5. \E f : Eq(f)
  <2> DEFINE next == [b \in S |-> h.mem[b + 1]]
  <2>1. next \in [S -> S] /\ \A b \in S : next[b] = h.mem[b + 1] BY <1>4
  <2> HIDE DEF next
  <2>2. HasSteps(S, next, head, MaxBlocks) BY <1>1, <1>3, <2>1, Iterates
  <2>3. PICK f \in [0 .. MaxBlocks -> S] :
          f[0] = head /\ \A i \in 1 .. MaxBlocks : f[i] = next[f[i - 1]]
    BY <2>2 DEF HasSteps, Steps
  <2>4. ASSUME NEW i \in 0 .. MaxBlocks
        PROVE  f[i] = IF i = 0 THEN head ELSE h.mem[f[i - 1] + 1]
    <3>1. CASE i = 0 BY <2>3, <3>1
    <3>2. CASE i # 0
      <4>1. i \in 1 .. MaxBlocks /\ i - 1 \in 0 .. MaxBlocks BY <1>1, <3>2
      <4>2. f[i - 1] \in S BY <4>1
      <4> QED BY <2>1, <2>3, <3>2, <4>1, <4>2
    <3> QED BY <3>1, <3>2
  <2> QED BY <2>4
<1>6. Eq(at)
  <2>1. at = CHOOSE f : Eq(f) BY DEF OnList
  <2> HIDE DEF Eq
  <2> QED BY <1>5, <2>1
<1>7. at[0] = head /\ \A i \in 1 .. MaxBlocks : at[i] = h.mem[at[i - 1] + 1]
  <2>1. \A i \in 1 .. MaxBlocks : i \in 0 .. MaxBlocks /\ i # 0 BY <1>1
  <2>2. 0 \in 0 .. MaxBlocks BY <1>1
  <2>3. at[0] = head BY <1>6, <2>2
  <2>4. \A i \in 0 .. MaxBlocks : at[i] = IF i = 0 THEN head ELSE h.mem[at[i - 1] + 1] BY <1>6
  <2> HIDE DEF Eq
  <2> QED BY <2>1, <2>3, <2>4
<1> HIDE DEF Eq
<1>8. \A i \in Nat : i <= MaxBlocks => at[i] \in S /\ (i < n => at[i] = s[i + 1])
  <2> DEFINE T == {i \in Nat : i <= MaxBlocks => at[i] \in S /\ (i < n => at[i] = s[i + 1])}
  <2>1. 0 \in T BY <1>2, <1>3, <1>7
  <2>2. ASSUME NEW i \in Nat, i \in T PROVE i + 1 \in T
    <3>1. CASE i + 1 > MaxBlocks BY <1>1, <3>1
    <3>2. CASE i + 1 <= MaxBlocks
      <4>1. at[i + 1] = h.mem[at[i] + 1] BY <1>1, <1>7, <3>2
      <4>2. at[i] \in S /\ (i < n => at[i] = s[i + 1]) BY <1>1, <2>2, <3>2
      <4>3. at[i + 1] \in S BY <1>4, <4>1, <4>2
      <4>4. i + 1 < n => at[i + 1] = s[i + 2] BY <1>2, <4>1, <4>2
      <4> QED BY <4>3, <4>4
    <3> QED BY <1>1, <3>1, <3>2
  <2> HIDE DEF T
  <2>3. \A i \in Nat : i \in T BY <2>1, <2>2, SetInduction
  <2> QED BY <2>3 DEF T
<1> QED BY <1>1, <1>7, <1>8

\* find_fit finds a listed block that is large enough.
LEMMA FitIsListed ==
  ASSUME NEW h \in Heap, NEW F, Listed(h, F), Spread(F), NEW size \in Int,
         NEW b \in find_fit(h, size)
  PROVE  b \in F /\ Size(h, b) >= size
<1>1. PICK c \in Classes : b \in FitsIn(h, c, size)
  <2> DEFINE classes == {c \in find_index(size) .. CLASSNUM - 1 : FitsIn(h, c, size) # {}}
  <2>1. find_index(size) \in Classes BY ClassFacts
  <2>2. classes \in SUBSET Nat /\ classes \subseteq Classes BY <2>1 DEF Classes, CLASSNUM
  <2>3. find_fit(h, size) = IF classes = {} THEN {} ELSE FitsIn(h, Min(classes), size)
    BY DEF find_fit
  <2> HIDE DEF classes
  <2>4. classes # {} BY <2>3
  <2>5. \E m \in classes : \A n \in classes : m <= n BY <2>2, <2>4, LeastElement
  <2>6. Min(classes) \in classes BY <2>5 DEF Min
  <2> QED BY <2>2, <2>3, <2>4, <2>6
<1>2. PICK i \in Round(h, h.seg[c]) : b = OnList(h, h.seg[c])[i] /\ Size(h, b) >= size
  BY <1>1 DEF FitsIn
<1>3. PICK n \in Nat : \E s \in [1 .. n -> Address] : Circle(h, h.seg[c], n, s, Cls(h, F, c))
  BY DEF Listed, CircleOf
<1>4. PICK s \in [1 .. n -> Address] : Circle(h, h.seg[c], n, s, Cls(h, F, c)) BY <1>3
<1>5. h.seg[c] # NULL /\ i \in 0 .. MaxBlocks BY <1>2 DEF Round
<1>6. n > 0 BY <1>4, <1>5 DEF Circle
<1>7. b \in Cls(h, F, c) BY <1>2, <1>4, <1>5, <1>6, OnListFacts
<1> QED BY <1>2, <1>7 DEF Cls

-----------------------------------------------------------------------------
(* Blocks *)

\* The block at b, by its tags, among the blocks and the end E.
Good(h, E, b) ==
    /\ Size(h, b) >= 16 /\ NextBlock(h, b) \in E
    /\ \A e \in E : e <= b \/ e >= NextBlock(h, b)
    /\ PrevAlloc(h, NextBlock(h, b)) = Alloc(h, b)
    /\ Alloc(h, b) = 0 => SizeIn(h.mem[NextBlock(h, b) - 2]) = Size(h, b)

\* The blocks of the heap start at the addresses in E; the last of these is its end.
Tags(h, E) ==
    /\ h \in Heap /\ E \subseteq 4 .. h.brk /\ 4 \in E /\ h.brk \in E
    /\ PrevAlloc(h, 4) = 1 /\ Size(h, h.brk) = 0 /\ Alloc(h, h.brk) = 1
    /\ \A b \in E \ {h.brk} : Good(h, E, b)

FreeIn(h, E)  == {b \in E : Alloc(h, b) = 0}
AllocIn(h, E) == {b \in E \ {h.brk} : Alloc(h, b) = 1}

\* Of two neighbours one is allocated, but for those in X.
Coal(h, E, X) ==
    \A b \in E \ {h.brk} :
        Alloc(h, b) = 0 /\ Alloc(h, NextBlock(h, b)) = 0 => b \in X \/ NextBlock(h, b) \in X

LEMMA EndFacts ==
  ASSUME NEW h, NEW E, Tags(h, E), NEW b \in E
  PROVE  /\ b \in 4 .. Top /\ b \in 1 .. Top /\ b <= h.brk /\ h.brk \in 4 .. Top
         /\ Size(h, b) \in Int /\ Size(h, b) % 8 = 0
         /\ NextBlock(h, b) \in Int /\ 4 * (NextBlock(h, b) - b) = Size(h, b)
         /\ Alloc(h, b) \in Bit /\ PrevAlloc(h, b) \in Bit
<1>1. h \in Heap /\ h.brk \in 0 .. Top /\ Top \in Nat BY TopFacts, HeapFields DEF Tags
<1>2. b \in 4 .. h.brk /\ 4 \in 4 .. h.brk BY DEF Tags
<1>3. b \in 4 .. Top /\ b \in 1 .. Top BY <1>1, <1>2
<1>4. /\ Size(h, b) \in Int /\ Size(h, b) % 8 = 0 /\ 4 * (Size(h, b) \div 4) = Size(h, b)
      /\ Alloc(h, b) \in Bit /\ PrevAlloc(h, b) \in Bit
  BY <1>1, <1>3, TagFacts
<1> QED BY <1>1, <1>2, <1>3, <1>4 DEF NextBlock

LEMMA BlockFacts ==
  ASSUME NEW h, NEW E, Tags(h, E), NEW b \in E, b # h.brk
  PROVE  /\ Good(h, E, b) /\ NextBlock(h, b) \in E
         /\ b + 4 <= NextBlock(h, b) /\ NextBlock(h, b) <= h.brk
<1>1. Good(h, E, b) BY DEF Tags
<1>2. NextBlock(h, b) \in E /\ Size(h, b) >= 16 BY <1>1 DEF Good
<1> QED BY <1>1, <1>2, EndFacts

\* No two blocks overlap.
LEMMA Apart ==
  ASSUME NEW h, NEW E, Tags(h, E), NEW b \in E, NEW e \in E, b < e
  PROVE  b # h.brk /\ NextBlock(h, b) <= e /\ b + 4 <= e
<1>1. b \in Int /\ e \in Int /\ e <= h.brk /\ h.brk \in Int BY EndFacts
<1>2. b # h.brk BY <1>1
<1>3. e <= b \/ e >= NextBlock(h, b) BY <1>2, BlockFacts DEF Good
<1> QED BY <1>1, <1>2, <1>3, BlockFacts, EndFacts

LEMMA FreeSpread ==
  ASSUME NEW h, NEW E, Tags(h, E), NEW F, F \subseteq FreeIn(h, E)
  PROVE  Spread(F)
<1>1. ASSUME NEW b \in F PROVE b \in E /\ b \in 4 .. Top - 2
  <2>1. b \in E /\ Alloc(h, b) = 0 BY DEF FreeIn
  <2>2. b # h.brk BY <2>1 DEF Tags
  <2>3. b + 4 <= NextBlock(h, b) /\ NextBlock(h, b) <= h.brk BY <2>1, <2>2, BlockFacts
  <2>4. b \in 4 .. Top /\ h.brk \in 4 .. Top /\ NextBlock(h, b) \in Int BY <2>1, EndFacts
  <2> QED BY <2>1, <2>3, <2>4, TopFacts
<1>2. ASSUME NEW b \in F, NEW c \in F PROVE b = c \/ b + 4 <= c \/ c + 4 <= b
  <2>1. b \in E /\ c \in E /\ b \in Int /\ c \in Int BY <1>1
  <2>2. b < c => b + 4 <= c BY <2>1, Apart
  <2>3. c < b => c + 4 <= b BY <2>1, Apart
  <2> QED BY <2>1, <2>2, <2>3
<1> QED BY <1>1, <1>2 DEF Spread

\* A block but the first one comes after another.
LEMMA Predecessor ==
  ASSUME NEW h, NEW E, Tags(h, E), NEW b \in E, b # 4
  PROVE  \E p \in E : p # h.brk /\ NextBlock(h, p) = b
<1> DEFINE S == {e \in E : e < b}
<1>1. S \in SUBSET (0 .. Top) /\ Top \in Nat BY EndFacts, TopFacts
<1>2. S # {}
  <2>1. 4 \in E /\ 4 < b BY EndFacts DEF Tags
  <2> QED BY <2>1
<1> HIDE DEF S
<1>3. PICK p \in S : \A n \in S : n <= p BY <1>1, <1>2, GreatestElement
<1>4. p \in E /\ p < b BY DEF S
<1>5. p # h.brk /\ NextBlock(h, p) <= b /\ NextBlock(h, p) \in E /\ p + 4 <= NextBlock(h, p)
  BY <1>4, Apart, BlockFacts
<1>6. NextBlock(h, p) < b => NextBlock(h, p) <= p BY <1>3, <1>5 DEF S
<1> QED BY <1>4, <1>5, <1>6, EndFacts

\* A header that says so finds the free block before.
LEMMA FreeBefore ==
  ASSUME NEW h, NEW E, Tags(h, E), NEW b \in E, PrevAlloc(h, b) # 1
  PROVE  /\ b # 4 /\ PrevAlloc(h, b) = 0
         /\ PrevBlock(h, b) \in FreeIn(h, E) /\ PrevBlock(h, b) # h.brk
         /\ NextBlock(h, PrevBlock(h, b)) = b /\ PrevBlock(h, b) + 4 <= b
         /\ SizeIn(h.mem[b - 2]) = Size(h, PrevBlock(h, b))
<1>1. b # 4 BY DEF Tags
<1>2. PICK p \in E : p # h.brk /\ NextBlock(h, p) = b BY <1>1, Predecessor
<1>3. Good(h, E, p) BY <1>2, BlockFacts
<1>4. PrevAlloc(h, b) = 0 BY EndFacts DEF Bit
<1>5. Alloc(h, p) = 0 BY <1>2, <1>3, <1>4 DEF Good
<1>6. SizeIn(h.mem[b - 2]) = Size(h, p) BY <1>2, <1>3, <1>5 DEF Good
<1>7. 4 * (b - p) = Size(h, p) /\ b \in Int /\ p \in Int /\ p + 4 <= b BY <1>2, EndFacts, BlockFacts
<1>8. PrevBlock(h, b) = p
  <2>1. Size(h, p) \div 4 = b - p BY <1>7
  <2> QED BY <1>6, <1>7, <2>1 DEF PrevBlock
<1> QED BY <1>1, <1>2, <1>4, <1>5, <1>6, <1>7, <1>8 DEF FreeIn

\* The payloads of the blocks in K are kept.
Keeps(h, g, K) ==
    \A b \in K : /\ Size(g, b) = Size(h, b)
                 /\ \A x \in b .. NextBlock(h, b) - 2 : g.mem[x] = h.mem[x]

LEMMA KeepsTrans ==
  ASSUME NEW h, NEW g, NEW f, NEW K, Keeps(h, g, K), NEW L, L \subseteq K, Keeps(g, f, L)
  PROVE  Keeps(h, f, L)
<1>1. ASSUME NEW b \in L
      PROVE  Size(f, b) = Size(h, b) /\ \A x \in b .. NextBlock(h, b) - 2 : f.mem[x] = h.mem[x]
  <2>1. Size(g, b) = Size(h, b) /\ NextBlock(g, b) = NextBlock(h, b) BY DEF Keeps, NextBlock
  <2> QED BY <2>1 DEF Keeps
<1> QED BY <1>1 DEF Keeps

\* g has the tags of h.
SameTags(h, g, E) ==
    /\ g \in Heap /\ g.brk = h.brk
    /\ \A e \in E : /\ g.mem[e - 1] = h.mem[e - 1]
                    /\ PrevAlloc(h, e) = 0 => g.mem[e - 2] = h.mem[e - 2]

LEMMA SameTagsFacts ==
  ASSUME NEW h, NEW E, Tags(h, E), NEW g, SameTags(h, g, E)
  PROVE  /\ Tags(g, E) /\ FreeIn(g, E) = FreeIn(h, E) /\ AllocIn(g, E) = AllocIn(h, E)
         /\ \A e \in E : /\ Size(g, e) = Size(h, e) /\ Alloc(g, e) = Alloc(h, e)
                         /\ PrevAlloc(g, e) = PrevAlloc(h, e)
                         /\ NextBlock(g, e) = NextBlock(h, e)
         /\ \A X : Coal(h, E, X) => Coal(g, E, X)
<1>1. \A e \in E : /\ Size(g, e) = Size(h, e) /\ Alloc(g, e) = Alloc(h, e)
                   /\ PrevAlloc(g, e) = PrevAlloc(h, e) /\ NextBlock(g, e) = NextBlock(h, e)
  BY DEF SameTags, Size, Alloc, PrevAlloc, NextBlock
<1>2. g.brk = h.brk /\ g \in Heap /\ 4 \in E /\ h.brk \in E BY DEF SameTags, Tags
<1>3. ASSUME NEW b \in E \ {h.brk} PROVE Good(g, E, b)
  <2>1. Good(h, E, b) BY DEF Tags
  <2>2. NextBlock(g, b) = NextBlock(h, b) /\ NextBlock(h, b) \in E BY <1>1, <2>1 DEF Good
  <2>3. Alloc(h, b) = 0 => g.mem[NextBlock(h, b) - 2] = h.mem[NextBlock(h, b) - 2]
    BY <2>1, <2>2 DEF SameTags, Good
  <2> QED BY <1>1, <2>1, <2>2, <2>3 DEF Good
<1>4. Tags(g, E) BY <1>1, <1>2, <1>3 DEF Tags
<1>5. \A X : Coal(h, E, X) => Coal(g, E, X)
  <2>1. \A e \in E \ {h.brk} : NextBlock(h, e) \in E BY BlockFacts
  <2> QED BY <1>1, <1>2, <2>1 DEF Coal
<1> QED BY <1>1, <1>2, <1>4, <1>5 DEF FreeIn, AllocIn

\* Links are no tags, and no part of an allocated block.
LEMMA LinkedTags ==
  ASSUME NEW h, NEW E, Tags(h, E), NEW F, F \subseteq FreeIn(h, E), NEW g, Linked(h, g, F)
  PROVE  SameTags(h, g, E) /\ Keeps(h, g, AllocIn(h, E))
<1>1. \A f \in F : f \in E /\ Alloc(h, f) = 0 /\ f # h.brk BY DEF FreeIn, Tags
<1>2. \A x \in Address : (\A f \in F : x # f /\ x # f + 1) => g.mem[x] = h.mem[x] BY DEF Linked
<1>3. Address = 0 .. Top /\ Top \in Nat BY TopFacts
<1>4. ASSUME NEW e \in E
      PROVE  /\ g.mem[e - 1] = h.mem[e - 1]
             /\ PrevAlloc(h, e) = 0 => g.mem[e - 2] = h.mem[e - 2]
  <2>1. e \in 4 .. Top BY EndFacts
  <2>2. ASSUME NEW f \in F PROVE e - 1 # f /\ e - 1 # f + 1 /\ e - 2 # f /\ e - 2 # f + 1
    <3>1. f \in E /\ f \in Int BY <1>1, EndFacts
    <3>2. f < e => f + 4 <= e BY <3>1, Apart
    <3> QED BY <2>1, <3>1, <3>2
  <2>3. e - 1 \in Address /\ e - 2 \in Address BY <1>3, <2>1
  <2> QED BY <1>2, <2>2, <2>3
<1>5. ASSUME NEW b \in AllocIn(h, E), NEW x \in b .. NextBlock(h, b) - 2
      PROVE  g.mem[x] = h.mem[x]
  <2>1. b \in E /\ b # h.brk /\ Alloc(h, b) = 1 BY DEF AllocIn
  <2>2. NextBlock(h, b) \in 4 .. Top /\ b \in 4 .. Top BY <2>1, BlockFacts, EndFacts
  <2>3. ASSUME NEW f \in F PROVE x # f /\ x # f + 1
    <3>1. f \in E /\ f \in Int /\ f # b BY <1>1, <2>1, EndFacts
    <3>2. f < b => f + 4 <= b BY <2>1, <3>1, Apart
    <3>3. f > b => NextBlock(h, b) <= f BY <2>1, <2>2, <3>1, Apart
    <3> QED BY <2>2, <3>1, <3>2, <3>3
  <2>4. x \in Address BY <1>3, <2>2
  <2> QED BY <1>2, <2>3, <2>4
<1>6. \A b \in AllocIn(h, E) : Size(g, b) = Size(h, b) BY <1>4 DEF AllocIn, Size
<1> QED BY <1>4, <1>5, <1>6 DEF SameTags, Keeps, Linked

-----------------------------------------------------------------------------
(* Space cut anew *)

\* The space from a to z, or to z2 if the heap has grown, becomes one block, or two that
\* meet at m.
Pieces(E, a, m, z, z2) == {e \in E : e <= a \/ e > z} \cup {m, z2}

\* A block from b to e.
Piece(g, b, e) ==
    /\ Size(g, b) = 4 * (e - b) /\ e - b >= 4
    /\ PrevAlloc(g, e) = Alloc(g, b)
    /\ Alloc(g, b) = 0 => SizeIn(g.mem[e - 2]) = Size(g, b)

Foot(h, z) == NextBlock(h, z) - 2

\* Outside nothing changes but the header of the next block and its footer.
Outside(h, g, a, z, z2) ==
    /\ PrevAlloc(g, a) = PrevAlloc(h, a)
    /\ Size(g, z2) = Size(h, z) /\ Alloc(g, z2) = Alloc(h, z)
    /\ \A x \in Address : x < a - 1 \/ x >= z2 =>
            \/ g.mem[x] = h.mem[x]
            \/ Alloc(h, z) = 0 /\ x = Foot(h, z) /\ SizeIn(g.mem[x]) = SizeIn(h.mem[x])

Recut(h, E, g, a, m, z, z2) ==
    /\ Tags(h, E) /\ a \in E /\ z \in E /\ g \in Heap
    /\ \/ a < z /\ z2 = z /\ g.brk = h.brk
       \/ a <= z /\ z = h.brk /\ z < z2 /\ z2 = g.brk
    /\ m \in Int /\ (m = a \/ (a < m /\ Piece(g, a, m))) /\ Piece(g, m, z2)
    /\ Outside(h, g, a, z, z2) /\ g.seg = h.seg

\* The block at e is what it was.
Remains(h, g, e) ==
    /\ Size(g, e) = Size(h, e) /\ Alloc(g, e) = Alloc(h, e)
    /\ NextBlock(g, e) = NextBlock(h, e)
    /\ \A x \in e .. NextBlock(h, e) - 3 : g.mem[x] = h.mem[x]
    /\ Alloc(h, e) = 1 => g.mem[NextBlock(h, e) - 2] = h.mem[NextBlock(h, e) - 2]
    /\ SizeIn(g.mem[NextBlock(h, e) - 2]) = SizeIn(h.mem[NextBlock(h, e) - 2])

LEMMA RecutOutside ==
  ASSUME NEW h, NEW E, NEW g, NEW a, NEW m, NEW z, NEW z2, Recut(h, E, g, a, m, z, z2)
  PROVE  /\ a \in 4 .. Top /\ z \in 4 .. Top /\ z2 \in 4 .. Top /\ a <= z /\ z <= z2 /\ a < z2
         /\ z # h.brk => z2 = z /\ g.brk = h.brk
         /\ \A e \in E : e < a \/ e > z =>
                g.mem[e - 1] = h.mem[e - 1] /\ PrevAlloc(g, e) = PrevAlloc(h, e)
         /\ \A e \in E : e < a \/ (e >= z /\ e # h.brk) => Remains(h, g, e)
<1>1. Tags(h, E) /\ a \in E /\ z \in E /\ g \in Heap BY DEF Recut
<1>2. h.brk \in E /\ Alloc(h, h.brk) = 1 BY <1>1 DEF Tags
<1>3. a \in 4 .. Top /\ z \in 4 .. Top /\ h.brk \in 4 .. Top /\ z <= h.brk BY <1>1, EndFacts
<1>4. Top \in Nat /\ Address = 0 .. Top /\ g.brk \in 0 .. Top BY <1>1, TopFacts, HeapFields
<1>5. /\ z2 \in 4 .. Top /\ a <= z /\ z <= z2 /\ a < z2
      /\ z # h.brk => z2 = z /\ g.brk = h.brk
  BY <1>3, <1>4 DEF Recut
<1>6. Outside(h, g, a, z, z2) BY DEF Recut
<1>7. CASE z # h.brk
  <2>1. Foot(h, z) \in Int /\ Foot(h, z) >= z + 2 /\ Foot(h, z) <= h.brk - 2 /\ z2 = z
    BY <1>1, <1>3, <1>5, <1>7, BlockFacts, EndFacts DEF Foot
  <2>2. \A x \in Address : x < a - 1 => g.mem[x] = h.mem[x]
    BY <1>3, <1>4, <1>5, <1>6, <2>1 DEF Outside
  <2>3. \A x \in Address : x >= z /\ x # Foot(h, z) => g.mem[x] = h.mem[x]
    BY <1>6, <2>1 DEF Outside
  <2>4. Alloc(h, z) = 1 => g.mem[Foot(h, z)] = h.mem[Foot(h, z)]
    <3>1. Foot(h, z) \in Address BY <1>3, <1>4, <2>1
    <3> QED BY <1>3, <1>6, <2>1, <3>1 DEF Outside
  <2>5. SizeIn(g.mem[Foot(h, z)]) = SizeIn(h.mem[Foot(h, z)])
    <3>1. Foot(h, z) \in Address BY <1>3, <1>4, <2>1
    <3> QED BY <1>3, <1>6, <2>1, <3>1 DEF Outside
  <2>6. ASSUME NEW e \in E, e < a \/ e > z
        PROVE  g.mem[e - 1] = h.mem[e - 1] /\ PrevAlloc(g, e) = PrevAlloc(h, e)
    <3>1. e \in 4 .. Top BY <1>1, EndFacts
    <3>2. e > z => e >= NextBlock(h, z) BY <1>1, <1>7, <1>3, Apart, <3>1
    <3>3. e - 1 \in Address /\ e - 1 # Foot(h, z)
      <4>1. NextBlock(h, z) \in Int BY <1>1, EndFacts
      <4> QED BY <1>3, <1>4, <2>1, <2>6, <3>1, <3>2, <4>1 DEF Foot
    <3>4. g.mem[e - 1] = h.mem[e - 1] BY <1>3, <2>2, <2>3, <2>6, <3>1, <3>3
    <3> QED BY <3>4 DEF PrevAlloc
  <2>7. ASSUME NEW e \in E, e < a \/ (e >= z /\ e # h.brk) PROVE Remains(h, g, e)
    <3>1. e \in 4 .. Top /\ e # h.brk BY <1>1, <1>3, <2>7, EndFacts
    <3>2. NextBlock(h, e) \in Int /\ e + 4 <= NextBlock(h, e) /\ NextBlock(h, e) <= Top
      BY <1>1, <1>3, <3>1, BlockFacts, EndFacts
    <3>3. Size(g, e) = Size(h, e) /\ Alloc(g, e) = Alloc(h, e)
      <4>1. CASE e = z BY <1>6, <2>1, <4>1 DEF Outside
      <4>2. CASE e # z
        <5>1. e < a \/ e > z BY <1>3, <2>7, <3>1, <4>2
        <5>2. g.mem[e - 1] = h.mem[e - 1] BY <2>6, <5>1
        <5> QED BY <5>2 DEF Size, Alloc
      <4> QED BY <4>1, <4>2
    <3>4. ASSUME NEW x \in e .. NextBlock(h, e) - 2, x # Foot(h, z) PROVE g.mem[x] = h.mem[x]
      <4>1. e < a => NextBlock(h, e) <= a BY <1>1, <1>3, <3>1, Apart
      <4>2. x \in Address BY <1>4, <3>1, <3>2
      <4> QED BY <1>3, <2>2, <2>3, <2>7, <3>1, <3>2, <3>4, <4>1, <4>2
    <3>5. \A x \in e .. NextBlock(h, e) - 3 : x # Foot(h, z)
      <4>1. CASE e = z BY <2>1, <3>1, <3>2, <4>1 DEF Foot
      <4>2. CASE e > z
        <5>1. e >= NextBlock(h, z) /\ NextBlock(h, z) \in Int
          BY <1>1, <1>7, <1>3, Apart, EndFacts, <3>1, <4>2
        <5> QED BY <3>1, <3>2, <5>1 DEF Foot
      <4>3. CASE e < a
        <5>1. NextBlock(h, e) <= a BY <1>1, <1>3, <3>1, <4>3, Apart
        <5> QED BY <1>3, <1>5, <2>1, <3>1, <3>2, <5>1
      <4> QED BY <1>3, <2>7, <3>1, <4>1, <4>2, <4>3
    <3>6. /\ Alloc(h, e) = 1 => g.mem[NextBlock(h, e) - 2] = h.mem[NextBlock(h, e) - 2]
          /\ SizeIn(g.mem[NextBlock(h, e) - 2]) = SizeIn(h.mem[NextBlock(h, e) - 2])
      <4>1. CASE NextBlock(h, e) - 2 # Foot(h, z)
        <5>1. NextBlock(h, e) - 2 \in e .. NextBlock(h, e) - 2 BY <3>1, <3>2
        <5> QED BY <3>4, <4>1, <5>1
      <4>2. CASE NextBlock(h, e) - 2 = Foot(h, z)
        <5>1. e = z
          <6>1. NextBlock(h, e) = NextBlock(h, z) /\ z + 4 <= NextBlock(h, z)
            BY <1>1, <1>3, <1>7, <3>1, <3>2, <4>2, EndFacts, BlockFacts DEF Foot
          <6>2. e < z => NextBlock(h, e) <= z BY <1>1, <1>3, <3>1, Apart
          <6>3. z < e => NextBlock(h, z) <= e BY <1>1, <1>3, <3>1, Apart
          <6> QED BY <1>3, <3>1, <3>2, <6>1, <6>2, <6>3
        <5> QED BY <2>4, <2>5, <4>2, <5>1
      <4> QED BY <4>1, <4>2
    <3>7. NextBlock(g, e) = NextBlock(h, e) BY <3>3 DEF NextBlock
    <3>8. \A x \in e .. NextBlock(h, e) - 3 : x \in e .. NextBlock(h, e) - 2 BY <3>1, <3>2
    <3> QED BY <3>3, <3>4, <3>5, <3>6, <3>7, <3>8 DEF Remains
  <2> QED BY <1>3, <1>5, <2>6, <2>7
<1>8. CASE z = h.brk
  <2>1. \A x \in Address : x < a - 1 => g.mem[x] = h.mem[x]
    BY <1>2, <1>6, <1>8 DEF Outside
  <2>2. ASSUME NEW e \in E, e < a \/ e > z
        PROVE  g.mem[e - 1] = h.mem[e - 1] /\ PrevAlloc(g, e) = PrevAlloc(h, e)
    <3>1. e \in 4 .. Top /\ e <= h.brk BY <1>1, EndFacts
    <3>2. e - 1 \in Address /\ e - 1 < a - 1 BY <1>3, <1>4, <1>8, <2>2, <3>1
    <3>3. g.mem[e - 1] = h.mem[e - 1] BY <2>1, <3>2
    <3> QED BY <3>3 DEF PrevAlloc
  <2>3. ASSUME NEW e \in E, e < a \/ (e >= z /\ e # h.brk) PROVE Remains(h, g, e)
    <3>1. e \in 4 .. Top /\ e <= h.brk BY <1>1, EndFacts
    <3>2. e < a BY <1>3, <1>8, <2>3, <3>1
    <3>3. e # h.brk /\ NextBlock(h, e) <= a BY <1>1, <3>2, Apart
    <3>4. NextBlock(h, e) \in Int /\ e + 4 <= NextBlock(h, e) BY <1>1, <3>3, BlockFacts, EndFacts
    <3>5. \A x \in e .. NextBlock(h, e) - 2 : x \in Address /\ x < a - 1
      BY <1>3, <1>4, <3>1, <3>3, <3>4
    <3>6. g.mem[e - 1] = h.mem[e - 1] BY <2>2, <3>2
    <3>7. Size(g, e) = Size(h, e) /\ Alloc(g, e) = Alloc(h, e) /\ NextBlock(g, e) = NextBlock(h, e)
      BY <3>6 DEF Size, Alloc, NextBlock
    <3>8. \A x \in e .. NextBlock(h, e) - 2 : g.mem[x] = h.mem[x] BY <2>1, <3>5
    <3>9. /\ NextBlock(h, e) - 2 \in e .. NextBlock(h, e) - 2
          /\ \A x \in e .. NextBlock(h, e) - 3 : x \in e .. NextBlock(h, e) - 2
      BY <3>1, <3>4
    <3> QED BY <3>7, <3>8, <3>9 DEF Remains
  <2> QED BY <1>3, <1>5, <1>8, <2>2, <2>3
<1> QED BY <1>7, <1>8

LEMMA PieceFacts ==
  ASSUME NEW g, NEW b \in Int, NEW e \in Int, Piece(g, b, e)
  PROVE  NextBlock(g, b) = e /\ Size(g, b) >= 16 /\ b + 4 <= e
<1>1. Size(g, b) = 4 * (e - b) /\ e - b >= 4 BY DEF Piece
<1>2. Size(g, b) \div 4 = e - b BY <1>1
<1> QED BY <1>1, <1>2 DEF NextBlock

LEMMA PiecesOrder ==
  ASSUME NEW h, NEW E, NEW g, NEW a, NEW m, NEW z, NEW z2, Recut(h, E, g, a, m, z, z2)
  PROVE  /\ m \in 4 .. Top /\ a <= m /\ m + 4 <= z2 /\ (m = a \/ a + 4 <= m)
         /\ z2 <= g.brk /\ g.brk \in 4 .. Top /\ g.brk \in Pieces(E, a, m, z, z2)
         /\ a \in Pieces(E, a, m, z, z2) /\ 4 \in Pieces(E, a, m, z, z2)
         /\ \A e \in Pieces(E, a, m, z, z2) :
                \/ e \in E /\ e < a
                \/ e = a \/ e = m \/ e = z2
                \/ e \in E /\ e > z /\ z2 = z /\ z # h.brk
<1>1. Tags(h, E) /\ a \in E /\ z \in E /\ g \in Heap BY DEF Recut
<1>2. /\ a \in 4 .. Top /\ z \in 4 .. Top /\ z2 \in 4 .. Top /\ a <= z /\ z <= z2 /\ a < z2
      /\ z # h.brk => z2 = z /\ g.brk = h.brk
  BY RecutOutside
<1>3. h.brk \in 4 .. Top /\ z <= h.brk /\ 4 \in E /\ h.brk \in E BY <1>1, EndFacts DEF Tags
<1>4. m \in Int /\ (m = a \/ (a < m /\ Piece(g, a, m))) /\ Piece(g, m, z2) BY DEF Recut
<1>5. m + 4 <= z2 BY <1>2, <1>4, PieceFacts
<1>6. m = a \/ a + 4 <= m BY <1>2, <1>4, PieceFacts
<1>7. g.brk \in Int /\ Top \in Int BY <1>1, TopFacts, HeapFields
<1>8. z = h.brk => z2 = g.brk BY DEF Recut
<1>9. z2 <= g.brk /\ g.brk \in 4 .. Top BY <1>2, <1>3, <1>7, <1>8
<1>10. g.brk \in Pieces(E, a, m, z, z2)
  <2>1. CASE z = h.brk BY <1>8, <2>1 DEF Pieces
  <2>2. CASE z # h.brk BY <1>2, <1>3, <2>2 DEF Pieces
  <2> QED BY <2>1, <2>2
<1>11. a \in Pieces(E, a, m, z, z2) /\ 4 \in Pieces(E, a, m, z, z2)
  BY <1>1, <1>2, <1>3 DEF Pieces
<1>12. ASSUME NEW e \in Pieces(E, a, m, z, z2)
       PROVE  \/ e \in E /\ e < a
              \/ e = a \/ e = m \/ e = z2
              \/ e \in E /\ e > z /\ z2 = z /\ z # h.brk
  <2>1. CASE e \in {m, z2} BY <2>1
  <2>2. CASE e \in E /\ e <= a
    <3>1. e \in Int BY <1>1, <2>2, EndFacts
    <3> QED BY <1>2, <2>2, <3>1
  <2>3. CASE e \in E /\ e > z
    <3>1. e <= h.brk /\ e \in Int BY <1>1, <2>3, EndFacts
    <3>2. z # h.brk BY <1>2, <2>3, <3>1
    <3> QED BY <1>2, <2>3, <3>2
  <2> QED BY <2>1, <2>2, <2>3 DEF Pieces
<1>13. m \in 4 .. Top /\ a <= m BY <1>2, <1>4, <1>5, <1>6, <1>7
<1> QED BY <1>5, <1>6, <1>9, <1>10, <1>11, <1>12, <1>13

LEMMA RecutTags ==
  ASSUME NEW h, NEW E, NEW g, NEW a, NEW m, NEW z, NEW z2, Recut(h, E, g, a, m, z, z2)
  PROVE  Tags(g, Pieces(E, a, m, z, z2))
<1> DEFINE E2 == Pieces(E, a, m, z, z2)
<1>1. Tags(h, E) /\ a \in E /\ z \in E /\ g \in Heap BY DEF Recut
<1>2. /\ a \in 4 .. Top /\ z \in 4 .. Top /\ z2 \in 4 .. Top /\ a <= z /\ z <= z2 /\ a < z2
      /\ z # h.brk => z2 = z /\ g.brk = h.brk
  BY RecutOutside
<1>3. /\ \A e \in E : e < a \/ e > z =>
            g.mem[e - 1] = h.mem[e - 1] /\ PrevAlloc(g, e) = PrevAlloc(h, e)
      /\ \A e \in E : e < a \/ (e >= z /\ e # h.brk) => Remains(h, g, e)
  BY RecutOutside
<1>4. /\ m \in 4 .. Top /\ a <= m /\ m + 4 <= z2 /\ (m = a \/ a + 4 <= m)
      /\ z2 <= g.brk /\ g.brk \in 4 .. Top /\ g.brk \in E2 /\ a \in E2 /\ 4 \in E2
  BY PiecesOrder
<1>5. \A e \in E2 : \/ e \in E /\ e < a
                    \/ e = a \/ e = m \/ e = z2
                    \/ e \in E /\ e > z /\ z2 = z /\ z # h.brk
  BY PiecesOrder
<1>6. \A e \in E : e \in 4 .. Top /\ e <= h.brk /\ h.brk \in 4 .. Top BY <1>1, EndFacts
<1>7. m \in E2 /\ z2 \in E2 /\ \A e \in E : e <= a \/ e > z => e \in E2 BY DEF Pieces
<1>8. Outside(h, g, a, z, z2) BY DEF Recut
<1>9. (m = a \/ (a < m /\ Piece(g, a, m))) /\ Piece(g, m, z2) BY DEF Recut
<1>10. z = h.brk => z2 = g.brk BY DEF Recut
<1>11. 4 \in E /\ h.brk \in E BY <1>1 DEF Tags
<1> HIDE DEF E2
<1>12. E2 \subseteq 4 .. g.brk
  <2>1. ASSUME NEW e \in E2 PROVE e \in 4 .. g.brk
    BY <1>2, <1>4, <1>5, <1>6, <2>1
  <2> QED BY <2>1
<1>13. PrevAlloc(g, 4) = 1
  <2>1. PrevAlloc(h, 4) = 1 BY <1>1 DEF Tags
  <2>2. CASE a = 4 BY <1>8, <2>1, <2>2 DEF Outside
  <2>3. CASE a # 4
    <3>1. 4 < a BY <1>2, <2>3
    <3> QED BY <1>3, <1>11, <2>1, <3>1
  <2> QED BY <2>2, <2>3
<1>14. Size(g, g.brk) = 0 /\ Alloc(g, g.brk) = 1
  <2>1. Size(h, h.brk) = 0 /\ Alloc(h, h.brk) = 1 BY <1>1 DEF Tags
  <2>2. CASE z = h.brk BY <1>8, <1>10, <2>1, <2>2 DEF Outside
  <2>3. CASE z # h.brk
    <3>1. g.brk = h.brk /\ h.brk > z BY <1>1, <1>2, <1>6, <2>3
    <3>2. g.mem[g.brk - 1] = h.mem[h.brk - 1] BY <1>3, <1>11, <3>1
    <3> QED BY <2>1, <3>1, <3>2 DEF Size, Alloc
  <2> QED BY <2>2, <2>3
<1>15. ASSUME NEW b \in E, b < a \/ (b >= z /\ b # h.brk) PROVE Good(g, E2, b)
  <2>1. b \in 4 .. Top /\ b # h.brk /\ h.brk \in 4 .. Top /\ z <= h.brk BY <1>1, <1>2, <1>6, <1>15
  <2>2. Remains(h, g, b) BY <1>3, <1>15
  <2>3. Good(h, E, b) /\ NextBlock(h, b) \in E /\ b + 4 <= NextBlock(h, b)
    BY <1>1, <2>1, BlockFacts
  <2>4. b < a => NextBlock(h, b) <= a BY <1>1, Apart
  <2>5. NextBlock(h, b) \in 4 .. Top BY <1>6, <2>3
  <2>6. NextBlock(h, b) \in E2
    <3>1. NextBlock(h, b) <= a \/ NextBlock(h, b) > z BY <1>2, <1>15, <2>1, <2>3, <2>4, <2>5
    <3> QED BY <1>7, <2>3, <3>1
  <2>7. ASSUME NEW e \in E2 PROVE e <= b \/ e >= NextBlock(h, b)
    <3>1. CASE e \in E BY <2>3, <3>1 DEF Good
    <3>2. CASE e \notin E
      <4>1. e = m \/ e = z2 BY <1>1, <1>5, <3>2
      <4>2. CASE b < a BY <1>2, <1>4, <2>1, <2>4, <2>5, <4>1, <4>2
      <4>3. CASE b >= z
        <5>1. z # h.brk BY <1>15, <2>1, <4>3, <1>2, <1>6
        <5>2. e <= z BY <1>2, <1>4, <4>1, <5>1
        <5> QED BY <1>2, <1>4, <2>1, <4>1, <4>3, <5>2
      <4> QED BY <1>15, <4>2, <4>3
    <3> QED BY <3>1, <3>2
  <2>8. PrevAlloc(g, NextBlock(h, b)) = PrevAlloc(h, NextBlock(h, b))
    <3>1. CASE NextBlock(h, b) = a BY <1>8, <3>1 DEF Outside
    <3>2. CASE NextBlock(h, b) # a
      <4>1. NextBlock(h, b) < a \/ NextBlock(h, b) > z
        BY <1>2, <1>15, <2>1, <2>3, <2>4, <2>5, <3>2
      <4> QED BY <1>3, <2>3, <4>1
    <3> QED BY <3>1, <3>2
  <2> QED BY <2>2, <2>3, <2>6, <2>7, <2>8 DEF Good, Remains
<1>16. ASSUME m # a PROVE Good(g, E2, a)
  <2>1. Piece(g, a, m) /\ a \in Int /\ m \in Int BY <1>2, <1>4, <1>9, <1>16
  <2>2. NextBlock(g, a) = m /\ Size(g, a) >= 16 BY <2>1, PieceFacts
  <2>3. ASSUME NEW e \in E2 PROVE e <= a \/ e >= m
    BY <1>2, <1>4, <1>5, <1>6, <2>1
  <2> QED BY <1>7, <2>1, <2>2, <2>3 DEF Good, Piece
<1>17. Good(g, E2, m)
  <2>1. Piece(g, m, z2) /\ m \in Int /\ z2 \in Int BY <1>2, <1>4, <1>9
  <2>2. NextBlock(g, m) = z2 /\ Size(g, m) >= 16 BY <2>1, PieceFacts
  <2>3. ASSUME NEW e \in E2 PROVE e <= m \/ e >= z2
    BY <1>2, <1>4, <1>5, <1>6, <2>1
  <2> QED BY <1>7, <2>1, <2>2, <2>3 DEF Good, Piece
<1>18. ASSUME NEW b \in E2 \ {g.brk} PROVE Good(g, E2, b)
  <2>1. CASE b \in E /\ b < a BY <1>15, <2>1
  <2>2. CASE b = m BY <1>17, <2>2
  <2>3. CASE b = a BY <1>16, <1>17, <2>3
  <2>4. CASE b \in E /\ b > z /\ z2 = z /\ z # h.brk
    <3>1. b \in Int /\ z \in Int BY <1>2, <1>6, <2>4
    <3>2. b # h.brk /\ b >= z BY <1>2, <2>4, <3>1
    <3> QED BY <1>15, <2>4, <3>2
  <2>5. CASE b = z2
    <3>1. z # h.brk BY <1>10, <2>5
    <3>2. b = z /\ b >= z BY <1>2, <2>5, <3>1
    <3> QED BY <1>1, <1>15, <3>1, <3>2
  <2> QED BY <1>5, <2>1, <2>2, <2>3, <2>4, <2>5
<1>19. Tags(g, E2) BY <1>1, <1>4, <1>12, <1>13, <1>14, <1>18 DEF Tags
<1> QED BY <1>19 DEF E2

\* Not in the space that was cut anew.
Beyond(S, a, z) == {b \in S : b < a \/ b >= z}

LEMMA RecutSets ==
  ASSUME NEW h, NEW E, NEW g, NEW a, NEW m, NEW z, NEW z2, Recut(h, E, g, a, m, z, z2),
         NEW E2, E2 = Pieces(E, a, m, z, z2)
  PROVE  /\ FreeIn(g, E2) = Beyond(FreeIn(h, E), a, z) \cup {b \in {a, m} : Alloc(g, b) = 0}
         /\ AllocIn(g, E2) = Beyond(AllocIn(h, E), a, z) \cup {b \in {a, m} : Alloc(g, b) = 1}
         /\ Keeps(h, g, Beyond(AllocIn(h, E), a, z))
<1>1. Tags(h, E) /\ a \in E /\ z \in E /\ g \in Heap BY DEF Recut
<1>2. /\ a \in 4 .. Top /\ z \in 4 .. Top /\ z2 \in 4 .. Top /\ a <= z /\ z <= z2 /\ a < z2
      /\ z # h.brk => z2 = z /\ g.brk = h.brk
  BY RecutOutside
<1>3. \A e \in E : e < a \/ (e >= z /\ e # h.brk) => Remains(h, g, e) BY RecutOutside
<1>4. /\ m \in 4 .. Top /\ a <= m /\ m + 4 <= z2 /\ (m = a \/ a + 4 <= m)
      /\ z2 <= g.brk /\ g.brk \in 4 .. Top /\ g.brk \in E2 /\ a \in E2 /\ 4 \in E2
  BY PiecesOrder
<1>5. \A e \in E2 : \/ e \in E /\ e < a
                    \/ e = a \/ e = m \/ e = z2
                    \/ e \in E /\ e > z /\ z2 = z /\ z # h.brk
  BY PiecesOrder
<1>6. \A e \in E : e \in 4 .. Top /\ e <= h.brk /\ h.brk \in 4 .. Top BY <1>1, EndFacts
<1>7. m \in E2 /\ z2 \in E2 /\ \A e \in E : e <= a \/ e > z => e \in E2 BY DEF Pieces
<1>8. Tags(g, E2) BY RecutTags
<1>9. z = h.brk => z2 = g.brk BY DEF Recut
<1>10. Alloc(h, h.brk) = 1 /\ Alloc(g, g.brk) = 1 BY <1>1, <1>8 DEF Tags
<1> DEFINE Old(e) == e \in E /\ e # h.brk /\ (e < a \/ e >= z)
<1>11. ASSUME NEW e, Old(e)
       PROVE  /\ e \in E2 /\ e # g.brk /\ Remains(h, g, e) /\ Alloc(g, e) = Alloc(h, e)
  <2>1. Remains(h, g, e) BY <1>3, <1>11
  <2>2. e \in 4 .. Top /\ e < h.brk BY <1>6, <1>11
  <2>3. e >= z => z # h.brk BY <1>2, <1>6, <2>2
  <2>4. e # g.brk BY <1>2, <1>4, <1>11, <2>2, <2>3
  <2>5. e \in E2
    <3>1. e <= a \/ e > z \/ e = z BY <1>2, <1>11, <2>2
    <3> QED BY <1>2, <1>7, <1>11, <2>3, <3>1
  <2> QED BY <2>1, <2>4, <2>5 DEF Remains
<1>12. ASSUME NEW e \in E2, e # g.brk PROVE e = a \/ e = m \/ Old(e)
  <2>1. CASE e \in E /\ e < a
    <3>1. e # h.brk BY <1>1, <1>2, <1>6, <2>1
    <3> QED BY <2>1, <3>1
  <2>2. CASE e = z2
    <3>1. z # h.brk BY <1>9, <1>12, <2>2
    <3> QED BY <1>1, <1>2, <2>2, <3>1
  <2>3. CASE e \in E /\ e > z /\ z2 = z /\ z # h.brk
    <3>1. e # h.brk /\ e >= z BY <1>2, <1>6, <1>12, <2>3
    <3> QED BY <2>3, <3>1
  <2> QED BY <1>5, <2>1, <2>2, <2>3
<1>13. a # g.brk /\ m # g.brk BY <1>2, <1>4
<1>14. \A e \in FreeIn(h, E) : e \in E /\ e # h.brk /\ Alloc(h, e) = 0 BY <1>10 DEF FreeIn
<1>15. \A e \in FreeIn(g, E2) : e \in E2 /\ e # g.brk /\ Alloc(g, e) = 0 BY <1>10 DEF FreeIn
<1>16. ASSUME NEW e, Old(e)
       PROVE  /\ e \in FreeIn(g, E2) <=> e \in FreeIn(h, E)
              /\ e \in AllocIn(g, E2) <=> e \in AllocIn(h, E)
  <2>1. e \in E2 /\ e # g.brk /\ Alloc(g, e) = Alloc(h, e) BY <1>11, <1>16
  <2> QED BY <1>16, <2>1 DEF FreeIn, AllocIn
<1>17. \A e \in Beyond(FreeIn(h, E), a, z) : Old(e) BY <1>14 DEF Beyond
<1>18. \A e \in Beyond(AllocIn(h, E), a, z) : Old(e) BY DEF Beyond, AllocIn
<1>19. \A e : Old(e) /\ e \in FreeIn(h, E) => e \in Beyond(FreeIn(h, E), a, z) BY DEF Beyond
<1>20. \A e : Old(e) /\ e \in AllocIn(h, E) => e \in Beyond(AllocIn(h, E), a, z) BY DEF Beyond
<1>21. Keeps(h, g, Beyond(AllocIn(h, E), a, z))
  <2>1. ASSUME NEW b \in Beyond(AllocIn(h, E), a, z)
        PROVE  Size(g, b) = Size(h, b) /\ \A x \in b .. NextBlock(h, b) - 2 : g.mem[x] = h.mem[x]
    <3>1. Old(b) /\ Alloc(h, b) = 1 BY <1>18 DEF Beyond, AllocIn
    <3>2. Remains(h, g, b) BY <1>11, <3>1
    <3>3. b \in Int /\ NextBlock(h, b) \in Int BY <1>1, <3>1, EndFacts
    <3>4. \A x \in b .. NextBlock(h, b) - 2 :
             x \in b .. NextBlock(h, b) - 3 \/ x = NextBlock(h, b) - 2
      BY <3>3
    <3> QED BY <3>1, <3>2, <3>4 DEF Remains
  <2> QED BY <2>1 DEF Keeps
<1> HIDE DEF Old
<1>22. FreeIn(g, E2) = Beyond(FreeIn(h, E), a, z) \cup {b \in {a, m} : Alloc(g, b) = 0}
  <2>1. ASSUME NEW e \in FreeIn(g, E2)
        PROVE  e \in Beyond(FreeIn(h, E), a, z) \cup {b \in {a, m} : Alloc(g, b) = 0}
    BY <1>12, <1>15, <1>16, <1>19
  <2>2. ASSUME NEW e \in Beyond(FreeIn(h, E), a, z) PROVE e \in FreeIn(g, E2)
    <3>1. Old(e) /\ e \in FreeIn(h, E) BY <1>17 DEF Beyond
    <3> QED BY <1>16, <3>1
  <2>3. ASSUME NEW e \in {b \in {a, m} : Alloc(g, b) = 0} PROVE e \in FreeIn(g, E2)
    BY <1>4, <1>7 DEF FreeIn
  <2> QED BY <2>1, <2>2, <2>3
<1>23. AllocIn(g, E2) = Beyond(AllocIn(h, E), a, z) \cup {b \in {a, m} : Alloc(g, b) = 1}
  <2>1. ASSUME NEW e \in AllocIn(g, E2)
        PROVE  e \in Beyond(AllocIn(h, E), a, z) \cup {b \in {a, m} : Alloc(g, b) = 1}
    <3>1. e \in E2 /\ e # g.brk /\ Alloc(g, e) = 1 BY DEF AllocIn
    <3> QED BY <1>12, <1>16, <1>20, <3>1
  <2>2. ASSUME NEW e \in Beyond(AllocIn(h, E), a, z) PROVE e \in AllocIn(g, E2)
    <3>1. Old(e) /\ e \in AllocIn(h, E) BY <1>18 DEF Beyond
    <3> QED BY <1>16, <3>1
  <2>3. ASSUME NEW e \in {b \in {a, m} : Alloc(g, b) = 1} PROVE e \in AllocIn(g, E2)
    BY <1>4, <1>7, <1>13 DEF AllocIn
  <2> QED BY <2>1, <2>2, <2>3
<1> QED BY <1>21, <1>22, <1>23

LEMMA RecutLists ==
  ASSUME NEW h, NEW E, NEW g, NEW a, NEW m, NEW z, NEW z2, Recut(h, E, g, a, m, z, z2),
         NEW F, F \subseteq Beyond(FreeIn(h, E), a, z), Listed(h, F)
  PROVE  Listed(g, F)
<1>1. Tags(h, E) /\ h \in Heap /\ g \in Heap /\ g.seg = h.seg BY DEF Recut, Tags
<1>2. ASSUME NEW f \in F
      PROVE  Size(g, f) = Size(h, f) /\ g.mem[f] = h.mem[f] /\ g.mem[f + 1] = h.mem[f + 1]
  <2>1. f \in E /\ Alloc(h, f) = 0 /\ (f < a \/ f >= z) BY DEF Beyond, FreeIn
  <2>2. f # h.brk BY <1>1, <2>1 DEF Tags
  <2>3. Remains(h, g, f) BY <2>1, <2>2, RecutOutside
  <2>4. f \in Int /\ NextBlock(h, f) \in Int /\ f + 4 <= NextBlock(h, f)
    BY <1>1, <2>1, <2>2, EndFacts, BlockFacts
  <2>5. f \in f .. NextBlock(h, f) - 3 /\ f + 1 \in f .. NextBlock(h, f) - 3 BY <2>4
  <2> QED BY <2>3, <2>5 DEF Remains
<1> QED BY <1>1, <1>2, ListedFrame

\* A new free block has allocated neighbours, or it is the one that Y is about.
Neighbours(h, g, a, m, z, z2, X, Y) ==
    /\ \A x \in X : a <= x /\ x < z
    /\ Alloc(g, a) = 0 => a \in Y \/ (m = a /\ PrevAlloc(g, a) = 1 /\ Alloc(g, z2) = 1)
    /\ Alloc(g, m) = 0 /\ m # a => m \in Y \/ (Alloc(g, a) = 1 /\ Alloc(g, z2) = 1)

LEMMA RecutCoal ==
  ASSUME NEW h, NEW E, NEW g, NEW a, NEW m, NEW z, NEW z2, Recut(h, E, g, a, m, z, z2),
         NEW E2, E2 = Pieces(E, a, m, z, z2),
         NEW X, NEW Y, Coal(h, E, X), Neighbours(h, g, a, m, z, z2, X, Y)
  PROVE  Coal(g, E2, Y)
<1>1. Tags(h, E) /\ a \in E /\ z \in E /\ Tags(g, E2) BY RecutTags DEF Recut
<1>2. /\ a \in 4 .. Top /\ z \in 4 .. Top /\ z2 \in 4 .. Top /\ a <= z /\ z <= z2 /\ a < z2
      /\ z # h.brk => z2 = z /\ g.brk = h.brk
  BY RecutOutside
<1>3. \A e \in E : e < a \/ (e >= z /\ e # h.brk) => Remains(h, g, e) BY RecutOutside
<1>4. /\ m \in 4 .. Top /\ a <= m /\ m + 4 <= z2 /\ (m = a \/ a + 4 <= m)
      /\ z2 <= g.brk /\ a \in E2
  BY PiecesOrder
<1>5. \A e \in E2 : \/ e \in E /\ e < a
                    \/ e = a \/ e = m \/ e = z2
                    \/ e \in E /\ e > z /\ z2 = z /\ z # h.brk
  BY PiecesOrder
<1>6. \A e \in E : e \in 4 .. Top /\ e <= h.brk BY <1>1, EndFacts
<1>7. z = h.brk => z2 = g.brk BY DEF Recut
<1>8. (m = a \/ (a < m /\ Piece(g, a, m))) /\ Piece(g, m, z2) BY DEF Recut
<1>9. NextBlock(g, m) = z2 /\ (m # a => NextBlock(g, a) = m)
  BY <1>2, <1>4, <1>8, PieceFacts
<1>10. Alloc(h, h.brk) = 1 BY <1>1 DEF Tags
<1>11. h.brk \in Int /\ h.brk \in E
  <2>1. h.brk \in E BY <1>1 DEF Tags
  <2> QED BY <1>6, <2>1
<1>12. ASSUME NEW b \in E2 \ {g.brk}, Alloc(g, b) = 0, Alloc(g, NextBlock(g, b)) = 0
       PROVE  b \in Y \/ NextBlock(g, b) \in Y
  <2>1. Good(g, E2, b) BY <1>1 DEF Tags
  <2>2. PrevAlloc(g, NextBlock(g, b)) = 0 BY <1>12, <2>1 DEF Good
  <2>3. CASE b = m
    <3>1. Alloc(g, z2) = 0 BY <1>9, <1>12, <2>3
    <3> QED BY <1>12, <2>3, <3>1 DEF Neighbours
  <2>4. CASE b = a
    <3>1. CASE m = a BY <2>3, <2>4, <3>1
    <3>2. CASE m # a BY <1>12, <2>4, <3>2 DEF Neighbours
    <3> QED BY <3>1, <3>2
  <2>5. CASE b \in E /\ b < a
    <3>1. Remains(h, g, b) /\ b # h.brk BY <1>2, <1>3, <1>6, <1>11, <2>5
    <3>2. NextBlock(h, b) <= a /\ NextBlock(h, b) \in E /\ NextBlock(g, b) = NextBlock(h, b)
      BY <1>1, <2>5, <3>1, Apart, BlockFacts DEF Remains
    <3>3. CASE NextBlock(h, b) = a BY <1>12, <2>2, <3>2, <3>3 DEF Neighbours
    <3>4. CASE NextBlock(h, b) # a
      <4>1. NextBlock(h, b) < a BY <1>2, <1>6, <3>2, <3>4
      <4>2. Remains(h, g, NextBlock(h, b)) BY <1>3, <3>2, <4>1
      <4>3. Alloc(h, b) = 0 /\ Alloc(h, NextBlock(h, b)) = 0
        BY <1>12, <3>1, <3>2, <4>2 DEF Remains
      <4>4. b \in X \/ NextBlock(h, b) \in X BY <2>5, <3>1, <4>3 DEF Coal
      <4>5. FALSE BY <1>2, <1>6, <2>5, <3>2, <4>1, <4>4 DEF Neighbours
      <4> QED BY <4>5
    <3> QED BY <3>3, <3>4
  <2>6. CASE b \in E /\ b >= z /\ b # h.brk
    <3>1. Remains(h, g, b) BY <1>3, <2>6
    <3>2. /\ NextBlock(h, b) \in E /\ NextBlock(g, b) = NextBlock(h, b)
          /\ b + 4 <= NextBlock(h, b)
      BY <1>1, <2>6, <3>1, BlockFacts DEF Remains
    <3>3. NextBlock(h, b) > z BY <1>2, <1>6, <2>6, <3>2
    <3>4. NextBlock(h, b) # h.brk
      <4>1. z # h.brk BY <1>2, <1>6, <2>6
      <4>2. Alloc(g, g.brk) = 1 BY <1>1 DEF Tags
      <4> QED BY <1>2, <1>12, <3>2, <4>1, <4>2
    <3>5. Remains(h, g, NextBlock(h, b))
      <4>1. NextBlock(h, b) >= z BY <1>2, <1>6, <3>2, <3>3
      <4> QED BY <1>3, <3>2, <3>4, <4>1
    <3>6. Alloc(h, b) = 0 /\ Alloc(h, NextBlock(h, b)) = 0
      BY <1>12, <3>1, <3>2, <3>5 DEF Remains
    <3>7. b \in X \/ NextBlock(h, b) \in X BY <2>6, <3>6 DEF Coal
    <3>8. FALSE BY <1>2, <1>6, <2>6, <3>2, <3>3, <3>7 DEF Neighbours
    <3> QED BY <3>8
  <2>7. CASE b = z2
    <3>1. z # h.brk BY <1>7, <1>12, <2>7
    <3> QED BY <1>1, <1>2, <2>6, <2>7, <3>1
  <2>8. CASE b \in E /\ b > z /\ z2 = z /\ z # h.brk
    <3>1. b # h.brk /\ b >= z BY <1>2, <1>6, <1>12, <2>8
    <3> QED BY <2>6, <2>8, <3>1
  <2> QED BY <1>5, <2>3, <2>4, <2>5, <2>7, <2>8
<1> QED BY <1>12 DEF Coal

-----------------------------------------------------------------------------
(* Heaps between two steps of an operation *)

\* The lists hold the free blocks but for those in N; of two neighbours one is allocated,
\* but for those in X.
Part(h, E, N, X) == Tags(h, E) /\ Listed(h, FreeIn(h, E) \ N) /\ Coal(h, E, X)

\* The heap h is in order, and A are its allocated blocks.
Ok(h, E) == Part(h, E, {}, {})
Holds(h, A) == \E E : Ok(h, E) /\ AllocIn(h, E) = A

LEMMA Unlink ==
  ASSUME NEW h, NEW E, NEW N, NEW X, Part(h, E, N, X), NEW b \in FreeIn(h, E) \ N,
         NEW g, g = remove_node(h, b)
  PROVE  Part(g, E, N \cup {b}, X) /\ SameTags(h, g, E) /\ Keeps(h, g, AllocIn(h, E))
<1> DEFINE F == FreeIn(h, E) \ N
<1>1. Tags(h, E) /\ Listed(h, F) /\ h \in Heap /\ Coal(h, E, X) BY DEF Part, Tags
<1>2. Spread(F) /\ F \subseteq FreeIn(h, E) BY <1>1, FreeSpread
<1>3. b \in F OBVIOUS
<1> HIDE DEF F
<1>4. Listed(g, F \ {b}) /\ Linked(h, g, F) BY <1>1, <1>2, <1>3, RemoveNode
<1>5. SameTags(h, g, E) /\ Keeps(h, g, AllocIn(h, E)) BY <1>1, <1>2, <1>4, LinkedTags
<1>6. Tags(g, E) /\ FreeIn(g, E) = FreeIn(h, E) /\ Coal(g, E, X)
  BY <1>1, <1>5, SameTagsFacts
<1>7. F \ {b} = FreeIn(h, E) \ (N \cup {b}) BY DEF F
<1> QED BY <1>4, <1>5, <1>6, <1>7 DEF Part

LEMMA Link ==
  ASSUME NEW h, NEW E, NEW N, NEW X, Part(h, E, N, X), NEW b \in FreeIn(h, E), b \in N,
         NEW g, g = insert_node(h, b)
  PROVE  Part(g, E, N \ {b}, X) /\ SameTags(h, g, E) /\ Keeps(h, g, AllocIn(h, E))
<1> DEFINE F == FreeIn(h, E) \ N
<1>1. Tags(h, E) /\ Listed(h, F) /\ h \in Heap /\ Coal(h, E, X) BY DEF Part, Tags
<1>2. F \cup {b} \subseteq FreeIn(h, E) /\ b \notin F OBVIOUS
<1> HIDE DEF F
<1>3. Spread(F \cup {b}) BY <1>1, <1>2, FreeSpread
<1>4. Listed(g, F \cup {b}) /\ Linked(h, g, F \cup {b}) BY <1>1, <1>2, <1>3, InsertNode
<1>5. SameTags(h, g, E) /\ Keeps(h, g, AllocIn(h, E)) BY <1>1, <1>2, <1>4, LinkedTags
<1>6. Tags(g, E) /\ FreeIn(g, E) = FreeIn(h, E) /\ Coal(g, E, X)
  BY <1>1, <1>5, SameTagsFacts
<1>7. F \cup {b} = FreeIn(h, E) \ (N \ {b}) BY DEF F
<1> QED BY <1>4, <1>5, <1>6, <1>7 DEF Part

\* What lies beyond a block and what lies beyond the block and the next one.
LEMMA BeyondStep ==
  ASSUME NEW h, NEW E, Tags(h, E), NEW a \in E, NEW y \in E, a <= y, y # h.brk,
         NEW S, S \subseteq E
  PROVE  Beyond(S, a, NextBlock(h, y)) = Beyond(S, a, y) \ {y}
<1>1. \A e \in E : e \in Int BY EndFacts
<1>2. NextBlock(h, y) \in Int /\ y + 4 <= NextBlock(h, y) BY BlockFacts, EndFacts
<1>3. \A e \in S : y < e => NextBlock(h, y) <= e BY Apart
<1>4. ASSUME NEW e \in S
      PROVE  e < a \/ e >= NextBlock(h, y) <=> (e < a \/ e >= y) /\ e # y
  BY <1>1, <1>2, <1>3
<1> QED BY <1>4 DEF Beyond

LEMMA BeyondNothing ==
  ASSUME NEW h, NEW E, Tags(h, E), NEW a \in E, NEW S, S \subseteq E
  PROVE  Beyond(S, a, a) = S
<1>1. \A e \in E : e \in Int BY EndFacts
<1> QED BY <1>1 DEF Beyond

\* The space has been cut anew: the lists, and the allocated blocks.
Renewed(h, E, g, E2, a, m, z, Y) ==
    /\ Part(g, E2, {a, m}, Y) /\ a \in E2 /\ m \in E2
    /\ AllocIn(g, E2) = Beyond(AllocIn(h, E), a, z) \cup {b \in {a, m} : Alloc(g, b) = 1}
    /\ Keeps(h, g, Beyond(AllocIn(h, E), a, z))

LEMMA Renew ==
  ASSUME NEW h, NEW E, NEW g, NEW a, NEW m, NEW z, NEW z2, Recut(h, E, g, a, m, z, z2),
         NEW N, NEW X, Part(h, E, N, X), FreeIn(h, E) \ N = Beyond(FreeIn(h, E), a, z),
         NEW Y, Neighbours(h, g, a, m, z, z2, X, Y),
         NEW E2, E2 = Pieces(E, a, m, z, z2)
  PROVE  Renewed(h, E, g, E2, a, m, z, Y)
<1> DEFINE F == Beyond(FreeIn(h, E), a, z)
<1>1. Tags(h, E) /\ Listed(h, F) /\ Coal(h, E, X) BY DEF Part
<1>2. Tags(g, E2) BY RecutTags
<1>3. Listed(g, F) BY <1>1, RecutLists
<1>4. Coal(g, E2, Y) BY <1>1, RecutCoal
<1>5. /\ FreeIn(g, E2) = F \cup {b \in {a, m} : Alloc(g, b) = 0}
      /\ AllocIn(g, E2) = Beyond(AllocIn(h, E), a, z) \cup {b \in {a, m} : Alloc(g, b) = 1}
      /\ Keeps(h, g, Beyond(AllocIn(h, E), a, z))
  BY RecutSets
<1>6. ASSUME NEW e \in F PROVE e # a /\ e # m
  <2>1. e \in E /\ Alloc(h, e) = 0 /\ (e < a \/ e >= z) BY DEF Beyond, FreeIn
  <2>2. e # h.brk BY <1>1, <2>1 DEF Tags
  <2>3. e \in Int /\ e < h.brk /\ h.brk \in Int BY <1>1, <2>1, <2>2, EndFacts
  <2>4. a \in 4 .. Top /\ z \in 4 .. Top /\ z2 \in 4 .. Top /\ a <= z /\ (z # h.brk => z2 = z)
    BY RecutOutside
  <2>5. m \in 4 .. Top /\ a <= m /\ m + 4 <= z2 BY PiecesOrder
  <2>6. CASE z = h.brk BY <2>1, <2>3, <2>4, <2>5, <2>6
  <2>7. CASE z # h.brk
    <3>1. a < z BY <2>7 DEF Recut
    <3> QED BY <2>1, <2>3, <2>4, <2>5, <2>7, <3>1
  <2> QED BY <2>6, <2>7
<1> HIDE DEF F
<1>7. FreeIn(g, E2) \ {a, m} = F BY <1>5, <1>6
<1>8. a \in E2 BY PiecesOrder
<1>9. m \in E2 BY DEF Pieces
<1> QED BY <1>2, <1>3, <1>4, <1>5, <1>7, <1>8, <1>9 DEF Part, Renewed

-----------------------------------------------------------------------------
(* Writing the tags of the pieces *)

\* g is h, but the block at z has been told about the one before it.
PrevSet(h, g, z, prev) ==
    /\ g \in Heap /\ g.brk = h.brk /\ g.seg = h.seg
    /\ PrevAlloc(g, z) = prev /\ Size(g, z) = Size(h, z) /\ Alloc(g, z) = Alloc(h, z)
    /\ \A x \in Address : x # z - 1 =>
            \/ g.mem[x] = h.mem[x]
            \/ Alloc(h, z) = 0 /\ x = Foot(h, z) /\ SizeIn(g.mem[x]) = Size(h, z)

LEMMA SetPrevIsPrevSet ==
  ASSUME NEW h \in Heap, NEW z \in 1 .. Top, NEW prev \in Bit
  PROVE  PrevSet(h, SetPrev(h, z, prev), z, prev)
<1> DEFINE g == SetPrev(h, z, prev)
<1>1. /\ Wrote(h, g, z - 1, z - 1)
      /\ Size(g, z) = Size(h, z) /\ PrevAlloc(g, z) = prev /\ Alloc(g, z) = Alloc(h, z)
  BY SetPrevFacts
<1> HIDE DEF g
<1>2. \A x \in Address : x # z - 1 => g.mem[x] = h.mem[x] BY <1>1, TopFacts DEF Wrote
<1>3. g \in Heap /\ g.brk = h.brk /\ g.seg = h.seg BY <1>1 DEF Wrote
<1>4. PrevSet(h, g, z, prev) BY <1>1, <1>2, <1>3 DEF PrevSet
<1> QED BY <1>4 DEF g

LEMMA SetPrevBothIsPrevSet ==
  ASSUME NEW h \in Heap, NEW z \in 1 .. Top, NEW prev \in Bit,
         Alloc(h, z) = 0 => Foot(h, z) \in z + 2 .. Top
  PROVE  PrevSet(h, SetPrevBoth(h, z, prev), z, prev)
<1>1. PrevSet(h, SetPrev(h, z, prev), z, prev) BY SetPrevIsPrevSet
<1>2. CASE Alloc(h, z) = 1 BY <1>1, <1>2 DEF SetPrevBoth
<1>3. CASE Alloc(h, z) # 1
  <2> DEFINE p == SetPrev(h, z, prev)
             word == Size(h, z) + 2 * prev
             g == Put(p, Foot(h, z), word)
  <2>1. Alloc(h, z) = 0 BY <1>3, TagFacts DEF Bit
  <2>2. Size(h, z) \in Int /\ Size(h, z) % 8 = 0 BY TagFacts
  <2>3. 0 \in Bit /\ Size(h, z) + 2 * prev + 0 = word BY <2>2 DEF Bit
  <2>4. word \in Int /\ SizeIn(word) = Size(h, z)
    <3>1. SizeIn(Size(h, z) + 2 * prev + 0) = Size(h, z) BY <2>2, <2>3, TagWord
    <3> QED BY <2>2, <2>3, <3>1 DEF Bit
  <2>5. Foot(h, z) \in Address /\ Foot(h, z) # z - 1 /\ z - 1 \in Address BY <2>1, TopFacts
  <2>6. SetPrevBoth(h, z, prev) = g BY <1>3 DEF SetPrevBoth, Foot
  <2> HIDE DEF p, word
  <2>7. PrevSet(h, p, z, prev) /\ p \in Heap BY <1>1 DEF p, PrevSet
  <2>8. Wrote(p, g, Foot(h, z), Foot(h, z)) /\ g.mem[Foot(h, z)] = word
    BY <2>4, <2>5, <2>7, PutFacts
  <2> HIDE DEF g
  <2>9. \A x \in Address : x # Foot(h, z) => g.mem[x] = p.mem[x] BY <2>5, <2>8, TopFacts DEF Wrote
  <2>10. g.mem[z - 1] = p.mem[z - 1] BY <2>5, <2>9
  <2>11. /\ PrevAlloc(g, z) = prev /\ Size(g, z) = Size(h, z) /\ Alloc(g, z) = Alloc(h, z)
    BY <2>7, <2>10 DEF PrevSet, PrevAlloc, Size, Alloc
  <2>12. g \in Heap /\ g.brk = h.brk /\ g.seg = h.seg BY <2>7, <2>8 DEF PrevSet, Wrote
  <2>13. ASSUME NEW x \in Address, x # z - 1
         PROVE  \/ g.mem[x] = h.mem[x]
                \/ Alloc(h, z) = 0 /\ x = Foot(h, z) /\ SizeIn(g.mem[x]) = Size(h, z)
    <3>1. CASE x = Foot(h, z) BY <2>1, <2>4, <2>8, <3>1
    <3>2. CASE x # Foot(h, z) BY <2>7, <2>9, <2>13, <3>2 DEF PrevSet
    <3> QED BY <3>1, <3>2
  <2> QED BY <2>6, <2>11, <2>12, <2>13 DEF PrevSet
<1> QED BY <1>2, <1>3

LEMMA NothingSet ==
  ASSUME NEW h \in Heap, NEW z
  PROVE  PrevSet(h, h, z, PrevAlloc(h, z))
BY DEF PrevSet

\* What writing inside a space and telling the next block leave alone.
LEMMA Capped ==
  ASSUME NEW h, NEW E, Tags(h, E), NEW a \in E, NEW z \in E, a < z,
         NEW q, Wrote(h, q, a - 1, z - 2), PrevAlloc(q, a) = PrevAlloc(h, a),
         NEW g, NEW v, PrevSet(q, g, z, v)
  PROVE  /\ Outside(h, g, a, z, z)
         /\ g \in Heap /\ g.brk = h.brk /\ g.seg = h.seg /\ PrevAlloc(g, z) = v
         /\ \A x \in a - 1 .. z - 2 : g.mem[x] = q.mem[x]
<1>1. a \in 4 .. Top /\ z \in 4 .. Top /\ a + 4 <= z /\ h.brk \in 4 .. Top /\ z <= h.brk
  BY Apart, EndFacts
<1>2. Top \in Nat /\ Address = 0 .. Top BY TopFacts
<1>3. q.mem[z - 1] = h.mem[z - 1] BY <1>1, <1>2 DEF Wrote
<1>4. Size(q, z) = Size(h, z) /\ Alloc(q, z) = Alloc(h, z) /\ Foot(q, z) = Foot(h, z)
  BY <1>3 DEF Size, Alloc, Foot, NextBlock
<1>5. Alloc(h, z) = 0 => /\ Foot(h, z) \in z + 2 .. Top
                         /\ SizeIn(h.mem[Foot(h, z)]) = Size(h, z)
  <2>1. SUFFICES ASSUME Alloc(h, z) = 0
                 PROVE  /\ Foot(h, z) \in z + 2 .. Top
                        /\ SizeIn(h.mem[Foot(h, z)]) = Size(h, z)
    OBVIOUS
  <2>2. z # h.brk BY <2>1 DEF Tags
  <2>3. Good(h, E, z) /\ z + 4 <= NextBlock(h, z) /\ NextBlock(h, z) <= h.brk BY <2>2, BlockFacts
  <2>4. NextBlock(h, z) \in Int BY EndFacts
  <2> QED BY <1>1, <1>2, <2>1, <2>3, <2>4 DEF Good, Foot
<1>6. ASSUME NEW x \in a - 1 .. z - 2 PROVE g.mem[x] = q.mem[x]
  <2>1. x \in Address /\ x # z - 1 BY <1>1, <1>2
  <2>2. Alloc(h, z) = 0 => x # Foot(h, z) BY <1>1, <1>5
  <2> QED BY <1>4, <2>1, <2>2 DEF PrevSet
<1>7. g.mem[a - 1] = q.mem[a - 1] BY <1>1, <1>6
<1>8. ASSUME NEW x \in Address, x < a - 1 \/ x >= z
      PROVE  \/ g.mem[x] = h.mem[x]
             \/ Alloc(h, z) = 0 /\ x = Foot(h, z) /\ SizeIn(g.mem[x]) = SizeIn(h.mem[x])
  <2>1. q.mem[x] = h.mem[x] BY <1>1, <1>2, <1>8 DEF Wrote
  <2>2. x # z - 1 BY <1>1, <1>2, <1>8
  <2> QED BY <1>4, <1>5, <2>1, <2>2 DEF PrevSet
<1>9. PrevAlloc(g, a) = PrevAlloc(h, a) BY <1>7 DEF PrevAlloc
<1>10. Outside(h, g, a, z, z) BY <1>4, <1>8, <1>9 DEF Outside, PrevSet
<1> QED BY <1>6, <1>10 DEF PrevSet, Wrote

\* Writing inside a space, one can still tell the next block.
LEMMA Beside ==
  ASSUME NEW h, NEW E, Tags(h, E), NEW a \in E, NEW z \in E, a < z,
         NEW q, Wrote(h, q, a - 1, z - 2), NEW prev \in Bit
  PROVE  /\ PrevSet(q, q, z, PrevAlloc(h, z)) /\ PrevSet(q, SetPrev(q, z, prev), z, prev)
         /\ PrevSet(q, SetPrevBoth(q, z, prev), z, prev)
<1>1. a \in 4 .. Top /\ z \in 4 .. Top /\ z \in 1 .. Top /\ a + 4 <= z /\ h.brk \in 4 .. Top
  BY Apart, EndFacts
<1>2. Top \in Nat /\ Address = 0 .. Top BY TopFacts
<1>3. q.mem[z - 1] = h.mem[z - 1] /\ q \in Heap BY <1>1, <1>2 DEF Wrote
<1>4. Alloc(q, z) = Alloc(h, z) /\ PrevAlloc(q, z) = PrevAlloc(h, z) /\ Foot(q, z) = Foot(h, z)
  BY <1>3 DEF Size, Alloc, PrevAlloc, Foot, NextBlock
<1>5. ASSUME Alloc(q, z) = 0 PROVE Foot(q, z) \in z + 2 .. Top
  <2>1. Alloc(h, h.brk) = 1 BY DEF Tags
  <2>2. z + 4 <= NextBlock(h, z) /\ NextBlock(h, z) <= h.brk
    <3>1. Alloc(h, z) = 0 BY ONLY <1>4, <1>5
    <3>2. z # h.brk BY ONLY <2>1, <3>1
    <3> QED BY <3>2, BlockFacts
  <2>3. NextBlock(h, z) \in Int BY EndFacts
  <2> QED BY <1>1, <1>2, <1>4, <2>2, <2>3 DEF Foot
<1> QED BY <1>1, <1>3, <1>4, <1>5, NothingSet, SetPrevIsPrevSet, SetPrevBothIsPrevSet

\* The space becomes one allocated block.
LEMMA CutOne ==
  ASSUME NEW h, NEW E, Tags(h, E), NEW a \in E, NEW z \in E, a < z,
         NEW u, Wrote(h, u, a, z - 2),
         NEW q, q = PutHeader(u, a, 4 * (z - a), PrevAlloc(h, a), 1),
         4 * (z - a) % 8 = 0, NEW g, g \in {SetPrev(q, z, 1), SetPrevBoth(q, z, 1)}
  PROVE  /\ Recut(h, E, g, a, a, z, z) /\ Alloc(g, a) = 1 /\ Size(g, a) = 4 * (z - a)
         /\ \A x \in a .. z - 2 : g.mem[x] = u.mem[x]
<1>1. /\ a \in 4 .. Top /\ a \in 1 .. Top /\ z \in 4 .. Top /\ a + 4 <= z
      /\ PrevAlloc(h, a) \in Bit /\ 1 \in Bit
  BY Apart, EndFacts DEF Bit
<1>2. Top \in Nat /\ Address = 0 .. Top BY TopFacts
<1>3. u \in Heap /\ u.brk = h.brk /\ u.seg = h.seg BY DEF Wrote
<1>4. 4 * (z - a) \in Int BY <1>1
<1>5. /\ Wrote(u, q, a - 1, a - 1) /\ Size(q, a) = 4 * (z - a)
      /\ PrevAlloc(q, a) = PrevAlloc(h, a) /\ Alloc(q, a) = 1
  BY <1>1, <1>3, <1>4, PutHeaderFacts
<1>6. Wrote(h, q, a - 1, z - 2)
  <2>1. /\ a - 1 \in Int /\ z - 2 \in Int /\ a \in Int
        /\ a - 1 <= a /\ a - 1 <= z - 2 /\ a - 1 <= a - 1 /\ z - 2 <= z - 2
    BY <1>1
  <2>2. Wrote(h, u, a, z - 2) OBVIOUS
  <2> QED BY ONLY <1>5, <2>1, <2>2, WroteTrans
<1>7. /\ Outside(h, g, a, z, z) /\ g \in Heap /\ g.brk = h.brk /\ g.seg = h.seg
      /\ PrevAlloc(g, z) = 1
      /\ \A x \in a - 1 .. z - 2 : g.mem[x] = q.mem[x]
  <2>1. PrevSet(q, g, z, 1) BY <1>1, <1>6, Beside
  <2> QED BY <1>5, <1>6, <2>1, Capped
<1>8. g.mem[a - 1] = q.mem[a - 1] BY <1>1, <1>7
<1>9. Size(g, a) = 4 * (z - a) /\ Alloc(g, a) = 1 BY <1>5, <1>8 DEF Size, Alloc
<1>10. Piece(g, a, z) BY <1>1, <1>7, <1>9 DEF Piece
<1>11. Recut(h, E, g, a, a, z, z) BY <1>1, <1>7, <1>10 DEF Recut
<1>12. ASSUME NEW x \in a .. z - 2 PROVE g.mem[x] = u.mem[x]
  <2>1. x \in Address /\ x > a - 1 /\ x \in a - 1 .. z - 2 BY <1>1, <1>2
  <2>2. q.mem[x] = u.mem[x] BY <1>5, <2>1 DEF Wrote
  <2> QED BY <1>7, <2>1, <2>2
<1> QED BY <1>9, <1>11, <1>12

\* The space becomes one free block.
LEMMA CutFree ==
  ASSUME NEW h, NEW E, Tags(h, E), NEW a \in E, NEW z \in E, a < z,
         NEW q, q = PutFree(h, a, 4 * (z - a), PrevAlloc(h, a)),
         4 * (z - a) % 8 = 0, NEW g, PrevSet(q, g, z, 0)
  PROVE  Recut(h, E, g, a, a, z, z) /\ Alloc(g, a) = 0 /\ Size(g, a) = 4 * (z - a)
<1>1. /\ a \in 4 .. Top /\ a \in 1 .. Top /\ z \in 4 .. Top /\ a + 4 <= z
      /\ PrevAlloc(h, a) \in Bit /\ h \in Heap
  BY Apart, EndFacts DEF Tags
<1>2. Top \in Nat /\ Address = 0 .. Top BY TopFacts
<1>3. PICK size \in Int : size = 4 * (z - a) BY <1>1
<1>4. /\ size % 8 = 0 /\ size >= 16 /\ a + size \div 4 = z /\ a + size \div 4 <= Top + 2
      /\ a + size \div 4 - 2 = z - 2
      /\ q = PutFree(h, a, size, PrevAlloc(h, a))
  BY <1>1, <1>2, <1>3
<1>5. /\ Wrote(h, q, a - 1, a + size \div 4 - 2) /\ Size(q, a) = size
      /\ PrevAlloc(q, a) = PrevAlloc(h, a) /\ Alloc(q, a) = 0
      /\ SizeIn(q.mem[a + size \div 4 - 2]) = size
  BY <1>1, <1>3, <1>4, PutFreeFacts
<1>6. Wrote(h, q, a - 1, z - 2) /\ SizeIn(q.mem[z - 2]) = size BY <1>4, <1>5
<1>7. /\ Outside(h, g, a, z, z) /\ g \in Heap /\ g.brk = h.brk /\ g.seg = h.seg
      /\ PrevAlloc(g, z) = 0
      /\ \A x \in a - 1 .. z - 2 : g.mem[x] = q.mem[x]
  BY <1>5, <1>6, Capped
<1>8. g.mem[a - 1] = q.mem[a - 1] /\ g.mem[z - 2] = q.mem[z - 2] BY <1>1, <1>7
<1>9. Size(g, a) = 4 * (z - a) /\ Alloc(g, a) = 0 BY <1>3, <1>5, <1>8 DEF Size, Alloc
<1>10. Piece(g, a, z) BY <1>1, <1>3, <1>6, <1>7, <1>8, <1>9 DEF Piece
<1>11. Recut(h, E, g, a, a, z, z) BY <1>1, <1>7, <1>10 DEF Recut
<1> QED BY <1>9, <1>11

\* The space becomes an allocated block and a free one.
LEMMA CutTwo ==
  ASSUME NEW h, NEW E, Tags(h, E), NEW a \in E, NEW z \in E, a < z,
         NEW u, Wrote(h, u, a, z - 2), NEW need \in Int, need % 8 = 0, need >= 16,
         4 * (z - a) % 8 = 0, 4 * (z - a) - need >= 16,
         NEW p, p = PutHeader(u, a, need, PrevAlloc(h, a), 1),
         NEW m, m = a + need \div 4,
         NEW q, q = PutFree(p, m, 4 * (z - a) - need, 1),
         NEW g, (g = q /\ PrevAlloc(h, z) = 0) \/ g = SetPrevBoth(q, NextBlock(q, m), 0)
  PROVE  /\ Recut(h, E, g, a, m, z, z) /\ Alloc(g, a) = 1 /\ Size(g, a) = need
         /\ Alloc(g, m) = 0 /\ m # a /\ NextBlock(q, m) = z /\ NextBlock(q, a) = m
         /\ \A x \in a .. m - 2 : g.mem[x] = u.mem[x]
<1>1. /\ a \in 4 .. Top /\ a \in 1 .. Top /\ z \in 4 .. Top /\ a + 4 <= z
      /\ PrevAlloc(h, a) \in Bit /\ 1 \in Bit
  BY Apart, EndFacts DEF Bit
<1>2. Top \in Nat /\ Address = 0 .. Top BY TopFacts
<1>3. u \in Heap /\ u.brk = h.brk /\ u.seg = h.seg BY DEF Wrote
<1>4. PICK rest \in Int : rest = 4 * (z - a) - need BY <1>1
<1>5. /\ 4 * (m - a) = need /\ a + 4 <= m /\ m + 4 <= z /\ m \in 1 .. Top /\ m \in Int
      /\ rest % 8 = 0 /\ rest >= 16 /\ m + rest \div 4 = z /\ m + rest \div 4 <= Top + 2
      /\ m + rest \div 4 - 2 = z - 2
      /\ q = PutFree(p, m, rest, 1)
  BY <1>1, <1>2, <1>4
<1>6. /\ Wrote(u, p, a - 1, a - 1) /\ Size(p, a) = need
      /\ PrevAlloc(p, a) = PrevAlloc(h, a) /\ Alloc(p, a) = 1
  BY <1>1, <1>3, PutHeaderFacts
<1>7. p \in Heap /\ p.brk = h.brk /\ p.seg = h.seg BY <1>3, <1>6 DEF Wrote
<1>8. /\ Wrote(p, q, m - 1, m + rest \div 4 - 2) /\ Size(q, m) = rest
      /\ PrevAlloc(q, m) = 1 /\ Alloc(q, m) = 0
      /\ SizeIn(q.mem[m + rest \div 4 - 2]) = rest
  <2>1. PICK bit \in Bit : bit = 1 BY <1>1
  <2>2. q = PutFree(p, m, rest, bit) BY <1>5, <2>1
  <2>3. PrevAlloc(q, m) = bit BY <1>4, <1>5, <1>7, <2>2, PutFreeFacts
  <2>4. /\ Wrote(p, q, m - 1, m + rest \div 4 - 2) /\ Size(q, m) = rest /\ Alloc(q, m) = 0
        /\ SizeIn(q.mem[m + rest \div 4 - 2]) = rest
    BY <1>4, <1>5, <1>7, <2>2, PutFreeFacts
  <2> QED BY <2>1, <2>3, <2>4
<1>9. Wrote(p, q, m - 1, z - 2) /\ SizeIn(q.mem[z - 2]) = rest /\ NextBlock(q, m) = z
  BY <1>5, <1>8 DEF NextBlock
<1>10. q.mem[a - 1] = p.mem[a - 1] BY <1>1, <1>2, <1>5, <1>9 DEF Wrote
<1>11. Size(q, a) = need /\ Alloc(q, a) = 1 /\ PrevAlloc(q, a) = PrevAlloc(h, a)
  BY <1>6, <1>10 DEF Size, Alloc, PrevAlloc
<1>12. Wrote(h, q, a - 1, z - 2)
  <2>1. /\ a - 1 \in Int /\ z - 2 \in Int /\ m - 1 \in Int /\ a \in Int
        /\ a - 1 <= a /\ a - 1 <= m - 1 /\ a - 1 <= z - 2 /\ a - 1 <= a - 1 /\ z - 2 <= z - 2
    BY <1>1, <1>5
  <2>2. Wrote(h, u, a, z - 2) OBVIOUS
  <2>3. Wrote(h, p, a - 1, z - 2) BY ONLY <1>6, <2>1, <2>2, WroteTrans
  <2> QED BY ONLY <1>9, <2>1, <2>3, WroteTrans
<1>13. /\ Outside(h, g, a, z, z) /\ g \in Heap /\ g.brk = h.brk /\ g.seg = h.seg
       /\ PrevAlloc(g, z) = 0
       /\ \A x \in a - 1 .. z - 2 : g.mem[x] = q.mem[x]
  <2>1. 0 \in Bit BY DEF Bit
  <2>2. PrevSet(q, g, z, 0) BY <1>9, <1>12, <2>1, Beside
  <2> QED BY <1>11, <1>12, <2>2, Capped
<1>14. g.mem[a - 1] = q.mem[a - 1] /\ g.mem[m - 1] = q.mem[m - 1] /\ g.mem[z - 2] = q.mem[z - 2]
  BY <1>1, <1>5, <1>13
<1>15. Size(g, a) = need /\ Alloc(g, a) = 1 BY <1>11, <1>14 DEF Size, Alloc
<1>16. Size(g, m) = rest /\ Alloc(g, m) = 0 /\ PrevAlloc(g, m) = 1
  BY <1>8, <1>14 DEF Size, Alloc, PrevAlloc
<1>17. Piece(g, a, m) BY <1>1, <1>5, <1>15, <1>16 DEF Piece
<1>18. Piece(g, m, z) BY <1>1, <1>4, <1>5, <1>9, <1>13, <1>14, <1>16 DEF Piece
<1>19. Recut(h, E, g, a, m, z, z) BY <1>1, <1>5, <1>13, <1>17, <1>18 DEF Recut
<1>20. ASSUME NEW x \in a .. m - 2 PROVE g.mem[x] = u.mem[x]
  <2>1. x \in Address /\ x \in a - 1 .. z - 2 BY <1>1, <1>2, <1>5
  <2>2. q.mem[x] = p.mem[x] BY <1>1, <1>5, <1>9, <2>1 DEF Wrote
  <2>3. p.mem[x] = u.mem[x] BY <1>1, <1>5, <1>6, <2>1 DEF Wrote
  <2> QED BY <1>13, <2>1, <2>2, <2>3
<1>21. m # a BY <1>1, <1>5
<1>22. NextBlock(q, a) = m BY <1>11 DEF NextBlock
<1> QED BY <1>9, <1>15, <1>16, <1>19, <1>20, <1>21, <1>22

-----------------------------------------------------------------------------
(* The operations on the heap *)

LEMMA FreeFacts ==
  ASSUME NEW h, NEW E, Tags(h, E), NEW b \in FreeIn(h, E)
  PROVE  /\ b \in E /\ b # h.brk /\ Alloc(h, b) = 0 /\ b \notin AllocIn(h, E)
         /\ NextBlock(h, b) \in E /\ b < NextBlock(h, b) /\ PrevAlloc(h, NextBlock(h, b)) = 0
         /\ 4 * (NextBlock(h, b) - b) = Size(h, b) /\ Size(h, b) % 8 = 0 /\ Size(h, b) >= 16
<1>1. b \in E /\ Alloc(h, b) = 0 BY DEF FreeIn
<1>2. b # h.brk BY <1>1 DEF Tags
<1>3. Good(h, E, b) /\ NextBlock(h, b) \in E BY <1>1, <1>2, BlockFacts
<1>4. b < NextBlock(h, b) BY <1>1, <1>2, BlockFacts, EndFacts
<1> QED BY <1>1, <1>2, <1>3, <1>4, EndFacts DEF Good, AllocIn

LEMMA AllocFacts ==
  ASSUME NEW h, NEW E, Tags(h, E), NEW b \in AllocIn(h, E)
  PROVE  /\ b \in E /\ b # h.brk /\ Alloc(h, b) = 1 /\ b \notin FreeIn(h, E)
         /\ NextBlock(h, b) \in E /\ b < NextBlock(h, b) /\ PrevAlloc(h, NextBlock(h, b)) = 1
         /\ 4 * (NextBlock(h, b) - b) = Size(h, b) /\ Size(h, b) % 8 = 0 /\ Size(h, b) >= 16
<1>1. b \in E /\ b # h.brk /\ Alloc(h, b) = 1 BY DEF AllocIn
<1>2. Good(h, E, b) /\ NextBlock(h, b) \in E BY <1>1, BlockFacts
<1>3. b < NextBlock(h, b) BY <1>1, BlockFacts, EndFacts
<1> QED BY <1>1, <1>2, <1>3, EndFacts DEF Good, FreeIn

\* A pair of free neighbours is excused by X.
LEMMA CoalFacts ==
  ASSUME NEW h, NEW E, NEW N, NEW X, Part(h, E, N, X), NEW b \in FreeIn(h, E),
         b \notin X, NextBlock(h, b) \notin X
  PROVE  Alloc(h, NextBlock(h, b)) = 1
<1>1. Tags(h, E) /\ Coal(h, E, X) BY DEF Part
<1>2. b \in E /\ b # h.brk /\ Alloc(h, b) = 0 /\ NextBlock(h, b) \in E BY <1>1, FreeFacts
<1>3. Alloc(h, NextBlock(h, b)) # 0 BY <1>1, <1>2 DEF Coal
<1>4. Alloc(h, NextBlock(h, b)) \in Bit BY <1>1, <1>2, EndFacts
<1> QED BY <1>3, <1>4 DEF Bit

\* The result c of a merge: a free block of at least `size` bytes, and A allocated as before.
Merged(h, c, A, size) ==
    \E E : /\ Ok(c.h, E) /\ AllocIn(c.h, E) = A /\ Keeps(h, c.h, A)
           /\ c.bp \in FreeIn(c.h, E) /\ Size(c.h, c.bp) >= size

\* coalesce merges a free block that is on no list with its neighbours.
LEMMA Coalesce ==
  ASSUME NEW h, NEW E, NEW bp \in FreeIn(h, E), Part(h, E, {bp}, {bp}),
         NEW c, c = coalesce(h, bp)
  PROVE  Merged(h, c, AllocIn(h, E), Size(h, bp))
<1> DEFINE next == NextBlock(h, bp)
           a == IF PrevAlloc(h, bp) = 1 THEN bp ELSE PrevBlock(h, bp)
           before == IF a = bp THEN h ELSE remove_node(h, a)
           f == IF Alloc(h, next) = 1 THEN before ELSE remove_node(before, next)
           size == 4 * (bp - a) + Size(h, bp) + IF Alloc(h, next) = 1 THEN 0 ELSE Size(h, next)
           z == IF Alloc(h, next) = 1 THEN next ELSE NextBlock(h, next)
           M == {a, bp, next}
           q == PutFree(f, a, size, PrevAlloc(h, a))
           A == AllocIn(h, E)
<1>1. Tags(h, E) /\ FreeIn(h, E) \subseteq E /\ A \subseteq E BY DEF Part, FreeIn, AllocIn
<1>2. /\ bp \in E /\ bp # h.brk /\ Alloc(h, bp) = 0 /\ next \in E /\ bp < next
      /\ PrevAlloc(h, next) = 0 /\ 4 * (next - bp) = Size(h, bp) /\ Size(h, bp) % 8 = 0
  BY <1>1, FreeFacts
<1>3. /\ a \in FreeIn(h, E) /\ a \in E /\ a <= bp /\ PrevAlloc(h, a) = 1 /\ 4 * (bp - a) % 8 = 0
      /\ a = bp \/ NextBlock(h, a) = bp
  <2>1. CASE PrevAlloc(h, bp) = 1
    <3>1. bp \in Int BY <1>1, <1>2, EndFacts
    <3> QED BY <1>2, <2>1, <3>1
  <2>2. CASE PrevAlloc(h, bp) # 1
    <3>1. a \in FreeIn(h, E) /\ NextBlock(h, a) = bp BY <1>1, <1>2, <2>2, FreeBefore
    <3>2. a \in E /\ a < bp /\ 4 * (bp - a) % 8 = 0 BY <1>1, <3>1, FreeFacts
    <3>3. bp \in Int /\ a \in Int BY <1>1, <1>2, <3>2, EndFacts
    <3>4. ASSUME PrevAlloc(h, a) # 1 PROVE FALSE
      <4>1. PICK p : p = PrevBlock(h, a) OBVIOUS
      <4>2. p \in FreeIn(h, E) /\ NextBlock(h, p) = a
        <5> HIDE DEF a
        <5> QED BY <1>1, <3>2, <3>4, <4>1, FreeBefore
      <4>3. p \in E /\ p < a BY <1>1, <4>2, FreeFacts
      <4>4. p \in Int BY <1>1, <4>3, EndFacts
      <4>5. Alloc(h, a) = 1
        <5> HIDE DEF a
        <5> QED BY <3>2, <3>3, <4>2, <4>3, <4>4, CoalFacts
      <4> QED BY <1>1, <3>1, <4>5, FreeFacts
    <3> QED BY <3>1, <3>2, <3>3, <3>4
  <2> QED BY <2>1, <2>2
<1>4. bp \in Int /\ next \in Int /\ a \in Int /\ Size(h, bp) \in Int BY <1>1, <1>2, <1>3, EndFacts
<1>5. Part(before, E, {bp, a}, {bp}) /\ SameTags(h, before, E) /\ Keeps(h, before, A)
  <2>1. CASE a = bp
    <3>1. before = h /\ {bp, a} = {bp} BY <2>1
    <3>2. SameTags(h, h, E) BY <1>1 DEF SameTags, Tags
    <3>3. Keeps(h, h, A) BY DEF Keeps
    <3> HIDE DEF before, a
    <3> QED BY <3>1, <3>2, <3>3
  <2>2. CASE a # bp
    <3>1. before = remove_node(h, a) BY <2>2
    <3> HIDE DEF before, a
    <3>2. a \in FreeIn(h, E) \ {bp} BY <1>3, <2>2
    <3>3. {bp} \cup {a} = {bp, a} OBVIOUS
    <3> QED BY <3>1, <3>2, <3>3, Unlink
  <2> QED BY <2>1, <2>2
<1> HIDE DEF before, a, A
<1>6. /\ Tags(before, E) /\ FreeIn(before, E) = FreeIn(h, E) /\ AllocIn(before, E) = A
      /\ before.brk = h.brk
  BY <1>1, <1>5, SameTagsFacts DEF A, SameTags
<1>7. /\ z \in E /\ next <= z /\ Alloc(h, z) = 1 /\ PrevAlloc(h, z) = 0
      /\ size = 4 * (z - a) /\ 4 * (z - a) % 8 = 0 /\ Size(h, bp) <= size
      /\ Part(f, E, M, {bp}) /\ SameTags(h, f, E) /\ Keeps(h, f, A)
      /\ Beyond(FreeIn(h, E), bp, z) = FreeIn(h, E) \ {bp, next}
      /\ Beyond(A, bp, z) = A
  <2>1. Beyond(FreeIn(h, E), bp, next) = FreeIn(h, E) \ {bp}
    <3>1. Beyond(FreeIn(h, E), bp, bp) = FreeIn(h, E) BY <1>1, <1>2, BeyondNothing
    <3> QED BY <1>1, <1>2, <1>4, <3>1, BeyondStep
  <2>2. Beyond(A, bp, next) = A
    <3>1. Beyond(A, bp, bp) = A BY <1>1, <1>2, BeyondNothing
    <3>2. bp \notin A BY <1>1, FreeFacts DEF A
    <3>3. Beyond(A, bp, next) = Beyond(A, bp, bp) \ {bp}
      <4>1. bp <= bp BY <1>4
      <4> QED BY ONLY <1>1, <1>2, <4>1, BeyondStep
    <3> QED BY <3>1, <3>2, <3>3
  <2>3. CASE Alloc(h, next) = 1
    <3>1. z = next /\ f = before /\ size = 4 * (bp - a) + Size(h, bp) BY <2>3, <1>4
    <3>2. next \notin FreeIn(h, E) BY <2>3 DEF FreeIn
    <3>3. Part(f, E, M, {bp})
      <4>1. FreeIn(before, E) \ M = FreeIn(before, E) \ {bp, a} BY <1>6, <3>2
      <4> QED BY <1>5, <3>1, <4>1 DEF Part
    <3>4. FreeIn(h, E) \ {bp, next} = FreeIn(h, E) \ {bp} BY <3>2
    <3>5. size = 4 * (z - a) /\ 4 * (z - a) % 8 = 0 /\ Size(h, bp) <= size
      <4> HIDE DEF size, z, next
      <4> QED BY <1>2, <1>3, <1>4, <3>1
    <3>6. next <= z BY <1>4, <3>1
    <3>7. SameTags(h, f, E) /\ Keeps(h, f, A) BY <1>5, <3>1
    <3>8. Beyond(FreeIn(h, E), bp, z) = FreeIn(h, E) \ {bp, next} /\ Beyond(A, bp, z) = A
      BY <2>1, <2>2, <3>1, <3>4
    <3>9. z \in E /\ Alloc(h, z) = 1 /\ PrevAlloc(h, z) = 0 BY <1>2, <2>3, <3>1
    <3> HIDE DEF next, f, z, M, size
    <3> QED BY <3>3, <3>5, <3>6, <3>7, <3>8, <3>9
  <2>4. CASE Alloc(h, next) # 1
    <3>1. z = NextBlock(h, next) /\ f = remove_node(before, next)
          /\ size = 4 * (bp - a) + Size(h, bp) + Size(h, next)
      BY <2>4
    <3>2. next \in FreeIn(h, E)
      <4>1. Alloc(h, next) \in Bit BY <1>1, <1>2, EndFacts
      <4> QED BY <1>2, <2>4, <4>1 DEF FreeIn, Bit
    <3>3. /\ z \in E /\ next < z /\ next # h.brk /\ PrevAlloc(h, z) = 0 /\ next \notin AllocIn(h, E)
          /\ 4 * (z - next) = Size(h, next) /\ Size(h, next) % 8 = 0
      BY <1>1, <3>1, <3>2, FreeFacts
    <3>4. z \in Int /\ Size(h, next) \in Int BY <1>1, <1>2, <3>3, EndFacts
    <3>5. Alloc(h, z) = 1
      <4>1. next # bp /\ z # bp BY <1>2, <1>4, <3>3, <3>4
      <4> HIDE DEF next, z
      <4> QED BY <3>1, <3>2, <4>1, CoalFacts
    <3>6. size = 4 * (z - a) /\ 4 * (z - a) % 8 = 0 /\ Size(h, bp) <= size
      <4> HIDE DEF size, z, next
      <4>1. 4 * (z - a) = 4 * (bp - a) + 4 * (next - bp) + 4 * (z - next) BY <1>4, <3>4
      <4> QED BY <1>2, <1>3, <1>4, <3>1, <3>3, <3>4, <4>1
    <3>7. Part(f, E, M, {bp}) /\ SameTags(before, f, E) /\ Keeps(before, f, A)
      <4>1. next \in FreeIn(before, E) \ {bp, a} BY <1>2, <1>3, <1>4, <1>6, <3>2
      <4>2. {bp, a} \cup {next} = M OBVIOUS
      <4> HIDE DEF next, f, M
      <4> QED BY <1>5, <1>6, <3>1, <4>1, <4>2, Unlink
    <3>8. SameTags(h, f, E)
      <4>1. \A e \in E : PrevAlloc(before, e) = PrevAlloc(h, e) BY <1>1, <1>5, SameTagsFacts
      <4> HIDE DEF f
      <4> QED BY <1>5, <3>7, <4>1 DEF SameTags
    <3>9. Keeps(h, f, A)
      <4> HIDE DEF f
      <4> QED BY <1>5, <3>7, KeepsTrans
    <3>10. Beyond(FreeIn(h, E), bp, z) = FreeIn(h, E) \ {bp, next}
      <4>1. Beyond(FreeIn(h, E), bp, z) = Beyond(FreeIn(h, E), bp, next) \ {next}
        BY <1>1, <1>2, <1>4, <3>1, <3>3, BeyondStep
      <4> QED BY <2>1, <4>1
    <3>11. Beyond(A, bp, z) = A
      <4>1. bp <= next BY <1>2, <1>4
      <4>2. Beyond(A, bp, z) = Beyond(A, bp, next) \ {next}
        <5> HIDE DEF next, z
        <5> QED BY ONLY <1>1, <1>2, <3>1, <3>3, <4>1, BeyondStep
      <4>3. next \notin A BY <3>3 DEF A
      <4> QED BY <2>2, <4>2, <4>3
    <3>12. next <= z BY <1>4, <3>3, <3>4
    <3> HIDE DEF next, f, z, M, size
    <3> QED BY <3>3, <3>5, <3>6, <3>7, <3>8, <3>9, <3>10, <3>11, <3>12
  <2> QED BY <2>3, <2>4
<1>8. /\ Tags(f, E) /\ FreeIn(f, E) = FreeIn(h, E) /\ AllocIn(f, E) = A
      /\ Alloc(f, z) = 1 /\ PrevAlloc(f, z) = 0 /\ PrevAlloc(f, a) = PrevAlloc(h, a)
  <2> HIDE DEF f, z
  <2> QED BY <1>1, <1>3, <1>7, SameTagsFacts DEF A
<1>9. c = [h |-> insert_node(q, a), bp |-> a] BY DEF coalesce, before, a
<1> HIDE DEF next, f, size, z, q
<1>10. z \in Int /\ a < z BY <1>1, <1>2, <1>3, <1>4, <1>7, EndFacts
<1>11. q = PutFree(f, a, 4 * (z - a), PrevAlloc(f, a)) BY <1>7, <1>8 DEF q
<1>12. /\ Beyond(FreeIn(h, E), a, z) = FreeIn(h, E) \ M
       /\ Beyond(A, a, z) = A
  <2>1. CASE a = bp
    <3>1. FreeIn(h, E) \ {bp, next} = FreeIn(h, E) \ M BY <2>1
    <3> QED BY <1>7, <2>1, <3>1
  <2>2. CASE a # bp
    <3>1. NextBlock(h, a) = bp BY <1>3, <2>2
    <3>2. \A e \in E : a < e => bp <= e BY <1>1, <1>3, <3>1, Apart
    <3>3. \A e \in E : e \in Int BY <1>1, EndFacts
    <3>4. a \notin A BY <1>1, <1>3, FreeFacts DEF A
    <3>5. a < bp BY <1>3, <1>4, <2>2
    <3>6. \A e \in E : e < a \/ e >= z <=> (e < bp \/ e >= z) /\ e # a
      BY <1>2, <1>4, <1>7, <1>10, <3>2, <3>3, <3>5
    <3>7. \A S : S \subseteq E => Beyond(S, a, z) = Beyond(S, bp, z) \ {a} BY <3>6 DEF Beyond
    <3>8. /\ Beyond(FreeIn(h, E), a, z) = Beyond(FreeIn(h, E), bp, z) \ {a}
          /\ Beyond(A, a, z) = Beyond(A, bp, z) \ {a}
      BY <1>1, <3>7
    <3> QED BY <1>7, <3>4, <3>8
  <2> QED BY <2>1, <2>2
<1> HIDE DEF M
<1>13. /\ Recut(f, E, q, a, a, z, z) /\ Alloc(q, a) = 0 /\ Size(q, a) = 4 * (z - a)
       /\ q \in Heap
  <2>1. PICK v : v = 0 OBVIOUS
  <2>2. q \in Heap /\ PrevAlloc(q, z) = v
    <3>1. a \in 4 .. Top /\ z \in 4 .. Top /\ a + 4 <= z /\ PrevAlloc(f, a) \in Bit
      BY <1>3, <1>7, <1>8, <1>10, Apart, EndFacts
    <3>2. f \in Heap /\ Top \in Nat /\ Address = 0 .. Top BY <1>8, TopFacts DEF Tags
    <3>3. PICK s \in Int : s = 4 * (z - a) BY <1>4, <1>10
    <3>4. s % 8 = 0 /\ s >= 16 /\ a + s \div 4 <= Top + 2 /\ a + s \div 4 - 2 = z - 2
        /\ a \in 1 .. Top
      BY <1>7, <3>1, <3>2, <3>3
    <3>5. q = PutFree(f, a, s, PrevAlloc(f, a)) BY <1>11, <3>3
    <3>6. Wrote(f, q, a - 1, z - 2) BY <3>1, <3>2, <3>4, <3>5, PutFreeFacts
    <3>7. q.mem[z - 1] = f.mem[z - 1] /\ q \in Heap BY <3>1, <3>2, <3>6 DEF Wrote
    <3> QED BY <1>8, <2>1, <3>7 DEF PrevAlloc
  <2>3. PrevSet(q, q, z, 0) BY <2>1, <2>2, NothingSet
  <2> QED BY <1>3, <1>7, <1>8, <1>10, <1>11, <2>2, <2>3, CutFree
<1>14. PICK E2 : E2 = Pieces(E, a, a, z, z) OBVIOUS
<1>15. Neighbours(f, q, a, a, z, z, {bp}, {})
  <2>1. Outside(f, q, a, z, z) BY <1>13 DEF Recut
  <2>2. PrevAlloc(q, a) = 1 /\ Alloc(q, z) = 1 BY <1>3, <1>8, <2>1 DEF Outside
  <2>3. a <= bp /\ bp < z BY <1>2, <1>3, <1>4, <1>7, <1>10
  <2> QED BY <2>2, <2>3 DEF Neighbours
<1>16. /\ Part(q, E2, {a}, {}) /\ a \in E2 /\ AllocIn(q, E2) = A /\ Keeps(f, q, A)
  <2>1. FreeIn(f, E) \ M = Beyond(FreeIn(f, E), a, z) BY <1>8, <1>12
  <2>2. /\ Part(q, E2, {a, a}, {}) /\ a \in E2
        /\ AllocIn(q, E2) = Beyond(AllocIn(f, E), a, z) \cup {b \in {a, a} : Alloc(q, b) = 1}
        /\ Keeps(f, q, Beyond(AllocIn(f, E), a, z))
    <3>1. Renewed(f, E, q, E2, a, a, z, {}) BY ONLY <1>7, <1>13, <1>14, <1>15, <2>1, Renew
    <3> QED BY <3>1 DEF Renewed
  <2>3. {b \in {a, a} : Alloc(q, b) = 1} = {} /\ {a, a} = {a} BY <1>13
  <2> QED BY <1>8, <1>12, <2>2, <2>3
<1>17. a \in FreeIn(q, E2) BY <1>13, <1>16 DEF FreeIn
<1>18. PICK g : g = insert_node(q, a) OBVIOUS
<1>19. Part(g, E2, {a} \ {a}, {}) /\ SameTags(q, g, E2) /\ Keeps(q, g, AllocIn(q, E2))
  BY <1>16, <1>17, <1>18, Link
<1>20. Tags(q, E2) BY <1>16 DEF Part
<1>21. FreeIn(g, E2) = FreeIn(q, E2) /\ AllocIn(g, E2) = A /\ Size(g, a) = Size(q, a)
  BY <1>16, <1>19, <1>20, SameTagsFacts
<1>22. Keeps(h, g, A)
  <2>1. Keeps(h, q, A) BY <1>7, <1>16, KeepsTrans
  <2> QED BY <1>16, <1>19, <2>1, KeepsTrans
<1>23. Ok(g, E2)
  <2>1. {a} \ {a} = {} OBVIOUS
  <2> QED BY <1>19, <2>1 DEF Ok
<1>24. c.h = g /\ c.bp = a BY <1>9, <1>18
<1>25. Size(g, a) >= Size(h, bp) BY <1>7, <1>13, <1>21
<1> QED BY <1>17, <1>21, <1>22, <1>23, <1>24, <1>25 DEF Merged, A

\* A piece that is on no list is merged, or put on a list, or is allocated.
LEMMA Release ==
  ASSUME NEW h, NEW E, NEW g, NEW E2, NEW a, NEW m, NEW z, Renewed(h, E, g, E2, a, m, z, {m}),
         Alloc(g, m) = 0, m = a \/ Alloc(g, a) = 1, NEW c, c = coalesce(g, m)
  PROVE  Merged(g, c, AllocIn(g, E2), Size(g, m))
<1>1. Part(g, E2, {a, m}, {m}) /\ m \in E2 BY DEF Renewed
<1>2. m \in FreeIn(g, E2) BY <1>1 DEF FreeIn
<1>3. FreeIn(g, E2) \ {a, m} = FreeIn(g, E2) \ {m} BY DEF FreeIn
<1>4. Part(g, E2, {m}, {m}) BY <1>1, <1>3 DEF Part
<1> QED BY <1>2, <1>4, Coalesce

LEMMA Relink ==
  ASSUME NEW h, NEW E, NEW g, NEW E2, NEW a, NEW m, NEW z, Renewed(h, E, g, E2, a, m, z, {}),
         Alloc(g, m) = 0, m = a \/ Alloc(g, a) = 1, NEW f, f = insert_node(g, m)
  PROVE  /\ Holds(f, AllocIn(g, E2)) /\ Keeps(g, f, AllocIn(g, E2))
         /\ \A e \in E2 : Size(f, e) = Size(g, e)
<1>1. Part(g, E2, {a, m}, {}) /\ m \in E2 BY DEF Renewed
<1>2. m \in FreeIn(g, E2) BY <1>1 DEF FreeIn
<1>3. FreeIn(g, E2) \ {a, m} = FreeIn(g, E2) \ {m} BY DEF FreeIn
<1>4. Part(g, E2, {m}, {}) BY <1>1, <1>3 DEF Part
<1>5. Part(f, E2, {m} \ {m}, {}) /\ SameTags(g, f, E2) /\ Keeps(g, f, AllocIn(g, E2))
  BY <1>2, <1>4, Link
<1>6. {m} \ {m} = {} OBVIOUS
<1>7. Ok(f, E2) BY <1>5, <1>6 DEF Ok
<1>8. AllocIn(f, E2) = AllocIn(g, E2) /\ \A e \in E2 : Size(f, e) = Size(g, e)
  BY <1>1, <1>5, SameTagsFacts DEF Part
<1> QED BY <1>5, <1>7, <1>8 DEF Holds

LEMMA WholeTaken ==
  ASSUME NEW h, NEW E, NEW g, NEW E2, NEW a, NEW z, Renewed(h, E, g, E2, a, a, z, {}),
         Alloc(g, a) = 1
  PROVE  Holds(g, AllocIn(g, E2))
<1>1. Part(g, E2, {a, a}, {}) BY DEF Renewed
<1>2. FreeIn(g, E2) \ {a, a} = FreeIn(g, E2) \ {} BY DEF FreeIn
<1>3. Ok(g, E2) BY <1>1, <1>2 DEF Part, Ok
<1> QED BY <1>3 DEF Holds

LEMMA MergedHolds ==
  ASSUME NEW h, NEW c, NEW A, NEW size, Merged(h, c, A, size)
  PROVE  Holds(c.h, A) /\ Keeps(h, c.h, A)
BY DEF Merged, Holds

\* What lies beyond one block.
LEMMA BeyondOne ==
  ASSUME NEW h, NEW E, Tags(h, E), NEW b \in E, b # h.brk, NEW S, S \subseteq E
  PROVE  Beyond(S, b, NextBlock(h, b)) = S \ {b}
<1>1. b <= b BY EndFacts
<1>2. Beyond(S, b, b) = S BY BeyondNothing
<1>3. Beyond(S, b, NextBlock(h, b)) = Beyond(S, b, b) \ {b} BY ONLY <1>1, BeyondStep,
        Tags(h, E), b \in E, b # h.brk, S \subseteq E
<1> QED BY <1>2, <1>3

\* mm_free takes a block from the user and leaves the heap in order.
LEMMA FreeBlock ==
  ASSUME NEW h, NEW A, Holds(h, A), NEW bp \in A, NEW g, g = mm_free(h, bp)
  PROVE  Holds(g, A \ {bp}) /\ Keeps(h, g, A \ {bp})
<1>1. PICK E : Ok(h, E) /\ AllocIn(h, E) = A BY DEF Holds
<1>2. Part(h, E, {}, {}) /\ Tags(h, E) BY <1>1 DEF Ok, Part
<1>3. PICK z : z = NextBlock(h, bp) OBVIOUS
<1>4. /\ bp \in E /\ bp # h.brk /\ Alloc(h, bp) = 1 /\ bp \notin FreeIn(h, E)
      /\ z \in E /\ bp < z /\ 4 * (z - bp) = Size(h, bp) /\ Size(h, bp) % 8 = 0
  BY <1>1, <1>2, <1>3, AllocFacts
<1>5. bp \in 4 .. Top /\ z \in 4 .. Top /\ bp + 4 <= z /\ PrevAlloc(h, bp) \in Bit /\ z \in 1 .. Top
      /\ bp \in 1 .. Top /\ Size(h, bp) \in Int
  BY <1>2, <1>4, EndFacts, Apart
<1>6. h \in Heap /\ Top \in Nat /\ Address = 0 .. Top BY <1>2, TopFacts DEF Tags
<1>7. PICK q : q = PutFree(h, bp, Size(h, bp), PrevAlloc(h, bp)) OBVIOUS
<1>8. q \in Heap /\ Size(q, bp) = Size(h, bp)
  <2>1. Size(h, bp) >= 16 /\ bp + Size(h, bp) \div 4 <= Top + 2 BY <1>4, <1>5, <1>6
  <2> QED BY <1>4, <1>5, <1>6, <1>7, <2>1, PutFreeFacts DEF Wrote
<1>9. NextBlock(q, bp) = z BY <1>3, <1>8 DEF NextBlock
<1>10. PICK s : s = SetPrev(q, z, 0) OBVIOUS
<1>11. PrevSet(q, s, z, 0)
  <2>1. 0 \in Bit BY DEF Bit
  <2> QED BY <1>5, <1>8, <1>10, <2>1, SetPrevIsPrevSet
<1>12. Recut(h, E, s, bp, bp, z, z) /\ Alloc(s, bp) = 0
  BY <1>2, <1>4, <1>7, <1>11, CutFree
<1>13. PICK E2 : E2 = Pieces(E, bp, bp, z, z) OBVIOUS
<1>14. Neighbours(h, s, bp, bp, z, z, {}, {bp}) BY DEF Neighbours
<1>15. FreeIn(h, E) \ {} = Beyond(FreeIn(h, E), bp, z) /\ Beyond(AllocIn(h, E), bp, z) = A \ {bp}
  <2>1. FreeIn(h, E) \subseteq E /\ A \subseteq E BY <1>1 DEF FreeIn, AllocIn
  <2>2. Beyond(FreeIn(h, E), bp, z) = FreeIn(h, E) \ {bp} /\ Beyond(A, bp, z) = A \ {bp}
    BY <1>2, <1>3, <1>4, <2>1, BeyondOne
  <2> QED BY <1>1, <1>4, <2>2
<1>16. Renewed(h, E, s, E2, bp, bp, z, {bp}) BY ONLY <1>2, <1>12, <1>13, <1>14, <1>15, Renew
<1>17. AllocIn(s, E2) = A \ {bp} /\ Keeps(h, s, A \ {bp})
  <2>1. {b \in {bp, bp} : Alloc(s, b) = 1} = {} BY <1>12
  <2> QED BY <1>15, <1>16, <2>1 DEF Renewed
<1>18. PICK c : c = coalesce(s, bp) OBVIOUS
<1>19. Merged(s, c, A \ {bp}, Size(s, bp)) BY <1>12, <1>16, <1>17, <1>18, Release
<1>20. g = c.h BY <1>7, <1>9, <1>10, <1>18 DEF mm_free
<1> QED BY <1>17, <1>19, <1>20, MergedHolds, KeepsTrans

\* extend_heap adds a free block.
LEMMA Extend ==
  ASSUME NEW h, NEW E, Ok(h, E), NEW bytes \in Int, bytes % 8 = 0, bytes >= 16,
         CanGrow(h, bytes), NEW c, c = extend_heap(h, bytes)
  PROVE  Merged(h, c, AllocIn(h, E), bytes)
<1>1. Part(h, E, {}, {}) /\ Tags(h, E) BY DEF Ok, Part
<1>2. PICK b : b = h.brk OBVIOUS
<1>3. b \in E /\ b \in 4 .. Top /\ b \in 1 .. Top /\ PrevAlloc(h, b) \in Bit
  <2>1. b \in E BY <1>1, <1>2 DEF Tags
  <2> QED BY <1>1, <2>1, EndFacts
<1>4. h \in Heap /\ Top \in Nat /\ Address = 0 .. Top /\ 4 * Top = MAX_HEAP
  BY <1>1, TopFacts DEF Tags
<1>5. PICK b2 : b2 = b + bytes \div 4 OBVIOUS
<1>6. b2 \in 4 .. Top /\ b2 \in 1 .. Top /\ b + 4 <= b2 /\ 4 * (b2 - b) = bytes
      /\ b + bytes \div 4 <= Top + 2 /\ b + bytes \div 4 - 2 = b2 - 2
  <2>1. b \in Int /\ b >= 4 /\ 4 * b + bytes <= MAX_HEAP BY <1>2, <1>3 DEF CanGrow
  <2>2. bytes \in Int /\ bytes % 8 = 0 /\ bytes >= 16 OBVIOUS
  <2>3. 4 * (bytes \div 4) = bytes /\ bytes \div 4 \in Int BY ONLY <2>2
  <2>4. PICK w \in Int : w = bytes \div 4 /\ 4 * w = bytes BY <2>3
  <2>5. b2 = b + w BY <1>5, <2>4
  <2>6. b2 \in Int /\ b + 4 <= b2 /\ 4 * (b2 - b) = bytes /\ 4 * b2 <= MAX_HEAP
    BY ONLY <2>1, <2>2, <2>4, <2>5
  <2>7. Top \in Int /\ 4 * Top = MAX_HEAP BY <1>4
  <2>8. b2 <= Top BY ONLY <2>6, <2>7
  <2> QED BY ONLY <2>1, <2>4, <2>5, <2>6, <2>7, <2>8
<1>7. PICK s : s = mem_sbrk(h, bytes) OBVIOUS
<1>8. s \in Heap /\ s.brk = b2 /\ s.mem = h.mem /\ s.seg = h.seg
  <2>1. s = [h EXCEPT !.brk = h.brk + bytes \div 4] BY <1>4, <1>7 DEF mem_sbrk, Heap
  <2>2. s = [h EXCEPT !.brk = b2] BY <1>2, <1>5, <2>1
  <2>3. b2 \in Address BY <1>4, <1>6
  <2> QED BY <1>4, <2>2, <2>3 DEF Heap
<1>9. PICK p : p = PutFree(s, b, bytes, PrevAlloc(h, b)) OBVIOUS
<1>10. /\ Wrote(s, p, b - 1, b2 - 2) /\ Size(p, b) = bytes
       /\ PrevAlloc(p, b) = PrevAlloc(h, b) /\ Alloc(p, b) = 0 /\ SizeIn(p.mem[b2 - 2]) = bytes
  <2>1. /\ Wrote(s, p, b - 1, b + bytes \div 4 - 2) /\ Size(p, b) = bytes
        /\ PrevAlloc(p, b) = PrevAlloc(h, b) /\ Alloc(p, b) = 0
        /\ SizeIn(p.mem[b + bytes \div 4 - 2]) = bytes
    BY <1>3, <1>6, <1>8, <1>9, PutFreeFacts
  <2> QED BY <1>6, <2>1
<1>11. NextBlock(p, b) = b2 BY <1>5, <1>10 DEF NextBlock
<1>12. PICK q : q = PutHeader(p, b2, 0, 0, 1) OBVIOUS
<1>13. /\ Wrote(p, q, b2 - 1, b2 - 1)
       /\ Size(q, b2) = 0 /\ PrevAlloc(q, b2) = 0 /\ Alloc(q, b2) = 1
  <2>1. PICK no \in Bit : no = 0 BY DEF Bit
  <2>2. PICK yes \in Bit : yes = 1 BY DEF Bit
  <2>3. PICK none \in Int : none = 0 OBVIOUS
  <2>4. none % 8 = 0 BY <2>3
  <2>5. q = PutHeader(p, b2, none, no, yes) /\ p \in Heap
    BY <1>10, <1>12, <2>1, <2>2, <2>3 DEF Wrote
  <2>6. /\ Wrote(p, q, b2 - 1, b2 - 1)
        /\ Size(q, b2) = none /\ PrevAlloc(q, b2) = no /\ Alloc(q, b2) = yes
    BY <1>6, <2>4, <2>5, PutHeaderFacts
  <2> QED BY <2>1, <2>2, <2>3, <2>6
<1>14. q.mem[b - 1] = p.mem[b - 1] /\ q.mem[b2 - 2] = p.mem[b2 - 2]
  BY <1>3, <1>4, <1>6, <1>13 DEF Wrote
<1>15. /\ Size(q, b) = bytes /\ PrevAlloc(q, b) = PrevAlloc(h, b) /\ Alloc(q, b) = 0
       /\ SizeIn(q.mem[b2 - 2]) = bytes
  BY <1>10, <1>14 DEF Size, PrevAlloc, Alloc
<1>16. q \in Heap /\ q.brk = b2 /\ q.seg = h.seg BY <1>8, <1>10, <1>13 DEF Wrote
<1>17. \A x \in Address : x < b - 1 \/ x >= b2 => q.mem[x] = h.mem[x]
  <2>1. b \in Int /\ b2 \in Int /\ b + 4 <= b2 BY <1>3, <1>6
  <2>2. \A x \in Address : x < b2 - 1 \/ x > b2 - 1 => q.mem[x] = p.mem[x]
    BY <1>13 DEF Wrote
  <2>3. \A x \in Address : x < b - 1 \/ x > b2 - 2 => p.mem[x] = s.mem[x]
    BY <1>10 DEF Wrote
  <2>4. ASSUME NEW x \in Address, x < b - 1 \/ x >= b2 PROVE q.mem[x] = h.mem[x]
    <3>1. x \in Int BY <1>4
    <3>2. (x < b2 - 1 \/ x > b2 - 1) /\ (x < b - 1 \/ x > b2 - 2) BY ONLY <2>1, <2>4, <3>1
    <3>3. q.mem[x] = p.mem[x] BY <2>2, <3>2
    <3>4. p.mem[x] = s.mem[x] BY <2>3, <3>2
    <3> QED BY <1>8, <3>3, <3>4
  <2> QED BY <2>4
<1>18. Size(h, b) = 0 /\ Alloc(h, b) = 1 BY <1>1, <1>2 DEF Tags
<1>19. Outside(h, q, b, b, b2) BY <1>13, <1>15, <1>17, <1>18 DEF Outside
<1>20. Piece(q, b, b2) BY <1>3, <1>6, <1>13, <1>15 DEF Piece
<1>21. Recut(h, E, q, b, b, b, b2)
  BY <1>1, <1>2, <1>3, <1>6, <1>16, <1>19, <1>20 DEF Recut
<1>22. PICK E2 : E2 = Pieces(E, b, b, b, b2) OBVIOUS
<1>23. Neighbours(h, q, b, b, b, b2, {}, {b}) BY DEF Neighbours
<1>24. FreeIn(h, E) \ {} = Beyond(FreeIn(h, E), b, b)
       /\ Beyond(AllocIn(h, E), b, b) = AllocIn(h, E)
  <2>1. FreeIn(h, E) \subseteq E /\ AllocIn(h, E) \subseteq E BY DEF FreeIn, AllocIn
  <2> QED BY <1>1, <1>3, <2>1, BeyondNothing
<1>25. Renewed(h, E, q, E2, b, b, b, {b}) BY ONLY <1>1, <1>21, <1>22, <1>23, <1>24, Renew
<1>26. AllocIn(q, E2) = AllocIn(h, E) /\ Keeps(h, q, AllocIn(h, E))
  <2>1. {x \in {b, b} : Alloc(q, x) = 1} = {} BY <1>15
  <2> QED BY <1>24, <1>25, <2>1 DEF Renewed
<1>27. c = coalesce(q, b) BY <1>2, <1>7, <1>9, <1>11, <1>12 DEF extend_heap
<1>28. Merged(q, c, AllocIn(h, E), bytes) BY <1>15, <1>25, <1>26, <1>27, Release
<1> QED BY <1>26, <1>28, KeepsTrans DEF Merged

\* The user is given bp, with room for `size` bytes of block.
Given(h, g, A, bp, size) ==
    Holds(g, A \cup {bp}) /\ bp \notin A /\ Keeps(h, g, A) /\ Size(g, bp) >= size

\* place allocates a free block.
LEMMA Place ==
  ASSUME NEW h, NEW E, Ok(h, E), NEW bp \in FreeIn(h, E),
         NEW size \in Int, size % 8 = 0, size >= 16, Size(h, bp) >= size,
         NEW g, g = place(h, bp, size)
  PROVE  Given(h, g, AllocIn(h, E), bp, size)
<1> DEFINE A == AllocIn(h, E)
<1>1. Part(h, E, {}, {}) /\ Tags(h, E) BY DEF Ok, Part
<1>2. PICK z : z = NextBlock(h, bp) OBVIOUS
<1>3. /\ bp \in E /\ bp # h.brk /\ z \in E /\ bp < z /\ PrevAlloc(h, z) = 0 /\ bp \notin A
      /\ 4 * (z - bp) = Size(h, bp) /\ 4 * (z - bp) % 8 = 0
  BY <1>1, <1>2, FreeFacts
<1>4. Alloc(h, z) = 1 BY <1>1, <1>2, CoalFacts
<1>5. PICK f : f = remove_node(h, bp) OBVIOUS
<1>6. Part(f, E, {bp}, {}) /\ SameTags(h, f, E) /\ Keeps(h, f, A)
  <2>1. bp \in FreeIn(h, E) \ {} /\ {} \cup {bp} = {bp} OBVIOUS
  <2> QED BY <1>1, <1>5, <2>1, Unlink
<1>7. /\ Tags(f, E) /\ FreeIn(f, E) = FreeIn(h, E) /\ AllocIn(f, E) = A
      /\ Alloc(f, z) = 1 /\ PrevAlloc(f, z) = 0 /\ PrevAlloc(f, bp) = PrevAlloc(h, bp)
      /\ f \in Heap
  <2>1. f \in Heap BY <1>6 DEF SameTags
  <2> QED BY <1>1, <1>3, <1>4, <1>6, <2>1, SameTagsFacts
<1>8. /\ FreeIn(f, E) \ {bp} = Beyond(FreeIn(f, E), bp, z)
      /\ Beyond(AllocIn(f, E), bp, z) = A
  <2>1. FreeIn(h, E) \subseteq E /\ A \subseteq E BY DEF FreeIn, AllocIn
  <2>2. Beyond(FreeIn(h, E), bp, z) = FreeIn(h, E) \ {bp} /\ Beyond(A, bp, z) = A \ {bp}
    BY <1>1, <1>2, <1>3, <2>1, BeyondOne
  <2> QED BY <1>3, <1>7, <2>2
<1>9. Wrote(f, f, bp, z - 2) BY <1>7 DEF Wrote
<1> HIDE DEF A
<1>10. CASE Size(h, bp) - size >= 16
  <2>1. PICK m : m = bp + size \div 4 OBVIOUS
  <2>2. PICK p : p = PutHeader(f, bp, size, PrevAlloc(f, bp), 1) OBVIOUS
  <2>3. PICK q : q = PutFree(p, m, 4 * (z - bp) - size, 1) OBVIOUS
  <2>4. /\ Recut(f, E, q, bp, m, z, z) /\ Alloc(q, bp) = 1 /\ Size(q, bp) = size
        /\ Alloc(q, m) = 0 /\ m # bp
    <3>1. 4 * (z - bp) - size >= 16 BY <1>3, <1>10
    <3> QED BY <1>3, <1>7, <1>9, <2>1, <2>2, <2>3, <3>1, CutTwo
  <2>5. PICK E2 : E2 = Pieces(E, bp, m, z, z) OBVIOUS
  <2>6. Neighbours(f, q, bp, m, z, z, {}, {})
    <3>1. Outside(f, q, bp, z, z) BY <2>4 DEF Recut
    <3> QED BY <1>7, <2>4, <3>1 DEF Neighbours, Outside
  <2>7. Renewed(f, E, q, E2, bp, m, z, {}) BY ONLY <1>6, <1>8, <2>4, <2>5, <2>6, Renew
  <2>8. AllocIn(q, E2) = A \cup {bp} /\ bp \in E2 /\ Keeps(f, q, A)
    <3>1. {b \in {bp, m} : Alloc(q, b) = 1} = {bp} BY <2>4
    <3> QED BY <1>8, <2>7, <3>1 DEF Renewed
  <2>9. g = insert_node(q, m)
    <3>1. place(h, bp, size) =
            insert_node(PutFree(PutHeader(f, bp, size, PrevAlloc(h, bp), 1),
                                m, Size(h, bp) - size, 1), m)
      BY <1>5, <1>10, <2>1 DEF place
    <3> QED BY <1>3, <1>7, <2>2, <2>3, <3>1
  <2>10. /\ Holds(g, AllocIn(q, E2)) /\ Keeps(q, g, AllocIn(q, E2))
         /\ \A e \in E2 : Size(g, e) = Size(q, e)
    BY ONLY <2>4, <2>7, <2>9, Relink
  <2>11. Keeps(h, g, A)
    <3>1. Keeps(h, q, A) BY <1>6, <2>8, KeepsTrans
    <3>2. Keeps(q, g, A) BY <2>8, <2>10 DEF Keeps
    <3> QED BY <3>1, <3>2, KeepsTrans
  <2> QED BY <1>3, <2>4, <2>8, <2>10, <2>11 DEF Given, A
<1>11. CASE ~ (Size(h, bp) - size >= 16)
  <2>1. PICK q : q = PutHeader(f, bp, 4 * (z - bp), PrevAlloc(f, bp), 1) OBVIOUS
  <2>2. g = SetPrev(q, z, 1)
    <3>1. place(h, bp, size) =
            SetPrev(PutHeader(f, bp, Size(h, bp), PrevAlloc(h, bp), 1), z, 1)
      BY <1>2, <1>5, <1>11 DEF place
    <3> QED BY <1>3, <1>7, <2>1, <3>1
  <2>3. Recut(f, E, g, bp, bp, z, z) /\ Alloc(g, bp) = 1 /\ Size(g, bp) = 4 * (z - bp)
    BY <1>3, <1>7, <1>9, <2>1, <2>2, CutOne
  <2>4. PICK E2 : E2 = Pieces(E, bp, bp, z, z) OBVIOUS
  <2>5. Neighbours(f, g, bp, bp, z, z, {}, {}) BY <2>3 DEF Neighbours
  <2>6. Renewed(f, E, g, E2, bp, bp, z, {}) BY ONLY <1>6, <1>8, <2>3, <2>4, <2>5, Renew
  <2>7. AllocIn(g, E2) = A \cup {bp} /\ Keeps(f, g, A)
    <3>1. {b \in {bp, bp} : Alloc(g, b) = 1} = {bp} BY <2>3
    <3> QED BY <1>8, <2>6, <3>1 DEF Renewed
  <2>8. Holds(g, A \cup {bp}) BY <2>3, <2>6, <2>7, WholeTaken
  <2>9. Keeps(h, g, A) BY <1>6, <2>7, KeepsTrans
  <2> QED BY <1>3, <2>3, <2>8, <2>9 DEF Given, A
<1> QED BY <1>10, <1>11

\* The sizes that are rounded up.
LEMMA LeastOf ==
  ASSUME NEW S \in SUBSET Nat, S # {}
  PROVE  Min(S) \in S /\ \A n \in S : Min(S) <= n
<1>1. \E m \in S : \A n \in S : m <= n BY LeastElement
<1> QED BY <1>1 DEF Min

LEMMA AsizeFacts ==
  ASSUME NEW size \in Nat
  PROVE  /\ asize(size) \in Int /\ asize(size) % 8 = 0 /\ asize(size) >= 16
         /\ asize(size) >= size + 4
<1>1. round_payload(size) \in Nat /\ round_payload(size) >= size
  <2>1. CASE size <= 16 \/ size > 512 BY <2>1 DEF round_payload
  <2>2. CASE ~ (size <= 16 \/ size > 512)
    <3> DEFINE S == {n \in {32, 64, 128, 256, 512} : n >= size}
    <3>1. S \in SUBSET Nat /\ 512 \in S BY <2>2
    <3>2. round_payload(size) = Min(S) BY <2>2 DEF round_payload
    <3>3. \A n \in S : n >= size OBVIOUS
    <3> HIDE DEF S
    <3>4. Min(S) \in S BY <3>1, LeastOf
    <3>5. Min(S) \in Nat /\ Min(S) >= size BY <3>1, <3>3, <3>4
    <3> QED BY <3>2, <3>5
  <2> QED BY <2>1, <2>2
<1> QED BY <1>1 DEF asize

\* The user is given a block, if mm_malloc returns one.
LEMMA MallocBlock ==
  ASSUME NEW h, NEW A, Holds(h, A), NEW size \in Nat,
         NEW got, got = mm_malloc(h, size), got.bp # NULL
  PROVE  Given(h, got.h, A, got.bp, asize(size))
<1>1. PICK E : Ok(h, E) /\ AllocIn(h, E) = A BY DEF Holds
<1>2. Tags(h, E) /\ Listed(h, FreeIn(h, E)) /\ h \in Heap
  <2>1. FreeIn(h, E) \ {} = FreeIn(h, E) OBVIOUS
  <2> QED BY <1>1, <2>1 DEF Ok, Part, Tags
<1>3. PICK need : need = asize(size) OBVIOUS
<1>4. need \in Int /\ need % 8 = 0 /\ need >= 16 BY <1>3, AsizeFacts
<1>5. CASE find_fit(h, need) # {}
  <2>1. PICK bp \in find_fit(h, need) : bp = CHOOSE b \in find_fit(h, need) : TRUE BY <1>5
  <2>2. bp \in FreeIn(h, E) /\ Size(h, bp) >= need
    <3>1. Spread(FreeIn(h, E)) BY <1>2, FreeSpread
    <3> QED BY <1>2, <1>4, <3>1, FitIsListed
  <2>3. got = [h |-> place(h, bp, need), bp |-> bp] BY <1>3, <1>5, <2>1 DEF mm_malloc
  <2>4. got.h = place(h, bp, need) /\ got.bp = bp BY <2>3
  <2> QED BY <1>1, <1>3, <1>4, <2>2, <2>4, Place
<1>6. CASE find_fit(h, need) = {}
  <2>1. PICK bytes : bytes = Max({need, CHUNKSIZE}) OBVIOUS
  <2>2. bytes \in Int /\ bytes % 8 = 0 /\ bytes >= 16 /\ bytes >= need
    <3>1. CHUNKSIZE \in Int /\ CHUNKSIZE % 8 = 0 /\ CHUNKSIZE >= 16 BY MallocAssumption
    <3>2. \E x \in {need, CHUNKSIZE} : \A y \in {need, CHUNKSIZE} : x >= y BY <1>4, <3>1
    <3>3. bytes \in {need, CHUNKSIZE} /\ \A y \in {need, CHUNKSIZE} : bytes >= y
      BY <2>1, <3>2 DEF Max
    <3> QED BY <1>4, <3>1, <3>3
  <2>3. CASE CanGrow(h, bytes)
    <3>1. PICK c : c = extend_heap(h, bytes) OBVIOUS
    <3>2. Merged(h, c, A, bytes) BY <1>1, <2>2, <2>3, <3>1, Extend
    <3>3. PICK E2 : /\ Ok(c.h, E2) /\ AllocIn(c.h, E2) = A /\ Keeps(h, c.h, A)
                    /\ c.bp \in FreeIn(c.h, E2) /\ Size(c.h, c.bp) >= bytes
      BY <3>2 DEF Merged
    <3>4. Size(c.h, c.bp) >= need
      <4>1. c.bp \in E2 /\ Tags(c.h, E2) BY <3>3 DEF FreeIn, Ok, Part
      <4>2. Size(c.h, c.bp) \in Int BY <4>1, EndFacts
      <4> QED BY <1>4, <2>2, <3>3, <4>2
    <3>5. got = [h |-> place(c.h, c.bp, need), bp |-> c.bp]
      BY <1>3, <1>6, <2>1, <2>3, <3>1 DEF mm_malloc
    <3>6. got.h = place(c.h, c.bp, need) /\ got.bp = c.bp BY <3>5
    <3>7. Given(c.h, got.h, A, got.bp, need) BY <1>4, <3>3, <3>4, <3>6, Place
    <3>8. Keeps(h, got.h, A) BY <3>3, <3>7, KeepsTrans DEF Given
    <3> QED BY <1>3, <3>7, <3>8 DEF Given
  <2>4. CASE ~ CanGrow(h, bytes)
    <3>1. got = [h |-> h, bp |-> NULL] BY <1>3, <1>6, <2>1, <2>4 DEF mm_malloc
    <3> QED BY <3>1
  <2> QED BY <2>3, <2>4
<1> QED BY <1>5, <1>6

-----------------------------------------------------------------------------
(* Resizing a block in its place *)

LEMMA SameTagsTrans ==
  ASSUME NEW h, NEW E, Tags(h, E), NEW f, SameTags(h, f, E), NEW g, SameTags(f, g, E)
  PROVE  SameTags(h, g, E)
<1>1. \A e \in E : PrevAlloc(f, e) = PrevAlloc(h, e) BY SameTagsFacts
<1> QED BY <1>1 DEF SameTags

\* f is h, but the space from a to z has been taken from the lists; K is allocated elsewhere.
Opened(h, f, E, N, K, a, z) ==
    /\ Tags(h, E) /\ SameTags(h, f, E) /\ Keeps(h, f, AllocIn(h, E)) /\ Part(f, E, N, {})
    /\ a \in E /\ z \in E /\ a < z /\ 4 * (z - a) % 8 = 0
    /\ FreeIn(h, E) \ N = Beyond(FreeIn(h, E), a, z) /\ K = Beyond(AllocIn(h, E), a, z)

LEMMA OpenNext ==
  ASSUME NEW h, NEW f, NEW E, NEW N, NEW K, NEW a, NEW y, Opened(h, f, E, N, K, a, y),
         y \in FreeIn(h, E), NEW z, z = NextBlock(h, y), NEW g, g = remove_node(f, y)
  PROVE  Opened(h, g, E, N \cup {y}, K, a, z)
<1>1. /\ Tags(h, E) /\ SameTags(h, f, E) /\ Keeps(h, f, AllocIn(h, E)) /\ Part(f, E, N, {})
      /\ a \in E /\ y \in E /\ a < y /\ 4 * (y - a) % 8 = 0
      /\ FreeIn(h, E) \ N = Beyond(FreeIn(h, E), a, y) /\ K = Beyond(AllocIn(h, E), a, y)
  BY DEF Opened
<1>2. FreeIn(f, E) = FreeIn(h, E) /\ AllocIn(f, E) = AllocIn(h, E) BY <1>1, SameTagsFacts
<1>3. /\ z \in E /\ y < z /\ y # h.brk /\ y \notin AllocIn(h, E)
      /\ 4 * (z - y) = Size(h, y) /\ Size(h, y) % 8 = 0
  BY <1>1, FreeFacts
<1>4. a \in Int /\ y \in Int /\ z \in Int BY <1>1, <1>3, EndFacts
<1>5. a < z /\ 4 * (z - a) % 8 = 0
  <2>1. 4 * (z - a) = 4 * (z - y) + 4 * (y - a) BY <1>4
  <2>2. 4 * (z - y) % 8 = 0 BY <1>3
  <2> QED BY <1>1, <1>3, <1>4, <2>1, <2>2
<1>6. y \in FreeIn(f, E) \ N
  <2>1. y \in Beyond(FreeIn(h, E), a, y) BY <1>4 DEF Beyond
  <2> QED BY <1>1, <1>2, <2>1
<1>7. Part(g, E, N \cup {y}, {}) /\ SameTags(f, g, E) /\ Keeps(f, g, AllocIn(f, E))
  BY <1>1, <1>6, Unlink
<1>8. SameTags(h, g, E) /\ Keeps(h, g, AllocIn(h, E))
  BY <1>1, <1>2, <1>7, SameTagsTrans, KeepsTrans
<1>9. \A S : S \subseteq E => Beyond(S, a, z) = Beyond(S, a, y) \ {y}
  <2>1. a <= y BY <1>1, <1>4
  <2> QED BY <1>1, <1>3, <2>1, BeyondStep
<1>10. FreeIn(h, E) \subseteq E /\ AllocIn(h, E) \subseteq E BY DEF FreeIn, AllocIn
<1>11. /\ Beyond(FreeIn(h, E), a, z) = Beyond(FreeIn(h, E), a, y) \ {y}
       /\ Beyond(AllocIn(h, E), a, z) = Beyond(AllocIn(h, E), a, y) \ {y}
  BY <1>9, <1>10
<1>12. FreeIn(h, E) \ (N \cup {y}) = Beyond(FreeIn(h, E), a, z) BY <1>1, <1>11
<1>13. K = Beyond(AllocIn(h, E), a, z)
  <2>1. y \notin Beyond(AllocIn(h, E), a, y) BY <1>3 DEF Beyond
  <2> QED BY <1>1, <1>11, <2>1
<1> QED BY <1>1, <1>3, <1>5, <1>7, <1>8, <1>12, <1>13 DEF Opened

LEMMA OpenBefore ==
  ASSUME NEW h, NEW f, NEW E, NEW N, NEW K, NEW b, NEW z, Opened(h, f, E, N, K, b, z),
         NEW to \in FreeIn(h, E), NextBlock(h, to) = b, NEW g, g = remove_node(f, to)
  PROVE  Opened(h, g, E, N \cup {to}, K, to, z)
<1>1. /\ Tags(h, E) /\ SameTags(h, f, E) /\ Keeps(h, f, AllocIn(h, E)) /\ Part(f, E, N, {})
      /\ b \in E /\ z \in E /\ b < z /\ 4 * (z - b) % 8 = 0
      /\ FreeIn(h, E) \ N = Beyond(FreeIn(h, E), b, z) /\ K = Beyond(AllocIn(h, E), b, z)
  BY DEF Opened
<1>2. FreeIn(f, E) = FreeIn(h, E) /\ AllocIn(f, E) = AllocIn(h, E) BY <1>1, SameTagsFacts
<1>3. /\ to \in E /\ to < b /\ to \notin AllocIn(h, E)
      /\ 4 * (b - to) = Size(h, to) /\ Size(h, to) % 8 = 0
  BY <1>1, FreeFacts
<1>4. b \in Int /\ to \in Int /\ z \in Int BY <1>1, <1>3, EndFacts
<1>5. to < z /\ 4 * (z - to) % 8 = 0
  <2>1. 4 * (z - to) = 4 * (z - b) + 4 * (b - to) BY <1>4
  <2>2. 4 * (b - to) % 8 = 0 BY <1>3
  <2> QED BY <1>1, <1>3, <1>4, <2>1, <2>2
<1>6. to \in FreeIn(f, E) \ N
  <2>1. to \in Beyond(FreeIn(h, E), b, z) BY <1>3 DEF Beyond
  <2> QED BY <1>1, <1>2, <2>1
<1>7. Part(g, E, N \cup {to}, {}) /\ SameTags(f, g, E) /\ Keeps(f, g, AllocIn(f, E))
  BY <1>1, <1>6, Unlink
<1>8. SameTags(h, g, E) /\ Keeps(h, g, AllocIn(h, E))
  BY <1>1, <1>2, <1>7, SameTagsTrans, KeepsTrans
<1>9. \A S : S \subseteq E => Beyond(S, to, z) = Beyond(S, b, z) \ {to}
  <2>1. \A e \in E : e \in Int BY <1>1, EndFacts
  <2>2. \A e \in E : to < e => b <= e BY <1>1, <1>3, Apart
  <2>3. \A e \in E : e < to \/ e >= z <=> (e < b \/ e >= z) /\ e # to
    BY <1>1, <1>3, <1>4, <2>1, <2>2
  <2> QED BY <2>3 DEF Beyond
<1>10. FreeIn(h, E) \subseteq E /\ AllocIn(h, E) \subseteq E BY DEF FreeIn, AllocIn
<1>11. /\ Beyond(FreeIn(h, E), to, z) = Beyond(FreeIn(h, E), b, z) \ {to}
       /\ Beyond(AllocIn(h, E), to, z) = Beyond(AllocIn(h, E), b, z) \ {to}
  BY <1>9, <1>10
<1>12. FreeIn(h, E) \ (N \cup {to}) = Beyond(FreeIn(h, E), to, z) BY <1>1, <1>11
<1>13. K = Beyond(AllocIn(h, E), to, z)
  <2>1. to \notin Beyond(AllocIn(h, E), b, z) BY <1>3 DEF Beyond
  <2> QED BY <1>1, <1>11, <2>1
<1> QED BY <1>1, <1>3, <1>5, <1>7, <1>8, <1>12, <1>13 DEF Opened

\* The block at a is the user's, with the words that u has there.
TakenAs(h, g, K, a, need, u) ==
    /\ Holds(g, K \cup {a}) /\ a \notin K /\ Keeps(h, g, K) /\ Size(g, a) >= need
    /\ \A x \in a .. a + need \div 4 - 2 : g.mem[x] = u.mem[x]

\* The whole space is taken.
LEMMA TakeAll ==
  ASSUME NEW h, NEW f, NEW E, NEW N, NEW K, NEW a, NEW z, Opened(h, f, E, N, K, a, z),
         NEW u, Wrote(f, u, a, z - 2), NEW need \in Int, need <= 4 * (z - a),
         NEW g, g = SetPrevBoth(PutHeader(u, a, 4 * (z - a), PrevAlloc(f, a), 1), z, 1)
  PROVE  TakenAs(h, g, K, a, need, u)
<1>1. /\ Tags(h, E) /\ SameTags(h, f, E) /\ Keeps(h, f, AllocIn(h, E)) /\ Part(f, E, N, {})
      /\ a \in E /\ z \in E /\ a < z /\ 4 * (z - a) % 8 = 0
      /\ FreeIn(h, E) \ N = Beyond(FreeIn(h, E), a, z) /\ K = Beyond(AllocIn(h, E), a, z)
  BY DEF Opened
<1>2. Tags(f, E) /\ FreeIn(f, E) = FreeIn(h, E) /\ AllocIn(f, E) = AllocIn(h, E)
  BY <1>1, SameTagsFacts
<1>3. /\ Recut(f, E, g, a, a, z, z) /\ Alloc(g, a) = 1 /\ Size(g, a) = 4 * (z - a)
      /\ \A x \in a .. z - 2 : g.mem[x] = u.mem[x]
  <2>1. PICK q : q = PutHeader(u, a, 4 * (z - a), PrevAlloc(f, a), 1) OBVIOUS
  <2>2. g \in {SetPrev(q, z, 1), SetPrevBoth(q, z, 1)} BY <2>1
  <2> QED BY <1>1, <1>2, <2>1, <2>2, CutOne
<1>4. PICK E2 : E2 = Pieces(E, a, a, z, z) OBVIOUS
<1>5. Neighbours(f, g, a, a, z, z, {}, {}) BY <1>3 DEF Neighbours
<1>6. FreeIn(f, E) \ N = Beyond(FreeIn(f, E), a, z) BY <1>1, <1>2
<1>7. Renewed(f, E, g, E2, a, a, z, {}) BY ONLY <1>1, <1>3, <1>4, <1>5, <1>6, Renew
<1>8. AllocIn(g, E2) = K \cup {a} /\ Keeps(f, g, K)
  <2>1. {b \in {a, a} : Alloc(g, b) = 1} = {a} BY <1>3
  <2> QED BY <1>1, <1>2, <1>7, <2>1 DEF Renewed
<1>9. Holds(g, K \cup {a}) BY <1>3, <1>7, <1>8, WholeTaken
<1>10. Keeps(h, g, K)
  <2>1. K \subseteq AllocIn(h, E) BY <1>1 DEF Beyond
  <2> QED BY <1>1, <1>8, <2>1, KeepsTrans
<1>11. a \in Int /\ z \in Int BY <1>1, EndFacts
<1>12. a \notin K BY <1>1, <1>11 DEF Beyond
<1>13. ASSUME NEW x \in a .. a + need \div 4 - 2 PROVE g.mem[x] = u.mem[x]
  <2>1. need \div 4 <= z - a BY <1>11
  <2>2. x \in a .. z - 2 BY <1>11, <2>1
  <2> QED BY <1>3, <2>2
<1>14. Size(g, a) >= need BY <1>3
<1> QED BY <1>9, <1>10, <1>12, <1>13, <1>14 DEF TakenAs

\* A part of it is taken; the rest goes on a list or is merged.
LEMMA TakePart ==
  ASSUME NEW h, NEW f, NEW E, NEW N, NEW K, NEW a, NEW z, Opened(h, f, E, N, K, a, z),
         NEW u, Wrote(f, u, a, z - 2), NEW need \in Int, need % 8 = 0, need >= 16,
         4 * (z - a) - need >= 16, NEW m, m = a + need \div 4,
         NEW q, q = PutFree(PutHeader(u, a, need, PrevAlloc(f, a), 1), m, 4 * (z - a) - need, 1),
         NEW g, \/ g = insert_node(q, m) /\ PrevAlloc(h, z) = 0 /\ Alloc(h, z) = 1
                \/ g = coalesce(SetPrevBoth(q, NextBlock(q, m), 0), m).h
  PROVE  TakenAs(h, g, K, a, need, u) /\ NextBlock(q, a) = m
<1>1. /\ Tags(h, E) /\ SameTags(h, f, E) /\ Keeps(h, f, AllocIn(h, E)) /\ Part(f, E, N, {})
      /\ a \in E /\ z \in E /\ a < z /\ 4 * (z - a) % 8 = 0
      /\ FreeIn(h, E) \ N = Beyond(FreeIn(h, E), a, z) /\ K = Beyond(AllocIn(h, E), a, z)
  BY DEF Opened
<1>2. /\ Tags(f, E) /\ FreeIn(f, E) = FreeIn(h, E) /\ AllocIn(f, E) = AllocIn(h, E)
      /\ Alloc(f, z) = Alloc(h, z) /\ PrevAlloc(f, z) = PrevAlloc(h, z)
  BY <1>1, SameTagsFacts
<1>3. PICK s : \/ s = q /\ PrevAlloc(h, z) = 0 /\ Alloc(h, z) = 1 /\ g = insert_node(s, m)
               \/ s = SetPrevBoth(q, NextBlock(q, m), 0) /\ g = coalesce(s, m).h
  OBVIOUS
<1>4. PICK p : p = PutHeader(u, a, need, PrevAlloc(f, a), 1) OBVIOUS
<1>5. /\ Recut(f, E, s, a, m, z, z) /\ Alloc(s, a) = 1 /\ Size(s, a) = need
      /\ Alloc(s, m) = 0 /\ m # a /\ NextBlock(q, m) = z /\ NextBlock(q, a) = m
      /\ \A x \in a .. m - 2 : s.mem[x] = u.mem[x]
  <2>1. q = PutFree(p, m, 4 * (z - a) - need, 1) BY <1>4
  <2>2. (s = q /\ PrevAlloc(f, z) = 0) \/ s = SetPrevBoth(q, NextBlock(q, m), 0)
    BY <1>2, <1>3
  <2> QED BY <1>1, <1>2, <1>4, <2>1, <2>2, CutTwo
<1>6. PICK E2 : E2 = Pieces(E, a, m, z, z) OBVIOUS
<1>7. FreeIn(f, E) \ N = Beyond(FreeIn(f, E), a, z) BY <1>1, <1>2
<1>8. {b \in {a, m} : Alloc(s, b) = 1} = {a} BY <1>5
<1>9. a \in Int /\ z \in Int /\ m \in Int /\ a + need \div 4 - 2 = m - 2 BY <1>1, EndFacts
<1>10. a \notin K /\ K \subseteq AllocIn(h, E) BY <1>1, <1>9 DEF Beyond
<1>11. \E Y : Renewed(f, E, s, E2, a, m, z, Y) /\ Holds(g, AllocIn(s, E2))
    /\ Keeps(s, g, AllocIn(s, E2))
  <2>1. CASE s = q /\ PrevAlloc(h, z) = 0 /\ Alloc(h, z) = 1 /\ g = insert_node(s, m)
    <3>1. Neighbours(f, s, a, m, z, z, {}, {})
      <4>1. Outside(f, s, a, z, z) BY <1>5 DEF Recut
      <4> QED BY <1>2, <1>5, <2>1, <4>1 DEF Neighbours, Outside
    <3>2. Renewed(f, E, s, E2, a, m, z, {}) BY ONLY <1>1, <1>5, <1>6, <1>7, <3>1, Renew
    <3>3. Holds(g, AllocIn(s, E2)) /\ Keeps(s, g, AllocIn(s, E2))
      BY <1>5, <2>1, <3>2, Relink
    <3> QED BY <3>2, <3>3
  <2>2. CASE s = SetPrevBoth(q, NextBlock(q, m), 0) /\ g = coalesce(s, m).h
    <3>1. Neighbours(f, s, a, m, z, z, {}, {m}) BY <1>5 DEF Neighbours
    <3>2. Renewed(f, E, s, E2, a, m, z, {m}) BY ONLY <1>1, <1>5, <1>6, <1>7, <3>1, Renew
    <3>3. PICK c : c = coalesce(s, m) OBVIOUS
    <3>4. Merged(s, c, AllocIn(s, E2), Size(s, m)) BY ONLY <1>5, <3>2, <3>3, Release
    <3>5. g = c.h BY <2>2, <3>3
    <3> QED BY <3>2, <3>4, <3>5, MergedHolds
  <2> QED BY <1>3, <2>1, <2>2
<1>12. PICK Y : Renewed(f, E, s, E2, a, m, z, Y) /\ Holds(g, AllocIn(s, E2))
                /\ Keeps(s, g, AllocIn(s, E2))
  BY <1>11
<1>13. AllocIn(s, E2) = K \cup {a} /\ Keeps(f, s, K)
  BY <1>1, <1>2, <1>8, <1>12 DEF Renewed
<1>14. Keeps(h, g, K)
  <2>1. Keeps(h, s, K) BY <1>1, <1>10, <1>13, KeepsTrans
  <2>2. Keeps(s, g, K) BY <1>12, <1>13 DEF Keeps
  <2> QED BY <2>1, <2>2, KeepsTrans
<1>15. Size(g, a) = need /\ \A x \in a .. m - 2 : g.mem[x] = s.mem[x]
  <2>1. Size(g, a) = Size(s, a) /\ \A x \in a .. NextBlock(s, a) - 2 : g.mem[x] = s.mem[x]
    BY <1>12, <1>13 DEF Keeps
  <2>2. NextBlock(s, a) = m BY <1>5 DEF NextBlock
  <2> QED BY <1>5, <2>1, <2>2
<1>16. \A x \in a .. a + need \div 4 - 2 : g.mem[x] = u.mem[x] BY <1>5, <1>9, <1>15
<1>17. Size(g, a) >= need BY <1>15
<1>18. Holds(g, K \cup {a}) BY <1>12, <1>13
<1> QED BY <1>5, <1>10, <1>14, <1>16, <1>17, <1>18 DEF TakenAs

\* To start with, the space is that of the block.
LEMMA OpenSelf ==
  ASSUME NEW h, NEW E, Ok(h, E), NEW bp \in AllocIn(h, E)
  PROVE  Opened(h, h, E, {}, AllocIn(h, E) \ {bp}, bp, NextBlock(h, bp))
<1> DEFINE z == NextBlock(h, bp)
<1>1. Part(h, E, {}, {}) /\ Tags(h, E) BY DEF Ok, Part
<1>2. /\ bp \in E /\ bp # h.brk /\ bp \notin FreeIn(h, E) /\ z \in E /\ bp < z
      /\ 4 * (z - bp) = Size(h, bp) /\ Size(h, bp) % 8 = 0
  BY <1>1, AllocFacts
<1>3. SameTags(h, h, E) /\ Keeps(h, h, AllocIn(h, E)) BY <1>1 DEF SameTags, Keeps, Tags
<1>4. FreeIn(h, E) \subseteq E /\ AllocIn(h, E) \subseteq E BY DEF FreeIn, AllocIn
<1>5. /\ Beyond(FreeIn(h, E), bp, z) = FreeIn(h, E) \ {bp}
      /\ Beyond(AllocIn(h, E), bp, z) = AllocIn(h, E) \ {bp}
  BY <1>1, <1>2, <1>4, BeyondOne
<1>6. FreeIn(h, E) \ {} = Beyond(FreeIn(h, E), bp, z) BY <1>2, <1>5
<1>7. 4 * (z - bp) % 8 = 0 BY <1>2
<1> HIDE DEF z
<1>8. Opened(h, h, E, {}, AllocIn(h, E) \ {bp}, bp, z)
  BY <1>1, <1>2, <1>3, <1>5, <1>6, <1>7 DEF Opened
<1> QED BY <1>8 DEF z

\* The space is taken, as far as it is needed.
LEMMA Take ==
  ASSUME NEW h, NEW f, NEW E, NEW N, NEW K, NEW a, NEW z, Opened(h, f, E, N, K, a, z),
         NEW u, Wrote(f, u, a, z - 2), NEW need \in Int, need % 8 = 0, need >= 16,
         NEW total, total = 4 * (z - a), need <= total,
         NEW t, t = Taken(u, a, total, need), NEW r, r = NextBlock(t, a),
         NEW g, \/ /\ Splits(total, need) /\ g = insert_node(t, r)
                   /\ PrevAlloc(h, z) = 0 /\ Alloc(h, z) = 1
                \/ Splits(total, need) /\ g = coalesce(SetPrevBoth(t, NextBlock(t, r), 0), r).h
                \/ ~ Splits(total, need) /\ g = t
  PROVE  TakenAs(h, g, K, a, need, u)
<1>1. Tags(h, E) /\ a \in E /\ z \in E /\ a < z BY DEF Opened
<1>2. a \in 4 .. Top /\ z \in 4 .. Top /\ a \in Int /\ z \in Int BY <1>1, EndFacts
<1>3. PrevAlloc(u, a) = PrevAlloc(f, a)
  <2>1. a - 1 \in Address /\ a - 1 < a BY <1>2, TopFacts
  <2>2. u.mem[a - 1] = f.mem[a - 1] BY <2>1 DEF Wrote
  <2> QED BY <2>2 DEF PrevAlloc
<1>4. total \in Int BY <1>2
<1>5. CASE ~ Splits(total, need)
  <2>1. g = SetPrevBoth(PutHeader(u, a, total, PrevAlloc(f, a), 1), a + total \div 4, 1)
    BY <1>3, <1>5 DEF Taken
  <2>2. a + total \div 4 = z BY <1>2
  <2>3. g = SetPrevBoth(PutHeader(u, a, 4 * (z - a), PrevAlloc(f, a), 1), z, 1)
    BY <2>1, <2>2
  <2>4. need <= 4 * (z - a) OBVIOUS
  <2> QED BY <2>3, <2>4, TakeAll
<1>6. CASE Splits(total, need)
  <2>1. 4 * (z - a) - need >= 16 BY <1>2, <1>6 DEF Splits
  <2>2. PICK m : m = a + need \div 4 OBVIOUS
  <2>3. t = PutFree(PutHeader(u, a, need, PrevAlloc(f, a), 1), m, 4 * (z - a) - need, 1)
    BY <1>3, <1>6, <2>2 DEF Taken
  <2>4. r = m
    <3>1. PICK g0 : g0 = coalesce(SetPrevBoth(t, NextBlock(t, m), 0), m).h OBVIOUS
    <3>2. NextBlock(t, a) = m BY <2>1, <2>2, <2>3, <3>1, TakePart
    <3> QED BY <3>2
  <2>5. \/ g = insert_node(t, m) /\ PrevAlloc(h, z) = 0 /\ Alloc(h, z) = 1
        \/ g = coalesce(SetPrevBoth(t, NextBlock(t, m), 0), m).h
    BY <1>6, <2>4
  <2> QED BY <2>1, <2>2, <2>3, <2>5, TakePart
<1> QED BY <1>5, <1>6

\* The payload is moved.
MovedWords(h, g, from, to, last) ==
    \A i \in Nat : to + i <= last => g.mem[to + i] = h.mem[from + i]

LEMMA MovedFacts ==
  ASSUME NEW h \in Heap, NEW from \in 0 .. Top, NEW to \in 0 .. Top, NEW bytes,
         NEW last \in Int, last = to + bytes \div 4 - 1, last <= Top, from + last - to <= Top,
         NEW hi \in Int, last <= hi, NEW g, g = Moved(h, from, to, bytes)
  PROVE  Wrote(h, g, to, hi) /\ MovedWords(h, g, from, to, last)
<1>1. Address = 0 .. Top /\ Top \in Nat /\ h.mem \in [Address -> Int] BY TopFacts, HeapFields
<1> DEFINE mem == [a \in Address |->
                    IF a \in to .. last THEN h.mem[from + a - to] ELSE h.mem[a]]
<1>3. g = [h EXCEPT !.mem = mem] BY DEF Moved
<1>4. ASSUME NEW a \in Address, a \in to .. last PROVE from + a - to \in Address
  <2>1. a \in Int /\ to <= a /\ a <= last BY <1>1, <1>4
  <2>2. from \in Int /\ to \in Int /\ from >= 0 OBVIOUS
  <2>4. last \in Int /\ from + last - to <= Top /\ Top \in Int BY <1>1
  <2>3. from + a - to >= 0 /\ from + a - to <= Top /\ from + a - to \in Int
    BY ONLY <2>1, <2>2, <2>4
  <2> QED BY <1>1, <2>3
<1>5. mem \in [Address -> Int] BY <1>1, <1>4
<1>6. \A a \in Address : a < to \/ a > hi => mem[a] = h.mem[a] BY <1>1
<1>7. \A a \in Address : a \in to .. last => mem[a] = h.mem[from + a - to] OBVIOUS
<1> HIDE DEF mem
<1>8. g \in Heap /\ g.mem = mem /\ g.brk = h.brk /\ g.seg = h.seg BY <1>3, <1>5 DEF Heap
<1>9. ASSUME NEW i \in Nat, to + i <= last
      PROVE  g.mem[to + i] = h.mem[from + i]
  <2>1. to + i \in Address /\ to + i \in to .. last BY <1>1, <1>9
  <2>2. from + (to + i) - to = from + i BY <1>1
  <2> QED BY <1>7, <1>8, <2>1, <2>2
<1> QED BY <1>6, <1>8, <1>9 DEF Wrote, MovedWords

\* The payload of the block bp of h is at `to` in u.
Copied(h, u, bp, to) ==
    \A i \in Nat : 4 * i < Size(h, bp) - 4 => u.mem[to + i] = h.mem[bp + i]

\* The user has, for the block bp of h, one at `to`, with what it held as far as it goes.
Regiven(h, g, A, bp, to, need) ==
    /\ Holds(g, (A \ {bp}) \cup {to}) /\ to \notin A \ {bp} /\ Keeps(h, g, A \ {bp})
    /\ Size(g, to) >= need
    /\ \A i \in Nat : 4 * i < need - 4 /\ 4 * i < Size(h, bp) - 4 =>
            g.mem[to + i] = h.mem[bp + i]

LEMMA TakenRegiven ==
  ASSUME NEW h, NEW A, NEW bp, NEW to \in Int, NEW need \in Int, need % 8 = 0,
         NEW u, Copied(h, u, bp, to), NEW g, TakenAs(h, g, A \ {bp}, to, need, u)
  PROVE  Regiven(h, g, A, bp, to, need)
<1>1. ASSUME NEW i \in Nat, 4 * i < need - 4, 4 * i < Size(h, bp) - 4
      PROVE  g.mem[to + i] = h.mem[bp + i]
  <2>1. to + i \in to .. to + need \div 4 - 2 BY <1>1
  <2>2. g.mem[to + i] = u.mem[to + i] BY <2>1 DEF TakenAs
  <2> QED BY <1>1, <2>2 DEF Copied
<1> QED BY <1>1 DEF TakenAs, Regiven

\* What is kept of an allocated block is there to copy.
LEMMA KeptCopied ==
  ASSUME NEW h, NEW E, Tags(h, E), NEW bp \in AllocIn(h, E), NEW f,
         Keeps(h, f, AllocIn(h, E))
  PROVE  Copied(h, f, bp, bp)
<1>1. bp \in E /\ 4 * (NextBlock(h, bp) - bp) = Size(h, bp) BY AllocFacts
<1>2. bp \in Int /\ NextBlock(h, bp) \in Int BY <1>1, EndFacts
<1>3. ASSUME NEW i \in Nat, 4 * i < Size(h, bp) - 4 PROVE f.mem[bp + i] = h.mem[bp + i]
  <2>1. bp + i \in bp .. NextBlock(h, bp) - 2 BY <1>1, <1>2, <1>3
  <2> QED BY <2>1 DEF Keeps
<1> QED BY <1>3 DEF Copied

\* ReallocShrink: the block is cut.
LEMMA ShrinkGiven ==
  ASSUME NEW h, NEW A, Holds(h, A), NEW bp \in A,
         NEW need \in Int, need % 8 = 0, need >= 16, need <= Size(h, bp),
         NEW rest, rest = bp + need \div 4, NEW left, left = Size(h, bp) - need,
         NEW split, split = PutFree(PutHeader(h, bp, need, PrevAlloc(h, bp), 1), rest, left, 1),
         NEW g, g = IF left < 16 THEN h
                    ELSE coalesce(SetPrevBoth(split, NextBlock(split, rest), 0), rest).h
  PROVE  Regiven(h, g, A, bp, bp, need)
<1>1. PICK E : Ok(h, E) /\ AllocIn(h, E) = A BY DEF Holds
<1>2. Tags(h, E) /\ h \in Heap BY <1>1 DEF Ok, Part, Tags
<1>3. PICK z : z = NextBlock(h, bp) OBVIOUS
<1>4. bp \in E /\ z \in E /\ bp < z /\ 4 * (z - bp) = Size(h, bp) BY <1>1, <1>2, <1>3, AllocFacts
<1>5. bp \in Int /\ z \in Int /\ Size(h, bp) \in Int BY <1>2, <1>4, EndFacts
<1>6. Keeps(h, h, A) BY DEF Keeps
<1>7. Copied(h, h, bp, bp) BY DEF Copied
<1>8. CASE left < 16
  <2>1. g = h BY <1>8
  <2>2. (A \ {bp}) \cup {bp} = A OBVIOUS
  <2>3. Keeps(h, h, A \ {bp}) BY <1>6 DEF Keeps
  <2> QED BY <1>5, <2>1, <2>2, <2>3 DEF Regiven
<1>9. CASE ~ (left < 16)
  <2>1. 4 * (z - bp) - need >= 16 /\ left = 4 * (z - bp) - need BY <1>4, <1>5, <1>9
  <2>2. Opened(h, h, E, {}, A \ {bp}, bp, z) BY <1>1, <1>3, OpenSelf
  <2>3. Wrote(h, h, bp, z - 2) BY <1>2 DEF Wrote
  <2>4. split = PutFree(PutHeader(h, bp, need, PrevAlloc(h, bp), 1), rest, 4 * (z - bp) - need, 1)
    BY <2>1
  <2>5. g = coalesce(SetPrevBoth(split, NextBlock(split, rest), 0), rest).h BY <1>9
  <2>6. TakenAs(h, g, A \ {bp}, bp, need, h) BY <2>1, <2>2, <2>3, <2>4, <2>5, TakePart
  <2> QED BY <1>5, <1>7, <2>6, TakenRegiven
<1> QED BY <1>8, <1>9

\* The free block after b, if there is one.
LEMMA FreeAfter ==
  ASSUME NEW A, Holds(heap, A), NEW bp \in A
  PROVE  /\ Alloc(heap, Next1(bp)) \in Bit /\ Size(heap, bp) \in Int /\ After(bp) \in Int
         /\ Size(heap, bp) % 8 = 0 /\ After(bp) % 8 = 0 /\ After(bp) >= 0
         /\ Alloc(heap, Next1(bp)) = 1 <=> After(bp) = 0
         /\ bp \in 4 .. Top
<1>1. PICK E : Ok(heap, E) /\ AllocIn(heap, E) = A BY DEF Holds
<1>2. Tags(heap, E) BY <1>1 DEF Ok, Part
<1>3. PICK y : y = Next1(bp) OBVIOUS
<1>4. bp \in E /\ y \in E BY <1>1, <1>2, <1>3, AllocFacts DEF Next1
<1>5. Alloc(heap, y) \in Bit /\ Size(heap, bp) \in Int /\ Size(heap, bp) % 8 = 0 /\ bp \in 4 .. Top
  BY <1>2, <1>4, EndFacts
<1>6. CASE Alloc(heap, y) = 0
  <2>1. y \in FreeIn(heap, E) BY <1>4, <1>6 DEF FreeIn
  <2>2. Size(heap, y) % 8 = 0 /\ Size(heap, y) >= 16 BY <1>2, <2>1, FreeFacts
  <2>3. Size(heap, y) \in Int BY <1>2, <1>4, EndFacts
  <2> QED BY <1>3, <1>5, <1>6, <2>2, <2>3 DEF After
<1>7. CASE Alloc(heap, y) = 1
  <2>1. After(bp) = 0 BY <1>3, <1>7 DEF After
  <2> QED BY <1>3, <1>5, <1>7, <2>1
<1> QED BY <1>5, <1>6, <1>7 DEF Bit

\* ReallocNext: with the free block after it.
LEMMA NextGiven ==
  ASSUME NEW A, Holds(heap, A), NEW bp \in A, NEW need \in Int, need % 8 = 0, need >= 16,
         After(bp) > 0, NEW total, total = Size(heap, bp) + After(bp), need <= total,
         NEW t, t = Taken(remove_node(heap, Next1(bp)), bp, total, need),
         NEW g, g = IF Splits(total, need) THEN insert_node(t, NextBlock(t, bp)) ELSE t
  PROVE  Regiven(heap, g, A, bp, bp, need)
<1>1. PICK E : Ok(heap, E) /\ AllocIn(heap, E) = A BY DEF Holds
<1>2. Part(heap, E, {}, {}) /\ Tags(heap, E) BY <1>1 DEF Ok, Part
<1>3. PICK y : y = Next1(bp) OBVIOUS
<1>4. bp \in E /\ y \in E /\ 4 * (y - bp) = Size(heap, bp) /\ bp \in Int /\ y \in Int
  BY <1>1, <1>2, <1>3, AllocFacts, EndFacts DEF Next1
<1>5. Alloc(heap, y) = 0 BY <1>3 DEF After
<1>6. y \in FreeIn(heap, E) BY <1>4, <1>5 DEF FreeIn
<1>7. PICK z : z = NextBlock(heap, y) OBVIOUS
<1>8. z \in E /\ y < z /\ PrevAlloc(heap, z) = 0 /\ 4 * (z - y) = Size(heap, y) /\ z \in Int
  BY <1>2, <1>6, <1>7, FreeFacts, EndFacts
<1>9. Alloc(heap, z) = 1 BY <1>2, <1>6, <1>7, CoalFacts
<1>10. PICK f : f = remove_node(heap, y) OBVIOUS
<1>11. Opened(heap, f, E, {} \cup {y}, A \ {bp}, bp, z)
  <2>1. Opened(heap, heap, E, {}, A \ {bp}, bp, y) BY <1>1, <1>3, OpenSelf DEF Next1
  <2> QED BY <1>6, <1>7, <1>10, <2>1, OpenNext
<1>12. f \in Heap /\ Keeps(heap, f, A) BY <1>1, <1>11 DEF Opened, SameTags
<1>13. Wrote(f, f, bp, z - 2) BY <1>12 DEF Wrote
<1>14. total = 4 * (z - bp)
  <2>1. After(bp) = Size(heap, y) BY <1>3, <1>5 DEF After
  <2> QED BY <1>4, <1>8, <2>1
<1>15. t = Taken(f, bp, total, need) BY <1>3, <1>10
<1>16. PICK r : r = NextBlock(t, bp) OBVIOUS
<1>17. \/ /\ Splits(total, need) /\ g = insert_node(t, r)
          /\ PrevAlloc(heap, z) = 0 /\ Alloc(heap, z) = 1
       \/ ~ Splits(total, need) /\ g = t
  BY <1>8, <1>9, <1>16
<1>18. TakenAs(heap, g, A \ {bp}, bp, need, f)
  BY <1>11, <1>13, <1>14, <1>15, <1>16, <1>17, Take
<1>19. Copied(heap, f, bp, bp) BY <1>1, <1>2, <1>12, KeptCopied
<1> QED BY <1>4, <1>18, <1>19, TakenRegiven

\* The payload goes back to the start of the space.
LEMMA MovedBack ==
  ASSUME NEW h, NEW E, NEW f, NEW N, NEW bp \in AllocIn(h, E), NEW to, NEW z,
         Opened(h, f, E, N, AllocIn(h, E) \ {bp}, to, z), to < bp, NextBlock(h, bp) <= z,
         NEW u, u = Moved(f, bp, to, Size(h, bp) - 4)
  PROVE  Wrote(f, u, to, z - 2) /\ Copied(h, u, bp, to)
<1>1. Tags(h, E) /\ to \in E /\ z \in E /\ f \in Heap /\ Keeps(h, f, AllocIn(h, E))
  BY DEF Opened, SameTags
<1>2. PICK y : y = NextBlock(h, bp) OBVIOUS
<1>3. bp \in E /\ y \in E /\ 4 * (y - bp) = Size(h, bp) /\ bp < y BY <1>1, <1>2, AllocFacts
<1>4. bp \in 4 .. Top /\ y \in 4 .. Top /\ to \in 4 .. Top /\ z \in 4 .. Top BY <1>1, <1>3, EndFacts
<1>5. Top \in Nat BY TopFacts
<1>6. PICK bytes : bytes = Size(h, bp) - 4 OBVIOUS
<1>7. PICK last \in Int : last = to + (y - bp - 1) - 1 BY <1>4
<1>8. last = to + bytes \div 4 - 1
  <2>1. bytes \div 4 = y - bp - 1 BY <1>3, <1>4, <1>6
  <2> QED BY <1>7, <2>1
<1>9. /\ bp \in 0 .. Top /\ to \in 0 .. Top /\ z - 2 \in Int
      /\ last <= z - 2 /\ last <= Top /\ bp + last - to <= Top
  BY <1>2, <1>4, <1>5, <1>7
<1>10. u = Moved(f, bp, to, bytes) BY <1>6
<1>11. Wrote(f, u, to, z - 2) /\ MovedWords(f, u, bp, to, last)
  <2>1. f \in Heap BY <1>1
  <2> QED BY ONLY <2>1, <1>7, <1>8, <1>9, <1>10, MovedFacts
<1>12. Copied(h, f, bp, bp) BY <1>1, KeptCopied
<1>13. ASSUME NEW i \in Nat, 4 * i < Size(h, bp) - 4 PROVE u.mem[to + i] = h.mem[bp + i]
  <2>1. to + i <= last BY <1>3, <1>4, <1>7, <1>13
  <2>2. u.mem[to + i] = f.mem[bp + i] BY <1>11, <2>1 DEF MovedWords
  <2> QED BY <1>12, <1>13, <2>2 DEF Copied
<1> QED BY <1>11, <1>13 DEF Copied

\* The free block before b, if there is one.
LEMMA FreeBack ==
  ASSUME NEW A, Holds(heap, A), NEW bp \in A
  PROVE  Before(bp) \in Int /\ Before(bp) % 8 = 0 /\ Before(bp) >= 0
<1>1. PICK E : Ok(heap, E) /\ AllocIn(heap, E) = A BY DEF Holds
<1>2. Tags(heap, E) BY <1>1 DEF Ok, Part
<1>3. bp \in E BY <1>1, <1>2, AllocFacts
<1>4. CASE PrevAlloc(heap, bp) = 0
  <2>1. PICK to : to = PrevBlock(heap, bp) OBVIOUS
  <2>2. to \in FreeIn(heap, E) /\ SizeIn(heap.mem[bp - 2]) = Size(heap, to)
    BY <1>2, <1>3, <1>4, <2>1, FreeBefore
  <2>3. to \in E /\ Size(heap, to) % 8 = 0 /\ Size(heap, to) >= 16 BY <1>2, <2>2, FreeFacts
  <2>4. Size(heap, to) \in Int BY <1>2, <2>3, EndFacts
  <2> QED BY <1>4, <2>2, <2>3, <2>4 DEF Before
<1>5. CASE PrevAlloc(heap, bp) # 0 BY <1>5 DEF Before
<1> QED BY <1>4, <1>5

\* ReallocPrev: back into the free block before it.
LEMMA PrevGiven ==
  ASSUME NEW A, Holds(heap, A), NEW bp \in A, NEW need \in Int, need % 8 = 0, need >= 16,
         Before(bp) > 0, NEW total, total = Size(heap, bp) + Before(bp), need <= total,
         NEW to, to = PrevBlock(heap, bp),
         NEW t, t = Taken(Moved(remove_node(heap, to), bp, to, Size(heap, bp) - 4),
                          to, total, need),
         NEW r, r = NextBlock(t, to),
         NEW g, g = IF ~ Splits(total, need) THEN t
                    ELSE coalesce(SetPrevBoth(t, NextBlock(t, r), 0), r).h
  PROVE  Regiven(heap, g, A, bp, to, need)
<1>1. PICK E : Ok(heap, E) /\ AllocIn(heap, E) = A BY DEF Holds
<1>2. Tags(heap, E) BY <1>1 DEF Ok, Part
<1>3. PICK z : z = NextBlock(heap, bp) OBVIOUS
<1>4. bp \in E /\ z \in E /\ bp < z /\ 4 * (z - bp) = Size(heap, bp) BY <1>1, <1>2, <1>3, AllocFacts
<1>5. PrevAlloc(heap, bp) = 0 BY DEF Before
<1>6. /\ to \in FreeIn(heap, E) /\ NextBlock(heap, to) = bp
      /\ SizeIn(heap.mem[bp - 2]) = Size(heap, to)
  BY <1>2, <1>4, <1>5, FreeBefore
<1>7. to \in E /\ to < bp /\ 4 * (bp - to) = Size(heap, to) BY <1>2, <1>6, FreeFacts
<1>8. bp \in Int /\ z \in Int /\ to \in Int BY <1>2, <1>4, <1>7, EndFacts
<1>9. PICK f : f = remove_node(heap, to) OBVIOUS
<1>10. Opened(heap, f, E, {} \cup {to}, A \ {bp}, to, z)
  <2>1. Opened(heap, heap, E, {}, A \ {bp}, bp, z) BY <1>1, <1>3, OpenSelf
  <2> QED BY <1>6, <1>9, <2>1, OpenBefore
<1>11. PICK u : u = Moved(f, bp, to, Size(heap, bp) - 4) OBVIOUS
<1>12. Wrote(f, u, to, z - 2) /\ Copied(heap, u, bp, to)
  <2>1. NextBlock(heap, bp) <= z BY <1>3, <1>8
  <2> QED BY <1>1, <1>7, <1>10, <1>11, <2>1, MovedBack
<1>13. total = 4 * (z - to)
  <2>1. Before(bp) = Size(heap, to) BY <1>5, <1>6 DEF Before
  <2> QED BY <1>4, <1>7, <1>8, <2>1
<1>14. t = Taken(u, to, total, need) BY <1>9, <1>11
<1>15. \/ Splits(total, need) /\ g = coalesce(SetPrevBoth(t, NextBlock(t, r), 0), r).h
       \/ ~ Splits(total, need) /\ g = t
  OBVIOUS
<1>16. TakenAs(heap, g, A \ {bp}, to, need, u)
  BY <1>10, <1>12, <1>13, <1>14, <1>15, Take
<1> QED BY <1>8, <1>12, <1>16, TakenRegiven

\* ReallocBoth: into both neighbours.
LEMMA BothGiven ==
  ASSUME NEW A, Holds(heap, A), NEW bp \in A, NEW need \in Int, need % 8 = 0, need >= 16,
         Before(bp) > 0, After(bp) > 0,
         NEW total, total = Size(heap, bp) + Before(bp) + After(bp), need <= total,
         NEW to, to = PrevBlock(heap, bp),
         NEW free, free = remove_node(remove_node(heap, Next1(bp)), to),
         NEW t, t = Taken(Moved(free, bp, to, Size(heap, bp) - 4), to, total, need),
         NEW g, g = IF Splits(total, need) THEN insert_node(t, NextBlock(t, to)) ELSE t
  PROVE  Regiven(heap, g, A, bp, to, need)
<1>1. PICK E : Ok(heap, E) /\ AllocIn(heap, E) = A BY DEF Holds
<1>2. Part(heap, E, {}, {}) /\ Tags(heap, E) BY <1>1 DEF Ok, Part
<1>3. PICK y : y = Next1(bp) OBVIOUS
<1>4. bp \in E /\ y \in E /\ bp < y /\ 4 * (y - bp) = Size(heap, bp)
  BY <1>1, <1>2, <1>3, AllocFacts DEF Next1
<1>5. PrevAlloc(heap, bp) = 0 /\ Alloc(heap, y) = 0 BY <1>3 DEF Before, After
<1>6. /\ to \in FreeIn(heap, E) /\ NextBlock(heap, to) = bp
      /\ SizeIn(heap.mem[bp - 2]) = Size(heap, to)
  BY <1>2, <1>4, <1>5, FreeBefore
<1>7. to \in E /\ to < bp /\ 4 * (bp - to) = Size(heap, to) BY <1>2, <1>6, FreeFacts
<1>8. y \in FreeIn(heap, E) BY <1>4, <1>5 DEF FreeIn
<1>9. PICK z : z = NextBlock(heap, y) OBVIOUS
<1>10. z \in E /\ y < z /\ PrevAlloc(heap, z) = 0 /\ 4 * (z - y) = Size(heap, y)
  BY <1>2, <1>8, <1>9, FreeFacts
<1>11. Alloc(heap, z) = 1 BY <1>2, <1>8, <1>9, CoalFacts
<1>12. bp \in Int /\ y \in Int /\ z \in Int /\ to \in Int BY <1>2, <1>4, <1>7, <1>10, EndFacts
<1>13. PICK f : f = remove_node(heap, y) OBVIOUS
<1>14. Opened(heap, f, E, {} \cup {y}, A \ {bp}, bp, z)
  <2>1. Opened(heap, heap, E, {}, A \ {bp}, bp, y) BY <1>1, <1>3, OpenSelf DEF Next1
  <2> QED BY <1>8, <1>9, <1>13, <2>1, OpenNext
<1>15. free = remove_node(f, to) BY <1>3, <1>13
<1>16. Opened(heap, free, E, ({} \cup {y}) \cup {to}, A \ {bp}, to, z)
  BY <1>6, <1>14, <1>15, OpenBefore
<1>17. PICK u : u = Moved(free, bp, to, Size(heap, bp) - 4) OBVIOUS
<1>18. Wrote(free, u, to, z - 2) /\ Copied(heap, u, bp, to)
  <2>1. NextBlock(heap, bp) <= z BY <1>3, <1>10, <1>12 DEF Next1
  <2> QED BY <1>1, <1>7, <1>16, <1>17, <2>1, MovedBack
<1>19. total = 4 * (z - to)
  <2>1. Before(bp) = Size(heap, to) BY <1>5, <1>6 DEF Before
  <2>2. After(bp) = Size(heap, y) BY <1>3, <1>5 DEF After
  <2> QED BY <1>4, <1>7, <1>10, <1>12, <2>1, <2>2
<1>20. t = Taken(u, to, total, need) BY <1>17
<1>21. PICK r : r = NextBlock(t, to) OBVIOUS
<1>22. \/ /\ Splits(total, need) /\ g = insert_node(t, r)
          /\ PrevAlloc(heap, z) = 0 /\ Alloc(heap, z) = 1
       \/ ~ Splits(total, need) /\ g = t
  BY <1>10, <1>11, <1>21
<1>23. TakenAs(heap, g, A \ {bp}, to, need, u)
  BY <1>16, <1>18, <1>19, <1>20, <1>21, <1>22, Take
<1> QED BY <1>12, <1>18, <1>23, TakenRegiven

\* The space at the end of the heap is taken and grows.
LEMMA TakeMore ==
  ASSUME NEW h, NEW f, NEW E, NEW N, NEW K, NEW a, NEW z, Opened(h, f, E, N, K, a, z),
         z = h.brk, NEW need \in Int, need % 8 = 0, need >= 16,
         NEW missing \in Int, missing = need - 4 * (z - a), missing > 0, CanGrow(h, missing),
         NEW more, more = PutHeader(mem_sbrk(f, missing), a, need, PrevAlloc(h, a), 1),
         NEW g, g = PutHeader(more, NextBlock(more, a), 0, 1, 1)
  PROVE  TakenAs(h, g, K, a, need, f)
<1>1. /\ Tags(h, E) /\ SameTags(h, f, E) /\ Keeps(h, f, AllocIn(h, E)) /\ Part(f, E, N, {})
      /\ a \in E /\ z \in E /\ a < z /\ 4 * (z - a) % 8 = 0
      /\ FreeIn(h, E) \ N = Beyond(FreeIn(h, E), a, z) /\ K = Beyond(AllocIn(h, E), a, z)
  BY DEF Opened
<1>2. /\ Tags(f, E) /\ FreeIn(f, E) = FreeIn(h, E) /\ AllocIn(f, E) = AllocIn(h, E)
      /\ PrevAlloc(f, a) = PrevAlloc(h, a) /\ f.brk = z /\ f \in Heap
  <2>1. f.brk = z /\ f \in Heap BY <1>1 DEF SameTags
  <2> QED BY <1>1, <2>1, SameTagsFacts
<1>3. /\ a \in 4 .. Top /\ a \in 1 .. Top /\ z \in 4 .. Top /\ PrevAlloc(f, a) \in Bit
  BY <1>1, <1>2, EndFacts
<1>4. Top \in Nat /\ Address = 0 .. Top /\ 4 * Top = MAX_HEAP BY TopFacts
<1>5. PICK z2 : z2 = a + need \div 4 OBVIOUS
<1>6. /\ z2 \in Int /\ 4 * (z2 - a) = need /\ z < z2 /\ z2 = z + missing \div 4 /\ a + 4 <= z2
  BY <1>3, <1>5
<1>7. z2 \in 4 .. Top /\ z2 \in 1 .. Top
  <2>1. 4 * z + missing <= 4 * Top BY <1>4 DEF CanGrow
  <2>2. 4 * z2 = need + 4 * a BY <1>3, <1>6
  <2>3. missing = need - 4 * (z - a) OBVIOUS
  <2>4. need \in Int /\ missing \in Int /\ a \in Int /\ z \in Int BY <1>3
  <2>5. 4 * z2 <= 4 * Top BY ONLY <2>1, <2>2, <2>3, <2>4
  <2>6. z2 <= Top BY ONLY <1>4, <1>6, <2>5
  <2> QED BY <1>3, <1>6, <2>6
<1>8. PICK s : s = mem_sbrk(f, missing) OBVIOUS
<1>9. s \in Heap /\ s.brk = z2 /\ s.mem = f.mem /\ s.seg = f.seg
  <2>1. s = [f EXCEPT !.brk = f.brk + missing \div 4] BY <1>2, <1>8 DEF mem_sbrk, Heap
  <2>2. s = [f EXCEPT !.brk = z2] BY <1>2, <1>6, <2>1
  <2>3. z2 \in Address BY <1>4, <1>7
  <2> QED BY <1>2, <2>2, <2>3 DEF Heap
<1>10. PICK yes \in Bit : yes = 1 BY DEF Bit
<1>11. /\ Wrote(s, more, a - 1, a - 1) /\ Size(more, a) = need
       /\ PrevAlloc(more, a) = PrevAlloc(f, a) /\ Alloc(more, a) = 1
  <2>1. more = PutHeader(s, a, need, PrevAlloc(f, a), yes) BY <1>2, <1>8, <1>10
  <2>2. need \in Int /\ need % 8 = 0 /\ yes \in Bit OBVIOUS
  <2>3. /\ Wrote(s, more, a - 1, a - 1) /\ Size(more, a) = need
        /\ PrevAlloc(more, a) = PrevAlloc(f, a) /\ Alloc(more, a) = yes
    BY ONLY <1>3, <1>9, <2>1, <2>2, PutHeaderFacts
  <2> QED BY <1>10, <2>3
<1>12. NextBlock(more, a) = z2 BY <1>5, <1>11 DEF NextBlock
<1>13. /\ Wrote(more, g, z2 - 1, z2 - 1)
       /\ Size(g, z2) = 0 /\ PrevAlloc(g, z2) = 1 /\ Alloc(g, z2) = 1
  <2>1. PICK none \in Int : none = 0 OBVIOUS
  <2>2. none % 8 = 0 BY <2>1
  <2>3. g = PutHeader(more, z2, none, yes, yes) /\ more \in Heap
    BY <1>10, <1>11, <1>12, <2>1 DEF Wrote
  <2>4. /\ Wrote(more, g, z2 - 1, z2 - 1)
        /\ Size(g, z2) = none /\ PrevAlloc(g, z2) = yes /\ Alloc(g, z2) = yes
    BY <1>7, <2>2, <2>3, PutHeaderFacts
  <2> QED BY <1>10, <2>1, <2>4
<1>14. \A x \in Address : x # a - 1 /\ x # z2 - 1 => g.mem[x] = f.mem[x]
  <2>1. ASSUME NEW x \in Address, x # a - 1, x # z2 - 1 PROVE g.mem[x] = f.mem[x]
    <3>1. x \in Int /\ a \in Int /\ z2 \in Int BY <1>3, <1>4, <1>6
    <3>2. (x < a - 1 \/ x > a - 1) /\ (x < z2 - 1 \/ x > z2 - 1) BY ONLY <2>1, <3>1
    <3>3. g.mem[x] = more.mem[x] BY <1>13, <3>2 DEF Wrote
    <3>4. more.mem[x] = s.mem[x] BY <1>11, <3>2 DEF Wrote
    <3> QED BY <1>9, <3>3, <3>4
  <2> QED BY <2>1
<1>15. g.mem[a - 1] = more.mem[a - 1]
  <2>1. a - 1 \in Address /\ a - 1 < z2 - 1 BY <1>3, <1>4, <1>6
  <2> QED BY <1>13, <2>1 DEF Wrote
<1>16. Size(g, a) = need /\ PrevAlloc(g, a) = PrevAlloc(f, a) /\ Alloc(g, a) = 1
  BY <1>11, <1>15 DEF Size, PrevAlloc, Alloc
<1>17. g \in Heap /\ g.brk = z2 /\ g.seg = f.seg BY <1>9, <1>11, <1>13 DEF Wrote
<1>18. Size(f, z) = 0 /\ Alloc(f, z) = 1 BY <1>2 DEF Tags
<1>19. Outside(f, g, a, z, z2)
  <2>1. \A x \in Address : x < a - 1 \/ x >= z2 => x # a - 1 /\ x # z2 - 1
    BY <1>3, <1>4, <1>6
  <2> QED BY <1>13, <1>14, <1>16, <1>18, <2>1 DEF Outside
<1>20. Piece(g, a, z2) BY <1>3, <1>6, <1>13, <1>16 DEF Piece
<1>21. Recut(f, E, g, a, a, z, z2)
  <2>1. a <= z /\ a \in Int BY <1>1, <1>3
  <2> QED BY <1>1, <1>2, <1>6, <1>17, <1>19, <1>20, <2>1 DEF Recut
<1>22. PICK E2 : E2 = Pieces(E, a, a, z, z2) OBVIOUS
<1>23. Neighbours(f, g, a, a, z, z2, {}, {}) BY <1>16 DEF Neighbours
<1>24. FreeIn(f, E) \ N = Beyond(FreeIn(f, E), a, z) BY <1>1, <1>2
<1>25. Renewed(f, E, g, E2, a, a, z, {}) BY ONLY <1>1, <1>21, <1>22, <1>23, <1>24, Renew
<1>26. AllocIn(g, E2) = K \cup {a} /\ Keeps(f, g, K)
  <2>1. {b \in {a, a} : Alloc(g, b) = 1} = {a} BY <1>16
  <2> QED BY <1>1, <1>2, <1>25, <2>1 DEF Renewed
<1>27. Holds(g, K \cup {a}) BY <1>16, <1>25, <1>26, WholeTaken
<1>28. Keeps(h, g, K)
  <2>1. K \subseteq AllocIn(h, E) BY <1>1 DEF Beyond
  <2> QED BY <1>1, <1>26, <2>1, KeepsTrans
<1>29. a \notin K BY <1>1, <1>3 DEF Beyond
<1>30. ASSUME NEW x \in a .. a + need \div 4 - 2 PROVE g.mem[x] = f.mem[x]
  <2>1. x \in Address /\ x # a - 1 /\ x # z2 - 1 BY <1>3, <1>4, <1>5, <1>7
  <2> QED BY <1>14, <2>1
<1>31. Size(g, a) >= need BY <1>16
<1> QED BY <1>27, <1>28, <1>29, <1>30, <1>31 DEF TakenAs

\* Only the end of the heap has no size.
LEMMA EndOnly ==
  ASSUME NEW h, NEW E, Tags(h, E), NEW b \in E, Size(h, b) = 0
  PROVE  b = h.brk
BY BlockFacts DEF Good

\* ReallocExtend: at the end of the heap.
LEMMA ExtendGiven ==
  ASSUME NEW A, Holds(heap, A), NEW bp \in A, NEW need \in Int, need % 8 = 0, need >= 16,
         AtEnd(bp + (Size(heap, bp) + After(bp)) \div 4),
         NEW missing, missing = need - Size(heap, bp) - After(bp), missing > 0,
         CanGrow(heap, missing),
         NEW free, free = IF After(bp) = 0 THEN heap ELSE remove_node(heap, Next1(bp)),
         NEW more, more = PutHeader(mem_sbrk(free, missing), bp, need, PrevAlloc(heap, bp), 1),
         NEW g, g = PutHeader(more, NextBlock(more, bp), 0, 1, 1)
  PROVE  Regiven(heap, g, A, bp, bp, need)
<1>1. PICK E : Ok(heap, E) /\ AllocIn(heap, E) = A BY DEF Holds
<1>2. Tags(heap, E) BY <1>1 DEF Ok, Part
<1>3. PICK y : y = Next1(bp) OBVIOUS
<1>4. bp \in E /\ y \in E /\ 4 * (y - bp) = Size(heap, bp) /\ bp \in Int /\ y \in Int
  BY <1>1, <1>2, <1>3, AllocFacts, EndFacts DEF Next1
<1>5. /\ Alloc(heap, y) \in Bit /\ Size(heap, bp) \in Int /\ After(bp) \in Int
      /\ Alloc(heap, y) = 1 <=> After(bp) = 0
  BY <1>3, FreeAfter
<1>6. Opened(heap, heap, E, {}, A \ {bp}, bp, y) BY <1>1, <1>3, OpenSelf DEF Next1
<1>7. \E N, z : Opened(heap, free, E, N, A \ {bp}, bp, z)
    /\ 4 * (z - bp) = Size(heap, bp) + After(bp)
  <2>1. CASE After(bp) = 0 BY <1>4, <1>5, <1>6, <2>1
  <2>2. CASE After(bp) # 0
    <3>1. Alloc(heap, y) = 0 BY <1>5, <2>2 DEF Bit
    <3>2. y \in FreeIn(heap, E) BY <1>4, <3>1 DEF FreeIn
    <3>3. PICK z : z = NextBlock(heap, y) OBVIOUS
    <3>4. z \in E /\ 4 * (z - y) = Size(heap, y) /\ z \in Int
        BY <1>2, <3>2, <3>3, FreeFacts, EndFacts
    <3>5. After(bp) = Size(heap, y) BY <1>3, <3>1 DEF After
    <3>6. 4 * (z - bp) = Size(heap, bp) + After(bp) BY <1>4, <3>4, <3>5
    <3>7. free = remove_node(heap, y) BY <1>3, <2>2
    <3>8. Opened(heap, free, E, {} \cup {y}, A \ {bp}, bp, z)
      BY <1>6, <3>2, <3>3, <3>7, OpenNext
    <3> QED BY <3>6, <3>8
  <2> QED BY <2>1, <2>2
<1>8. PICK N, z : Opened(heap, free, E, N, A \ {bp}, bp, z)
                  /\ 4 * (z - bp) = Size(heap, bp) + After(bp)
  BY <1>7
<1>9. z \in E BY <1>8 DEF Opened
<1>10. z \in Int BY <1>2, <1>9, EndFacts
<1>11. z = heap.brk
  <2>1. bp + (Size(heap, bp) + After(bp)) \div 4 = z BY <1>4, <1>5, <1>8, <1>10
  <2>2. Size(heap, z) = 0 BY <2>1 DEF AtEnd
  <2> QED BY <1>2, <1>9, <2>2, EndOnly
<1>12. missing \in Int /\ missing = need - 4 * (z - bp) BY <1>4, <1>5, <1>8, <1>10
<1>13. TakenAs(heap, g, A \ {bp}, bp, need, free) BY <1>8, <1>11, <1>12, TakeMore
<1>14. Copied(heap, free, bp, bp)
  <2>1. Keeps(heap, free, A) BY <1>1, <1>8 DEF Opened
  <2> QED BY <1>1, <1>2, <2>1, KeptCopied
<1> QED BY <1>4, <1>13, <1>14, TakenRegiven

\* The user may write to a payload.
Written(h, u, A, b) ==
    Holds(u, A) /\ Keeps(h, u, A \ {b}) /\ \A e \in A : Size(u, e) = Size(h, e)

LEMMA PayloadWritten ==
  ASSUME NEW h, NEW A, Holds(h, A), NEW b \in A, NEW u, Wrote(h, u, b, NextBlock(h, b) - 2)
  PROVE  Written(h, u, A, b)
<1>1. PICK E : Ok(h, E) /\ AllocIn(h, E) = A BY DEF Holds
<1>2. Part(h, E, {}, {}) /\ Tags(h, E) BY <1>1 DEF Ok, Part
<1>3. PICK z : z = NextBlock(h, b) OBVIOUS
<1>4. /\ b \in E /\ z \in E /\ b < z /\ b \notin FreeIn(h, E) /\ PrevAlloc(h, z) = 1
      /\ b # h.brk
  BY <1>1, <1>2, <1>3, AllocFacts
<1>5. b \in 4 .. Top /\ z \in 4 .. Top /\ Top \in Nat /\ Address = 0 .. Top
  BY <1>2, <1>4, EndFacts, TopFacts
<1>6. u \in Heap /\ u.brk = h.brk /\ u.seg = h.seg BY DEF Wrote
<1>7. \A x \in Address : x < b \/ x > z - 2 => u.mem[x] = h.mem[x] BY <1>3 DEF Wrote
<1>8. \A e \in E : e \in 4 .. Top /\ (e <= b \/ e >= z)
  <2>1. ASSUME NEW e \in E PROVE e \in 4 .. Top /\ (e <= b \/ e >= z)
    <3>1. e \in 4 .. Top BY <1>2, EndFacts
    <3>2. b < e => z <= e BY <1>2, <1>3, <1>4, Apart
    <3> QED BY <1>5, <3>1, <3>2
  <2> QED BY <2>1
<1>9. ASSUME NEW e \in E
      PROVE  u.mem[e - 1] = h.mem[e - 1] /\ (PrevAlloc(h, e) = 0 => u.mem[e - 2] = h.mem[e - 2])
  <2>1. e \in 4 .. Top /\ (e <= b \/ e >= z) BY <1>8
  <2>2. e - 1 \in Address /\ e - 2 \in Address BY <1>5, <2>1
  <2>3. e - 1 < b \/ e - 1 > z - 2 BY <1>5, <2>1
  <2>4. PrevAlloc(h, e) = 0 => e - 2 < b \/ e - 2 > z - 2
    <3>1. PrevAlloc(h, e) = 0 => e # z BY <1>4
    <3> QED BY <1>5, <2>1, <3>1
  <2> QED BY <1>7, <2>2, <2>3, <2>4
<1>10. SameTags(h, u, E) BY <1>6, <1>9 DEF SameTags
<1>11. /\ Tags(u, E) /\ FreeIn(u, E) = FreeIn(h, E) /\ AllocIn(u, E) = A /\ Coal(u, E, {})
       /\ \A e \in E : Size(u, e) = Size(h, e)
  BY <1>1, <1>2, <1>10, SameTagsFacts DEF Part
<1>12. PICK F : F = FreeIn(h, E) \ {} OBVIOUS
<1>13. ASSUME NEW f \in F
       PROVE  Size(u, f) = Size(h, f) /\ u.mem[f] = h.mem[f] /\ u.mem[f + 1] = h.mem[f + 1]
  <2>1. f \in E /\ f # b /\ f \in FreeIn(h, E) BY <1>4, <1>12 DEF FreeIn
  <2>2. f \in 4 .. Top /\ (f <= b \/ f >= z) BY <1>8, <2>1
  <2>3. f < b => f + 4 <= b BY <1>2, <1>4, <2>1, Apart
  <2>4. f + 4 <= Top
    <3>1. NextBlock(h, f) \in E /\ f # h.brk BY <1>2, <2>1, FreeFacts
    <3>2. f + 4 <= NextBlock(h, f) BY <1>2, <2>1, <3>1, BlockFacts
    <3>3. NextBlock(h, f) \in 4 .. Top BY <1>8, <3>1
    <3> QED BY <1>5, <2>2, <3>2, <3>3
  <2>5. f \in Address /\ f + 1 \in Address BY <1>5, <2>2, <2>4
  <2>6. (f < b \/ f > z - 2) /\ (f + 1 < b \/ f + 1 > z - 2) BY <1>5, <2>1, <2>2, <2>3
  <2> QED BY <1>7, <1>11, <2>1, <2>5, <2>6
<1>14. Listed(u, F)
  <2>1. Listed(h, F) /\ h \in Heap BY <1>2, <1>12 DEF Part, Tags
  <2> QED BY <1>6, <1>13, <2>1, ListedFrame
<1>15. Ok(u, E) BY <1>11, <1>12, <1>14 DEF Ok, Part
<1>16. ASSUME NEW k \in A \ {b}
       PROVE  Size(u, k) = Size(h, k) /\ \A x \in k .. NextBlock(h, k) - 2 : u.mem[x] = h.mem[x]
  <2>1. k \in E /\ k # h.brk /\ NextBlock(h, k) \in E BY <1>1, <1>2, AllocFacts
  <2>2. k \in 4 .. Top /\ NextBlock(h, k) \in 4 .. Top BY <1>8, <2>1
  <2>3. k < b => NextBlock(h, k) <= b BY <1>2, <1>4, <2>1, Apart
  <2>4. k <= b \/ k >= z BY <1>8, <2>1
  <2>5. ASSUME NEW x \in k .. NextBlock(h, k) - 2 PROVE u.mem[x] = h.mem[x]
    <3>1. x \in Address /\ (x < b \/ x > z - 2) BY <1>5, <2>2, <2>3, <2>4
    <3> QED BY <1>7, <3>1
  <2> QED BY <1>11, <2>1, <2>5
<1>17. \A e \in A : Size(u, e) = Size(h, e) BY <1>1, <1>11 DEF AllocIn
<1> QED BY <1>11, <1>15, <1>16, <1>17 DEF Holds, Keeps, Written

\* A block of the user's lies in the heap.
LEMMA HeldFacts ==
  ASSUME NEW h, NEW A, Holds(h, A), NEW b \in A
  PROVE  /\ h \in Heap /\ b \in 4 .. Top /\ NextBlock(h, b) \in 4 .. Top /\ b + 4 <= NextBlock(h, b)
         /\ Size(h, b) \in Int /\ 4 * (NextBlock(h, b) - b) = Size(h, b) /\ Size(h, b) % 8 = 0
<1>1. PICK E : Ok(h, E) /\ AllocIn(h, E) = A BY DEF Holds
<1>2. Tags(h, E) /\ h \in Heap BY <1>1 DEF Ok, Part, Tags
<1>3. b \in E /\ b # h.brk /\ NextBlock(h, b) \in E BY <1>1, <1>2, AllocFacts
<1> QED BY <1>2, <1>3, EndFacts, BlockFacts

\* ReallocMove: to a new block.
LEMMA MoveGiven ==
  ASSUME NEW A, Holds(heap, A), NEW bp \in A, NEW size \in Nat, Size(heap, bp) <= asize(size),
         NEW got, got = mm_malloc(heap, size), got.bp # NULL,
         NEW g, g = mm_free(Moved(got.h, bp, got.bp, Size(heap, bp) - 4), bp)
  PROVE  Regiven(heap, g, A, bp, got.bp, asize(size))
<1>1. PICK need : need = asize(size) OBVIOUS
<1>2. need \in Int /\ need % 8 = 0 /\ need >= 16 BY <1>1, AsizeFacts
<1>3. PICK h, to : h = got.h /\ to = got.bp OBVIOUS
<1>4. Holds(h, A \cup {to}) /\ to \notin A /\ Keeps(heap, h, A) /\ Size(h, to) >= need
  BY <1>1, <1>3, MallocBlock DEF Given
<1>5. /\ bp \in 4 .. Top /\ NextBlock(heap, bp) \in 4 .. Top
      /\ 4 * (NextBlock(heap, bp) - bp) = Size(heap, bp) /\ Size(heap, bp) \in Int
  BY HeldFacts
<1>6. /\ h \in Heap /\ to \in 4 .. Top /\ NextBlock(h, to) \in 4 .. Top
      /\ 4 * (NextBlock(h, to) - to) = Size(h, to) /\ Size(h, to) \in Int
  <2>1. to \in A \cup {to} OBVIOUS
  <2> QED BY <1>4, <2>1, HeldFacts
<1>7. Top \in Nat BY TopFacts
<1>8. PICK y, z : y = NextBlock(heap, bp) /\ z = NextBlock(h, to) OBVIOUS
<1>9. PICK bytes : bytes = Size(heap, bp) - 4 OBVIOUS
<1>10. PICK last \in Int : last = to + (y - bp - 1) - 1 BY <1>5, <1>6, <1>8
<1>11. last = to + bytes \div 4 - 1
  <2>1. bytes \div 4 = y - bp - 1 BY <1>5, <1>8, <1>9
  <2> QED BY <1>10, <2>1
<1>12. /\ bp \in 0 .. Top /\ to \in 0 .. Top /\ z - 2 \in Int
       /\ last <= z - 2 /\ last <= Top /\ bp + last - to <= Top
  <2>1. y - bp <= z - to
    <3>1. Size(heap, bp) <= need BY <1>1
    <3>2. 4 * (y - bp) <= 4 * (z - to) BY <1>2, <1>4, <1>5, <1>6, <1>8, <3>1
    <3> QED BY <1>5, <1>6, <1>8, <3>2
  <2> QED BY <1>5, <1>6, <1>7, <1>8, <1>10, <2>1
<1>13. PICK u : u = Moved(h, bp, to, bytes) OBVIOUS
<1>14. Wrote(h, u, to, z - 2) /\ MovedWords(h, u, bp, to, last)
  BY ONLY <1>6, <1>10, <1>11, <1>12, <1>13, MovedFacts
<1>15. Holds(u, A \cup {to}) /\ Keeps(h, u, A) /\ Size(u, to) = Size(h, to)
  <2>1. PICK B : B = A \cup {to} OBVIOUS
  <2>2. Holds(h, B) /\ to \in B /\ B \ {to} = A BY <1>4, <2>1
  <2>3. Wrote(h, u, to, NextBlock(h, to) - 2) BY <1>8, <1>14
  <2>4. Written(h, u, B, to) BY ONLY <2>2, <2>3, PayloadWritten
  <2> QED BY <2>1, <2>2, <2>4 DEF Written
<1>16. g = mm_free(u, bp) BY <1>3, <1>9, <1>13
<1>17. PICK K : K = (A \ {bp}) \cup {to} OBVIOUS
<1>18. Holds(g, K) /\ Keeps(u, g, K)
  <2>1. bp \in A \cup {to} /\ (A \cup {to}) \ {bp} = K BY <1>4, <1>17
  <2> QED BY <1>15, <1>16, <2>1, FreeBlock
<1>19. Keeps(heap, g, A \ {bp})
  <2>1. Keeps(heap, u, A) BY <1>4, <1>15, KeepsTrans
  <2>2. Keeps(u, g, A \ {bp}) BY <1>17, <1>18 DEF Keeps
  <2> QED BY <2>1, <2>2, KeepsTrans
<1>20. /\ Size(g, to) = Size(h, to) /\ \A x \in to .. z - 2 : g.mem[x] = u.mem[x]
  <2>1. to \in K /\ NextBlock(u, to) = z BY <1>8, <1>15, <1>17 DEF NextBlock
  <2> QED BY <1>15, <1>18, <2>1 DEF Keeps
<1>21. Copied(heap, h, bp, bp)
  <2>1. ASSUME NEW i \in Nat, 4 * i < Size(heap, bp) - 4 PROVE h.mem[bp + i] = heap.mem[bp + i]
    <3>1. bp + i \in bp .. NextBlock(heap, bp) - 2 BY <1>5, <2>1
    <3> QED BY <1>4, <3>1 DEF Keeps
  <2> QED BY <2>1 DEF Copied
<1>22. ASSUME NEW i \in Nat, 4 * i < Size(heap, bp) - 4 PROVE g.mem[to + i] = heap.mem[bp + i]
  <2>1. to + i <= last BY <1>5, <1>6, <1>8, <1>10, <1>22
  <2>2. u.mem[to + i] = h.mem[bp + i] BY <1>14, <2>1 DEF MovedWords
  <2>3. to + i \in to .. z - 2 BY <1>6, <1>10, <1>12, <2>1
  <2> QED BY <1>20, <1>21, <1>22, <2>2, <2>3 DEF Copied
<1>23. Size(g, to) >= need BY <1>4, <1>20
<1>24. Regiven(heap, g, A, bp, to, need) BY <1>4, <1>17, <1>18, <1>19, <1>22, <1>23 DEF Regiven
<1> QED BY <1>1, <1>3, <1>24

-----------------------------------------------------------------------------
(* The user's allocations *)

\* The payload of x at p is as the user left it.
Intact(h, p, x, size) == \A i \in 0 .. Words(size) - 1 : h.mem[p + i] = Token(x, i)

\* Its first words are.
Begun(h, p, x, from, size) ==
    \A i \in 0 .. Words(size) - 1 : i < from => h.mem[p + i] = Token(x, i)

LEMMA WordsFacts ==
  ASSUME NEW size \in Nat
  PROVE  /\ Words(size) \in Nat /\ 4 * Words(size) >= size
         /\ \A room \in Int : room % 4 = 0 /\ size <= room => 4 * Words(size) <= room
         /\ \A i \in Int : i < Words(size) => 4 * i < size
BY DEF Words

LEMMA KeptIntact ==
  ASSUME NEW h, NEW A, Holds(h, A), NEW g, NEW K, K \subseteq A, Keeps(h, g, K),
         NEW p \in K, NEW x, NEW size \in Nat, size <= Size(h, p) - 4, Intact(h, p, x, size)
  PROVE  size <= Size(g, p) - 4 /\ Intact(g, p, x, size)
<1>1. /\ p \in 4 .. Top /\ Size(h, p) \in Int /\ 4 * (NextBlock(h, p) - p) = Size(h, p)
      /\ NextBlock(h, p) \in 4 .. Top
  BY HeldFacts
<1>2. Size(g, p) = Size(h, p) /\ \A a \in p .. NextBlock(h, p) - 2 : g.mem[a] = h.mem[a]
  BY DEF Keeps
<1>3. ASSUME NEW i \in 0 .. Words(size) - 1 PROVE g.mem[p + i] = Token(x, i)
  <2>1. Words(size) \in Nat /\ i \in Int /\ i < Words(size) BY WordsFacts
  <2>2. 4 * i < size BY <2>1, WordsFacts
  <2>3. p + i \in p .. NextBlock(h, p) - 2 BY <1>1, <2>1, <2>2
  <2> QED BY <1>2, <2>3 DEF Intact
<1> QED BY <1>2, <1>3 DEF Intact

\* The user fills a payload, from a word on.
LEMMA FillFacts ==
  ASSUME NEW h, NEW A, Holds(h, A), NEW p \in A, NEW x \in Nat, NEW from \in Nat,
         NEW size \in Nat, size <= Size(h, p) - 4,
         Begun(h, p, x, from, size), NEW g, g = Filled(h, p, x, from, size)
  PROVE  Written(h, g, A, p) /\ Intact(g, p, x, size)
<1>1. /\ h \in Heap /\ p \in 4 .. Top /\ NextBlock(h, p) \in 4 .. Top
      /\ Size(h, p) \in Int /\ 4 * (NextBlock(h, p) - p) = Size(h, p)
  BY HeldFacts
<1>2. Address = 0 .. Top /\ Top \in Nat /\ h.mem \in [Address -> Int] BY <1>1, TopFacts, HeapFields
<1>3. PICK z, w : z = NextBlock(h, p) /\ w = Words(size) OBVIOUS
<1>4. z \in 4 .. Top /\ 4 * (z - p) = Size(h, p) BY <1>1, <1>3
<1>5. w \in Nat /\ w <= z - p - 1
  <2>1. w \in Nat BY <1>3, WordsFacts
  <2>2. PICK room \in Int : room = Size(h, p) - 4 BY <1>1
  <2>3. room % 4 = 0 /\ size <= room BY <1>1, <1>4, <2>2
  <2>4. 4 * w <= room BY <1>3, <2>3, WordsFacts
  <2> QED BY <1>1, <1>4, <2>1, <2>2, <2>4
<1> DEFINE word(a) == IF a \in p + from .. p + w - 1 THEN Token(x, a - p)
                      ELSE IF a \in p + w .. z - 2 THEN 0 ELSE h.mem[a]
           mem == [a \in Address |-> word(a)]
<1>6. g = [h EXCEPT !.mem = mem] BY <1>3 DEF Filled
<1>7. ASSUME NEW a \in Address PROVE a \in Int /\ word(a) \in Int
  <2>1. a \in Int /\ h.mem[a] \in Int /\ a - p \in Int BY <1>1, <1>2
  <2>2. Token(x, a - p) \in Int BY <2>1 DEF Token
  <2> QED BY <2>1, <2>2
<1>8. ASSUME NEW a \in Address, a < p \/ a > z - 2 PROVE word(a) = h.mem[a]
  <2>1. a \in Int /\ p \in Int /\ z \in Int BY <1>1, <1>4, <1>7
  <2>2. a \notin p + from .. p + w - 1 /\ a \notin p + w .. z - 2
    BY <1>5, <1>8, <2>1
  <2> QED BY <2>2
<1>9. ASSUME NEW i \in 0 .. w - 1 PROVE p + i \in Address /\ word(p + i) = Token(x, i)
  <2>1. i \in Int /\ 0 <= i /\ i <= w - 1 /\ p \in Int /\ z \in Int BY <1>1, <1>4, <1>5
  <2>2. p + i \in Address /\ (p + i) - p = i
    <3>1. p + i >= 0 /\ p + i <= Top /\ p + i \in Int BY <1>1, <1>2, <1>4, <1>5, <2>1
    <3> QED BY <1>2, <2>1, <3>1
  <2>3. CASE i >= from
    <3>1. p + i \in p + from .. p + w - 1 BY <1>5, <2>1, <2>3
    <3> QED BY <2>2, <3>1
  <2>4. CASE i < from
    <3>1. p + i \notin p + from .. p + w - 1 /\ p + i \notin p + w .. z - 2
      BY <1>5, <2>1, <2>4
    <3>2. word(p + i) = h.mem[p + i] BY <3>1
    <3> QED BY <1>3, <2>2, <2>4, <3>2 DEF Begun
  <2> QED BY <2>1, <2>3, <2>4
<1> HIDE DEF word
<1>10. /\ mem \in [Address -> Int] /\ \A a \in Address : a < p \/ a > z - 2 => mem[a] = h.mem[a]
       /\ \A i \in 0 .. w - 1 : mem[p + i] = Token(x, i)
  BY <1>7, <1>8, <1>9
<1> HIDE DEF mem
<1>11. g \in Heap /\ g.mem = mem /\ g.brk = h.brk /\ g.seg = h.seg BY <1>1, <1>6, <1>10 DEF Heap
<1>12. Wrote(h, g, p, NextBlock(h, p) - 2) BY <1>3, <1>10, <1>11 DEF Wrote
<1>13. Written(h, g, A, p) BY <1>12, PayloadWritten
<1>14. Intact(g, p, x, size) BY <1>3, <1>10, <1>11 DEF Intact
<1> QED BY <1>13, <1>14

Ptrs(l) == {l[x].ptr : x \in DOMAIN l}
PtrsBut(l, x) == {l[y].ptr : y \in DOMAIN l \ {x}}

\* The heap h and the allocations l agree.
Serves(h, l) ==
    /\ l \in [DOMAIN l -> [ptr : Int, size : Requests]] /\ DOMAIN l \subseteq Ids
    /\ Holds(h, Ptrs(l))
    /\ \A x, y \in DOMAIN l : x # y => l[x].ptr # l[y].ptr
    /\ \A x \in DOMAIN l : /\ l[x].size <= Size(h, l[x].ptr) - 4
                           /\ Intact(h, l[x].ptr, x, l[x].size)

LEMMA ServesFacts ==
  ASSUME NEW h, NEW l, Serves(h, l), NEW x \in DOMAIN l
  PROVE  /\ x \in Nat /\ l[x].ptr \in Ptrs(l) /\ l[x].ptr \in Int /\ l[x].size \in Requests
         /\ l[x].size \in Nat /\ l[x].size <= Size(h, l[x].ptr) - 4
         /\ Intact(h, l[x].ptr, x, l[x].size) /\ PtrsBut(l, x) = Ptrs(l) \ {l[x].ptr}
<1>1. l[x] \in [ptr : Int, size : Requests] /\ x \in Ids BY DEF Serves
<1>2. Requests \subseteq Nat /\ Ids \subseteq Nat BY MallocAssumption
<1>3. PtrsBut(l, x) = Ptrs(l) \ {l[x].ptr} BY DEF Serves, Ptrs, PtrsBut
<1> QED BY <1>1, <1>2, <1>3 DEF Serves, Ptrs

\* x is given the block p of q, in which its first words are right.
LEMMA Grant ==
  ASSUME NEW h, NEW l, Serves(h, l), NEW x \in Ids, NEW size \in Requests, NEW q, NEW p,
         Holds(q, PtrsBut(l, x) \cup {p}), p \notin PtrsBut(l, x), Keeps(h, q, PtrsBut(l, x)),
         size <= Size(q, p) - 4, NEW from \in Nat,
         Begun(q, p, x, from, size), NEW g, g = Filled(q, p, x, from, size),
         NEW l2, l2 = [y \in DOMAIN l \cup {x} |->
                        IF y = x THEN [ptr |-> p, size |-> size] ELSE l[y]]
  PROVE  Serves(g, l2)
<1>1. PICK K : K = PtrsBut(l, x) OBVIOUS
<1>2. PICK B : B = K \cup {p} OBVIOUS
<1>3. Holds(q, B) /\ p \in B /\ p \notin K /\ Keeps(h, q, K) /\ B \ {p} = K BY <1>1, <1>2
<1>4. size \in Nat /\ x \in Nat /\ Requests \subseteq Nat BY MallocAssumption
<1>5. Written(q, g, B, p) /\ Intact(g, p, x, size) BY <1>3, <1>4, FillFacts
<1>6. Holds(g, B) /\ Keeps(q, g, K) /\ Size(g, p) = Size(q, p) BY <1>3, <1>5 DEF Written
<1>7. Keeps(h, g, K) BY <1>3, <1>6, KeepsTrans
<1>8. /\ DOMAIN l2 = DOMAIN l \cup {x} /\ l2[x] = [ptr |-> p, size |-> size]
      /\ \A y \in DOMAIN l \ {x} : l2[y] = l[y]
  OBVIOUS
<1>9. p \in Int BY <1>3, HeldFacts
<1>10. l2 \in [DOMAIN l2 -> [ptr : Int, size : Requests]] /\ DOMAIN l2 \subseteq Ids
  <2>1. \A y \in DOMAIN l : l[y] \in [ptr : Int, size : Requests] BY DEF Serves
  <2>2. [ptr |-> p, size |-> size] \in [ptr : Int, size : Requests] BY <1>9
  <2>3. DOMAIN l \subseteq Ids BY DEF Serves
  <2> QED BY <1>8, <2>1, <2>2, <2>3
<1>11. Ptrs(l2) = B BY <1>1, <1>2, <1>8 DEF Ptrs, PtrsBut
<1>12. ASSUME NEW y \in DOMAIN l \ {x}
       PROVE  /\ l2[y].ptr = l[y].ptr /\ l2[y].ptr \in K
              /\ l2[y].size <= Size(g, l2[y].ptr) - 4
              /\ Intact(g, l2[y].ptr, y, l2[y].size)
  <2>1. PICK r, s : r = l[y].ptr /\ s = l[y].size OBVIOUS
  <2>2. l2[y].ptr = r /\ l2[y].size = s BY <1>8, <2>1
  <2>3. s \in Nat /\ s <= Size(h, r) - 4 /\ Intact(h, r, y, s) BY <2>1, ServesFacts
  <2>4. r \in K BY <1>1, <2>1 DEF PtrsBut
  <2>5. Holds(h, Ptrs(l)) /\ K \subseteq Ptrs(l) BY <1>1 DEF Serves, Ptrs, PtrsBut
  <2>6. s <= Size(g, r) - 4 /\ Intact(g, r, y, s) BY <1>7, <2>3, <2>4, <2>5, KeptIntact
  <2> QED BY <2>1, <2>2, <2>4, <2>6
<1>13. \A y \in DOMAIN l2 : /\ l2[y].size <= Size(g, l2[y].ptr) - 4
                            /\ Intact(g, l2[y].ptr, y, l2[y].size)
  <2>1. size <= Size(g, p) - 4 BY <1>6
  <2>2. l2[x].ptr = p /\ l2[x].size = size BY <1>8
  <2> QED BY <1>5, <1>8, <1>12, <2>1, <2>2
<1>14. ASSUME NEW y \in DOMAIN l2, NEW v \in DOMAIN l2, y # v PROVE l2[y].ptr # l2[v].ptr
  <2>1. l2[x].ptr = p BY <1>8
  <2>2. CASE y = x BY <1>3, <1>8, <1>12, <1>14, <2>1, <2>2
  <2>3. CASE v = x BY <1>3, <1>8, <1>12, <1>14, <2>1, <2>3
  <2>4. CASE y # x /\ v # x
    <3>1. y \in DOMAIN l \ {x} /\ v \in DOMAIN l \ {x} BY <1>8, <2>4
    <3>2. l[y].ptr # l[v].ptr BY <1>14, <3>1 DEF Serves
    <3> QED BY <1>12, <3>1, <3>2
  <2> QED BY <2>2, <2>3, <2>4
<1> QED BY <1>6, <1>10, <1>11, <1>13, <1>14 DEF Serves

LEMMA NeedFacts ==
  ASSUME NEW size \in Nat
  PROVE  /\ Slack(size) \in Nat /\ Need(size) = asize(Slack(size))
         /\ Need(size) \in Int /\ Need(size) % 8 = 0 /\ Need(size) >= 16
         /\ Need(size) >= size + 4
<1>1. Slack(size) \in Nat /\ Slack(size) >= size BY DEF Slack
<1>2. PICK s \in Nat : s = Slack(size) BY <1>1
<1>3. asize(s) \in Int /\ asize(s) % 8 = 0 /\ asize(s) >= 16 /\ asize(s) >= s + 4 BY AsizeFacts
<1>4. Need(size) = asize(s) BY <1>2 DEF Need
<1> QED BY <1>1, <1>2, <1>3, <1>4

\* An allocation that has been resized.
LEMMA ResizedServes ==
  ASSUME NEW h, NEW l, Serves(h, l), NEW x \in DOMAIN l, NEW size \in Requests, NEW q, NEW to,
         Regiven(h, q, Ptrs(l), l[x].ptr, to, Need(size)),
         NEW g, g = Filled(q, to, x, Min({Words(l[x].size), Words(size)}), size),
         NEW l2, l2 = [l EXCEPT ![x] = [ptr |-> to, size |-> size]]
  PROVE  Serves(g, l2)
<1>1. size \in Nat /\ x \in Ids BY MallocAssumption DEF Serves
<1>2. PICK p, old : p = l[x].ptr /\ old = l[x].size OBVIOUS
<1>3. /\ x \in Nat /\ p \in Ptrs(l) /\ old \in Nat /\ old <= Size(h, p) - 4
      /\ Intact(h, p, x, old) /\ PtrsBut(l, x) = Ptrs(l) \ {p}
  BY <1>2, ServesFacts
<1>4. Holds(h, Ptrs(l)) BY DEF Serves
<1>5. Size(h, p) \in Int BY <1>3, <1>4, HeldFacts
<1>6. PICK need : need = Need(size) OBVIOUS
<1>7. need \in Int /\ need >= size + 4 BY <1>1, <1>6, NeedFacts
<1>8. /\ Holds(q, PtrsBut(l, x) \cup {to}) /\ to \notin PtrsBut(l, x)
      /\ Keeps(h, q, PtrsBut(l, x)) /\ Size(q, to) >= need
      /\ \A i \in Nat : 4 * i < need - 4 /\ 4 * i < Size(h, p) - 4 =>
            q.mem[to + i] = h.mem[p + i]
  BY <1>2, <1>3, <1>6 DEF Regiven
<1>9. PICK from : from = Min({Words(old), Words(size)}) OBVIOUS
<1>10. from \in Nat /\ from <= Words(old)
  <2>1. Words(old) \in Nat /\ Words(size) \in Nat BY <1>1, <1>3, WordsFacts
  <2>2. {Words(old), Words(size)} \in SUBSET Nat BY <2>1
  <2>3. from \in {Words(old), Words(size)} /\ \A n \in {Words(old), Words(size)} : from <= n
    BY <1>9, <2>2, LeastOf
  <2> QED BY <2>1, <2>3
<1>11. ASSUME NEW i \in 0 .. Words(size) - 1, i < from PROVE q.mem[to + i] = Token(x, i)
  <2>1. Words(old) \in Nat /\ Words(size) \in Nat BY <1>1, <1>3, WordsFacts
  <2>2. i \in Nat /\ i < Words(old) /\ i < Words(size) BY <1>10, <1>11, <2>1
  <2>3. 4 * i < old /\ 4 * i < size BY <1>1, <1>3, <2>2, WordsFacts
  <2>4. 4 * i < need - 4 /\ 4 * i < Size(h, p) - 4 BY <1>1, <1>3, <1>5, <1>7, <2>2, <2>3
  <2>5. q.mem[to + i] = h.mem[p + i] BY <1>8, <2>2, <2>4
  <2>6. i \in 0 .. Words(old) - 1 BY <2>1, <2>2
  <2> QED BY <1>3, <2>5, <2>6 DEF Intact
<1>12. Begun(q, to, x, from, size) BY <1>11 DEF Begun
<1>13. size <= Size(q, to) - 4
  <2>1. to \in PtrsBut(l, x) \cup {to} OBVIOUS
  <2>2. Size(q, to) \in Int BY <1>8, <2>1, HeldFacts
  <2> QED BY <1>1, <1>7, <1>8, <2>2
<1>14. l2 = [y \in DOMAIN l \cup {x} |->
                IF y = x THEN [ptr |-> to, size |-> size] ELSE l[y]]
  <2>1. l = [y \in DOMAIN l |-> l[y]] BY DEF Serves
  <2>2. DOMAIN l \cup {x} = DOMAIN l OBVIOUS
  <2> QED BY <2>1, <2>2
<1>15. g = Filled(q, to, x, from, size) BY <1>2, <1>9
<1>16. /\ Holds(q, PtrsBut(l, x) \cup {to}) /\ to \notin PtrsBut(l, x)
       /\ Keeps(h, q, PtrsBut(l, x))
  BY <1>8
<1>17. Serves(h, l) /\ x \in Ids /\ size \in Requests /\ from \in Nat BY <1>1, <1>10
<1> QED BY ONLY <1>12, <1>13, <1>14, <1>15, <1>16, <1>17, Grant

LEMMA FreedServes ==
  ASSUME NEW h, NEW l, Serves(h, l), NEW x \in DOMAIN l, NEW g, g = mm_free(h, l[x].ptr),
         NEW l2, l2 = [y \in DOMAIN l \ {x} |-> l[y]]
  PROVE  Serves(g, l2)
<1>1. PICK K : K = PtrsBut(l, x) OBVIOUS
<1>2. l[x].ptr \in Ptrs(l) /\ Ptrs(l) \ {l[x].ptr} = K BY <1>1, ServesFacts
<1>3. Holds(h, Ptrs(l)) BY DEF Serves
<1>4. Holds(g, K) /\ Keeps(h, g, K) BY <1>2, <1>3, FreeBlock
<1>5. DOMAIN l2 = DOMAIN l \ {x} /\ \A y \in DOMAIN l2 : l2[y] = l[y] OBVIOUS
<1>6. Ptrs(l2) = K BY <1>1, <1>5 DEF Ptrs, PtrsBut
<1>7. ASSUME NEW y \in DOMAIN l2
      PROVE  l2[y].size <= Size(g, l2[y].ptr) - 4 /\ Intact(g, l2[y].ptr, y, l2[y].size)
  <2>1. PICK r, s : r = l[y].ptr /\ s = l[y].size OBVIOUS
  <2>2. l2[y].ptr = r /\ l2[y].size = s BY <1>5, <2>1
  <2>3. s \in Nat /\ s <= Size(h, r) - 4 /\ Intact(h, r, y, s) BY <1>5, <2>1, ServesFacts
  <2>4. r \in K BY <1>1, <1>5, <2>1 DEF PtrsBut
  <2>5. K \subseteq Ptrs(l) BY <1>2
  <2>6. s <= Size(g, r) - 4 /\ Intact(g, r, y, s) BY <1>3, <1>4, <2>3, <2>4, <2>5, KeptIntact
  <2> QED BY <2>2, <2>6
<1>8. l2 \in [DOMAIN l2 -> [ptr : Int, size : Requests]] /\ DOMAIN l2 \subseteq Ids
  BY <1>5 DEF Serves
<1>9. \A y, v \in DOMAIN l2 : y # v => l2[y].ptr # l2[v].ptr BY <1>5 DEF Serves
<1> QED BY <1>4, <1>6, <1>7, <1>8, <1>9 DEF Serves

LEMMA MallocServes ==
  ASSUME NEW h, NEW l, Serves(h, l), NEW x \in Ids \ DOMAIN l, NEW size \in Requests,
         NEW got, got = mm_malloc(h, size), got.bp # NULL,
         NEW g, g = Filled(got.h, got.bp, x, 0, size),
         NEW l2, l2 = [y \in DOMAIN l \cup {x} |->
                        IF y = x THEN [ptr |-> got.bp, size |-> size] ELSE l[y]]
  PROVE  Serves(g, l2)
<1>1. size \in Nat BY MallocAssumption
<1>2. Holds(h, Ptrs(l)) BY DEF Serves
<1>3. PtrsBut(l, x) = Ptrs(l) BY DEF Ptrs, PtrsBut
<1>4. PICK q, p : q = got.h /\ p = got.bp OBVIOUS
<1>5. Given(h, q, Ptrs(l), p, asize(size)) BY <1>1, <1>2, <1>4, MallocBlock
<1>6. /\ Holds(q, PtrsBut(l, x) \cup {p}) /\ p \notin PtrsBut(l, x) /\ Keeps(h, q, PtrsBut(l, x))
      /\ Size(q, p) >= asize(size)
  BY <1>3, <1>5 DEF Given
<1>7. size <= Size(q, p) - 4
  <2>1. p \in PtrsBut(l, x) \cup {p} OBVIOUS
  <2>2. Size(q, p) \in Int BY <1>6, <2>1, HeldFacts
  <2>3. asize(size) \in Int /\ asize(size) >= size + 4 BY <1>1, AsizeFacts
  <2> QED BY <1>1, <1>6, <2>2, <2>3
<1>8. PICK from \in Nat : from = 0 OBVIOUS
<1>9. Begun(q, p, x, from, size) BY <1>8 DEF Begun
<1>10. g = Filled(q, p, x, from, size) BY <1>4, <1>8
<1>11. l2 = [y \in DOMAIN l \cup {x} |-> IF y = x THEN [ptr |-> p, size |-> size] ELSE l[y]]
  BY <1>4
<1> QED BY <1>6, <1>7, <1>9, <1>10, <1>11, Grant

\* mm_init: the heap that holds nothing.
LEMMA EmptyOk == Ok(Empty, {4}) /\ AllocIn(Empty, {4}) = {} /\ CanGrow(Empty, CHUNKSIZE)
<1>1. Address = 0 .. Top /\ Top \in Nat /\ Top >= 8 /\ 3 \in Address
    /\ 4 \in Address /\ 0 \in Address
  BY TopFacts
<1>2. PICK h : h = Empty OBVIOUS
<1>3. /\ h.mem \in [Address -> Int] /\ h.brk = 4 /\ h.seg \in [0 .. CLASSNUM - 1 -> Address]
      /\ h.mem[3] = 3 /\ \A c \in Classes : h.seg[c] = NULL
  BY <1>1, <1>2 DEF Empty, NULL, Classes
<1>4. h \in Heap
  <2>1. h = [mem |-> h.mem, brk |-> h.brk, seg |-> h.seg] BY <1>2 DEF Empty
  <2> QED BY <1>1, <1>3, <2>1 DEF Heap
<1>5. h.mem[4 - 1] = 3 BY <1>3
<1>6. Size(h, 4) = 0 /\ Alloc(h, 4) = 1 /\ PrevAlloc(h, 4) = 1
  BY <1>5 DEF Size, SizeIn, Alloc, PrevAlloc
<1>7. Tags(h, {4}) BY <1>3, <1>4, <1>6 DEF Tags
<1>8. FreeIn(h, {4}) \ {} = {} /\ AllocIn(h, {4}) = {} /\ Coal(h, {4}, {})
  BY <1>3, <1>6 DEF FreeIn, AllocIn, Coal
<1>9. Listed(h, {})
  <2>1. ASSUME NEW c \in Classes PROVE CircleOf(h, {}, c)
    <3>1. PICK s : s = [i \in 1 .. 0 |-> 0] OBVIOUS
    <3>2. s \in [1 .. 0 -> Address] BY <3>1
    <3>3. Cls(h, {}, c) = {} BY DEF Cls
    <3>4. Circle(h, h.seg[c], 0, s, {}) BY <1>3 DEF Circle
    <3> QED BY <3>2, <3>3, <3>4 DEF CircleOf
  <2> QED BY <2>1 DEF Listed
<1>10. Ok(h, {4}) BY <1>7, <1>8, <1>9 DEF Ok, Part
<1>11. CanGrow(h, CHUNKSIZE) BY <1>3, MallocAssumption DEF CanGrow
<1> QED BY <1>2, <1>8, <1>10, <1>11

LEMMA InitServes == Init => Serves(heap, live)
<1>1. SUFFICES ASSUME Init PROVE Serves(heap, live) OBVIOUS
<1>2. PICK c : c = extend_heap(Empty, CHUNKSIZE) OBVIOUS
<1>3. heap = c.h /\ live = [id \in {} |-> NULL] BY <1>1, <1>2 DEF Init
<1>4. CHUNKSIZE \in Int /\ CHUNKSIZE % 8 = 0 /\ CHUNKSIZE >= 16 BY MallocAssumption
<1>5. PICK h, E : h = Empty /\ E = {4} OBVIOUS
<1>6. Ok(h, E) /\ AllocIn(h, E) = {} /\ CanGrow(h, CHUNKSIZE) /\ c = extend_heap(h, CHUNKSIZE)
  BY <1>2, <1>5, EmptyOk
<1>7. Merged(h, c, AllocIn(h, E), CHUNKSIZE) BY ONLY <1>4, <1>6, Extend
<1>8. Holds(heap, {}) BY <1>3, <1>6, <1>7, MergedHolds
<1>9. PICK l : l = live OBVIOUS
<1>10. DOMAIN l = {} /\ l \in [DOMAIN l -> [ptr : Int, size : Requests]] BY <1>3, <1>9
<1>11. Ptrs(l) = {} BY <1>10 DEF Ptrs
<1> QED BY <1>8, <1>9, <1>10, <1>11 DEF Serves

\* The inductive invariant.
HeapServes == Serves(heap, live)

LEMMA RegivenServes ==
  ASSUME Serves(heap, live), NEW id \in DOMAIN live, NEW size \in Requests, NEW q, NEW to,
         Regiven(heap, q, Ptrs(live), Block(id), to, Need(size)), Resized(q, id, to, size)
  PROVE  Serves(heap, live)'
<1>1. PICK g, l : g = heap' /\ l = live' OBVIOUS
<1>2. /\ g = Filled(q, to, id, Min({Words(live[id].size), Words(size)}), size)
      /\ l = [live EXCEPT ![id] = [ptr |-> to, size |-> size]]
  BY <1>1 DEF Resized
<1>3. Regiven(heap, q, Ptrs(live), live[id].ptr, to, Need(size)) BY DEF Block
<1>4. Serves(g, l) BY <1>2, <1>3, ResizedServes
<1>5. Serves(heap', live') BY <1>1, <1>4
<1> QED BY <1>5 DEF Serves, Ptrs

\* What every way of mm_realloc starts from.
LEMMA BlockOf ==
  ASSUME Serves(heap, live), NEW id \in DOMAIN live, NEW size \in Requests
  PROVE  /\ Holds(heap, Ptrs(live)) /\ Block(id) \in Ptrs(live)
         /\ size \in Nat /\ Need(size) \in Int /\ Need(size) % 8 = 0 /\ Need(size) >= 16
         /\ Size(heap, Block(id)) \in Int /\ After(Block(id)) \in Int /\ Before(Block(id)) \in Int
         /\ After(Block(id)) >= 0 /\ Before(Block(id)) >= 0
         /\ Missing(id, size) = Need(size) - Size(heap, Block(id))
<1>1. size \in Nat BY MallocAssumption
<1>2. Holds(heap, Ptrs(live)) BY DEF Serves
<1>3. Block(id) \in Ptrs(live) BY ServesFacts DEF Block
<1> QED BY <1>1, <1>2, <1>3, NeedFacts, FreeAfter, FreeBack DEF Missing

LEMMA ShrinkServes ==
  ASSUME Serves(heap, live), NEW id \in Ids, NEW size \in Requests, ReallocShrink(id, size)
  PROVE  Serves(heap, live)'
<1>1. id \in DOMAIN live BY DEF ReallocShrink
<1>2. PICK bp, need : bp = Block(id) /\ need = Need(size) OBVIOUS
<1>3. /\ Holds(heap, Ptrs(live)) /\ bp \in Ptrs(live)
      /\ need \in Int /\ need % 8 = 0 /\ need >= 16
      /\ Size(heap, bp) \in Int /\ Missing(id, size) = need - Size(heap, bp)
  BY <1>1, <1>2, BlockOf
<1>4. PICK rest, left : rest = bp + need \div 4 /\ left = Size(heap, bp) - need OBVIOUS
<1>5. - Missing(id, size) = left /\ need <= Size(heap, bp)
  <2>1. Missing(id, size) <= 0 BY DEF ReallocShrink
  <2> QED BY <1>3, <1>4, <2>1
<1>6. PICK split : split = PutFree(PutHeader(heap, bp, need, PrevAlloc(heap, bp), 1), rest, left, 1)
  OBVIOUS
<1>7. PICK g : g = IF left < 16 THEN heap
                   ELSE coalesce(SetPrevBoth(split, NextBlock(split, rest), 0), rest).h
  OBVIOUS
<1>8. Resized(g, id, bp, size) BY <1>2, <1>4, <1>5, <1>6, <1>7 DEF ReallocShrink
<1>9. Regiven(heap, g, Ptrs(live), bp, bp, need) BY <1>3, <1>4, <1>5, <1>6, <1>7, ShrinkGiven
<1> QED BY <1>1, <1>2, <1>8, <1>9, RegivenServes

LEMMA ExtendServes ==
  ASSUME Serves(heap, live), NEW id \in Ids, NEW size \in Requests, ReallocExtend(id, size)
  PROVE  Serves(heap, live)'
<1>1. id \in DOMAIN live BY DEF ReallocExtend
<1>2. PICK bp, need : bp = Block(id) /\ need = Need(size) OBVIOUS
<1>3. /\ Holds(heap, Ptrs(live)) /\ bp \in Ptrs(live)
      /\ need \in Int /\ need % 8 = 0 /\ need >= 16
      /\ Size(heap, bp) \in Int /\ After(bp) \in Int
      /\ Missing(id, size) = need - Size(heap, bp)
  BY <1>1, <1>2, BlockOf
<1>4. PICK missing : missing = Missing(id, size) - After(bp) OBVIOUS
<1>5. missing = need - Size(heap, bp) - After(bp) BY <1>3, <1>4
<1>6. missing > 0 /\ AtEnd(bp + (Size(heap, bp) + After(bp)) \div 4) /\ CanGrow(heap, missing)
  BY <1>2, <1>4 DEF ReallocExtend
<1>7. PICK free : free = IF After(bp) = 0 THEN heap ELSE remove_node(heap, Next1(bp)) OBVIOUS
<1>8. PICK more : more = PutHeader(mem_sbrk(free, missing), bp, need, PrevAlloc(heap, bp), 1)
  OBVIOUS
<1>9. PICK g : g = PutHeader(more, NextBlock(more, bp), 0, 1, 1) OBVIOUS
<1>10. Resized(g, id, bp, size) BY <1>2, <1>4, <1>7, <1>8, <1>9 DEF ReallocExtend
<1>11. Regiven(heap, g, Ptrs(live), bp, bp, need)
  BY <1>3, <1>5, <1>6, <1>7, <1>8, <1>9, ExtendGiven
<1> QED BY <1>1, <1>2, <1>10, <1>11, RegivenServes

LEMMA NextServes ==
  ASSUME Serves(heap, live), NEW id \in Ids, NEW size \in Requests, ReallocNext(id, size)
  PROVE  Serves(heap, live)'
<1>1. id \in DOMAIN live BY DEF ReallocNext
<1>2. PICK bp, need : bp = Block(id) /\ need = Need(size) OBVIOUS
<1>3. /\ Holds(heap, Ptrs(live)) /\ bp \in Ptrs(live)
      /\ need \in Int /\ need % 8 = 0 /\ need >= 16
      /\ Size(heap, bp) \in Int /\ After(bp) \in Int
      /\ Missing(id, size) = need - Size(heap, bp)
  BY <1>1, <1>2, BlockOf
<1>4. PICK total : total = Size(heap, bp) + After(bp) OBVIOUS
<1>5. After(bp) > 0 /\ need <= total
  <2>1. Missing(id, size) \in 1 .. After(bp) BY <1>2 DEF ReallocNext
  <2> QED BY <1>3, <1>4, <2>1
<1>6. PICK t : t = Taken(remove_node(heap, Next1(bp)), bp, total, need) OBVIOUS
<1>7. PICK g : g = IF Splits(total, need) THEN insert_node(t, NextBlock(t, bp)) ELSE t OBVIOUS
<1>8. Resized(g, id, bp, size) BY <1>2, <1>4, <1>6, <1>7 DEF ReallocNext
<1>9. Regiven(heap, g, Ptrs(live), bp, bp, need) BY <1>3, <1>4, <1>5, <1>6, <1>7, NextGiven
<1> QED BY <1>1, <1>2, <1>8, <1>9, RegivenServes

LEMMA PrevServes ==
  ASSUME Serves(heap, live), NEW id \in Ids, NEW size \in Requests, ReallocPrev(id, size)
  PROVE  Serves(heap, live)'
<1>1. id \in DOMAIN live BY DEF ReallocPrev, MustMove
<1>2. PICK bp, need : bp = Block(id) /\ need = Need(size) OBVIOUS
<1>3. /\ Holds(heap, Ptrs(live)) /\ bp \in Ptrs(live)
      /\ need \in Int /\ need % 8 = 0 /\ need >= 16
      /\ Size(heap, bp) \in Int /\ After(bp) \in Int /\ Before(bp) \in Int /\ After(bp) >= 0
      /\ Missing(id, size) = need - Size(heap, bp)
  BY <1>1, <1>2, BlockOf
<1>4. PICK total, to : total = Size(heap, bp) + Before(bp) /\ to = PrevBlock(heap, bp) OBVIOUS
<1>5. Before(bp) > 0 /\ need <= total
  <2>1. Missing(id, size) > After(bp) /\ Missing(id, size) <= Before(bp)
    BY <1>2 DEF ReallocPrev, MustMove
  <2> QED BY <1>3, <1>4, <2>1
<1>6. PICK t : t = Taken(Moved(remove_node(heap, to), bp, to, Size(heap, bp) - 4), to, total, need)
  OBVIOUS
<1>7. PICK r : r = NextBlock(t, to) OBVIOUS
<1>8. PICK g : g = IF ~ Splits(total, need) THEN t
                   ELSE coalesce(SetPrevBoth(t, NextBlock(t, r), 0), r).h
  OBVIOUS
<1>9. Resized(g, id, to, size) BY <1>2, <1>4, <1>6, <1>7, <1>8 DEF ReallocPrev
<1>10. Regiven(heap, g, Ptrs(live), bp, to, need)
  BY <1>3, <1>4, <1>5, <1>6, <1>7, <1>8, PrevGiven
<1> QED BY <1>1, <1>2, <1>9, <1>10, RegivenServes

LEMMA BothServes ==
  ASSUME Serves(heap, live), NEW id \in Ids, NEW size \in Requests, ReallocBoth(id, size)
  PROVE  Serves(heap, live)'
<1>1. id \in DOMAIN live BY DEF ReallocBoth, MustMove
<1>2. PICK bp, need : bp = Block(id) /\ need = Need(size) OBVIOUS
<1>3. /\ Holds(heap, Ptrs(live)) /\ bp \in Ptrs(live)
      /\ need \in Int /\ need % 8 = 0 /\ need >= 16
      /\ Size(heap, bp) \in Int /\ After(bp) \in Int /\ Before(bp) \in Int
      /\ Missing(id, size) = need - Size(heap, bp)
  BY <1>1, <1>2, BlockOf
<1>4. PICK total, to : total = Size(heap, bp) + Before(bp) + After(bp) /\ to = PrevBlock(heap, bp)
  OBVIOUS
<1>5. Before(bp) > 0 /\ After(bp) > 0 /\ need <= total
  <2>1. Before(bp) > 0 /\ After(bp) > 0 /\ Missing(id, size) <= Before(bp) + After(bp)
    BY <1>2 DEF ReallocBoth, BothSides
  <2> QED BY <1>3, <1>4, <2>1
<1>6. PICK free : free = remove_node(remove_node(heap, Next1(bp)), to) OBVIOUS
<1>7. PICK t : t = Taken(Moved(free, bp, to, Size(heap, bp) - 4), to, total, need) OBVIOUS
<1>8. PICK g : g = IF Splits(total, need) THEN insert_node(t, NextBlock(t, to)) ELSE t OBVIOUS
<1>9. Resized(g, id, to, size) BY <1>2, <1>4, <1>6, <1>7, <1>8 DEF ReallocBoth
<1>10. Regiven(heap, g, Ptrs(live), bp, to, need)
  BY <1>3, <1>4, <1>5, <1>6, <1>7, <1>8, BothGiven
<1> QED BY <1>1, <1>2, <1>9, <1>10, RegivenServes

LEMMA MoveServes ==
  ASSUME Serves(heap, live), NEW id \in Ids, NEW size \in Requests, ReallocMove(id, size)
  PROVE  Serves(heap, live)'
<1>1. id \in DOMAIN live BY DEF ReallocMove, MustMove
<1>2. PICK bp, need : bp = Block(id) /\ need = Need(size) OBVIOUS
<1>3. /\ Holds(heap, Ptrs(live)) /\ bp \in Ptrs(live) /\ size \in Nat
      /\ need \in Int /\ Size(heap, bp) \in Int /\ After(bp) \in Int /\ After(bp) >= 0
      /\ Missing(id, size) = need - Size(heap, bp)
  BY <1>1, <1>2, BlockOf
<1>4. PICK s : s = Slack(size) OBVIOUS
<1>5. s \in Nat /\ need = asize(s) BY <1>2, <1>3, <1>4, NeedFacts
<1>6. Size(heap, bp) <= asize(s)
  <2>1. Missing(id, size) > After(bp) BY <1>2 DEF ReallocMove, MustMove
  <2> QED BY <1>3, <1>5, <2>1
<1>7. PICK got : got = mm_malloc(heap, s) OBVIOUS
<1>8. PICK g : g = mm_free(Moved(got.h, bp, got.bp, Size(heap, bp) - 4), bp) OBVIOUS
<1>9. got.bp # NULL /\ Resized(g, id, got.bp, size) BY <1>2, <1>4, <1>7, <1>8 DEF ReallocMove
<1>10. Regiven(heap, g, Ptrs(live), bp, got.bp, asize(s))
  BY <1>3, <1>5, <1>6, <1>7, <1>8, <1>9, MoveGiven
<1> QED BY <1>1, <1>2, <1>5, <1>9, <1>10, RegivenServes

LEMMA MallocStep ==
  ASSUME Serves(heap, live), NEW size \in Requests, Malloc(size)
  PROVE  Serves(heap, live)'
<1>1. PICK id \in NewId :
        LET got == mm_malloc(heap, size)
        IN  /\ got.bp # NULL
            /\ heap' = Filled(got.h, got.bp, id, 0, size)
            /\ live' = [x \in DOMAIN live \cup {id} |->
                            IF x = id THEN [ptr |-> got.bp, size |-> size] ELSE live[x]]
  BY DEF Malloc
<1>2. id \in Ids \ DOMAIN live
  <2>1. PICK S : S = Ids \ DOMAIN live OBVIOUS
  <2>2. S \in SUBSET Nat BY <2>1, MallocAssumption
  <2>3. S # {} /\ id = Min(S) BY <1>1, <2>1 DEF NewId
  <2>4. Min(S) \in S BY <2>2, <2>3, LeastOf
  <2> QED BY <2>1, <2>3, <2>4
<1>3. PICK got, g, l : got = mm_malloc(heap, size) /\ g = heap' /\ l = live' OBVIOUS
<1>4. /\ got.bp # NULL /\ g = Filled(got.h, got.bp, id, 0, size)
      /\ l = [y \in DOMAIN live \cup {id} |->
                IF y = id THEN [ptr |-> got.bp, size |-> size] ELSE live[y]]
  BY <1>1, <1>3
<1>5. Serves(g, l) BY <1>2, <1>3, <1>4, MallocServes
<1>6. Serves(heap', live') BY <1>3, <1>5
<1> QED BY <1>6 DEF Serves, Ptrs

LEMMA FreeStep ==
  ASSUME Serves(heap, live), NEW id \in Ids, Free(id)
  PROVE  Serves(heap, live)'
<1>1. PICK g, l : g = heap' /\ l = live' OBVIOUS
<1>2. /\ id \in DOMAIN live /\ g = mm_free(heap, live[id].ptr)
      /\ l = [x \in DOMAIN live \ {id} |-> live[x]]
  BY <1>1 DEF Free
<1>3. Serves(g, l) BY <1>2, FreedServes
<1>4. Serves(heap', live') BY <1>1, <1>3
<1> QED BY <1>4 DEF Serves, Ptrs

\* The inductive invariant of the allocator: the heap is cut into blocks whose tags agree,
\* the lists hold the free ones, and the user's payloads are what the user left.
THEOREM HeapInvariant == Spec => []HeapServes
<1>1. Init => HeapServes BY InitServes DEF HeapServes
<1>2. HeapServes /\ [Next]_vars => HeapServes'
  <2> SUFFICES ASSUME HeapServes, [Next]_vars PROVE HeapServes' OBVIOUS
  <2> USE DEF HeapServes
  <2>1. CASE \E size \in Requests : Malloc(size) BY <2>1, MallocStep
  <2>2. CASE \E id \in Ids : Free(id) BY <2>2, FreeStep
  <2>3. ASSUME NEW id \in Ids, NEW size \in Requests,
               \/ ReallocShrink(id, size) \/ ReallocExtend(id, size) \/ ReallocNext(id, size)
               \/ ReallocPrev(id, size) \/ ReallocBoth(id, size) \/ ReallocMove(id, size)
        PROVE  HeapServes'
    <3>1. CASE ReallocShrink(id, size) BY <3>1, ShrinkServes
    <3>2. CASE ReallocExtend(id, size) BY <3>2, ExtendServes
    <3>3. CASE ReallocNext(id, size) BY <3>3, NextServes
    <3>4. CASE ReallocPrev(id, size) BY <3>4, PrevServes
    <3>5. CASE ReallocBoth(id, size) BY <3>5, BothServes
    <3>6. CASE ReallocMove(id, size) BY <3>6, MoveServes
    <3> QED BY <2>3, <3>1, <3>2, <3>3, <3>4, <3>5, <3>6
  <2>4. CASE UNCHANGED vars BY <2>4 DEF vars, Serves, Ptrs
  <2> QED BY <2>1, <2>2, <2>3, <2>4 DEF Next
<1> QED BY <1>1, <1>2, PTL DEF Spec

-----------------------------------------------------------------------------
(* The properties *)

\* One block after the other.
LEMMA BlockAtFacts ==
  ASSUME NEW E, Tags(heap, E)
  PROVE  /\ BlockAt[0] = 4
         /\ \A i \in 1 .. MaxBlocks : BlockAt[i - 1] \in E =>
                BlockAt[i] = IF BlockAt[i - 1] = heap.brk THEN heap.brk
                             ELSE NextBlock(heap, BlockAt[i - 1])
<1> DEFINE Step(b) == IF Size(heap, b) \in 8 .. 4 * (heap.brk - b) THEN NextBlock(heap, b) ELSE b
           Eq(f) == f = [i \in 0 .. MaxBlocks |-> IF i = 0 THEN 4 ELSE Step(f[i - 1])]
<1>1. MaxBlocks \in Nat BY MaxBlocksNat
<1>2. 4 \in E /\ heap.brk \in E /\ Size(heap, heap.brk) = 0 BY DEF Tags
<1>3. ASSUME NEW b \in E
      PROVE  Step(b) = (IF b = heap.brk THEN heap.brk ELSE NextBlock(heap, b)) /\ Step(b) \in E
  <2>1. CASE b = heap.brk BY <1>2, <2>1
  <2>2. CASE b # heap.brk
    <3>1. /\ NextBlock(heap, b) \in E /\ b + 4 <= NextBlock(heap, b)
          /\ NextBlock(heap, b) <= heap.brk
      BY <2>2, BlockFacts
    <3>2. /\ Size(heap, b) \in Int /\ 4 * (NextBlock(heap, b) - b) = Size(heap, b)
          /\ b \in Int /\ NextBlock(heap, b) \in Int /\ heap.brk \in Int
      BY EndFacts
    <3>3. Size(heap, b) \in 8 .. 4 * (heap.brk - b) BY <3>1, <3>2
    <3> QED BY <2>2, <3>1, <3>3
  <2> QED BY <2>1, <2>2
<1>4. BlockAt = CHOOSE f : Eq(f) BY DEF BlockAt
<1> HIDE DEF Step
<1>5. \E f : Eq(f)
  <2> DEFINE next == [b \in E |-> Step(b)]
  <2>1. next \in [E -> E] /\ \A b \in E : next[b] = Step(b) BY <1>3
  <2> HIDE DEF next
  <2>2. HasSteps(E, next, 4, MaxBlocks) BY <1>1, <1>2, <2>1, Iterates
  <2>3. PICK f \in [0 .. MaxBlocks -> E] :
          f[0] = 4 /\ \A i \in 1 .. MaxBlocks : f[i] = next[f[i - 1]]
    BY <2>2 DEF HasSteps, Steps
  <2>4. ASSUME NEW i \in 0 .. MaxBlocks PROVE f[i] = IF i = 0 THEN 4 ELSE Step(f[i - 1])
    <3>1. CASE i = 0 BY <2>3, <3>1
    <3>2. CASE i # 0
      <4>1. i \in 1 .. MaxBlocks /\ i - 1 \in 0 .. MaxBlocks BY <1>1, <3>2
      <4>2. f[i - 1] \in E BY <4>1
      <4> QED BY <2>1, <2>3, <3>2, <4>1, <4>2
    <3> QED BY <3>1, <3>2
  <2> QED BY <2>4
<1> HIDE DEF Eq
<1>6. Eq(BlockAt) BY <1>4, <1>5
<1>7. \A i \in 0 .. MaxBlocks : BlockAt[i] = IF i = 0 THEN 4 ELSE Step(BlockAt[i - 1])
  <2>1. BlockAt = [i \in 0 .. MaxBlocks |-> IF i = 0 THEN 4 ELSE Step(BlockAt[i - 1])]
    BY <1>6 DEF Eq
  <2> QED BY <2>1
<1>8. BlockAt[0] = 4
  <2>1. 0 \in 0 .. MaxBlocks BY <1>1
  <2> QED BY <1>7, <2>1
<1>9. ASSUME NEW i \in 1 .. MaxBlocks, BlockAt[i - 1] \in E
      PROVE  BlockAt[i] = IF BlockAt[i - 1] = heap.brk THEN heap.brk
                          ELSE NextBlock(heap, BlockAt[i - 1])
  <2>1. i \in 0 .. MaxBlocks /\ i # 0 BY <1>1
  <2>2. BlockAt[i] = Step(BlockAt[i - 1]) BY <1>7, <2>1
  <2> QED BY <1>3, <1>9, <2>2
<1> QED BY <1>8, <1>9

\* The headers lead to every block and to the end.
LEMMA EndsAre ==
  ASSUME NEW E, Tags(heap, E)
  PROVE  Ends = E
<1> DEFINE Reached(i) == /\ BlockAt[i] \in E
                         /\ BlockAt[i] = heap.brk \/ BlockAt[i] >= 4 + 4 * i
                         /\ \A e \in E : e <= BlockAt[i] => \E j \in 0 .. i : BlockAt[j] = e
           T == {i \in Nat : i <= MaxBlocks => Reached(i)}
<1>1. MaxBlocks \in Nat /\ Top <= 4 * MaxBlocks + 3 /\ Top \in Nat BY MaxBlocksNat, TopFacts
<1>2. 4 \in E /\ heap.brk \in E BY DEF Tags
<1>3. \A e \in E : e \in 4 .. Top /\ e <= heap.brk /\ heap.brk \in 4 .. Top BY EndFacts
<1>4. 0 \in T
  <2>1. BlockAt[0] = 4 BY BlockAtFacts
  <2>2. \A e \in E : e <= 4 => e = 4 BY <1>3
  <2>3. Reached(0) BY <1>2, <2>1, <2>2
  <2> QED BY <2>3
<1>5. ASSUME NEW i \in Nat, i \in T PROVE i + 1 \in T
  <2>1. SUFFICES ASSUME i + 1 <= MaxBlocks PROVE Reached(i + 1) OBVIOUS
  <2>2. Reached(i) BY <1>1, <1>5, <2>1
  <2>3. PICK b : b = BlockAt[i] OBVIOUS
  <2>4. b \in E /\ (b = heap.brk \/ b >= 4 + 4 * i) BY <2>2, <2>3
  <2>5. \A e \in E : e <= b => \E j \in 0 .. i : BlockAt[j] = e BY <2>2, <2>3
  <2>6. BlockAt[i + 1] = IF b = heap.brk THEN heap.brk ELSE NextBlock(heap, b)
    <3>1. i + 1 \in 1 .. MaxBlocks /\ (i + 1) - 1 = i BY <1>1, <2>1
    <3> QED BY <2>3, <2>4, <3>1, BlockAtFacts
  <2> HIDE DEF Reached, T
  <2>7. CASE b = heap.brk
    <3>1. BlockAt[i + 1] = b BY <2>6, <2>7
    <3>2. \A j \in 0 .. i : j \in 0 .. i + 1 OBVIOUS
    <3>3. \A e \in E : e <= b => \E j \in 0 .. i + 1 : BlockAt[j] = e BY <2>5, <3>2
    <3> QED BY <2>4, <2>7, <3>1, <3>3 DEF Reached
  <2>8. CASE b # heap.brk
    <3>1. PICK n : n = NextBlock(heap, b) OBVIOUS
    <3>2. n \in E /\ b + 4 <= n /\ BlockAt[i + 1] = n BY <2>4, <2>6, <2>8, <3>1, BlockFacts
    <3>3. b \in Int /\ n \in Int BY <1>3, <2>4, <3>2
    <3>4. n >= 4 + 4 * (i + 1) BY <2>4, <2>8, <3>2, <3>3
    <3>5. ASSUME NEW e \in E, e <= n PROVE \E j \in 0 .. i + 1 : BlockAt[j] = e
      <4>1. CASE e <= b
        <5>1. PICK j \in 0 .. i : BlockAt[j] = e BY <2>5, <4>1
        <5>2. j \in 0 .. i + 1 OBVIOUS
        <5> QED BY <5>1, <5>2
      <4>2. CASE b < e
        <5>1. n <= e BY <2>4, <3>1, <4>2, Apart
        <5>2. e = n BY <1>3, <3>3, <3>5, <5>1
        <5>3. i + 1 \in 0 .. i + 1 OBVIOUS
        <5> QED BY <3>2, <5>2, <5>3
      <4>3. e \in Int BY <1>3
      <4> QED BY <3>3, <4>1, <4>2, <4>3
    <3> QED BY <3>2, <3>4, <3>5 DEF Reached
  <2> QED BY <2>7, <2>8
<1>6. \A i \in Nat : i \in T
  <2> HIDE DEF T
  <2> QED BY <1>4, <1>5, SetInduction
<1>7. ASSUME NEW i \in 0 .. MaxBlocks PROVE BlockAt[i] \in E
  <2>1. i \in Nat /\ i <= MaxBlocks /\ i \in T BY <1>1, <1>6
  <2> QED BY <2>1
<1>8. Reached(MaxBlocks) BY <1>1, <1>6
<1>9. BlockAt[MaxBlocks] = heap.brk
  <2>1. BlockAt[MaxBlocks] \in 4 .. Top BY <1>3, <1>8
  <2>2. ~ (BlockAt[MaxBlocks] >= 4 + 4 * MaxBlocks) BY <1>1, <2>1
  <2> QED BY <1>8, <2>2
<1>10. \A e \in E : \E j \in 0 .. MaxBlocks : BlockAt[j] = e BY <1>3, <1>8, <1>9
<1> HIDE DEF T, Reached
<1> QED BY <1>7, <1>10 DEF Ends

\* A list has no more blocks than the heap has room for.
LEMMA ListLength ==
  ASSUME NEW F, Spread(F), NEW n \in Nat, NEW s \in [1 .. n -> F],
         \A i, j \in 1 .. n : s[i] = s[j] => i = j
  PROVE  n <= MaxBlocks
<1>1. MaxBlocks \in Nat /\ Top <= 4 * MaxBlocks + 3 /\ Top \in Nat BY MaxBlocksNat, TopFacts
<1>2. SUFFICES ASSUME n > MaxBlocks PROVE FALSE BY <1>1
<1>3. \A i \in 1 .. n : s[i] \in F /\ s[i] \in 4 .. Top - 2 BY DEF Spread
<1> DEFINE f == [i \in 1 .. n |-> s[i] \div 4]
<1>4. f \in [1 .. n -> 1 .. MaxBlocks]
  <2>1. ASSUME NEW i \in 1 .. n PROVE s[i] \div 4 \in 1 .. MaxBlocks BY <1>1, <1>3
  <2> QED BY <2>1
<1>5. \A i \in 1 .. n : f[i] = s[i] \div 4 OBVIOUS
<1> HIDE DEF f
<1>6. IsFiniteSet(1 .. n) /\ Cardinality(1 .. n) = n
  <2>1. 1 \in Int /\ n \in Int /\ ~ (1 > n) BY <1>1, <1>2
  <2>2. Cardinality(1 .. n) = n - 1 + 1 BY <2>1, FS_Interval
  <2> QED BY <2>1, <2>2, FS_Interval
<1>7. IsFiniteSet(1 .. MaxBlocks) /\ Cardinality(1 .. MaxBlocks) = MaxBlocks
  <2>1. 1 \in Int /\ MaxBlocks \in Int BY <1>1
  <2>2. Cardinality(1 .. MaxBlocks) = IF 1 > MaxBlocks THEN 0 ELSE MaxBlocks - 1 + 1
    BY <2>1, FS_Interval
  <2> QED BY <1>1, <2>1, <2>2, FS_Interval
<1>8. PICK i, j \in 1 .. n : i # j /\ f[i] = f[j]
  <2>1. Cardinality(1 .. MaxBlocks) < Cardinality(1 .. n) BY <1>1, <1>2, <1>6, <1>7
  <2> QED BY ONLY <1>4, <1>6, <1>7, <2>1, FS_PigeonHole
<1>9. s[i] # s[j] /\ s[i] \div 4 = s[j] \div 4 BY <1>5, <1>8
<1>10. s[i] + 4 <= s[j] \/ s[j] + 4 <= s[i] BY <1>3, <1>9 DEF Spread
<1>11. s[i] \in Int /\ s[j] \in Int BY <1>3
<1> QED BY ONLY <1>9, <1>10, <1>11

\* The user sees a list as the links lead round it.
LEMMA OnListIs ==
  ASSUME NEW h \in Heap, NEW F, Listed(h, F), Spread(F), NEW c \in Classes,
         NEW head, head = h.seg[c], NEW at, at = OnList(h, head)
  PROVE  /\ {at[i] : i \in Round(h, head)} = Cls(h, F, c)
         /\ \A b \in Cls(h, F, c) : h.mem[h.mem[b + 1]] = b
<1>1. PICK n \in Nat : \E s \in [1 .. n -> Address] : Circle(h, head, n, s, Cls(h, F, c))
  BY DEF Listed, CircleOf
<1>2. PICK s \in [1 .. n -> Address] : Circle(h, head, n, s, Cls(h, F, c)) BY <1>1
<1>3. PICK S : S = Cls(h, F, c) OBVIOUS
<1>4. /\ S = {s[i] : i \in 1 .. n} /\ \A i, j \in 1 .. n : s[i] = s[j] => i = j
      /\ IF n = 0 THEN head = NULL ELSE head = s[1]
      /\ \A i \in 1 .. n : /\ h.mem[s[i] + 1] = s[IF i = n THEN 1 ELSE i + 1]
                           /\ h.mem[s[i]] = s[IF i = 1 THEN n ELSE i - 1]
  BY <1>2, <1>3 DEF Circle
<1>5. S \subseteq F BY <1>3 DEF Cls
<1>6. s \in [1 .. n -> F] BY <1>4, <1>5
<1>7. n <= MaxBlocks /\ MaxBlocks \in Nat BY <1>4, <1>6, ListLength, MaxBlocksNat
<1>8. \A b \in S : h.mem[h.mem[b + 1]] = b
  <2>1. ASSUME NEW i \in 1 .. n PROVE h.mem[h.mem[s[i] + 1]] = s[i]
    <3>1. CASE i = n
      <4>1. h.mem[s[i] + 1] = s[1] /\ 1 \in 1 .. n BY <1>4, <3>1
      <4>2. h.mem[s[1]] = s[n] BY <1>4, <4>1
      <4> QED BY <3>1, <4>1, <4>2
    <3>2. CASE i # n
      <4>1. i + 1 \in 1 .. n /\ i + 1 # 1 /\ (i + 1) - 1 = i BY <3>2
      <4>2. h.mem[s[i] + 1] = s[i + 1] BY <1>4, <3>2
      <4>3. h.mem[s[i + 1]] = s[i] BY <1>4, <4>1
      <4> QED BY <4>2, <4>3
    <3> QED BY <3>1, <3>2
  <2> QED BY <1>4, <2>1
<1>9. CASE n = 0
  <2>1. S = {} /\ head = NULL BY <1>4, <1>9
  <2>2. Round(h, head) = {} BY <2>1 DEF Round
  <2> QED BY <1>3, <1>8, <2>1, <2>2
<1>10. CASE n # 0
  <2>1. n > 0 /\ 1 \in 1 .. n /\ n \in 1 .. n BY <1>10
  <2>2. /\ \A i \in 1 .. MaxBlocks : at[i] = h.mem[at[i - 1] + 1]
        /\ \A i \in 0 .. MaxBlocks : i < n => at[i] = s[i + 1]
    BY <1>2, <2>1, OnListFacts
  <2>3. head = s[1] /\ head \in Address /\ head # NULL
    <3>1. head = s[1] BY <1>4, <1>10
    <3>2. s[1] \in F BY <1>6, <2>1
    <3>3. head \in 4 .. Top - 2 BY <3>1, <3>2 DEF Spread
    <3>4. head # NULL BY <3>3 DEF NULL
    <3> QED BY <2>1, <3>1, <3>4
  <2>4. at[n] = head
    <3>1. n \in 1 .. MaxBlocks /\ n - 1 \in 0 .. MaxBlocks /\ n - 1 < n /\ (n - 1) + 1 = n
      BY <1>7, <2>1
    <3>2. at[n] = h.mem[at[n - 1] + 1] /\ at[n - 1] = s[n] BY <2>2, <3>1
    <3> QED BY <1>4, <2>1, <2>3, <3>2
  <2>5. Round(h, head) = {i \in 0 .. MaxBlocks : \A j \in 1 .. i : at[j] # head}
    BY <2>3 DEF Round
  <2>6. ASSUME NEW i \in 0 .. MaxBlocks PROVE i \in Round(h, head) <=> i < n
    <3>1. CASE i < n
      <4>1. ASSUME NEW j \in 1 .. i PROVE at[j] # head
        <5>1. j \in 0 .. MaxBlocks /\ j < n /\ j + 1 \in 1 .. n /\ j + 1 # 1 BY <1>7, <3>1
        <5>2. at[j] = s[j + 1] BY <2>2, <5>1
        <5> QED BY <1>4, <2>1, <2>3, <5>1, <5>2
      <4> QED BY <2>5, <3>1, <4>1
    <3>2. CASE ~ (i < n)
      <4>1. n \in 1 .. i BY <2>1, <3>2
      <4> QED BY <2>4, <2>5, <3>2, <4>1
    <3> QED BY <3>1, <3>2
  <2>7. ASSUME NEW i \in Round(h, head) PROVE at[i] \in S
    <3>1. i \in 0 .. MaxBlocks BY <2>5
    <3>2. i < n /\ i + 1 \in 1 .. n BY <2>6, <3>1
    <3>3. at[i] = s[i + 1] BY <2>2, <3>1, <3>2
    <3> QED BY <1>4, <3>2, <3>3
  <2>8. ASSUME NEW k \in 1 .. n PROVE \E i \in Round(h, head) : at[i] = s[k]
    <3>1. k - 1 \in 0 .. MaxBlocks /\ k - 1 < n /\ (k - 1) + 1 = k BY <1>7
    <3>2. k - 1 \in Round(h, head) BY <2>6, <3>1
    <3>3. at[k - 1] = s[k] BY <2>2, <3>1
    <3> QED BY <3>2, <3>3
  <2>9. {at[i] : i \in Round(h, head)} = S BY <1>4, <2>7, <2>8
  <2> QED BY <1>3, <1>8, <2>9
<1> QED BY <1>9, <1>10

LEMMA ServesEnds ==
  ASSUME HeapServes
  PROVE  \E E : Ok(heap, E) /\ AllocIn(heap, E) = Ptrs(live) /\ Ends = E
<1>1. PICK E : Ok(heap, E) /\ AllocIn(heap, E) = Ptrs(live) BY DEF HeapServes, Serves, Holds
<1>2. Tags(heap, E) BY <1>1 DEF Ok, Part
<1> QED BY <1>1, <1>2, EndsAre

\* Boundary tags agree, whatever the calls: sizes lead from block to block to the epilogue,
\* no two neighbours are free, and headers and footers know their neighbours.
THEOREM TagsAgreeCorrect == Spec => []TagsAgree
<1>1. HeapServes => TagsAgree
  <2> SUFFICES ASSUME HeapServes PROVE TagsAgree OBVIOUS
  <2>1. PICK E : Ok(heap, E) /\ Ends = E BY ServesEnds
  <2>2. Part(heap, E, {}, {}) /\ Tags(heap, E) BY <2>1 DEF Ok, Part
  <2>3. ASSUME NEW b \in Blocks
        PROVE  /\ Size(heap, b) >= 16
               /\ PrevAlloc(heap, NextBlock(heap, b)) = Alloc(heap, b)
               /\ Alloc(heap, b) = 0 => /\ Alloc(heap, NextBlock(heap, b)) = 1
                                        /\ PrevBlock(heap, NextBlock(heap, b)) = b
    <3>1. b \in E /\ b # heap.brk BY <2>1 DEF Blocks
    <3>2. Good(heap, E, b) BY <2>2, <3>1, BlockFacts
    <3>3. /\ b \in Int /\ Size(heap, b) \in Int /\ NextBlock(heap, b) \in Int
          /\ 4 * (NextBlock(heap, b) - b) = Size(heap, b)
      BY <2>2, <3>1, EndFacts
    <3>4. ASSUME Alloc(heap, b) = 0
          PROVE  Alloc(heap, NextBlock(heap, b)) = 1 /\ PrevBlock(heap, NextBlock(heap, b)) = b
      <4>1. b \in FreeIn(heap, E) BY <3>1, <3>4 DEF FreeIn
      <4>2. Alloc(heap, NextBlock(heap, b)) = 1 BY <2>2, <4>1, CoalFacts
      <4>3. SizeIn(heap.mem[NextBlock(heap, b) - 2]) = Size(heap, b) BY <3>2, <3>4 DEF Good
      <4>4. PrevBlock(heap, NextBlock(heap, b)) = NextBlock(heap, b) - Size(heap, b) \div 4
        BY <4>3 DEF PrevBlock
      <4>5. Size(heap, b) \div 4 = NextBlock(heap, b) - b BY <3>3
      <4> QED BY <3>3, <4>2, <4>4, <4>5
    <3> QED BY <3>2, <3>4 DEF Good
  <2> QED BY <2>1, <2>2, <2>3 DEF TagsAgree, Tags
<1> QED BY <1>1, HeapInvariant, PTL

\* The free lists hold the free blocks: each once, in its class, and nothing else, with
\* links that agree in both directions.
THEOREM ListsHoldFreeBlocksCorrect == Spec => []ListsHoldFreeBlocks
<1>1. HeapServes => ListsHoldFreeBlocks
  <2> SUFFICES ASSUME HeapServes PROVE ListsHoldFreeBlocks OBVIOUS
  <2>1. PICK E : Ok(heap, E) /\ Ends = E BY ServesEnds
  <2>2. PICK F : F = FreeIn(heap, E) OBVIOUS
  <2>3. Tags(heap, E) /\ Listed(heap, F) /\ heap \in Heap
    <3>1. FreeIn(heap, E) \ {} = F BY <2>2
    <3> QED BY <2>1, <3>1 DEF Ok, Part, Tags
  <2>4. Spread(F) BY <2>2, <2>3, FreeSpread
  <2>5. F = {b \in Blocks : Alloc(heap, b) = 0}
    <3>1. Alloc(heap, heap.brk) = 1 BY <2>3 DEF Tags
    <3> QED BY <2>1, <2>2, <3>1 DEF FreeIn, Blocks
  <2>6. ASSUME NEW c \in 0 .. CLASSNUM - 1
        PROVE  LET head == heap.seg[c]
                   at   == OnList(heap, head)
                   on   == {at[i] : i \in Round(heap, head)}
               IN  /\ on = {b \in Blocks : Alloc(heap, b) = 0 /\ find_index(Size(heap, b)) = c}
                   /\ \A b \in on : heap.mem[heap.mem[b + 1]] = b
    <3>1. c \in Classes BY DEF Classes
    <3>2. PICK head, at : head = heap.seg[c] /\ at = OnList(heap, head) OBVIOUS
    <3>3. PICK on : on = {at[i] : i \in Round(heap, head)} OBVIOUS
    <3>4. on = Cls(heap, F, c) /\ \A b \in Cls(heap, F, c) : heap.mem[heap.mem[b + 1]] = b
      BY <2>3, <2>4, <3>1, <3>2, <3>3, OnListIs
    <3>5. Cls(heap, F, c) = {b \in Blocks : Alloc(heap, b) = 0 /\ find_index(Size(heap, b)) = c}
      BY <2>5 DEF Cls
    <3>6. on = {OnList(heap, heap.seg[c])[i] : i \in Round(heap, heap.seg[c])}
      BY <3>2, <3>3
    <3> QED BY <3>4, <3>5, <3>6
  <2> QED BY <2>6 DEF ListsHoldFreeBlocks
<1> QED BY <1>1, HeapInvariant, PTL

\* Blocks are allocated to one allocation each, and none without one; each has the room
\* that was asked for.
THEOREM LiveAreAllocatedCorrect == Spec => []LiveAreAllocated
<1>1. HeapServes => LiveAreAllocated
  <2> SUFFICES ASSUME HeapServes PROVE LiveAreAllocated OBVIOUS
  <2>1. PICK E : AllocIn(heap, E) = Ptrs(live) /\ Ends = E BY ServesEnds
  <2>2. {b \in Blocks : Alloc(heap, b) = 1} = {live[id].ptr : id \in DOMAIN live}
    BY <2>1 DEF AllocIn, Blocks, Ptrs
  <2>3. \A i, j \in DOMAIN live : i # j => live[i].ptr # live[j].ptr BY DEF HeapServes, Serves
  <2>4. \A id \in DOMAIN live : live[id].size <= Size(heap, live[id].ptr) - 4
    BY DEF HeapServes, Serves
  <2> QED BY <2>2, <2>3, <2>4 DEF LiveAreAllocated
<1> QED BY <1>1, HeapInvariant, PTL

\* No byte of a payload is lost or overwritten by tags, links, another payload or a move.
THEOREM PayloadsIntactCorrect == Spec => []PayloadsIntact
<1>1. HeapServes => PayloadsIntact BY DEF HeapServes, Serves, Intact, PayloadsIntact
<1> QED BY <1>1, HeapInvariant, PTL

=============================================================================
