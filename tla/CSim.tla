-------------------------------- MODULE CSim --------------------------------
(***************************************************************************)
(* The cache simulator of cachelab-handout/csim.c: sets of lines with a    *)
(* counter each, which stand for the order of their uses.                  *)
(***************************************************************************)
EXTENDS Integers, Sequences, SequencesExt

CONSTANTS
    NULL,           \* a set that was never used
    CounterRange,   \* values of LRU_counter, 2^32 in the code
    Geometries,     \* the values of -s, -E and -b
    Addresses,      \* addresses in the trace file
    MAX_TRACE       \* bound: accesses of a trace

VARIABLES
    geometry,   \* s, E and b
    address,    \* of the last access
    sim         \* the sets of the cache, and hits, misses and evictions

csimVars == <<geometry, address, sim>>

SetIndexes == 0 .. 2 ^ geometry.s - 1
Lines      == 1 .. geometry.E

SetIndex(a) == (a \div 2 ^ geometry.b) % 2 ^ geometry.s
Tag(a)      == a \div 2 ^ (geometry.b + geometry.s)

UnusedLine == [valid |-> FALSE, tag |-> 0, LRU_counter |-> 0]

-----------------------------------------------------------------------------
(* manipulate: one access *)

\* update: every valid line of the set grows older.
update(set) ==
    [i \in Lines |-> IF set[i].valid
                     THEN [set[i] EXCEPT !.LRU_counter = (@ + 1) % CounterRange]
                     ELSE set[i]]

\* A line is loaded, or used again, and is the youngest of its set.
Touch(set, i, tag) ==
    update([set EXCEPT ![i] = [valid |-> TRUE, tag |-> tag, LRU_counter |-> 1]])

FirstLine(lines) == CHOOSE i \in lines : \A j \in lines : i <= j

\* evict: the first line with the largest counter is replaced.
Victim(set) == FirstLine({i \in Lines : \A j \in Lines : set[j].LRU_counter <= set[i].LRU_counter})

\* insert: the first line that is not valid, or else a victim.
insert(st, h, set, tag) ==
    LET free == {i \in Lines : ~ set[i].valid}
    IN  IF free # {}
        THEN [st EXCEPT !.cache[h] = Touch(set, FirstLine(free), tag), !.misses = @ + 1]
        ELSE [st EXCEPT !.cache[h] = Touch(set, Victim(set), tag), !.misses = @ + 1,
                        !.evictions = @ + 1]

\* Slip of manipulate: a hit does not make the line young again.
manipulateFifo(st, addr) ==
    LET h   == SetIndex(addr)
        tag == Tag(addr)
        set == IF st.cache[h] = NULL THEN [i \in Lines |-> UnusedLine] ELSE st.cache[h]
    IN  IF \E i \in Lines : set[i].valid /\ set[i].tag = tag
        THEN [st EXCEPT !.cache[h] = update(set), !.hits = @ + 1]
        ELSE insert(st, h, set, tag)

\* manipulate: the simulator after an access.  A set gets its lines when it is
\* used for the first time.
manipulate(st, addr) ==
    LET h   == SetIndex(addr)
        tag == Tag(addr)
        set == IF st.cache[h] = NULL THEN [i \in Lines |-> UnusedLine] ELSE st.cache[h]
        hit == {i \in Lines : set[i].valid /\ set[i].tag = tag}
    IN  IF hit # {}
        THEN [st EXCEPT !.cache[h] = Touch(set, FirstLine(hit), tag), !.hits = @ + 1]
        ELSE insert(st, h, set, tag)

-----------------------------------------------------------------------------
(* load_trace *)

CSimInit ==
    /\ geometry \in Geometries
    /\ address = 0
    /\ sim = [cache |-> [h \in SetIndexes |-> NULL], hits |-> 0, misses |-> 0, evictions |-> 0]

\* One line of the trace file.  A modification is a load and a store; fetches of
\* instructions are skipped.
load_trace(identifier) ==
    /\ sim.hits + sim.misses < MAX_TRACE
    /\ IF identifier = "I" THEN UNCHANGED <<address, sim>>
       ELSE /\ address' \in Addresses
            /\ sim' = IF identifier = "M"
                      THEN manipulate(manipulate(sim, address'), address')
                      ELSE manipulate(sim, address')
    /\ UNCHANGED geometry

CSimNext == \E identifier \in {"I", "L", "M", "S"} : load_trace(identifier)

-----------------------------------------------------------------------------

\* The tags of a set, from the youngest line to the oldest.
Recency(set) ==
    IF set = NULL THEN <<>>
    ELSE LET Younger(i, j) == set[i].LRU_counter < set[j].LRU_counter
             valid == SetToSortSeq({i \in Lines : set[i].valid}, Younger)
         IN  [n \in DOMAIN valid |-> set[valid[n]].tag]

Reference == INSTANCE Lru WITH
    lines     <- geometry.E,
    set       <- SetIndex(address),
    block     <- Tag(address),
    recency   <- [h \in SetIndexes |-> Recency(sim.cache[h])],
    hits      <- sim.hits,
    misses    <- sim.misses,
    evictions <- sim.evictions

\* The counters of the lines tell which block of a set was used least recently,
\* although a hit and a load both set one counter back to 1 and age the others
\* whatever their values are, and the simulator counts what such a cache does.
ImplementsLru == Reference!Spec
=============================================================================
