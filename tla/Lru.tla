--------------------------------- MODULE Lru ---------------------------------
(***************************************************************************)
(* What the simulator of csim.c is to count (the Cache Lab's Part A): the  *)
(* hits, misses and evictions of a cache whose sets hold E blocks each and *)
(* drop the least recently used one.                                       *)
(***************************************************************************)
EXTENDS Integers, Sequences, SequencesExt

VARIABLES
    lines,                      \* E: how many blocks a set holds
    set, block,                 \* what is used in a step
    recency,                    \* the blocks of each set, the latest used first
    hits, misses, evictions

lruVars == <<lines, set, block, recency, hits, misses, evictions>>

Init ==
    /\ \A h \in DOMAIN recency : recency[h] = <<>>
    /\ hits = 0 /\ misses = 0 /\ evictions = 0

\* n uses in a row of a block b of set h.
Use(h, b, n) ==
    LET order == recency[h]
        hit   == b \in ToSet(order)
        full  == Len(order) = lines
        rest  == IF hit THEN SelectSeq(order, LAMBDA t : t # b)
                 ELSE IF full THEN Front(order) ELSE order
    IN  /\ recency' = [recency EXCEPT ![h] = <<b>> \o rest]
        /\ hits' = hits + (IF hit THEN n ELSE n - 1)
        /\ misses' = misses + (IF hit THEN 0 ELSE 1)
        /\ evictions' = evictions + (IF ~ hit /\ full THEN 1 ELSE 0)

\* A load or a store uses one block once, a modification uses it twice.
Next == UNCHANGED lines /\ \E n \in {1, 2} : Use(set', block', n)

Spec == Init /\ [][Next]_lruVars
=============================================================================
