------------------------------ MODULE LruCache ------------------------------
(***************************************************************************)
(* What the proxy's cache promises: a bounded set of objects, of which the *)
(* least recently used goes when there is no room for another one.         *)
(***************************************************************************)
EXTENDS Naturals, SequencesExt

CONSTANTS Keys, Capacity, Sizes     \* keys, total size and sizes of the objects

VARIABLE order      \* the objects, from the most to the least recently used

Object == [key : Keys, size : Sizes]

Total(objects) == FoldSeq(LAMBDA o, sum : o.size + sum, 0, objects)

Cached(k) == \E i \in DOMAIN order : order[i].key = k

Init == order = <<>>

\* A use of a cached object makes it the most recent one.
Use(k) ==
    \E i \in DOMAIN order :
        /\ order[i].key = k
        /\ order' = <<order[i]>> \o RemoveAt(order, i)

\* An object that does not fit drives out the least recent one.
Evict ==
    /\ order # <<>>
    /\ \E n \in Sizes : Total(order) + n > Capacity
    /\ order' = Front(order)

Insert(o) ==
    /\ ~ Cached(o.key)
    /\ Total(order) + o.size <= Capacity
    /\ order' = <<o>> \o order

Next ==
    \/ \E k \in Keys : Use(k)
    \/ Evict
    \/ \E o \in Object : Insert(o)

Spec == Init /\ [][Next]_order

=============================================================================
