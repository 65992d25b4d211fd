----------------------------- MODULE MCCacheLab -----------------------------
(***************************************************************************)
(* The three matrices that driver.py measures, with the cache it measures  *)
(* them on, and two small caches for traces of every kind.                 *)
(***************************************************************************)
EXTENDS Transpose

Measured == [s |-> 5, E |-> 1, b |-> 5]

MCCases ==
    {[fn |-> "transpose_submit", M |-> d[1], N |-> d[2], geometry |-> Measured] :
        d \in {<<32, 32>>, <<64, 64>>, <<61, 67>>}}
    \cup {[fn |-> "transpose_32", M |-> 32, N |-> 32, geometry |-> Measured]}

MCGeometries == {[s |-> 1, E |-> 2, b |-> 1], [s |-> 0, E |-> 3, b |-> 0]}
=============================================================================
