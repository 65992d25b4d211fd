------------------------------ MODULE MCSfsDisk ------------------------------
(***************************************************************************)
(* Instances of SfsDisk for TLC.  The calls a program makes are cut        *)
(* down to what tells states apart: buffers filled with one value, which a *)
(* run that looks at contents picks different from the 0 of a grown file;  *)
(* seeks of one step, which repeated reach every position.                 *)
(***************************************************************************)
EXTENDS SfsDisk, TLC

CONSTANTS
    WriteSizes,     \* lengths of the buffers written
    Mark            \* the value they are filled with

MCBuffers == {[i \in 1 .. n |-> Mark] : n \in WriteSizes}
MCDeltas  == {-1, 1}

\* Names are only compared with each other.
MCNames == Permutations(Names)
=============================================================================
