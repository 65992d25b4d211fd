------------------------------ MODULE MCSfsImpl ------------------------------
(* The instances of MCSfsDisk, with the image of the state in SfsApi and the *)
(* loops that copy data.                                                     *)
EXTENDS MCSfsDisk, SfsDiskImpl, SfsLoops
=============================================================================
