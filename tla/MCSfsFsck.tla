----------------------------- MODULE MCSfsFsck ------------------------------
(* The instance of MCSfsDisk with a thread that lists the directory while    *)
(* others call, and with sfs-fsck looking on.                                *)
EXTENDS MCSfsList, SfsFsck

=============================================================================
