------------------------------ MODULE MCSfsList ------------------------------
\* The instances of SfsDisk, with a thread that lists the directory.
EXTENDS SfsList, MCSfsDisk
=============================================================================
