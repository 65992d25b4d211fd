----------------------------- MODULE SfsDiskImpl -----------------------------
(***************************************************************************)
(* The file systems of SfsDisk and of SfsBaseline implement the interface  *)
(* of SfsApi.  Which of the two programs is linked is chosen once.         *)
(*                                                                         *)
(* The abstract file of a name is what a reader of all of it would get by  *)
(* walking the block list of its directory entry, with the descriptors     *)
(* whose open file points to that entry.  The variables of this module     *)
(* record that image of the state of SfsDisk in every state, so that the   *)
(* mapping is computed once for a step and not at each use of it.          *)
(***************************************************************************)
EXTENDS SfsBaseline

VARIABLES
    program,            \* the implementation that is linked
    dir, orphans, pos   \* the image: the variables of SfsApi

Programs == {"sfs-disk", "sfs-baseline-ref"}

Contents(entry) == ReadBytes(entry, 0, entry.size)

NamedFile(slot) ==
    [bytes |-> Contents(files[slot]),
     fds   |-> UNION {Descriptors(i) : i \in findOpenFile(slot)}]

DirImage ==
    LET file[found \in SUBSET Slots] ==
            IF found = {} THEN NULL ELSE NamedFile(CHOOSE s \in found : TRUE)
    IN  [name \in Names |-> file[findDirectoryEntry(name)]]

OrphansImage ==
    {[bytes |-> Contents(DiskEntry(i)), fds |-> Descriptors(i)] : i \in Unlinked}

PosImage ==
    [fd \in FDs |-> IF openFileDescTable[fd] = NULL THEN -1
                    ELSE openFileDescTable[fd].currPos]

ImplInit ==
    /\ program \in Programs
    /\ BaselineInit
    /\ dir = DirImage /\ orphans = OrphansImage /\ pos = PosImage

ImplNext ==
    /\ \/ program = "sfs-disk" /\ Next /\ UNCHANGED currBlock
       \/ program = "sfs-baseline-ref" /\ BaselineNext
    /\ dir' = DirImage' /\ orphans' = OrphansImage' /\ pos' = PosImage'
    /\ UNCHANGED program

ImplSpec == ImplInit /\ [][ImplNext]_<<baselineVars, program, dir, orphans, pos>>

\* No file is NULL, which stands for none.
ASSUME ImplAssumption == NULL \notin [bytes : Seq(Bytes), fds : SUBSET FDs]

Api == INSTANCE SfsApi WITH NoFile <- NULL

\* Whatever the block lists and tables do, a program sees the files of sfs-api.h:
\* what it wrote and nothing else, zeros where a file grew, a rename in one step,
\* unlinked files that live until their last close, and failed calls that change
\* nothing.
ImplementsApi == Api!Spec

\* The block that a descriptor of the reference file system remembers is the one
\* its position is in, whatever the other descriptors of the file write or truncate
\* and whoever gets the blocks they free: sfs_read and sfs_write go straight to it,
\* so a stale one would read or overwrite another file.
CachedBlocksRight == program = "sfs-baseline-ref" => CacheAgrees
=============================================================================
