------------------------------- MODULE SfsApi -------------------------------
(***************************************************************************)
(* What sfs-api.h promises to a program: a directory of named byte         *)
(* sequences, and descriptors with a position in one of them.  No blocks,  *)
(* no slots, no tables.  A call that fails changes nothing: it is a        *)
(* stuttering step, whatever the reason (no space, no descriptor, no such  *)
(* name).  SfsDiskImpl shows that the implementation keeps the promise.    *)
(***************************************************************************)
EXTENDS Integers, Sequences

CONSTANTS Names, FDs, Buffers, Lengths, Deltas, SFS_MAX_FILE_SIZE,
          NoFile    \* the contents of the directory at a name that does not exist

VARIABLES
    dir,        \* the file of each name, or NoFile
    orphans,    \* files without a name that are still open
    pos         \* the position of each descriptor, or Closed

apiVars == <<dir, orphans, pos>>

Closed == -1

\* A file is its bytes and the descriptors open on it.  No two files share a
\* descriptor, and every orphan has one, so a set of orphans tells them apart.
NewFile(fds) == [bytes |-> <<>>, fds |-> fds]

IsOpen(fd) == pos[fd] # Closed

AllFiles == {dir[n] : n \in {m \in Names : dir[m] # NoFile}} \cup orphans

FileOf(fd) == CHOOSE f \in AllFiles : fd \in f.fds

\* The file of fd becomes `file`, wherever it is.
SetFile(fd, file) ==
    /\ dir' = [n \in Names |-> IF dir[n] # NoFile /\ fd \in dir[n].fds
                               THEN file ELSE dir[n]]
    /\ orphans' = {IF fd \in f.fds THEN file ELSE f : f \in orphans}

\* Some name, or none: an image may hold empty files when it is mounted.
Init ==
    /\ dir \in [Names -> {NoFile, NewFile({})}]
    /\ orphans = {}
    /\ pos = [fd \in FDs |-> Closed]

-----------------------------------------------------------------------------

\* sfs_open: an existing file, or a new empty one.
Open(name) ==
    \E fd \in FDs :
        /\ ~ IsOpen(fd)
        /\ pos' = [pos EXCEPT ![fd] = 0]
        /\ dir' = [dir EXCEPT ![name] =
                IF dir[name] = NoFile THEN NewFile({fd})
                ELSE [dir[name] EXCEPT !.fds = @ \cup {fd}]]
        /\ UNCHANGED orphans

\* sfs_close: a file without name or descriptor is gone.
Close(fd) ==
    /\ pos' = [pos EXCEPT ![fd] = Closed]
    /\ dir' = [n \in Names |-> IF dir[n] = NoFile THEN NoFile
                               ELSE [dir[n] EXCEPT !.fds = @ \ {fd}]]
    /\ orphans' = {[f EXCEPT !.fds = @ \ {fd}] : f \in {g \in orphans : g.fds # {fd}}}

\* sfs_read: the position of fd, open on `file`, advances past the bytes read.
Read(fd, file, len) ==
    /\ LET size == Len(file.bytes)
       IN  pos' = [pos EXCEPT ![fd] = IF size - @ < len THEN size ELSE @ + len]
    /\ UNCHANGED <<dir, orphans>>

\* sfs_write: all of the buffer, at the position.
Write(fd, file, buf) ==
    LET old == file.bytes
        end == pos[fd] + Len(buf)
    IN  /\ end <= SFS_MAX_FILE_SIZE
        /\ pos' = [pos EXCEPT ![fd] = end]
        /\ SetFile(fd, [file EXCEPT !.bytes =
                SubSeq(old, 1, pos[fd]) \o buf \o SubSeq(old, end + 1, Len(old))])

\* sfs_seek: between the start and the end of the file.
Seek(fd, file, delta) ==
    /\ LET size == Len(file.bytes)
           to   == pos[fd] + delta
       IN  pos' = [pos EXCEPT ![fd] = IF to < 0 THEN 0 ELSE IF to > size THEN size ELSE to]
    /\ UNCHANGED <<dir, orphans>>

\* sfs_ftruncate: new bytes are zero, no position is left past the end.
Truncate(fd, file, length) ==
    /\ length <= SFS_MAX_FILE_SIZE
    /\ pos' = [d \in FDs |-> IF d \in file.fds /\ pos[d] > length THEN length ELSE pos[d]]
    /\ SetFile(fd, [file EXCEPT !.bytes =
            [k \in 1 .. length |-> IF k <= Len(file.bytes) THEN file.bytes[k] ELSE 0]])

\* The file of a name loses it, and lives on while it is open.
Orphaned(name) == IF dir[name] = NoFile \/ dir[name].fds = {} THEN {} ELSE {dir[name]}

Remove(name) ==
    /\ UNCHANGED pos
    /\ dir[name] # NoFile
    /\ dir' = [dir EXCEPT ![name] = NoFile]
    /\ orphans' = orphans \cup Orphaned(name)

\* sfs_rename: one step, in which new_name goes from its old file to its new one.
Rename(old_name, new_name) ==
    /\ UNCHANGED pos
    /\ old_name # new_name
    /\ dir[old_name] # NoFile
    /\ dir' = [dir EXCEPT ![new_name] = dir[old_name], ![old_name] = NoFile]
    /\ orphans' = orphans \cup Orphaned(new_name)

Next ==
    \/ \E name \in Names : \/ Open(name)
                           \/ Remove(name)
                           \/ \E new_name \in Names : Rename(name, new_name)
    \/ \E fd \in FDs :
        /\ IsOpen(fd)
        /\ LET file == FileOf(fd)
           IN  \/ Close(fd)
               \/ \E len \in Lengths : Read(fd, file, len) \/ Truncate(fd, file, len)
               \/ \E buf \in Buffers : Write(fd, file, buf)
               \/ \E delta \in Deltas : Seek(fd, file, delta)

Spec == Init /\ [][Next]_apiVars
=============================================================================
