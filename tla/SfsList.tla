------------------------------- MODULE SfsList -------------------------------
(***************************************************************************)
(* sfs_list of sfslab/sfs-disk.c, which a thread calls in a loop while     *)
(* others go on calling the rest of the interface.  Nothing is locked from *)
(* one call of the loop to the next: all it keeps is the cookie, the       *)
(* physical position in the directory after the name it returned last.     *)
(***************************************************************************)
EXTENDS SfsDisk

VARIABLES
    cookie,     \* 0 outside of a loop, as NULL is before its first call
    listed,     \* the names that the loop has returned so far, in order
    kept,       \* history: entries that were there from the first call on, in place
    always      \* history: names that existed from the first call on

listVars == <<cookie, listed, kept, always>>

Positions == 1 .. Len(DirectoryBlocks) * DIR_ENTRIES_PER_BLOCK

Entries == {<<s, files[s].name>> : s \in {t \in Slots : Occupied(files[t])}}

NamesIn(entries) == {e[2] : e \in entries}

ListInit ==
    /\ Init
    /\ cookie = 0
    /\ listed = <<>>
    /\ kept = {}
    /\ always = {}

\* Slip of Resume: the cookie itself is skipped (slot > next_file_slot).
ResumeTooLate(last) ==
    {p \in Positions : p > last + 1 /\ Occupied(files[SlotAt(DirectoryBlocks, p)])}

\* The positions that a call may return: occupied, and not before the cookie.
Resume(last) ==
    {p \in Positions : p > last /\ Occupied(files[SlotAt(DirectoryBlocks, p)])}

\* A call of sfs_list that returns a name.
ListName ==
    /\ \E p \in Resume(cookie) :
        /\ \A q \in Resume(cookie) : p <= q
        /\ cookie' = p
        /\ listed' = (IF cookie = 0 THEN <<>> ELSE listed)
                     \o <<files[SlotAt(DirectoryBlocks, p)].name>>
    /\ kept' = IF cookie = 0 THEN Entries ELSE kept
    /\ always' = IF cookie = 0 THEN NamesIn(Entries) ELSE always
    /\ UNCHANGED vars

\* The call that ends a loop.
ListEnd ==
    /\ cookie # 0
    /\ Resume(cookie) = {}
    /\ cookie' = 0
    /\ UNCHANGED <<vars, listed, kept, always>>

\* Another thread's call, during the loop or before the next one.
OtherCall ==
    /\ Next
    /\ IF cookie = 0 THEN listed' = <<>> /\ kept' = {} /\ always' = {}
       ELSE /\ kept' = kept \cap Entries'
            /\ always' = always \cap NamesIn(Entries')
            /\ UNCHANGED listed
    /\ UNCHANGED cookie

ListNext == ListName \/ ListEnd \/ OtherCall

ListSpec == ListInit /\ [][ListNext]_<<vars, listVars>>

-----------------------------------------------------------------------------
(* Safety *)

\* A loop that is over has returned every file that kept its name and its place all
\* the while exactly once, whatever was created, removed, renamed, or added to the
\* directory by others between its calls (the cookie of sfs-api.h "handles
\* concurrent modifications").
KeptListedOnce ==
    cookie = 0 =>
        \A e \in kept : Cardinality({i \in DOMAIN listed : listed[i] = e[2]}) = 1

\* A loop that is over has returned every name that existed all the while, also when
\* another file was renamed to it: no gap in which a concurrent thread can observe
\* NEW_NAME not existing, as the comment on sfs_rename in sfs-api.h has it.
AlwaysListed ==
    cookie = 0 => \A name \in always : \E i \in DOMAIN listed : listed[i] = name

=============================================================================
