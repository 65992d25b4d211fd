------------------------------ MODULE SfsTraces ------------------------------
(***************************************************************************)
(* The traces of sfslab/test-sfs.c, run on the file system of SfsCalls.    *)
(*                                                                         *)
(* A trace is a sequence of calls, each with what its CHECK demands of the *)
(* outcome; the file descriptors a trace holds in variables are kept in    *)
(* `reg` under the names of those variables.  Category C starts threads,   *)
(* whose calls TLC interleaves in every way, so it looks at what the       *)
(* --sched-fuzz of the driver samples.  Texts are stretches of distinct    *)
(* bytes.                                                                  *)
(***************************************************************************)
EXTENDS SfsCalls, TLC

CONSTANTS
    Traces,         \* the traces to run
    NUM_THREADS,    \* threads of a concurrent trace
    STORMS,         \* rounds of thread_open_close_storm
    CHURN_ITERS,    \* rounds of thread_dir_churn
    PASSES          \* complete loops that the lister makes at least

ASSUME TracesAssumption ==
    {NUM_THREADS, STORMS, CHURN_ITERS, PASSES} \subseteq Nat \ {0}

VARIABLES
    trace,      \* the trace that the child process runs
    part,       \* the script of each thread, or "" when it is not running
    pc,         \* the next call of each thread in its script
    reg,        \* the descriptors that each thread holds in variables
    cookie,     \* its sfs_list_cookie: 0 is NULL
    seen,       \* the names that its loop over sfs_list has returned so far
    passes,     \* complete loops of the lister, PASSES standing for more too
    churn_done, \* the flag that ends the lister
    trace_ok    \* no CHECK has failed

threadVars == <<part, pc, reg, cookie, seen, passes, churn_done>>

traceVars == <<callVars, trace, threadVars, trace_ok>>

-----------------------------------------------------------------------------
(* Steps of a script *)

\* A call and what its CHECK demands: nothing, success, a value, bytes, an error.
Do(call)             == [call |-> call, check |-> <<>>]
Succeeds(call)       == [call |-> call, check |-> [err |-> "OK"]]
Returns(call, v)     == [call |-> call, check |-> [err |-> "OK", val |-> v]]
Delivers(call, text) == [call |-> call, check |-> [err |-> "OK", bytes |-> text]]
Fails(call, e)       == [call |-> call, check |-> [err |-> e]]

\* A CHECK without a call: these variables hold different descriptors.
Distinct(variables) == Returns(<<"distinct", variables>>, Cardinality(variables))

\* n bytes of one value, and n distinct bytes that no other text has.
Fill(n, byte) == [i \in 1 .. n |-> byte]
Text(n, tag)  == [i \in 1 .. n |-> 100 * tag + i]

Repeat(n, steps) == Seqs!FlattenSeq([i \in 1 .. n |-> steps])

\* unmount_and_check, which runs sfs-fsck on the image.
unmount_and_check == <<Returns(<<"unmount">>, 0), Returns(<<"fsck">>, 0)>>

Format(pages) == <<Returns(<<"format", pages>>, 0)>>

\* A loop over sfs_list, up to the status 1, that finds exactly these names.
ListsAll(names) == [call |-> <<"list loop">>,
                 check |-> [err |-> "END", val |-> Cardinality(names), names |-> names]]
ListsSome(n) == [call |-> <<"list loop">>, check |-> [err |-> "END", val |-> n]]

\* Bytes of a block, and its data blocks on an image of one page.
BLOCK == BLOCK_DATA_SIZE
data_blocks == NBlocks - 1
capacity == data_blocks * BLOCK

\* A length that is too large for any file, and for any position in one.
SIZE_MAX == SFS_MAX_FILE_SIZE + 1

-----------------------------------------------------------------------------
(* Category A *)

trace_A00 ==
    Format(64) \o <<Fails(<<"format", 0>>, "EBUSY")>> \o unmount_and_check
    \o <<Returns(<<"mount">>, 0)>> \o unmount_and_check
    \o <<Do(<<"corrupt n_blocks">>), Fails(<<"mount">>, "EINVAL")>>
    \o Format(64) \o unmount_and_check

trace_A01 ==
    Format(64)
    \o <<Succeeds(<<"open", "fd", "hello.txt">>),
         Returns(<<"write", "fd", Text(11, 1)>>, 11), Do(<<"close", "fd">>),
         Succeeds(<<"open", "fd", "hello.txt">>),
         Delivers(<<"read", "fd", 64>>, Text(11, 1)), Do(<<"close", "fd">>)>>
    \o unmount_and_check

trace_A02 ==
    Format(64)
    \o <<Succeeds(<<"open", "fd", "pos.txt">>), Returns(<<"getpos", "fd">>, 0),
         Do(<<"write", "fd", Text(10, 1)>>), Returns(<<"getpos", "fd">>, 10),
         Fails(<<"getpos", "-1">>, "EBADF"), Fails(<<"getpos", "99">>, "EBADF"),
         Do(<<"close", "fd">>)>>
    \o unmount_and_check

trace_A03 ==
    Format(64)
    \o <<Do(<<"open", "fd", "seek.txt">>), Do(<<"write", "fd", Text(10, 1)>>),
         Returns(<<"seek", "fd", -5>>, 5),
         Delivers(<<"read", "fd", 3>>, SubSeq(Text(10, 1), 6, 8)),
         Returns(<<"seek", "fd", -100>>, 0), Returns(<<"seek", "fd", 9999>>, 10),
         Fails(<<"seek", "-1", 0>>, "EBADF"), Do(<<"close", "fd">>)>>
    \o unmount_and_check

\* A new file with this text.
Create(name, text) ==
    <<Succeeds(<<"open", "fd", name>>), Returns(<<"write", "fd", text>>, Len(text)),
      Do(<<"close", "fd">>)>>

\* A file that is read from its start.
Holds(name, len, text) ==
    <<Succeeds(<<"open", "fd", name>>), Delivers(<<"read", "fd", len>>, text),
      Do(<<"close", "fd">>)>>

trace_A04 ==
    Format(64) \o Create("old.txt", Text(9, 1))
    \o <<Returns(<<"rename", "old.txt", "new.txt">>, 0)>>
    \o unmount_and_check \o <<Returns(<<"mount">>, 0)>>
    \o Holds("new.txt", 32, Text(9, 1))
    \o <<Fails(<<"rename", "nonexistent", "whatever">>, "ENOENT")>>
    \o Create("a.txt", Text(3, 2)) \o Create("b.txt", Text(3, 3))
    \o <<Returns(<<"rename", "a.txt", "b.txt">>, 0)>>
    \o Holds("b.txt", 32, Text(3, 2)) \o unmount_and_check

-----------------------------------------------------------------------------
(* Category B *)

trace_B00 ==
    Format(64) \o Create("del.txt", Text(3, 1))
    \o <<Returns(<<"remove", "del.txt">>, 0), Fails(<<"remove", "del.txt">>, "ENOENT"),
         Succeeds(<<"open", "fd1", "file1">>), Succeeds(<<"open", "fd2", "file2">>),
         Succeeds(<<"open", "fd3", "file3">>),
         Do(<<"close", "fd1">>), Do(<<"close", "fd2">>), Do(<<"close", "fd3">>),
         Returns(<<"remove", "file2">>, 0), Succeeds(<<"open", "fd4", "file4">>),
         Do(<<"close", "fd4">>), ListsAll({"file1", "file3", "file4"})>>
    \o unmount_and_check

\* Three blocks, the last one not full; seeks, reads and an overwrite across the
\* boundaries between them.
trace_B01 ==
    LET A == Fill(500, 1)  B == Fill(500, 2)  C == Fill(200, 3)
        WXYZ == Text(4, 1)
    IN  Format(64)
        \o <<Succeeds(<<"open", "fd", "multi.txt">>),
             Returns(<<"write", "fd", A \o B \o C>>, 1200), Returns(<<"getpos", "fd">>, 1200),
             Returns(<<"seek", "fd", -710>>, 490),
             Delivers(<<"read", "fd", 20>>, Fill(10, 1) \o Fill(10, 2)),
             Returns(<<"getpos", "fd">>, 510), Returns(<<"seek", "fd", 489>>, 999),
             Delivers(<<"read", "fd", 10>>, Fill(1, 2) \o Fill(9, 3)),
             Do(<<"seek", "fd", 200>>), Returns(<<"seek", "fd", 1009 - 1200>>, 1009),
             Returns(<<"seek", "fd", -9999>>, 0), Delivers(<<"read", "fd", 5>>, Fill(5, 1)),
             Returns(<<"seek", "fd", 493>>, 498), Returns(<<"write", "fd", WXYZ>>, 4),
             Returns(<<"getpos", "fd">>, 502), Returns(<<"seek", "fd", -12>>, 490),
             Delivers(<<"read", "fd", 20>>, Fill(8, 1) \o WXYZ \o Fill(8, 2)),
             Returns(<<"seek", "fd", 9999>>, 1200), Do(<<"close", "fd">>),
             Returns(<<"rename", "multi.txt", "renamed.txt">>, 0)>>
        \o Holds("renamed.txt", 3, Fill(3, 1))
        \o <<Returns(<<"remove", "renamed.txt">>, 0)>> \o unmount_and_check

\* B02, up to its table of descriptors: odd arguments, independent positions, an
\* open file that is removed, and lengths around the size of a block.
B02_edges ==
    LET Z == Fill(500, 1)
    IN  <<Do(<<"open", "fd", "empty.txt">>), Returns(<<"read", "fd", 64>>, 0),
          Returns(<<"getpos", "fd">>, 0), Returns(<<"seek", "fd", 100>>, 0),
          Returns(<<"seek", "fd", -100>>, 0), Do(<<"close", "fd">>),
          Fails(<<"read", "fd", 1>>, "EBADF"), Fails(<<"write", "fd", Text(1, 1)>>, "EBADF"),
          Fails(<<"getpos", "fd">>, "EBADF"), Fails(<<"seek", "fd", 0>>, "EBADF"),
          Do(<<"close", "fd">>),
          Fails(<<"read", "-1", 1>>, "EBADF"), Fails(<<"write", "-1", Text(1, 1)>>, "EBADF"),
          Fails(<<"read", "32", 1>>, "EBADF"), Fails(<<"write", "32", Text(1, 1)>>, "EBADF"),
          Do(<<"close", "32">>),
          Fails(<<"open", "fd", EmptyName>>, "EINVAL"), Fails(<<"remove", EmptyName>>, "EINVAL"),
          Fails(<<"open", "fd", LongName>>, "ENAMETOOLONG")>>
        \o Create("track.txt", Text(16, 1))
        \o <<Do(<<"open", "fd", "track.txt">>),
             Returns(<<"read", "fd", 7>>, 7), Returns(<<"getpos", "fd">>, 7),
             Delivers(<<"read", "fd", 3>>, SubSeq(Text(16, 1), 8, 10)),
             Returns(<<"getpos", "fd">>, 10), Do(<<"close", "fd">>),
             Do(<<"open", "fd", "dup.txt">>), Do(<<"write", "fd", Text(12, 2)>>),
             Succeeds(<<"open", "fd2", "dup.txt">>), Distinct({"fd", "fd2"}),
             Delivers(<<"read", "fd2", 5>>, SubSeq(Text(12, 2), 1, 5)),
             Returns(<<"getpos", "fd2">>, 5), Returns(<<"getpos", "fd">>, 12),
             Do(<<"close", "fd">>), Do(<<"close", "fd2">>),
             Succeeds(<<"open", "fd", "busy.txt">>), Returns(<<"write", "fd", Text(4, 3)>>, 4),
             Returns(<<"remove", "busy.txt">>, 0), Fails(<<"unmount">>, "EBUSY"),
             Do(<<"close", "fd">>), Fails(<<"remove", "busy.txt">>, "ENOENT"),
             Do(<<"open", "fd", "boundary.txt">>), Returns(<<"write", "fd", Z>>, 500),
             Returns(<<"getpos", "fd">>, 500), Returns(<<"seek", "fd", -500>>, 0),
             Delivers(<<"read", "fd", 3>>, Fill(3, 1)), Do(<<"close", "fd">>),
             Succeeds(<<"open", "fd", "append.txt">>),
             Returns(<<"write", "fd", Fill(499, 1)>>, 499),
             Returns(<<"write", "fd", Text(3, 4)>>, 3), Returns(<<"seek", "fd", -502>>, 0),
             Delivers(<<"read", "fd", 502>>, Fill(499, 1) \o Text(3, 4)), Do(<<"close", "fd">>),
             Succeeds(<<"open", "fd", "oversize.txt">>),
             Fails(<<"write", "fd", Fill(SIZE_MAX, 1)>>, "EFBIG"),
             Returns(<<"getpos", "fd">>, 0), Do(<<"close", "fd">>),
             Succeeds(<<"open", "fd", "overwrite.txt">>), Returns(<<"write", "fd", Text(6, 5)>>, 6),
             Returns(<<"seek", "fd", -4>>, 2), Returns(<<"write", "fd", Text(2, 6)>>, 2),
             Returns(<<"getpos", "fd">>, 4), Returns(<<"seek", "fd", -4>>, 0),
             Delivers(<<"read", "fd", 64>>,
                      SubSeq(Text(6, 5), 1, 2) \o Text(2, 6) \o SubSeq(Text(6, 5), 5, 6)),
             Do(<<"close", "fd">>)>>

\* The descriptors that the probe of B02 opens on one file.
Many(i) == "many" \o ToString(i)
Probes == 1 .. OPEN_FILE_LIMIT

\* B02, the rest: every descriptor in use, and every block of a small image.
B02_exhaustion ==
    Seqs!FlattenSeq([i \in Probes |->
        <<Succeeds(<<"open", Many(i), "many">>), Distinct({Many(j) : j \in 1 .. i})>>])
    \o <<Fails(<<"open", "fd", "many">>, "EMFILE"), Fails(<<"open", "fd", "ghost">>, "EMFILE"),
         Fails(<<"remove", "ghost">>, "ENOENT")>>
    \o [i \in Probes |-> Do(<<"close", Many(i)>>)]
    \o <<Returns(<<"remove", "many">>, 0)>> \o unmount_and_check
    \o Format(1) \o <<Succeeds(<<"open", "fd", "big">>)>>
    \o Repeat(data_blocks, <<Returns(<<"write", "fd", Fill(500, 1)>>, 500)>>)
    \o <<Fails(<<"write", "fd", Fill(500, 1)>>, "ENOSPC"),
         Succeeds(<<"open", "fdfull", "nofit">>),
         Fails(<<"write", "fdfull", Text(1, 1)>>, "ENOSPC"), Do(<<"close", "fdfull">>),
         Returns(<<"remove", "nofit">>, 0), Do(<<"close", "fd">>),
         Returns(<<"remove", "big">>, 0)>>
    \o Create("fits", Text(2, 1))
    \o <<Returns(<<"remove", "fits">>, 0)>> \o unmount_and_check

trace_B02 == Format(64) \o B02_edges \o B02_exhaustion

trace_B03 ==
    Format(64) \o Create("src", Text(8, 1)) \o Create("dst", Text(1, 2))
    \o <<Succeeds(<<"open", "fd", "keep">>), Do(<<"close", "fd">>),
         Returns(<<"rename", "src", "dst">>, 0), ListsAll({"dst", "keep"})>>
    \o Holds("dst", 16, Text(8, 1))
    \o <<Returns(<<"rename", "dst", "dst">>, 0)>>
    \o Create("reuse", Text(1, 3))
    \o <<ListsAll({"dst", "keep", "reuse"}),
         Fails(<<"remove", LongName>>, "ENAMETOOLONG"),
         Fails(<<"rename", "dst", LongName>>, "ENAMETOOLONG"),
         Fails(<<"rename", EmptyName, "dst">>, "EINVAL"),
         Fails(<<"rename", "dst", EmptyName>>, "EINVAL"),
         Fails(<<"list", 0>>, "EINVAL"), Returns(<<"list", 24>>, 0),
         Fails(<<"list", 0>>, "EINVAL"), Returns(<<"cookie">>, 0)>>
    \o unmount_and_check

-----------------------------------------------------------------------------
(* Categories D and X *)

\* D00, first image: lengths that grow and shrink under two descriptors.
D00_two_descriptors ==
    <<Fails(<<"fstat", "-1">>, "EBADF"), Fails(<<"ftruncate", "-1", 0>>, "EBADF"),
      Succeeds(<<"open", "fd", "sized">>), Succeeds(<<"open", "fd2", "sized">>),
      Returns(<<"fstat", "fd">>, 0), Returns(<<"write", "fd", Text(3, 1)>>, 3),
      Returns(<<"fstat", "fd2">>, 3), Returns(<<"ftruncate", "fd2", 700>>, 0),
      Returns(<<"fstat", "fd">>, 700), Do(<<"close", "fd">>), Do(<<"close", "fd2">>),
      Do(<<"open", "fd", "sized">>),
      Delivers(<<"read", "fd", 700>>, Text(3, 1) \o Fill(697, 0)),
      Do(<<"open", "fd2", "sized">>), Returns(<<"ftruncate", "fd2", 2>>, 0),
      Returns(<<"read", "fd", 1>>, 0), Returns(<<"write", "fd", Text(1, 2)>>, 1),
      Returns(<<"fstat", "fd2">>, 3), Do(<<"close", "fd">>), Do(<<"close", "fd2">>),
      Do(<<"open", "fd", "sized">>),
      Delivers(<<"read", "fd", 3>>, SubSeq(Text(3, 1), 1, 2) \o Text(1, 2)),
      Returns(<<"ftruncate", "fd", 0>>, 0), Returns(<<"ftruncate", "fd", 501>>, 0),
      Do(<<"close", "fd">>), Do(<<"open", "fd", "sized">>),
      Delivers(<<"read", "fd", 501>>, Fill(501, 0)), Do(<<"close", "fd">>),
      Do(<<"close", "fd">>), Do(<<"close", "fd2">>)>>

\* overwrite_first_file_size: a file of one block becomes an empty one that keeps it,
\* as on images of the first version.
Legacy(name) ==
    Format(1) \o Create(name, Text(1, 3))
    \o <<Returns(<<"unmount">>, 0), Do(<<"patch size", 0>>), Returns(<<"fsck">>, 0),
         Returns(<<"mount">>, 0), Succeeds(<<"open", "fd", name>>)>>

\* D00, the small images: legacy empty files, and growing to the size of the disk.
D00_small_images ==
    Legacy("legacy-write")
    \o <<Returns(<<"write", "fd", Text(1, 4)>>, 1), Do(<<"close", "fd">>)>>
    \o unmount_and_check \o Legacy("legacy-truncate")
    \o <<Returns(<<"ftruncate", "fd", capacity>>, 0),
         Delivers(<<"read", "fd", 1>>, <<0>>), Do(<<"close", "fd">>)>>
    \o unmount_and_check \o Format(1)
    \o <<Succeeds(<<"open", "fd", "capacity">>),
         Returns(<<"ftruncate", "fd", capacity>>, 0),
         Fails(<<"ftruncate", "fd", capacity + 1>>, "ENOSPC"),
         Returns(<<"fstat", "fd">>, capacity),
         Fails(<<"ftruncate", "fd", SIZE_MAX>>, "EFBIG"),
         Returns(<<"fstat", "fd">>, capacity), Returns(<<"ftruncate", "fd", 0>>, 0),
         Succeeds(<<"open", "reuse", "reuse-capacity">>),
         Returns(<<"ftruncate", "reuse", capacity>>, 0),
         Do(<<"close", "reuse">>), Do(<<"close", "fd">>)>>
    \o unmount_and_check

trace_D00 ==
    Format(64) \o D00_two_descriptors \o unmount_and_check \o D00_small_images

EmptyFile(i) == "empty" \o ToString(i)

trace_X00 ==
    Format(1)
    \o Seqs!FlattenSeq([i \in 1 .. 5 |->
            <<Succeeds(<<"open", "fd", EmptyFile(i)>>), Do(<<"close", "fd">>)>>])
    \o <<Succeeds(<<"open", "fd", "big">>)>>
    \o Repeat(data_blocks, <<Returns(<<"write", "fd", Fill(500, 1)>>, 500)>>)
    \o <<Do(<<"close", "fd">>)>> \o unmount_and_check
    \o <<Returns(<<"mount">>, 0), ListsSome(6)>> \o unmount_and_check

trace_X02 ==
    Format(64)
    \o <<Succeeds(<<"open", "writer", "victim">>), Returns(<<"write", "writer", Text(4, 1)>>, 4),
         Succeeds(<<"open", "reader", "victim">>), Returns(<<"remove", "victim">>, 0),
         ListsAll({}), Delivers(<<"read", "reader", 4>>, Text(4, 1)),
         Returns(<<"write", "writer", Text(4, 2)>>, 4),
         Delivers(<<"read", "reader", 4>>, Text(4, 2)),
         Succeeds(<<"open", "fresh", "victim">>), Returns(<<"read", "fresh", 1>>, 0),
         Do(<<"close", "fresh">>), Returns(<<"remove", "victim">>, 0),
         Do(<<"close", "reader">>), Do(<<"close", "writer">>)>>
    \o unmount_and_check

-----------------------------------------------------------------------------
(* Category C: the scripts of the threads, and of the traces that start them *)

Main    == 0
Workers == 1 .. NUM_THREADS
Lister  == NUM_THREADS + 1
Threads == {Main, Lister} \cup Workers

Name(prefix, id) == prefix \o ToString(id)

thread_write_own_file(id) ==
    <<Succeeds(<<"open", "fd", Name("thr", id)>>), Returns(<<"write", "fd", Text(16, id)>>, 16),
      Do(<<"close", "fd">>), Succeeds(<<"open", "fd", Name("thr", id)>>),
      Delivers(<<"read", "fd", 64>>, Text(16, id)), Do(<<"close", "fd">>)>>

thread_read_shared == Holds("shared.txt", 64, Text(6, 1))

thread_rw_mix(id) ==
    IF id % 2 = 1 THEN Create(Name("mix", id), Text(6, id))
    ELSE <<Succeeds(<<"open", "fd", Name("mix", id)>>), Returns(<<"read", "fd", 32>>, 0),
           Do(<<"close", "fd">>)>>

thread_open_close_storm ==
    Repeat(STORMS, <<Succeeds(<<"open", "fd", "storm.txt">>), Do(<<"close", "fd">>)>>)

Churn(id, i) == Name("churn", id) \o Name("_", i)

thread_dir_churn(id) ==
    Seqs!FlattenSeq([i \in 1 .. CHURN_ITERS |->
        Create(Churn(id, i), Text(5, id))
        \o <<Returns(<<"rename", Churn(id, i), Name("stable", id)>>, 0)>>])
    \o <<Returns(<<"remove", Name("stable", id)>>, 0)>>

thread_list_during_churn ==
    <<[call |-> <<"list loop">>, check |-> [err |-> "END"]], Do(<<"again">>)>>

Start(fn) == <<Do(<<"start", fn>>)>>
Join      == <<Do(<<"join">>)>>

trace_C00 ==
    Format(64) \o Start("thread_write_own_file") \o Join
    \o <<ListsSome(NUM_THREADS)>> \o unmount_and_check

trace_C01 ==
    Format(64) \o Create("shared.txt", Text(6, 1))
    \o Start("thread_read_shared") \o Join \o unmount_and_check

\* Slip of trace_C02: the lister comes last, and is joined before it is told to stop.
trace_C02Deaf ==
    Format(64) \o Start("thread_dir_churn") \o Join
    \o <<Do(<<"start lister">>), Do(<<"join lister">>), Do(<<"churn_done">>), ListsAll({})>>
    \o unmount_and_check

trace_C02 ==
    Format(64) \o Start("thread_rw_mix") \o Join \o unmount_and_check
    \o Format(64) \o Create("storm.txt", Text(1, 1))
    \o Start("thread_open_close_storm") \o Join
    \o <<ListsSome(1)>> \o unmount_and_check
    \o Format(64) \o <<Do(<<"start lister">>)>> \o Start("thread_dir_churn") \o Join
    \o <<Do(<<"churn_done">>), Do(<<"join lister">>), ListsAll({})>> \o unmount_and_check

Script(fn, id) ==
    CASE fn = "A00" -> trace_A00  [] fn = "A01" -> trace_A01  [] fn = "A02" -> trace_A02
      [] fn = "A03" -> trace_A03  [] fn = "A04" -> trace_A04
      [] fn = "B00" -> trace_B00  [] fn = "B01" -> trace_B01  [] fn = "B02" -> trace_B02
      [] fn = "B03" -> trace_B03  [] fn = "D00" -> trace_D00
      [] fn = "X00" -> trace_X00  [] fn = "X02" -> trace_X02
      [] fn = "C00" -> trace_C00  [] fn = "C01" -> trace_C01  [] fn = "C02" -> trace_C02
      [] fn = "thread_write_own_file"    -> thread_write_own_file(id)
      [] fn = "thread_read_shared"       -> thread_read_shared
      [] fn = "thread_rw_mix"            -> thread_rw_mix(id)
      [] fn = "thread_open_close_storm"  -> thread_open_close_storm
      [] fn = "thread_dir_churn"         -> thread_dir_churn(id)
      [] fn = "thread_list_during_churn" -> thread_list_during_churn

ThreadFunctions == {"thread_write_own_file", "thread_read_shared", "thread_rw_mix",
                    "thread_open_close_storm", "thread_dir_churn", "thread_list_during_churn"}

Code == [fn \in Traces \cup ThreadFunctions |-> [t \in Threads |-> Script(fn, t)]]

\* Every name that some script uses.
ScriptNames ==
    {"hello.txt", "pos.txt", "seek.txt", "old.txt", "new.txt", "nonexistent", "whatever",
     "a.txt", "b.txt", "del.txt", "file1", "file2", "file3", "file4", "multi.txt",
     "renamed.txt", "empty.txt", "track.txt", "dup.txt", "busy.txt", "boundary.txt",
     "append.txt", "oversize.txt", "overwrite.txt", "many", "ghost", "big", "nofit", "fits",
     "src", "dst", "keep", "reuse", "sized", "legacy-write", "legacy-truncate", "capacity",
     "reuse-capacity", "victim", "shared.txt", "storm.txt"}
    \cup {EmptyFile(i) : i \in 1 .. 5}
    \cup {Name(prefix, id) : prefix \in {"thr", "mix", "stable"}, id \in Workers}
    \cup {Churn(id, i) : id \in Workers, i \in 1 .. CHURN_ITERS}

-----------------------------------------------------------------------------
(* Running a script *)

\* The variables of the traces that hold descriptors, and the numbers they pass.
Registers == {"fd", "fd1", "fd2", "fd3", "fd4", "fdfull", "reuse", "writer", "reader", "fresh"}
             \cup {Many(i) : i \in Probes}

NoRegisters == [r \in Registers |-> -1] @@ [n \in {"-1"} |-> -1]
               @@ [n \in {"32"} |-> 32] @@ [n \in {"99"} |-> 99]

TracesInit ==
    /\ Formatted
    /\ data = [b \in Blocks |-> [i \in 0 .. BLOCK_DATA_SIZE - 1 |-> 0]]
    /\ next_rootdir = 0
    /\ openFileTable = [i \in FDs |-> NULL]
    /\ openFileDescTable = [fd \in FDs |-> NULL]
    /\ mounted = FALSE
    /\ nBlocksOK = TRUE
    /\ trace \in Traces
    /\ part = [t \in Threads |-> IF t = Main THEN trace ELSE ""]
    /\ pc = [t \in Threads |-> 1]
    /\ reg = [t \in Threads |-> NoRegisters]
    /\ cookie = [t \in Threads |-> 0]
    /\ seen = [t \in Threads |-> <<>>]
    /\ passes = 0
    /\ churn_done = FALSE
    /\ trace_ok = TRUE

Running(t) == part[t] # ""

ThisStep(t) == Code[part[t]][t][pc[t]]

\* Thread t goes on to its next call, or returns after its last one.
Proceed(t) ==
    IF pc[t] = Len(Code[part[t]][t])
    THEN part' = [part EXCEPT ![t] = ""] /\ pc' = [pc EXCEPT ![t] = 1]
    ELSE pc' = [pc EXCEPT ![t] = @ + 1] /\ UNCHANGED part

\* CHECK of the step that thread t is at.
Check(t, result) ==
    trace_ok' = (trace_ok /\ LET check == ThisStep(t).check
                             IN  \A f \in DOMAIN check : result[f] = check[f])

\* A call, with its CHECK: on names, or on the descriptor that a variable holds.
NameCall(t, call) ==
    \/ call[1] = "format"  /\ Check(t, FormatReturns(call[2])) /\ sfs_format(call[2])
    \/ call[1] = "mount"   /\ Check(t, MountReturns)           /\ sfs_mount
    \/ call[1] = "unmount" /\ Check(t, UnmountReturns)         /\ sfs_unmount
    \/ call[1] = "remove"  /\ Check(t, RemoveReturns(call[2])) /\ sfs_remove(call[2])
    \/ /\ call[1] = "rename"
       /\ Check(t, RenameReturns(call[2], call[3]))
       /\ sfs_rename(call[2], call[3])

DescriptorCall(t, call) ==
    LET fd == reg[t][call[2]]
    IN  \/ call[1] = "close"  /\ Check(t, Value(0)) /\ sfs_close(fd)
        \/ call[1] = "read"   /\ Check(t, ReadReturns(fd, call[3])) /\ sfs_read(fd, call[3])
        \/ call[1] = "write"  /\ Check(t, WriteReturns(fd, call[3])) /\ sfs_write(fd, call[3])
        \/ call[1] = "getpos" /\ Check(t, sfs_getpos(fd)) /\ UNCHANGED callVars
        \/ call[1] = "seek"   /\ sfs_seek(fd, call[3]) /\ Check(t, SeekReturns(fd))
        \/ call[1] = "fstat"  /\ Check(t, sfs_fstat(fd)) /\ UNCHANGED callVars
        \/ /\ call[1] = "ftruncate"
           /\ Check(t, TruncateReturns(fd, call[3]))
           /\ sfs_ftruncate(fd, call[3])

\* What the driver does to the unmounted image: run sfs-fsck, or overwrite a field.
ImageCall(t, call) ==
    \/ /\ call[1] = "fsck"
       /\ LET check == check_root_directory(check_superblock)
          IN  Check(t, IF check.ok /\ LostBlocks(check) = {} THEN Value(0) ELSE Error("corrupt"))
       /\ UNCHANGED callVars
    \/ /\ call[1] = "corrupt n_blocks"
       /\ nBlocksOK' = FALSE
       /\ UNCHANGED <<vars, mounted, trace_ok>>
    \/ /\ call[1] = "patch size"
       /\ files' = [files EXCEPT ![<<0, 1>>].size = call[2]]
       /\ UNCHANGED <<disk, data, next_rootdir, openFileTable, openFileDescTable,
                      mounted, nBlocksOK, trace_ok>>

VariableCheck(t, call) ==
    /\ call[1] = "distinct"
    /\ Check(t, Value(Cardinality({reg[t][v] : v \in call[2]})))
    /\ UNCHANGED callVars

OpenCall(t, call) ==
    /\ call[1] = "open"
    /\ Check(t, OpenReturns(call[3]))
    /\ reg' = [reg EXCEPT ![t][call[2]] = OpenReturns(call[3]).val]
    /\ sfs_open(call[3])

CallStep(t) ==
    /\ LET call == ThisStep(t).call
       IN  \/ OpenCall(t, call)
           \/ /\ \/ NameCall(t, call) \/ ImageCall(t, call)
                 \/ DescriptorCall(t, call) \/ VariableCheck(t, call)
              /\ UNCHANGED reg
    /\ Proceed(t)
    /\ UNCHANGED <<trace, cookie, seen, passes, churn_done>>

\* The names of this thread's loop so far.
SeenSoFar(t) == IF cookie[t] = 0 THEN <<>> ELSE seen[t]

\* sfs_list returns 0 with a name, or 1 (here "END") after the last one.
ListReturns(t, filename_space) ==
    IF filename_space = 0 THEN Error("EINVAL")
    ELSE IF Listed(cookie[t]) = {}
         THEN [Error("END") EXCEPT !.val = Len(SeenSoFar(t)),
                                   !.names = Seqs!ToSet(SeenSoFar(t))]
    ELSE Value(0)

\* Whatever is not a success resets the cookie.
sfs_list(t, filename_space) ==
    /\ IF ListReturns(t, filename_space).err # "OK"
       THEN cookie' = [cookie EXCEPT ![t] = 0] /\ UNCHANGED seen
       ELSE \E next \in Listed(cookie[t]) :
                /\ cookie' = [cookie EXCEPT ![t] = next.position]
                /\ seen' = [seen EXCEPT ![t] = IF t = Lister THEN <<>>
                                               ELSE Append(SeenSoFar(t), next.name)]
    /\ UNCHANGED callVars

\* A single call of sfs_list, or a look at the cookie.
ListStep(t) ==
    /\ LET call == ThisStep(t).call
       IN  \/ call[1] = "list" /\ Check(t, ListReturns(t, call[2])) /\ sfs_list(t, call[2])
           \/ call[1] = "cookie" /\ Check(t, Value(cookie[t]))
              /\ UNCHANGED <<callVars, cookie, seen>>
    /\ Proceed(t)
    /\ UNCHANGED <<trace, reg, passes, churn_done>>

\* The CHECK inside the lister's loop: every name has a first character.
CheckName(t) ==
    trace_ok' = (trace_ok /\ (t = Lister => \A next \in Listed(cookie[t]) : next.name # NoName))

\* A round of a loop over sfs_list, which the thread leaves with its last call.
ListLoopStep(t) ==
    /\ ThisStep(t).call[1] = "list loop"
    /\ IF ListReturns(t, 24).err = "OK" THEN CheckName(t) /\ UNCHANGED <<part, pc>>
       ELSE Check(t, ListReturns(t, 24)) /\ Proceed(t)
    /\ sfs_list(t, 24)
    /\ UNCHANGED <<trace, reg, passes, churn_done>>

\* Threads start, and main waits for them to return.
ThreadStep(t) ==
    /\ LET call == ThisStep(t).call
       IN  \/ /\ call[1] = "start"
              /\ part' = [u \in Threads |-> IF u \in Workers THEN call[2] ELSE part[u]]
              /\ pc' = [pc EXCEPT ![t] = @ + 1]
              /\ UNCHANGED <<passes, churn_done>>
           \/ /\ call[1] = "start lister"
              /\ part' = [part EXCEPT ![Lister] = "thread_list_during_churn"]
              /\ pc' = [pc EXCEPT ![t] = @ + 1]
              /\ UNCHANGED <<passes, churn_done>>
           \/ /\ \/ call[1] = "join" /\ \A u \in Workers : ~ Running(u)
                 \/ call[1] = "join lister" /\ ~ Running(Lister)
              /\ Proceed(t)
              /\ UNCHANGED <<passes, churn_done>>
           \/ /\ call[1] = "churn_done"
              /\ churn_done' = TRUE
              /\ Proceed(t)
              /\ UNCHANGED passes
           \/ /\ call[1] = "again"
              /\ passes' = IF passes = PASSES THEN PASSES ELSE passes + 1
              /\ IF ~ churn_done \/ passes' < PASSES
                 THEN pc' = [pc EXCEPT ![t] = 1] /\ UNCHANGED part
                 ELSE Proceed(t)
              /\ UNCHANGED churn_done
    /\ UNCHANGED <<callVars, trace, reg, cookie, seen, trace_ok>>

Step(t) ==
    /\ Running(t)
    /\ CallStep(t) \/ ListStep(t) \/ ListLoopStep(t) \/ ThreadStep(t)

\* The child process exits, with the verdict trace_ok.
Exited ==
    /\ \A t \in Threads : ~ Running(t)
    /\ UNCHANGED traceVars

TracesNext == Exited \/ \E t \in Threads : Step(t)

\* Thread t waits: it is not running, or joins a thread that is.
Waiting(t) ==
    \/ ~ Running(t)
    \/ ThisStep(t).call[1] = "join" /\ \E u \in Workers : Running(u)
    \/ ThisStep(t).call[1] = "join lister" /\ Running(Lister)

\* Every step of a thread changes what it does next.
Moves(t) == <<part[t], pc[t], cookie[t]>>' # <<part[t], pc[t], cookie[t]>>

\* Every thread that does not wait is scheduled again and again.  (This is weak
\* fairness of Step(t), which is enabled unless the thread waits.)
TracesSpec ==
    /\ TracesInit
    /\ [][TracesNext]_traceVars
    /\ \A t \in Threads : []<>Waiting(t) \/ []<><<Moves(t)>>_traceVars

-----------------------------------------------------------------------------

\* No CHECK of the suite fails, and sfs-fsck accepts every image it is run on: the
\* calls of SfsDisk return what the repository's own tests demand, and those of
\* category C whatever the order in which the threads' calls take effect, so a trace
\* that fails does not fail by its schedule.
ChecksHold == trace_ok

\* Every trace comes to its end, the lister's loop too, which runs until the other
\* threads are done.
TracesEnd == <>(\A t \in Threads : ~ Running(t))
=============================================================================
