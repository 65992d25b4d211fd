# TLA+ models of the CSAPP lab solutions

The repository holds solutions of the CMU 15-213 labs. The programs with state
that is hard to get right are the **SFS file system** (a block file system used
by many threads, with a reference implementation and a test suite of its own),
the **tiny shell** `tsh` (signal handlers and job control), the **caching proxy**
(one thread per connection, a shared cache), the **allocator** `mm.c` (boundary
tags and free lists) and the **cache lab** (a cache simulator, and transpose
functions written for a cache). This directory models them, checks them with
TLC, and proves most of the safety invariants for every value of the constants with TLAPS.

Paths below are relative to `src/`; `PROJECT.json` maps each definition to the
lines it models.

    tlasany M.tla                        parse
    tlc -workers 2 -config X.cfg M       run a configuration
    tlapm SfsImplProofs.tla              check the proofs of one module


## 1. The system and its parts

### SFS file system (`SFS_Lab/sfslab`)

| part | state | operations | what makes it correct |
|---|---|---|---|
| block layer (`sfs-disk.c`, headers in `sfs-disk.h`) | a header (type, prev, next) per block, the head of the free list | allocate a prefix of the free list, free a list, attach blocks to a list, walk | every block belongs to exactly one list, every list is doubly linked and of one type |
| calls (`sfs-disk.c`) | the image (directory entries in the superblock and in extension blocks, file blocks), the table of open files, the table of descriptors | `sfs_open close read write getpos seek ftruncate fstat remove rename list` | a program sees the named byte sequences of `sfs-api.h`, whatever is shared, unlinked or full |
| locks (`sfs-disk.c`) | `directoryLock`, `openTableLock` (reader-writer), a mutex per descriptor, one per open file, `allocationLock` | acquired in subsets by ten calls | no race, no deadlock, no use of an open file that the last close frees |
| listing (`sfs_list`) | a cookie kept by the caller between calls | one name per call | a file left alone is listed exactly once |
| mount and format (`sfs-support.c`) | the mapping of the image | format, mount, unmount, `accessBlock` | the image it makes satisfies the invariants |
| checker (`sfs-fsck.c`) | a map of visited blocks | walks of every list | accepts what the file system leaves behind |
| baseline (`sfs-baseline-ref.c`) | as the calls, one global lock; descriptors cache a block | without seek and rename | it has the interface of `sfs-disk.c`; the cached block is the block of the position |
| traces (`test-sfs.c`) | what a trace holds in variables, per thread | calls of the interface and CHECKs on what they return | a correct file system passes, in every order of the threads' calls; every trace ends |
| grader (`test-sfs.c`) | the child of the trace that runs, its pipe and captured output, a clock, the images, the points | start, drain, wait, kill, keep and clean images, sanitizer sweep, benchmark | verdicts and kept images are the trace's own; it ends whatever its children do |

Callers are threads of one process. The image is a shared memory mapping: there
is no cache and no write-back to order. A call searches the directory under
`directoryLock`, the two tables under `openTableLock`, and takes blocks under
`allocationLock`. Hard: sharing of one open file by several descriptors, removal
and renaming while open, truncation under other descriptors, space that runs out
in the middle of a call, the locks, and a listing that spans calls.

### Tiny shell (`Shell_Lab/shlab-handout/tsh.c`)

State: the job list, `nextjid`, the signal mask and pending signals, and the
stack of handlers on top of the main loop. Operations: `eval`, `do_bgfg`,
`waitfg`, the handlers of SIGCHLD, SIGINT and SIGTSTP, `addjob`/`deletejob` and
the searches. It interacts with its children by signals and `waitpid`. Hard:
a child that ends before it is a job, handlers between a test and its use, handlers that
interrupt each other, a wake-up that is lost. It is correct when jobs are
children, the prompt waits for the foreground job and only for it, and keys reach
the foreground job only.

### Caching proxy (`Proxy_Lab/proxylab-handout/proxy.c`, with `csapp.c`)

State: a linked list of cached objects, its size, a clock, a read-write lock, and
per worker thread the request it serves. Operations: `cache_get` (copy under the
read lock, touch under the write lock), `cache_put` (evict the least recently
used until there is room, insert), `doit` (serve a hit or relay and collect
a response). Hard: two misses of one key, the gap between copy and touch, eviction of
what others read, an I/O error that ends the process. It is correct when hits are what the
origin of their own key sent, the budget holds and the list stays a list.

### Allocator (`Malloc_Lab/malloclab-handout/mm.c`, over `memlib.c`)

State: the words of the heap, the break, twelve heads of circular free lists.
Operations: `mm_init mm_malloc mm_free mm_realloc`, the last with six in-place or
moving paths. Sequential; hard because a block without a footer keeps its
state in the next header, and because `mm_realloc` moves payloads over list links.
It is correct when tags and lists agree and no user's byte changes.

### Cache lab (`Cache_Lab/cachelab-handout`)

`csim.c` keeps, per set, lines with a tag and a counter of the accesses since the
last use; `load_trace` gives it the lines of a trace file. It is correct when it
counts the hits, misses and evictions of sets that drop the least recently used
block. `trans.c` transposes a matrix; it is correct when the result is the transpose,
and good when it misses seldom in the cache that `test-trans.c` and `tracegen.c`
measure it with. Hard: a park-and-move order of loads and stores in which one
step too early loses an element and one too late costs misses.

### The rest

| part | why it is not modelled |
|---|---|
| `bits.c` | thirteen functions of one or two words, without state: every one is a formula that the lab's own `bddcheck` decides for all inputs |
| `tiny/` web server | iterative and without state; the proxy's origin answers or fails |
| drivers of the other labs, test programs | course harness; read for how the programs are called |
| Bomb and Attack lab | given binaries and answers to them |
| `docs/` | text; read for what it says of the programs |


## 2. The modules

    SfsBlocks ── SfsDisk ──┬── SfsList ── MCSfsList ─┬─ MCSfsFsck
        │           │      ├── SfsFsck ──────────────┘
        │           │      │      └── SfsCalls ── SfsTraces ── MCSfsTraces
        │           │      ├── SfsBaseline ── SfsDiskImpl ── MCSfsImpl
        │           │      │                      └─ implements SfsApi
        │           │      ├── SfsLoops ── MCSfsImpl
        │           │      └── MCSfsDisk (extended by MCSfsList and MCSfsImpl)
                    └── SfsDiskProofs (with SfsList and SfsFsck) ── SfsImplProofs (with SfsDiskImpl)
    SfsLocks ── SfsLocksProofs
    SfsPerf ── SfsHarness ──┬── MCSfsHarness
                            └── SfsHarnessProofs
    Tsh ──┬── MCTsh        Proxy ──┬── MCProxy        Malloc ── MallocProofs
          └── TshProofs            ├── ProxyProofs
                                   └─ implements LruCache
    NaturalSets (extended by SfsDiskProofs, SfsLocksProofs, ProxyProofs, TshProofs, MallocProofs)
    CSim ── Transpose ── MCCacheLab
      └─ implements Lru

`PROJECT.json` also names *slips*: operators that stand beside a definition and change it as
a plausible mistake would (a link not reset, a test of another field). Each checked
property comes with one that breaks it. They take no part in the specifications.

**SfsBlocks** is the block layer. A disk is the head of the free list and a header
per block; block numbers are `block_id`s, and 0 ends a list. `List` is the walk that
every loop over `next` makes, `AfterAllocate`, `AfterFree` and
`AfterAttach` are the stores of `allocateBlocks`, `freeBlocks` and
the growth of a file or directory. A search returns the set of what it finds,
empty or with one element, so that no case is assumed away: when `LastToAllocate` is empty
the call fails with ENOSPC.

**SfsDisk** is `sfs-disk.c`, one action per call or per path of a call:

| code | actions |
|---|---|
| `sfs_open` | `OpenExisting`, `OpenCreate`, `OpenExpand` (the directory grows), `OpenNoMemory` (it grows, then malloc fails) |
| `sfs_close` | `Close` (the last close of an unlinked file frees its blocks) |
| `sfs_read`, `sfs_write` | `Read`, `WriteInPlace`, `WriteGrow` |
| `sfs_seek` | `Seek` |
| `sfs_ftruncate` | `TruncateGrow`, `TruncateShrink` |
| `sfs_remove`, `sfs_rename` | `Remove`, `RenameFresh`, `RenameOver` |

`disk`, `data`, `next_rootdir` and `files` are the image; `openFileTable` and
`openFileDescTable` are the tables. `sfs_mem_file_t.diskFile` is a directory slot,
or `UnlinkedFile` when it points to the open file's own copy, which
`DiskEntry`/`SetDiskEntry` follow. The initial states are the image that `sfs_format`
makes and an image of an older version with a one-block empty file, which
`sfs-disk.c` and `sfs-fsck.c` say they accept. A create that fails for lack of memory keeps
the directory block that it added (`OpenNoMemory`): `sfs-api.h:77` says that no *data* block is
retained, which is so. A call that fails without changing
anything (EBADF, ENOENT, EMFILE, ENOSPC, EFBIG, EINVAL) is a stuttering step.
`sfs_getpos` and `sfs_fstat` change nothing. In `StoreBytes` and `ReadBytes` byte `p` of a file is
in block `p \div BLOCK_DATA_SIZE` of its list. The code gets there by loops over chunks, which start
at `blockForPosition`, where a position between two blocks counts as in the first:
**SfsLoops** has these loops, block by block, and `LoopsInPlace` says that they touch the same bytes.

**SfsBaseline** is `sfs-baseline-ref.c` on the same image and tables: its calls are
each under one lock, so one action each, and `currBlock` is the block that each
descriptor remembers. Reads and writes start at it, and the four places that set it
(open, write, and both directions of ftruncate) are in the actions.

**SfsApi** says what `sfs-api.h` promises: `dir` (name to bytes and open descriptors),
`orphans` (removed files still open) and `pos`. **SfsDiskImpl** is the mapping. Its image of
the state is carried in variables which every step of `SfsDisk` updates to
the image of the new state, so that TLC computes each image once; the abstract
specification is the property `ImplementsApi`. `program` chooses which of the two
implementations is linked: both are shown to implement one interface.

**SfsFsck** is the verdict of `sfs-fsck.c` on the image of `SfsDisk`: the same
walks in the same order with one map of visited blocks.

**SfsList** adds a thread that loops over `sfs_list`, with the cookie as the code
keeps it (a physical position), while others make every call of `SfsDisk`.
`kept` and `always` are history variables: the entries that no call touched, and the
names that were never missing, since the loop began.

**SfsCalls** is the interface as its caller sees it: `sfs_x` is what a call does and
`XReturns` what it returns, with the error codes in the order in which the code
looks for them; `sfs_format`, `sfs_mount` and `sfs_unmount` of `sfs-support.c` are
among them. **SfsTraces** is the test suite on top: a trace is a script of
calls, each with what its CHECK demands, and the threads of category C interleave
them. Sizes are the real ones: blocks of 500 bytes, 15 entries to a directory block, 32
descriptors, an image of one page. Only `NUM_THREADS` and the numbers of rounds
are cut.

**SfsPerf** and **SfsHarness** are the process that grades. `parent` is where
`run_trace_with_timeout` stands (drain, wait, clock, sleep, kill, last drain, keep,
clean), `child` and `exits` the process of the trace, `images` who wrote which
image. The trace is any program: it may write without end, hang, crash or
exit at any point. The sanitizer sweep and the benchmark follow, the latter with
its gate (`perf_start`), its samples and its budget.

**SfsLocks** takes the calls apart. Each acquisition is a step, each access
between two acquisitions is a step, unlocks belong to the step they end. Data is
reduced to what locking depends on (which descriptor refers to which open file,
which slot that file points to, which slots hold which names). `Reads` and
`Writes` say which memory the next step of a thread touches.

**Tsh** is the shell: `main` is where the main loop is, `handlers` the stack of
frames of which the last one runs, `pending` and `mask` the signal state.
`Deliver` puts a frame on the stack when the mask of the moment lets it
(inside `sigsuspend` that is the mask it installs). `proc` holds the children, which
run, stop, continue and end as they like (`Program`) or as signals make them (`Kill`).
A command line is a sequence of words, which `parseline` takes apart.

**LruCache** is an LRU cache as a sequence of objects in order of use. **Proxy** is
the code: one thread per connection, the list on a heap of
addresses (a pointer to freed memory reads garbage, which `NoDangling` and
`HitsAreResponses` would show), the lock as `readers` and `writer`. `ByRecency`
sorts the list by timestamp and maps it to `LruCache`.

**Malloc** is `mm.c` down to the words: headers, footers of free blocks, links in
payloads, one operator on heaps per C function (`coalesce`, `place`, `insert_node`, ...) and
one action per path of `mm_realloc`. What the user stores are negative words with
the allocation's id and offset in them, so any overwritten byte shows.

**Lru** says what a simulated cache counts. **CSim** is the simulator, with its
counters. **Transpose** is `trans.c` one memory access a step, behind `CSim`:
`Row`, `UpperHalf`, `Unpark`, `LowerHalf`, `Tile` and `Diagonal` are the sequences of accesses of
one pass of its loops, and `Execute` does the next one of the pass.


## 3. What the runs check

| run | instance | distinct states | it shows |
|---|---|---|---|
| `sfs_structure` | 3 blocks after the superblock, 1 byte and 1 entry per block, 2 names, 2 descriptors, files of up to 3 bytes, a listing beside every call | 134,234 | `BlocksPartitioned`, `ListsWellFormed`, `SizesMatchBlocks`, `PosWithinSize`, `RefCounts`, `OpenFilesTrackEntries` and `FsckAccepts` after every sequence of calls; an undisturbed file is listed once (`KeptListedOnce`) |
| `sfs_api` | blocks of 2 bytes, contents 0 or 1, 2 names, 2 descriptors, both implementations | 168,853 | `sfs-disk.c` and the baseline implement `SfsApi`: growth, zero fill, reuse of freed blocks, unlinking, rename; `CachedBlocksRight`; `LoopsInPlace`: the loops that copy and clear data touch the bytes that `SfsDisk` says, from every position and for every length |
| `sfs_list_rename` | 3 names, 1 descriptor, a listing | violation | see *Findings* |
| `sfs_locks` | 2 threads, 2 names, 2 descriptors, 2 slots, every call | 1,073,134 | `NoRace`, `FilesPinned`, `NoLockedDestroy`, `NoWaitCycle`, `IdleHoldsNothing`, no deadlock, and every call returns (`EveryCallReturns`) |
| `sfs_traces` | the sizes of the code, 15 traces, 2 threads | 55,204 | `ChecksHold`: no CHECK of the suite fails, in any order of the threads' calls, and `sfs-fsck` accepts every image; `TracesEnd` |
| `sfs_harness` | a category of one trace, one of two concurrent ones, pipes of 2 chunks, a capture of 3, time limits of 2 ticks, 3 workers, 2 samples | 349,244 | `VerdictsTrue`, `KeptAndCleaned`, and the grader ends (`GraderEnds`) |
| `tsh_jobs` | 2 processes, 2 job slots, both keys, commands in front and behind, `quit` | 416,372 | `JobsAreChildren`, `ForegroundBlocksPrompt`, `KeyboardSparesBackground`; `EvalReturns`: `eval` never sleeps on after its process has ended or stopped |
| `tsh_fg_wait`, `tsh_two_fg` | 1 and 2 job slots | violation | see *Findings* |
| `proxy_cache` | 2 workers, 3 keys, room for 3 units, reads of up to 2 units | 134,285 | `BudgetKept`, `OneObjectPerKey`, `NoDangling`, `HitsAreResponses`, `NoLockOverIO`, and the list implements `LruCache` |
| `malloc_heap` | 176 bytes of heap, 64-byte chunks, requests of 16 and 40 bytes, 3 allocations alive | 29,512 | `TagsAgree`, `ListsHoldFreeBlocks`, `LiveAreAllocated`, `PayloadsIntact` |
| `cache_lab` | traces of 7 accesses to 6 addresses on two small caches; `transpose_submit` on the three graded matrices and `transpose_32`, on the graded cache | 74,818 | the simulator implements `Lru`; `Transposed`; `MissesAsReported`: 288, 1180 and 1993 misses, of which 284, 1176 and 1989 are the functions' and four are those of the measurement's markers |

### The bounds, and why they are enough

*SFS.* With three blocks every resource runs out (blocks, descriptors, slots of
the directory), a file reaches three blocks, the directory grows past the superblock, the
free list is interleaved, and both descriptors can share a file, hold
two files, or hold a removed file and its successor of the same name. A block of one byte
makes every position a block boundary, which is where positions and sizes go
wrong; `sfs_api` has blocks of two bytes for the case inside a block; its files have one or two blocks, so a copy
starts at the start, inside or at the end of either, and crosses from one to the other (`LoopsInPlace` was also checked
with three blocks of three bytes, 7,699 states). Buffers are of one
value (`Mark`), different from 0 where contents are looked at: a byte that is not
cleared or not copied still differs. Seeks by one, repeated, reach every
position. The names are symmetric. The calls alone were also checked with four blocks and
buffers of one and two bytes (135,571 states), and the listing with three names, where
the directory outgrows an extension block too (233,122 states).

*Traces.* Two threads of a kind meet in every way that the traces provide for; in
category C each thread has names of its own or all share one. `STORMS`,
`CHURN_ITERS` and `PASSES` are 2, so that each loop goes round.

*Grader.* Output is counted in chunks, time in ticks, and both stop at the bound that the code
compares with; a drain of two reads is shorter than what a child can write, which is
the case that matters. Two concurrent traces of which one has two images tell the
images of a trace from those of another.

*Cache lab.* Seven accesses fill a set of three lines, hit in any order and evict twice.
The counters have 16 bits, more than the accesses of any run; nothing is claimed of their
wrap-around after 2^32 accesses to one set.

*Locks.* Races and wait cycles over five kinds of lock need two threads each with a lock the other
wants; a cycle of three was looked for with three threads, two names and one
slot (661,000 states, same properties). `MAX_SLOTS` lets the directory grow once under other calls.

*Shell.* `MAXJOBS` 2 gives one job in front and one behind; two process ids suffice
because a third command waits for an id to be reaped. `MaxJid` stops commands when ids
have grown beyond it, so that ids do not grow for ever while one job is kept.
Each signal is blocked in its own handler, so the stack has three frames at most. The lines
typed are a command with and without `&`, `quit` with and without it, `&` alone and a blank one.

*Proxy.* Three units hold one large or several small objects, so one insertion
evicts none, one or two objects; a response of more than `MAX_OBJECT_SIZE` is not cached.
`MaxClock` bounds the timestamps: no request is accepted after it. Three workers with
two keys and objects of one unit were checked too.

*Malloc.* 176 bytes hold a middle block with two free neighbours and another block
after it. Every path of `mm_realloc` is taken, with and without a rest to
split off; both requests change class when blocks merge.

### Deadlock

TLC checks deadlock where the system can always go on (`sfs_*`, but for the grader,
which ends). It is off for `Tsh` (a shell that has ended, or
`MaxJid` reached with nothing running), the cache lab (functions return), `Proxy` (the process may exit, `MaxClock`) and
`Malloc` (the bounds on the heap and on ids may leave no request that succeeds).

### Fairness

* `SfsLocks`: each thread inside a call is scheduled again and again (WF of its
  `Step`). POSIX mutexes and reader-writer locks need not be fair, so a thread can be passed
  over for ever by others that go on calling; the specification has the program make no
  calls from some time on, and no stronger assumption is made. Nothing makes a thread start a call.
* `SfsTraces`: a thread that does not wait for others is scheduled again and again.
* `SfsHarness`: the parent is scheduled, and time passes. Nothing is assumed of the
  children.
* `Tsh`: the shell, be it the main loop or a handler, runs on (WF), new children run (WF),
  and the user stops pressing ctrl-C and ctrl-Z some time: a shell need not get ahead of
  keys that are pressed for ever. Nothing is assumed of the programs.

### Findings

1. **A listing can miss a name that always existed** (`sfs_list_rename`).
   `sfs_list` locks the directory for one call and resumes at a physical slot;
   `sfs_rename` moves the new name to the slot of the old one. A loop that has passed
   this slot, and not the one of the name replaced, never sees the name.
   `sfs-api.h:170-172` and `docs/labs/sfs-lab.md:257` say there is no such gap.
2. **`fg` can sleep for ever** (`tsh_fg_wait`). `waitfg` relies on SIGCHLD being
   blocked between its test and `sigsuspend`; `eval` blocks it, `do_bgfg` does not.
3. **Two slots in state FG** (`tsh_two_fg`). `do_bgfg` writes `FG` into a slot
   that SIGCHLD has cleared since the lookup; a later `fg` makes a second one, against
   `tsh.c:35`.

Everything else that was stated holds.


## 4. What is proved

`SfsDiskProofs` and `SfsImplProofs` prove for every size
of disk, block, table, directory block and file, and for every set of names, buffers,
lengths and distances; `SfsLocksProofs`, `TshProofs` and `ProxyProofs` for any set of threads,
workers and children and any of the sizes; `SfsHarnessProofs` for any categories, images,
limits and timeouts; `MallocProofs` for any size of heap and of chunks, any requests and any
number of allocations.

| module | theorem | it says |
|---|---|---|
| `SfsDiskProofs` | `TypeCorrect` | every stored pointer, slot and index is in range |
| | `RefCountsCorrect` | the reference count of an open file is the number of its descriptors; no descriptor refers to a freed one |
| | `OpenFilesCorrect` | an open file points to an entry in use that no other points to or, exactly when it is unlinked, to its own copy |
| | `TablesAgreeCorrect` | a free descriptor means a free slot of open files: the assertions of `addOpenFileEntry` and `sfs_has_open_files` never fire |
| | `StructureInvariant` | the block lists are disjoint paths of the lengths that the sizes call for; every entry in use is in a block of the directory |
| | `BlocksPartitionedCorrect` | every block is on exactly one list |
| | `ListsWellFormedCorrect` | every list is linked both ways, ends, and has blocks of one type |
| | `SizesMatchBlocksCorrect` | a file has the blocks its size needs and no more |
| | `PosWithinSizeCorrect` | no descriptor is positioned beyond the end of its file |
| | `UniqueNamesCorrect` | every file of the directory has a name, and no two the same |
| | `KeptListedOnceCorrect` | a loop over `sfs_list` returns a file that stays exactly once |
| | `FsckAcceptsCorrect` | `sfs-fsck` accepts the image after every call, but for the blocks of unlinked files that are open |
| `SfsImplProofs` | `CachedBlocksRightCorrect` | the block that a descriptor of the reference file system remembers is the one of its position |
| | `BothFileSystemsCorrect` | the lists, sizes and positions are right whichever of the two programs is linked |
| | `ImplementsApiCorrect` | both programs implement `SfsApi`: what a program sees are the named byte sequences of `sfs-api.h` |
| `SfsLocksProofs` | `IdleHoldsNothingCorrect` | a thread between two calls holds no lock |
| | `FilesPinnedCorrect` | an open file that a thread uses or waits for is not freed |
| | `NoLockedDestroyCorrect` | no locked mutex is destroyed |
| | `NoWaitCycleCorrect` | there is no set of threads that all wait for locks held in the set |
| | `NoRaceCorrect` | no two threads are at conflicting accesses of one variable |
| `SfsHarnessProofs` | `VerdictsTrueCorrect` | a verdict is the child's own, its output is captured up to the limit, points are earned |
| | `KeptAndCleanedCorrect` | what is kept of a failed trace is what it left; no image outlives its trace or the grader |
| `TshProofs` | `JobsAreChildrenCorrect` | every job is a child that lives or is being reaped, no two jobs are one |
| | `ForegroundBlocksPromptCorrect` | no command is read while a job is in the foreground |
| | `KeyboardSparesBackgroundCorrect` | the job that the handler of a key is about to signal is not one of the background |
| `ProxyProofs` | `BudgetKeptCorrect` | `cache_size` is the sum of the sizes and within the budget |
| | `OneObjectPerKeyCorrect` | no key is cached twice |
| | `NoDanglingCorrect` | what is allocated is in the list; no worker holds a pointer to anything else |
| | `HitsAreResponsesCorrect` | what is cached and sent came from the origin that was asked for |
| | `NoLockOverIOCorrect` | `cache_lock` is held in `cache_get` and `cache_put` only |
| | `ImplementsLruCorrect` | the cache refines `LruCache`: what leaves it is always the least recently used |
| `MallocProofs` | `HeapInvariant` | the heap is cut into blocks in order, and the user's payloads are in the allocated ones |
| | `TagsAgreeCorrect` | sizes lead to the epilogue, headers and footers agree, no two neighbours are free |
| | `ListsHoldFreeBlocksCorrect` | each list holds the free blocks of its class, each once, and nothing else |
| | `LiveAreAllocatedCorrect` | the allocated blocks are the user's, one each, with the room that was asked for |
| | `PayloadsIntactCorrect` | no word of a payload is lost or overwritten |

`NaturalSets` holds what they share: induction over the natural numbers stated for
a set (the library's rules take an operator, which the provers cannot instantiate), and from it
that sets of numbers have least and greatest elements.

*Assumptions.* `BlocksAssumption` (there is a block, a block has bytes),
`SfsAssumption` (tables and directory blocks have slots, 0 is a byte, inputs have their
types), `NullAssumption` (NULL is neither an open file nor a descriptor), `ImplAssumption` (nor a file of `SfsApi`), `LocksAssumption`
(there is a descriptor and a slot, open files are numbered, NULL is nothing else),
`ProxyAssumption` (NULL is no address, an object fits in the cache, a read brings
something, addresses are finitely many), `HarnessAssumption` and `PerfAssumption` (limits are
positive, there is a sample) and `TshAssumption` (process ids are positive, there is a job
slot, a key is ctrl-c or ctrl-z) and `MallocAssumption` (the heap has room for what `mm_init`
writes, sizes of heap and chunks are multiples of 8, no request is empty). They say no more
than the C types and `#define`s do. TLC evaluates each of them in the runs on its module.

*Tables* (`SfsDiskProofs`). `IInv == TypeOK /\ RefCounts /\ OpenFilesTrackEntries` is
inductive. No part is inductive alone. `Close` subtracts from a count that only `RefCounts`
shows to be positive, and `TypeOK` needs it to be a natural number. `RefCounts` needs
`OpenFilesTrackEntries`, since `sfs_open` adds to the count of the open file that the search
by slot finds, and creates one when there is none. `OpenFilesTrackEntries` needs that a write
or truncation never sets `first_block` to 0. `TablesAgree`, which no run checks, follows from `RefCounts` by
counting: if all open files were in use, each would have a descriptor, and these are different.

*The walk* (`SfsDiskProofs`). `List` is recursive and there is no induction over an operator.
What the walk has passed is a *path* (`WalkUnfold`, `PathStep`): its blocks are distinct, so
it has no more of them than the disk, and there is a longest. `ListIsPath` and
`ListFacts` follow, and from them the types of what allocation, freeing and attaching leave.

*Lists* (the second part of `SfsDiskProofs`). `BlocksPartitioned` is not inductive: it counts the lists of a
block and does not say where in a list the block is. The invariant `Structure` says that there is an *owner* of
each block (the free list, the directory, a slot, or an open file that is unlinked), a place of
the block on its owner's path, and headers that agree (`Laid`). `allocateBlocks` cuts a path
in two, `freeBlocks` and the growth of a file join two; the lemmas `Takes...` and `Frees...` do
this once, for any owner, and each call is one or two of them. `SizesMatchBlocks` is part of it,
since the cut of `ftruncate` and the walk of `write` are as long as the sizes say; this
needs arithmetic of rounding up. `PosWithinSize` needs `Structure` too: a
file that is created in a new directory block must not overwrite an entry in use, so
entries in use are in blocks of the directory.

*The directory* (the last part of `SfsDiskProofs`). Positions are numbered as `findDirectoryEntry` and `sfs_list`
go (`Ordered`): each is a slot of its own, every slot of the directory has one, and since
the list of the directory is only ever continued (`DirectoryGrows`), a slot keeps its position.
So a search that fails has looked at every entry in use (`SearchComplete`), which gives
`UniqueNames`; and the loop over `sfs_list` has an invariant (`Listing`): of the entries
that stay, those up to the cookie were returned once and those beyond it not yet, which needs
the names to be unique. For `sfs-fsck`, `BlocklistAccepted` shows that `check_blocklist` accepts the
path of an owner whose blocks were not visited, and adds just these. Its loop over the
entries is a fold; `FoldIs` shows that it computes a function of sets of positions
if the function satisfies the fold's equation at any element, not only the greatest.

*The reference file system* (the first part of `SfsImplProofs`). `BothInv` adds to the invariants
above what its descriptors remember, for the program that has it: `CacheAgrees`, and that
`currBlock` is an array over the descriptors. That every write of it is a `WriteInPlace` or `WriteGrow` of
`SfsDisk` (`WriteRefines`) needs `CacheAgrees`: a walk of so many blocks from the block
remembered comes to the same block as one from the head of the file (`WalkOn`), so the same bytes
are stored (`StoreFromBlock`) and the new blocks attached to the same end. Its other steps are
steps of `SfsDisk` by their definitions, but for an `sfs_open` that fails after it has expanded the
directory (`ExpandedOnly`). So the invariants of `SfsDisk` hold of it. `CacheAgrees`, in
turn, needs them: what one descriptor remembers is undisturbed by a call on another
since a list keeps its first blocks when others are cut from or joined to any list
(`BlocksKept`), and after `ftruncate` the block of the new end is the one that the positions
pulled back are in (`PlaceAfter`).

*Both implement `SfsApi`* (`ImplementsApiCorrect`). The invariant is `ImplInv`: `BothInv`, `UniqueNames`,
that no file is larger than `SFS_MAX_FILE_SIZE` (`SizesBounded`), and that `dir`, `orphans` and `pos`
are the files as their owners have them (`Pictured`): the file of an owner, a directory slot or
an unlinked open file, is the bytes of its entry's blocks and the descriptors of its open file (`FileAt`).
That this is what the mapping computes (`ShownPictured`) needs unique names, for a search to
find the one slot of a name. Each call is then an abstract step (`StepIs`), by what it changes:
descriptors only (`OnlyMoved`), the list of one file (`OthersStored`, `UnstoredKept`: no two files
share a block, so a store into one leaves the bytes of the others; `StoredFile` says what it leaves of the one),
one slot (`OpenedIs`, `SlotOnlyKept`), or the owner of a file (`UnlinkSeen`, `RenameSeen`). A create
that fails after the directory has grown changes nothing that is seen (`ExpandedOnlyIs`).
The steps of the reference file system are steps of `SfsDisk` or that one.

*Locks* (`SfsLocksProofs`). The invariant says, for each program counter, the locks that its thread
holds (`Place`) and what it has read that is still so (`Pinned`, `Tables`): a descriptor that is
locked keeps its file, a slot under the directory lock keeps its file. A step of a thread
keeps its own part; that it keeps those of the others is one lemma (`Elsewhere`), from the locks that
the step holds. `NoWaitCycle` follows from an order of the locks: whoever waits holds only
locks below the one it waits for, so a set of waiting threads has one
that waits for the highest lock, whose holder would wait for a higher one. `NoRace` follows from a
guard: to each variable belongs a lock that every access to it holds.

*The grader* (`SfsHarnessProofs`). For each place of the parent the invariant says where the child is
(`ChildStands`), whose images there are (`ImagesStand`) and what the report says so far. That
the capture ends up with all that was written, up to the limit, follows from
`OutputCounted`: what was read and what is still in the pipe make up what was written. The
image kept is the one left since no child runs from `Kill` or `Wait` until `Clean`. A
benchmark that scores has an image only if `sfs_format` failed, and then no points (`PerfStands`).

*The shell* (`TshProofs`). SIGCHLD is blocked from before `fork` until after `addjob`, in the mask and in
every mask that a return would restore (`Blocked`); so the new child
is alive and no job's (`NewChild`), and `addjob` is not overtaken by its own reaping. Only the
main loop adds jobs, and not under a handler, so the handler for a key finds the job in
the foreground as the list has it. A process id may be reused, but no job has it then: `fork`
runs only when no handler does, and handlers delete what they reap.

*The proxy* (`ProxyProofs`). The list is a chain of distinct objects (`Chained`), which hold the
sizes and origins they were stored with (`Cached`); who holds the lock is where the worker is
(`Locked`), and a pointer is held under the read lock only (`Located`). Sums over the list are
moved by one object at a time, by induction on cardinality.

*The proxy implements `LruCache`* (`ImplementsLruCorrect`). `ByRecency` counts, for each
object, the later ones; `LInv` adds to the invariant that some sequence of addresses enumerates
the heap by falling timestamps (`Ordered`), and `LatestIs` shows that any such sequence is what
`ByRecency` builds. The three changes of the heap are then changes of that sequence: a
timestamp later than all others moves an object to the front (`RecencyUse`), the victim is the last one
(`RecencyEvict`), a new object is the first (`RecencyInsert`); every other step leaves it as it
is. `TotalOfEntries` equates the abstract total with `cache_size`, so that the abstract cache
evicts only when what comes in may not fit, and never exceeds its capacity (in the run the
capacity is that of the largest object, so the guard of an eviction is nearly always true, and it is the
order of evictions that is put to the test). That `TooLarge` ignores the
budget of an empty list is harmless because an object fits into an empty cache (`NullHead`).

*The allocator* (`MallocProofs`). The properties are not inductive: they say which blocks are
allocated and which words keep, not that a list is a circle or that the tags of a block
in the middle of a call are still right. `Ok(h, E)` says that the addresses in `E` cut the heap
into blocks with agreeing tags (`Tags`), that each class has a circle of its free blocks, linked
both ways (`Listed`), and that of two neighbours one is allocated (`Coal`). `HeapServes` adds
that the allocated blocks are the user's, with their payloads.

The C functions are split where the code splits them. Unlinking and linking change
words of free payloads only, and one circle (`Unlink`, `Link`).
Everything that writes tags writes them for a space between two blocks that is cut anew into
one or two pieces (`Recut`): a block that `place` splits, free neighbours that
`coalesce` joins, the heap that `extend_heap` lengthens, the halves of a resized block. The
lemmas `Recut...` show once that the outside keeps its tags and lists, and that the new cut is in order;
`Part` is the state in between, with blocks on no list or with free neighbours. The paths of
`mm_realloc` are an `Opened` space, whose payload is moved in order (`Moved` reads a word before
it is overwritten, since it moves down), and which is then taken whole or divided. All
of them end in `Regiven`, from which one lemma (`RegivenServes`) gives the invariant.
That the walk of the code meets just the addresses of `E` (`EndsAre`), and `OnList`
just the circle, is by induction along the heap and the circle; it links the invariant to the
properties.

*Only model-checked.* The refinement of `Lru` by the simulator; `ChecksHold`, about scripts with
numbers in them, at the sizes of the code; `LoopsInPlace`, whose loops are a recursive function; `Transposed` and `MissesAsReported`, which are about
the graded matrices, so that the run is the whole claim. Liveness (`EveryCallReturns`,
`TracesEnd`, `GraderEnds`, `EvalReturns`) is out of the prover's reach, as are ENABLED and induction
over data: what a recursive function computes for every input is proved here only where it
is a path or a fold as above. No module uses a RECURSIVE operator.


## 5. What is left out of the modelled parts

* **SFS**: a crash inside a call (the image is a mapping, so any prefix of its stores
  may remain; no code recovers from it), `sfs_unmount` against calls that run
  (`sfs-support.c:237`, it takes no lock), overflow of positions near
  `SSIZE_MIN`/`SIZE_MAX` (positions are integers), malloc failures in `SfsLocks`
  (they change no lock). In `SfsLocks` the early returns of a call that hold the same locks share
  one step and its unlocks (`sfs-disk.c:821-825` and those of `sfs_write`, `1069` of `sfs_list`):
  an unlock forgotten at one of them only would not show. `sfs-fsck`'s output, options and mapping of
  the image.
* **Traces and grader**: trace X01, whose 260 files need more directory blocks than the image
  of the run has; `--perf-only`, errors of `fork`, `pipe` and `waitpid`, the
  median of the samples, and what is printed. A child's output is a number of chunks; what
  the lines say is left out. A full capture has no room left for the TIMEOUT or CRASH line either
  (`test-sfs.c:2447`, although 2464 says that it is appended too): `VerdictsTrue` asks for the
  line only where there is room.
* **Baseline**: its `startBlock`, which is assigned and never read.
* **Shell**: quotes in a command line, messages and what `jobs` prints, an `exec` that fails
  (a child that ends), a signal from outside that reaches the child before its `setpgid`. Ids wrap past `MAXJOBS` as in the code, but two jobs of one id need four slots.
* **Cache lab**: the command line, the output, and the counters' wrap-around.
* **Proxy**: `parse_uri` and the rewriting of headers (a request is its key). A response
  cut short by its origin cannot be told from a whole one by the code, nor by the model.
* **Allocator**: sizes whose rounding overflows 32 bits; words inside a
  free block beyond its links and tags count as 0, as do bytes of slack.


## 6. Plan

Done, in this order: the block layer and the calls; their abstract
specification; the locks; listing; the shell; proxy and LRU cache; allocator; checker;
the proofs of the table invariants of the file system; the shell's command lines and ways to end; the
baseline; the simulator and the transpose functions; mount and unmount with the error codes of
each call; the test traces on them; the grader and its benchmark; the proofs of
the block lists, the directory, the listing, the checker's
verdict, the blocks that the reference file system remembers, the refinement of `SfsApi` by both file systems, the locks, the grader, the shell,
the proxy's cache with its refinement, and the allocator.

What would remain to prove: `CSim`, whose counters are distinct, so that every step maps to one of `Lru`.

What would remain to model: `sfs_unmount` beside calls that run (`SfsLocks` with a
mapping that may go); soundness of the checker (an image that it accepts satisfies
`BlocksPartitioned` and `ListsWellFormed`, over arbitrary small images); the
buffered input of `csapp.c`.
