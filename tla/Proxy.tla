------------------------------- MODULE Proxy --------------------------------
(***************************************************************************)
(* The caching web proxy of proxylab-handout/proxy.c: detached worker      *)
(* threads that each serve one request, and the cache they share, a linked *)
(* list of heap objects behind a read-write lock.                          *)
(*                                                                         *)
(* A response is the origin (the key) it came from and its size, in units  *)
(* of which a read brings at most MAXBUF.  An I/O error of any worker ends *)
(* the whole process (csapp.c).                                            *)
(***************************************************************************)
EXTENDS Naturals, FiniteSets, FiniteSetsExt

CONSTANTS
    Workers,            \* bound: threads at one time
    Keys,               \* hostname:port/path
    NULL,
    Objects,            \* bound: addresses of cache objects
    MAX_CACHE_SIZE,
    MAX_OBJECT_SIZE,
    MAXBUF,
    MaxClock            \* bound: no request is accepted at this time of cache_clock

ASSUME ProxyAssumption ==
    /\ NULL \notin Objects
    /\ IsFiniteSet(Objects)
    /\ MAX_OBJECT_SIZE \in Nat \ {0}
    /\ MAX_CACHE_SIZE \in Nat /\ MAX_CACHE_SIZE >= MAX_OBJECT_SIZE
    /\ MAXBUF \in Nat \ {0}
    /\ MaxClock \in Nat

VARIABLES
    cache, heap,            \* the head of the list, the objects allocated
    cache_size, cache_clock,
    readers, writer,        \* who holds cache_lock
    worker,                 \* where each thread is
    exited                  \* the process has ended

cacheVars == <<cache, heap, cache_size, cache_clock>>
lockVars  == <<readers, writer>>
vars      == <<cacheVars, lockVars, worker, exited>>

\* A thread: its key, its pointer into the list, and its private copy of a response.
Idle == [pc |-> "idle", key |-> NULL, ptr |-> NULL, from |-> NULL, size |-> 0,
         cacheable |-> TRUE]

Init ==
    /\ cache = NULL
    /\ heap = [a \in {} |-> NULL]
    /\ cache_size = 0
    /\ cache_clock = 0
    /\ readers = {}
    /\ writer = {}
    /\ worker = [w \in Workers |-> Idle]
    /\ exited = FALSE

-----------------------------------------------------------------------------
(* The list *)

\* The i-th object of the list, or NULL past its end.
ObjectAt[i \in 0 .. Cardinality(Objects)] ==
    IF i = 0 THEN cache
    ELSE LET previous == ObjectAt[i - 1]
         IN  IF previous \in DOMAIN heap THEN heap[previous].next ELSE NULL

Listed == {ObjectAt[i] : i \in 0 .. Cardinality(Objects)} \ {NULL}

\* What a pointer leads to: garbage, once the object has been freed.
Contents(a) ==
    IF a \in DOMAIN heap THEN heap[a]
    ELSE [key |-> NULL, from |-> NULL, size |-> 1, recent |-> 0, next |-> NULL]

Find(k) == {a \in Listed : heap[a].key = k}

\* Slip of victim: the oldest object, which ends the list.
victimFifo == {a \in Listed : heap[a].next = NULL}

\* cache_evict_lru takes the object with the smallest timestamp.
victim == {a \in Listed : \A b \in Listed : heap[a].recent <= heap[b].recent}

-----------------------------------------------------------------------------
(* One request *)

At(w, pc) == ~ exited /\ worker[w].pc = pc

Goto(w, pc) == worker' = [worker EXCEPT ![w].pc = pc]

Done(w) == worker' = [worker EXCEPT ![w] = Idle]

\* A failing call of Open_clientfd, Rio_readnb or Rio_writen ends the process, with all
\* its threads.
Fails(w) ==
    /\ \E pc \in {"request", "send", "connect", "relay"} : At(w, pc)
    /\ exited' = TRUE
    /\ worker' = [x \in Workers |-> Idle]
    /\ readers' = {} /\ writer' = {}
    /\ UNCHANGED cacheVars

\* main accepts a connection and makes a thread for it.
Accept(w) ==
    /\ At(w, "idle")
    /\ cache_clock < MaxClock
    /\ Goto(w, "request")
    /\ UNCHANGED <<cacheVars, lockVars, exited>>

\* The thread reads the request, which may be none, or not be a GET.
Request(w) ==
    /\ At(w, "request")
    /\ \/ \E k \in Keys : worker' = [worker EXCEPT ![w].pc = "get_lock", ![w].key = k]
       \/ Done(w)
    /\ UNCHANGED <<cacheVars, lockVars, exited>>

\* Slip of GetLock: the list is read without the lock.
GetNoLock(w) ==
    /\ At(w, "get_lock")
    /\ worker' = [worker EXCEPT ![w].pc = "get", ![w].ptr = cache]
    /\ UNCHANGED <<cacheVars, lockVars, exited>>

\* cache_get: take the read lock and start at the head of the list, ...
GetLock(w) ==
    /\ At(w, "get_lock")
    /\ writer = {}
    /\ readers' = readers \cup {w}
    /\ worker' = [worker EXCEPT ![w].pc = "get", ![w].ptr = cache]
    /\ UNCHANGED <<cacheVars, writer, exited>>

\* Slip of GetStep: the lock is returned as soon as the object is found.
GetStepUnlocks(w) ==
    /\ At(w, "get")
    /\ worker[w].ptr # NULL /\ Contents(worker[w].ptr).key = worker[w].key
    /\ readers' = readers \ {w}
    /\ Goto(w, "copy")
    /\ UNCHANGED <<cacheVars, writer, exited>>

\* ... look at one object, ...
GetStep(w) ==
    /\ At(w, "get")
    /\ worker[w].ptr # NULL
    /\ IF Contents(worker[w].ptr).key = worker[w].key THEN Goto(w, "copy")
       ELSE worker' = [worker EXCEPT ![w].ptr = Contents(worker[w].ptr).next]
    /\ UNCHANGED <<cacheVars, lockVars, exited>>

\* ... and leave with nothing, ...
Miss(w) ==
    /\ At(w, "get")
    /\ worker[w].ptr = NULL
    /\ readers' = readers \ {w}
    /\ Goto(w, "connect")
    /\ UNCHANGED <<cacheVars, writer, exited>>

\* ... or with a copy of the object.
Copy(w) ==
    /\ At(w, "copy")
    /\ LET object == Contents(worker[w].ptr)
       IN  worker' = [worker EXCEPT ![w].pc = "touch", ![w].ptr = NULL,
                                    ![w].from = object.from, ![w].size = object.size]
    /\ readers' = readers \ {w}
    /\ UNCHANGED <<cacheVars, writer, exited>>

\* Under the write lock, the object gets a new timestamp if it is still there.
Touched(k) ==
    \/ /\ Find(k) = {}
       /\ UNCHANGED <<heap, cache_clock>>
    \/ \E a \in Find(k) :
        /\ cache_clock' = cache_clock + 1
        /\ heap' = [heap EXCEPT ![a].recent = cache_clock + 1]

Touch(w) ==
    /\ At(w, "touch")
    /\ readers = {} /\ writer = {}
    /\ Touched(worker[w].key)
    /\ Goto(w, "send")
    /\ UNCHANGED <<cache, cache_size, lockVars, exited>>

\* The copy is written to the client.
Send(w) ==
    /\ At(w, "send")
    /\ Done(w)
    /\ UNCHANGED <<cacheVars, lockVars, exited>>

\* A miss: connect to the origin and forward the request.
Connect(w) ==
    /\ At(w, "connect")
    /\ Goto(w, "relay")
    /\ UNCHANGED <<cacheVars, lockVars, exited>>

\* The origin answers n more units, which the client gets, and the private copy too
\* while it is small enough.  Only the last read is short.
Relay(w, n) ==
    /\ At(w, "relay")
    /\ LET room == worker[w].cacheable /\ worker[w].size + n <= MAX_OBJECT_SIZE
       IN  worker' = [worker EXCEPT
                        ![w].pc = IF n = MAXBUF THEN "relay" ELSE "end",
                        ![w].from = worker[w].key,
                        ![w].size = IF room THEN @ + n ELSE @,
                        ![w].cacheable = room]
    /\ UNCHANGED <<cacheVars, lockVars, exited>>

\* The end of the response; cache_put refuses an empty one.
End(w) ==
    /\ At(w, "relay") \/ At(w, "end")
    /\ IF worker[w].cacheable /\ worker[w].size > 0 THEN Goto(w, "put") ELSE Done(w)
    /\ UNCHANGED <<cacheVars, lockVars, exited>>

\* Slip of Put: another worker may have cached the key in the meantime.
PutUnchecked(w) ==
    /\ At(w, "put")
    /\ readers = {} /\ writer = {}
    /\ writer' = {w}
    /\ Goto(w, "evict")
    /\ UNCHANGED <<cacheVars, readers, exited>>

\* Slip of Put: the early return keeps the lock.
PutKeepsLock(w) ==
    /\ At(w, "put")
    /\ readers = {} /\ writer = {}
    /\ writer' = {w}
    /\ IF Find(worker[w].key) = {} THEN Goto(w, "evict") ELSE Done(w)
    /\ Touched(worker[w].key)
    /\ UNCHANGED <<cache, cache_size, readers, exited>>

\* cache_put: take the write lock and see whether the key is cached by now.
Put(w) ==
    /\ At(w, "put")
    /\ readers = {} /\ writer = {}
    /\ \/ /\ Find(worker[w].key) # {}
          /\ Touched(worker[w].key)
          /\ Done(w)
          /\ UNCHANGED lockVars
       \/ /\ Find(worker[w].key) = {}
          /\ writer' = {w}
          /\ Goto(w, "evict")
          /\ UNCHANGED <<heap, cache_clock, readers>>
    /\ UNCHANGED <<cache, cache_size, exited>>

TooLarge(w) == cache # NULL /\ cache_size + worker[w].size > MAX_CACHE_SIZE

\* One round of the loop that makes room: cache_evict_lru.
Evict(w) ==
    /\ At(w, "evict")
    /\ TooLarge(w)
    /\ \E a \in victim :
        /\ LET rest == DOMAIN heap \ {a}
           IN  heap' = [b \in rest |-> IF heap[b].next # a THEN heap[b]
                                       ELSE [heap[b] EXCEPT !.next = heap[a].next]]
        /\ cache' = IF cache = a THEN heap[a].next ELSE cache
        /\ cache_size' = cache_size - heap[a].size
    /\ UNCHANGED <<cache_clock, lockVars, worker, exited>>

\* The new object becomes the head of the list, and the lock is returned.
InsertAt(w, a) ==
    /\ heap' = [b \in DOMAIN heap \cup {a} |->
                    IF b # a THEN heap[b]
                    ELSE [key |-> worker[w].key, from |-> worker[w].from,
                          size |-> worker[w].size, recent |-> cache_clock + 1,
                          next |-> cache]]
    /\ cache_clock' = cache_clock + 1
    /\ cache' = a
    /\ cache_size' = cache_size + worker[w].size
    /\ writer' = {}
    /\ Done(w)
    /\ UNCHANGED <<readers, exited>>

\* Slip of Insert: room is made once, not until there is enough.
InsertEarly(w) ==
    /\ At(w, "evict")
    /\ \E a \in Objects \ DOMAIN heap : InsertAt(w, a)

Insert(w) ==
    /\ At(w, "evict")
    /\ ~ TooLarge(w)
    /\ \E a \in Objects \ DOMAIN heap : InsertAt(w, a)

Next ==
    \E w \in Workers :
        \/ Accept(w) \/ Request(w) \/ Fails(w)
        \/ GetLock(w) \/ GetStep(w) \/ Miss(w) \/ Copy(w) \/ Touch(w) \/ Send(w)
        \/ Connect(w) \/ End(w)
        \/ \E n \in 1 .. MAXBUF : Relay(w, n)
        \/ Put(w) \/ Evict(w) \/ Insert(w)

Spec == Init /\ [][Next]_vars

-----------------------------------------------------------------------------
(* Safety *)

\* The cache holds at most MAX_CACHE_SIZE, as counted and in fact, of objects of at most
\* MAX_OBJECT_SIZE each, whatever is inserted by whom after a miss.
BudgetKept ==
    /\ cache_size = MapThenSumSet(LAMBDA a : heap[a].size, Listed)
    /\ cache_size <= MAX_CACHE_SIZE
    /\ \A a \in Listed : heap[a].size \in 1 .. MAX_OBJECT_SIZE

\* One key is stored once, although several workers miss it at the same time.
OneObjectPerKey ==
    \A a, b \in Listed : heap[a].key = heap[b].key => a = b

\* No worker follows a pointer to an object that another one has freed, and no object
\* leaves the list without being freed.
NoDangling ==
    /\ DOMAIN heap = Listed
    /\ \A w \in Workers : worker[w].ptr # NULL => worker[w].ptr \in Listed

\* A hit gives the client, and the cache stores, a response of the origin asked for.
HitsAreResponses ==
    /\ \A w \in Workers : worker[w].size > 0 => worker[w].from = worker[w].key
    /\ \A a \in Listed : heap[a].from = heap[a].key

\* A slow client or origin does not pin the cache: no lock is held over network I/O, or
\* by a thread that has ended.
NoLockOverIO ==
    \A w \in readers \cup writer : worker[w].pc \in {"get", "copy", "evict"}

-----------------------------------------------------------------------------
(* The cache implements an LRU cache *)

\* The objects of the list by timestamp, the latest first.
ByRecency ==
    [i \in 1 .. Cardinality(Listed) |->
        LET a == CHOOSE b \in Listed :
                     Cardinality({c \in Listed : heap[c].recent > heap[b].recent}) = i - 1
        IN  [key |-> heap[a].key, size |-> heap[a].size]]

Lru == INSTANCE LruCache WITH
          Capacity <- MAX_CACHE_SIZE, Sizes <- 1 .. MAX_OBJECT_SIZE, order <- ByRecency

\* Whatever the interleaving of hits, misses and insertions, eviction is by least recent
\* use, where a hit counts as a use when its worker gets the write lock.
ImplementsLru == Lru!Spec

=============================================================================
