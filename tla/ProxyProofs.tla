------------------------------ MODULE ProxyProofs ------------------------------
(***************************************************************************)
(* The safety of the proxy's cache for any number of workers, keys and     *)
(* objects, and that it implements an LRU cache.                           *)
(*                                                                         *)
(* The inductive invariant says that the heap is one chain of objects from *)
(* the head of the list (Chained), with one object per key, stamped apart, *)
(* whose sizes add up to cache_size (Cached); that the read-write lock is  *)
(* held exactly where the code of a worker holds it (Locked); and what a   *)
(* worker's private state says at each place of its code (Located).  For   *)
(* the refinement, LInv adds that the objects can be enumerated by their   *)
(* timestamps.                                                             *)
(***************************************************************************)
EXTENDS Proxy, NaturalSets, Sequences

-----------------------------------------------------------------------------
(* The inductive invariant *)

Object == [key : Keys, from : Keys, size : 1 .. MAX_OBJECT_SIZE, recent : Nat,
           next : Objects \cup {NULL}]

Places == {"idle", "request", "get_lock", "get", "copy", "touch", "send", "connect",
           "relay", "end", "put", "evict"}

Frame == [pc : Places, key : Keys \cup {NULL}, ptr : Objects \cup {NULL},
          from : Keys \cup {NULL}, size : 0 .. MAX_OBJECT_SIZE, cacheable : BOOLEAN]

TypeOK ==
    /\ cache \in Objects \cup {NULL}
    /\ DOMAIN heap \in SUBSET Objects
    /\ heap \in [DOMAIN heap -> Object]
    /\ cache_size \in Nat
    /\ cache_clock \in Nat
    /\ readers \in SUBSET Workers
    /\ writer \in SUBSET Workers
    /\ worker \in [Workers -> Frame]
    /\ exited \in BOOLEAN

\* p lists the n objects of heap h in the order of their links, from the head c.
Chain(h, c, n, p) ==
    /\ \A i, j \in 1 .. n : p[i] = p[j] => i = j
    /\ \A a \in DOMAIN h : \E i \in 1 .. n : p[i] = a
    /\ c = IF n = 0 THEN NULL ELSE p[1]
    /\ \A i \in 1 .. n : h[p[i]].next = IF i = n THEN NULL ELSE p[i + 1]

Chained(h, c) ==
    \E n \in 0 .. Cardinality(Objects) : \E p \in [1 .. n -> DOMAIN h] : Chain(h, c, n, p)

Weight(h, S) == MapThenSumSet(LAMBDA a : h[a].size, S)

Stamped(h, clock) ==
    /\ \A a \in DOMAIN h : h[a].recent \in 1 .. clock
    /\ \A a, b \in DOMAIN h : h[a].recent = h[b].recent => a = b

Cached ==
    /\ Chained(heap, cache)
    /\ Stamped(heap, cache_clock)
    /\ \A a, b \in DOMAIN heap : heap[a].key = heap[b].key => a = b
    /\ \A a \in DOMAIN heap : heap[a].from = heap[a].key
    /\ cache_size = Weight(heap, DOMAIN heap)
    /\ cache_size <= MAX_CACHE_SIZE

Locked ==
    /\ readers = {w \in Workers : worker[w].pc \in {"get", "copy"}}
    /\ writer = {w \in Workers : worker[w].pc = "evict"}
    /\ writer # {} => readers = {}
    /\ \A v, w \in writer : v = w

\* What the frame f of a worker says at its place, given the heap h.
Located(f, h) ==
    /\ f.pc \notin {"idle", "request"} => f.key \in Keys
    /\ f.pc \in {"idle", "request"} => f.size = 0
    /\ f.size > 0 => f.from = f.key
    /\ f.ptr # NULL => f.pc \in {"get", "copy"} /\ f.ptr \in DOMAIN h
    /\ f.pc = "copy" => f.ptr # NULL /\ h[f.ptr].key = f.key
    /\ f.pc \in {"put", "evict"} => f.size > 0
    /\ f.pc = "evict" => \A a \in DOMAIN h : h[a].key # f.key

IInv ==
    /\ TypeOK
    /\ Cached
    /\ Locked
    /\ \A w \in Workers : Located(worker[w], heap)

-----------------------------------------------------------------------------
(* Sums of sizes *)

\* A sum over the subsets of U, as MapThenSumSet takes it: element by element.
IsSum(W, h, U) ==
    W = [s \in SUBSET U |->
            IF s = {} THEN 0
            ELSE LET x == CHOOSE x \in s : TRUE IN h[x].size + W[s \ {x}]]

(* The library's sum is a choice among such functions ... *)
LEMMA WeightDef ==
  ASSUME NEW h, NEW S
  PROVE  Weight(h, S) = (CHOOSE W : IsSum(W, h, S))[S]
BY DEF Weight, IsSum, MapThenSumSet, MapThenFoldSet

(* ... which is the sum over any of them, by induction on the size of the set. *)
LEMMA SumExists ==
  ASSUME NEW h, NEW U, IsFiniteSet(U)
  PROVE  \E W : IsSum(W, h, U)
<1> DEFINE pick(s) == CHOOSE x \in s : TRUE
           body(W, s) == IF s = {} THEN 0 ELSE h[pick(s)].size + W[s \ {pick(s)}]
           Upto(W, n) == /\ W = [s \in SUBSET U |-> W[s]]
                         /\ \A s \in SUBSET U : Cardinality(s) <= n => W[s] = body(W, s)
           T == {n \in Nat : \E W : Upto(W, n)}
<1>1. \A s \in SUBSET U : /\ IsFiniteSet(s) /\ Cardinality(s) \in Nat
                          /\ Cardinality(s) <= Cardinality(U)
                          /\ s # {} => /\ Cardinality(s \ {pick(s)}) = Cardinality(s) - 1
                                       /\ s \ {pick(s)} \in SUBSET U
  <2> SUFFICES ASSUME NEW s \in SUBSET U
               PROVE  /\ IsFiniteSet(s) /\ Cardinality(s) \in Nat
                      /\ Cardinality(s) <= Cardinality(U)
                      /\ s # {} => /\ Cardinality(s \ {pick(s)}) = Cardinality(s) - 1
                                   /\ s \ {pick(s)} \in SUBSET U
    OBVIOUS
  <2>1. IsFiniteSet(s) /\ Cardinality(s) <= Cardinality(U) BY FS_Subset
  <2>2. Cardinality(s) \in Nat BY <2>1, FS_CardinalityType
  <2>3. ASSUME s # {} PROVE pick(s) \in s BY <2>3
  <2>4. ASSUME s # {} PROVE Cardinality(s \ {pick(s)}) = Cardinality(s) - 1
    <3> HIDE DEF pick
    <3> QED BY <2>1, <2>3, <2>4, FS_RemoveElement
  <2> QED BY <2>1, <2>2, <2>4
<1>2. 0 \in T
  <2> DEFINE V == [s \in SUBSET U |-> 0]
  <2>1. ASSUME NEW s \in SUBSET U, Cardinality(s) <= 0 PROVE V[s] = body(V, s)
    <3>1. Cardinality(s) = 0
      <4>1. Cardinality(s) \in Nat
        <5> HIDE DEF pick, body, T, Upto
        <5> QED BY <1>1
      <4> QED BY <4>1, <2>1
    <3>2. s = {} BY <3>1, <1>1, FS_EmptySet
    <3> QED BY <3>2
  <2> QED BY <2>1, ZenonT(60)
<1>3. ASSUME NEW n \in Nat, n \in T PROVE n + 1 \in T
  <2>1. PICK W : Upto(W, n) BY <1>3
  <2> DEFINE V == [s \in SUBSET U |-> body(W, s)]
  <2>2. ASSUME NEW s \in SUBSET U, Cardinality(s) <= n + 1 PROVE V[s] = body(V, s)
    <3>1. CASE s = {} BY <3>1
    <3>2. CASE s # {}
      <4>1. s \ {pick(s)} \in SUBSET U /\ Cardinality(s \ {pick(s)}) <= n
        <5> HIDE DEF pick
        <5> QED BY <1>1, <2>2, <3>2
      <4>2. W[s \ {pick(s)}] = body(W, s \ {pick(s)})
        <5> HIDE DEF pick, body
        <5> QED BY <2>1, <4>1
      <4>3. V[s \ {pick(s)}] = W[s \ {pick(s)}]
        <5> HIDE DEF pick, body
        <5> QED BY <4>1, <4>2
      <4> HIDE DEF pick
      <4> QED BY <3>2, <4>3
    <3> QED BY <3>1, <3>2
  <2>3. Upto(V, n + 1)
    <3>1. V = [s \in SUBSET U |-> V[s]]
      <4> HIDE DEF body
      <4> QED OBVIOUS
    <3> HIDE DEF V, body
    <3> QED BY <3>1, <2>2
  <2> HIDE DEF Upto
  <2> QED BY <2>3
<1>4. Cardinality(U) \in T
  <2> HIDE DEF T
  <2> QED BY <1>2, <1>3, FS_CardinalityType, SetInduction
<1>5. PICK W : Upto(W, Cardinality(U)) BY <1>4
<1>6. W = [s \in SUBSET U |-> body(W, s)]
  <2>1. ASSUME NEW s \in SUBSET U PROVE W[s] = body(W, s)
    <3> HIDE DEF body
    <3> QED BY <1>1, <1>5
  <2>2. [s \in SUBSET U |-> W[s]] = [s \in SUBSET U |-> body(W, s)]
    <3> HIDE DEF body
    <3> QED BY <2>1
  <2> HIDE DEF body
  <2> QED BY <1>5, <2>2
<1>7. IsSum(W, h, U) BY <1>6 DEF IsSum
<1> QED BY <1>7

(* Such a sum is the size of any element and the sum over the rest, ... *)
LEMMA SumSplit ==
  ASSUME NEW h, NEW U, IsFiniteSet(U), NEW W, IsSum(W, h, U),
         \A a \in U : h[a].size \in Nat
  PROVE  \A s \in SUBSET U : /\ W[s] \in Nat
                            /\ \A y \in s : W[s] = h[y].size + W[s \ {y}]
<1> DEFINE Splits(s) == /\ W[s] \in Nat
                        /\ \A y \in s : W[s] = h[y].size + W[s \ {y}]
           T == {n \in Nat : \A s \in SUBSET U : Cardinality(s) <= n => Splits(s)}
<1>1. \A s \in SUBSET U : /\ IsFiniteSet(s) /\ Cardinality(s) \in Nat
                          /\ Cardinality(s) <= Cardinality(U)
                          /\ \A y \in s : /\ Cardinality(s \ {y}) = Cardinality(s) - 1
                                          /\ s \ {y} \in SUBSET U
  <2> SUFFICES ASSUME NEW s \in SUBSET U
               PROVE  /\ IsFiniteSet(s) /\ Cardinality(s) \in Nat
                      /\ Cardinality(s) <= Cardinality(U)
                      /\ \A y \in s : /\ Cardinality(s \ {y}) = Cardinality(s) - 1
                                      /\ s \ {y} \in SUBSET U
    OBVIOUS
  <2>1. IsFiniteSet(s) /\ Cardinality(s) <= Cardinality(U) BY FS_Subset
  <2>2. Cardinality(s) \in Nat BY <2>1, FS_CardinalityType
  <2>3. ASSUME NEW y \in s PROVE Cardinality(s \ {y}) = Cardinality(s) - 1
    BY <2>1, FS_RemoveElement
  <2> QED BY <2>1, <2>2, <2>3
<1>2. \A s \in SUBSET U : /\ s = {} => W[s] = 0
                          /\ s # {} => \E x \in s : W[s] = h[x].size + W[s \ {x}]
  <2> SUFFICES ASSUME NEW s \in SUBSET U
               PROVE  /\ s = {} => W[s] = 0
                      /\ s # {} => \E x \in s : W[s] = h[x].size + W[s \ {x}]
    OBVIOUS
  <2> DEFINE x == CHOOSE x \in s : TRUE
  <2>1. W[s] = IF s = {} THEN 0 ELSE h[x].size + W[s \ {x}] BY DEF IsSum
  <2>2. ASSUME s # {} PROVE x \in s BY <2>2
  <2> HIDE DEF x
  <2> QED BY <2>1, <2>2
<1>3. 0 \in T
  <2> SUFFICES ASSUME NEW s \in SUBSET U, Cardinality(s) <= 0 PROVE Splits(s) OBVIOUS
  <2>1. Cardinality(s) = 0 BY <1>1
  <2>2. s = {} BY <2>1, <1>1, FS_EmptySet
  <2> QED BY <2>2, <1>2
<1>4. ASSUME NEW n \in Nat, n \in T PROVE n + 1 \in T
  <2> SUFFICES ASSUME NEW s \in SUBSET U, Cardinality(s) <= n + 1 PROVE Splits(s) OBVIOUS
  <2>1. CASE s = {} BY <2>1, <1>2
  <2>2. CASE s # {}
    <3>1. PICK x \in s : W[s] = h[x].size + W[s \ {x}] BY <2>2, <1>2
    <3>2. ASSUME NEW y \in s PROVE s \ {y} \in SUBSET U /\ Splits(s \ {y})
      <4>1. s \ {y} \in SUBSET U /\ Cardinality(s \ {y}) <= n BY <1>1
      <4> HIDE DEF Splits
      <4> QED BY <4>1, <1>4
    <3>3. W[s] \in Nat BY <3>1, <3>2
    <3>4. ASSUME NEW y \in s, y # x PROVE W[s] = h[y].size + W[s \ {y}]
      <4>1. W[s \ {x}] = h[y].size + W[(s \ {x}) \ {y}] BY <3>2, <3>4
      <4>2. W[s \ {y}] = h[x].size + W[(s \ {y}) \ {x}] BY <3>2, <3>4
      <4>3. (s \ {x}) \ {y} = (s \ {y}) \ {x} OBVIOUS
      <4>4. W[(s \ {y}) \ {x}] \in Nat
        <5>1. x \in s \ {y} /\ s \ {y} \in SUBSET U BY <3>2, <3>4
        <5>2. Cardinality((s \ {y}) \ {x}) = Cardinality(s \ {y}) - 1 BY <5>1, <1>1
        <5>3. Cardinality(s \ {y}) = Cardinality(s) - 1 /\ Cardinality(s) \in Nat BY <1>1, <3>4
        <5>4. Cardinality((s \ {y}) \ {x}) <= n BY <5>2, <5>3
        <5>5. (s \ {y}) \ {x} \in SUBSET U OBVIOUS
        <5>6. Splits((s \ {y}) \ {x})
          <6> HIDE DEF Splits
          <6> QED BY <5>4, <5>5, <1>4
        <5> QED BY <5>6
      <4>5. h[x].size \in Nat /\ h[y].size \in Nat BY <3>1, <3>4
      <4>6. W[s] = h[x].size + (h[y].size + W[(s \ {y}) \ {x}]) BY <3>1, <4>1, <4>3
      <4> QED BY <4>2, <4>4, <4>5, <4>6
    <3> QED BY <3>1, <3>3, <3>4
  <2> QED BY <2>1, <2>2
<1>5. Cardinality(U) \in T
  <2> HIDE DEF T
  <2> QED BY <1>3, <1>4, FS_CardinalityType, SetInduction
<1>6. ASSUME NEW s \in SUBSET U PROVE Splits(s)
  <2> HIDE DEF Splits
  <2> QED BY <1>1, <1>5
<1> QED BY <1>6

(* ... and depends on the sizes only. *)
LEMMA SumUnique ==
  ASSUME NEW h, NEW U, NEW W, IsSum(W, h, U),
         NEW g, NEW S \in SUBSET U, NEW V, IsSum(V, g, S), IsFiniteSet(S),
         \A a \in S : h[a].size = g[a].size
  PROVE  W[S] = V[S]
<1> DEFINE pick(s) == CHOOSE x \in s : TRUE
           T == {n \in Nat : \A s \in SUBSET S : Cardinality(s) <= n => W[s] = V[s]}
<1>1. \A s \in SUBSET S : /\ IsFiniteSet(s) /\ Cardinality(s) \in Nat
                          /\ Cardinality(s) <= Cardinality(S)
                          /\ \A y \in s : Cardinality(s \ {y}) = Cardinality(s) - 1
  <2> SUFFICES ASSUME NEW s \in SUBSET S
               PROVE  /\ IsFiniteSet(s) /\ Cardinality(s) \in Nat
                      /\ Cardinality(s) <= Cardinality(S)
                      /\ \A y \in s : Cardinality(s \ {y}) = Cardinality(s) - 1
    OBVIOUS
  <2>1. IsFiniteSet(s) /\ Cardinality(s) <= Cardinality(S) BY FS_Subset
  <2>2. Cardinality(s) \in Nat BY <2>1, FS_CardinalityType
  <2>3. ASSUME NEW y \in s PROVE Cardinality(s \ {y}) = Cardinality(s) - 1
    BY <2>1, FS_RemoveElement
  <2> QED BY <2>1, <2>2, <2>3
<1>2. \A s \in SUBSET S : s # {} => /\ pick(s) \in s
                                    /\ W[s] = h[pick(s)].size + W[s \ {pick(s)}]
                                    /\ V[s] = g[pick(s)].size + V[s \ {pick(s)}]
  <2> SUFFICES ASSUME NEW s \in SUBSET S, s # {}
               PROVE  /\ pick(s) \in s
                      /\ W[s] = h[pick(s)].size + W[s \ {pick(s)}]
                      /\ V[s] = g[pick(s)].size + V[s \ {pick(s)}]
    OBVIOUS
  <2>1. pick(s) \in s OBVIOUS
  <2>2. W[s] = h[pick(s)].size + W[s \ {pick(s)}] BY DEF IsSum
  <2>3. V[s] = g[pick(s)].size + V[s \ {pick(s)}] BY DEF IsSum
  <2> QED BY <2>1, <2>2, <2>3
<1>3. W[{}] = 0 /\ V[{}] = 0 BY DEF IsSum
<1> HIDE DEF pick
<1>4. 0 \in T
  <2> SUFFICES ASSUME NEW s \in SUBSET S, Cardinality(s) <= 0 PROVE W[s] = V[s] OBVIOUS
  <2>1. Cardinality(s) = 0 BY <1>1
  <2>2. s = {} BY <2>1, <1>1, FS_EmptySet
  <2> QED BY <2>2, <1>3
<1>5. ASSUME NEW n \in Nat, n \in T PROVE n + 1 \in T
  <2> SUFFICES ASSUME NEW s \in SUBSET S, Cardinality(s) <= n + 1 PROVE W[s] = V[s] OBVIOUS
  <2>1. CASE s = {} BY <2>1, <1>3
  <2>2. CASE s # {}
    <3>1. pick(s) \in S /\ s \ {pick(s)} \in SUBSET S BY <1>2, <2>2
    <3>2. Cardinality(s \ {pick(s)}) <= n
      <4>1. pick(s) \in s BY <1>2, <2>2
      <4>2. Cardinality(s \ {pick(s)}) = Cardinality(s) - 1 /\ Cardinality(s) \in Nat BY <4>1, <1>1
      <4> QED BY <4>2
    <3>3. W[s \ {pick(s)}] = V[s \ {pick(s)}] BY <1>5, <3>1, <3>2
    <3> QED BY <1>2, <2>2, <3>1, <3>3
  <2> QED BY <2>1, <2>2
<1>6. Cardinality(S) \in T
  <2> HIDE DEF T
  <2> QED BY <1>4, <1>5, FS_CardinalityType, SetInduction
<1> QED BY <1>1, <1>6

(* So the sum over a finite set grows by an element's size, ... *)
LEMMA WeightAdd ==
  ASSUME NEW h, NEW g, NEW S, IsFiniteSet(S), NEW a, a \notin S,
         \A b \in S : g[b].size \in Nat /\ h[b].size = g[b].size, h[a].size \in Nat
  PROVE  /\ Weight(g, S) \in Nat
         /\ Weight(h, S \cup {a}) = h[a].size + Weight(g, S)
<1> DEFINE U == S \cup {a}
<1>1. IsFiniteSet(U) BY FS_AddElement
<1>2. PICK W : W = (CHOOSE X : IsSum(X, h, U)) OBVIOUS
<1>3. PICK V : V = (CHOOSE X : IsSum(X, g, S)) OBVIOUS
<1>4. IsSum(W, h, U) /\ Weight(h, U) = W[U]
  <2> HIDE DEF U
  <2> QED BY <1>1, <1>2, SumExists, WeightDef
<1>5. IsSum(V, g, S) /\ Weight(g, S) = V[S] BY <1>3, SumExists, WeightDef
<1>6. W[S] = V[S]
  <2>1. S \in SUBSET U OBVIOUS
  <2> HIDE DEF U
  <2> QED BY <1>4, <1>5, <2>1, SumUnique
<1>7. W[U] = h[a].size + W[U \ {a}]
  <2>1. U \in SUBSET U /\ a \in U /\ \A b \in U : h[b].size \in Nat OBVIOUS
  <2>2. \A s \in SUBSET U : /\ W[s] \in Nat
                            /\ \A y \in s : W[s] = h[y].size + W[s \ {y}]
    <3>1. \A b \in U : h[b].size \in Nat BY <2>1
    <3>2. IsSum(W, h, U) BY <1>4
    <3>3. IsFiniteSet(U) BY <1>1
    <3> HIDE DEF U
    <3> QED BY ONLY <3>1, <3>2, <3>3, SumSplit
  <2> HIDE DEF U
  <2> QED BY <2>1, <2>2
<1>8. V[S] \in Nat BY <1>5, SumSplit
<1>9. U \ {a} = S OBVIOUS
<1> QED BY <1>4, <1>5, <1>6, <1>7, <1>8, <1>9

(* ... is nothing over the empty set, and depends on the sizes only. *)
LEMMA WeightEmpty ==
  ASSUME NEW h
  PROVE  Weight(h, {}) = 0
<1>1. IsSum(CHOOSE X : IsSum(X, h, {}), h, {}) BY SumExists, FS_EmptySet
<1>2. PICK W : W = (CHOOSE X : IsSum(X, h, {})) OBVIOUS
<1>3. W[{}] = 0 BY <1>1, <1>2 DEF IsSum
<1> QED BY <1>2, <1>3, WeightDef

LEMMA WeightSame ==
  ASSUME NEW h, NEW g, NEW S, IsFiniteSet(S), \A b \in S : h[b].size = g[b].size
  PROVE  Weight(h, S) = Weight(g, S)
<1>1. PICK W : W = (CHOOSE X : IsSum(X, h, S)) OBVIOUS
<1>2. PICK V : V = (CHOOSE X : IsSum(X, g, S)) OBVIOUS
<1>3. IsSum(W, h, S) /\ Weight(h, S) = W[S] BY <1>1, SumExists, WeightDef
<1>4. IsSum(V, g, S) /\ Weight(g, S) = V[S] BY <1>2, SumExists, WeightDef
<1> QED BY <1>3, <1>4, SumUnique

-----------------------------------------------------------------------------
(* Chains *)

(* A chain of addresses is no longer than there are addresses. *)
LEMMA ChainLength ==
  ASSUME NEW S, IsFiniteSet(S), NEW D \in SUBSET S, NEW n \in Nat, NEW p \in [1 .. n -> D],
         \A i, j \in 1 .. n : p[i] = p[j] => i = j
  PROVE  n \in 0 .. Cardinality(S)
<1>1. IsFiniteSet(1 .. n) /\ Cardinality(1 .. n) = n BY FS_Interval
<1>2. IsFiniteSet(D) /\ Cardinality(D) <= Cardinality(S) BY FS_Subset
<1>3. p \in Injection(1 .. n, D) BY DEF Injection, IsInjective
<1>4. n <= Cardinality(D) BY <1>1, <1>2, <1>3, FS_Injection
<1>5. Cardinality(D) \in Nat /\ Cardinality(S) \in Nat BY <1>2, FS_CardinalityType
<1> QED BY <1>2, <1>4, <1>5

(* An object that points to the head becomes the head. *)
LEMMA ChainInsert ==
  ASSUME NEW h, NEW c, NEW n \in Nat, NEW p \in [1 .. n -> DOMAIN h], Chain(h, c, n, p),
         NEW a, a \notin DOMAIN h,
         NEW g, DOMAIN g = DOMAIN h \cup {a}, \A b \in DOMAIN h : g[b].next = h[b].next,
         g[a].next = c
  PROVE  \E q \in [1 .. n + 1 -> DOMAIN g] : Chain(g, a, n + 1, q)
<1> DEFINE q == [i \in 1 .. n + 1 |-> IF i = 1 THEN a ELSE p[i - 1]]
<1>1. ASSUME NEW i \in 1 .. n + 1
      PROVE  \/ i = 1 /\ q[i] = a
             \/ i - 1 \in 1 .. n /\ q[i] = p[i - 1] /\ p[i - 1] \in DOMAIN h
  OBVIOUS
<1>2. q \in [1 .. n + 1 -> DOMAIN g]
  <2>1. ASSUME NEW i \in 1 .. n + 1 PROVE q[i] \in DOMAIN g BY <1>1
  <2> QED BY <2>1
<1>3. ASSUME NEW i \in 1 .. n + 1, NEW j \in 1 .. n + 1, q[i] = q[j] PROVE i = j
  <2>1. CASE i = 1 \/ j = 1 BY <1>1, <1>3, <2>1
  <2>2. CASE i # 1 /\ j # 1
    <3>1. i - 1 \in 1 .. n /\ j - 1 \in 1 .. n /\ p[i - 1] = p[j - 1] BY <1>1, <1>3, <2>2
    <3>2. i - 1 = j - 1 BY <3>1 DEF Chain
    <3> QED BY <3>2
  <2> QED BY <2>1, <2>2
<1>4. ASSUME NEW b \in DOMAIN g PROVE \E i \in 1 .. n + 1 : q[i] = b
  <2>1. CASE b = a
    <3>1. 1 \in 1 .. n + 1 /\ q[1] = a OBVIOUS
    <3> QED BY <2>1, <3>1
  <2>2. CASE b \in DOMAIN h
    <3>1. PICK i \in 1 .. n : p[i] = b BY <2>2 DEF Chain
    <3>2. i + 1 \in 1 .. n + 1 /\ q[i + 1] = b BY <3>1
    <3> QED BY <3>2
  <2> QED BY <2>1, <2>2
<1>5. a = IF n + 1 = 0 THEN NULL ELSE q[1] OBVIOUS
<1>6. ASSUME NEW i \in 1 .. n + 1
      PROVE  g[q[i]].next = IF i = n + 1 THEN NULL ELSE q[i + 1]
  <2>1. CASE i = 1
    <3>1. g[q[i]].next = c BY <2>1
    <3>2. c = IF n = 0 THEN NULL ELSE p[1] BY DEF Chain
    <3>3. CASE n = 0 BY <2>1, <3>1, <3>2, <3>3
    <3>4. CASE n # 0
      <4>1. i # n + 1 /\ q[i + 1] = p[1] BY <2>1, <3>4
      <4> QED BY <3>1, <3>2, <3>4, <4>1
    <3> QED BY <3>3, <3>4
  <2>2. CASE i # 1
    <3>1. i - 1 \in 1 .. n /\ q[i] = p[i - 1] /\ p[i - 1] \in DOMAIN h BY <2>2
    <3>2. g[q[i]].next = h[p[i - 1]].next BY <3>1
    <3>3. h[p[i - 1]].next = IF i - 1 = n THEN NULL ELSE p[(i - 1) + 1] BY <3>1 DEF Chain
    <3>4. CASE i = n + 1
      <4>1. i - 1 = n BY <3>4
      <4> QED BY <3>2, <3>3, <3>4, <4>1
    <3>5. CASE i # n + 1
      <4>1. i - 1 # n /\ (i - 1) + 1 = i /\ q[i + 1] = p[i] BY <2>2, <3>5
      <4> QED BY <3>2, <3>3, <3>5, <4>1
    <3> QED BY <3>4, <3>5
  <2> QED BY <2>1, <2>2
<1> HIDE DEF q
<1> QED BY <1>2, <1>3, <1>4, <1>5, <1>6 DEF Chain

\* g is h without the object a, and with a's link in place of a link to a.
Unlinked(g, h, a) ==
    /\ DOMAIN g = DOMAIN h \ {a}
    /\ \A b \in DOMAIN g : g[b].next = IF h[b].next # a THEN h[b].next ELSE h[a].next

(* An object's predecessor, or the head, takes over its link when it goes. *)
LEMMA ChainRemove ==
  ASSUME NEW h, NEW c, NEW n \in Nat, NEW p \in [1 .. n -> DOMAIN h], Chain(h, c, n, p),
         NEW a \in DOMAIN h, NULL \notin DOMAIN h,
         NEW g, Unlinked(g, h, a),
         NEW d, d = IF c = a THEN h[a].next ELSE c
  PROVE  /\ n - 1 \in Nat
         /\ \E q \in [1 .. n - 1 -> DOMAIN g] : Chain(g, d, n - 1, q)
<1>0. /\ DOMAIN g = DOMAIN h \ {a}
      /\ \A b \in DOMAIN g : g[b].next = IF h[b].next # a THEN h[b].next ELSE h[a].next
  BY DEF Unlinked
<1>1. PICK k \in 1 .. n : p[k] = a BY DEF Chain
<1> DEFINE q == [i \in 1 .. n - 1 |-> IF i < k THEN p[i] ELSE p[i + 1]]
           at(i) == IF i < k THEN i ELSE i + 1
<1>2. ASSUME NEW i \in 1 .. n, i # k PROVE p[i] # a BY <1>1, <1>2 DEF Chain
<1>3. ASSUME NEW i \in 1 .. n - 1
      PROVE  at(i) \in 1 .. n /\ at(i) # k /\ q[i] = p[at(i)] /\ q[i] \in DOMAIN g
  <2>1. at(i) \in 1 .. n /\ at(i) # k /\ q[i] = p[at(i)] OBVIOUS
  <2>2. p[at(i)] \in DOMAIN h /\ p[at(i)] # a
    <3> HIDE DEF at
    <3> QED BY <1>2, <2>1
  <2> QED BY <1>0, <2>1, <2>2
<1>4. q \in [1 .. n - 1 -> DOMAIN g]
  <2> HIDE DEF at
  <2> QED BY <1>3
<1>5. ASSUME NEW i \in 1 .. n - 1, NEW j \in 1 .. n - 1, q[i] = q[j] PROVE i = j
  <2>1. at(i) = at(j)
    <3> HIDE DEF at, q
    <3> QED BY <1>3, <1>5 DEF Chain
  <2> QED BY <2>1
<1>6. ASSUME NEW b \in DOMAIN g PROVE \E i \in 1 .. n - 1 : q[i] = b
  <2>1. PICK j \in 1 .. n : p[j] = b BY <1>0 DEF Chain
  <2>2. j # k BY <1>0, <1>1, <2>1
  <2>3. CASE j < k
    <3>1. j \in 1 .. n - 1 /\ q[j] = b BY <2>1, <2>3
    <3> QED BY <3>1
  <2>4. CASE j > k
    <3>1. j - 1 \in 1 .. n - 1 /\ q[j - 1] = b BY <2>1, <2>4
    <3> QED BY <3>1
  <2> QED BY <2>2, <2>3, <2>4
<1>7. \A i \in 1 .. n : h[p[i]].next = IF i = n THEN NULL ELSE p[i + 1] BY DEF Chain
<1>8. d = IF n - 1 = 0 THEN NULL ELSE q[1]
  <2>1. c = p[1] BY DEF Chain
  <2>2. CASE k = 1
    <3>1. c = a BY <1>1, <2>1, <2>2
    <3>2. h[a].next = IF k = n THEN NULL ELSE p[k + 1] BY <1>1, <1>7
    <3>3. CASE n = 1 BY <2>2, <3>1, <3>2, <3>3
    <3>4. CASE n # 1
      <4>1. 1 \in 1 .. n - 1 /\ q[1] = p[2] BY <2>2, <3>4
      <4> QED BY <2>2, <3>1, <3>2, <3>4, <4>1
    <3> QED BY <3>3, <3>4
  <2>3. CASE k # 1
    <3>1. c # a /\ n # 1 /\ q[1] = p[1] BY <1>2, <2>1, <2>3
    <3> QED BY <2>1, <3>1
  <2> QED BY <2>2, <2>3
<1>9. ASSUME NEW i \in 1 .. n - 1
      PROVE  g[q[i]].next = IF i = n - 1 THEN NULL ELSE q[i + 1]
  <2>1. g[q[i]].next = IF h[q[i]].next # a THEN h[q[i]].next ELSE h[a].next
    <3> HIDE DEF q
    <3> QED BY <1>0, <1>3
  <2>2. CASE i + 1 < k
    <3>1. q[i] = p[i] /\ i # n /\ q[i + 1] = p[i + 1] /\ i + 1 \in 1 .. n /\ i # n - 1 BY <2>2
    <3>2. h[q[i]].next = p[i + 1] BY <1>7, <3>1
    <3>3. p[i + 1] # a BY <1>2, <2>2, <3>1
    <3> QED BY <2>1, <3>1, <3>2, <3>3
  <2>3. CASE i + 1 = k
    <3>1. q[i] = p[i] /\ i # n /\ p[i + 1] = a BY <1>1, <2>3
    <3>2. h[q[i]].next = a BY <1>7, <3>1
    <3>3. h[a].next = IF k = n THEN NULL ELSE p[k + 1] BY <1>1, <1>7
    <3>4. CASE k = n BY <2>1, <2>3, <3>2, <3>3, <3>4
    <3>5. CASE k # n
      <4>1. i # n - 1 /\ q[i + 1] = p[k + 1] BY <2>3, <3>5
      <4> QED BY <2>1, <3>2, <3>3, <3>5, <4>1
    <3> QED BY <3>4, <3>5
  <2>4. CASE i + 1 > k
    <3>1. q[i] = p[i + 1] /\ i + 1 \in 1 .. n BY <2>4
    <3>2. h[q[i]].next = IF i + 1 = n THEN NULL ELSE p[(i + 1) + 1] BY <1>7, <3>1
    <3>3. CASE i + 1 = n
      <4>1. h[q[i]].next = NULL /\ i = n - 1 BY <3>2, <3>3
      <4> QED BY <2>1, <4>1
    <3>4. CASE i + 1 # n
      <4>1. (i + 1) + 1 \in 1 .. n /\ (i + 1) + 1 # k /\ q[i + 1] = p[(i + 1) + 1] /\ i # n - 1
        BY <2>4, <3>4
      <4>2. p[(i + 1) + 1] # a BY <1>2, <4>1
      <4>3. h[q[i]].next = p[(i + 1) + 1] BY <3>2, <3>4
      <4> QED BY <2>1, <4>1, <4>2, <4>3
    <3> QED BY <3>3, <3>4
  <2> QED BY <2>2, <2>3, <2>4
<1>10. Chain(g, d, n - 1, q)
  <2> HIDE DEF q
  <2> QED BY <1>5, <1>6, <1>8, <1>9 DEF Chain
<1> HIDE DEF q
<1> QED BY <1>4, <1>10

(* The walk from the head of the list meets exactly the objects of the heap. *)
LEMMA ListedIsHeap ==
  ASSUME TypeOK, Chained(heap, cache)
  PROVE  Listed = DOMAIN heap
<1> DEFINE C == Cardinality(Objects)
<1>0. PICK n \in 0 .. C : \E p \in [1 .. n -> DOMAIN heap] : Chain(heap, cache, n, p)
  BY DEF Chained
<1>1. PICK p \in [1 .. n -> DOMAIN heap] : Chain(heap, cache, n, p) BY <1>0
<1>2. C \in Nat BY ProxyAssumption, FS_CardinalityType
<1> DEFINE next(a) == IF a \in DOMAIN heap THEN heap[a].next ELSE NULL
           walk == [i \in 0 .. C |-> IF i < n THEN p[i + 1] ELSE NULL]
<1>3. NULL \notin DOMAIN heap BY ProxyAssumption DEF TypeOK
<1> HIDE DEF C
<1>4. walk = [i \in 0 .. C |-> IF i = 0 THEN cache ELSE next(walk[i - 1])]
  <2>1. ASSUME NEW i \in 0 .. C
        PROVE  (IF i < n THEN p[i + 1] ELSE NULL) = IF i = 0 THEN cache ELSE next(walk[i - 1])
    <3>1. CASE i = 0
      <4>1. cache = IF n = 0 THEN NULL ELSE p[1] BY <1>1 DEF Chain
      <4> QED BY <3>1, <4>1
    <3>2. CASE i # 0
      <4>1. i - 1 \in 0 .. C /\ walk[i - 1] = IF i - 1 < n THEN p[i] ELSE NULL BY <1>2, <3>2
      <4>2. CASE i - 1 < n
        <5>1. i \in 1 .. n /\ p[i] \in DOMAIN heap BY <3>2, <4>2
        <5>2. next(walk[i - 1]) = heap[p[i]].next
          <6> HIDE DEF walk
          <6> QED BY <4>1, <4>2, <5>1
        <5>3. heap[p[i]].next = IF i = n THEN NULL ELSE p[i + 1] BY <1>1, <5>1 DEF Chain
        <5>4. (i < n) <=> i # n BY <5>1
        <5> HIDE DEF walk, next
        <5> QED BY <3>2, <5>2, <5>3, <5>4
      <4>3. CASE ~ i - 1 < n
        <5>1. next(walk[i - 1]) = NULL
          <6> HIDE DEF walk
          <6> QED BY <1>3, <4>1, <4>3
        <5> HIDE DEF walk, next
        <5> QED BY <3>2, <4>3, <5>1
      <4> QED BY <4>2, <4>3
    <3> QED BY <3>1, <3>2
  <2> HIDE DEF next
  <2> QED BY <2>1
<1>5. ObjectAt = [i \in 0 .. C |-> IF i = 0 THEN cache ELSE next(ObjectAt[i - 1])]
  <2> DEFINE Walks(f) == f = [i \in 0 .. C |-> IF i = 0 THEN cache ELSE next(f[i - 1])]
  <2>1. ObjectAt = CHOOSE f : Walks(f) BY DEF ObjectAt, C
  <2>2. \E f : Walks(f)
    <3> HIDE DEF walk, next
    <3> QED BY <1>4
  <2>3. PICK f : f = ObjectAt OBVIOUS
  <2>4. Walks(f)
    <3> HIDE DEF Walks
    <3> QED BY <2>1, <2>2, <2>3
  <2> QED BY <2>3, <2>4
<1> DEFINE T == {i \in Nat : i \in 0 .. C => ObjectAt[i] = walk[i]}
<1> HIDE DEF next, walk
<1>6. 0 \in T
  <2>1. 0 \in 0 .. C BY <1>2
  <2>2. ObjectAt[0] = cache BY <1>5, <2>1
  <2>3. walk[0] = cache BY <1>4, <2>1
  <2> QED BY <2>2, <2>3
<1>7. ASSUME NEW i \in Nat, i \in T PROVE i + 1 \in T
  <2> SUFFICES ASSUME i + 1 \in 0 .. C PROVE ObjectAt[i + 1] = walk[i + 1] OBVIOUS
  <2>1. i \in 0 .. C /\ i + 1 # 0 /\ (i + 1) - 1 = i BY <1>2
  <2>2. ObjectAt[i + 1] = next(ObjectAt[i]) BY <1>5, <2>1
  <2>3. walk[i + 1] = next(walk[i]) BY <1>4, <2>1
  <2> QED BY <1>7, <2>1, <2>2, <2>3
<1>8. ASSUME NEW i \in 0 .. C PROVE ObjectAt[i] = walk[i]
  <2>1. i \in T
    <3> HIDE DEF T
    <3> QED BY <1>2, <1>6, <1>7, SetInduction
  <2> QED BY <2>1
<1>9. Listed = {walk[i] : i \in 0 .. C} \ {NULL} BY <1>8 DEF Listed, C
<1>10. ASSUME NEW a \in DOMAIN heap PROVE a \in Listed
  <2>1. PICK i \in 1 .. n : p[i] = a BY <1>1 DEF Chain
  <2>2. i - 1 \in 0 .. C /\ walk[i - 1] = a BY <1>2, <2>1 DEF walk
  <2> QED BY <1>3, <1>9, <2>2
<1>11. ASSUME NEW a \in Listed PROVE a \in DOMAIN heap
  <2>1. PICK i \in 0 .. C : a = walk[i] /\ a # NULL BY <1>9
  <2>2. i < n /\ a = p[i + 1] BY <1>2, <2>1 DEF walk
  <2> QED BY <2>2
<1> QED BY <1>10, <1>11

(* The head and every link of a chain lead to an object of it, or nowhere. *)
LEMMA HeadInHeap ==
  ASSUME NEW h, NEW c, Chained(h, c)
  PROVE  c # NULL => c \in DOMAIN h
<1>1. PICK n \in 0 .. Cardinality(Objects) : \E p \in [1 .. n -> DOMAIN h] : Chain(h, c, n, p)
  BY DEF Chained
<1>2. PICK p \in [1 .. n -> DOMAIN h] : Chain(h, c, n, p) BY <1>1
<1>3. n \in Nat OBVIOUS
<1>4. n # 0 => p[1] \in DOMAIN h
  <2> SUFFICES ASSUME n # 0 PROVE p[1] \in DOMAIN h OBVIOUS
  <2>1. 1 \in 1 .. n BY <1>3
  <2> QED BY <2>1
<1> QED BY <1>2, <1>4 DEF Chain

LEMMA NextInHeap ==
  ASSUME NEW h, NEW c, Chained(h, c), NEW a \in DOMAIN h
  PROVE  h[a].next # NULL => h[a].next \in DOMAIN h
<1>1. PICK n \in 0 .. Cardinality(Objects) : \E p \in [1 .. n -> DOMAIN h] : Chain(h, c, n, p)
  BY DEF Chained
<1>2. PICK p \in [1 .. n -> DOMAIN h] : Chain(h, c, n, p) BY <1>1
<1>3. PICK i \in 1 .. n : p[i] = a BY <1>2 DEF Chain
<1>4. h[a].next = IF i = n THEN NULL ELSE p[i + 1] BY <1>2, <1>3 DEF Chain
<1>5. i # n => p[i + 1] \in DOMAIN h
  <2> SUFFICES ASSUME i # n PROVE p[i + 1] \in DOMAIN h OBVIOUS
  <2>1. i + 1 \in 1 .. n OBVIOUS
  <2> QED BY <2>1
<1> QED BY <1>4, <1>5

(* Only an empty list has no head, and only the links matter. *)
LEMMA NullHead ==
  ASSUME NEW h, Chained(h, NULL), NULL \notin DOMAIN h
  PROVE  DOMAIN h = {}
<1>1. PICK n \in 0 .. Cardinality(Objects) :
        \E p \in [1 .. n -> DOMAIN h] : Chain(h, NULL, n, p)
  BY DEF Chained
<1>2. PICK p \in [1 .. n -> DOMAIN h] : Chain(h, NULL, n, p) BY <1>1
<1>3. n = 0
  <2> SUFFICES ASSUME n # 0 PROVE FALSE OBVIOUS
  <2>1. 1 \in 1 .. n OBVIOUS
  <2>2. p[1] \in DOMAIN h BY <2>1
  <2>3. p[1] = NULL BY <1>2 DEF Chain
  <2> QED BY <2>2, <2>3
<1>4. \A a \in DOMAIN h : \E i \in 1 .. 0 : p[i] = a BY <1>2, <1>3 DEF Chain
<1> QED BY <1>4

LEMMA ChainSame ==
  ASSUME NEW h, NEW g, NEW c, Chained(h, c), DOMAIN g = DOMAIN h,
         \A a \in DOMAIN h : g[a].next = h[a].next
  PROVE  Chained(g, c)
<1>1. PICK n \in 0 .. Cardinality(Objects) : \E p \in [1 .. n -> DOMAIN h] : Chain(h, c, n, p)
  BY DEF Chained
<1>2. PICK p \in [1 .. n -> DOMAIN h] : Chain(h, c, n, p) BY <1>1
<1>3. Chain(g, c, n, p)
  <2>1. ASSUME NEW i \in 1 .. n PROVE g[p[i]].next = h[p[i]].next OBVIOUS
  <2> QED BY <1>2, <2>1 DEF Chain
<1> QED BY <1>3 DEF Chained

-----------------------------------------------------------------------------
(* The initial state *)

LEMMA InitIInv == Init => IInv
<1> SUFFICES ASSUME Init PROVE IInv OBVIOUS
<1>1. TypeOK
  <2>1. Idle \in Frame BY ProxyAssumption DEF Idle, Frame, Places
  <2>2. DOMAIN heap = {} /\ heap \in [DOMAIN heap -> Object] BY DEF Init
  <2> QED BY <2>1, <2>2 DEF Init, TypeOK
<1>2. Cached
  <2>1. DOMAIN heap = {} BY DEF Init
  <2>2. Chained(heap, cache)
    <3> DEFINE p == [i \in 1 .. 0 |-> NULL]
    <3>1. p \in [1 .. 0 -> DOMAIN heap] OBVIOUS
    <3>2. Chain(heap, cache, 0, p) BY <2>1 DEF Chain, Init
    <3>3. 0 \in 0 .. Cardinality(Objects) BY ProxyAssumption, FS_CardinalityType
    <3> HIDE DEF p
    <3> QED BY <3>1, <3>2, <3>3 DEF Chained
  <2>3. Weight(heap, DOMAIN heap) = 0 BY <2>1, WeightEmpty
  <2>4. cache_size = 0 /\ cache_size <= MAX_CACHE_SIZE BY ProxyAssumption DEF Init
  <2> QED BY <2>1, <2>2, <2>3, <2>4 DEF Cached, Stamped
<1>3. \A w \in Workers : worker[w].pc = "idle" /\ Located(worker[w], heap)
  BY DEF Init, Idle, Located
<1>4. Locked BY <1>3 DEF Locked, Init
<1> QED BY <1>1, <1>2, <1>3, <1>4 DEF IInv

-----------------------------------------------------------------------------
(* The steps of one worker *)

\* The types of what the workers share.
SharedTypes ==
    /\ cache \in Objects \cup {NULL}
    /\ DOMAIN heap \in SUBSET Objects
    /\ heap \in [DOMAIN heap -> Object]
    /\ cache_size \in Nat
    /\ cache_clock \in Nat

(* A step of a worker that leaves the cache alone and does not hold the write lock, *)
(* before or after, keeps the invariant if its new frame f is right for its place   *)
(* and it holds the read lock there if and only if it is to.                        *)
LEMMA WorkerStep ==
  ASSUME IInv, UNCHANGED <<cacheVars, writer, exited>>, NEW w \in Workers, NEW f \in Frame,
         worker' = [worker EXCEPT ![w] = f], Located(f, heap),
         f.pc # "evict", worker[w].pc # "evict",
         readers' = IF f.pc \in {"get", "copy"} THEN readers \cup {w} ELSE readers \ {w},
         f.pc \in {"get", "copy"} => writer = {}
  PROVE  IInv'
<1>1. \A v \in Workers : worker'[v] = IF v = w THEN f ELSE worker[v] BY DEF IInv, TypeOK
<1>2. TypeOK' BY DEF IInv, TypeOK, cacheVars
<1>3. Cached' BY DEF IInv, Cached, cacheVars
<1>4. Locked'
  <2>1. readers' = {v \in Workers : worker'[v].pc \in {"get", "copy"}}
    BY <1>1 DEF IInv, Locked
  <2>2. writer' = {v \in Workers : worker'[v].pc = "evict"} BY <1>1 DEF IInv, Locked
  <2>3. writer' # {} => readers' = {}
    <3> SUFFICES ASSUME writer # {} PROVE readers' = {} OBVIOUS
    <3>1. readers = {} /\ readers' = readers \ {w} BY DEF IInv, Locked
    <3> QED BY <3>1
  <2> QED BY <2>1, <2>2, <2>3 DEF IInv, Locked
<1>5. ASSUME NEW v \in Workers PROVE Located(worker[v], heap)'
  <2>1. Located(worker'[v], heap') <=> Located(IF v = w THEN f ELSE worker[v], heap)
    BY <1>1 DEF cacheVars
  <2> QED BY <2>1 DEF IInv
<1> QED BY <1>2, <1>3, <1>4, <1>5 DEF IInv

LEMMA AcceptKeeps == ASSUME IInv, NEW w \in Workers, Accept(w) PROVE IInv'
<1> DEFINE f == [worker[w] EXCEPT !.pc = "request"]
<1>1. worker[w] \in Frame /\ worker[w].pc = "idle" /\ Located(worker[w], heap)
  BY DEF IInv, TypeOK, Accept, At
<1>2. f \in Frame BY <1>1 DEF Frame, Places
<1>3. /\ f.pc = "request" /\ f.key = worker[w].key /\ f.ptr = worker[w].ptr
      /\ f.from = worker[w].from /\ f.size = worker[w].size
  BY <1>1 DEF Frame
<1>4. worker' = [worker EXCEPT ![w] = f] BY DEF Accept, Goto
<1> HIDE DEF f
<1>5. Located(f, heap) BY <1>1, <1>3 DEF Located
<1>6. w \notin readers BY <1>1 DEF IInv, Locked
<1> QED BY <1>1, <1>2, <1>3, <1>4, <1>5, <1>6, WorkerStep DEF Accept, lockVars

(* The frame of an idle worker is one, and right for its place. *)
LEMMA IdleFrame == Idle \in Frame /\ Idle.pc = "idle" /\ \A h : Located(Idle, h)
<1>1. Idle \in Frame BY ProxyAssumption DEF Idle, Frame, Places
<1>2. /\ Idle.pc = "idle" /\ Idle.size = 0 /\ Idle.ptr = NULL BY DEF Idle
<1>3. ASSUME NEW h PROVE Located(Idle, h) BY <1>2 DEF Located
<1> QED BY <1>1, <1>2, <1>3

LEMMA RequestKeeps == ASSUME IInv, NEW w \in Workers, Request(w) PROVE IInv'
<1>1. worker[w] \in Frame /\ worker[w].pc = "request" /\ Located(worker[w], heap)
  BY DEF IInv, TypeOK, Request, At
<1>2. w \notin readers BY <1>1 DEF IInv, Locked
<1>3. CASE Done(w)
  BY <1>1, <1>2, <1>3, IdleFrame, WorkerStep DEF Request, Done, lockVars
<1>4. ASSUME NEW k \in Keys, worker' = [worker EXCEPT ![w].pc = "get_lock", ![w].key = k]
      PROVE  IInv'
  <2> DEFINE f == [worker[w] EXCEPT !.pc = "get_lock", !.key = k]
  <2>1. f \in Frame BY <1>1 DEF Frame, Places
  <2>2. /\ f.pc = "get_lock" /\ f.key = k /\ f.ptr = worker[w].ptr
        /\ f.from = worker[w].from /\ f.size = worker[w].size
    BY <1>1 DEF Frame
  <2>3. worker' = [worker EXCEPT ![w] = f] BY <1>1, <1>4 DEF IInv, TypeOK
  <2> HIDE DEF f
  <2>4. Located(f, heap) BY <1>1, <2>2 DEF Located
  <2> QED BY <1>1, <1>2, <2>1, <2>2, <2>3, <2>4, WorkerStep DEF Request, lockVars
<1> QED BY <1>3, <1>4 DEF Request

LEMMA GetLockKeeps == ASSUME IInv, NEW w \in Workers, GetLock(w) PROVE IInv'
<1> DEFINE f == [worker[w] EXCEPT !.pc = "get", !.ptr = cache]
<1>1. worker[w] \in Frame /\ worker[w].pc = "get_lock" /\ Located(worker[w], heap)
  BY DEF IInv, TypeOK, GetLock, At
<1>2. f \in Frame BY <1>1 DEF Frame, Places, IInv, TypeOK
<1>3. /\ f.pc = "get" /\ f.key = worker[w].key /\ f.ptr = cache
      /\ f.from = worker[w].from /\ f.size = worker[w].size
  BY <1>1 DEF Frame
<1>4. worker' = [worker EXCEPT ![w] = f] BY <1>1 DEF GetLock, IInv, TypeOK
<1> HIDE DEF f
<1>5. cache # NULL => cache \in DOMAIN heap BY HeadInHeap DEF IInv, Cached
<1>6. Located(f, heap) BY <1>1, <1>3, <1>5 DEF Located
<1> QED BY <1>1, <1>2, <1>3, <1>4, <1>6, WorkerStep DEF GetLock

LEMMA GetStepKeeps == ASSUME IInv, NEW w \in Workers, GetStep(w) PROVE IInv'
<1>1. worker[w] \in Frame /\ worker[w].pc = "get" /\ Located(worker[w], heap)
  BY DEF IInv, TypeOK, GetStep, At
<1>2. PICK a : a = worker[w].ptr OBVIOUS
<1>3. a \in DOMAIN heap /\ Contents(a) = heap[a]
  BY <1>1, <1>2 DEF GetStep, Located, Contents
<1>4. w \in readers /\ writer = {} BY <1>1 DEF IInv, Locked
<1>5. CASE heap[a].key = worker[w].key
  <2> DEFINE f == [worker[w] EXCEPT !.pc = "copy"]
  <2>1. f \in Frame BY <1>1 DEF Frame, Places
  <2>2. /\ f.pc = "copy" /\ f.key = worker[w].key /\ f.ptr = a
        /\ f.from = worker[w].from /\ f.size = worker[w].size
    BY <1>1, <1>2 DEF Frame
  <2>3. worker' = [worker EXCEPT ![w] = f] BY <1>2, <1>3, <1>5 DEF GetStep, Goto
  <2> HIDE DEF f
  <2>4. a # NULL BY <1>2 DEF GetStep
  <2>5. Located(f, heap) BY <1>1, <1>3, <1>5, <2>2, <2>4 DEF Located
  <2> QED BY <1>1, <1>4, <2>1, <2>2, <2>3, <2>5, WorkerStep DEF GetStep, lockVars
<1>6. CASE heap[a].key # worker[w].key
  <2> DEFINE f == [worker[w] EXCEPT !.ptr = heap[a].next]
  <2>1. heap[a].next \in Objects \cup {NULL} BY <1>3 DEF IInv, TypeOK, Object
  <2>2. f \in Frame BY <1>1, <2>1 DEF Frame
  <2>3. /\ f.pc = "get" /\ f.key = worker[w].key /\ f.ptr = heap[a].next
        /\ f.from = worker[w].from /\ f.size = worker[w].size
    BY <1>1 DEF Frame
  <2>4. worker' = [worker EXCEPT ![w] = f] BY <1>2, <1>3, <1>6 DEF GetStep
  <2> HIDE DEF f
  <2>5. heap[a].next # NULL => heap[a].next \in DOMAIN heap
    BY <1>3, NextInHeap DEF IInv, Cached
  <2>6. Located(f, heap) BY <1>1, <2>3, <2>5 DEF Located
  <2> QED BY <1>1, <1>4, <2>2, <2>3, <2>4, <2>6, WorkerStep DEF GetStep, lockVars
<1> QED BY <1>5, <1>6

LEMMA MissKeeps == ASSUME IInv, NEW w \in Workers, Miss(w) PROVE IInv'
<1> DEFINE f == [worker[w] EXCEPT !.pc = "connect"]
<1>1. worker[w] \in Frame /\ worker[w].pc = "get" /\ Located(worker[w], heap)
  BY DEF IInv, TypeOK, Miss, At
<1>2. f \in Frame BY <1>1 DEF Frame, Places
<1>3. /\ f.pc = "connect" /\ f.key = worker[w].key /\ f.ptr = NULL
      /\ f.from = worker[w].from /\ f.size = worker[w].size
  BY <1>1 DEF Frame, Miss
<1>4. worker' = [worker EXCEPT ![w] = f] BY DEF Miss, Goto
<1> HIDE DEF f
<1>5. Located(f, heap) BY <1>1, <1>3 DEF Located
<1> QED BY <1>1, <1>2, <1>3, <1>4, <1>5, WorkerStep DEF Miss

LEMMA CopyKeeps == ASSUME IInv, NEW w \in Workers, Copy(w) PROVE IInv'
<1>1. worker[w] \in Frame /\ worker[w].pc = "copy" /\ Located(worker[w], heap)
  BY DEF IInv, TypeOK, Copy, At
<1>2. PICK a : a = worker[w].ptr OBVIOUS
<1>3. a \in DOMAIN heap /\ Contents(a) = heap[a] /\ heap[a].key = worker[w].key
  BY <1>1, <1>2 DEF Located, Contents
<1>4. heap[a] \in Object /\ heap[a].from = worker[w].key
  BY <1>3 DEF IInv, TypeOK, Cached
<1> DEFINE f == [worker[w] EXCEPT !.pc = "touch", !.ptr = NULL,
                                  !.from = heap[a].from, !.size = heap[a].size]
<1>5. heap[a].size \in 0 .. MAX_OBJECT_SIZE /\ heap[a].from \in Keys
  BY <1>4, ProxyAssumption DEF Object
<1>6. f \in Frame BY <1>1, <1>5 DEF Frame, Places
<1>7. /\ f.pc = "touch" /\ f.key = worker[w].key /\ f.ptr = NULL
      /\ f.from = worker[w].key /\ f.size = heap[a].size
  BY <1>1, <1>4 DEF Frame
<1>8. worker' = [worker EXCEPT ![w] = f] BY <1>1, <1>2, <1>3 DEF Copy, IInv, TypeOK
<1> HIDE DEF f
<1>9. Located(f, heap) BY <1>1, <1>7 DEF Located
<1> QED BY <1>1, <1>6, <1>7, <1>8, <1>9, WorkerStep DEF Copy

LEMMA SendKeeps == ASSUME IInv, NEW w \in Workers, Send(w) PROVE IInv'
<1>1. worker[w].pc = "send" BY DEF Send, At
<1>2. w \notin readers BY <1>1 DEF IInv, Locked
<1> QED BY <1>1, <1>2, IdleFrame, WorkerStep DEF Send, Done, lockVars

LEMMA ConnectKeeps == ASSUME IInv, NEW w \in Workers, Connect(w) PROVE IInv'
<1> DEFINE f == [worker[w] EXCEPT !.pc = "relay"]
<1>1. worker[w] \in Frame /\ worker[w].pc = "connect" /\ Located(worker[w], heap)
  BY DEF IInv, TypeOK, Connect, At
<1>2. f \in Frame BY <1>1 DEF Frame, Places
<1>3. /\ f.pc = "relay" /\ f.key = worker[w].key /\ f.ptr = worker[w].ptr
      /\ f.from = worker[w].from /\ f.size = worker[w].size
  BY <1>1 DEF Frame
<1>4. worker' = [worker EXCEPT ![w] = f] BY DEF Connect, Goto
<1> HIDE DEF f
<1>5. Located(f, heap) BY <1>1, <1>3 DEF Located
<1>6. w \notin readers BY <1>1 DEF IInv, Locked
<1> QED BY <1>1, <1>2, <1>3, <1>4, <1>5, <1>6, WorkerStep DEF Connect, lockVars

LEMMA RelayKeeps ==
  ASSUME IInv, NEW w \in Workers, NEW n \in 1 .. MAXBUF, Relay(w, n) PROVE IInv'
<1>1. worker[w] \in Frame /\ worker[w].pc = "relay" /\ Located(worker[w], heap)
  BY DEF IInv, TypeOK, Relay, At
<1>2. PICK room \in BOOLEAN :
        room = (worker[w].cacheable /\ worker[w].size + n <= MAX_OBJECT_SIZE)
  OBVIOUS
<1> DEFINE pc == IF n = MAXBUF THEN "relay" ELSE "end"
           size == IF room THEN worker[w].size + n ELSE worker[w].size
           f == [worker[w] EXCEPT !.pc = pc, !.from = worker[w].key, !.size = size,
                                  !.cacheable = room]
<1>3. size \in 0 .. MAX_OBJECT_SIZE
  <2>1. worker[w].size \in 0 .. MAX_OBJECT_SIZE BY <1>1 DEF Frame
  <2>2. n \in Nat /\ MAX_OBJECT_SIZE \in Nat BY ProxyAssumption
  <2>3. room => worker[w].size + n <= MAX_OBJECT_SIZE BY <1>2
  <2>4. CASE room BY <2>1, <2>2, <2>3, <2>4
  <2>5. CASE ~ room BY <2>1, <2>5
  <2> QED BY <2>4, <2>5
<1>4. pc \in {"relay", "end"} OBVIOUS
<1>5. worker[w].key \in Keys BY <1>1 DEF Located
<1>6. worker' = [worker EXCEPT ![w] = f] BY <1>1, <1>2 DEF Relay, IInv, TypeOK
<1> HIDE DEF pc, size
<1>7. f \in Frame BY <1>1, <1>3, <1>4, <1>5 DEF Frame, Places
<1>8. /\ f.pc \in {"relay", "end"} /\ f.key = worker[w].key /\ f.ptr = worker[w].ptr
      /\ f.from = worker[w].key
  BY <1>1, <1>4 DEF Frame
<1> HIDE DEF f
<1>9. Located(f, heap) BY <1>1, <1>5, <1>8 DEF Located
<1>10. w \notin readers BY <1>1 DEF IInv, Locked
<1>11. UNCHANGED <<cacheVars, lockVars, exited>> BY DEF Relay
<1>12. f.pc # "evict" /\ worker[w].pc # "evict" /\ f.pc \notin {"get", "copy"} BY <1>1, <1>8
<1>13. readers' = readers \ {w} BY <1>10, <1>11 DEF lockVars
<1> QED BY <1>6, <1>7, <1>9, <1>11, <1>12, <1>13, WorkerStep DEF lockVars

LEMMA EndKeeps == ASSUME IInv, NEW w \in Workers, End(w) PROVE IInv'
<1>1. worker[w] \in Frame /\ worker[w].pc \in {"relay", "end"} /\ Located(worker[w], heap)
  BY DEF IInv, TypeOK, End, At
<1>2. w \notin readers BY <1>1 DEF IInv, Locked
<1>3. CASE Done(w) BY <1>1, <1>2, <1>3, IdleFrame, WorkerStep DEF End, Done, lockVars
<1>4. CASE Goto(w, "put") /\ worker[w].size > 0
  <2> DEFINE f == [worker[w] EXCEPT !.pc = "put"]
  <2>1. f \in Frame BY <1>1 DEF Frame, Places
  <2>2. /\ f.pc = "put" /\ f.key = worker[w].key /\ f.ptr = worker[w].ptr
        /\ f.from = worker[w].from /\ f.size = worker[w].size
    BY <1>1 DEF Frame
  <2>3. worker' = [worker EXCEPT ![w] = f] BY <1>4 DEF Goto
  <2> HIDE DEF f
  <2>4. Located(f, heap) BY <1>1, <1>4, <2>2 DEF Located
  <2> QED BY <1>1, <1>2, <2>1, <2>2, <2>3, <2>4, WorkerStep DEF End, lockVars
<1> QED BY <1>3, <1>4 DEF End

-----------------------------------------------------------------------------
(* The steps under the write lock *)

(* A step of a worker that has the lock to itself keeps the invariant if the cache *)
(* keeps its part, the worker's new frame f is right for its place and it keeps    *)
(* the lock there if and only if it is to.                                         *)
LEMMA HolderStep ==
  ASSUME IInv, SharedTypes', Cached', exited' = exited, NEW w \in Workers, NEW f \in Frame,
         worker' = [worker EXCEPT ![w] = f], Located(f, heap'),
         f.pc \notin {"get", "copy"},
         readers = {}, writer \in SUBSET {w}, readers' = {},
         writer' = IF f.pc = "evict" THEN {w} ELSE {},
         \A v \in Workers \ {w} : Located(worker[v], heap')
  PROVE  IInv'
<1>1. \A v \in Workers : worker'[v] = IF v = w THEN f ELSE worker[v] BY DEF IInv, TypeOK
<1>2. TypeOK' BY DEF IInv, TypeOK, SharedTypes
<1>3. Locked'
  <2>1. \A v \in Workers : worker[v].pc \notin {"get", "copy"} BY DEF IInv, Locked
  <2>2. readers' = {v \in Workers : worker'[v].pc \in {"get", "copy"}} BY <1>1, <2>1
  <2>3. \A v \in Workers \ {w} : worker[v].pc # "evict" BY DEF IInv, Locked
  <2>4. writer' = {v \in Workers : worker'[v].pc = "evict"} BY <1>1, <2>3
  <2> QED BY <2>2, <2>4 DEF Locked
<1>4. ASSUME NEW v \in Workers PROVE Located(worker[v], heap)'
  <2>1. Located(worker'[v], heap') <=> Located(IF v = w THEN f ELSE worker[v], heap')
    BY <1>1
  <2> QED BY <2>1
<1> QED BY <1>2, <1>3, <1>4 DEF IInv

(* A worker that does not hold the lock, or whose pointer and key are as good in  *)
(* another heap, is located there as well.                                        *)
LEMMA LocatedElsewhere ==
  ASSUME NEW f, NEW h, NEW g, Located(f, h), f.pc \notin {"get", "copy", "evict"}
  PROVE  Located(f, g)
BY DEF Located

LEMMA OthersOut ==
  ASSUME IInv, NEW w \in Workers, readers = {}, writer \in SUBSET {w}, NEW g
  PROVE  \A v \in Workers \ {w} : Located(worker[v], g)
<1> SUFFICES ASSUME NEW v \in Workers \ {w} PROVE Located(worker[v], g) OBVIOUS
<1>1. worker[v].pc \notin {"get", "copy", "evict"} BY DEF IInv, Locked
<1> QED BY <1>1, LocatedElsewhere DEF IInv

(* A timestamp moves neither links nor keys nor sizes. *)
LEMMA TouchedKeeps ==
  ASSUME IInv, NEW k, Touched(k), UNCHANGED <<cache, cache_size>>
  PROVE  SharedTypes' /\ Cached'
<1>1. CASE UNCHANGED <<heap, cache_clock>> BY <1>1 DEF SharedTypes, IInv, TypeOK, Cached
<1>2. CASE ~ UNCHANGED <<heap, cache_clock>>
  <2>1. PICK a \in Find(k) : /\ cache_clock' = cache_clock + 1
                             /\ heap' = [heap EXCEPT ![a].recent = cache_clock + 1]
    BY <1>2 DEF Touched
  <2>2. a \in DOMAIN heap BY ListedIsHeap DEF Find, IInv, Cached
  <2>3. /\ heap \in [DOMAIN heap -> Object] /\ cache_clock \in Nat
        /\ DOMAIN heap \in SUBSET Objects
    BY DEF IInv, TypeOK
  <2>4. PICK D : D = DOMAIN heap OBVIOUS
  <2>5. DOMAIN heap' = D BY <2>1, <2>4
  <2>6. ASSUME NEW b \in D
        PROVE  /\ heap'[b].key = heap[b].key /\ heap'[b].from = heap[b].from
               /\ heap'[b].size = heap[b].size /\ heap'[b].next = heap[b].next
               /\ heap'[b].recent = IF b = a THEN cache_clock + 1 ELSE heap[b].recent
               /\ heap'[b] \in Object
    <3>1. heap[b] \in Object BY <2>3, <2>4
    <3>2. CASE b = a
      <4>1. heap'[b] = [heap[b] EXCEPT !.recent = cache_clock + 1] BY <2>1, <2>2, <3>2
      <4>2. cache_clock + 1 \in Nat BY <2>3
      <4> QED BY <3>1, <3>2, <4>1, <4>2 DEF Object
    <3>3. CASE b # a
      <4>1. heap'[b] = heap[b] BY <2>1, <2>4, <3>3
      <4> QED BY <3>1, <3>3, <4>1
    <3> QED BY <3>2, <3>3
  <2>7. heap' = [b \in D |-> heap'[b]]
    BY <2>1, <2>4
  <2>8. SharedTypes'
    <3>1. heap' \in [DOMAIN heap' -> Object] BY <2>5, <2>6, <2>7
    <3> QED BY <2>1, <2>3, <2>4, <2>5, <3>1 DEF SharedTypes, IInv, TypeOK
  <2>9. Chained(heap', cache') BY <2>4, <2>5, <2>6, ChainSame DEF IInv, Cached
  <2>10. Stamped(heap', cache_clock')
    <3>1. ASSUME NEW b \in D PROVE heap[b].recent \in 1 .. cache_clock
      BY <2>4 DEF IInv, Cached, Stamped
    <3>2. ASSUME NEW b \in D PROVE heap'[b].recent \in 1 .. cache_clock'
      <4>1. heap[b].recent \in 1 .. cache_clock
            /\ heap'[b].recent = IF b = a THEN cache_clock + 1 ELSE heap[b].recent
        BY <2>6, <3>1
      <4> QED BY <2>1, <2>3, <4>1
    <3>3. ASSUME NEW b \in D, NEW c \in D, heap'[b].recent = heap'[c].recent PROVE b = c
      <4>1. heap[b].recent \in 1 .. cache_clock /\ heap[c].recent \in 1 .. cache_clock BY <3>1
      <4>2. heap'[b].recent = IF b = a THEN cache_clock + 1 ELSE heap[b].recent BY <2>6
      <4>3. heap'[c].recent = IF c = a THEN cache_clock + 1 ELSE heap[c].recent BY <2>6
      <4>4. heap[b].recent = heap[c].recent => b = c BY <2>4 DEF IInv, Cached, Stamped
      <4>5. cache_clock + 1 \notin 1 .. cache_clock BY <2>3
      <4>6. CASE b = a BY <3>3, <4>1, <4>2, <4>3, <4>5, <4>6
      <4>7. CASE b # a BY <3>3, <4>1, <4>2, <4>3, <4>4, <4>5, <4>7
      <4> QED BY <4>6, <4>7
    <3> QED BY <2>5, <3>2, <3>3 DEF Stamped
  <2>11. \A b, c \in D : heap'[b].key = heap'[c].key => b = c
    BY <2>4, <2>6 DEF IInv, Cached
  <2>12. \A b \in D : heap'[b].from = heap'[b].key BY <2>4, <2>6 DEF IInv, Cached
  <2>13. cache_size' = Weight(heap', D)
    <3>1. IsFiniteSet(D) BY <2>3, <2>4, ProxyAssumption, FS_Subset
    <3>2. Weight(heap', D) = Weight(heap, D) BY <2>6, <3>1, WeightSame
    <3> QED BY <2>4, <3>2 DEF IInv, Cached
  <2> QED BY <2>5, <2>8, <2>9, <2>10, <2>11, <2>12, <2>13 DEF Cached, IInv
<1> QED BY <1>1, <1>2

LEMMA TouchKeeps == ASSUME IInv, NEW w \in Workers, Touch(w) PROVE IInv'
<1> DEFINE f == [worker[w] EXCEPT !.pc = "send"]
<1>1. worker[w] \in Frame /\ worker[w].pc = "touch" /\ Located(worker[w], heap)
  BY DEF IInv, TypeOK, Touch, At
<1>2. f \in Frame BY <1>1 DEF Frame, Places
<1>3. /\ f.pc = "send" /\ f.key = worker[w].key /\ f.ptr = worker[w].ptr
      /\ f.from = worker[w].from /\ f.size = worker[w].size
  BY <1>1 DEF Frame
<1>4. worker' = [worker EXCEPT ![w] = f] BY DEF Touch, Goto
<1> HIDE DEF f
<1>5. Located(f, heap') BY <1>1, <1>3 DEF Located
<1>6. SharedTypes' /\ Cached' BY TouchedKeeps DEF Touch
<1>7. /\ readers = {} /\ writer = {} /\ readers' = {} /\ writer' = {} /\ exited' = exited
  BY DEF Touch, lockVars
<1>8. \A v \in Workers \ {w} : Located(worker[v], heap') BY <1>7, OthersOut
<1> QED BY <1>2, <1>3, <1>4, <1>5, <1>6, <1>7, <1>8, HolderStep

LEMMA PutKeeps == ASSUME IInv, NEW w \in Workers, Put(w) PROVE IInv'
<1>1. worker[w] \in Frame /\ worker[w].pc = "put" /\ Located(worker[w], heap)
  BY DEF IInv, TypeOK, Put, At
<1>2. readers = {} /\ writer = {} /\ exited' = exited /\ UNCHANGED <<cache, cache_size>>
  BY DEF Put
<1>3. \A v \in Workers \ {w} : Located(worker[v], heap') BY <1>2, OthersOut
<1>4. CASE Find(worker[w].key) # {}
  <2>1. Touched(worker[w].key) /\ Done(w) /\ UNCHANGED lockVars BY <1>4 DEF Put
  <2>2. SharedTypes' /\ Cached' BY <1>2, <2>1, TouchedKeeps
  <2>3. worker' = [worker EXCEPT ![w] = Idle] BY <2>1 DEF Done
  <2>4. readers' = {} /\ writer' = {} BY <1>2, <2>1 DEF lockVars
  <2> QED BY <1>2, <1>3, <2>2, <2>3, <2>4, IdleFrame, HolderStep
<1>5. CASE Find(worker[w].key) = {}
  <2>1. /\ writer' = {w} /\ Goto(w, "evict") /\ UNCHANGED <<heap, cache_clock, readers>>
    BY <1>5 DEF Put
  <2>2. SharedTypes' /\ Cached' BY <1>2, <2>1 DEF SharedTypes, IInv, TypeOK, Cached
  <2> DEFINE f == [worker[w] EXCEPT !.pc = "evict"]
  <2>3. f \in Frame BY <1>1 DEF Frame, Places
  <2>4. /\ f.pc = "evict" /\ f.key = worker[w].key /\ f.ptr = worker[w].ptr
        /\ f.from = worker[w].from /\ f.size = worker[w].size
    BY <1>1 DEF Frame
  <2>5. worker' = [worker EXCEPT ![w] = f] BY <2>1 DEF Goto
  <2> HIDE DEF f
  <2>6. \A a \in DOMAIN heap : heap[a].key # worker[w].key
    BY <1>5, ListedIsHeap DEF Find, IInv, Cached
  <2>7. Located(f, heap') BY <1>1, <2>1, <2>4, <2>6 DEF Located
  <2> QED BY <1>2, <1>3, <2>1, <2>2, <2>3, <2>4, <2>5, <2>7, HolderStep
<1> QED BY <1>4, <1>5

LEMMA EvictKeeps == ASSUME IInv, NEW w \in Workers, Evict(w) PROVE IInv'
<1>1. worker[w] \in Frame /\ worker[w].pc = "evict" /\ Located(worker[w], heap)
  BY DEF IInv, TypeOK, Evict, At
<1>2. readers = {} /\ writer = {w} BY <1>1 DEF IInv, Locked
<1>3. readers' = {} /\ writer' = {w} /\ worker' = worker /\ exited' = exited
      /\ cache_clock' = cache_clock
  BY <1>2 DEF Evict, lockVars
<1>4. PICK a \in victim :
        /\ heap' = [b \in DOMAIN heap \ {a} |->
                       IF heap[b].next # a THEN heap[b]
                       ELSE [heap[b] EXCEPT !.next = heap[a].next]]
        /\ cache' = IF cache = a THEN heap[a].next ELSE cache
        /\ cache_size' = cache_size - heap[a].size
  BY DEF Evict
<1>5. a \in DOMAIN heap BY <1>4, ListedIsHeap DEF victim, IInv, Cached
<1>6. PICK D : D = DOMAIN heap \ {a} OBVIOUS
<1>7. /\ heap \in [DOMAIN heap -> Object] /\ DOMAIN heap \in SUBSET Objects
      /\ cache \in Objects \cup {NULL} /\ cache_size \in Nat /\ cache_clock \in Nat
  BY DEF IInv, TypeOK
<1>8. DOMAIN heap' = D /\ heap' = [b \in D |-> heap'[b]] BY <1>4, <1>6
<1>9. heap[a] \in Object BY <1>5, <1>7
<1>10. ASSUME NEW b \in D
       PROVE  /\ b \in DOMAIN heap
              /\ heap'[b].key = heap[b].key /\ heap'[b].from = heap[b].from
              /\ heap'[b].size = heap[b].size /\ heap'[b].recent = heap[b].recent
              /\ heap'[b].next = IF heap[b].next # a THEN heap[b].next ELSE heap[a].next
              /\ heap'[b] \in Object
  <2>1. b \in DOMAIN heap /\ heap[b] \in Object BY <1>6, <1>7
  <2>2. CASE heap[b].next # a
    <3>1. heap'[b] = heap[b] BY <1>4, <1>6, <2>2
    <3> QED BY <2>1, <2>2, <3>1
  <2>3. CASE heap[b].next = a
    <3>1. heap'[b] = [heap[b] EXCEPT !.next = heap[a].next] BY <1>4, <1>6, <2>3
    <3> QED BY <1>9, <2>1, <2>3, <3>1 DEF Object
  <2> QED BY <2>2, <2>3
<1>11. IsFiniteSet(D) BY <1>6, <1>7, ProxyAssumption, FS_Subset
<1>12. \A b \in D : heap[b].size \in Nat
  <2> SUFFICES ASSUME NEW b \in D PROVE heap[b].size \in Nat OBVIOUS
  <2>1. heap[b] \in Object BY <1>6, <1>7
  <2> QED BY <2>1, ProxyAssumption DEF Object
<1>13. heap[a].size \in Nat BY <1>9, ProxyAssumption DEF Object
<1>14. cache_size' = Weight(heap', D) /\ cache_size' \in Nat /\ cache_size' <= MAX_CACHE_SIZE
  <2>1. DOMAIN heap = D \cup {a} /\ a \notin D BY <1>5, <1>6
  <2>2. Weight(heap, D) \in Nat /\ Weight(heap, D \cup {a}) = heap[a].size + Weight(heap, D)
    BY <1>11, <1>12, <1>13, <2>1, WeightAdd
  <2>3. Weight(heap', D) = Weight(heap, D) BY <1>10, <1>11, WeightSame
  <2>4. cache_size = Weight(heap, D \cup {a}) /\ cache_size <= MAX_CACHE_SIZE
    BY <2>1 DEF IInv, Cached
  <2>5. cache_size' = Weight(heap, D) BY <1>4, <1>13, <2>2, <2>4
  <2>6. cache_size' <= cache_size BY <1>13, <2>2, <2>4, <2>5
  <2>7. MAX_CACHE_SIZE \in Nat BY ProxyAssumption
  <2> QED BY <1>7, <2>2, <2>3, <2>4, <2>5, <2>6, <2>7
<1>15. SharedTypes'
  <2>1. heap' \in [DOMAIN heap' -> Object] BY <1>8, <1>10
  <2>2. heap[a].next \in Objects \cup {NULL} BY <1>9 DEF Object
  <2>3. cache' \in Objects \cup {NULL} BY <1>4, <1>7, <2>2
  <2>4. DOMAIN heap' \in SUBSET Objects BY <1>6, <1>7, <1>8
  <2> QED BY <1>3, <1>7, <1>14, <2>1, <2>3, <2>4 DEF SharedTypes
<1>16. Chained(heap', cache')
  <2>1. PICK n \in 0 .. Cardinality(Objects) :
          \E p \in [1 .. n -> DOMAIN heap] : Chain(heap, cache, n, p)
    BY DEF IInv, Cached, Chained
  <2>2. PICK p \in [1 .. n -> DOMAIN heap] : Chain(heap, cache, n, p) BY <2>1
  <2>3. n \in Nat /\ Cardinality(Objects) \in Nat BY ProxyAssumption, FS_CardinalityType
  <2>4. NULL \notin DOMAIN heap BY <1>7, ProxyAssumption
  <2>5. /\ n - 1 \in Nat
        /\ \E q \in [1 .. n - 1 -> DOMAIN heap'] : Chain(heap', cache', n - 1, q)
    <3>1. \A b \in DOMAIN heap' :
            heap'[b].next = IF heap[b].next # a THEN heap[b].next ELSE heap[a].next
      BY <1>8, <1>10
    <3>2. DOMAIN heap' = DOMAIN heap \ {a} BY <1>6, <1>8
    <3>3. cache' = IF cache = a THEN heap[a].next ELSE cache BY <1>4
    <3>4. n \in Nat /\ p \in [1 .. n -> DOMAIN heap] BY <2>3
    <3>5. Unlinked(heap', heap, a) BY <3>1, <3>2 DEF Unlinked
    <3> QED BY ONLY <1>5, <2>2, <2>4, <3>3, <3>4, <3>5, ChainRemove
  <2>6. n - 1 \in 0 .. Cardinality(Objects) BY <2>3, <2>5
  <2> QED BY <2>5, <2>6 DEF Chained
<1>17. Stamped(heap', cache_clock') BY <1>3, <1>8, <1>10 DEF IInv, Cached, Stamped
<1>18. \A b, c \in D : heap'[b].key = heap'[c].key => b = c BY <1>10 DEF IInv, Cached
<1>19. \A b \in D : heap'[b].from = heap'[b].key BY <1>10 DEF IInv, Cached
<1>20. Cached' BY <1>8, <1>14, <1>16, <1>17, <1>18, <1>19 DEF Cached
<1>21. Located(worker[w], heap')
  <2>1. \A b \in DOMAIN heap' : heap'[b].key # worker[w].key BY <1>1, <1>8, <1>10 DEF Located
  <2>2. worker[w].ptr = NULL BY <1>1 DEF Located
  <2> QED BY <1>1, <2>1, <2>2 DEF Located
<1>22. \A v \in Workers \ {w} : Located(worker[v], heap') BY <1>2, OthersOut
<1>23. worker' = [worker EXCEPT ![w] = worker[w]] BY <1>3 DEF IInv, TypeOK
<1> QED BY <1>1, <1>2, <1>3, <1>15, <1>20, <1>21, <1>22, <1>23, HolderStep

LEMMA InsertKeeps == ASSUME IInv, NEW w \in Workers, Insert(w) PROVE IInv'
<1>1. worker[w] \in Frame /\ worker[w].pc = "evict" /\ Located(worker[w], heap)
  BY DEF IInv, TypeOK, Insert, At
<1>2. readers = {} /\ writer = {w} BY <1>1 DEF IInv, Locked
<1>3. PICK a \in Objects \ DOMAIN heap : InsertAt(w, a) BY DEF Insert
<1>4. /\ readers' = {} /\ writer' = {} /\ exited' = exited
      /\ worker' = [worker EXCEPT ![w] = Idle]
      /\ cache' = a /\ cache_clock' = cache_clock + 1
      /\ cache_size' = cache_size + worker[w].size
  BY <1>2, <1>3 DEF InsertAt, Done
<1>5. PICK D : D = DOMAIN heap OBVIOUS
<1>6. /\ heap \in [D -> Object] /\ D \in SUBSET Objects
      /\ cache \in Objects \cup {NULL} /\ cache_size \in Nat /\ cache_clock \in Nat
  BY <1>5 DEF IInv, TypeOK
<1>7. a \in Objects /\ a \notin D BY <1>5
<1>8. DOMAIN heap' = D \cup {a} /\ heap' = [b \in D \cup {a} |-> heap'[b]]
  BY <1>3, <1>5 DEF InsertAt
<1>9. ASSUME NEW b \in D PROVE heap'[b] = heap[b] BY <1>3, <1>5, <1>7 DEF InsertAt
<1>10. heap'[a] = [key |-> worker[w].key, from |-> worker[w].from, size |-> worker[w].size,
                   recent |-> cache_clock + 1, next |-> cache]
  BY <1>3, <1>5, <1>7 DEF InsertAt
<1>11. /\ worker[w].key \in Keys /\ worker[w].from = worker[w].key
       /\ worker[w].size \in 1 .. MAX_OBJECT_SIZE
       /\ \A b \in D : heap[b].key # worker[w].key
  BY <1>1, <1>5, ProxyAssumption DEF Located, Frame
<1>12. /\ heap'[a].key = worker[w].key /\ heap'[a].from = worker[w].key
       /\ heap'[a].size = worker[w].size /\ heap'[a].recent = cache_clock + 1
       /\ heap'[a].next = cache
  BY <1>10, <1>11
<1>13. heap'[a] \in Object BY <1>6, <1>10, <1>11 DEF Object
<1>14. IsFiniteSet(D) BY <1>6, ProxyAssumption, FS_Subset
<1>15. cache_size' = Weight(heap', D \cup {a}) /\ cache_size' \in Nat
       /\ cache_size' <= MAX_CACHE_SIZE
  <2>1. \A b \in D : heap[b].size \in Nat /\ heap'[b].size = heap[b].size
    <3> SUFFICES ASSUME NEW b \in D PROVE heap[b].size \in Nat /\ heap'[b].size = heap[b].size
      OBVIOUS
    <3>1. heap[b] \in Object BY <1>6
    <3> QED BY <1>9, <3>1, ProxyAssumption DEF Object
  <2>2. heap'[a].size \in Nat BY <1>11, <1>12, ProxyAssumption
  <2>3. Weight(heap, D) \in Nat /\ Weight(heap', D \cup {a}) = heap'[a].size + Weight(heap, D)
    <3>1. a \notin D BY <1>7
    <3> QED BY ONLY <1>14, <2>1, <2>2, <3>1, WeightAdd
  <2>4. cache_size = Weight(heap, D) BY <1>5 DEF IInv, Cached
  <2>5. cache_size' = heap'[a].size + Weight(heap, D) BY <1>4, <1>6, <1>12, <2>2, <2>3, <2>4
  <2>6. MAX_CACHE_SIZE \in Nat /\ MAX_OBJECT_SIZE \in Nat /\ MAX_OBJECT_SIZE <= MAX_CACHE_SIZE
    BY ProxyAssumption
  <2>7. cache_size' <= MAX_CACHE_SIZE
    <3>1. CASE cache = NULL
      <4>1. D = {} BY <1>5, <1>6, <3>1, NullHead, ProxyAssumption DEF IInv, Cached
      <4>2. cache_size = 0 BY <2>4, <4>1, WeightEmpty
      <4> QED BY <1>4, <1>11, <2>6, <4>2
    <3>2. CASE cache # NULL
      <4>1. cache_size + worker[w].size <= MAX_CACHE_SIZE
        BY <1>6, <1>11, <2>6, <3>2 DEF Insert, TooLarge
      <4> QED BY <1>4, <4>1
    <3> QED BY <3>1, <3>2
  <2> QED BY <2>2, <2>3, <2>5, <2>7
<1>16. SharedTypes'
  <2>1. heap' \in [DOMAIN heap' -> Object]
    <3>1. \A b \in D \cup {a} : heap'[b] \in Object BY <1>6, <1>9, <1>13
    <3> QED BY <1>8, <3>1
  <2> QED BY <1>4, <1>6, <1>7, <1>8, <1>15, <2>1 DEF SharedTypes
<1>17. Chained(heap', cache')
  <2>1. PICK n \in 0 .. Cardinality(Objects) :
          \E p \in [1 .. n -> D] : Chain(heap, cache, n, p)
    BY <1>5 DEF IInv, Cached, Chained
  <2>2. PICK p \in [1 .. n -> D] : Chain(heap, cache, n, p) BY <2>1
  <2>3. n \in Nat /\ n + 1 \in Nat OBVIOUS
  <2>4. \E q \in [1 .. n + 1 -> DOMAIN heap'] : Chain(heap', a, n + 1, q)
    <3>1. \A b \in DOMAIN heap : heap'[b].next = heap[b].next BY <1>5, <1>9
    <3> QED BY <1>5, <1>7, <1>8, <1>12, <2>2, <2>3, <3>1, ChainInsert
  <2>5. PICK q \in [1 .. n + 1 -> DOMAIN heap'] : Chain(heap', a, n + 1, q) BY <2>4
  <2>6. n + 1 \in 0 .. Cardinality(Objects)
    <3>1. DOMAIN heap' \in SUBSET Objects BY <1>6, <1>7, <1>8
    <3>2. \A i, j \in 1 .. n + 1 : q[i] = q[j] => i = j BY <2>5 DEF Chain
    <3> QED BY <2>3, <2>5, <3>1, <3>2, ProxyAssumption, ChainLength
  <2> QED BY <1>4, <2>5, <2>6 DEF Chained
<1>18. Stamped(heap', cache_clock')
  <2>1. ASSUME NEW b \in D PROVE heap[b].recent \in 1 .. cache_clock
    BY <1>5 DEF IInv, Cached, Stamped
  <2>2. ASSUME NEW b \in D, NEW c \in D, heap[b].recent = heap[c].recent PROVE b = c
    BY <1>5, <2>2 DEF IInv, Cached, Stamped
  <2>3. ASSUME NEW b \in D \cup {a} PROVE heap'[b].recent \in 1 .. cache_clock + 1
    <3>1. CASE b \in D
      <4>1. heap'[b].recent \in 1 .. cache_clock BY <1>9, <2>1, <3>1
      <4> QED BY <1>6, <4>1
    <3>2. CASE b = a BY <1>6, <1>12, <3>2
    <3> QED BY <3>1, <3>2
  <2>4. ASSUME NEW b \in D PROVE heap'[b].recent # cache_clock + 1
    <3>1. heap'[b].recent \in 1 .. cache_clock BY <1>9, <2>1
    <3> QED BY <1>6, <3>1
  <2>5. \A b, c \in D \cup {a} : heap'[b].recent = heap'[c].recent => b = c
    BY <1>9, <1>12, <2>2, <2>4
  <2> QED BY <1>4, <1>8, <2>3, <2>5 DEF Stamped
<1>19. \A b, c \in D \cup {a} : heap'[b].key = heap'[c].key => b = c
  <2>1. \A b, c \in D : heap[b].key = heap[c].key => b = c BY <1>5 DEF IInv, Cached
  <2> QED BY <1>9, <1>11, <1>12, <2>1
<1>20. \A b \in D \cup {a} : heap'[b].from = heap'[b].key
  <2>1. \A b \in D : heap[b].from = heap[b].key BY <1>5 DEF IInv, Cached
  <2> QED BY <1>9, <1>12, <2>1
<1>21. Cached' BY <1>8, <1>15, <1>17, <1>18, <1>19, <1>20 DEF Cached
<1>22. \A v \in Workers \ {w} : Located(worker[v], heap') BY <1>2, OthersOut
<1> QED BY <1>2, <1>4, <1>16, <1>21, <1>22, IdleFrame, HolderStep

(* An I/O error leaves the cache as it is and nobody to look at it. *)
LEMMA FailsKeeps == ASSUME IInv, NEW w \in Workers, Fails(w) PROVE IInv'
<1>1. UNCHANGED cacheVars /\ exited' = TRUE /\ readers' = {} /\ writer' = {} BY DEF Fails
<1>2. worker' = [x \in Workers |-> Idle] BY DEF Fails
<1>3. TypeOK' BY <1>1, <1>2, IdleFrame DEF IInv, TypeOK, cacheVars
<1>4. Cached' BY <1>1 DEF IInv, Cached, cacheVars
<1>5. Locked' BY <1>1, <1>2, IdleFrame DEF Locked
<1>6. ASSUME NEW v \in Workers PROVE Located(worker[v], heap)'
  <2>1. worker'[v] = Idle BY <1>2
  <2>2. Located(worker'[v], heap') <=> Located(Idle, heap') BY <2>1
  <2> QED BY <2>2, IdleFrame
<1> QED BY <1>3, <1>4, <1>5, <1>6 DEF IInv

-----------------------------------------------------------------------------
(* The theorems *)

LEMMA NextIInv == IInv /\ [Next]_vars => IInv'
<1> SUFFICES ASSUME IInv, [Next]_vars PROVE IInv' OBVIOUS
<1>1. CASE UNCHANGED vars
  <2>1. TypeOK' BY <1>1 DEF vars, cacheVars, lockVars, IInv, TypeOK
  <2>2. Cached' BY <1>1 DEF vars, cacheVars, IInv, Cached
  <2>3. Locked' BY <1>1 DEF vars, lockVars, IInv, Locked
  <2>4. ASSUME NEW v \in Workers PROVE Located(worker[v], heap)'
    <3>1. Located(worker'[v], heap') <=> Located(worker[v], heap)
      BY <1>1 DEF vars, cacheVars
    <3> QED BY <3>1 DEF IInv
  <2> QED BY <2>1, <2>2, <2>3, <2>4 DEF IInv
<1>2. ASSUME NEW w \in Workers, Accept(w) PROVE IInv' BY <1>2, AcceptKeeps
<1>3. ASSUME NEW w \in Workers, Request(w) PROVE IInv' BY <1>3, RequestKeeps
<1>4. ASSUME NEW w \in Workers, Fails(w) PROVE IInv' BY <1>4, FailsKeeps
<1>5. ASSUME NEW w \in Workers, GetLock(w) PROVE IInv' BY <1>5, GetLockKeeps
<1>6. ASSUME NEW w \in Workers, GetStep(w) PROVE IInv' BY <1>6, GetStepKeeps
<1>7. ASSUME NEW w \in Workers, Miss(w) PROVE IInv' BY <1>7, MissKeeps
<1>8. ASSUME NEW w \in Workers, Copy(w) PROVE IInv' BY <1>8, CopyKeeps
<1>9. ASSUME NEW w \in Workers, Touch(w) PROVE IInv' BY <1>9, TouchKeeps
<1>10. ASSUME NEW w \in Workers, Send(w) PROVE IInv' BY <1>10, SendKeeps
<1>11. ASSUME NEW w \in Workers, Connect(w) PROVE IInv' BY <1>11, ConnectKeeps
<1>12. ASSUME NEW w \in Workers, End(w) PROVE IInv' BY <1>12, EndKeeps
<1>13. ASSUME NEW w \in Workers, NEW n \in 1 .. MAXBUF, Relay(w, n) PROVE IInv'
  BY <1>13, RelayKeeps
<1>14. ASSUME NEW w \in Workers, Put(w) PROVE IInv' BY <1>14, PutKeeps
<1>15. ASSUME NEW w \in Workers, Evict(w) PROVE IInv' BY <1>15, EvictKeeps
<1>16. ASSUME NEW w \in Workers, Insert(w) PROVE IInv' BY <1>16, InsertKeeps
<1> QED
  BY <1>1, <1>2, <1>3, <1>4, <1>5, <1>6, <1>7, <1>8, <1>9, <1>10, <1>11, <1>12, <1>13,
     <1>14, <1>15, <1>16
  DEF Next

(* Every state the proxy reaches satisfies the inductive invariant. *)
THEOREM CacheInvariant == Spec => []IInv
<1>1. Init => IInv BY InitIInv
<1>2. IInv /\ [Next]_vars => IInv' BY NextIInv
<1> QED BY <1>1, <1>2, PTL DEF Spec

(* The sizes in the list add up to cache_size, which never exceeds MAX_CACHE_SIZE *)
(* (cache_put, cache_evict_lru).                                                  *)
THEOREM BudgetKeptCorrect == Spec => []BudgetKept
<1>1. IInv => BudgetKept
  <2> SUFFICES ASSUME IInv PROVE BudgetKept OBVIOUS
  <2>1. Listed = DOMAIN heap BY ListedIsHeap DEF IInv, Cached
  <2>2. cache_size = Weight(heap, Listed) BY <2>1 DEF IInv, Cached
  <2>3. \A a \in DOMAIN heap : heap[a].size \in 1 .. MAX_OBJECT_SIZE
    <3> SUFFICES ASSUME NEW a \in DOMAIN heap PROVE heap[a].size \in 1 .. MAX_OBJECT_SIZE
      OBVIOUS
    <3>1. heap[a] \in Object BY DEF IInv, TypeOK
    <3> QED BY <3>1 DEF Object
  <2>4. cache_size <= MAX_CACHE_SIZE BY DEF IInv, Cached
  <2>5. cache_size = MapThenSumSet(LAMBDA a : heap[a].size, Listed) BY <2>2 DEF Weight
  <2> QED BY <2>1, <2>3, <2>4, <2>5 DEF BudgetKept
<1> QED BY <1>1, CacheInvariant, PTL

(* No key is in the list twice, whoever misses it at the same time (cache_put). *)
THEOREM OneObjectPerKeyCorrect == Spec => []OneObjectPerKey
<1>1. IInv => OneObjectPerKey BY ListedIsHeap DEF IInv, Cached, OneObjectPerKey
<1> QED BY <1>1, CacheInvariant, PTL

(* No worker has a pointer to freed memory, and no object is leaked (cache_get, *)
(* cache_evict_lru).                                                            *)
THEOREM NoDanglingCorrect == Spec => []NoDangling
<1>1. IInv => NoDangling
  <2> SUFFICES ASSUME IInv PROVE NoDangling OBVIOUS
  <2>1. Listed = DOMAIN heap BY ListedIsHeap DEF IInv, Cached
  <2>2. \A w \in Workers : worker[w].ptr # NULL => worker[w].ptr \in DOMAIN heap
    BY DEF IInv, Located
  <2> QED BY <2>1, <2>2 DEF NoDangling
<1> QED BY <1>1, CacheInvariant, PTL

(* What a worker sends and what the cache stores came from the origin asked for *)
(* (cache_get, doit).                                                           *)
THEOREM HitsAreResponsesCorrect == Spec => []HitsAreResponses
<1>1. IInv => HitsAreResponses
  <2> SUFFICES ASSUME IInv PROVE HitsAreResponses OBVIOUS
  <2>1. Listed = DOMAIN heap BY ListedIsHeap DEF IInv, Cached
  <2>2. \A w \in Workers : worker[w].size > 0 => worker[w].from = worker[w].key
    BY DEF IInv, Located
  <2> QED BY <2>1, <2>2 DEF HitsAreResponses, IInv, Cached
<1> QED BY <1>1, CacheInvariant, PTL

(* cache_lock is held only inside cache_get and cache_put, never over network I/O. *)
THEOREM NoLockOverIOCorrect == Spec => []NoLockOverIO
<1>1. IInv => NoLockOverIO BY DEF IInv, Locked, NoLockOverIO
<1> QED BY <1>1, CacheInvariant, PTL

-----------------------------------------------------------------------------
(* The cache as a sequence by recency *)

\* q lists the n objects of heap h from the most to the least recently used.
Recency(h, n, q) ==
    /\ n \in Nat /\ q \in [1 .. n -> DOMAIN h]
    /\ \A a \in DOMAIN h : h[a].recent \in Nat /\ \E i \in 1 .. n : q[i] = a
    /\ \A i, j \in 1 .. n : i < j => h[q[i]].recent > h[q[j]].recent

Ordered(h) == \E n \in Nat : \E q \in [1 .. n -> DOMAIN h] : Recency(h, n, q)

\* What the abstract cache holds for the object a.
Entry(h, a) == [key |-> h[a].key, size |-> h[a].size]

Entries(h, n, q) == [i \in 1 .. n |-> Entry(h, q[i])]

\* ByRecency for a heap h whose list is D.
Latest(h, D) ==
    [i \in 1 .. Cardinality(D) |->
        LET a == CHOOSE b \in D : Cardinality({c \in D : h[c].recent > h[b].recent}) = i - 1
        IN  [key |-> h[a].key, size |-> h[a].size]]

\* The inductive invariant of the refinement.
LInv == IInv /\ Ordered(heap)

(* An injection from the first m positions counts what it reaches. *)
LEMMA Counted ==
  ASSUME NEW m \in Nat, NEW S, NEW f \in [1 .. m -> S],
         \A i, j \in 1 .. m : f[i] = f[j] => i = j,
         \A a \in S : \E i \in 1 .. m : f[i] = a
  PROVE  Cardinality(S) = m
<1>1. f \in Bijection(1 .. m, S) BY DEF Bijection, Injection, Surjection, IsInjective
<1>2. ExistsBijection(1 .. m, S) BY <1>1 DEF ExistsBijection
<1> QED BY <1>2, FS_CountingElements

LEMMA OrderedBy == ASSUME NEW h, NEW n, NEW q, Recency(h, n, q) PROVE Ordered(h)
<1>1. n \in Nat /\ q \in [1 .. n -> DOMAIN h] BY DEF Recency
<1> QED BY <1>1 DEF Ordered

(* The sequence that ByRecency builds is any enumeration by recency. *)
LEMMA LatestIs ==
  ASSUME NEW h, NEW n, NEW q, Recency(h, n, q)
  PROVE  Latest(h, DOMAIN h) = Entries(h, n, q)
<1>a. n \in Nat /\ q \in [1 .. n -> DOMAIN h] BY DEF Recency
<1> USE <1>a
<1> DEFINE D == DOMAIN h
           above(b) == {c \in D : h[c].recent > h[b].recent}
<1>1. ASSUME NEW i \in 1 .. n PROVE q[i] \in D /\ h[q[i]].recent \in Nat
  BY DEF Recency
<1>2. ASSUME NEW i \in 1 .. n, NEW j \in 1 .. n
      PROVE  (h[q[i]].recent > h[q[j]].recent) <=> i < j
  <2>1. i < j => h[q[i]].recent > h[q[j]].recent BY DEF Recency
  <2>2. j < i => h[q[j]].recent > h[q[i]].recent BY DEF Recency
  <2>3. h[q[i]].recent \in Nat /\ h[q[j]].recent \in Nat BY <1>1
  <2>4. i = j => h[q[i]].recent = h[q[j]].recent OBVIOUS
  <2> QED BY <2>1, <2>2, <2>3, <2>4
<1>3. \A i, j \in 1 .. n : q[i] = q[j] => i = j
  <2> SUFFICES ASSUME NEW i \in 1 .. n, NEW j \in 1 .. n, q[i] = q[j] PROVE i = j OBVIOUS
  <2>1. ~ h[q[i]].recent > h[q[j]].recent /\ ~ h[q[j]].recent > h[q[i]].recent BY <1>1
  <2> QED BY <1>2, <2>1
<1>4. \A a \in D : \E i \in 1 .. n : q[i] = a BY DEF Recency
<1>5. Cardinality(D) = n BY <1>3, <1>4, Counted
<1>6. ASSUME NEW i \in 1 .. n PROVE Cardinality(above(q[i])) = i - 1
  <2> DEFINE f == [j \in 1 .. i - 1 |-> q[j]]
  <2>1. f \in [1 .. i - 1 -> above(q[i])]
    <3>1. ASSUME NEW j \in 1 .. i - 1 PROVE q[j] \in above(q[i])
      <4>1. j \in 1 .. n /\ j < i OBVIOUS
      <4>2. h[q[j]].recent > h[q[i]].recent BY <1>2, <4>1
      <4> QED BY <4>1, <4>2, <1>1
    <3> QED BY <3>1
  <2>2. \A j, k \in 1 .. i - 1 : f[j] = f[k] => j = k BY <1>3
  <2>3. \A a \in above(q[i]) : \E j \in 1 .. i - 1 : f[j] = a
    <3> SUFFICES ASSUME NEW a \in D, h[a].recent > h[q[i]].recent
                 PROVE  \E j \in 1 .. i - 1 : f[j] = a
      OBVIOUS
    <3>1. PICK j \in 1 .. n : q[j] = a BY <1>4
    <3>2. j < i BY <1>2, <3>1
    <3>3. j \in 1 .. i - 1 BY <3>2
    <3> QED BY <3>1, <3>3
  <2>4. i - 1 \in Nat OBVIOUS
  <2> HIDE DEF above, f
  <2> QED BY <2>1, <2>2, <2>3, <2>4, Counted
<1>7. ASSUME NEW i \in 1 .. n
      PROVE  (CHOOSE b \in D : Cardinality(above(b)) = i - 1) = q[i]
  <2>1. ASSUME NEW b \in D, Cardinality(above(b)) = i - 1 PROVE b = q[i]
    <3>1. PICK j \in 1 .. n : q[j] = b BY <1>4
    <3>2. Cardinality(above(b)) = j - 1
      <4>1. Cardinality(above(q[j])) = j - 1
        <5> HIDE DEF above
        <5> QED BY <1>6
      <4> QED BY <3>1, <4>1
    <3>3. j = i BY <2>1, <3>2
    <3> QED BY <3>1, <3>3
  <2>2. q[i] \in D /\ Cardinality(above(q[i])) = i - 1
    <3> HIDE DEF above
    <3> QED BY <1>1, <1>6
  <2> HIDE DEF above
  <2> QED BY <2>1, <2>2
<1>8. ASSUME NEW i \in 1 .. n
      PROVE  Latest(h, D)[i] = Entry(h, q[i])
  BY <1>5, <1>7 DEF Latest, Entry
<1>9. Latest(h, D) = [i \in 1 .. n |-> Latest(h, D)[i]] BY <1>5 DEF Latest
<1> HIDE DEF D
<1>10. Latest(h, D) = Entries(h, n, q) BY <1>8, <1>9 DEF Entries
<1> QED BY <1>10 DEF D

-----------------------------------------------------------------------------
(* The sequence after a use, an eviction and an insertion *)

\* What a step does to the abstract sequence s.
Moved(s, m) == <<s[m]>> \o (SubSeq(s, 1, m - 1) \o SubSeq(s, m + 1, Len(s)))
Shortened(s) == SubSeq(s, 1, Len(s) - 1)
Pushed(e, s) == <<e>> \o s

(* The m-th of a sequence, moved to its front. *)
LEMMA MovedToFront ==
  ASSUME NEW S, NEW s \in Seq(S), NEW m \in 1 .. Len(s)
  PROVE  /\ Moved(s, m) \in Seq(S) /\ Len(Moved(s, m)) = Len(s)
         /\ \A i \in 1 .. Len(s) :
              Moved(s, m)[i] = s[IF i = 1 THEN m ELSE IF i <= m THEN i - 1 ELSE i]
<1> DEFINE a == SubSeq(s, 1, m - 1)
           b == SubSeq(s, m + 1, Len(s))
           n == Len(s)
<1>1. n \in Nat /\ m \in Nat /\ s[m] \in S OBVIOUS
<1>2. a \in Seq(S) /\ Len(a) = m - 1 /\ \A i \in 1 .. m - 1 : a[i] = s[i] OBVIOUS
<1>3. b \in Seq(S) /\ Len(b) = n - m /\ \A i \in 1 .. n - m : b[i] = s[m + i] OBVIOUS
<1> HIDE DEF a, b
<1> DEFINE c == a \o b
<1>4. /\ c \in Seq(S) /\ Len(c) = n - 1
      /\ \A i \in 1 .. m - 1 : c[i] = a[i]
      /\ \A i \in 1 .. n - m : c[m - 1 + i] = b[i]
  <2> HIDE DEF n
  <2>0. n \in Nat /\ m \in 1 .. n BY <1>1 DEF n
  <2>1. c \in Seq(S) /\ Len(c) = Len(a) + Len(b)
    <3>1. a \in Seq(S) /\ b \in Seq(S) BY <1>2, <1>3
    <3>2. a \o b \in Seq(S) BY ONLY <3>1
    <3>3. Len(a \o b) = Len(a) + Len(b) BY ONLY <3>1
    <3> QED BY <3>2, <3>3
  <2>2. ASSUME NEW i \in 1 .. m - 1 PROVE c[i] = a[i]
    <3>1. i \in 1 .. Len(a) BY <1>2
    <3> QED BY ONLY <1>2, <1>3, <3>1
  <2>3. ASSUME NEW i \in 1 .. n - m PROVE c[m - 1 + i] = b[i]
    <3>1. i \in 1 .. Len(b) BY <1>3
    <3>2. c[Len(a) + i] = b[i] BY ONLY <1>2, <1>3, <3>1
    <3> QED BY <1>2, <3>2
  <2>4. Len(c) = n - 1 BY <1>2, <1>3, <2>0, <2>1
  <2> QED BY <2>1, <2>2, <2>3, <2>4
<1> HIDE DEF c
<1>5. <<s[m]>> \o c \in Seq(S) /\ Len(<<s[m]>> \o c) = n /\ (<<s[m]>> \o c)[1] = s[m]
      /\ \A i \in 1 .. n - 1 : (<<s[m]>> \o c)[i + 1] = c[i]
  BY <1>1, <1>4
<1> DEFINE u == <<s[m]>> \o c
<1> HIDE DEF u, n
<1>6. ASSUME NEW i \in 1 .. n
      PROVE  u[i] = s[IF i = 1 THEN m ELSE IF i <= m THEN i - 1 ELSE i]
  <2>1. CASE i = 1 BY <1>5, <2>1 DEF u
  <2>2. CASE i # 1 /\ i <= m
    <3>1. i - 1 \in 1 .. n - 1 /\ i - 1 \in 1 .. m - 1 /\ (i - 1) + 1 = i BY <1>1, <2>2 DEF n
    <3>2. u[i] = c[i - 1] BY <1>5, <3>1 DEF u
    <3> QED BY <1>2, <1>4, <2>2, <3>1, <3>2
  <2>3. CASE i # 1 /\ ~ i <= m
    <3>1. i - 1 \in 1 .. n - 1 /\ (i - 1) + 1 = i BY <1>1, <2>3
    <3>2. i - m \in 1 .. n - m /\ m - 1 + (i - m) = i - 1 /\ m + (i - m) = i BY <1>1, <2>3
    <3>3. u[i] = c[i - 1] BY <1>5, <3>1 DEF u
    <3>4. c[i - 1] = b[i - m] BY <1>4, <3>2
    <3> QED BY <1>3, <2>3, <3>2, <3>3, <3>4
  <2> QED BY <2>1, <2>2, <2>3
<1> QED BY <1>5, <1>6 DEF u, c, a, b, n, Moved

\* h becomes g by giving the object a a timestamp later than all others.
Stamps(h, g, a, t) ==
    /\ a \in DOMAIN h /\ DOMAIN g = DOMAIN h
    /\ g[a].recent = t /\ t \in Nat
    /\ \A b \in DOMAIN h : /\ h[b].recent < t
                           /\ Entry(g, b) = Entry(h, b)
                           /\ b # a => g[b].recent = h[b].recent

(* The object used becomes the first of the sequence. *)
LEMMA RecencyUse ==
  ASSUME NEW h, NEW n, NEW q, Recency(h, n, q),
         NEW g, NEW t, NEW a, Stamps(h, g, a, t)
  PROVE  \E m \in 1 .. n :
           q[m] = a /\ \E r : Recency(g, n, r) /\ Entries(g, n, r) = Moved(Entries(h, n, q), m)
<1>a. n \in Nat /\ q \in [1 .. n -> DOMAIN h] BY DEF Recency
<1> USE <1>a
<1>b. PICK m \in 1 .. n : q[m] = a BY DEF Recency, Stamps
<1>c. Stamps(h, g, q[m], t) BY <1>b
<1> USE <1>c
<1> DEFINE at(i) == IF i = 1 THEN m ELSE IF i <= m THEN i - 1 ELSE i
           r == [i \in 1 .. n |-> q[at(i)]]
           s == Entries(h, n, q)
<1>1. ASSUME NEW i \in 1 .. n PROVE at(i) \in 1 .. n /\ r[i] = q[at(i)] /\ r[i] \in DOMAIN g
  <2>1. at(i) \in 1 .. n OBVIOUS
  <2>2. r[i] = q[at(i)] OBVIOUS
  <2> HIDE DEF at, r
  <2> QED BY <2>1, <2>2 DEF Stamps
<1>2. r \in [1 .. n -> DOMAIN g]
  <2>1. r = [i \in 1 .. n |-> r[i]] OBVIOUS
  <2> HIDE DEF r
  <2> QED BY <1>1, <2>1
<1>3. ASSUME NEW i \in 1 .. n, NEW j \in 1 .. n, q[i] = q[j] PROVE i = j
  <2>1. h[q[i]].recent \in Nat BY DEF Recency
  <2>2. ~ i < j /\ ~ j < i BY <1>3, <2>1 DEF Recency
  <2> QED BY <2>2
<1>4. Recency(g, n, r)
  <2>1. ASSUME NEW b \in DOMAIN g PROVE g[b].recent \in Nat
    BY DEF Stamps, Recency
  <2>2. ASSUME NEW b \in DOMAIN g PROVE \E i \in 1 .. n : r[i] = b
    <3>1. PICK j \in 1 .. n : q[j] = b BY DEF Stamps, Recency
    <3> DEFINE i == IF j = m THEN 1 ELSE IF j < m THEN j + 1 ELSE j
    <3>2. i \in 1 .. n /\ at(i) = j OBVIOUS
    <3> HIDE DEF i, at, r
    <3> QED BY <1>1, <3>1, <3>2
  <2>3. ASSUME NEW i \in 1 .. n, NEW j \in 1 .. n, i < j PROVE g[r[i]].recent > g[r[j]].recent
    <3>1. at(j) # m /\ at(j) \in 1 .. n BY <2>3
    <3>2. q[at(j)] # q[m] BY <1>3, <3>1
    <3>3. g[r[j]].recent = h[q[at(j)]].recent /\ h[q[at(j)]].recent < t /\ t \in Nat
          /\ h[q[at(j)]].recent \in Nat
      <4> HIDE DEF at, r
      <4> QED BY <1>1, <3>1, <3>2 DEF Stamps, Recency
    <3>4. CASE i = 1
      <4>1. r[i] = q[m] BY <3>4
      <4>2. g[r[i]].recent = t BY <4>1 DEF Stamps
      <4> QED BY <3>3, <4>2
    <3>5. CASE i # 1
      <4>1. at(i) # m /\ at(i) \in 1 .. n /\ at(i) < at(j) BY <2>3, <3>5
      <4>2. q[at(i)] # q[m] BY <1>3, <4>1
      <4>3. g[r[i]].recent = h[q[at(i)]].recent
        <5> HIDE DEF at, r
        <5> QED BY <1>1, <4>1, <4>2 DEF Stamps
      <4>4. h[q[at(i)]].recent > h[q[at(j)]].recent
        <5> HIDE DEF at
        <5> QED BY <3>1, <4>1 DEF Recency
      <4> QED BY <3>3, <4>3, <4>4
    <3> QED BY <3>4, <3>5
  <2> HIDE DEF r
  <2> QED BY <1>2, <2>1, <2>2, <2>3 DEF Recency
<1>5. Entries(g, n, r) = Moved(s, m)
  <2> DEFINE u == Moved(s, m)
  <2>1. s \in Seq({Entry(h, q[i]) : i \in 1 .. n}) /\ Len(s) = n BY DEF Entries
  <2>2. \A i \in 1 .. n : s[i] = Entry(h, q[i]) BY DEF Entries
  <2>3. Len(u) = n /\ \A i \in 1 .. n : u[i] = s[at(i)]
    <3>1. PICK S : S = {Entry(h, q[i]) : i \in 1 .. n} OBVIOUS
    <3>2. s \in Seq(S) /\ m \in 1 .. Len(s) /\ Len(s) = n BY <2>1, <3>1
    <3> HIDE DEF s
    <3> QED BY ONLY <3>2, MovedToFront
  <2>4. u = [i \in 1 .. n |-> u[i]]
    <3>1. u \in Seq({Entry(h, q[i]) : i \in 1 .. n})
      <4>1. s \in Seq({Entry(h, q[i]) : i \in 1 .. n}) /\ m \in 1 .. Len(s) BY <2>1
      <4> HIDE DEF s
      <4> QED BY <4>1, MovedToFront
    <3> HIDE DEF u
    <3> QED BY <2>3, <3>1
  <2>5. ASSUME NEW i \in 1 .. n PROVE Entry(g, r[i]) = u[i]
    <3>1. u[i] = Entry(h, r[i])
      <4> HIDE DEF u, s, at, r
      <4> QED BY <1>1, <2>2, <2>3
    <3>2. r[i] \in DOMAIN h
      <4> HIDE DEF r
      <4> QED BY <1>1 DEF Stamps
    <3> HIDE DEF u, s, at, r
    <3> QED BY <3>1, <3>2 DEF Stamps
  <2>6. Entries(g, n, r) = [i \in 1 .. n |-> Entry(g, r[i])] BY DEF Entries
  <2> HIDE DEF u, r, s
  <2>7. Entries(g, n, r) = u BY <2>4, <2>5, <2>6
  <2> QED BY <2>7 DEF u
<1> HIDE DEF r
<1> QED BY <1>b, <1>4, <1>5

\* h becomes g by losing its oldest object a.
Drops(h, g, a) ==
    /\ a \in DOMAIN h /\ \A b \in DOMAIN h : h[a].recent <= h[b].recent
    /\ DOMAIN g = DOMAIN h \ {a}
    /\ \A b \in DOMAIN g : g[b].recent = h[b].recent /\ Entry(g, b) = Entry(h, b)

(* Without its last object, the sequence is its front. *)
LEMMA RecencyEvict ==
  ASSUME NEW h, NEW n, NEW q, Recency(h, n, q),
         NEW g, NEW a, Drops(h, g, a)
  PROVE  /\ n - 1 \in Nat
         /\ \E r :
              /\ Recency(g, n - 1, r)
              /\ Entries(g, n - 1, r) = Shortened(Entries(h, n, q))
<1>a. n \in Nat /\ q \in [1 .. n -> DOMAIN h] BY DEF Recency
<1> USE <1>a
<1> DEFINE r == [i \in 1 .. n - 1 |-> q[i]]
           s == Entries(h, n, q)
<1>0. /\ a \in DOMAIN h /\ \A b \in DOMAIN h : h[a].recent <= h[b].recent
      /\ DOMAIN g = DOMAIN h \ {a}
      /\ \A b \in DOMAIN g : g[b].recent = h[b].recent /\ Entry(g, b) = Entry(h, b)
  BY DEF Drops
<1>1. PICK m \in 1 .. n : q[m] = a BY <1>0 DEF Recency
<1>2. m = n
  <2> SUFFICES ASSUME m < n PROVE FALSE OBVIOUS
  <2>1. n \in 1 .. n OBVIOUS
  <2>2. h[q[m]].recent > h[q[n]].recent BY <2>1 DEF Recency
  <2>3. h[q[n]].recent \in Nat /\ h[q[m]].recent \in Nat BY <2>1 DEF Recency
  <2>4. h[q[m]].recent <= h[q[n]].recent BY <1>0, <1>1, <2>1
  <2> QED BY <2>2, <2>3, <2>4
<1>3. n - 1 \in Nat /\ q[n] = a BY <1>1, <1>2
<1>4. ASSUME NEW i \in 1 .. n - 1 PROVE i \in 1 .. n /\ r[i] = q[i] /\ q[i] \in DOMAIN g
  <2>1. i \in 1 .. n /\ i < n /\ n \in 1 .. n BY <1>3
  <2>2. h[q[i]].recent > h[q[n]].recent BY <2>1 DEF Recency
  <2>3. h[q[n]].recent \in Nat BY <2>1 DEF Recency
  <2>4. q[i] # a BY <1>3, <2>2, <2>3
  <2> QED BY <1>0, <2>1, <2>4
<1>5. r \in [1 .. n - 1 -> DOMAIN g] BY <1>4
<1>6. Recency(g, n - 1, r)
  <2>1. ASSUME NEW b \in DOMAIN g
        PROVE  g[b].recent \in Nat /\ \E i \in 1 .. n - 1 : r[i] = b
    <3>1. PICK i \in 1 .. n : q[i] = b BY <1>0 DEF Recency
    <3>2. i \in 1 .. n - 1 BY <1>0, <1>3, <3>1
    <3>3. r[i] = b BY <3>1, <3>2
    <3>4. h[b].recent \in Nat BY <1>0 DEF Recency
    <3> HIDE DEF r
    <3> QED BY <1>0, <3>2, <3>3, <3>4
  <2>2. ASSUME NEW i \in 1 .. n - 1, NEW j \in 1 .. n - 1, i < j
        PROVE  g[r[i]].recent > g[r[j]].recent
    <3>1. h[q[i]].recent > h[q[j]].recent BY <1>4, <2>2 DEF Recency
    <3> HIDE DEF r
    <3> QED BY <1>0, <1>4, <3>1
  <2> HIDE DEF r
  <2> QED BY <1>5, <2>1, <2>2 DEF Recency
<1>7. Entries(g, n - 1, r) = Shortened(s)
  <2>1. s \in Seq({Entry(h, q[i]) : i \in 1 .. n}) /\ Len(s) = n BY DEF Entries
  <2>2. \A i \in 1 .. n : s[i] = Entry(h, q[i]) BY DEF Entries
  <2>3. SubSeq(s, 1, Len(s) - 1) = [i \in 1 .. n - 1 |-> s[i]]
    <3> HIDE DEF s
    <3> QED BY <1>3, <2>1
  <2>4. ASSUME NEW i \in 1 .. n - 1 PROVE s[i] = Entry(g, r[i])
    <3> HIDE DEF s, r
    <3> QED BY <1>0, <1>4, <2>2
  <2> HIDE DEF s, r
  <2> QED BY <2>3, <2>4 DEF Entries, Shortened
<1> HIDE DEF r
<1> QED BY <1>3, <1>5, <1>6, <1>7

\* h becomes g by gaining the object a, with a timestamp later than all others.
Gains(h, g, a) ==
    /\ a \notin DOMAIN h /\ DOMAIN g = DOMAIN h \cup {a}
    /\ g[a].recent \in Nat /\ \A b \in DOMAIN h : h[b].recent < g[a].recent
    /\ \A b \in DOMAIN h : g[b].recent = h[b].recent /\ Entry(g, b) = Entry(h, b)

(* A new object is the first of the sequence. *)
LEMMA RecencyInsert ==
  ASSUME NEW h, NEW n, NEW q, Recency(h, n, q),
         NEW g, NEW a, Gains(h, g, a)
  PROVE  /\ n + 1 \in Nat
         /\ \E r :
              /\ Recency(g, n + 1, r)
              /\ Entries(g, n + 1, r) = Pushed(Entry(g, a), Entries(h, n, q))
<1>a. n \in Nat /\ q \in [1 .. n -> DOMAIN h] BY DEF Recency
<1> USE <1>a
<1> DEFINE r == [i \in 1 .. n + 1 |-> IF i = 1 THEN a ELSE q[i - 1]]
           s == Entries(h, n, q)
<1>0. /\ a \notin DOMAIN h /\ DOMAIN g = DOMAIN h \cup {a}
      /\ g[a].recent \in Nat /\ \A b \in DOMAIN h : h[b].recent < g[a].recent
      /\ \A b \in DOMAIN h : g[b].recent = h[b].recent /\ Entry(g, b) = Entry(h, b)
  BY DEF Gains
<1>1. 1 \in 1 .. n + 1 /\ r[1] = a OBVIOUS
<1>2. ASSUME NEW i \in 1 .. n + 1, i # 1
      PROVE  i - 1 \in 1 .. n /\ r[i] = q[i - 1] /\ q[i - 1] \in DOMAIN h
  BY <1>2
<1>3. r \in [1 .. n + 1 -> DOMAIN g]
  <2>1. r = [i \in 1 .. n + 1 |-> r[i]] OBVIOUS
  <2> HIDE DEF r
  <2> QED BY <1>0, <1>1, <1>2, <2>1
<1>4. Recency(g, n + 1, r)
  <2>1. ASSUME NEW b \in DOMAIN g
        PROVE  g[b].recent \in Nat /\ \E i \in 1 .. n + 1 : r[i] = b
    <3>1. CASE b = a
      <4> HIDE DEF r
      <4> QED BY <1>0, <1>1, <3>1
    <3>2. CASE b # a
      <4>1. PICK i \in 1 .. n : q[i] = b BY <1>0, <3>2 DEF Recency
      <4>2. i + 1 \in 1 .. n + 1 /\ i + 1 # 1 /\ (i + 1) - 1 = i OBVIOUS
      <4>3. r[i + 1] = b BY <4>1, <4>2
      <4>4. h[b].recent \in Nat BY <1>0, <3>2 DEF Recency
      <4> HIDE DEF r
      <4> QED BY <1>0, <3>2, <4>2, <4>3, <4>4
    <3> QED BY <3>1, <3>2
  <2>2. ASSUME NEW i \in 1 .. n + 1, NEW j \in 1 .. n + 1, i < j
        PROVE  g[r[i]].recent > g[r[j]].recent
    <3>1. j - 1 \in 1 .. n /\ r[j] = q[j - 1] /\ q[j - 1] \in DOMAIN h BY <2>2
    <3>2. CASE i = 1
      <4>0. r[i] = a BY <1>1, <3>2
      <4>1. h[q[j - 1]].recent \in Nat BY <3>1 DEF Recency
      <4> HIDE DEF r
      <4> QED BY <1>0, <3>1, <4>0, <4>1
    <3>3. CASE i # 1
      <4>1. i - 1 \in 1 .. n /\ r[i] = q[i - 1] /\ q[i - 1] \in DOMAIN h BY <1>2, <3>3
      <4>2. i - 1 < j - 1 BY <2>2
      <4>3. h[q[i - 1]].recent > h[q[j - 1]].recent BY <3>1, <4>1, <4>2 DEF Recency
      <4> HIDE DEF r
      <4> QED BY <1>0, <3>1, <4>1, <4>3
    <3> QED BY <3>2, <3>3
  <2> HIDE DEF r
  <2> QED BY <1>3, <2>1, <2>2 DEF Recency
<1>5. Entries(g, n + 1, r) = Pushed(Entry(g, a), s)
  <2>1. s \in Seq({Entry(h, q[i]) : i \in 1 .. n}) /\ Len(s) = n BY DEF Entries
  <2>2. \A i \in 1 .. n : s[i] = Entry(h, q[i]) BY DEF Entries
  <2> DEFINE u == <<Entry(g, a)>> \o s
  <2>3. u = [i \in 1 .. n + 1 |-> IF i = 1 THEN Entry(g, a) ELSE s[i - 1]]
    <3> HIDE DEF s
    <3> QED BY <2>1
  <2>4. ASSUME NEW i \in 1 .. n + 1
        PROVE  Entry(g, r[i]) = IF i = 1 THEN Entry(g, a) ELSE s[i - 1]
    <3>1. CASE i = 1
      <4> HIDE DEF r, s
      <4> QED BY <1>1, <3>1
    <3>2. CASE i # 1
      <4> HIDE DEF r, s
      <4> QED BY <1>0, <1>2, <2>2, <3>2
    <3> QED BY <3>1, <3>2
  <2> HIDE DEF u, s, r
  <2>5. Entries(g, n + 1, r) = [i \in 1 .. n + 1 |-> Entry(g, r[i])] BY DEF Entries
  <2> QED BY <2>3, <2>4, <2>5 DEF u, Pushed
<1> HIDE DEF r
<1> QED BY <1>3, <1>4, <1>5

-----------------------------------------------------------------------------
(* Each step of the cache as a step of the abstract one *)

(* The list is the heap, and so the abstract cache is what any enumeration of the *)
(* heap by recency lists.                                                         *)
ListIsHeap == Listed = DOMAIN heap

LEMMA HeapListed == IInv => ListIsHeap
BY ListedIsHeap DEF IInv, Cached, ListIsHeap

LEMMA HeapListedNext == IInv' => ListIsHeap'
BY HeapListed, PTL

LEMMA ByRecencyIs ==
  ASSUME IInv, NEW n, NEW q, Recency(heap, n, q)
  PROVE  ByRecency = Entries(heap, n, q)
<1>1. ByRecency = Latest(heap, Listed) BY DEF ByRecency, Latest
<1>2. Listed = DOMAIN heap BY HeapListed DEF ListIsHeap
<1> QED BY <1>1, <1>2, LatestIs

LEMMA ByRecencyNext ==
  ASSUME IInv', NEW n, NEW q, Recency(heap', n, q)
  PROVE  ByRecency' = Entries(heap', n, q)
<1>1. ByRecency' = Latest(heap', Listed') BY DEF ByRecency, Latest
<1>2. Listed' = DOMAIN heap' BY HeapListedNext DEF ListIsHeap
<1> QED BY <1>1, <1>2, LatestIs

(* The abstract total of the sequence is the sum of the sizes in the heap. *)
LEMMA TotalIsWeight == ASSUME NEW s PROVE Lru!Total(s) = Weight(s, DOMAIN s)
<1>1. Weight(s, DOMAIN s) = (CHOOSE W : IsSum(W, s, DOMAIN s))[DOMAIN s] BY WeightDef
<1>2. Lru!Total(s) = (CHOOSE W : IsSum(W, s, DOMAIN s))[DOMAIN s]
  BY DEF IsSum, Lru!Total, Lru!FoldSeq, Lru!FoldFunction, Lru!FoldFunctionOnSet,
         Lru!MapThenFoldSet
<1> QED BY <1>1, <1>2

LEMMA TotalOfEntries ==
  ASSUME NEW h, NEW n, NEW q, Recency(h, n, q),
         \A a \in DOMAIN h : h[a].size \in Nat
  PROVE  Lru!Total(Entries(h, n, q)) = Weight(h, DOMAIN h)
<1>a. n \in Nat /\ q \in [1 .. n -> DOMAIN h] BY DEF Recency
<1> USE <1>a
<1> DEFINE s == Entries(h, n, q)
           first(k) == {q[i] : i \in 1 .. k}
           T == {k \in Nat : k <= n => /\ Weight(s, 1 .. k) = Weight(h, first(k))
                                       /\ IsFiniteSet(first(k))}
<1>1. ASSUME NEW i \in 1 .. n PROVE s[i].size = h[q[i]].size /\ h[q[i]].size \in Nat
  BY DEF Entries, Entry
<1>2. DOMAIN s = 1 .. n BY DEF Entries
<1>3. ASSUME NEW i \in 1 .. n, NEW j \in 1 .. n, i < j PROVE q[i] # q[j]
  <2>1. h[q[i]].recent > h[q[j]].recent /\ h[q[j]].recent \in Nat BY <1>3 DEF Recency
  <2> QED BY <2>1
<1>4. 0 \in T
  <2>1. 1 .. 0 = {} /\ first(0) = {} OBVIOUS
  <2>2. Weight(s, {}) = Weight(h, {}) BY WeightEmpty
  <2>3. IsFiniteSet({}) BY FS_EmptySet
  <2> HIDE DEF s
  <2> QED BY <2>1, <2>2, <2>3
<1>5. ASSUME NEW k \in Nat, k \in T PROVE k + 1 \in T
  <2> SUFFICES ASSUME k + 1 <= n
               PROVE  /\ Weight(s, 1 .. k + 1) = Weight(h, first(k + 1))
                      /\ IsFiniteSet(first(k + 1))
    <3> HIDE DEF s, first
    <3> QED OBVIOUS
  <2>1. k <= n /\ k + 1 \in 1 .. n OBVIOUS
  <2>2. Weight(s, 1 .. k) = Weight(h, first(k)) /\ IsFiniteSet(first(k)) BY <1>5, <2>1
  <2>3. 1 .. k + 1 = (1 .. k) \cup {k + 1} /\ k + 1 \notin 1 .. k OBVIOUS
  <2>4. first(k + 1) = first(k) \cup {q[k + 1]} BY <2>3
  <2>5. q[k + 1] \notin first(k)
    <3>1. ASSUME NEW i \in 1 .. k PROVE q[i] # q[k + 1]
      <4>1. i \in 1 .. n /\ i < k + 1 BY <2>1
      <4> QED BY <1>3, <2>1, <4>1
    <3> QED BY <3>1
  <2>6. Weight(s, (1 .. k) \cup {k + 1}) = s[k + 1].size + Weight(s, 1 .. k)
    <3>1. IsFiniteSet(1 .. k) BY FS_Interval
    <3>2. \A i \in 1 .. k : s[i].size \in Nat /\ s[i].size = s[i].size
      <4> SUFFICES ASSUME NEW i \in 1 .. k PROVE s[i].size \in Nat OBVIOUS
      <4>1. i \in 1 .. n BY <2>1
      <4> HIDE DEF s
      <4> QED BY <1>1, <4>1
    <3>3. s[k + 1].size \in Nat /\ k + 1 \notin 1 .. k
      <4> HIDE DEF s
      <4> QED BY <1>1, <2>1, <2>3
    <3>4. PICK I : I = 1 .. k OBVIOUS
    <3>5. PICK j : j = k + 1 OBVIOUS
    <3>6. Weight(s, I \cup {j}) = s[j].size + Weight(s, I)
      <4>1. \A i \in I : s[i].size \in Nat /\ s[i].size = s[i].size BY <3>2, <3>4
      <4>2. s[j].size \in Nat /\ j \notin I /\ IsFiniteSet(I) BY <3>1, <3>3, <3>4, <3>5
      <4> HIDE DEF s
      <4> QED BY ONLY <4>1, <4>2, WeightAdd
    <3> HIDE DEF s
    <3> QED BY <3>4, <3>5, <3>6
  <2>7. Weight(h, first(k) \cup {q[k + 1]}) = h[q[k + 1]].size + Weight(h, first(k))
    <3>1. \A b \in first(k) : h[b].size \in Nat /\ h[b].size = h[b].size
      <4> SUFFICES ASSUME NEW i \in 1 .. k PROVE h[q[i]].size \in Nat OBVIOUS
      <4>1. i \in 1 .. n BY <2>1
      <4> QED BY <1>1, <4>1
    <3>2. h[q[k + 1]].size \in Nat BY <1>1, <2>1
    <3>3. IsFiniteSet(first(k)) BY <2>2
    <3>4. q[k + 1] \notin first(k) BY <2>5
    <3> HIDE DEF first
    <3> QED BY ONLY <3>1, <3>2, <3>3, <3>4, WeightAdd
  <2>8. IsFiniteSet(first(k) \cup {q[k + 1]})
    <3> HIDE DEF first
    <3> QED BY <2>2, FS_AddElement
  <2>9. s[k + 1].size = h[q[k + 1]].size
    <3> HIDE DEF s
    <3> QED BY <1>1, <2>1
  <2> HIDE DEF s, first
  <2> QED BY <2>2, <2>3, <2>4, <2>6, <2>7, <2>8, <2>9
<1>6. n \in T
  <2> HIDE DEF T
  <2> QED BY <1>4, <1>5, SetInduction
<1>7. first(n) = DOMAIN h
  <2>1. \A a \in DOMAIN h : \E i \in 1 .. n : q[i] = a BY DEF Recency
  <2> QED BY <2>1
<1>8. Lru!Total(s) = Weight(s, 1 .. n)
  <2> HIDE DEF s
  <2> QED BY <1>2, TotalIsWeight
<1>9. Weight(s, 1 .. n) = Weight(h, first(n))
  <2> HIDE DEF s, first
  <2> QED BY <1>6
<1> HIDE DEF s, first
<1>10. Lru!Total(s) = Weight(h, DOMAIN h) BY <1>7, <1>8, <1>9
<1> QED BY <1>10 DEF s

\* The state after a step is ordered, and the sequence is the one that the abstract
\* cache has after a step of its own, or the same.
Refines == Ordered(heap') /\ [Lru!Next]_ByRecency

LEMMA SameRefines == ASSUME LInv, IInv', heap' = heap PROVE Refines
<1>1. PICK n \in Nat : \E q \in [1 .. n -> DOMAIN heap] : Recency(heap, n, q)
  BY DEF LInv, Ordered
<1>2. PICK q \in [1 .. n -> DOMAIN heap] : Recency(heap, n, q) BY <1>1
<1>3. ByRecency = Entries(heap, n, q) BY <1>2, ByRecencyIs DEF LInv
<1>4. q \in [1 .. n -> DOMAIN heap'] /\ Recency(heap', n, q) BY <1>2
<1>5. ByRecency' = Entries(heap', n, q) BY <1>4, ByRecencyNext
<1>6. ByRecency' = ByRecency BY <1>3, <1>5
<1>7. Ordered(heap') BY <1>4, OrderedBy
<1> QED BY <1>6, <1>7 DEF Refines

LEMMA TouchedRefines == ASSUME LInv, IInv', NEW k \in Keys, Touched(k) PROVE Refines
<1>1. CASE heap' = heap BY <1>1, SameRefines
<1>2. CASE heap' # heap
  <2>1. PICK a \in Find(k) : heap' = [heap EXCEPT ![a].recent = cache_clock + 1]
    BY <1>2 DEF Touched
  <2>2. a \in DOMAIN heap /\ heap[a].key = k
    BY HeapListed DEF Find, ListIsHeap, LInv
  <2>3. /\ heap \in [DOMAIN heap -> Object] /\ cache_clock \in Nat
        /\ \A b \in DOMAIN heap : heap[b].recent \in 1 .. cache_clock
    BY DEF LInv, IInv, TypeOK, Cached, Stamped
  <2>4. Stamps(heap, heap', a, cache_clock + 1)
    <3>1. DOMAIN heap' = DOMAIN heap BY <2>1
    <3>2. heap'[a].recent = cache_clock + 1 BY <2>1, <2>2, <2>3 DEF Object
    <3>3. ASSUME NEW b \in DOMAIN heap
          PROVE  /\ heap[b].recent < cache_clock + 1
                 /\ Entry(heap', b) = Entry(heap, b)
                 /\ b # a => heap'[b].recent = heap[b].recent
      <4>1. heap[b] \in Object BY <2>3
      <4>2. heap'[b].key = heap[b].key /\ heap'[b].size = heap[b].size
        BY <2>1, <2>2, <4>1 DEF Object
      <4>3. b # a => heap'[b] = heap[b] BY <2>1
      <4>4. heap[b].recent < cache_clock + 1 BY <2>3
      <4> QED BY <4>2, <4>3, <4>4 DEF Entry
    <3> QED BY <2>2, <2>3, <3>1, <3>2, <3>3 DEF Stamps
  <2>5. PICK n \in Nat : \E q \in [1 .. n -> DOMAIN heap] : Recency(heap, n, q)
    BY DEF LInv, Ordered
  <2>6. PICK q \in [1 .. n -> DOMAIN heap] : Recency(heap, n, q) BY <2>5
  <2>8. PICK s : s = Entries(heap, n, q) OBVIOUS
  <2>7. PICK m \in 1 .. n :
          q[m] = a /\ \E r : Recency(heap', n, r) /\ Entries(heap', n, r) = Moved(s, m)
    <3>1. PICK g : g = heap' OBVIOUS
    <3>2. \E m \in 1 .. n :
            q[m] = a /\ \E r : Recency(g, n, r) /\ Entries(g, n, r) = Moved(s, m)
      <4>1. Recency(heap, n, q) /\ Stamps(heap, g, a, cache_clock + 1)
        BY <2>4, <2>6, <3>1
      <4> QED BY ONLY <2>8, <4>1, RecencyUse
    <3> QED BY <3>1, <3>2
  <2>9. PICK r : Recency(heap', n, r) /\ Entries(heap', n, r) = Moved(s, m) BY <2>7
  <2>10. ByRecency = s BY <2>6, <2>8, ByRecencyIs DEF LInv
  <2>11. ByRecency' = Entries(heap', n, r) BY <2>9, ByRecencyNext
  <2>12. m \in DOMAIN s /\ s[m].key = k BY <2>2, <2>7, <2>8 DEF Entries, Entry
  <2>13. Lru!Use(k) BY <2>9, <2>10, <2>11, <2>12 DEF Lru!Use, Lru!RemoveAt, Moved
  <2>14. Ordered(heap') BY <2>9, OrderedBy
  <2> QED BY <2>13, <2>14 DEF Refines, Lru!Next
<1> QED BY <1>1, <1>2

LEMMA EvictRefines == ASSUME LInv, IInv', NEW w \in Workers, Evict(w) PROVE Refines
<1>1. PICK a \in victim :
        heap' = [b \in DOMAIN heap \ {a} |->
                    IF heap[b].next # a THEN heap[b] ELSE [heap[b] EXCEPT !.next = heap[a].next]]
  BY DEF Evict
<1>2. a \in DOMAIN heap /\ \A b \in DOMAIN heap : heap[a].recent <= heap[b].recent
  BY HeapListed DEF victim, ListIsHeap, LInv
<1>3. DOMAIN heap' = DOMAIN heap \ {a} BY <1>1
<1>4. ASSUME NEW b \in DOMAIN heap'
      PROVE  heap'[b].recent = heap[b].recent /\ Entry(heap', b) = Entry(heap, b)
  <2>1. heap[b] \in Object BY <1>3 DEF LInv, IInv, TypeOK
  <2>2. heap'[b] = IF heap[b].next # a THEN heap[b]
                   ELSE [heap[b] EXCEPT !.next = heap[a].next]
    BY <1>1
  <2>3. /\ heap'[b].recent = heap[b].recent /\ heap'[b].key = heap[b].key
        /\ heap'[b].size = heap[b].size
    BY <2>1, <2>2 DEF Object
  <2> QED BY <2>3 DEF Entry
<1>5. PICK n \in Nat : \E q \in [1 .. n -> DOMAIN heap] : Recency(heap, n, q)
  BY DEF LInv, Ordered
<1>6. PICK q \in [1 .. n -> DOMAIN heap] : Recency(heap, n, q) BY <1>5
<1>7. PICK s : s = Entries(heap, n, q) OBVIOUS
<1>8. /\ n - 1 \in Nat
      /\ \E r :
            /\ Recency(heap', n - 1, r)
            /\ Entries(heap', n - 1, r) = Shortened(s)
  <2>1. Drops(heap, heap', a) BY <1>2, <1>3, <1>4 DEF Drops
  <2>2. PICK g : g = heap' OBVIOUS
  <2>3. /\ n - 1 \in Nat
        /\ \E r :
              /\ Recency(g, n - 1, r)
              /\ Entries(g, n - 1, r) = Shortened(s)
    <3>1. Drops(heap, g, a) /\ Recency(heap, n, q) BY <1>6, <2>1, <2>2
    <3> QED BY ONLY <1>7, <3>1, RecencyEvict
  <2> QED BY <2>2, <2>3
<1>9. PICK r :
         /\ Recency(heap', n - 1, r)
         /\ Entries(heap', n - 1, r) = Shortened(s)
  BY <1>8
<1>10. ByRecency = s BY <1>6, <1>7, ByRecencyIs DEF LInv
<1>11. ByRecency' = Shortened(s) BY <1>8, <1>9, ByRecencyNext
<1>12. s # <<>>
  <2>1. DOMAIN s = 1 .. n BY <1>7 DEF Entries
  <2>2. \E i \in 1 .. n : q[i] = a BY <1>2, <1>6 DEF Recency
  <2> QED BY <2>1, <2>2
<1>13. \E m \in 1 .. MAX_OBJECT_SIZE : Lru!Total(s) + m > MAX_CACHE_SIZE
  <2>1. worker[w] \in Frame /\ worker[w].pc = "evict" /\ Located(worker[w], heap)
    BY DEF LInv, IInv, TypeOK, Evict, At
  <2>2. worker[w].size \in 1 .. MAX_OBJECT_SIZE BY <2>1, ProxyAssumption DEF Located, Frame
  <2>3. cache_size + worker[w].size > MAX_CACHE_SIZE BY DEF Evict, TooLarge
  <2>4. \A b \in DOMAIN heap : heap[b].size \in Nat
    <3> SUFFICES ASSUME NEW b \in DOMAIN heap PROVE heap[b].size \in Nat OBVIOUS
    <3>1. heap[b] \in Object BY DEF LInv, IInv, TypeOK
    <3> QED BY <3>1, ProxyAssumption DEF Object
  <2>5. Lru!Total(s) = Weight(heap, DOMAIN heap) BY <1>6, <1>7, <2>4, TotalOfEntries
  <2>6. Lru!Total(s) = cache_size BY <2>5 DEF LInv, IInv, Cached
  <2> QED BY <2>2, <2>3, <2>6
<1>14. Lru!Evict BY <1>10, <1>11, <1>12, <1>13 DEF Lru!Evict, Lru!Front, Shortened
<1>15. Ordered(heap') BY <1>9, OrderedBy
<1> QED BY <1>14, <1>15 DEF Refines, Lru!Next

LEMMA InsertRefines == ASSUME LInv, IInv', NEW w \in Workers, Insert(w) PROVE Refines
<1>1. worker[w] \in Frame /\ worker[w].pc = "evict" /\ Located(worker[w], heap)
  BY DEF LInv, IInv, TypeOK, Insert, At
<1>2. PICK a \in Objects \ DOMAIN heap : InsertAt(w, a) BY DEF Insert
<1>3. /\ a \notin DOMAIN heap /\ DOMAIN heap' = DOMAIN heap \cup {a}
      /\ \A b \in DOMAIN heap : heap'[b] = heap[b]
  BY <1>2 DEF InsertAt
<1>4. heap'[a] = [key |-> worker[w].key, from |-> worker[w].from, size |-> worker[w].size,
                  recent |-> cache_clock + 1, next |-> cache]
  BY <1>2 DEF InsertAt
<1>5. /\ heap'[a].key = worker[w].key /\ heap'[a].size = worker[w].size
      /\ heap'[a].recent = cache_clock + 1
  BY <1>4
<1>6. /\ cache_clock \in Nat /\ cache_size \in Nat
      /\ \A b \in DOMAIN heap : heap[b].recent \in 1 .. cache_clock
  BY DEF LInv, IInv, TypeOK, Cached, Stamped
<1>7. PICK n \in Nat : \E q \in [1 .. n -> DOMAIN heap] : Recency(heap, n, q)
  BY DEF LInv, Ordered
<1>8. PICK q \in [1 .. n -> DOMAIN heap] : Recency(heap, n, q) BY <1>7
<1>9. PICK s : s = Entries(heap, n, q) OBVIOUS
<1>10. /\ n + 1 \in Nat
       /\ \E r :
            /\ Recency(heap', n + 1, r)
            /\ Entries(heap', n + 1, r) = Pushed(Entry(heap', a), s)
  <2>1. heap'[a].recent \in Nat /\ \A b \in DOMAIN heap : heap[b].recent < heap'[a].recent
    BY <1>5, <1>6
  <2>2. \A b \in DOMAIN heap : heap'[b].recent = heap[b].recent /\ Entry(heap', b) = Entry(heap, b)
    BY <1>3 DEF Entry
  <2>3. Gains(heap, heap', a) BY <1>3, <2>1, <2>2 DEF Gains
  <2>4. PICK g : g = heap' OBVIOUS
  <2>5. /\ n + 1 \in Nat
        /\ \E r :
              /\ Recency(g, n + 1, r)
              /\ Entries(g, n + 1, r) = Pushed(Entry(g, a), s)
    <3>1. Gains(heap, g, a) /\ Recency(heap, n, q) BY <1>8, <2>3, <2>4
    <3> QED BY ONLY <1>9, <3>1, RecencyInsert
  <2> QED BY <2>4, <2>5
<1>11. PICK r :
          /\ Recency(heap', n + 1, r)
          /\ Entries(heap', n + 1, r) = Pushed(Entry(heap', a), s)
  BY <1>10
<1>12. ByRecency = s BY <1>8, <1>9, ByRecencyIs DEF LInv
<1>13. ByRecency' = <<Entry(heap', a)>> \o s BY <1>10, <1>11, ByRecencyNext DEF Pushed
<1>14. /\ Entry(heap', a) = [key |-> worker[w].key, size |-> worker[w].size]
       /\ worker[w].key \in Keys /\ worker[w].size \in 1 .. MAX_OBJECT_SIZE
       /\ \A b \in DOMAIN heap : heap[b].key # worker[w].key
  BY <1>1, <1>5, ProxyAssumption DEF Entry, Located, Frame
<1>15. \A i \in DOMAIN s : s[i].key # worker[w].key
  <2>1. DOMAIN s = 1 .. n /\ \A i \in 1 .. n : s[i].key = heap[q[i]].key
    BY <1>9 DEF Entries, Entry
  <2> QED BY <1>14, <2>1
<1>16. Lru!Total(s) + worker[w].size <= MAX_CACHE_SIZE
  <2>1. \A b \in DOMAIN heap : heap[b].size \in Nat
    <3> SUFFICES ASSUME NEW b \in DOMAIN heap PROVE heap[b].size \in Nat OBVIOUS
    <3>1. heap[b] \in Object BY DEF LInv, IInv, TypeOK
    <3> QED BY <3>1, ProxyAssumption DEF Object
  <2>2. Lru!Total(s) = Weight(heap, DOMAIN heap) BY <1>8, <1>9, <2>1, TotalOfEntries
  <2>3. Lru!Total(s) = cache_size BY <2>2 DEF LInv, IInv, Cached
  <2>4. MAX_CACHE_SIZE \in Nat /\ MAX_OBJECT_SIZE \in Nat /\ MAX_OBJECT_SIZE <= MAX_CACHE_SIZE
    BY ProxyAssumption
  <2>5. CASE cache = NULL
    <3>1. Chained(heap, NULL) /\ NULL \notin DOMAIN heap
      BY <2>5, ProxyAssumption DEF LInv, IInv, TypeOK, Cached
    <3>2. DOMAIN heap = {} BY <3>1, NullHead
    <3>3. cache_size = 0 BY <2>2, <2>3, <3>2, WeightEmpty
    <3> QED BY <1>14, <2>3, <2>4, <3>3
  <2>6. CASE cache # NULL BY <1>6, <1>14, <2>3, <2>4, <2>6 DEF Insert, TooLarge
  <2> QED BY <2>5, <2>6
<1>17. Lru!Insert(Entry(heap', a))
  <2>1. ~ Lru!Cached(worker[w].key) BY <1>12, <1>15 DEF Lru!Cached
  <2>2. Entry(heap', a).key = worker[w].key /\ Entry(heap', a).size = worker[w].size BY <1>14
  <2>3. PICK e : e = Entry(heap', a) OBVIOUS
  <2>4. Lru!Insert(e)
    BY <1>12, <1>13, <1>16, <2>1, <2>2, <2>3 DEF Lru!Insert
  <2> QED BY <2>3, <2>4
<1>18. Entry(heap', a) \in Lru!Object BY <1>14 DEF Lru!Object
<1>19. Ordered(heap') BY <1>11, OrderedBy
<1> QED BY <1>17, <1>18, <1>19 DEF Refines, Lru!Next

LEMMA InitLInv == Init => LInv /\ Lru!Init
<1> SUFFICES ASSUME Init PROVE LInv /\ Lru!Init OBVIOUS
<1>1. IInv BY InitIInv
<1> DEFINE q == [i \in 1 .. 0 |-> NULL]
<1>2. q \in [1 .. 0 -> DOMAIN heap] /\ DOMAIN heap = {} BY DEF Init
<1>3. Recency(heap, 0, q) BY <1>2 DEF Recency
<1> HIDE DEF q
<1>4. 0 \in Nat /\ Ordered(heap) BY <1>2, <1>3 DEF Ordered
<1>5. ByRecency = Entries(heap, 0, q) BY <1>1, <1>2, <1>3, <1>4, ByRecencyIs
<1>6. Entries(heap, 0, q) = <<>> BY DEF Entries
<1> QED BY <1>1, <1>4, <1>5, <1>6 DEF LInv, Lru!Init

LEMMA NextRefines == LInv /\ [Next]_vars => LInv' /\ [Lru!Next]_ByRecency
<1> SUFFICES ASSUME LInv, [Next]_vars PROVE LInv' /\ [Lru!Next]_ByRecency OBVIOUS
<1>0. IInv' BY NextIInv DEF LInv
<1>1. ASSUME heap' = heap PROVE Refines BY <1>0, <1>1, SameRefines
<1>2. ASSUME NEW w \in Workers, Touch(w) PROVE Refines
  <2>1. worker[w].key \in Keys BY <1>2 DEF LInv, IInv, Located, Touch, At
  <2> QED BY <1>0, <1>2, <2>1, TouchedRefines DEF Touch
<1>3. ASSUME NEW w \in Workers, Put(w) PROVE Refines
  <2>1. worker[w].key \in Keys BY <1>3 DEF LInv, IInv, Located, Put, At
  <2>2. CASE Touched(worker[w].key) BY <1>0, <2>1, <2>2, TouchedRefines
  <2>3. CASE heap' = heap BY <1>0, <2>3, SameRefines
  <2> QED BY <1>3, <2>2, <2>3 DEF Put
<1>4. ASSUME NEW w \in Workers, Evict(w) PROVE Refines BY <1>0, <1>4, EvictRefines
<1>5. ASSUME NEW w \in Workers, Insert(w) PROVE Refines BY <1>0, <1>5, InsertRefines
<1>6. ASSUME heap' # heap PROVE Refines
  <2>1. PICK w \in Workers : Touch(w) \/ Put(w) \/ Evict(w) \/ Insert(w)
    <3>1. ~ UNCHANGED cacheVars /\ ~ UNCHANGED vars BY <1>6 DEF vars, cacheVars
    <3>2. PICK w \in Workers :
            \/ Accept(w) \/ Request(w) \/ Fails(w)
            \/ GetLock(w) \/ GetStep(w) \/ Miss(w) \/ Copy(w) \/ Touch(w) \/ Send(w)
            \/ Connect(w) \/ End(w)
            \/ \E n \in 1 .. MAXBUF : Relay(w, n)
            \/ Put(w) \/ Evict(w) \/ Insert(w)
      BY <3>1 DEF Next
    <3>3. ~ Accept(w) /\ ~ Request(w) /\ ~ Fails(w) /\ ~ GetLock(w) /\ ~ GetStep(w)
      BY <3>1 DEF Accept, Request, Fails, GetLock, GetStep
    <3>4. ~ Miss(w) /\ ~ Copy(w) /\ ~ Send(w) /\ ~ Connect(w) /\ ~ End(w)
      BY <3>1 DEF Miss, Copy, Send, Connect, End
    <3>5. ~ \E n \in 1 .. MAXBUF : Relay(w, n) BY <3>1 DEF Relay
    <3> QED BY <3>2, <3>3, <3>4, <3>5
  <2> QED BY <1>2, <1>3, <1>4, <1>5, <2>1
<1>7. Refines BY <1>1, <1>6
<1> QED BY <1>0, <1>7 DEF Refines, LInv

(* The proxy's cache is an LRU cache, whatever the interleaving of its workers        *)
(* (cache_get, cache_put, cache_evict_lru): what the list holds, in the order of the  *)
(* timestamps, changes as the abstract cache does.                                    *)
THEOREM ImplementsLruCorrect == Spec => ImplementsLru
<1>1. Init => LInv /\ Lru!Init BY InitLInv
<1>2. LInv /\ [Next]_vars => LInv' /\ [Lru!Next]_ByRecency BY NextRefines
<1> QED BY <1>1, <1>2, PTL DEF Spec, ImplementsLru, Lru!Spec

=============================================================================
