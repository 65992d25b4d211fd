------------------------------ MODULE Transpose ------------------------------
(***************************************************************************)
(* The transpose functions of cachelab-handout/trans.c and the cache they  *)
(* are measured on: test-trans.c gives the memory accesses of a function   *)
(* to the simulator, one step here for each of them.  tracegen.c holds the *)
(* matrices in two arrays of 256 x 256 ints, one behind the other and at   *)
(* the start of a block, and a function walks an N x M array A and an M x  *)
(* N array B in them.  The variables v1 .. v8 are in registers.            *)
(***************************************************************************)
EXTENDS CSim

CONSTANTS Cases,    \* the function and the dimensions of a measurement
          Garbage   \* what B holds before

VARIABLES
    fn, M, N,       \* which function, columns and rows of A; "csim" with a trace file
    i, j, k,        \* the loops over blocks, and the passes over one
    at,             \* next access of this pass
    v,              \* v1 .. v8
    B

transVars == <<fn, M, N, i, j, k, at, v, B>>

Done == i >= N

\* A[r][c]: all elements differ.
A(r, c) == r * M + c

AddressA(r, c) == 4 * (r * M + c)
AddressB(r, c) == 4 * (256 * 256 + r * N + c)

\* v_n = A[r][c], v_n = B[r][c] and B[r][c] = v_n
LoadA(n, r, c)  == [op |-> "L", array |-> "A", row |-> r, col |-> c, reg |-> n]
LoadB(n, r, c)  == [op |-> "L", array |-> "B", row |-> r, col |-> c, reg |-> n]
StoreB(r, c, n) == [op |-> "S", array |-> "B", row |-> r, col |-> c, reg |-> n]

-----------------------------------------------------------------------------
(* The passes over a block at (i, j) *)

\* Slip of Row: each element is stored as soon as it is loaded.
RowByElement ==
    [n \in 1 .. 16 |-> LET m == (n - 1) \div 2
                       IN  IF n % 2 = 1 THEN LoadA(1, i + k, j + m) ELSE StoreB(j + m, i + k, 1)]

\* transpose_submit for 32 x 32: a row of eight, loaded before any is stored.
Row == [n \in 1 .. 8 |-> LoadA(n, i + k, j + n - 1)]
       \o [n \in 1 .. 8 |-> StoreB(j + n - 1, i + k, n)]

\* transpose_submit for 64 x 64, and transpose_64.  The upper half of the block:
\* sub-block 1 goes to its place in B, 2 is parked in the place of 3.
UpperHalf ==
    [n \in 1 .. 8 |-> LoadA(n, i + k, j + n - 1)]
    \o [n \in 1 .. 8 |-> LET m == (n - 1) \div 2
                         IN  IF n % 2 = 1 THEN StoreB(j + m, i + k, m + 1)
                             ELSE StoreB(j + m, i + k + 4, m + 5)]

\* Slip of Unpark: sub-block 3 is stored before the parked row is loaded.
UnparkLate ==
    LET r == j + k - 4
    IN  [n \in 1 .. 4 |-> LoadA(n, i + 3 + n, r)]
        \o [n \in 1 .. 4 |-> StoreB(r, i + 3 + n, n)]
        \o [n \in 1 .. 4 |-> LoadB(n + 4, r, i + 3 + n)]
        \o [n \in 1 .. 4 |-> StoreB(r + 4, i + n - 1, n + 4)]

\* Sub-block 3 goes to its place, a row at a time, as what was parked there is
\* moved to its own.
Unpark ==
    LET r == j + k - 4
    IN  [n \in 1 .. 4 |-> LoadA(n, i + 3 + n, r)]
        \o [n \in 1 .. 4 |-> LoadB(n + 4, r, i + 3 + n)]
        \o [n \in 1 .. 4 |-> StoreB(r, i + 3 + n, n)]
        \o [n \in 1 .. 4 |-> StoreB(r + 4, i + n - 1, n + 4)]

\* Sub-block 4.
LowerHalf ==
    LET r == i + k - 4
    IN  [n \in 1 .. 4 |-> LoadA(n, r, j + 3 + n)] \o [n \in 1 .. 4 |-> StoreB(j + 3 + n, r, n)]

\* transpose_submit for other sizes: a row of a block of 16 x 16, as far as it is
\* in the matrix, element by element.
Tile ==
    [n \in 1 .. 2 * (IF j + 16 < M THEN 16 ELSE M - j) |->
        LET c == j + (n - 1) \div 2
        IN  IF n % 2 = 1 THEN LoadA(1, i + k, c) ELSE StoreB(c, i + k, 1)]

\* transpose_32: element by element, but the one on the diagonal is kept until the
\* end of its row.
Diagonal ==
    LET Element(m) == IF i = j /\ m = k THEN <<LoadA(8, i + k, j + m)>>
                      ELSE <<LoadA(1, i + k, j + m), StoreB(j + m, i + k, 1)>>
    IN  FlattenSeq([m \in 1 .. 8 |-> Element(m - 1)])
        \o IF i = j THEN <<StoreB(i + k, i + k, 8)>> ELSE <<>>

Submit32 == fn = "transpose_submit" /\ M = 32 /\ N = 32
Submit64 == fn = "transpose_submit" /\ M = 64 /\ N = 64

Pass == IF fn = "transpose_32" THEN Diagonal
        ELSE IF Submit32 THEN Row
        ELSE IF Submit64 THEN IF k < 4 THEN UpperHalf ELSE IF k < 8 THEN Unpark ELSE LowerHalf
        ELSE Tile

BlockSize == IF fn = "transpose_32" \/ Submit32 \/ Submit64 THEN 8 ELSE 16

Passes == IF Submit64 THEN 12
          ELSE IF i + BlockSize < N THEN BlockSize ELSE N - i

-----------------------------------------------------------------------------

TransInit ==
    /\ \E c \in Cases : fn = c.fn /\ M = c.M /\ N = c.N /\ geometry = c.geometry
    /\ address = 0
    /\ sim = [cache |-> [h \in SetIndexes |-> NULL], hits |-> 0, misses |-> 0, evictions |-> 0]
    /\ i = 0 /\ j = 0 /\ k = 0 /\ at = 1
    /\ v = [n \in 1 .. 8 |-> Garbage]
    /\ B = [r \in 0 .. M - 1 |-> [c \in 0 .. N - 1 |-> Garbage]]

\* One access of the function, which the simulator gets.
Execute ==
    LET access == Pass[at]
    IN  /\ \/ /\ access.op = "L" /\ access.array = "A"
              /\ v' = [v EXCEPT ![access.reg] = A(access.row, access.col)]
              /\ address' = AddressA(access.row, access.col)
              /\ UNCHANGED B
           \/ /\ access.op = "L" /\ access.array = "B"
              /\ v' = [v EXCEPT ![access.reg] = B[access.row][access.col]]
              /\ address' = AddressB(access.row, access.col)
              /\ UNCHANGED B
           \/ /\ access.op = "S"
              /\ B' = [B EXCEPT ![access.row][access.col] = v[access.reg]]
              /\ address' = AddressB(access.row, access.col)
              /\ UNCHANGED v
        /\ sim' = manipulate(sim, address')

\* The loops: the next access of the pass, the next pass over the block, the next
\* block to the right, the next row of blocks.
Advance ==
    IF at < Len(Pass) THEN at' = at + 1 /\ UNCHANGED <<i, j, k>>
    ELSE /\ at' = 1
         /\ IF k + 1 < Passes THEN k' = k + 1 /\ UNCHANGED <<i, j>>
            ELSE /\ k' = 0
                 /\ IF j + BlockSize < M THEN j' = j + BlockSize /\ UNCHANGED i
                    ELSE j' = 0 /\ i' = i + BlockSize

TransNext ==
    /\ ~ Done
    /\ Execute
    /\ Advance
    /\ UNCHANGED <<geometry, fn, M, N>>

-----------------------------------------------------------------------------
(* The simulator alone, with any trace file, or behind a transpose function *)

CacheLabInit ==
    \/ TransInit
    \/ /\ CSimInit
       /\ fn = "csim" /\ M = 0 /\ N = 0 /\ i = 0 /\ j = 0 /\ k = 0 /\ at = 1
       /\ v = <<>> /\ B = <<>>

CacheLabNext ==
    \/ TransNext
    \/ fn = "csim" /\ CSimNext /\ UNCHANGED transVars

CacheLabSpec == CacheLabInit /\ [][CacheLabNext]_<<csimVars, transVars>>

-----------------------------------------------------------------------------

\* What is_transpose and validate of tracegen.c ask for when a function returns,
\* block by block: each element of the blocks done so far is in its place and stays
\* there, those included that were parked in the place of others.
Transposed ==
    fn # "csim" /\ k = 0 /\ at = 1 =>
        \A r \in 0 .. N - 1, c \in 0 .. M - 1 :
            r < i \/ (r < i + BlockSize /\ c < j) => B[c][r] = A(r, c)

\* Misses that docs/labs/cache-lab.md reports, and the part of them that is not
\* the function's: what tracegen.c touches between its two markers, the same in
\* every measurement.
ReportedMisses == IF M = 32 THEN 288 ELSE IF M = 64 THEN 1180 ELSE 1993
MarkerMisses   == 4

\* The functions miss exactly as often as the documentation reports, transpose_32
\* as often as the submission: the order of the loads and stores keeps the rows of
\* A and the columns of B, which share sets, from driving each other out.
MissesAsReported == fn # "csim" /\ Done => sim.misses + MarkerMisses = ReportedMisses
=============================================================================
