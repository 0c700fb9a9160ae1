----------------------------- MODULE MCLibrary -----------------------------
(***************************************************************************)
(* The sequential parts of the library in one model for TLC: containers,   *)
(* allocators, numerical kernels, the data set, the training loop and the  *)
(* renderer.  They share nothing, so a behaviour exercises one of them,    *)
(* its subject, and the others stay in their initial states.               *)
(***************************************************************************)
EXTENDS HashMap, TLC

CONSTANTS Width, ElemSizes,                       \* the array's and the ring's
          Elems, Caps, Garbage, VecInitialCap,
          Chars, StrBufInitialCap, Nul,           \* the string builder's
          MaxText, BufSize, MaxDigits, Exhausted, \* the string view's
          MallocAlign, ArenaCaps, MaxBlocks,      \* the arena's
          BlockSize, BlockCount, Data,            \* the pool's
          Addrs, Sizes, ReallocSizes, MaxAllocs,  \* the leak detector's
          Lanes, MaxN, InA, InB, Scalar,          \* the kernels'
          MaxDim, MatSizeMax, MATX_DEFAULT_BLOCK, \* the matrices'
          Batches, MaxRounds,                     \* the training loop's
          CsvLines, MaxFileLines, FirstVals, ValsSizeMax, Word,   \* the data set's
          CanvasWidth, Height, Coords, MaxRadius, MaxSide  \* the renderer's

VARIABLES subject,
          rdata, relem_size, rcap, rhead, rlen, rbytes, queue,
          velem_size, vcap, vlen, vbytes,
          sdata, scap, slen, text,
          str, rest, tokens,
          base, acap, pos, ablocks,
          buf, free_list, word, held,
          up, records, allocs, frees, heap, untracked,
          op, n, vector, idx, dst, acc, sum, kpc,
          fn, a, b, o, mem, ret,
          round, rows, step, layer, act, applied, fine,
          header, seenLines, vals, dcap, cols, drows, dpc, x, y, si,
          shape, px, py, perr, pixels, plotted, gpc

ASSUME SizeAssumption == 2 ^ Width \in Nat \ {0}
ASSUME ArraysAssumption == /\ ElemSizes \subseteq 1 .. 2 ^ Width - 1 /\ Caps \subseteq 1 .. 2 ^ Width - 1
                           /\ VecInitialCap \in Nat
ASSUME StringsAssumption ==
    /\ StrBufInitialCap \in 1 .. 2 ^ Width - 1
    /\ \A c \in 0 .. 2 ^ Width - 1 : NULL \notin [0 .. c - 1 -> Chars \cup {Nul, Garbage}]
ASSUME ViewsAssumption == /\ MaxText \in Nat /\ BufSize \in Nat /\ MaxDigits \in 0 .. BufSize - 1
                          /\ Exhausted \notin [off : Nat, len : Nat]
ASSUME TrainingAssumption == /\ Batches \subseteq Nat
                             /\ NULL \notin {"bx", "h", "logits", "dlogits", "dh"}
                             /\ NULL \notin [rows : Nat, from : SUBSET Nat]
ASSUME AllocatorsAssumption ==
    /\ MallocAlign \in Nat \ {0} /\ ArenaCaps \subseteq 0 .. 2 ^ Width - 1
    /\ \A k \in 0 .. Width - 1 : /\ 2 ^ k \in Nat \ {0}
                                 /\ 2 ^ k <= MallocAlign => MallocAlign % 2 ^ k = 0
    /\ BlockSize \in Nat \ {0} /\ BlockCount \in Nat \ {0} /\ NULL \notin Int
    /\ Sizes \subseteq Nat /\ ReallocSizes \subseteq Nat /\ MaxAllocs \in Nat
ASSUME KernelsAssumption == /\ Lanes \in Nat \ {0} /\ MaxN \in Nat
                            /\ InA \in [1 .. MaxN -> Int] /\ InB \in [1 .. MaxN -> Int] /\ Scalar \in Int
ASSUME CanvasAssumption == /\ CanvasWidth \in Int /\ Height \in Int /\ MatSizeMax \in Nat
                           /\ Coords \subseteq Int /\ MaxRadius \in Int /\ MaxSide \in Int

R == INSTANCE RingBuf WITH data <- rdata, elem_size <- relem_size, cap <- rcap,
                           head <- rhead, len <- rlen, bytes <- rbytes
V == INSTANCE Vec WITH elem_size <- velem_size, cap <- vcap, len <- vlen, bytes <- vbytes
B == INSTANCE StrBuf WITH data <- sdata, cap <- scap, len <- slen
S == INSTANCE StrView
A == INSTANCE Arena WITH cap <- acap, blocks <- ablocks, Caps <- ArenaCaps
P == INSTANCE Pool
L == INSTANCE LeakDetect
K == INSTANCE Simd
M == INSTANCE Matrix WITH SizeMax <- MatSizeMax
T == INSTANCE Training WITH Null <- NULL
D == INSTANCE Dataset WITH vcap <- dcap, SizeMax <- ValsSizeMax
C == INSTANCE Canvas WITH Width <- CanvasWidth, SizeMax <- MatSizeMax, Null <- NULL

RingBufVars == <<rdata, relem_size, rcap, rhead, rlen, rbytes, queue>>
VecVars == <<velem_size, vcap, vlen, vbytes>>
StrBufVars == <<sdata, scap, slen, text>>
StrViewVars == <<str, rest, tokens>>
ArenaVars == <<base, acap, pos, ablocks>>
PoolVars == <<buf, free_list, word, held>>
LeakDetectVars == <<up, records, allocs, frees, heap, untracked>>
SimdVars == <<op, n, vector, idx, dst, acc, sum, kpc>>
MatrixVars == <<fn, a, b, o, mem, ret>>
TrainingVars == <<round, rows, step, layer, act, applied, fine>>
DatasetVars == <<header, seenLines, vals, dcap, cols, drows, dpc, x, y, si>>
CanvasVars == <<shape, px, py, perr, pixels, plotted, gpc>>

OneArrays == <<RingBufVars, VecVars, StrBufVars, StrViewVars>>
Allocators == <<ArenaVars, PoolVars, LeakDetectVars>>
Numbers == <<SimdVars, MatrixVars, TrainingVars, DatasetVars, CanvasVars>>
LibraryVars == <<subject, vars, OneArrays, Allocators, Numbers>>

\* Arrays whose sums tell which elements went into them.
Powers == [k \in 1 .. MaxN |-> 2 ^ (k - 1)]
Others == [k \in 1 .. MaxN |-> k + 2]

\* A framebuffer's coordinates may be negative.
CoordSet == {-1, 0, 1, 2, 5}

\* The variables of the subjects that start from an input are NULL for others.
LibraryInit ==
    /\ subject \in {"hashmap", "ringbuf", "vec", "strbuf", "strview", "arena", "pool",
                    "leak_detect", "simd", "matrix", "training", "dataset", "canvas"}
    /\ R!Init /\ V!Init /\ B!Init /\ A!Init /\ P!Init /\ L!Init /\ T!Init
    /\ Init /\ (subject # "hashmap" => \A k \in Keys : hash[k] = 0)
    /\ IF subject = "strview" THEN S!Init ELSE str = NULL /\ rest = NULL /\ tokens = NULL
    /\ IF subject = "simd" THEN K!Init
       ELSE op = NULL /\ n = NULL /\ vector = NULL /\ idx = NULL /\ dst = NULL /\ acc = NULL /\ sum = NULL /\ kpc = NULL
    /\ IF subject = "matrix" THEN M!Init
       ELSE fn = NULL /\ a = NULL /\ b = NULL /\ o = NULL /\ mem = NULL /\ ret = NULL
    /\ IF subject = "dataset" THEN D!Init
       ELSE /\ header = NULL /\ seenLines = NULL /\ vals = NULL /\ dcap = NULL /\ cols = NULL
            /\ drows = NULL /\ dpc = NULL /\ x = NULL /\ y = NULL /\ si = NULL
    /\ IF subject = "canvas" THEN C!Init
       ELSE shape = NULL /\ px = NULL /\ py = NULL /\ perr = NULL /\ pixels = NULL /\ plotted = NULL /\ gpc = NULL

HashMapStep == subject = "hashmap" /\ Next /\ UNCHANGED <<subject, OneArrays, Allocators, Numbers>>

RingBufStep == /\ subject = "ringbuf" /\ R!Next
               /\ UNCHANGED <<subject, vars, VecVars, StrBufVars, StrViewVars, Allocators, Numbers>>
VecStep == /\ subject = "vec" /\ V!Next
           /\ UNCHANGED <<subject, vars, RingBufVars, StrBufVars, StrViewVars, Allocators, Numbers>>
StrBufStep == /\ subject = "strbuf" /\ B!Next
              /\ UNCHANGED <<subject, vars, RingBufVars, VecVars, StrViewVars, Allocators, Numbers>>
StrViewStep == /\ subject = "strview" /\ S!Next
               /\ UNCHANGED <<subject, vars, RingBufVars, VecVars, StrBufVars, Allocators, Numbers>>

ArenaStep == /\ subject = "arena" /\ A!Next
             /\ UNCHANGED <<subject, vars, OneArrays, PoolVars, LeakDetectVars, Numbers>>
PoolStep == /\ subject = "pool" /\ P!Next
            /\ UNCHANGED <<subject, vars, OneArrays, ArenaVars, LeakDetectVars, Numbers>>
LeakDetectStep == /\ subject = "leak_detect" /\ L!Next
                  /\ UNCHANGED <<subject, vars, OneArrays, ArenaVars, PoolVars, Numbers>>

SimdStep == /\ subject = "simd" /\ K!Next
            /\ UNCHANGED <<subject, vars, OneArrays, Allocators, MatrixVars, TrainingVars, DatasetVars, CanvasVars>>
MatrixStep == /\ subject = "matrix" /\ M!Next
              /\ UNCHANGED <<subject, vars, OneArrays, Allocators, SimdVars, TrainingVars, DatasetVars, CanvasVars>>
TrainingStep == /\ subject = "training" /\ T!Next
                /\ UNCHANGED <<subject, vars, OneArrays, Allocators, SimdVars, MatrixVars, DatasetVars, CanvasVars>>
DatasetStep == /\ subject = "dataset" /\ D!Next
               /\ UNCHANGED <<subject, vars, OneArrays, Allocators, SimdVars, MatrixVars, TrainingVars, CanvasVars>>
CanvasStep == /\ subject = "canvas" /\ C!Next
              /\ UNCHANGED <<subject, vars, OneArrays, Allocators, SimdVars, MatrixVars, TrainingVars, DatasetVars>>

LibraryNext == \/ HashMapStep \/ RingBufStep \/ VecStep \/ StrBufStep \/ StrViewStep
               \/ ArenaStep \/ PoolStep \/ LeakDetectStep
               \/ SimdStep \/ MatrixStep \/ TrainingStep \/ DatasetStep \/ CanvasStep

LibrarySpec == LibraryInit /\ [][LibraryNext]_LibraryVars

KeySymmetry == Permutations(Keys) \cup Permutations(Values)

\* Numbers (n), junk (z), spaces and commas; empty fields at both ends and
\* inside; two numbers in one field; a line longer than the buffer.
Csv == { <<"long">>, <<>>, <<"n">>, <<"n", ",", "n">>, <<"n", ",", " ", "n">>,
         <<"n", ",", ",", "n">>, <<",", "n">>, <<"n", ",">>, <<"n", " ", "n", ",", "n">>,
         <<"z", ",", "n">>, <<"n", "z", ",", "n">>, <<"n", ",", "n", "z">>,
         <<"n", " ", "n", ",", ",", "n">> }

-----------------------------------------------------------------------------
(* Properties: HashMap's MapIsExact, and *)

(***************************************************************************)
(* ringbuf.c: pops return what was pushed and not overwritten, in order.   *)
(***************************************************************************)
RingBufIsQueue == R!IsQueue

(***************************************************************************)
(* vec.c, strbuf.c: growing in size_t arithmetic never leaves an element,  *)
(* a character or the terminating NUL outside the block, and the string    *)
(* stays the one that was built when growing fails.                        *)
(***************************************************************************)
GrowthIsSound == V!FitsItsBlock /\ B!IsTheText

(***************************************************************************)
(* str.c: splitting loses nothing and stays inside the text.               *)
(***************************************************************************)
SplitIsExact == subject = "strview" => S!SplitIsExact

(***************************************************************************)
(* arena.c, pool.c, leak_detect.c: the arena's blocks are disjoint, inside *)
(* its buffer and aligned as far as malloc's alignment goes; the pool's    *)
(* free list is exactly the blocks nobody holds, each once; the detector's *)
(* records are exactly the blocks in use.                                  *)
(***************************************************************************)
AllocatorsAreSound == /\ A!BlocksAreDisjoint /\ A!AlignedUpToMalloc
                      /\ P!FreeListIsExact
                      /\ L!ReportIsExact

(***************************************************************************)
(* simd_ops.c, matx.c: for every length, shape, tiling and sharing of      *)
(* buffers the kernels compute the mathematical result and write nothing   *)
(* else.                                                                   *)
(***************************************************************************)
KernelsAreExact == /\ subject = "simd" => K!KernelIsExact
                   /\ subject = "matrix" => M!OperationIsExact

(***************************************************************************)
(* nn.c: a round that succeeds updates both layers from its batch alone.   *)
(***************************************************************************)
UpdateIsOfTheBatch == T!UpdateIsOfTheBatch

(***************************************************************************)
(* dataset.c, rng.c: every value comes from its own field, the array holds *)
(* what is written to it, and a shuffle keeps rows, labels and fairness.   *)
(***************************************************************************)
DatasetIsExact == subject = "dataset" => D!CsvIsExact /\ D!ShuffleKeepsPairs

(***************************************************************************)
(* software_renderer.c: shapes are what they should be, inside the buffer. *)
(***************************************************************************)
ShapesAreExact == subject = "canvas" => C!ShapesAreExact
=============================================================================
