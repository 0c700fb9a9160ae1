---------------------------- MODULE SystemProofs ----------------------------
(***************************************************************************)
(* Theorems about src/src/systems and the command line.                    *)
(*                                                                         *)
(* FileIo, for any number of writers, readers, inodes and versions: what a *)
(* call leaves behind, whoever else writes; and, when writers take turns,  *)
(* that file_write_all replaces the file as a whole or not at all and that *)
(* readers see one version.  MkDirs, for any number of processes and any   *)
(* paths: path_mkdirs succeeds exactly if no file is in the way.  Process  *)
(* and Capture: a status is that of the child the call started, and        *)
(* captured output is the whole output.  Cli, for any options, arguments   *)
(* and lines: which setting of an option counts.                           *)
(***************************************************************************)
EXTENDS MCSystem, FiniteSetTheorems, SequenceTheorems, WellFoundedInduction, TLAPS

WriterRec == [pc : {"idle", "open", "write", "rename", "remove"},
              version : Versions \cup {0}, fd : Name, off : Nat,
              ret : {"none", "ok", "error"}]
ReaderRec == [pc : {"idle", "size", "read", "stat", "mapped"},
              fd : Name, len : Nat, buf : BOOLEAN, got : Seq(Chunk),
              ret : {"none", "ok", "error"}]

(***************************************************************************)
(* What holds whether or not writers take turns: besides NothingIsLeft,    *)
(* which calls of a reader hold a descriptor and a buffer.                 *)
(***************************************************************************)
ReaderHolds(rec) == /\ rec.fd = NULL <=> rec.pc = "idle"
                    /\ rec.buf => rec.pc \in {"idle", "read"}
                    /\ rec.ret = "error" => rec.pc = "idle" /\ ~rec.buf

HandleInv == /\ TypeOK
             /\ TmpIsCleanedUp
             /\ \A p \in Readers : ReaderHolds(r[p])

(***************************************************************************)
(* What holds when writers take turns.  Aside: nobody else knows the inode *)
(* of the temporary file.  Progress: it holds what its writer has written  *)
(* so far, and all of it at the rename.                                    *)
(***************************************************************************)
Alone == \A p, q \in Writers : w[p].pc # "idle" /\ w[q].pc # "idle" => p = q

Aside == tmp # NULL => tmp # path /\ \A q \in Readers : r[q].fd # tmp

\* The first n chunks of version v.
Prefix(c, n, v) == Len(c) = n /\ \A k \in 1 .. n : c[k] = v

Progress ==
    \A p \in Writers :
      /\ w[p].pc \in {"open", "write", "rename"} => w[p].version \in Versions
      /\ w[p].pc = "open" => w[p].off = 0
      /\ w[p].pc = "write" => /\ w[p].fd = tmp /\ w[p].off <= w[p].version
                              /\ Prefix(content[tmp], w[p].off, w[p].version)
      /\ w[p].pc = "rename" => tmp # NULL /\ Prefix(content[tmp], w[p].version, w[p].version)

(***************************************************************************)
(* Following: an open descriptor leads to what the path held at some time  *)
(* since, and what was read is the beginning of it.                        *)
(***************************************************************************)
Follows(rec, s, c) ==
    /\ rec.pc # "idle" => c[rec.fd] \in s
    /\ rec.pc \in {"size", "stat"} => rec.got = <<>>
    /\ rec.pc = "read" => /\ rec.len = Len(c[rec.fd])
                          /\ Len(rec.got) <= rec.len
                          /\ \A k \in 1 .. Len(rec.got) : rec.got[k] = c[rec.fd][k]
    /\ rec.pc = "mapped" => c[rec.fd] = rec.got /\ Len(rec.got) = rec.len
    /\ rec.pc = "idle" /\ rec.buf => rec.got \in s

Following == \A q \in Readers : Follows(r[q], seen[q], content)

SeenType == seen \in [Readers -> SUBSET (Seq(Chunk) \cup {NULL})]

FileInv == Alone /\ Aside /\ Progress /\ PathIsWhole /\ Following /\ SeenType

-----------------------------------------------------------------------------
(* Chunks and files *)

\* Writing a chunk at an offset gives a file, and at the end a longer prefix.
LEMMA PutType ==
  ASSUME NEW c \in Seq(Chunk), NEW off \in Nat, NEW chunk \in Chunk
  PROVE  Put(c, off, chunk) \in Seq(Chunk)
<1> DEFINE n == IF Len(c) > off THEN Len(c) ELSE off + 1
           e(k) == IF k = off + 1 THEN chunk ELSE IF k <= Len(c) THEN c[k] ELSE Hole
<1>1. n \in Nat
  BY LenProperties
<1>2. ASSUME NEW k \in 1 .. n PROVE e(k) \in Chunk
  <2>1. CASE k <= Len(c)
    <3>1. k \in 1 .. Len(c)
      BY <2>1, LenProperties
    <3>2. c[k] \in Chunk
      BY <3>1, ElementOfSeq
    <3> QED
      BY <3>2, <2>1
  <2>2. CASE ~(k <= Len(c))
    BY <2>2 DEF Chunk
  <2> QED
    BY <2>1, <2>2
<1>3. Put(c, off, chunk) = [k \in 1 .. n |-> e(k)]
  BY DEF Put
<1> HIDE DEF n, e
<1>4. [k \in 1 .. n |-> e(k)] \in [1 .. n -> Chunk]
  BY <1>2
<1> QED
  BY <1>1, <1>3, <1>4, SeqDef

LEMMA PutExtends ==
  ASSUME NEW c \in Seq(Chunk), NEW off \in Nat, NEW v \in Chunk, Prefix(c, off, v)
  PROVE  Prefix(Put(c, off, v), off + 1, v)
<1> DEFINE e(k) == IF k = off + 1 THEN v ELSE IF k <= Len(c) THEN c[k] ELSE Hole
<1>1. Len(c) = off /\ \A k \in 1 .. off : c[k] = v
  BY DEF Prefix
<1>2. Put(c, off, v) = [k \in 1 .. off + 1 |-> e(k)]
  BY <1>1 DEF Put
<1>3. \A k \in 1 .. off + 1 : e(k) = v
  BY <1>1
<1> HIDE DEF e
<1>4. Put(c, off, v) \in Seq(Chunk)
  BY PutType
<1>5. Len(Put(c, off, v)) \in Nat /\ DOMAIN Put(c, off, v) = 1 .. Len(Put(c, off, v))
  BY <1>4, LenProperties
<1>6. DOMAIN Put(c, off, v) = 1 .. off + 1
  BY <1>2
<1>7. Len(Put(c, off, v)) = off + 1
  <2> DEFINE m == Len(Put(c, off, v))
  <2> HIDE DEF m
  <2>1. m \in Nat /\ 1 .. m = 1 .. off + 1
    BY <1>5, <1>6 DEF m
  <2>2. off + 1 \in 1 .. m
    BY <2>1
  <2>3. m \in 1 .. off + 1
    BY <2>1, <2>2
  <2> QED
    BY <2>1, <2>2, <2>3 DEF m
<1>8. \A k \in 1 .. off + 1 : Put(c, off, v)[k] = v
  BY <1>2, <1>3
<1> QED
  BY <1>7, <1>8 DEF Prefix

\* A prefix as long as the version is the version.
LEMMA PrefixWhole ==
  ASSUME NEW c \in Seq(Chunk), NEW v \in Nat, Prefix(c, v, v)
  PROVE  c = Whole(v)
<1>1. Len(c) = v /\ \A k \in 1 .. v : c[k] = v
  BY DEF Prefix
<1>2. c \in [1 .. Len(c) -> Chunk]
  BY LenProperties
<1>3. c = [k \in 1 .. v |-> c[k]]
  BY <1>1, <1>2
<1>4. [k \in 1 .. v |-> c[k]] = [k \in 1 .. v |-> v]
  BY <1>1
<1> QED
  BY <1>3, <1>4 DEF Whole

\* What was read, as long as the file, is the file.
LEMMA SameFile ==
  ASSUME NEW a \in Seq(Chunk), NEW b \in Seq(Chunk), Len(a) = Len(b),
         \A k \in 1 .. Len(a) : a[k] = b[k]
  PROVE  a = b
BY SeqEqual

-----------------------------------------------------------------------------
(* Steps of a writer and of a reader *)

LEMMA Typed ==
  ASSUME TypeOK
  PROVE  /\ w \in [Writers -> WriterRec] /\ r \in [Readers -> ReaderRec]
         /\ content \in [Inodes -> Seq(Chunk)] /\ path \in Name /\ tmp \in Name
         /\ leftover \in BOOLEAN
         /\ \A p \in Writers : w[p].fd # NULL <=> w[p].pc = "write"
BY DEF TypeOK, WriterRec, ReaderRec, WriterIs

LEMMA TypedNext ==
  ASSUME w' \in [Writers -> WriterRec], r' \in [Readers -> ReaderRec],
         content' \in [Inodes -> Seq(Chunk)], path' \in Name, tmp' \in Name,
         leftover' \in BOOLEAN,
         \A p \in Writers : w'[p].fd # NULL <=> w'[p].pc = "write"
  PROVE  TypeOK'
BY DEF TypeOK, WriterRec, ReaderRec, WriterIs

\* One writer's record changes.
LEMMA WriterMoves ==
  ASSUME TypeOK, NEW p \in Writers, NEW rec \in WriterRec, w' = [w EXCEPT ![p] = rec],
         rec.fd # NULL <=> rec.pc = "write"
  PROVE  /\ w' \in [Writers -> WriterRec] /\ w'[p] = rec
         /\ \A q \in Writers \ {p} : w'[q] = w[q]
         /\ \A q \in Writers : w'[q].fd # NULL <=> w'[q].pc = "write"
<1>1. w \in [Writers -> WriterRec] /\ \A q \in Writers : w[q].fd # NULL <=> w[q].pc = "write"
  BY Typed
<1> HIDE DEF WriterRec
<1>2. w' \in [Writers -> WriterRec] /\ w'[p] = rec /\ \A q \in Writers \ {p} : w'[q] = w[q]
  BY <1>1
<1> QED
  BY <1>1, <1>2

\* The same of a reader's.
LEMMA ReaderMoves ==
  ASSUME HandleInv, NEW p \in Readers, NEW rec \in ReaderRec, r' = [r EXCEPT ![p] = rec],
         ReaderHolds(rec), UNCHANGED <<path, tmp, content, w, leftover>>
  PROVE  /\ HandleInv' /\ r'[p] = rec
         /\ \A q \in Readers \ {p} : r'[q] = r[q]
<1>1. r \in [Readers -> ReaderRec] /\ \A q \in Readers : ReaderHolds(r[q])
  BY Typed DEF HandleInv
<1> HIDE DEF ReaderRec
<1>2. r' \in [Readers -> ReaderRec] /\ r'[p] = rec /\ \A q \in Readers \ {p} : r'[q] = r[q]
  BY <1>1
<1>3. \A q \in Readers : ReaderHolds(r'[q])
  BY <1>1, <1>2
<1>4. TypeOK'
  <2>1. TypeOK
    BY DEF HandleInv
  <2> QED
    BY <1>2, <2>1, Typed, TypedNext
<1>5. TmpIsCleanedUp'
  BY DEF HandleInv, TmpIsCleanedUp
<1> QED
  BY <1>2, <1>3, <1>4, <1>5 DEF HandleInv

-----------------------------------------------------------------------------
(* What a call leaves behind, whoever else writes *)

LEMMA HandleInvInit == Init => HandleInv
<1> SUFFICES ASSUME Init
             PROVE  HandleInv
  OBVIOUS
<1>1. IdleWriter \in WriterRec /\ IdleWriter.fd = NULL /\ IdleWriter.pc = "idle"
  BY DEF IdleWriter, WriterRec, Name
<1>2. IdleReader \in ReaderRec /\ ReaderHolds(IdleReader)
  BY DEF IdleReader, ReaderRec, Name, ReaderHolds
<1> HIDE DEF WriterRec, ReaderRec
<1>3. w \in [Writers -> WriterRec] /\ r \in [Readers -> ReaderRec]
  BY <1>1, <1>2 DEF Init
<1>4. content \in [Inodes -> Seq(Chunk)] /\ path = NULL /\ tmp = NULL /\ leftover = FALSE
  BY DEF Init
<1>5. \A p \in Writers : w[p].fd # NULL <=> w[p].pc = "write"
  BY <1>1 DEF Init
<1>6. \A p \in Readers : ReaderHolds(r[p])
  BY <1>2 DEF Init
<1>7. TypeOK
  BY <1>3, <1>4, <1>5 DEF TypeOK, WriterRec, ReaderRec, WriterIs, Name
<1> QED
  BY <1>4, <1>6, <1>7 DEF HandleInv, TmpIsCleanedUp

\* Writer p comes to l and nobody else moves.
Moved(p, l) == /\ w' \in [Writers -> WriterRec] /\ w'[p].pc = l
               /\ \A q \in Writers \ {p} : w'[q] = w[q]
               /\ \A q \in Writers : w'[q].fd # NULL <=> w'[q].pc = "write"

LEMMA CallMoves ==
  ASSUME TypeOK, NEW p \in Writers, NEW v \in Versions,
         w' = [w EXCEPT ![p] = [IdleWriter EXCEPT !.pc = "open", !.version = v]]
  PROVE  Moved(p, "open") /\ w'[p].version = v /\ w'[p].off = 0
<1> DEFINE rec == [IdleWriter EXCEPT !.pc = "open", !.version = v]
<1>1. rec \in WriterRec /\ rec.pc = "open" /\ rec.version = v /\ rec.off = 0 /\ rec.fd = NULL
  BY DEF IdleWriter, WriterRec, Name
<1>2. w' = [w EXCEPT ![p] = rec]
  OBVIOUS
<1> HIDE DEF rec
<1> QED
  BY <1>1, <1>2, WriterMoves DEF Moved

LEMMA OpenMoves ==
  ASSUME TypeOK, NEW p \in Writers, NEW d \in Inodes, w' = Opened(p, d)
  PROVE  /\ Moved(p, "write") /\ w'[p].fd = d
         /\ w'[p].version = w[p].version /\ w'[p].off = w[p].off
<1> DEFINE rec == [w[p] EXCEPT !.pc = "write", !.fd = d]
<1>1. w \in [Writers -> WriterRec]
  BY Typed
<1>2. /\ rec \in WriterRec /\ rec.pc = "write" /\ rec.fd = d /\ rec.fd # NULL
      /\ rec.version = w[p].version /\ rec.off = w[p].off
  BY <1>1, InodesAssumption DEF WriterRec, Name
<1>3. w' = [w EXCEPT ![p] = rec]
  BY <1>1 DEF Opened
<1> HIDE DEF rec
<1> QED
  BY <1>2, <1>3, WriterMoves DEF Moved

LEMMA ChunkMoves ==
  ASSUME TypeOK, NEW p \in Writers, w[p].pc = "write", w' = [w EXCEPT ![p].off = @ + 1]
  PROVE  /\ Moved(p, "write") /\ w'[p].fd = w[p].fd
         /\ w'[p].version = w[p].version /\ w'[p].off = w[p].off + 1
<1> DEFINE rec == [w[p] EXCEPT !.off = @ + 1]
<1>1. w \in [Writers -> WriterRec] /\ w[p].fd # NULL
  BY Typed
<1>2. /\ rec \in WriterRec /\ rec.pc = "write" /\ rec.fd = w[p].fd /\ rec.fd # NULL
      /\ rec.version = w[p].version /\ rec.off = w[p].off + 1
  BY <1>1 DEF WriterRec
<1>3. w' = [w EXCEPT ![p] = rec]
  BY <1>1
<1> HIDE DEF rec
<1> QED
  BY <1>2, <1>3, WriterMoves DEF Moved

LEMMA CloseMoves ==
  ASSUME TypeOK, NEW p \in Writers, NEW l \in {"rename", "remove"}, Closed(p, l)
  PROVE  Moved(p, l) /\ w'[p].version = w[p].version /\ w'[p].off = w[p].off
<1> DEFINE rec == [w[p] EXCEPT !.pc = l, !.fd = NULL]
<1>1. w \in [Writers -> WriterRec]
  BY Typed
<1>2. /\ rec \in WriterRec /\ rec.pc = l /\ rec.pc # "write" /\ rec.fd = NULL
      /\ rec.version = w[p].version /\ rec.off = w[p].off
  BY <1>1 DEF WriterRec, Name
<1>3. w' = [w EXCEPT ![p] = rec]
  BY <1>1 DEF Closed, WriterRec
<1> HIDE DEF rec
<1> QED
  BY <1>2, <1>3, WriterMoves DEF Moved

LEMMA ReturnMoves ==
  ASSUME TypeOK, NEW p \in Writers, NEW x \in {"ok", "error"}, WriterReturns(p, x)
  PROVE  Moved(p, "idle") /\ w'[p].ret = x
<1> DEFINE rec == [IdleWriter EXCEPT !.ret = x]
<1>1. rec \in WriterRec /\ rec.pc = "idle" /\ rec.fd = NULL /\ rec.ret = x
  BY DEF IdleWriter, WriterRec, Name
<1>2. w' = [w EXCEPT ![p] = rec]
  BY DEF WriterReturns
<1> HIDE DEF rec
<1> QED
  BY <1>1, <1>2, WriterMoves DEF Moved

LEMMA KillMoves ==
  ASSUME TypeOK, NEW p \in Writers, w' = [w EXCEPT ![p] = IdleWriter]
  PROVE  Moved(p, "idle")
<1>1. IdleWriter \in WriterRec /\ IdleWriter.pc = "idle" /\ IdleWriter.fd = NULL
  BY DEF IdleWriter, WriterRec, Name
<1> QED
  BY <1>1, WriterMoves DEF Moved

LEMMA GiveUpMoves ==
  ASSUME TypeOK, NEW p \in Writers, w[p].pc = "rename", w' = [w EXCEPT ![p].pc = "remove"]
  PROVE  Moved(p, "remove")
<1> DEFINE rec == [w[p] EXCEPT !.pc = "remove"]
<1>1. w \in [Writers -> WriterRec] /\ w[p].fd = NULL
  BY Typed
<1>2. rec \in WriterRec /\ rec.pc = "remove" /\ rec.fd = NULL
  BY <1>1 DEF WriterRec
<1>3. w' = [w EXCEPT ![p] = rec]
  BY <1>1
<1> HIDE DEF rec
<1> QED
  BY <1>2, <1>3, WriterMoves DEF Moved

LEMMA WriterKeeps ==
  ASSUME HandleInv, NEW p \in Writers, NEW l, Moved(p, l), UNCHANGED r,
         content' \in [Inodes -> Seq(Chunk)], path' \in Name, tmp' \in Name,
         leftover' \in BOOLEAN, TmpIsCleanedUp'
  PROVE  HandleInv'
<1>1. TypeOK /\ \A q \in Readers : ReaderHolds(r[q])
  BY DEF HandleInv
<1>2. r' \in [Readers -> ReaderRec]
  BY <1>1, Typed
<1>3. w' \in [Writers -> WriterRec] /\ \A q \in Writers : w'[q].fd # NULL <=> w'[q].pc = "write"
  BY DEF Moved
<1>4. TypeOK'
  BY <1>2, <1>3, TypedNext
<1> QED
  BY <1>1, <1>4 DEF HandleInv

\* A writer that was not under way stops or starts: somebody else still is.
LEMMA StillUnderWay ==
  ASSUME TmpIsCleanedUp, NEW p \in Writers, NEW l, Moved(p, l), UNCHANGED <<tmp, leftover>>,
         w[p].pc \notin {"write", "rename", "remove"}
  PROVE  TmpIsCleanedUp'
BY DEF TmpIsCleanedUp, Moved

LEMMA UnderWay ==
  ASSUME NEW p \in Writers, NEW l \in {"write", "rename", "remove"}, Moved(p, l)
  PROVE  TmpIsCleanedUp'
BY DEF TmpIsCleanedUp, Moved

\* The inode an open of the temporary file gets.
LEMMA OpenGets ==
  ASSUME HandleInv, NEW p \in Writers, OpenTmp(p)
  PROVE  \E d \in Inodes : /\ tmp' = d /\ content' = [content EXCEPT ![d] = <<>>]
                           /\ w' = Opened(p, d)
                           /\ tmp # NULL => d = tmp
                           /\ tmp = NULL => d # path /\ \A q \in Readers : r[q].fd # d
<1>1. PICK d \in IF tmp # NULL THEN {tmp} ELSE Inodes \ InUse :
             tmp' = d /\ content' = [content EXCEPT ![d] = <<>>] /\ w' = Opened(p, d)
  BY DEF OpenTmp
<1>2. tmp \in Inodes \cup {NULL}
  BY DEF HandleInv, TypeOK, Name
<1>3. d \in Inodes
  BY <1>1, <1>2
<1>4. tmp = NULL => d # path /\ \A q \in Readers : r[q].fd # d
  BY <1>1, <1>3, InodesAssumption DEF InUse
<1> QED
  BY <1>1, <1>3, <1>4

\* The element a writer writes and where.
LEMMA ChunkGoes ==
  ASSUME HandleInv, NEW p \in Writers, WriteChunk(p)
  PROVE  /\ w[p].fd \in Inodes /\ w[p].off \in Nat /\ w[p].version \in Versions
         /\ w[p].version \in Nat /\ w[p].off < w[p].version
         /\ Put(content[w[p].fd], w[p].off, w[p].version) \in Seq(Chunk)
         /\ content' = [content EXCEPT ![w[p].fd] = Put(content[w[p].fd], w[p].off, w[p].version)]
<1>1. w[p] \in WriterRec /\ w[p].fd # NULL /\ w[p].off < w[p].version
  BY Typed DEF HandleInv, WriteChunk, WriterIs
<1>2. w[p].fd \in Inodes /\ w[p].off \in Nat /\ w[p].version \in Versions \cup {0}
  BY <1>1 DEF WriterRec, Name
<1>3. w[p].version \in Versions /\ w[p].version \in Nat
  <2>1. w[p].version # 0
    BY <1>1, <1>2
  <2> QED
    BY <2>1, <1>2, VersionsAssumption
<1>4. content[w[p].fd] \in Seq(Chunk) /\ w[p].version \in Chunk
  BY <1>2, <1>3 DEF HandleInv, TypeOK, Chunk
<1>5. Put(content[w[p].fd], w[p].off, w[p].version) \in Seq(Chunk)
  BY <1>2, <1>4, PutType
<1>6. content' = [content EXCEPT ![w[p].fd] = Put(content[w[p].fd], w[p].off, w[p].version)]
  BY DEF WriteChunk
<1> QED
  BY <1>1, <1>2, <1>3, <1>5, <1>6

LEMMA HandleInvWriter ==
  ASSUME HandleInv, NEW p \in Writers,
         \/ \E v \in Versions : WriteCall(p, v)
         \/ OpenTmp(p) \/ OpenTmpFails(p) \/ WriteChunk(p) \/ WriteFails(p) \/ CloseTmp(p)
         \/ RenameOk(p) \/ RenameFails(p) \/ RemoveTmp(p) \/ Kill(p)
  PROVE  HandleInv'
<1>T. TypeOK /\ TmpIsCleanedUp
  BY DEF HandleInv
<1>U. /\ content \in [Inodes -> Seq(Chunk)] /\ path \in Name /\ tmp \in Name
      /\ leftover \in BOOLEAN /\ NULL \in Name
  BY <1>T, Typed DEF Name
<1>1. CASE \E v \in Versions : WriteCall(p, v)
  <2>1. Moved(p, "open") /\ w[p].pc = "idle" /\ UNCHANGED <<path, tmp, content, r, leftover>>
    BY <1>1, <1>T, CallMoves DEF WriteCall, WriterIs
  <2> QED
    BY <2>1, <1>T, <1>U, StillUnderWay, WriterKeeps
<1>2. CASE OpenTmp(p)
  <2>1. PICK d \in Inodes : tmp' = d /\ content' = [content EXCEPT ![d] = <<>>] /\ w' = Opened(p, d)
    BY <1>2, OpenGets
  <2>2. Moved(p, "write") /\ content' \in [Inodes -> Seq(Chunk)] /\ tmp' \in Name
    BY <2>1, <1>T, <1>U, OpenMoves DEF Name
  <2>3. path' = path /\ r' = r /\ leftover' = FALSE
    BY <1>2 DEF OpenTmp
  <2> QED
    BY <2>2, <2>3, <1>U, UnderWay, WriterKeeps
<1>3. CASE OpenTmpFails(p)
  <2>1. Moved(p, "idle") /\ w[p].pc = "open" /\ UNCHANGED <<path, tmp, content, r, leftover>>
    BY <1>3, <1>T, ReturnMoves DEF OpenTmpFails, WriterIs
  <2> QED
    BY <2>1, <1>T, <1>U, StillUnderWay, WriterKeeps
<1>4. CASE WriteChunk(p)
  <2>1. Moved(p, "write") /\ UNCHANGED <<path, tmp, r, leftover>>
    BY <1>4, <1>T, ChunkMoves DEF WriteChunk, WriterIs
  <2>2. content' \in [Inodes -> Seq(Chunk)]
    BY <1>4, <1>U, ChunkGoes
  <2> QED
    BY <2>1, <2>2, <1>U, UnderWay, WriterKeeps
<1>5. CASE WriteFails(p)
  <2>1. Moved(p, "remove") /\ UNCHANGED <<path, tmp, content, r, leftover>>
    BY <1>5, <1>T, CloseMoves DEF WriteFails
  <2> QED
    BY <2>1, <1>U, UnderWay, WriterKeeps
<1>6. CASE CloseTmp(p)
  <2>1. Moved(p, "rename") /\ UNCHANGED <<path, tmp, content, r, leftover>>
    BY <1>6, <1>T, CloseMoves DEF CloseTmp
  <2> QED
    BY <2>1, <1>U, UnderWay, WriterKeeps
<1>7. CASE RenameOk(p)
  <2>1. Moved(p, "idle") /\ UNCHANGED <<content, r, leftover>> /\ path' = tmp /\ tmp' = NULL
    BY <1>7, <1>T, ReturnMoves DEF RenameOk
  <2>2. TmpIsCleanedUp'
    BY <2>1 DEF TmpIsCleanedUp
  <2> QED
    BY <2>1, <2>2, <1>U, WriterKeeps
<1>8. CASE RenameFails(p)
  <2>1. Moved(p, "remove") /\ UNCHANGED <<path, tmp, content, r, leftover>>
    BY <1>8, <1>T, GiveUpMoves DEF RenameFails, WriterIs
  <2> QED
    BY <2>1, <1>U, UnderWay, WriterKeeps
<1>9. CASE RemoveTmp(p)
  <2>1. Moved(p, "idle") /\ UNCHANGED <<path, content, r>>
    BY <1>9, <1>T, ReturnMoves DEF RemoveTmp
  <2>2. (tmp' = NULL /\ leftover' = leftover) \/ (tmp' = tmp /\ leftover' = TRUE)
    BY <1>9 DEF RemoveTmp
  <2>3. TmpIsCleanedUp' /\ tmp' \in Name /\ leftover' \in BOOLEAN
    BY <2>2, <1>U DEF TmpIsCleanedUp
  <2> QED
    BY <2>1, <2>3, <1>U, WriterKeeps
<1>10. CASE Kill(p)
  <2>1. Moved(p, "idle") /\ UNCHANGED <<path, tmp, content, r>> /\ leftover' = (leftover \/ tmp # NULL)
    BY <1>10, <1>T, KillMoves DEF Kill
  <2>2. TmpIsCleanedUp' /\ leftover' \in BOOLEAN
    BY <2>1, <1>U DEF TmpIsCleanedUp
  <2> QED
    BY <2>1, <2>2, <1>U, WriterKeeps
<1> QED
  BY <1>1, <1>2, <1>3, <1>4, <1>5, <1>6, <1>7, <1>8, <1>9, <1>10

\* Reader p's record becomes rec; what that says of the files it saw is for
\* the writers that take turns.
ReaderGoes(p, rec) ==
    /\ r' = [r EXCEPT ![p] = rec]
    /\ UNCHANGED <<path, tmp, content, w, leftover>>
    /\ ReaderHolds(rec)
    /\ rec.fd \in {NULL, r[p].fd, path}
    /\ FileInv => /\ \/ seen' = seen
                     \/ path # NULL /\ seen' = [seen EXCEPT ![p] = {content[path]}]
                  /\ Follows(rec, seen'[p], content)

LEMMA ReaderStep ==
  ASSUME HandleInv, NEW p \in Readers,
         \/ ~r[p].buf /\ (ReadCall(p) \/ MmapCall(p))
         \/ ReadSize(p) \/ ReadChunk(p) \/ ReadDone(p) \/ ReadFails(p)
         \/ MmapOk(p) \/ MmapFails(p) \/ FileMunmap(p) \/ FreeBuffer(p)
  PROVE  \E rec \in ReaderRec : ReaderGoes(p, rec)
<1>1. /\ r[p] \in ReaderRec /\ ReaderHolds(r[p]) /\ r \in [Readers -> ReaderRec]
      /\ content \in [Inodes -> Seq(Chunk)] /\ path \in Name
  BY Typed DEF HandleInv
<1>2. r[p].pc # "idle" => /\ r[p].fd \in Inodes /\ content[r[p].fd] \in Seq(Chunk)
                          /\ Len(content[r[p].fd]) \in Nat
  <2>1. r[p].pc # "idle" => r[p].fd \in Inodes
    BY <1>1 DEF ReaderRec, ReaderHolds, Name
  <2> QED
    BY <2>1, <1>1, LenProperties
<1>3. FileInv => Follows(r[p], seen[p], content) /\ seen \in [Readers -> SUBSET (Seq(Chunk) \cup {NULL})]
  BY DEF FileInv, Following, SeenType
<1>4. ASSUME NEW l \in {"size", "stat"}, OpenForReading(p, l)
      PROVE  \E rec \in ReaderRec : ReaderGoes(p, rec)
  <2> DEFINE rec == [IdleReader EXCEPT !.pc = l, !.fd = path]
  <2>1. path # NULL
    BY <1>4 DEF OpenForReading
  <2>2. /\ rec \in ReaderRec /\ rec.pc = l /\ rec.fd = path /\ rec.buf = FALSE
        /\ rec.got = <<>> /\ rec.ret = "none"
    <3>1. IdleReader \in ReaderRec
      BY DEF IdleReader, ReaderRec, Name
    <3>2. rec \in ReaderRec
      BY <3>1, <1>1 DEF ReaderRec
    <3> QED
      BY <3>2 DEF IdleReader
  <2>3. /\ r' = [r EXCEPT ![p] = rec] /\ UNCHANGED <<path, tmp, content, w, leftover>>
        /\ seen' = [seen EXCEPT ![p] = {content[path]}]
    BY <1>4 DEF OpenForReading
  <2> HIDE DEF rec
  <2>4. ReaderHolds(rec)
    BY <2>1, <2>2 DEF ReaderHolds
  <2>5. FileInv => seen'[p] = {content[path]}
    BY <1>3, <2>3
  <2>6. FileInv => Follows(rec, seen'[p], content)
    BY <2>2, <2>5 DEF Follows
  <2> QED
    BY <2>1, <2>2, <2>3, <2>4, <2>6 DEF ReaderGoes
<1>5. CASE ReadSize(p)
  <2> DEFINE rec == [r[p] EXCEPT !.pc = "read", !.len = Len(content[r[p].fd]), !.buf = TRUE]
  <2>1. r[p].pc = "size"
    BY <1>5 DEF ReadSize, ReaderIs
  <2>2. /\ rec \in ReaderRec /\ rec.pc = "read" /\ rec.fd = r[p].fd /\ rec.buf
        /\ rec.len = Len(content[r[p].fd]) /\ rec.got = r[p].got /\ rec.ret = r[p].ret
    BY <1>1, <1>2, <2>1 DEF ReaderRec
  <2>3. r' = [r EXCEPT ![p] = rec] /\ UNCHANGED <<path, tmp, content, w, seen, leftover>>
    BY <1>5 DEF ReadSize, ReaderSteps
  <2> HIDE DEF rec
  <2>4. ReaderHolds(rec)
    BY <1>1, <2>1, <2>2 DEF ReaderHolds
  <2>5. FileInv => Follows(rec, seen'[p], content)
    <3> SUFFICES ASSUME FileInv
                 PROVE  Follows(rec, seen'[p], content)
      OBVIOUS
    <3>1. r[p].got = <<>> /\ content[r[p].fd] \in seen[p]
      BY <1>3, <2>1 DEF Follows
    <3>2. Len(rec.got) = 0 /\ Len(content[r[p].fd]) \in Nat
      BY <3>1, <2>1, <2>2, <1>2
    <3> QED
      BY <3>1, <3>2, <2>2, <2>3 DEF Follows
  <2> QED
    BY <2>2, <2>3, <2>4, <2>5 DEF ReaderGoes
<1>6. CASE ReadChunk(p)
  <2> DEFINE n == Len(r[p].got)
             chunk == content[r[p].fd][n + 1]
             rec == [r[p] EXCEPT !.got = Append(@, chunk)]
  <2>1. r[p].pc = "read" /\ n < r[p].len /\ n < Len(content[r[p].fd])
    BY <1>6 DEF ReadChunk, ReaderIs
  <2>2. r[p].got \in Seq(Chunk) /\ n \in Nat /\ r[p].len \in Nat
    BY <1>1, LenProperties DEF ReaderRec
  <2>3. chunk \in Chunk
    <3>1. n + 1 \in 1 .. Len(content[r[p].fd])
      BY <2>1, <2>2, <1>2
    <3> QED
      BY <3>1, <2>1, <1>2, ElementOfSeq
  <2>4. r' = [r EXCEPT ![p] = rec] /\ UNCHANGED <<path, tmp, content, w, seen, leftover>>
    BY <1>6 DEF ReadChunk, ReaderSteps
  <2> HIDE DEF chunk
  <2>5. /\ Append(r[p].got, chunk) \in Seq(Chunk) /\ Len(Append(r[p].got, chunk)) = n + 1
        /\ Append(r[p].got, chunk)[n + 1] = chunk
        /\ \A k \in 1 .. n : Append(r[p].got, chunk)[k] = r[p].got[k]
    BY <2>2, <2>3, AppendProperties
  <2>6. /\ rec \in ReaderRec /\ rec.pc = "read" /\ rec.fd = r[p].fd /\ rec.buf = r[p].buf
        /\ rec.len = r[p].len /\ rec.got = Append(r[p].got, chunk) /\ rec.ret = r[p].ret
    BY <1>1, <2>1, <2>5 DEF ReaderRec
  <2> HIDE DEF rec
  <2>7. ReaderHolds(rec)
    BY <1>1, <2>1, <2>6 DEF ReaderHolds
  <2>8. FileInv => Follows(rec, seen'[p], content)
    <3> SUFFICES ASSUME FileInv
                 PROVE  Follows(rec, seen'[p], content)
      OBVIOUS
    <3>1. /\ content[r[p].fd] \in seen[p] /\ r[p].len = Len(content[r[p].fd])
          /\ \A k \in 1 .. n : r[p].got[k] = content[r[p].fd][k]
      BY <1>3, <2>1 DEF Follows
    <3>2. \A k \in 1 .. n + 1 : rec.got[k] = content[r[p].fd][k]
      <4>1. \A k \in 1 .. n + 1 : k \in 1 .. n \/ k = n + 1
        BY <2>2
      <4> QED
        BY <4>1, <3>1, <2>5, <2>6 DEF chunk
    <3>3. n + 1 <= r[p].len
      BY <2>1, <2>2
    <3> QED
      BY <3>1, <3>2, <3>3, <2>4, <2>5, <2>6 DEF Follows
  <2> QED
    BY <2>4, <2>6, <2>7, <2>8 DEF ReaderGoes
<1>7. CASE ReadDone(p)
  <2> DEFINE rec == [r[p] EXCEPT !.pc = "idle", !.fd = NULL, !.ret = "ok"]
  <2>1. r[p].pc = "read" /\ Len(r[p].got) = r[p].len
    BY <1>7 DEF ReadDone, ReaderIs
  <2>2. /\ rec \in ReaderRec /\ rec.pc = "idle" /\ rec.fd = NULL /\ rec.got = r[p].got
        /\ rec.ret = "ok"
    BY <1>1 DEF ReaderRec, Name
  <2>3. r' = [r EXCEPT ![p] = rec] /\ UNCHANGED <<path, tmp, content, w, seen, leftover>>
    BY <1>7 DEF ReadDone, ReaderSteps
  <2> HIDE DEF rec
  <2>4. ReaderHolds(rec)
    BY <2>2 DEF ReaderHolds
  <2>5. FileInv => Follows(rec, seen'[p], content)
    <3> SUFFICES ASSUME FileInv
                 PROVE  Follows(rec, seen'[p], content)
      OBVIOUS
    <3>1. /\ content[r[p].fd] \in seen[p] /\ r[p].len = Len(content[r[p].fd])
          /\ \A k \in 1 .. Len(r[p].got) : r[p].got[k] = content[r[p].fd][k]
      BY <1>3, <2>1 DEF Follows
    <3>2. r[p].got \in Seq(Chunk) /\ content[r[p].fd] \in Seq(Chunk)
      BY <1>1, <1>2, <2>1 DEF ReaderRec
    <3>3. r[p].got = content[r[p].fd]
      BY <3>1, <3>2, <2>1, SameFile
    <3> QED
      BY <3>1, <3>3, <2>2, <2>3 DEF Follows
  <2> QED
    BY <2>2, <2>3, <2>4, <2>5 DEF ReaderGoes
<1>8. ASSUME NEW rec, rec = Error \/ rec = IdleReader \/ rec = [IdleReader EXCEPT !.ret = "ok"],
             ReaderSteps(p, rec)
      PROVE  \E x \in ReaderRec : ReaderGoes(p, x)
  <2>1. rec \in ReaderRec /\ rec.pc = "idle" /\ rec.fd = NULL /\ rec.buf = FALSE
    <3>1. /\ IdleReader \in ReaderRec /\ IdleReader.pc = "idle" /\ IdleReader.fd = NULL
          /\ IdleReader.buf = FALSE
      BY DEF IdleReader, ReaderRec, Name
    <3>2. \A x \in {"ok", "error"} :
            /\ [IdleReader EXCEPT !.ret = x] \in ReaderRec
            /\ [IdleReader EXCEPT !.ret = x].pc = "idle"
            /\ [IdleReader EXCEPT !.ret = x].fd = NULL
            /\ [IdleReader EXCEPT !.ret = x].buf = FALSE
      BY <3>1 DEF ReaderRec
    <3> QED
      BY <1>8, <3>1, <3>2 DEF Error
  <2>2. r' = [r EXCEPT ![p] = rec] /\ UNCHANGED <<path, tmp, content, w, seen, leftover>>
    BY <1>8 DEF ReaderSteps
  <2>3. ReaderHolds(rec) /\ Follows(rec, seen'[p], content)
    BY <2>1 DEF ReaderHolds, Follows
  <2> QED
    BY <2>1, <2>2, <2>3 DEF ReaderGoes
<1>9. CASE MmapOk(p)
  <2> DEFINE c == content[r[p].fd]
             rec == [r[p] EXCEPT !.pc = "mapped", !.len = Len(c), !.got = c, !.ret = "ok"]
  <2>1. r[p].pc = "stat"
    BY <1>9 DEF MmapOk, ReaderIs
  <2>2. r' = [r EXCEPT ![p] = rec] /\ UNCHANGED <<path, tmp, content, w, seen, leftover>>
    BY <1>9 DEF MmapOk, ReaderSteps
  <2>3. c \in Seq(Chunk) /\ Len(c) \in Nat
    BY <1>2, <2>1
  <2>4. FileInv => content[r[p].fd] \in seen[p]
    BY <1>3, <2>1 DEF Follows
  <2>5. c = content[r[p].fd]
    OBVIOUS
  <2> HIDE DEF c
  <2>6. /\ rec \in ReaderRec /\ rec.pc = "mapped" /\ rec.fd = r[p].fd /\ rec.buf = r[p].buf
        /\ rec.len = Len(c) /\ rec.got = c /\ rec.ret = "ok"
    BY <1>1, <2>3 DEF ReaderRec
  <2> HIDE DEF rec
  <2>7. ReaderHolds(rec)
    BY <1>1, <2>1, <2>6 DEF ReaderHolds
  <2>8. FileInv => Follows(rec, seen'[p], content)
    BY <2>2, <2>4, <2>5, <2>6 DEF Follows
  <2> QED
    BY <2>2, <2>6, <2>7, <2>8 DEF ReaderGoes
<1> QED
  BY <1>4, <1>5, <1>6, <1>7, <1>8, <1>9
     DEF ReadCall, MmapCall, ReadFails, MmapFails, FileMunmap, FreeBuffer

LEMMA HandleInvNext == HandleInv /\ [Next]_vars => HandleInv'
<1> SUFFICES ASSUME HandleInv, [Next]_vars
             PROVE  HandleInv'
  OBVIOUS
<1>1. CASE UNCHANGED vars
  BY <1>1 DEF vars, HandleInv, TypeOK, TmpIsCleanedUp, WriterIs
<1>2. ASSUME NEW p \in Writers,
             \/ \E v \in Versions : WriteCall(p, v)
             \/ OpenTmp(p) \/ OpenTmpFails(p) \/ WriteChunk(p) \/ WriteFails(p) \/ CloseTmp(p)
             \/ RenameOk(p) \/ RenameFails(p) \/ RemoveTmp(p) \/ Kill(p)
      PROVE  HandleInv'
  BY <1>2, HandleInvWriter
<1>3. ASSUME NEW p \in Readers,
             \/ ~r[p].buf /\ (ReadCall(p) \/ MmapCall(p))
             \/ ReadSize(p) \/ ReadChunk(p) \/ ReadDone(p) \/ ReadFails(p)
             \/ MmapOk(p) \/ MmapFails(p) \/ FileMunmap(p) \/ FreeBuffer(p)
      PROVE  HandleInv'
  <2>1. PICK rec \in ReaderRec : ReaderGoes(p, rec)
    BY <1>3, ReaderStep
  <2> QED
    BY <2>1, ReaderMoves DEF ReaderGoes
<1> QED
  BY <1>1, <1>2, <1>3 DEF Next

LEMMA HandleInvariant == Spec => []HandleInv
<1> QED
  BY HandleInvInit, HandleInvNext, PTL DEF Spec

(***************************************************************************)
(* A call of file_write_all, file_read_all or file_mmap_read that has      *)
(* returned leaves no temporary file, no descriptor and, if it failed, no  *)
(* buffer, whether or not writers take turns.                              *)
(***************************************************************************)
THEOREM CleanUp == Spec => []NothingIsLeft
<1>1. HandleInv => NothingIsLeft
  BY DEF HandleInv, ReaderHolds, NothingIsLeft, HandlesAreReleased, ReaderIs
<1> QED
  BY <1>1, HandleInvariant, PTL

-----------------------------------------------------------------------------
(* When writers take turns *)

LEMMA FileInvInit == Init => FileInv
<1> SUFFICES ASSUME Init
             PROVE  FileInv
  OBVIOUS
<1>1. \A p \in Writers : w[p].pc = "idle"
  BY DEF Init, IdleWriter
<1>2. \A q \in Readers : r[q].pc = "idle" /\ r[q].buf = FALSE
  BY DEF Init, IdleReader
<1>3. path = NULL /\ tmp = NULL /\ seen \in [Readers -> SUBSET (Seq(Chunk) \cup {NULL})]
  BY DEF Init
<1>4. Following
  BY <1>2 DEF Following, Follows
<1> QED
  BY <1>1, <1>3, <1>4 DEF FileInv, Alone, Aside, Progress, PathIsWhole, SeenType

\* Nobody else is writing.
LEMMA Exclusion ==
  ASSUME FileInv, NEW p \in Writers, w[p].pc # "idle"
  PROVE  \A q \in Writers \ {p} : w[q].pc = "idle"
BY DEF FileInv, Alone

\* A writer that is alone stays alone, and its own progress is all there is.
LEMMA StaysAlone ==
  ASSUME NEW p \in Writers, NEW l, Moved(p, l), \A q \in Writers \ {p} : w[q].pc = "idle"
  PROVE  Alone' /\ \A q \in Writers \ {p} : w'[q].pc = "idle"
BY DEF Alone, Moved

\* Open files do not change: the readers still follow them.
LEMMA ReadersFollow ==
  ASSUME HandleInv, FileInv, UNCHANGED r, Observe \/ UNCHANGED seen,
         \A q \in Readers : r[q].pc # "idle" => content'[r[q].fd] = content[r[q].fd],
         content' \in [Inodes -> Seq(Chunk)], path' \in Name
  PROVE  Following' /\ SeenType'
<1>1. seen \in [Readers -> SUBSET (Seq(Chunk) \cup {NULL})]
  BY DEF FileInv, SeenType
<1>2. Held(path', content') \in Seq(Chunk) \cup {NULL}
  BY DEF Held, Name
<1>3. seen' \in [Readers -> SUBSET (Seq(Chunk) \cup {NULL})] /\ \A q \in Readers : seen[q] \subseteq seen'[q]
  BY <1>1, <1>2 DEF Observe
<1>4. ASSUME NEW q \in Readers
      PROVE  Follows(r'[q], seen'[q], content')
  <2>1. Follows(r[q], seen[q], content) /\ seen[q] \subseteq seen'[q] /\ r'[q] = r[q]
    BY <1>3 DEF FileInv, Following
  <2>2. r[q].pc # "idle" => content'[r[q].fd] = content[r[q].fd]
    OBVIOUS
  <2>3. r[q].pc = "idle" => Follows(r[q], seen'[q], content')
    BY <2>1 DEF Follows
  <2>4. r[q].pc # "idle" => Follows(r[q], seen'[q], content')
    BY <2>1, <2>2 DEF Follows
  <2> QED
    BY <2>1, <2>3, <2>4
<1> QED
  BY <1>3, <1>4 DEF Following, SeenType

\* A step of the one writer that leaves the files alone.
LEMMA QuietStep ==
  ASSUME HandleInv, FileInv, NEW p \in Writers, NEW l, Moved(p, l),
         \A q \in Writers \ {p} : w[q].pc = "idle",
         UNCHANGED <<path, content, r, seen>>, tmp' \in {tmp, NULL},
         /\ l \in {"open", "rename"} => w'[p].version \in Versions
         /\ l = "open" => w'[p].off = 0
         /\ l = "rename" => /\ tmp' # NULL
                            /\ Prefix(content[tmp], w'[p].version, w'[p].version),
         l # "write"
  PROVE  FileInv'
<1>1. Alone' /\ \A q \in Writers \ {p} : w'[q].pc = "idle"
  BY StaysAlone
<1>2. Aside'
  BY DEF FileInv, Aside
<1>3. w'[p].pc = l
  BY DEF Moved
<1>4. Progress'
  BY <1>1, <1>3 DEF Progress
<1>5. PathIsWhole'
  BY DEF FileInv, PathIsWhole
<1>6. content \in [Inodes -> Seq(Chunk)] /\ path \in Name
  BY Typed DEF HandleInv
<1>7. Following' /\ SeenType'
  BY <1>6, ReadersFollow
<1> QED
  BY <1>1, <1>2, <1>4, <1>5, <1>7 DEF FileInv

\* A step of the one writer that changes its temporary file, whose inode
\* nobody else knows.
LEMMA WritingStep ==
  ASSUME HandleInv, FileInv, NEW p \in Writers, Moved(p, "write"),
         \A q \in Writers \ {p} : w[q].pc = "idle",
         UNCHANGED <<path, r>>, Observe, NEW d \in Inodes, tmp' = d,
         d # path, \A q \in Readers : r[q].fd # d,
         content' \in [Inodes -> Seq(Chunk)],
         \A j \in Inodes \ {d} : content'[j] = content[j],
         w'[p].fd = d, w'[p].version \in Versions, w'[p].off <= w'[p].version,
         Prefix(content'[d], w'[p].off, w'[p].version)
  PROVE  /\ FileInv' /\ Held(path, content)' = Held(path, content)
<1>1. Alone' /\ \A q \in Writers \ {p} : w'[q].pc = "idle"
  BY StaysAlone
<1>2. Aside'
  BY DEF Aside
<1>3. w'[p].pc = "write"
  BY DEF Moved
<1>4. Progress'
  BY <1>1, <1>3 DEF Progress
<1>5. path \in Inodes \cup {NULL} /\ path \in Name
  BY DEF HandleInv, TypeOK, Name
<1>6. path # NULL => content'[path] = content[path]
  BY <1>5
<1>7. PathIsWhole'
  BY <1>6 DEF FileInv, PathIsWhole
<1>8. \A q \in Readers : r[q].pc # "idle" => content'[r[q].fd] = content[r[q].fd]
  <2>1. \A q \in Readers : r[q].pc # "idle" => r[q].fd \in Inodes
    BY Typed DEF HandleInv, ReaderHolds, ReaderRec, Name
  <2> QED
    BY <2>1
<1>9. Following' /\ SeenType'
  BY <1>5, <1>8, ReadersFollow
<1>10. Held(path, content)' = Held(path, content)
  BY <1>6 DEF Held
<1> QED
  BY <1>1, <1>2, <1>4, <1>7, <1>9, <1>10 DEF FileInv

\* What a step of file_write_all does to what the path holds.
Replaces(p) == /\ WriterIs(p, "rename")
               /\ w'[p].ret = "ok"
               /\ Held(path, content)' = Whole(w[p].version)

LEMMA FileInvWriter ==
  ASSUME Exclusive, HandleInv, FileInv, NEW p \in Writers,
         \/ \E v \in Versions : WriteCall(p, v)
         \/ OpenTmp(p) \/ OpenTmpFails(p) \/ WriteChunk(p) \/ WriteFails(p) \/ CloseTmp(p)
         \/ RenameOk(p) \/ RenameFails(p) \/ RemoveTmp(p) \/ Kill(p)
  PROVE  FileInv' /\ (Held(path, content)' = Held(path, content) \/ Replaces(p))
<1>T. TypeOK
  BY DEF HandleInv
<1>U. content \in [Inodes -> Seq(Chunk)] /\ path \in Name /\ tmp \in Inodes \cup {NULL}
  BY <1>T, Typed DEF Name
<1>P. /\ w[p].pc \in {"open", "write", "rename"} => w[p].version \in Versions
      /\ w[p].pc = "open" => w[p].off = 0
      /\ w[p].pc = "write" => /\ w[p].fd = tmp /\ w[p].off <= w[p].version
                              /\ Prefix(content[tmp], w[p].off, w[p].version)
      /\ w[p].pc = "rename" => tmp # NULL /\ Prefix(content[tmp], w[p].version, w[p].version)
  BY DEF FileInv, Progress
<1>A. tmp # NULL => tmp # path /\ \A q \in Readers : r[q].fd # tmp
  BY DEF FileInv, Aside
<1>E. w[p].pc # "idle" => \A q \in Writers \ {p} : w[q].pc = "idle"
  BY Exclusion
<1>H. path' = path /\ content' = content => Held(path, content)' = Held(path, content)
  BY DEF Held
<1>1. CASE \E v \in Versions : WriteCall(p, v)
  <2>1. PICK v \in Versions : WriteCall(p, v)
    BY <1>1
  <2>2. /\ Moved(p, "open") /\ w'[p].version = v /\ w'[p].off = 0
        /\ \A q \in Writers \ {p} : w[q].pc = "idle"
        /\ UNCHANGED <<path, tmp, content, r, seen>>
    BY <2>1, <1>T, CallMoves DEF WriteCall, WriterIs
  <2>3. FileInv'
    BY <2>2, QuietStep
  <2> QED
    BY <2>2, <2>3, <1>H
<1>2. CASE OpenTmp(p)
  <2>1. PICK d \in Inodes : /\ tmp' = d /\ content' = [content EXCEPT ![d] = <<>>]
                            /\ w' = Opened(p, d)
                            /\ tmp # NULL => d = tmp
                            /\ tmp = NULL => d # path /\ \A q \in Readers : r[q].fd # d
    BY <1>2, OpenGets
  <2>2. w[p].pc = "open" /\ path' = path /\ r' = r /\ Observe
    BY <1>2 DEF OpenTmp, WriterIs
  <2>3. /\ Moved(p, "write") /\ w'[p].fd = d
        /\ w'[p].version = w[p].version /\ w'[p].off = w[p].off
    BY <2>1, <1>T, OpenMoves
  <2>4. d # path /\ \A q \in Readers : r[q].fd # d
    BY <2>1, <1>A
  <2>5. /\ content' \in [Inodes -> Seq(Chunk)] /\ content'[d] = <<>>
        /\ \A j \in Inodes \ {d} : content'[j] = content[j]
    BY <2>1, <1>U
  <2>6. /\ w'[p].version \in Versions /\ w'[p].off <= w'[p].version
        /\ Prefix(content'[d], w'[p].off, w'[p].version)
    <3>1. w'[p].version \in Versions /\ w'[p].off = 0
      BY <2>2, <2>3, <1>P
    <3>2. w'[p].version \in Nat
      BY <3>1, VersionsAssumption
    <3> QED
      BY <3>1, <3>2, <2>5 DEF Prefix
  <2> QED
    BY <2>1, <2>2, <2>3, <2>4, <2>5, <2>6, <1>E, WritingStep
<1>3. CASE OpenTmpFails(p)
  <2>1. /\ Moved(p, "idle") /\ w[p].pc # "idle"
        /\ UNCHANGED <<path, tmp, content, r, seen>>
    BY <1>3, <1>T, ReturnMoves DEF OpenTmpFails, WriterIs
  <2>2. FileInv'
    BY <2>1, <1>E, QuietStep
  <2> QED
    BY <2>1, <2>2, <1>H
<1>4. CASE WriteChunk(p)
  <2>1. w[p].pc = "write" /\ path' = path /\ tmp' = tmp /\ r' = r /\ Observe
    BY <1>4 DEF WriteChunk, WriterIs
  <2>2. /\ Moved(p, "write") /\ w'[p].fd = w[p].fd
        /\ w'[p].version = w[p].version /\ w'[p].off = w[p].off + 1
    BY <1>4, <2>1, <1>T, ChunkMoves DEF WriteChunk
  <2>3. /\ w[p].fd \in Inodes /\ w[p].off \in Nat /\ w[p].version \in Versions
        /\ w[p].version \in Nat /\ w[p].off < w[p].version
        /\ Put(content[w[p].fd], w[p].off, w[p].version) \in Seq(Chunk)
        /\ content' = [content EXCEPT ![w[p].fd] = Put(content[w[p].fd], w[p].off, w[p].version)]
    BY <1>4, ChunkGoes
  <2>4. PICK d \in Inodes : d = w[p].fd /\ d = tmp
    BY <2>1, <2>3, <1>P
  <2>5. d # path /\ \A q \in Readers : r[q].fd # d
    BY <2>4, <1>A, InodesAssumption
  <2>6. /\ content' \in [Inodes -> Seq(Chunk)]
        /\ content'[d] = Put(content[d], w[p].off, w[p].version)
        /\ \A j \in Inodes \ {d} : content'[j] = content[j]
    BY <2>3, <2>4, <1>U
  <2>7. Prefix(content'[d], w'[p].off, w'[p].version)
    <3>1. content[d] \in Seq(Chunk) /\ w[p].version \in Chunk /\ Prefix(content[d], w[p].off, w[p].version)
      BY <2>1, <2>3, <2>4, <1>U, <1>P DEF Chunk
    <3> QED
      BY <3>1, <2>2, <2>3, <2>6, PutExtends
  <2>8. w'[p].version \in Versions /\ w'[p].off <= w'[p].version
    BY <2>2, <2>3
  <2> QED
    BY <2>1, <2>2, <2>4, <2>5, <2>6, <2>7, <2>8, <1>E, WritingStep
<1>5. CASE WriteFails(p)
  <2>1. /\ Moved(p, "remove") /\ w[p].pc # "idle"
        /\ UNCHANGED <<path, tmp, content, r, seen>>
    BY <1>5, <1>T, CloseMoves DEF WriteFails, WriterIs
  <2>2. FileInv'
    BY <2>1, <1>E, QuietStep
  <2> QED
    BY <2>1, <2>2, <1>H
<1>6. CASE CloseTmp(p)
  <2>1. /\ Moved(p, "rename") /\ w[p].pc = "write" /\ w'[p].version = w[p].version
        /\ w[p].off = w[p].version
        /\ UNCHANGED <<path, tmp, content, r, seen>>
    BY <1>6, <1>T, CloseMoves DEF CloseTmp, WriterIs
  <2>2. tmp # NULL
    BY <2>1, <1>T, <1>P, Typed
  <2>3. FileInv'
    BY <2>1, <2>2, <1>P, <1>E, QuietStep
  <2> QED
    BY <2>1, <2>3, <1>H
<1>7. CASE RenameOk(p)
  <2>1. /\ Moved(p, "idle") /\ w'[p].ret = "ok" /\ w[p].pc = "rename"
        /\ UNCHANGED <<content, r>> /\ path' = tmp /\ tmp' = NULL /\ Observe
    BY <1>7, <1>T, ReturnMoves DEF RenameOk, WriterIs
  <2>2. tmp # NULL /\ tmp \in Inodes /\ w[p].version \in Versions
    BY <2>1, <1>P, <1>U
  <2>3. content[tmp] = Whole(w[p].version)
    <3>1. content[tmp] \in Seq(Chunk) /\ w[p].version \in Nat
      BY <2>2, <1>U, VersionsAssumption
    <3> QED
      BY <3>1, <2>1, <1>P, PrefixWhole
  <2>4. PathIsWhole'
    BY <2>1, <2>2, <2>3 DEF PathIsWhole
  <2>5. Alone' /\ Progress'
    <3>1. Alone' /\ \A q \in Writers \ {p} : w'[q].pc = "idle"
      BY <2>1, <1>E, StaysAlone
    <3>2. w'[p].pc = "idle"
      BY <2>1 DEF Moved
    <3> QED
      BY <3>1, <3>2 DEF Progress
  <2>6. Aside'
    BY <2>1 DEF Aside
  <2>7. Following' /\ SeenType'
    BY <2>1, <2>2, <1>U, ReadersFollow DEF Name
  <2>8. Replaces(p)
    BY <2>1, <2>2, <2>3 DEF Replaces, Held, WriterIs
  <2> QED
    BY <2>4, <2>5, <2>6, <2>7, <2>8 DEF FileInv
<1>8. CASE RenameFails(p)
  <2>1. /\ Moved(p, "remove") /\ w[p].pc # "idle"
        /\ UNCHANGED <<path, tmp, content, r, seen>>
    BY <1>8, <1>T, GiveUpMoves DEF RenameFails, WriterIs
  <2>2. FileInv'
    BY <2>1, <1>E, QuietStep
  <2> QED
    BY <2>1, <2>2, <1>H
<1>9. CASE RemoveTmp(p)
  <2>1. /\ Moved(p, "idle") /\ w[p].pc # "idle" /\ tmp' \in {tmp, NULL}
        /\ UNCHANGED <<path, content, r, seen>>
    BY <1>9, <1>T, ReturnMoves DEF RemoveTmp, WriterIs
  <2>2. FileInv'
    BY <2>1, <1>E, QuietStep
  <2> QED
    BY <2>1, <2>2, <1>H
<1>10. CASE Kill(p)
  <2>1. /\ Moved(p, "idle") /\ w[p].pc # "idle"
        /\ UNCHANGED <<path, tmp, content, r, seen>>
    BY <1>10, <1>T, KillMoves DEF Kill, WriterIs
  <2>2. FileInv'
    BY <2>1, <1>E, QuietStep
  <2> QED
    BY <2>1, <2>2, <1>H
<1> QED
  BY <1>1, <1>2, <1>3, <1>4, <1>5, <1>6, <1>7, <1>8, <1>9, <1>10

LEMMA FileInvReader ==
  ASSUME HandleInv, FileInv, NEW p \in Readers, NEW rec \in ReaderRec, ReaderGoes(p, rec)
  PROVE  FileInv' /\ Held(path, content)' = Held(path, content)
<1>1. /\ r' = [r EXCEPT ![p] = rec] /\ UNCHANGED <<path, tmp, content, w>>
      /\ rec.fd \in {NULL, r[p].fd, path}
      /\ \/ seen' = seen
         \/ path # NULL /\ seen' = [seen EXCEPT ![p] = {content[path]}]
      /\ Follows(rec, seen'[p], content)
  BY DEF ReaderGoes
<1>2. /\ r \in [Readers -> ReaderRec] /\ content \in [Inodes -> Seq(Chunk)]
      /\ path \in Inodes \cup {NULL}
  BY Typed DEF HandleInv, Name
<1>3. r'[p] = rec /\ \A q \in Readers \ {p} : r'[q] = r[q]
  BY <1>1, <1>2
<1>4. seen \in [Readers -> SUBSET (Seq(Chunk) \cup {NULL})]
  BY DEF FileInv, SeenType
<1>5. SeenType' /\ \A q \in Readers \ {p} : seen'[q] = seen[q]
  <2>1. path # NULL => content[path] \in Seq(Chunk) \cup {NULL}
    BY <1>2
  <2> QED
    BY <1>1, <1>4, <2>1 DEF SeenType
<1>6. Following'
  BY <1>1, <1>3, <1>5 DEF FileInv, Following
<1>7. Aside'
  <2>1. tmp # NULL => tmp # path /\ \A q \in Readers : r[q].fd # tmp
    BY DEF FileInv, Aside
  <2>2. tmp # NULL => \A q \in Readers : r'[q].fd # tmp
    BY <2>1, <1>1, <1>3
  <2> QED
    BY <2>1, <2>2, <1>1 DEF Aside
<1>8. Alone' /\ Progress' /\ PathIsWhole'
  BY <1>1 DEF FileInv, Alone, Progress, PathIsWhole
<1>9. Held(path, content)' = Held(path, content)
  BY <1>1 DEF Held
<1> QED
  BY <1>5, <1>6, <1>7, <1>8, <1>9 DEF FileInv

LEMMA FileInvNext ==
  ASSUME Exclusive, HandleInv, FileInv, [Next]_vars
  PROVE  /\ FileInv'
         /\ Held(path, content)' = Held(path, content) \/ \E p \in Writers : Replaces(p)
<1>1. CASE UNCHANGED vars
  BY <1>1 DEF vars, FileInv, Alone, Aside, Progress, PathIsWhole, Following, SeenType, Held
<1>2. ASSUME NEW p \in Writers,
             \/ \E v \in Versions : WriteCall(p, v)
             \/ OpenTmp(p) \/ OpenTmpFails(p) \/ WriteChunk(p) \/ WriteFails(p) \/ CloseTmp(p)
             \/ RenameOk(p) \/ RenameFails(p) \/ RemoveTmp(p) \/ Kill(p)
      PROVE  FileInv' /\ (Held(path, content)' = Held(path, content) \/ Replaces(p))
  BY <1>2, FileInvWriter
<1>3. ASSUME NEW p \in Readers,
             \/ ~r[p].buf /\ (ReadCall(p) \/ MmapCall(p))
             \/ ReadSize(p) \/ ReadChunk(p) \/ ReadDone(p) \/ ReadFails(p)
             \/ MmapOk(p) \/ MmapFails(p) \/ FileMunmap(p) \/ FreeBuffer(p)
      PROVE  FileInv' /\ Held(path, content)' = Held(path, content)
  <2>1. PICK rec \in ReaderRec : ReaderGoes(p, rec)
    BY <1>3, ReaderStep
  <2> QED
    BY <2>1, FileInvReader
<1> QED
  BY <1>1, <1>2, <1>3 DEF Next

LEMMA FileInvariant == Exclusive => (Spec => []FileInv)
<1> SUFFICES ASSUME Exclusive
             PROVE  Spec => []FileInv
  OBVIOUS
<1>1. HandleInv /\ FileInv /\ [Next]_vars => FileInv'
  BY FileInvNext
<1> QED
  BY <1>1, FileInvInit, HandleInvariant, PTL DEF Spec

(***************************************************************************)
(* When the callers of file_write_all take turns, the path holds nothing   *)
(* or one version, complete: whatever fails and whenever one is killed.    *)
(***************************************************************************)
THEOREM AtomicWrite == Exclusive => (Spec => []PathIsWhole)
<1>1. FileInv => PathIsWhole
  BY DEF FileInv
<1> QED
  BY <1>1, FileInvariant, PTL

(***************************************************************************)
(* When they take turns, a file_read_all that succeeds returns what the    *)
(* path held at one moment since the call, and a mapping does not change.  *)
(***************************************************************************)
THEOREM OneVersion == Exclusive => (Spec => []ReadersSeeOneVersion)
<1>1. FileInv => ReadersSeeOneVersion
  BY DEF FileInv, Following, Follows, ReadersSeeOneVersion, ReaderIs
<1> QED
  BY <1>1, FileInvariant, PTL

(***************************************************************************)
(* When they take turns, what the path holds changes only when a           *)
(* file_write_all returns ERR_OK, and then to what was written.            *)
(***************************************************************************)
THEOREM OnlySuccess == Exclusive => (Spec => OnlySuccessReplaces)
<1> SUFFICES ASSUME Exclusive
             PROVE  Spec => OnlySuccessReplaces
  OBVIOUS
<1>1. ASSUME HandleInv, FileInv, [Next]_vars
      PROVE  [Held(path, content)' # Held(path, content) =>
                \E p \in Writers : /\ WriterIs(p, "rename")
                                   /\ w'[p].ret = "ok"
                                   /\ Held(path, content)' = Whole(w[p].version)]_vars
  BY <1>1, FileInvNext DEF Replaces
<1> QED
  BY <1>1, HandleInvariant, FileInvariant, PTL DEF Spec, OnlySuccessReplaces

-----------------------------------------------------------------------------
(* MkDirs: the prefixes of the paths *)

\* The first k names of the path of m.
Part(m, k) == SubSeq(PathOf[m], 1, k)
Depth(m) == Len(PathOf[m])

LEMMA Beginnings ==
  ASSUME NEW m \in Makers, NEW k \in 0 .. Depth(m)
  PROVE  /\ Part(m, k) \in Seq(STRING) /\ Len(Part(m, k)) = k /\ Depth(m) \in Nat
         /\ \A j \in 1 .. k : Part(m, k)[j] = PathOf[m][j]
         /\ \A j \in 0 .. k : SubSeq(Part(m, k), 1, j) = Part(m, j)
<1>1. PathOf[m] \in Seq(STRING) /\ Len(PathOf[m]) \in Nat
  BY PathsAssumption
<1>2. \A d \in 0 .. Depth(m) : /\ Part(m, d) \in Seq(STRING) /\ Len(Part(m, d)) = d
                               /\ \A j \in 1 .. d : Part(m, d)[j] = PathOf[m][j]
  BY <1>1 DEF Part, Depth
<1>3. ASSUME NEW j \in 0 .. k PROVE SubSeq(Part(m, k), 1, j) = Part(m, j)
  <2>0. j \in 0 .. Depth(m) /\ k \in Nat /\ j <= k
    BY <1>1 DEF Depth
  <2>1. /\ SubSeq(Part(m, k), 1, j) \in Seq(STRING) /\ Len(SubSeq(Part(m, k), 1, j)) = j
        /\ \A l \in 1 .. j : SubSeq(Part(m, k), 1, j)[l] = Part(m, k)[l]
    BY <1>2, <2>0
  <2>2. \A l \in 1 .. j : Part(m, k)[l] = Part(m, j)[l]
    BY <1>2, <2>0
  <2> QED
    BY <1>2, <2>0, <2>1, <2>2, SeqEqual
<1> QED
  BY <1>1, <1>2, <1>3 DEF Depth

\* Every path is the beginning of some maker's.
LEMMA PathsAre ==
  /\ \A m \in Makers : \A k \in 1 .. Depth(m) : Part(m, k) \in M!AllPaths
  /\ \A p \in M!AllPaths : \E m \in Makers : \E k \in 1 .. Depth(m) : p = Part(m, k)
  /\ \A m \in Makers : M!Prefixes(PathOf[m]) \ {<<>>} = {Part(m, k) : k \in 1 .. Depth(m)}
<1>1. ASSUME NEW m \in Makers
      PROVE  M!Prefixes(PathOf[m]) \ {<<>>} = {Part(m, k) : k \in 1 .. Depth(m)}
  <2>1. Depth(m) \in Nat /\ M!Prefixes(PathOf[m]) = {Part(m, k) : k \in 0 .. Depth(m)}
    BY PathsAssumption DEF M!Prefixes, Part, Depth
  <2>2. \A k \in 0 .. Depth(m) : Part(m, k) \in Seq(STRING) /\ Len(Part(m, k)) = k
    BY Beginnings
  <2>3. Part(m, 0) = <<>>
    BY <2>1, <2>2, EmptySeq
  <2>4. \A k \in 1 .. Depth(m) : Part(m, k) # <<>>
    BY <2>1, <2>2
  <2>5. \A k \in 0 .. Depth(m) : k = 0 \/ k \in 1 .. Depth(m)
    BY <2>1
  <2>6. \A k \in 1 .. Depth(m) : k \in 0 .. Depth(m)
    BY <2>1
  <2> QED
    BY <2>1, <2>3, <2>4, <2>5, <2>6
<1>2. /\ \A m \in Makers : \A p \in M!Prefixes(PathOf[m]) \ {<<>>} : p \in M!AllPaths
      /\ \A p \in M!AllPaths : \E m \in Makers : p \in M!Prefixes(PathOf[m]) \ {<<>>}
  BY DEF M!AllPaths
<1>3. \A m \in Makers : \A k \in 1 .. Depth(m) : Part(m, k) \in M!Prefixes(PathOf[m]) \ {<<>>}
  BY <1>1
<1>4. \A m \in Makers : \A p \in M!Prefixes(PathOf[m]) \ {<<>>} : \E k \in 1 .. Depth(m) : p = Part(m, k)
  BY <1>1
<1> QED
  BY <1>1, <1>2, <1>3, <1>4

-----------------------------------------------------------------------------
(* MkDirs: the inductive invariant *)

MkTypes == /\ node \in [M!AllPaths -> {"none", "dir", "file"}]
           /\ done \in [Makers -> Nat]
           /\ mpc \in [Makers -> {"call", "mkdir", "stat", "INVALID_ARG", "OVERFLOW", "OK", "IO"}]
           /\ refused \subseteq Makers

\* What exists lies in directories.
Rooted == \A m \in Makers : \A k \in 1 .. Depth(m) :
            node[Part(m, k)] # "none" => \A j \in 1 .. k - 1 : node[Part(m, j)] = "dir"

\* A call that goes on found or made every prefix so far.
MadeSoFar == \A m \in Makers :
    /\ mpc[m] = "call" => done[m] = 0
    /\ mpc[m] = "mkdir" => done[m] < Depth(m)
    /\ mpc[m] = "stat" => done[m] = Depth(m) /\ Depth(m) > 0
    /\ mpc[m] \in {"mkdir", "stat"} => \A k \in 1 .. done[m] : node[Part(m, k)] # "none"

Answers == \A m \in Makers :
    /\ mpc[m] = "OK" => \A k \in 1 .. Depth(m) : node[Part(m, k)] = "dir"
    /\ mpc[m] = "IO" => m \in refused \/ \E k \in 1 .. Depth(m) : node[Part(m, k)] = "file"
    /\ m \in refused => mpc[m] = "IO"

MkInv == MkTypes /\ Rooted /\ MadeSoFar /\ Answers

\* Nodes stay what they become, and a new one lies in directories.
Settles == /\ node' \in [M!AllPaths -> {"none", "dir", "file"}]
           /\ \A p \in M!AllPaths : node[p] # "none" => node'[p] = node[p]
           /\ \A m \in Makers : \A k \in 1 .. Depth(m) :
                node[Part(m, k)] = "none" /\ node'[Part(m, k)] # "none"
                  => (k > 1 => node[Part(m, k - 1)] = "dir")


LEMMA SettleRooted ==
  ASSUME MkTypes, Rooted, Settles
  PROVE  Rooted'
<1> SUFFICES ASSUME NEW m \in Makers, NEW k \in 1 .. Depth(m), node'[Part(m, k)] # "none",
                    NEW j \in 1 .. k - 1
             PROVE  node'[Part(m, j)] = "dir"
  BY DEF Rooted, Part, Depth
<1>0. Depth(m) \in Nat
  BY PathsAssumption DEF Depth
<1>1. /\ k \in Nat /\ k - 1 \in Nat /\ j \in 1 .. Depth(m) /\ k > 1 /\ k - 1 \in 1 .. Depth(m)
      /\ j = k - 1 \/ j \in 1 .. (k - 1) - 1
  BY <1>0
<1>2. Part(m, k) \in M!AllPaths /\ Part(m, j) \in M!AllPaths /\ Part(m, k - 1) \in M!AllPaths
  BY <1>1, PathsAre
<1>3. CASE node[Part(m, k)] # "none"
  <2>1. node[Part(m, j)] = "dir"
    BY <1>3 DEF Rooted
  <2> QED
    BY <1>2, <2>1 DEF Settles
<1>4. CASE node[Part(m, k)] = "none"
  <2>1. node[Part(m, k - 1)] = "dir"
    BY <1>1, <1>4 DEF Settles
  <2>2. node[Part(m, j)] = "dir"
    BY <1>1, <2>1 DEF Rooted
  <2> QED
    BY <1>2, <2>2 DEF Settles
<1> QED
  BY <1>3, <1>4

\* A call that does not move keeps what is known of it.
LEMMA SettleCall ==
  ASSUME MkTypes, MadeSoFar, Answers, Settles, NEW m \in Makers, mpc'[m] = mpc[m], done'[m] = done[m],
         m \in refused' <=> m \in refused
  PROVE  /\ mpc'[m] = "call" => done'[m] = 0
         /\ mpc'[m] = "mkdir" => done'[m] < Depth(m)
         /\ mpc'[m] = "stat" => done'[m] = Depth(m) /\ Depth(m) > 0
         /\ mpc'[m] \in {"mkdir", "stat"} => \A k \in 1 .. done'[m] : node'[Part(m, k)] # "none"
         /\ mpc'[m] = "OK" => \A k \in 1 .. Depth(m) : node'[Part(m, k)] = "dir"
         /\ mpc'[m] = "IO" => m \in refused' \/ \E k \in 1 .. Depth(m) : node'[Part(m, k)] = "file"
         /\ m \in refused' => mpc'[m] = "IO"
<1>1. \A k \in 1 .. Depth(m) : Part(m, k) \in M!AllPaths
  BY PathsAre
<1>2. \A k \in 1 .. Depth(m) : node[Part(m, k)] # "none" => node'[Part(m, k)] = node[Part(m, k)]
  BY <1>1 DEF Settles
<1>3. Depth(m) \in Nat /\ done[m] \in Nat
  BY PathsAssumption DEF Depth, MkTypes
<1>4. ASSUME mpc[m] \in {"mkdir", "stat"} PROVE \A k \in 1 .. done[m] : node'[Part(m, k)] # "none"
  <2>1. done[m] <= Depth(m)
    BY <1>3, <1>4 DEF MadeSoFar
  <2>2. \A k \in 1 .. done[m] : k \in 1 .. Depth(m) /\ node[Part(m, k)] # "none"
    BY <1>3, <1>4, <2>1 DEF MadeSoFar
  <2> QED
    BY <1>2, <2>2
<1>5. ASSUME mpc[m] = "OK" PROVE \A k \in 1 .. Depth(m) : node'[Part(m, k)] = "dir"
  BY <1>2, <1>5 DEF Answers
<1>6. ASSUME mpc[m] = "IO" PROVE m \in refused' \/ \E k \in 1 .. Depth(m) : node'[Part(m, k)] = "file"
  BY <1>2, <1>6 DEF Answers
<1>7. m \in refused' => mpc'[m] = "IO"
  BY DEF Answers
<1> QED
  BY <1>4, <1>5, <1>6, <1>7 DEF MadeSoFar

\* One call moves, the others do not; it was refused or not.
LEMMA OneMoves ==
  ASSUME MkInv, Settles, NEW m \in Makers, NEW to, NEW upto \in Nat,
         mpc' = [mpc EXCEPT ![m] = to],
         done' = [done EXCEPT ![m] = upto],
         refused' = refused \/ refused' = refused \cup {m},
         m \in refused' => to = "IO",
         to \in {"mkdir", "stat", "INVALID_ARG", "OVERFLOW", "OK", "IO"},
         to = "mkdir" => upto < Depth(m),
         to = "stat" => upto = Depth(m) /\ Depth(m) > 0,
         to \in {"mkdir", "stat"} => \A k \in 1 .. upto : node'[Part(m, k)] # "none",
         to = "OK" => \A k \in 1 .. Depth(m) : node'[Part(m, k)] = "dir",
         to = "IO" => m \in refused' \/ \E k \in 1 .. Depth(m) : node'[Part(m, k)] = "file"
  PROVE  MkInv'
<1>1. /\ mpc'[m] = to /\ done'[m] = upto
      /\ \A l \in Makers : l # m => mpc'[l] = mpc[l] /\ done'[l] = done[l] /\ (l \in refused' <=> l \in refused)
  BY DEF MkInv, MkTypes
<1>2. MkTypes'
  <2>1. mpc' \in [Makers -> {"call", "mkdir", "stat", "INVALID_ARG", "OVERFLOW", "OK", "IO"}]
    BY DEF MkInv, MkTypes
  <2>2. done' \in [Makers -> Nat]
    BY DEF MkInv, MkTypes
  <2>3. M!AllPaths' = M!AllPaths
    BY DEF M!AllPaths, M!Prefixes
  <2>4. refused' \subseteq Makers
    BY DEF MkInv, MkTypes
  <2> QED
    BY <2>1, <2>2, <2>3, <2>4 DEF MkTypes, Settles
<1>3. Rooted'
  BY SettleRooted DEF MkInv
<1>4. ASSUME NEW l \in Makers
      PROVE  /\ mpc'[l] = "call" => done'[l] = 0
             /\ mpc'[l] = "mkdir" => done'[l] < Depth(l)
             /\ mpc'[l] = "stat" => done'[l] = Depth(l) /\ Depth(l) > 0
             /\ mpc'[l] \in {"mkdir", "stat"} => \A k \in 1 .. done'[l] : node'[Part(l, k)] # "none"
             /\ mpc'[l] = "OK" => \A k \in 1 .. Depth(l) : node'[Part(l, k)] = "dir"
             /\ mpc'[l] = "IO" => l \in refused' \/ \E k \in 1 .. Depth(l) : node'[Part(l, k)] = "file"
             /\ l \in refused' => mpc'[l] = "IO"
  <2>1. CASE l = m
    BY <1>1, <2>1
  <2>2. CASE l # m
    BY <1>1, <2>2, SettleCall DEF MkInv
  <2> QED
    BY <2>1, <2>2
<1>5. MadeSoFar'
  BY <1>4 DEF MadeSoFar, Part, Depth
<1>6. Answers'
  BY <1>4 DEF Answers, Part, Depth
<1> QED
  BY <1>2, <1>3, <1>5, <1>6 DEF MkInv

LEMMA MkStays ==
  ASSUME MkInv, Settles, UNCHANGED <<done, mpc, refused>>
  PROVE  MkInv'
<1>1. MkTypes'
  <2>1. M!AllPaths' = M!AllPaths
    BY DEF M!AllPaths, M!Prefixes
  <2> QED
    BY <2>1 DEF MkInv, MkTypes, Settles
<1>2. Rooted'
  BY SettleRooted DEF MkInv
<1>3. ASSUME NEW l \in Makers
      PROVE  /\ mpc'[l] = "call" => done'[l] = 0
             /\ mpc'[l] = "mkdir" => done'[l] < Depth(l)
             /\ mpc'[l] = "stat" => done'[l] = Depth(l) /\ Depth(l) > 0
             /\ mpc'[l] \in {"mkdir", "stat"} => \A k \in 1 .. done'[l] : node'[Part(l, k)] # "none"
             /\ mpc'[l] = "OK" => \A k \in 1 .. Depth(l) : node'[Part(l, k)] = "dir"
             /\ mpc'[l] = "IO" => l \in refused' \/ \E k \in 1 .. Depth(l) : node'[Part(l, k)] = "file"
             /\ l \in refused' => mpc'[l] = "IO"
  BY SettleCall DEF MkInv
<1>4. MadeSoFar' /\ Answers'
  BY <1>3 DEF MadeSoFar, Answers, Part, Depth
<1> QED
  BY <1>1, <1>2, <1>4 DEF MkInv


\* What mkdir and another program make lies in a directory.
LEMMA NewSettles ==
  ASSUME MkTypes, NEW p \in M!AllPaths, node[p] = "none", M!ParentIsDir(p), NEW what \in {"dir", "file"},
         node' = [node EXCEPT ![p] = what]
  PROVE  Settles
<1>1. node'[p] = what /\ \A q \in M!AllPaths : q # p => node'[q] = node[q]
  BY DEF MkTypes
<1>2. node' \in [M!AllPaths -> {"none", "dir", "file"}]
  BY DEF MkTypes
<1>3. ASSUME NEW m \in Makers, NEW k \in 1 .. Depth(m), node[Part(m, k)] = "none", node'[Part(m, k)] # "none", k > 1
      PROVE  node[Part(m, k - 1)] = "dir"
  <2>1. Part(m, k) = p
    BY <1>1, <1>3, PathsAre
  <2>2. Depth(m) \in Nat /\ k \in 0 .. Depth(m) /\ k - 1 \in 0 .. k /\ k \in Nat
    BY PathsAssumption DEF Depth
  <2>3. Len(p) = k /\ SubSeq(p, 1, k - 1) = Part(m, k - 1)
    BY <2>1, <2>2, Beginnings
  <2>4. M!Front(p) = Part(m, k - 1) /\ Len(p) > 1
    BY <1>3, <2>3 DEF M!Front
  <2> QED
    BY <2>4 DEF M!ParentIsDir
<1> QED
  BY <1>1, <1>2, <1>3 DEF Settles

LEMMA SameSettles ==
  ASSUME MkTypes, node' = node
  PROVE  Settles
BY DEF MkTypes, Settles

LEMMA MkStart ==
  ASSUME M!Init
  PROVE  MkInv
<1>1. /\ node = [p \in M!AllPaths |-> "none"] /\ done = [m \in Makers |-> 0] /\ mpc = [m \in Makers |-> "call"]
      /\ refused = {}
  BY DEF M!Init
<1>2. MkTypes
  BY <1>1 DEF MkTypes
<1>3. \A m \in Makers : \A k \in 1 .. Depth(m) : node[Part(m, k)] = "none"
  BY <1>1, PathsAre
<1> QED
  BY <1>1, <1>2, <1>3 DEF MkInv, Rooted, MadeSoFar, Answers

LEMMA CallKeeps ==
  ASSUME MkInv, NEW m \in Makers, M!Call(m)
  PROVE  MkInv'
<1> DEFINE to == IF PathOf[m] = <<>> THEN "INVALID_ARG"
                 ELSE IF Len(PathOf[m]) > MaxPath THEN "OVERFLOW" ELSE "mkdir"
<1>1. /\ mpc[m] = "call" /\ mpc' = [mpc EXCEPT ![m] = to] /\ node' = node /\ done' = done
      /\ refused' = refused /\ m \notin refused'
  BY DEF M!Call, MkInv, Answers
<1>2. done[m] = 0 /\ done' = [done EXCEPT ![m] = 0] /\ 1 .. 0 = {}
  BY <1>1 DEF MkInv, MadeSoFar, MkTypes
<1>3. to = "mkdir" => 0 < Depth(m)
  BY PathsAssumption, EmptySeq DEF Depth
<1>4. to \in {"mkdir", "INVALID_ARG", "OVERFLOW"}
  OBVIOUS
<1>5. Settles
  BY <1>1, SameSettles DEF MkInv
<1> HIDE DEF to
<1>6. /\ to \in {"mkdir", "stat", "INVALID_ARG", "OVERFLOW", "OK", "IO"} /\ to # "OK" /\ to # "IO" /\ to # "stat"
      /\ \A k \in 1 .. 0 : node'[Part(m, k)] # "none"
  BY <1>2, <1>4
<1>7. /\ 0 \in Nat /\ done' = [done EXCEPT ![m] = 0] /\ mpc' = [mpc EXCEPT ![m] = to]
      /\ refused' = refused /\ m \notin refused'
  BY <1>1, <1>2
<1> QED
  BY <1>3, <1>5, <1>6, <1>7, OneMoves

LEMMA MkdirKeeps ==
  ASSUME MkInv, NEW m \in Makers, M!Mkdir(m)
  PROVE  MkInv'
<1> DEFINE k == done[m] + 1
           p == Part(m, k)
           To(answer) == IF answer \in {"ENOTDIR", "REFUSED"} THEN "IO" ELSE IF k = Depth(m) THEN "stat" ELSE "mkdir"
<1>0. done[m] \in Nat /\ Depth(m) \in Nat
  BY PathsAssumption DEF Depth, MkInv, MkTypes
<1>1. /\ mpc[m] = "mkdir" /\ done[m] < Depth(m)
      /\ \A j \in 1 .. done[m] : node[Part(m, j)] # "none"
  BY DEF MkInv, MadeSoFar, M!Mkdir
<1>2. /\ k \in 1 .. Depth(m) /\ k \in 0 .. Depth(m) /\ k \in Nat /\ k - 1 = done[m] /\ k - 1 \in 0 .. k
      /\ \A j \in 1 .. done[m] : j \in 1 .. Depth(m)
      /\ \A j \in 1 .. k : j = k \/ j \in 1 .. done[m]
      /\ k # Depth(m) => k < Depth(m)
  BY <1>0, <1>1
<1>3. p \in M!AllPaths /\ Len(p) = k /\ M!Front(p) = Part(m, k - 1)
  <2>1. Part(m, k) \in M!AllPaths
    BY <1>2, PathsAre
  <2>2. Len(Part(m, k)) = k /\ SubSeq(Part(m, k), 1, k - 1) = Part(m, k - 1)
    BY <1>2, Beginnings
  <2> QED
    BY <2>1, <2>2 DEF M!Front
<1>4. PICK res \in M!Results(p) :
        /\ node' = (IF res = "OK" THEN [node EXCEPT ![p] = "dir"] ELSE node)
        /\ refused' = (IF res = "REFUSED" THEN refused \cup {m} ELSE refused)
        /\ done' = [done EXCEPT ![m] = k]
        /\ mpc' = [mpc EXCEPT ![m] = To(res)]
  <2>1. done' = [done EXCEPT ![m] = k] /\ done'[m] = k
    BY DEF M!Mkdir, MkInv, MkTypes
  <2>2. PICK res \in M!Results(p) :
          /\ node' = (IF res = "OK" THEN [node EXCEPT ![p] = "dir"] ELSE node)
          /\ refused' = (IF res = "REFUSED" THEN refused \cup {m} ELSE refused)
          /\ mpc' = [mpc EXCEPT ![m] = IF ~M!Accepted(res) THEN "IO"
                                       ELSE IF done'[m] = Depth(m) THEN "stat" ELSE "mkdir"]
    BY DEF M!Mkdir, Part, Depth
  <2>3. ~M!Accepted(res) <=> res \in {"ENOTDIR", "REFUSED"}
    BY <2>2 DEF M!Accepted, M!Results
  <2>4. mpc' = [mpc EXCEPT ![m] = To(res)]
    BY <2>1, <2>2, <2>3
  <2> QED
    BY <2>1, <2>2, <2>4
<1> DEFINE to == To(res)
<1>5. /\ res = "OK" => node[p] = "none" /\ M!ParentIsDir(p)
      /\ res = "ENOTDIR" => ~M!ParentIsDir(p)
      /\ res \in {"OK", "EEXIST", "ENOTDIR", "REFUSED"}
      /\ res = "EEXIST" => node[p] # "none"
  BY <1>4 DEF M!Results
<1>5a. /\ refused' = refused \/ refused' = refused \cup {m}
       /\ m \in refused' <=> res = "REFUSED"
  BY <1>1, <1>4 DEF MkInv, Answers
<1>6. /\ to = "IO" <=> res \in {"ENOTDIR", "REFUSED"}
      /\ to = "stat" => k = Depth(m)
      /\ to = "mkdir" => k # Depth(m)
      /\ to \in {"mkdir", "stat", "IO"}
  OBVIOUS
<1> HIDE DEF to, To
<1>7. Settles
  <2>1. CASE res = "OK"
    BY <1>3, <1>4, <1>5, <2>1, NewSettles DEF MkInv
  <2>2. CASE res # "OK"
    BY <1>4, <2>2, SameSettles DEF MkInv
  <2> QED
    BY <2>1, <2>2
<1>8. \A j \in 1 .. done[m] : node'[Part(m, j)] = node[Part(m, j)]
  BY <1>1, <1>2, <1>7, PathsAre DEF Settles
<1>9. ASSUME to \in {"mkdir", "stat"} PROVE \A j \in 1 .. k : node'[Part(m, j)] # "none"
  <2>1. node'[p] # "none"
    <3>1. CASE res = "OK"
      BY <1>3, <1>4, <3>1 DEF MkInv, MkTypes
    <3>2. CASE res = "EEXIST"
      BY <1>4, <1>5, <3>2
    <3> QED
      BY <1>5, <1>6, <1>9, <3>1, <3>2
  <2> QED
    BY <1>1, <1>2, <1>8, <2>1
<1>10. ASSUME to = "IO", m \notin refused' PROVE \E j \in 1 .. Depth(m) : node'[Part(m, j)] = "file"
  <2>1. Len(p) > 1 /\ node[M!Front(p)] # "dir"
    BY <1>5, <1>6, <1>10, <1>5a DEF M!ParentIsDir
  <2>2. done[m] \in 1 .. done[m] /\ done[m] \in 1 .. Depth(m)
    BY <1>0, <1>1, <1>2, <1>3, <2>1
  <2>3. node[Part(m, done[m])] # "none" /\ node[Part(m, done[m])] # "dir"
    BY <1>1, <1>2, <1>3, <2>1, <2>2
  <2>4. node[Part(m, done[m])] \in {"none", "dir", "file"}
    BY <2>2, PathsAre DEF MkInv, MkTypes
  <2> QED
    BY <1>8, <2>2, <2>3, <2>4
<1> HIDE DEF k, p
<1>11. /\ to \in {"mkdir", "stat", "INVALID_ARG", "OVERFLOW", "OK", "IO"} /\ to # "OK"
       /\ to = "mkdir" => k < Depth(m)
       /\ to = "stat" => k = Depth(m) /\ Depth(m) > 0
       /\ m \in refused' => to = "IO"
  BY <1>0, <1>2, <1>6, <1>5a
<1>12. k \in Nat /\ done' = [done EXCEPT ![m] = k] /\ mpc' = [mpc EXCEPT ![m] = to]
  BY <1>2, <1>4 DEF to
<1> QED
  BY <1>7, <1>9, <1>10, <1>11, <1>12, <1>5a, OneMoves

LEMMA StatKeeps ==
  ASSUME MkInv, NEW m \in Makers, M!Stat(m)
  PROVE  MkInv'
<1>0. PICK to \in {"OK", "IO"} :
        /\ mpc' = [mpc EXCEPT ![m] = to]
        /\ \/ to = (IF node[PathOf[m]] = "dir" THEN "OK" ELSE "IO") /\ refused' = refused
           \/ to = "IO" /\ refused' = refused \cup {m}
  BY DEF M!Stat
<1>1. /\ mpc[m] = "stat" /\ mpc' = [mpc EXCEPT ![m] = to] /\ node' = node /\ done' = done
      /\ m \notin refused
  BY <1>0 DEF M!Stat, MkInv, Answers
<1>2. /\ done[m] = Depth(m) /\ Depth(m) \in Nat /\ Depth(m) > 0 /\ done' = [done EXCEPT ![m] = Depth(m)]
      /\ \A k \in 1 .. Depth(m) : node[Part(m, k)] # "none"
  BY <1>1, PathsAssumption DEF MkInv, MadeSoFar, MkTypes, Depth
<1>3. Depth(m) \in 1 .. Depth(m) /\ \A k \in 1 .. Depth(m) : k = Depth(m) \/ k \in 1 .. Depth(m) - 1
  BY <1>2
<1>4. PathOf[m] = Part(m, Depth(m))
  <2>1. PathOf[m] \in Seq(STRING) /\ Depth(m) \in 0 .. Depth(m) /\ Len(PathOf[m]) = Depth(m)
    BY <1>2, PathsAssumption DEF Depth
  <2> QED
    BY <2>1, Beginnings, SeqEqual
<1>5. Settles
  BY <1>1, SameSettles DEF MkInv
<1>6. ASSUME to = "OK" PROVE \A k \in 1 .. Depth(m) : node'[Part(m, k)] = "dir"
  <2>1. node[Part(m, Depth(m))] = "dir"
    BY <1>0, <1>4, <1>6
  <2>2. \A k \in 1 .. Depth(m) - 1 : node[Part(m, k)] = "dir"
    BY <1>3, <2>1 DEF MkInv, Rooted
  <2> QED
    BY <1>1, <1>3, <2>1, <2>2
<1>7. ASSUME to = "IO", m \notin refused' PROVE \E k \in 1 .. Depth(m) : node'[Part(m, k)] = "file"
  <2>1. node[Part(m, Depth(m))] # "dir"
    BY <1>0, <1>4, <1>7
  <2>2. node[Part(m, Depth(m))] \in {"none", "dir", "file"}
    BY <1>3, PathsAre DEF MkInv, MkTypes
  <2> QED
    BY <1>1, <1>2, <1>3, <2>1, <2>2
<1>8. /\ to \in {"OK", "IO"} /\ (m \in refused' => to = "IO")
      /\ refused' = refused \/ refused' = refused \cup {m}
  BY <1>0, <1>1
<1> QED
  BY <1>1, <1>2, <1>5, <1>6, <1>7, <1>8, OneMoves

(***************************************************************************)
(* path_mkdirs called by any number of processes for any paths, while      *)
(* other programs create files and any system call may be refused, but     *)
(* nobody removes what is there: ERR_OK means that every prefix of the     *)
(* path is a directory, ERR_IO that one of them is a file or a system call *)
(* of this maker's was refused, and a refusal is never passed over.  A     *)
(* race of two calls for the same directory fails neither.                 *)
(***************************************************************************)
THEOREM Directories == M!Spec => []MkdirsIsExact
<1>1. M!Init => MkInv
  BY MkStart
<1>2. MkInv /\ [M!Next]_(M!vars) => MkInv'
  <2> SUFFICES ASSUME MkInv, [M!Next]_(M!vars) PROVE MkInv'
    OBVIOUS
  <2>1. ASSUME NEW m \in Makers, M!Call(m) \/ M!Mkdir(m) \/ M!Stat(m) PROVE MkInv'
    BY <2>1, CallKeeps, MkdirKeeps, StatKeeps
  <2>2. ASSUME NEW p \in M!AllPaths, M!CreateFile(p) PROVE MkInv'
    <3>1. /\ node[p] = "none" /\ M!ParentIsDir(p) /\ node' = [node EXCEPT ![p] = "file"]
          /\ UNCHANGED <<done, mpc, refused>>
      BY <2>2 DEF M!CreateFile
    <3>2. Settles
      BY <3>1, NewSettles DEF MkInv
    <3> QED
      BY <3>1, <3>2, MkStays
  <2>3. ASSUME UNCHANGED M!vars PROVE MkInv'
    BY <2>3, SameSettles, MkStays DEF M!vars, MkInv
  <2> QED
    BY <2>1, <2>2, <2>3 DEF M!Next
<1>3. MkInv => MkdirsIsExact
  <2> SUFFICES ASSUME MkInv, NEW m \in Makers
               PROVE  /\ mpc[m] = "OK" => \A p \in M!Prefixes(PathOf[m]) \ {<<>>} : node[p] = "dir"
                      /\ mpc[m] = "IO" => \/ m \in refused
                                         \/ \E p \in M!Prefixes(PathOf[m]) \ {<<>>} : node[p] = "file"
                      /\ m \in refused => mpc[m] = "IO"
    BY DEF MkdirsIsExact, M!MkdirsIsExact
  <2>1. M!Prefixes(PathOf[m]) \ {<<>>} = {Part(m, k) : k \in 1 .. Depth(m)}
    BY PathsAre
  <2> QED
    BY <2>1 DEF MkInv, Answers
<1> QED
  BY <1>1, <1>2, <1>3, PTL DEF M!Spec


-----------------------------------------------------------------------------
(* Process: the inductive invariant *)

\* What the kernel knows of a child, and the call in progress.
ProcTypes == /\ proc \in [Kids -> [state : {"none", "running", "zombie", "reaped"},
                                   how : {"none", "exit", "signal"}, code : Statuses \cup {0, 127}]]
             /\ answers = [k \in Kids |-> answers[k]]
             /\ call = None \/ call.kid \in Kids

ProcInv == ProcTypes /\ K!StatusIsTheChilds

\* The answers stay true when a child that has an answer of ERR_OK stays what it is.
LEMMA HeardStays ==
  ASSUME ProcInv, answers' = answers,
         \A k \in Kids : K!Answered(k) /\ answers[k].err = "OK" => proc'[k] = proc[k]
  PROVE  K!StatusIsTheChilds'
BY DEF ProcInv, K!StatusIsTheChilds, K!Answered, K!ExitStatus

LEMMA HeardFails ==
  ASSUME ProcInv, NEW k \in Kids, NEW fname, answers' = [answers EXCEPT ![k] = [fn |-> fname, err |-> "IO", status |-> None]],
         proc' = proc
  PROVE  K!StatusIsTheChilds' /\ answers' = [j \in Kids |-> answers'[j]]
<1>1. answers'[k].err = "IO" /\ \A j \in Kids : j # k => answers'[j] = answers[j]
  BY DEF ProcInv, ProcTypes
<1>2. answers' = [j \in Kids |-> answers'[j]]
  BY DEF ProcInv, ProcTypes
<1> QED
  BY <1>1, <1>2 DEF ProcInv, K!StatusIsTheChilds, K!Answered, K!ExitStatus

LEMMA ForkKeeps ==
  ASSUME ProcInv, NEW k \in Kids, NEW fname, K!Fork(k, fname)
  PROVE  ProcInv'
<1>1. CASE /\ proc' = [proc EXCEPT ![k].state = "running"]
           /\ call' = [fn |-> fname, kid |-> k]
           /\ UNCHANGED answers
  <2>1. ~K!Answered(k)
    BY DEF K!Fork
  <2>2. \A j \in Kids : K!Answered(j) /\ answers[j].err = "OK" => proc'[j] = proc[j]
    BY <1>1, <2>1 DEF ProcInv, ProcTypes
  <2>3. K!StatusIsTheChilds'
    BY <1>1, <2>2, HeardStays
  <2>4. call'.kid \in Kids
    BY <1>1
  <2>5. proc' \in [Kids -> [state : {"none", "running", "zombie", "reaped"},
                            how : {"none", "exit", "signal"}, code : Statuses \cup {0, 127}]]
    BY <1>1 DEF ProcInv, ProcTypes
  <2> QED
    BY <1>1, <2>3, <2>4, <2>5 DEF ProcInv, ProcTypes
<1>2. CASE K!Return(k, fname, "IO", None) /\ UNCHANGED proc
  BY <1>2, HeardFails DEF ProcInv, ProcTypes, K!Return
<1> QED
  BY <1>1, <1>2 DEF K!Fork

LEMMA ChildEndKeeps ==
  ASSUME ProcInv, NEW k \in Kids, K!ChildEnds(k)
  PROVE  ProcInv'
<1>1. PICK e \in {K!Ended("exit", c) : c \in Statuses \cup {127}} \cup {K!Ended("signal", 0)} :
        proc' = [proc EXCEPT ![k] = e]
  BY DEF K!ChildEnds
<1>2. e \in [state : {"none", "running", "zombie", "reaped"},
             how : {"none", "exit", "signal"}, code : Statuses \cup {0, 127}]
  BY <1>1 DEF K!Ended
<1>3. proc[k].state = "running" /\ UNCHANGED <<call, answers>>
  BY DEF K!ChildEnds
<1>4. \A j \in Kids : K!Answered(j) /\ answers[j].err = "OK" => proc'[j] = proc[j]
  BY <1>1, <1>3 DEF ProcInv, ProcTypes, K!StatusIsTheChilds
<1>5. K!StatusIsTheChilds'
  BY <1>3, <1>4, HeardStays
<1> QED
  BY <1>1, <1>2, <1>3, <1>5 DEF ProcInv, ProcTypes

LEMMA WaitedKeeps ==
  ASSUME ProcInv, K!Waited
  PROVE  ProcInv'
<1> DEFINE k == call.kid
<1>1. /\ k \in Kids /\ proc[k].state = "zombie"
      /\ proc' = [proc EXCEPT ![k].state = "reaped"]
      /\ answers' = [answers EXCEPT ![k] = [fn |-> call.fn, err |-> "OK",
                                            status |-> K!ExitStatus(call.fn, proc[k])]]
      /\ call' = None
  BY DEF ProcInv, ProcTypes, K!Waited, K!WaitedFor, K!Return
<1> HIDE DEF k
<1>2. /\ proc'[k].state = "reaped" /\ proc'[k].how = proc[k].how /\ proc'[k].code = proc[k].code
      /\ \A j \in Kids : j # k => proc'[j] = proc[j] /\ answers'[j] = answers[j]
      /\ answers'[k].fn = call.fn /\ answers'[k].status = K!ExitStatus(call.fn, proc[k])
  BY <1>1 DEF ProcInv, ProcTypes
<1>3. answers'[k].status = K!ExitStatus(answers'[k].fn, proc'[k])
  BY <1>2 DEF K!ExitStatus
<1>4. K!StatusIsTheChilds'
  <2> SUFFICES ASSUME NEW j \in Kids, K!Answered(j)', answers'[j].err = "OK"
               PROVE  /\ proc'[j].state = "reaped"
                      /\ answers'[j].status = K!ExitStatus(answers'[j].fn, proc'[j])
    BY DEF K!StatusIsTheChilds, K!ExitStatus
  <2>1. CASE j = k
    BY <1>2, <1>3, <2>1
  <2>2. CASE j # k
    BY <1>2, <2>2 DEF ProcInv, K!StatusIsTheChilds, K!Answered
  <2> QED
    BY <2>1, <2>2
<1>5. answers' = [j \in Kids |-> answers'[j]]
  BY <1>1 DEF ProcInv, ProcTypes
<1>6. proc' \in [Kids -> [state : {"none", "running", "zombie", "reaped"},
                          how : {"none", "exit", "signal"}, code : Statuses \cup {0, 127}]]
  BY <1>1 DEF ProcInv, ProcTypes
<1> QED
  BY <1>1, <1>4, <1>5, <1>6 DEF ProcInv, ProcTypes

LEMMA SigintKeeps ==
  ASSUME ProcInv, K!Sigint
  PROVE  ProcInv'
<1>1. CASE call # None /\ call.fn = "exec"
  <2>1. /\ call.kid \in Kids /\ proc' = proc /\ call' = None
        /\ answers' = [answers EXCEPT ![call.kid] = [fn |-> "exec", err |-> "IO", status |-> None]]
    BY <1>1 DEF ProcInv, ProcTypes, K!Sigint, K!Return
  <2> QED
    BY <2>1, HeardFails DEF ProcInv, ProcTypes
<1>2. CASE ~(call # None /\ call.fn = "exec")
  <2>1. UNCHANGED <<answers, call, proc>>
    BY <1>2 DEF K!Sigint
  <2> QED
    BY <2>1, HeardStays DEF ProcInv, ProcTypes
<1> QED
  BY <1>1, <1>2

LEMMA ProcStep ==
  ASSUME ProcInv, [K!Next]_(K!vars)
  PROVE  ProcInv'
<1>1. ASSUME UNCHANGED <<answers, call, proc>> PROVE ProcInv'
  BY <1>1, HeardStays DEF ProcInv, ProcTypes
<1>2. CASE UNCHANGED K!vars
  BY <1>1, <1>2 DEF K!vars
<1>3. ASSUME NEW h \in {"default", "caught"}, K!ProcessOnSigint(h) PROVE ProcInv'
  BY <1>1, <1>3 DEF K!ProcessOnSigint
<1> QED
  BY <1>2, <1>3, ForkKeeps, ChildEndKeeps, WaitedKeeps, SigintKeeps DEF K!Next

LEMMA ProcStart ==
  ASSUME K!Init
  PROVE  ProcInv
<1>1. proc = [k \in Kids |-> K!NoChild] /\ call = None /\ answers = [k \in Kids |-> None]
  BY DEF K!Init
<1>2. answers = [k \in Kids |-> answers[k]] /\ \A k \in Kids : ~K!Answered(k)
  BY <1>1 DEF K!Answered
<1>3. proc \in [Kids -> [state : {"none", "running", "zombie", "reaped"},
                         how : {"none", "exit", "signal"}, code : Statuses \cup {0, 127}]]
  BY <1>1 DEF K!NoChild
<1> QED
  BY <1>1, <1>2, <1>3 DEF ProcInv, ProcTypes, K!StatusIsTheChilds


-----------------------------------------------------------------------------
(* Capture: the inductive invariant *)

\* Whenever fread is called there is room for a byte besides the terminator, so
\* that it returns 0 at the end of the output or after an error only.
CaptureInv ==
    /\ output \in Nat /\ cap \in Nat /\ len \in Nat /\ room \in Nat
    /\ pipe \in BOOLEAN /\ failed \in BOOLEAN
    /\ cpc \in {"call", "read", "grow", "end", "OK", "IO", "NOMEM", "OVERFLOW"}
    /\ len <= output /\ 2 <= cap
    /\ cpc = "call" => len = 0 /\ room = 0 /\ pipe = FALSE /\ failed = FALSE
    /\ cpc = "read" => room = cap /\ len + 1 < cap
    /\ cpc = "grow" => room = cap /\ len + 1 <= cap
    /\ cpc = "end" => len < room /\ (failed = FALSE => len = output)
    /\ cpc = "OK" => len < room /\ len = output
    /\ cpc \in {"OK", "IO", "NOMEM", "OVERFLOW"} => pipe = FALSE
    /\ cpc \in {"IO", "NOMEM", "OVERFLOW"} => room = 0

LEMMA CaptureStart ==
  ASSUME C!Init
  PROVE  CaptureInv
<1>1. FirstCap \in Nat /\ 2 <= FirstCap /\ output \in Nat /\ 0 <= output
  BY CaptureAssumption DEF C!Init
<1>2. cap = FirstCap /\ len = 0 /\ room = 0 /\ pipe = FALSE /\ cpc = "call" /\ failed = FALSE
  BY DEF C!Init
<1> QED
  BY <1>1, <1>2 DEF CaptureInv

LEMMA FreadKeeps ==
  ASSUME CaptureInv, C!Fread
  PROVE  CaptureInv'
<1>1. /\ cpc = "read" /\ failed = FALSE /\ room = cap /\ len + 1 < cap
      /\ output \in Nat /\ cap \in Nat /\ len \in Nat /\ len <= output
      /\ UNCHANGED <<output, cap, room, pipe>>
  BY DEF CaptureInv, C!Fread
<1>2. PICK c \in 0 .. C!Asked :
        /\ c <= output - len
        /\ \/ c = C!Asked /\ UNCHANGED failed
           \/ c = output - len /\ UNCHANGED failed
           \/ failed' = TRUE
        /\ len' = len + c
        /\ cpc' = IF c = 0 THEN "end" ELSE IF C!Full(c) THEN "grow" ELSE "read"
  BY DEF C!Fread
<1>3. c \in Nat /\ C!Asked \in Nat /\ C!Asked > 0 /\ C!Asked = cap - len - 1 /\ c <= C!Asked
  BY <1>1, <1>2 DEF C!Asked
<1>4. len' \in Nat /\ len' <= output /\ len' + 1 <= cap /\ failed' \in BOOLEAN
  <2>1. failed' = failed \/ failed' = TRUE
    BY <1>2
  <2>2. len' = len + c /\ c <= output - len
    BY <1>2
  <2>3. failed' \in BOOLEAN
    BY <1>1, <2>1
  <2>4. len' \in Nat /\ len' <= output /\ len' + 1 <= cap
    BY <1>1, <1>3, <2>2
  <2> QED
    BY <2>3, <2>4
<1>5. CASE c = 0
  <2>1. cpc' = "end" /\ len' = len /\ (failed' = FALSE => len = output)
    BY <1>1, <1>2, <1>3, <1>5
  <2> QED
    BY <1>1, <1>4, <2>1 DEF CaptureInv
<1>6. CASE c # 0 /\ C!Full(c)
  <2>1. cpc' = "grow"
    BY <1>2, <1>6
  <2> QED
    BY <1>1, <1>4, <2>1 DEF CaptureInv
<1>7. CASE c # 0 /\ ~C!Full(c)
  <2>1. cpc' = "read" /\ len' + 1 < cap
    BY <1>1, <1>2, <1>3, <1>7 DEF C!Full
  <2> QED
    BY <1>1, <1>4, <2>1 DEF CaptureInv
<1> QED
  BY <1>5, <1>6, <1>7

LEMMA GrowKeeps ==
  ASSUME CaptureInv, C!Grow
  PROVE  CaptureInv'
<1>1. /\ cpc = "grow" /\ room = cap /\ len + 1 <= cap /\ 2 <= cap /\ cap \in Nat /\ len \in Nat
      /\ UNCHANGED <<output, len, failed>>
  BY DEF CaptureInv, C!Grow
<1>2. cap * 2 \in Nat /\ 2 <= cap * 2 /\ len + 1 < cap * 2
  BY <1>1
<1>3. CASE C!Fail("OVERFLOW") /\ UNCHANGED cap
  BY <1>1, <1>3 DEF CaptureInv, C!Fail
<1>4. CASE C!Fail("NOMEM") /\ cap' = cap * 2
  BY <1>1, <1>2, <1>4 DEF CaptureInv, C!Fail
<1>5. CASE cap' = cap * 2 /\ room' = cap' /\ cpc' = "read" /\ UNCHANGED pipe
  BY <1>1, <1>2, <1>5 DEF CaptureInv
<1> QED
  BY <1>3, <1>4, <1>5 DEF C!Grow

LEMMA CaptureKeeps ==
  ASSUME CaptureInv, [C!Next]_(C!vars)
  PROVE  CaptureInv'
<1>1. CASE UNCHANGED C!vars
  BY <1>1 DEF CaptureInv, C!vars
<1>2. CASE C!Popen
  <2>1. /\ cpc = "call" /\ UNCHANGED <<output, cap, len, failed>> /\ 2 <= cap /\ cap \in Nat
        /\ len = 0 /\ room = 0 /\ pipe = FALSE /\ failed = FALSE
    BY <1>2 DEF CaptureInv, C!Popen
  <2>2. CASE cpc' = "IO" /\ UNCHANGED <<pipe, room>>
    BY <2>1, <2>2 DEF CaptureInv
  <2>3. CASE cpc' = "NOMEM" /\ UNCHANGED <<pipe, room>>
    BY <2>1, <2>3 DEF CaptureInv
  <2>4. CASE cpc' = "read" /\ pipe' = TRUE /\ room' = cap
    BY <2>1, <2>4 DEF CaptureInv
  <2> QED
    BY <1>2, <2>2, <2>3, <2>4 DEF C!Popen
<1>3. CASE C!FreadNoMore
  <2>1. cpc = "read" /\ failed = TRUE /\ cpc' = "end" /\ UNCHANGED <<output, cap, len, room, pipe, failed>>
    BY <1>3 DEF CaptureInv, C!FreadNoMore
  <2> QED
    BY <2>1 DEF CaptureInv
<1>4. CASE C!Finish
  <2>1. cpc = "end" /\ UNCHANGED <<output, cap, len, failed>>
    BY <1>4 DEF C!Finish
  <2>2. CASE failed = TRUE
    <3>1. cpc' = "IO" /\ room' = 0 /\ pipe' = FALSE
      BY <1>4, <2>2 DEF C!Finish, C!Fail
    <3> QED
      BY <2>1, <3>1 DEF CaptureInv
  <2>3. CASE failed = FALSE
    <3>1. cpc' = "OK" /\ room' = room /\ pipe' = FALSE
      BY <1>4, <2>3 DEF C!Finish
    <3> QED
      BY <2>1, <2>3, <3>1 DEF CaptureInv
  <2> QED
    BY <2>2, <2>3 DEF CaptureInv
<1> QED
  BY <1>1, <1>2, <1>3, <1>4, FreadKeeps, GrowKeeps DEF C!Next

LEMMA CaptureExact ==
  ASSUME CaptureInv
  PROVE  C!CaptureIsExact
<1>1. C!Returned => cpc \in {"OK", "IO", "NOMEM", "OVERFLOW"}
  BY DEF CaptureInv, C!Returned
<1>2. cpc = "read" => len < cap /\ room = cap
  BY DEF CaptureInv
<1>3. cpc \in {"end", "OK"} => len < room
  BY DEF CaptureInv
<1> QED
  BY <1>1, <1>2, <1>3 DEF CaptureInv, C!CaptureIsExact

(***************************************************************************)
(* process.c, for any number of children, exit codes and interrupts and    *)
(* for output of any length: a status that process_exec or process_run     *)
(* returns with ERR_OK is the one of the child it started; process_capture *)
(* keeps the terminator inside its buffer while it grows, returns ERR_OK   *)
(* only with the whole output, and on every other way out has closed the   *)
(* pipe and freed the buffer.                                              *)
(***************************************************************************)
THEOREM Heard == K!Spec /\ C!Spec => []ChildrenAreHeard
<1>1. K!Init => ProcInv
  BY ProcStart
<1>2. ProcInv /\ [K!Next]_(K!vars) => ProcInv'
  BY ProcStep
<1>3. C!Init => CaptureInv
  BY CaptureStart
<1>4. CaptureInv /\ [C!Next]_(C!vars) => CaptureInv'
  BY CaptureKeeps
<1>5. ProcInv /\ CaptureInv => ChildrenAreHeard
  BY CaptureExact DEF ProcInv, ChildrenAreHeard
<1> QED
  BY <1>1, <1>2, <1>3, <1>4, <1>5, PTL DEF K!Spec, C!Spec

-----------------------------------------------------------------------------
(* Options *)

(***************************************************************************)
(* Kept: a table of limited size holds, in their order, what its elements  *)
(* up to that size set; those are k of 1 .. n, and k sets of[k].           *)
(***************************************************************************)
Rank(those, k) == Cardinality(those \cap 1 .. k)

Kept(those, n, entries, limit, of) ==
    /\ those \subseteq 1 .. n
    /\ Len(entries) = IF Cardinality(those) <= limit THEN Cardinality(those) ELSE limit
    /\ \A k \in those : Rank(those, k) <= limit => entries[Rank(those, k)] = of[k]
    /\ \A e \in 1 .. Len(entries) : \E k \in those : Rank(those, k) = e

\* The entries with a key, and the members that set them.
Entries(entries, key) == {e \in DOMAIN entries : entries[e].key = key}
Setters(those, limit, of, key) == {k \in those : Rank(those, k) <= limit /\ of[k].key = key}

\* What the arguments set.
Settings == [k \in DOMAIN given |->
              [key |-> Options[A!Matched(given[k].c)].long, value |-> given[k].optarg]]

Entry == [key : A!Names, value : {t.optarg : t \in Tokens}]

CliInv ==
    /\ given \in Seq(Tokens) /\ cli \in Seq(Entry)
    /\ file \in Seq(Lines) /\ config \in Seq(Lines \ {Null})
    /\ stage \in {"main", "handler"} => file = <<>>
    /\ Kept(A!Recognised, Len(given), cli, CLI_MAX_OPTS, Settings)
    /\ stage # "freed" => Kept(A!Pairs, Len(file), config, CLI_MAX_CONFIG, file)

-----------------------------------------------------------------------------
(* Tables of limited size *)

\* The rank of a member is that of an entry of a table without a limit.
LEMMA RankType ==
  ASSUME NEW those, NEW n \in Nat, those \subseteq 1 .. n
  PROVE  /\ IsFiniteSet(those) /\ Cardinality(those) \in Nat
         /\ \A k \in those : Rank(those, k) \in 1 .. Cardinality(those)
<1>1. IsFiniteSet(1 .. n)
  BY FS_Interval
<1>2. IsFiniteSet(those) /\ Cardinality(those) \in Nat
  BY <1>1, FS_Subset, FS_CardinalityType
<1>3. ASSUME NEW k \in those PROVE Rank(those, k) \in 1 .. Cardinality(those)
  <2>1. those \cap 1 .. k \in SUBSET those /\ k \in those \cap 1 .. k
    OBVIOUS
  <2>2. IsFiniteSet(those \cap 1 .. k) /\ Cardinality(those \cap 1 .. k) <= Cardinality(those)
    BY <2>1, <1>2, FS_Subset
  <2>3. Cardinality(those \cap 1 .. k) \in Nat
    BY <2>2, FS_CardinalityType
  <2>4. Cardinality(those \cap 1 .. k) # 0
    BY <2>1, <2>2, FS_EmptySet
  <2> QED
    BY <2>2, <2>3, <2>4, <1>2 DEF Rank
<1> QED
  BY <1>2, <1>3

\* A later member has a higher rank.
LEMMA RankIncreases ==
  ASSUME NEW those, NEW n \in Nat, those \subseteq 1 .. n,
         NEW j \in those, NEW k \in those, j < k
  PROVE  Rank(those, j) < Rank(those, k)
<1> DEFINE low == those \cap 1 .. j
           high == those \cap 1 .. k
<1>1. IsFiniteSet(those)
  BY RankType
<1>2. high \in SUBSET those /\ low \in SUBSET high /\ k \in high /\ k \notin low
  OBVIOUS
<1> HIDE DEF low, high
<1>3. IsFiniteSet(high)
  BY <1>1, <1>2, FS_Subset
<1>4. IsFiniteSet(low) /\ Cardinality(low) <= Cardinality(high) /\ low # high
  BY <1>2, <1>3, FS_Subset
<1>5. Cardinality(low) # Cardinality(high)
  BY <1>2, <1>3, <1>4, FS_Subset
<1>6. Cardinality(low) \in Nat /\ Cardinality(high) \in Nat
  BY <1>3, <1>4, FS_CardinalityType
<1> QED
  BY <1>4, <1>5, <1>6 DEF Rank, low, high

\* What sets nothing leaves the table alone.
LEMMA KeptSkips ==
  ASSUME NEW those, NEW n \in Nat, NEW entries, NEW limit, NEW of, NEW of2,
         Kept(those, n, entries, limit, of), \A k \in those : of2[k] = of[k]
  PROVE  Kept(those, n + 1, entries, limit, of2)
<1>1. those \subseteq 1 .. n + 1
  BY DEF Kept
<1> QED
  BY <1>1 DEF Kept

\* What sets something is added to the table, if there is room.
LEMMA KeptAdds ==
  ASSUME NEW those, NEW n \in Nat, NEW entries, NEW limit \in Nat, NEW of, NEW of2, NEW T,
         entries \in Seq(T), of2[n + 1] \in T,
         Kept(those, n, entries, limit, of), \A k \in those : of2[k] = of[k],
         NEW more, more = those \cup {n + 1},
         NEW next, next = IF Len(entries) >= limit THEN entries ELSE Append(entries, of2[n + 1])
  PROVE  Kept(more, n + 1, next, limit, of2)
<1> DEFINE last == Append(entries, of2[n + 1])
<1>1. those \subseteq 1 .. n /\ n + 1 \notin those /\ more \subseteq Nat
  BY DEF Kept
<1>2. IsFiniteSet(those) /\ Cardinality(those) \in Nat
  BY <1>1, RankType
<1>3. Cardinality(more) = Cardinality(those) + 1
  BY <1>1, <1>2, FS_AddElement
<1>4. \A k \in those : Rank(more, k) = Rank(those, k)
  <2>1. ASSUME NEW k \in those PROVE more \cap 1 .. k = those \cap 1 .. k
    BY <1>1
  <2> QED
    BY <2>1 DEF Rank
<1>5. Rank(more, n + 1) = Cardinality(those) + 1
  <2>1. \A k \in more : k \in 1 .. n + 1
    BY <1>1
  <2>2. more \cap 1 .. n + 1 = more
    BY <2>1
  <2> QED
    BY <2>2, <1>3 DEF Rank
<1>6. /\ Len(last) = Len(entries) + 1 /\ last[Len(entries) + 1] = of2[n + 1]
      /\ \A e \in 1 .. Len(entries) : last[e] = entries[e]
      /\ Len(entries) \in Nat
  BY AppendProperties, LenProperties
<1>7. \A k \in those : Rank(those, k) \in 1 .. Cardinality(those)
  BY <1>1, RankType
<1>8. more \subseteq 1 .. n + 1
  BY <1>1
<1>9. Len(entries) = IF Cardinality(those) <= limit THEN Cardinality(those) ELSE limit
  BY DEF Kept
<1>10. \A k \in those : Rank(those, k) <= limit => entries[Rank(those, k)] = of2[k]
  BY DEF Kept
<1>11. \A e \in 1 .. Len(entries) : \E k \in those : Rank(those, k) = e
  BY DEF Kept
<1>12. CASE Len(entries) >= limit
  <2>1. Len(entries) = limit /\ limit <= Cardinality(those) /\ next = entries
    BY <1>12, <1>9, <1>2
  <2>2. \A k \in more : Rank(more, k) <= limit => entries[Rank(more, k)] = of2[k]
    <3>1. ~(Rank(more, n + 1) <= limit)
      BY <2>1, <1>2, <1>5
    <3>2. \A k \in those : Rank(more, k) <= limit => entries[Rank(more, k)] = of2[k]
      BY <1>4, <1>10
    <3> QED
      BY <3>1, <3>2
  <2>3. \A e \in 1 .. Len(entries) : \E k \in more : Rank(more, k) = e
    BY <1>4, <1>11
  <2>4. Len(entries) = IF Cardinality(more) <= limit THEN Cardinality(more) ELSE limit
    BY <2>1, <1>2, <1>3
  <2> QED
    BY <1>8, <2>1, <2>2, <2>3, <2>4 DEF Kept
<1>13. CASE ~(Len(entries) >= limit)
  <2>1. Len(entries) = Cardinality(those) /\ next = last
    BY <1>13, <1>9, <1>2
  <2>2. \A k \in more : Rank(more, k) <= limit => last[Rank(more, k)] = of2[k]
    BY <2>1, <1>2, <1>4, <1>5, <1>6, <1>7, <1>10
  <2>3. \A e \in 1 .. Len(last) : \E k \in more : Rank(more, k) = e
    <3> SUFFICES ASSUME NEW e \in 1 .. Len(last) PROVE \E k \in more : Rank(more, k) = e
      OBVIOUS
    <3>1. CASE e = Len(entries) + 1
      BY <3>1, <2>1, <1>5
    <3>2. CASE e \in 1 .. Len(entries)
      BY <3>2, <1>4, <1>11
    <3>3. e = Len(entries) + 1 \/ e \in 1 .. Len(entries)
      BY <1>6
    <3> QED
      BY <3>1, <3>2, <3>3
  <2>4. Len(last) = IF Cardinality(more) <= limit THEN Cardinality(more) ELSE limit
    BY <2>1, <1>2, <1>3, <1>6, <1>13
  <2> HIDE DEF last
  <2> QED
    BY <1>8, <2>1, <2>2, <2>3, <2>4 DEF Kept
<1> QED
  BY <1>12, <1>13

\* A set of numbers up to n has a last member.
LEMMA LastOfSet ==
  ASSUME NEW n \in Nat, NEW Q, Q \subseteq 1 .. n, Q # {}
  PROVE  \E m \in Q : \A k \in Q : k <= m
<1> DEFINE less == OpToRel(<, Nat)
           mirror == {n - k : k \in Q}
<1>1. IsWellFoundedOn(less, Nat)
  BY NatLessThanWellFounded
<1>2. \A i1, j1 \in Nat : <<j1, i1>> \in less <=> j1 < i1
  BY DEF OpToRel
<1> HIDE DEF less
<1>3. \A k \in Q : k \in Nat /\ n - k \in Nat
  OBVIOUS
<1>4. mirror \subseteq Nat /\ mirror # {}
  BY <1>3
<1>5. PICK i1 \in mirror : \A j1 \in mirror : ~(<<j1, i1>> \in less)
  BY <1>1, <1>4, WFMin
<1>6. PICK m \in Q : i1 = n - m
  BY <1>5
<1>7. ASSUME NEW k \in Q PROVE k <= m
  <2>1. ~(n - k < n - m)
    BY <1>2, <1>3, <1>5, <1>6
  <2> QED
    BY <2>1, <1>3
<1> QED
  BY <1>7

\* The last entry of a kind is what the last member of that kind sets.
LEMMA LastKept ==
  ASSUME NEW those, NEW n \in Nat, NEW entries, NEW T, entries \in Seq(T),
         NEW limit \in Nat, NEW of, Kept(those, n, entries, limit, of),
         NEW key
  PROVE  LET here == Entries(entries, key)
             there == Setters(those, limit, of, key)
         IN /\ here = {} <=> there = {}
            /\ here # {} => A!Max(there) \in there /\ entries[A!Max(here)] = of[A!Max(there)]
<1> DEFINE here == {e \in DOMAIN entries : entries[e].key = key}
           there == {k \in those : Rank(those, k) <= limit /\ of[k].key = key}
<1>0. here = Entries(entries, key) /\ there = Setters(those, limit, of, key)
  BY DEF Entries, Setters
<1>1. /\ those \subseteq 1 .. n
      /\ Len(entries) = IF Cardinality(those) <= limit THEN Cardinality(those) ELSE limit
      /\ \A k \in those : Rank(those, k) <= limit => entries[Rank(those, k)] = of[k]
      /\ \A e \in 1 .. Len(entries) : \E k \in those : Rank(those, k) = e
  BY DEF Kept
<1>2. /\ Cardinality(those) \in Nat
      /\ \A k \in those : Rank(those, k) \in 1 .. Cardinality(those)
  BY <1>1, RankType
<1>3. DOMAIN entries = 1 .. Len(entries) /\ Len(entries) \in Nat
  BY LenProperties
<1>4. ASSUME NEW k \in there PROVE Rank(those, k) \in here
  <2>1. k \in those /\ Rank(those, k) <= limit /\ of[k].key = key
    OBVIOUS
  <2>2. Rank(those, k) \in 1 .. Len(entries)
    BY <2>1, <1>1, <1>2
  <2> QED
    BY <2>1, <2>2, <1>1, <1>3
<1>5. ASSUME NEW e \in here PROVE \E k \in there : Rank(those, k) = e
  <2>1. e \in 1 .. Len(entries) /\ entries[e].key = key
    BY <1>3
  <2>2. PICK k \in those : Rank(those, k) = e
    BY <2>1, <1>1
  <2>3. Rank(those, k) <= limit
    BY <2>1, <2>2, <1>1, <1>2
  <2>4. of[k].key = key
    BY <2>1, <2>2, <2>3, <1>1
  <2> QED
    BY <2>2, <2>3, <2>4
<1>6. here = {} <=> there = {}
  BY <1>4, <1>5
<1>7. ASSUME here # {}
      PROVE  A!Max(there) \in there /\ entries[A!Max(here)] = of[A!Max(there)]
  <2>1. there # {} /\ there \subseteq 1 .. n /\ here \subseteq 1 .. Len(entries)
    BY <1>1, <1>3, <1>6, <1>7
  <2>2. PICK m \in there : \A k \in there : k <= m
    BY <2>1, LastOfSet
  <2>3. A!Max(there) = m
    <3>1. \A k \in there : k \in Int
      BY <2>1
    <3>2. \A x \in there : (\A y \in there : x >= y) => x = m
      BY <2>2, <3>1
    <3> QED
      BY <2>2, <3>1, <3>2 DEF A!Max
  <2>4. ASSUME NEW e \in here PROVE e <= Rank(those, m)
    <3>1. PICK k \in there : Rank(those, k) = e
      BY <1>5
    <3>2. k \in those /\ m \in those /\ k \in Int /\ m \in Int /\ k <= m
      BY <2>1, <2>2
    <3>3. Rank(those, k) \in Int /\ Rank(those, m) \in Int
      BY <3>2, <1>2
    <3>4. CASE k = m
      BY <3>1, <3>3, <3>4
    <3>5. CASE k < m
      <4>1. Rank(those, k) < Rank(those, m)
        BY <3>2, <3>5, <1>1, RankIncreases
      <4> QED
        BY <3>1, <3>3, <4>1
    <3> QED
      BY <3>2, <3>4, <3>5
  <2>5. Rank(those, m) \in here
    BY <1>4
  <2>6. A!Max(here) = Rank(those, m)
    <3>1. \A e \in here : e \in Int
      BY <2>1
    <3>2. \A x \in here : (\A y \in here : x >= y) => x = Rank(those, m)
      BY <2>4, <2>5, <3>1
    <3>3. \A y \in here : Rank(those, m) >= y
      BY <2>4, <2>5, <3>1
    <3> QED
      BY <2>5, <3>2, <3>3 DEF A!Max
  <2>7. m \in those /\ Rank(those, m) <= limit
    OBVIOUS
  <2> QED
    BY <2>3, <2>6, <2>7, <1>1
<1> HIDE DEF here, there
<1> QED
  BY <1>0, <1>6, <1>7

-----------------------------------------------------------------------------
(* The table of options *)

\* At most one option is meant by what getopt_long returns.
LEMMA MatchedIs ==
  ASSUME NEW c
  PROVE  /\ A!Matched(c) # 0 => A!Matched(c) \in DOMAIN Options /\ A!Val(A!Matched(c)) = c
         /\ \A k \in DOMAIN Options : A!Val(k) = c => A!Matched(c) = k /\ k # 0
<1> DEFINE hits == {k \in DOMAIN Options : c # 63 /\ A!Val(k) = c}
<1>1. A!Matched(c) = IF hits = {} THEN 0 ELSE A!Min(hits)
  BY DEF A!Matched
<1>2. /\ \A k \in DOMAIN Options : k \in Nat \ {0} /\ A!Val(k) # 63
      /\ \A h, k \in DOMAIN Options : h # k => A!Val(h) # A!Val(k)
  BY OptionsAssumption
<1>3. ASSUME NEW k \in DOMAIN Options, A!Val(k) = c PROVE A!Matched(c) = k
  <2>1. hits = {k}
    BY <1>2, <1>3
  <2> HIDE DEF hits
  <2>2. A!Min({k}) = k
    BY <1>2 DEF A!Min
  <2> QED
    BY <1>1, <2>1, <2>2
<1>4. ASSUME A!Matched(c) # 0
      PROVE  A!Matched(c) \in DOMAIN Options /\ A!Val(A!Matched(c)) = c
  <2>1. PICK k \in hits : TRUE
    BY <1>1, <1>4
  <2> QED
    BY <2>1, <1>3
<1> QED
  BY <1>2, <1>3, <1>4

\* An option is found by its name.
LEMMA FoundIs ==
  ASSUME NEW k \in DOMAIN Options
  PROVE  A!FindOption(Options[k].long) = Options[k]
<1> DEFINE hits == {h \in DOMAIN Options : Options[h].long = Options[k].long}
<1>1. A!FindOption(Options[k].long) =
        IF hits = {} THEN [env |-> Null, def |-> Null] ELSE Options[A!Min(hits)]
  BY DEF A!FindOption
<1>2. hits = {k} /\ k \in Nat
  BY OptionsAssumption
<1> HIDE DEF hits
<1>3. A!Min({k}) = k
  BY <1>2 DEF A!Min
<1> QED
  BY <1>1, <1>2, <1>3

\* The count of Cli is the usual one.
LEMMA CountIs ==
  ASSUME NEW Q
  PROVE  A!Cardinality(Q) = Cardinality(Q)
BY DEF A!Cardinality, Cardinality

-----------------------------------------------------------------------------
(* The invariant *)

LEMMA CliStarts ==
  ASSUME A!Init
  PROVE  CliInv
<1>1. stage = "main" /\ cli = <<>> /\ config = <<>> /\ given = <<>> /\ file = <<>>
  BY DEF A!Init
<1>2. A!Recognised = {} /\ A!Pairs = {}
  BY <1>1 DEF A!Recognised, A!Pairs
<1>3. CLI_MAX_OPTS \in Nat /\ CLI_MAX_CONFIG \in Nat
  BY OptionsAssumption
<1>4. \A limit \in Nat : \A of : Kept({}, 0, <<>>, limit, of)
  BY FS_EmptySet DEF Kept
<1>5. Len(given) = 0 /\ Len(file) = 0
  BY <1>1
<1> QED
  BY <1>1, <1>2, <1>3, <1>4, <1>5 DEF CliInv

LEMMA CliParseKeeps ==
  ASSUME CliInv, A!CliParse
  PROVE  CliInv'
<1>1. /\ stage = "handler" /\ cli' = <<>> /\ config' = <<>> /\ given' = <<>>
      /\ stage' = "parsing" /\ file' = <<>>
  BY DEF A!CliParse, CliInv
<1>2. (A!Recognised)' = {} /\ (A!Pairs)' = {}
  BY <1>1 DEF A!Recognised, A!Pairs
<1>3. CLI_MAX_OPTS \in Nat /\ CLI_MAX_CONFIG \in Nat
  BY OptionsAssumption
<1>4. \A limit \in Nat : \A of : Kept({}, 0, <<>>, limit, of)
  BY FS_EmptySet DEF Kept
<1>5. Len(given') = 0 /\ Len(file') = 0
  BY <1>1
<1> QED
  BY <1>1, <1>2, <1>3, <1>4, <1>5 DEF CliInv

LEMMA OneMore ==
  ASSUME NEW n \in Nat, NEW Q, Q \subseteq 1 .. n
  PROVE  Q \subseteq 1 .. n + 1 /\ Q \cup {n + 1} \subseteq 1 .. n + 1
<1>1. \A k \in Q : k \in 1 .. n + 1
  OBVIOUS
<1> QED
  BY <1>1

LEMMA SameMembers ==
  ASSUME NEW n \in Nat, NEW P, NEW Q, P \subseteq 1 .. n + 1, Q \subseteq 1 .. n + 1,
         \A k \in 1 .. n + 1 : k \in P <=> k \in Q
  PROVE  P = Q
<1>1. \A k \in Q : k \in 1 .. n + 1
  OBVIOUS
<1> QED
  BY <1>1

\* A step that reads no line, and one that parses no argument.
LEMMA SameFiles ==
  ASSUME CliInv, UNCHANGED <<file, config>>, stage # "freed"
  PROVE  Kept((A!Pairs)', Len(file'), config', CLI_MAX_CONFIG, file')
<1>1. (A!Pairs)' = A!Pairs
  BY DEF A!Pairs
<1> QED
  BY <1>1 DEF CliInv

LEMMA SameGiven ==
  ASSUME CliInv, UNCHANGED <<given, cli>>
  PROVE  /\ given' \in Seq(Tokens) /\ cli' \in Seq(Entry)
         /\ Kept((A!Recognised)', Len(given'), cli', CLI_MAX_OPTS, Settings')
<1>1. (A!Recognised)' = A!Recognised /\ Settings' = Settings
  BY DEF A!Recognised, Settings
<1> QED
  BY <1>1 DEF CliInv

LEMMA NextOptionKeeps ==
  ASSUME CliInv, A!NextOption
  PROVE  CliInv'
<1> DEFINE n == Len(given)
           limit == CLI_MAX_OPTS
<1>1. PICK t \in Tokens :
        /\ given' = Append(given, t)
        /\ cli' = IF A!Matched(t.c) = 0 THEN cli
                  ELSE A!Added(cli, [key |-> Options[A!Matched(t.c)].long, value |-> t.optarg])
  BY DEF A!NextOption
<1>2. /\ given \in Seq(Tokens) /\ cli \in Seq(Entry)
      /\ Kept(A!Recognised, n, cli, limit, Settings)
  BY DEF CliInv
<1>3. n \in Nat /\ limit \in Nat /\ DOMAIN given = 1 .. n
  BY <1>2, LenProperties, OptionsAssumption
<1>4. /\ given' \in Seq(Tokens) /\ Len(given') = n + 1 /\ given'[n + 1] = t
      /\ \A k \in 1 .. n : given'[k] = given[k]
  BY <1>1, <1>2, <1>3, AppendProperties
<1>5. DOMAIN given' = 1 .. n + 1
  BY <1>4, LenProperties
<1>6. /\ \A k \in 1 .. n : Settings'[k] = Settings[k]
      /\ Settings'[n + 1] = [key |-> Options[A!Matched(t.c)].long, value |-> t.optarg]
  BY <1>3, <1>4, <1>5 DEF Settings
<1>7. A!Recognised \subseteq 1 .. n
  BY <1>3 DEF A!Recognised
<1>8. /\ stage' = stage /\ stage = "parsing" /\ file' = file
       /\ file' \in Seq(Lines) /\ config' \in Seq(Lines \ {Null})
       /\ Kept((A!Pairs)', Len(file'), config', CLI_MAX_CONFIG, file')
  <2>1. UNCHANGED <<file, config, stage>> /\ stage = "parsing"
    BY DEF A!NextOption
  <2>2. stage # "freed"
    BY <2>1
  <2> QED
    BY <2>1, <2>2, SameFiles DEF CliInv
<1>9. CASE A!Matched(t.c) = 0
  <2>1. cli' = cli /\ (A!Recognised)' = A!Recognised
    <3>1. \A k \in 1 .. n + 1 : k \in (A!Recognised)' <=> k \in A!Recognised
      BY <1>3, <1>4, <1>5, <1>9 DEF A!Recognised
    <3>2. (A!Recognised)' \subseteq 1 .. n + 1
      BY <1>5 DEF A!Recognised
    <3>3. (A!Recognised)' = A!Recognised
      BY <1>3, <1>7, <3>1, <3>2, OneMore, SameMembers
    <3> QED
      BY <1>1, <1>9, <3>3
  <2>2. Kept(A!Recognised, n + 1, cli, limit, Settings')
    BY <1>2, <1>3, <1>6, <1>7, KeptSkips
  <2> QED
    BY <1>2, <1>4, <1>8, <2>1, <2>2 DEF CliInv
<1>10. CASE A!Matched(t.c) # 0
  <2>1. (A!Recognised)' = A!Recognised \cup {n + 1}
    <3>1. \A k \in 1 .. n + 1 : k \in (A!Recognised)' <=> k \in A!Recognised \cup {n + 1}
      BY <1>3, <1>4, <1>5, <1>10 DEF A!Recognised
    <3>2. (A!Recognised)' \subseteq 1 .. n + 1
      BY <1>5 DEF A!Recognised
    <3>3. A!Recognised \cup {n + 1} \subseteq 1 .. n + 1
      BY <1>3, <1>7, OneMore
    <3> HIDE DEF n
    <3> QED
      BY <1>3, <3>1, <3>2, <3>3, SameMembers
  <2>2. Settings'[n + 1] \in Entry
    <3>1. A!Matched(t.c) \in DOMAIN Options
      BY <1>10, MatchedIs
    <3> QED
      BY <1>6, <3>1 DEF Entry, A!Names
  <2>3. cli' = IF Len(cli) >= limit THEN cli ELSE Append(cli, Settings'[n + 1])
    BY <1>1, <1>6, <1>10 DEF A!Added
  <2>4. Kept((A!Recognised)', n + 1, cli', limit, Settings')
    BY <1>2, <1>3, <1>6, <1>7, <2>1, <2>2, <2>3, KeptAdds
  <2>5. cli' \in Seq(Entry)
    BY <1>2, <2>2, <2>3, AppendProperties
  <2> QED
    BY <1>4, <1>8, <2>4, <2>5 DEF CliInv
<1> QED
  BY <1>9, <1>10

LEMMA ReadLineKeeps ==
  ASSUME CliInv, A!ReadLine
  PROVE  CliInv'
<1> DEFINE n == Len(file)
           limit == CLI_MAX_CONFIG
<1>1. PICK line \in Lines :
        \/ /\ line = Null \/ Len(config) >= limit
           /\ file' = Append(file, line)
           /\ UNCHANGED <<config, stage>>
        \/ /\ line # Null /\ Len(config) < limit
           /\ file' = Append(file, line)
           /\ config' = Append(config, line)
           /\ UNCHANGED stage
        \/ /\ line # Null /\ Len(config) < limit
           /\ stage' = "ready"
           /\ UNCHANGED <<file, config>>
  BY DEF A!ReadLine
<1>2. stage = "reading" /\ UNCHANGED <<cli, env, given>>
  BY DEF A!ReadLine
<1>3. /\ file \in Seq(Lines) /\ config \in Seq(Lines \ {Null})
      /\ Kept(A!Pairs, n, config, limit, file)
  BY <1>2 DEF CliInv
<1>4. n \in Nat /\ limit \in Nat /\ DOMAIN file = 1 .. n /\ Len(config) \in Nat
  BY <1>3, LenProperties, OptionsAssumption
<1>5. /\ given' \in Seq(Tokens) /\ cli' \in Seq(Entry)
      /\ Kept((A!Recognised)', Len(given'), cli', CLI_MAX_OPTS, Settings')
  BY <1>2, SameGiven
<1>6. A!Pairs \subseteq 1 .. n
  BY <1>4 DEF A!Pairs
<1>7. CASE UNCHANGED <<file, config>>
  <2>1. Kept((A!Pairs)', Len(file'), config', limit, file')
    BY <1>2, <1>7, SameFiles
  <2>2. stage' \in {"reading", "ready"}
    BY <1>1, <1>2
  <2> QED
    BY <1>3, <1>5, <1>7, <2>1, <2>2 DEF CliInv
<1>8. CASE /\ file' = Append(file, line) /\ stage' = stage
           /\ config' = IF line = Null \/ Len(config) >= limit THEN config ELSE Append(config, line)
  <2>1. /\ file' \in Seq(Lines) /\ Len(file') = n + 1 /\ file'[n + 1] = line
        /\ \A k \in 1 .. n : file'[k] = file[k]
    BY <1>3, <1>4, <1>8, AppendProperties
  <2>2. DOMAIN file' = 1 .. n + 1
    BY <2>1, LenProperties
  <2>3. (A!Pairs)' \subseteq 1 .. n + 1
    BY <2>2 DEF A!Pairs
  <2>4. config' \in Seq(Lines \ {Null})
    BY <1>3, <1>8, AppendProperties
  <2>5. CASE line = Null
    <3>1. \A k \in 1 .. n + 1 : k \in (A!Pairs)' <=> k \in A!Pairs
      BY <1>4, <2>1, <2>2, <2>5 DEF A!Pairs
    <3>2. (A!Pairs)' = A!Pairs
      BY <1>4, <1>6, <2>3, <3>1, OneMore, SameMembers
    <3>3. Kept(A!Pairs, n + 1, config, limit, file')
      BY <1>3, <1>4, <1>6, <2>1, KeptSkips
    <3> QED
      BY <1>2, <1>5, <1>8, <2>1, <2>4, <2>5, <3>2, <3>3 DEF CliInv
  <2>6. CASE line # Null
    <3>1. \A k \in 1 .. n + 1 : k \in (A!Pairs)' <=> k \in A!Pairs \cup {n + 1}
      BY <1>4, <2>1, <2>2, <2>6 DEF A!Pairs
    <3>2. A!Pairs \cup {n + 1} \subseteq 1 .. n + 1
      BY <1>4, <1>6, OneMore
    <3>3. (A!Pairs)' = A!Pairs \cup {n + 1}
      <4> HIDE DEF n
      <4> QED
        BY <1>4, <2>3, <3>1, <3>2, SameMembers
    <3>4. /\ config' = IF Len(config) >= limit THEN config ELSE Append(config, file'[n + 1])
          /\ file'[n + 1] \in Lines \ {Null}
      BY <1>8, <2>1, <2>6
    <3>5. Kept((A!Pairs)', n + 1, config', limit, file')
      BY <1>3, <1>4, <1>6, <2>1, <3>3, <3>4, KeptAdds
    <3> QED
      BY <1>2, <1>5, <1>8, <2>1, <2>4, <3>5 DEF CliInv
  <2> QED
    BY <2>5, <2>6
<1> QED
  BY <1>1, <1>4, <1>7, <1>8

LEMMA CliFreeKeeps ==
  ASSUME CliInv, A!CliFree
  PROVE  CliInv'
<1>1. config' = <<>> /\ stage' = "freed" /\ UNCHANGED <<cli, given, file>>
  BY DEF A!CliFree
<1>2. /\ given' \in Seq(Tokens) /\ cli' \in Seq(Entry)
      /\ Kept((A!Recognised)', Len(given'), cli', CLI_MAX_OPTS, Settings')
  BY <1>1, SameGiven
<1> QED
  BY <1>1, <1>2 DEF CliInv

\* The other steps leave all tables alone.
LEMMA StageKeeps ==
  ASSUME CliInv, UNCHANGED <<cli, config, given, file>>,
         stage' \in {"main", "handler"} => file = <<>>, stage' # "freed" => stage # "freed"
  PROVE  CliInv'
<1>1. /\ given' \in Seq(Tokens) /\ cli' \in Seq(Entry)
      /\ Kept((A!Recognised)', Len(given'), cli', CLI_MAX_OPTS, Settings')
  BY SameGiven
<1>2. stage' # "freed" => Kept((A!Pairs)', Len(file'), config', CLI_MAX_CONFIG, file')
  BY SameFiles
<1> QED
  BY <1>1, <1>2 DEF CliInv

LEMMA CliStepKeeps ==
  ASSUME CliInv, [A!Next]_(A!vars)
  PROVE  CliInv'
<1>1. CASE A!Dispatch
  <2>1. UNCHANGED <<cli, config, given, file>> /\ stage = "main" /\ stage' # "freed"
    BY <1>1 DEF A!Dispatch
  <2>2. file = <<>> /\ stage # "freed"
    BY <2>1 DEF CliInv
  <2> QED
    BY <2>1, <2>2, StageKeeps
<1>2. CASE A!EndOfOptions \/ A!OpenConfig \/ A!CloseConfig
  <2>1. /\ UNCHANGED <<cli, config, given, file>>
        /\ stage # "freed" /\ stage' \notin {"main", "handler"}
    BY <1>2 DEF A!EndOfOptions, A!OpenConfig, A!CloseConfig
  <2> QED
    BY <2>1, StageKeeps
<1>3. CASE UNCHANGED A!vars
  <2>1. UNCHANGED <<cli, config, given, file, stage>>
    BY <1>3 DEF A!vars
  <2>2. stage' \in {"main", "handler"} => file = <<>>
    BY <2>1 DEF CliInv
  <2> QED
    BY <2>1, <2>2, StageKeeps
<1> QED
  BY <1>1, <1>2, <1>3, CliParseKeeps, NextOptionKeeps, ReadLineKeeps, CliFreeKeeps DEF A!Next

-----------------------------------------------------------------------------
(* What an option resolves to *)

\* What cli_parse has kept of an option is its last setting.
LEMMA OnCliIs ==
  ASSUME CliInv, NEW opt \in DOMAIN Options
  PROVE  A!FindEntry(cli, Options[opt].long) = A!OnCli(opt)
<1> DEFINE key == Options[opt].long
           limit == CLI_MAX_OPTS
           here == {e \in DOMAIN cli : cli[e].key = key}
           there == {k \in A!Recognised : Rank(A!Recognised, k) <= limit /\ Settings[k].key = key}
           hits == {k \in A!Within(A!Recognised, limit) : given[k].c = A!Val(opt)}
<1>1. /\ given \in Seq(Tokens) /\ cli \in Seq(Entry)
      /\ Kept(A!Recognised, Len(given), cli, limit, Settings)
  BY DEF CliInv
<1>2. Len(given) \in Nat /\ limit \in Nat
  BY <1>1, LenProperties, OptionsAssumption
<1>3. ASSUME NEW k \in A!Recognised PROVE Settings[k].key = key <=> given[k].c = A!Val(opt)
  <2>1. Settings[k] = [key |-> Options[A!Matched(given[k].c)].long, value |-> given[k].optarg]
    BY <1>3 DEF Settings, A!Recognised
  <2>2. A!Matched(given[k].c) # 0
    BY DEF A!Recognised
  <2>3. /\ A!Matched(given[k].c) \in DOMAIN Options
        /\ A!Val(A!Matched(given[k].c)) = given[k].c
    BY <2>2, MatchedIs
  <2>4. \A j \in DOMAIN Options : j # opt => Options[j].long # Options[opt].long /\ A!Val(j) # A!Val(opt)
    BY OptionsAssumption
  <2> QED
    BY <2>1, <2>3, <2>4
<1>4. hits = there
  <2>1. \A k \in A!Recognised : A!Cardinality(A!Recognised \cap 1 .. k) = Rank(A!Recognised, k)
    BY CountIs DEF Rank
  <2> QED
    BY <2>1, <1>3 DEF A!Within
<1>5. /\ here = {} <=> there = {}
      /\ here # {} => A!Max(there) \in there /\ cli[A!Max(here)] = Settings[A!Max(there)]
  <2> HIDE DEF limit, key
  <2>1. here = Entries(cli, key) /\ there = Setters(A!Recognised, limit, Settings, key)
    BY DEF Entries, Setters
  <2> HIDE DEF here, there
  <2> QED
    BY <1>1, <1>2, <2>1, LastKept
<1>6. A!FindEntry(cli, key) =
        IF here = {} THEN Null
        ELSE IF cli[A!Max(here)].value = Null THEN Empty ELSE cli[A!Max(here)].value
  BY DEF A!FindEntry
<1>7. A!OnCli(opt) =
        IF hits = {} THEN Null
        ELSE IF given[A!Max(hits)].optarg = Null THEN Empty ELSE given[A!Max(hits)].optarg
  BY DEF A!OnCli
<1>8. \A k \in A!Recognised : Settings[k].value = given[k].optarg
  BY DEF Settings, A!Recognised
<1>9. \A k \in there : k \in A!Recognised
  OBVIOUS
<1> HIDE DEF here, there, hits
<1> QED
  BY <1>4, <1>5, <1>6, <1>7, <1>8, <1>9

\* What the files have set of an option is the last line that names it.
LEMMA InFileIs ==
  ASSUME CliInv, stage # "freed", NEW name
  PROVE  A!FindEntry(config, name) = A!InFile(name)
<1> DEFINE limit == CLI_MAX_CONFIG
           here == {e \in DOMAIN config : config[e].key = name}
           there == {k \in A!Pairs : Rank(A!Pairs, k) <= limit /\ file[k].key = name}
           hits == {k \in A!Within(A!Pairs, limit) : file[k].key = name}
<1>1. /\ file \in Seq(Lines) /\ config \in Seq(Lines \ {Null})
      /\ Kept(A!Pairs, Len(file), config, limit, file)
  BY DEF CliInv
<1>2. Len(file) \in Nat /\ limit \in Nat
  BY <1>1, LenProperties, OptionsAssumption
<1>3. hits = there
  <2>1. \A k \in A!Pairs : A!Cardinality(A!Pairs \cap 1 .. k) = Rank(A!Pairs, k)
    BY CountIs DEF Rank
  <2> QED
    BY <2>1 DEF A!Within
<1>4. /\ here = {} <=> there = {}
      /\ here # {} => A!Max(there) \in there /\ config[A!Max(here)] = file[A!Max(there)]
  <2> HIDE DEF limit
  <2>1. here = Entries(config, name) /\ there = Setters(A!Pairs, limit, file, name)
    BY DEF Entries, Setters
  <2> HIDE DEF here, there
  <2> QED
    BY <1>1, <1>2, <2>1, LastKept
<1>5. A!FindEntry(config, name) =
        IF here = {} THEN Null
        ELSE IF config[A!Max(here)].value = Null THEN Empty ELSE config[A!Max(here)].value
  BY DEF A!FindEntry
<1>6. A!InFile(name) = IF hits = {} THEN Null ELSE file[A!Max(hits)].value
  BY DEF A!InFile
<1>7. \A k \in there : file[k].value # Null
  <2>1. \A k \in there : k \in DOMAIN file /\ file[k] # Null
    BY DEF A!Pairs
  <2>2. \A k \in there : file[k] \in Lines \ {Null}
    BY <2>1, <1>1, ElementOfSeq, LenProperties
  <2> QED
    BY <2>2, OptionsAssumption
<1> HIDE DEF here, there, hits
<1> QED
  BY <1>3, <1>4, <1>5, <1>6, <1>7

\* The first of four layers that is set.
LEMMA FirstLayer ==
  ASSUME NEW a, NEW b, NEW c, NEW d, NEW layers, layers = <<a, b, c, d>>,
         NEW set, set = {k \in DOMAIN layers : layers[k] # Null}
  PROVE  /\ set = {} <=> a = Null /\ b = Null /\ c = Null /\ d = Null
         /\ a # Null => layers[A!Min(set)] = a
         /\ a = Null /\ b # Null => layers[A!Min(set)] = b
         /\ a = Null /\ b = Null /\ c # Null => layers[A!Min(set)] = c
         /\ a = Null /\ b = Null /\ c = Null /\ d # Null => layers[A!Min(set)] = d
<1>1. /\ DOMAIN layers = 1 .. 4
      /\ layers[1] = a /\ layers[2] = b /\ layers[3] = c /\ layers[4] = d
  OBVIOUS
<1>2. /\ set \subseteq 1 .. 4
      /\ 1 \in set <=> a # Null
      /\ 2 \in set <=> b # Null
      /\ 3 \in set <=> c # Null
      /\ 4 \in set <=> d # Null
  <2>1. \A k \in 1 .. 4 : k \in set <=> layers[k] # Null
    BY <1>1
  <2>2. set \subseteq 1 .. 4
    BY <1>1
  <2> QED
    BY <1>1, <2>1, <2>2
<1>3. set = {} <=> a = Null /\ b = Null /\ c = Null /\ d = Null
  BY <1>2
<1>4. ASSUME NEW m \in set, \A k \in set : m <= k PROVE A!Min(set) = m
  <2>1. \A k \in set : k \in Int
    BY <1>2
  <2>2. \A x \in set : (\A y \in set : x <= y) => x = m
    BY <1>4, <2>1
  <2> QED
    BY <1>4, <2>2 DEF A!Min
<1>5. a # Null => A!Min(set) = 1
  BY <1>2, <1>4
<1>6. a = Null /\ b # Null => A!Min(set) = 2
  BY <1>2, <1>4
<1>7. a = Null /\ b = Null /\ c # Null => A!Min(set) = 3
  BY <1>2, <1>4
<1>8. a = Null /\ b = Null /\ c = Null /\ d # Null => A!Min(set) = 4
  BY <1>2, <1>4
<1> QED
  BY <1>1, <1>3, <1>5, <1>6, <1>7, <1>8

LEMMA LayersAreInOrder ==
  ASSUME CliInv
  PROVE  A!ResolutionIsLayered
<1> SUFFICES ASSUME stage = "ready", NEW k \in DOMAIN Options
             PROVE  LET name == Options[k].long
                        onCli == A!OnCli(k)
                        inEnv == IF Options[k].env = Null THEN Null ELSE env[Options[k].env]
                        inFile == A!InFile(name)
                        value == A!CliResolve(name)
                    IN /\ onCli # Null => value = onCli
                       /\ onCli = Null /\ inEnv # Null => value = inEnv
                       /\ onCli = Null /\ inEnv = Null /\ inFile # Null => value = inFile
                       /\ onCli = Null /\ inEnv = Null /\ inFile = Null => value = Options[k].def
                       /\ A!CliFlag(name) <=> value = Empty \/ value \in Truthy
  BY DEF A!ResolutionIsLayered
<1> DEFINE name == Options[k].long
           inEnv == IF Options[k].env = Null THEN Null ELSE env[Options[k].env]
           layers == <<A!OnCli(k), inEnv, A!InFile(name), Options[k].def>>
           set == {j \in DOMAIN layers : layers[j] # Null}
<1>1. A!FindEntry(cli, name) = A!OnCli(k) /\ A!FindEntry(config, name) = A!InFile(name)
  BY OnCliIs, InFileIs
<1>2. A!FindOption(name) = Options[k]
  BY FoundIs
<1>3. A!Getenv(Options[k].env) = inEnv
  BY DEF A!Getenv
<1>4. A!CliResolve(name) = IF set = {} THEN Null ELSE layers[A!Min(set)]
  <2> HIDE DEF name
  <2> QED
    BY <1>1, <1>2, <1>3 DEF A!CliResolve
<1>5. A!CliFlag(name) <=> A!CliResolve(name) = Empty \/ A!CliResolve(name) \in Truthy
  BY DEF A!CliFlag
<1> HIDE DEF name, inEnv
<1>6. /\ set = {} <=> A!OnCli(k) = Null /\ inEnv = Null /\ A!InFile(name) = Null /\ Options[k].def = Null
      /\ A!OnCli(k) # Null => layers[A!Min(set)] = A!OnCli(k)
      /\ A!OnCli(k) = Null /\ inEnv # Null => layers[A!Min(set)] = inEnv
      /\ A!OnCli(k) = Null /\ inEnv = Null /\ A!InFile(name) # Null
         => layers[A!Min(set)] = A!InFile(name)
      /\ A!OnCli(k) = Null /\ inEnv = Null /\ A!InFile(name) = Null /\ Options[k].def # Null
         => layers[A!Min(set)] = Options[k].def
  BY FirstLayer
<1> HIDE DEF layers, set
<1>7. /\ A!OnCli(k) # Null => A!CliResolve(name) = A!OnCli(k)
      /\ A!OnCli(k) = Null /\ inEnv # Null => A!CliResolve(name) = inEnv
      /\ A!OnCli(k) = Null /\ inEnv = Null /\ A!InFile(name) # Null
         => A!CliResolve(name) = A!InFile(name)
      /\ A!OnCli(k) = Null /\ inEnv = Null /\ A!InFile(name) = Null
         => A!CliResolve(name) = Options[k].def
  BY <1>4, <1>6
<1> QED
  BY <1>5, <1>7 DEF name, inEnv

(***************************************************************************)
(* cli_resolve, for any table of options, any arguments, lines and limits: *)
(* an option has the value of its last occurrence on the command line,     *)
(* else of its environment variable, else of the last line of the files    *)
(* that names it, else its default.                                        *)
(***************************************************************************)
THEOREM Layered == A!Spec => []ResolutionIsLayered
<1>1. A!Init => CliInv
  BY CliStarts
<1>2. CliInv /\ [A!Next]_(A!vars) => CliInv'
  BY CliStepKeeps
<1>3. CliInv => ResolutionIsLayered
  BY LayersAreInOrder DEF ResolutionIsLayered
<1> QED
  BY <1>1, <1>2, <1>3, PTL DEF A!Spec

=============================================================================
