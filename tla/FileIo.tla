------------------------------- MODULE FileIo -------------------------------
(***************************************************************************)
(* src/src/systems/file_io.c: one file path, the processes that replace it *)
(* with file_write_all, and those that read it with file_read_all or map   *)
(* it.  Below them is a POSIX file system, which is external: two          *)
(* directory entries (the path and the path with ".tmp"), inodes with      *)
(* their contents, and descriptors that keep an inode after its name was   *)
(* taken away.                                                             *)
(*                                                                         *)
(* Every system call is a step.  A version of the file is named by its     *)
(* size in chunks and consists of that many chunks with its name on them;  *)
(* a chunk reaches the inode when stdio flushes it, in fwrite or fclose.   *)
(* A process may be killed between any two steps.                          *)
(***************************************************************************)
EXTENDS Integers, Sequences

CONSTANTS Writers, Readers,
          Versions,    \* sizes of the buffers written
          Inodes,      \* bound: inodes of the file system
          Exclusive,   \* callers never write the same path at the same time
          NULL

ASSUME VersionsAssumption == Versions \subseteq Nat
ASSUME ExclusiveAssumption == Exclusive \in BOOLEAN
ASSUME InodesAssumption == NULL \notin Inodes

VARIABLES path, tmp,  \* the directory: the inode behind each name, or NULL
          content,    \* the chunks of each inode
          w,          \* per writer: where it is, its version, its descriptor, its offset
          r,          \* per reader: where it is, its descriptor, len, the buffer, what it read
          seen,       \* history, per reader: what the path held since it opened it
          leftover    \* history: a kill or a failed remove left the temporary file

vars == <<path, tmp, content, w, r, seen, leftover>>

Hole == -1
Whole(v) == [k \in 1 .. v |-> v]

IdleWriter == [pc |-> "idle", version |-> 0, fd |-> NULL, off |-> 0, ret |-> "none"]
IdleReader == [pc |-> "idle", fd |-> NULL, len |-> 0, buf |-> FALSE, got |-> <<>>, ret |-> "none"]

Init == /\ path = NULL /\ tmp = NULL
        /\ content = [i \in Inodes |-> <<>>]
        /\ w = [p \in Writers |-> IdleWriter]
        /\ r = [p \in Readers |-> IdleReader]
        /\ seen = [p \in Readers |-> {}]
        /\ leftover = FALSE

InUse == ({path, tmp} \cup {w[p].fd : p \in Writers} \cup {r[p].fd : p \in Readers}) \ {NULL}

\* What the path holds: the contents behind the name i, NULL if there is none.
Held(i, c) == IF i = NULL THEN NULL ELSE c[i]

\* Every reader that is reading sees what this step makes of the path.
Observe == seen' = [p \in Readers |-> IF r[p].pc = "idle" THEN seen[p]
                                      ELSE seen[p] \cup {Held(path', content')}]

-----------------------------------------------------------------------------
(* file_write_all *)

WriterIs(p, pc) == w[p].pc = pc
WriterReturns(p, ret) == w' = [w EXCEPT ![p] = [IdleWriter EXCEPT !.ret = ret]]

WriteCall(p, v) == /\ WriterIs(p, "idle")
                   /\ Exclusive => \A q \in Writers : WriterIs(q, "idle")
                   /\ w' = [w EXCEPT ![p] = [IdleWriter EXCEPT !.pc = "open", !.version = v]]
                   /\ UNCHANGED <<path, tmp, content, r, seen, leftover>>

Opened(p, i) == [w EXCEPT ![p] = [@ EXCEPT !.pc = "write", !.fd = i]]

\* fopen(tmp, "wb") creates the file, or truncates one that is there.
OpenTmp(p) ==
    /\ WriterIs(p, "open")
    /\ \E i \in IF tmp # NULL THEN {tmp} ELSE Inodes \ InUse :
         /\ tmp' = i
         /\ content' = [content EXCEPT ![i] = <<>>]
         /\ w' = Opened(p, i)
    /\ leftover' = FALSE
    /\ UNCHANGED <<path, r>>
    /\ Observe

\* The name cannot be allocated, or fopen fails.
OpenTmpFails(p) == /\ WriterIs(p, "open")
                   /\ WriterReturns(p, "error")
                   /\ UNCHANGED <<path, tmp, content, r, seen, leftover>>

\* The chunk at offset off of a file, which becomes that long if it is shorter.
Put(c, off, chunk) ==
    [k \in 1 .. (IF Len(c) > off THEN Len(c) ELSE off + 1) |->
       IF k = off + 1 THEN chunk ELSE IF k <= Len(c) THEN c[k] ELSE Hole]

WriteChunk(p) == /\ WriterIs(p, "write")
                 /\ w[p].off < w[p].version
                 /\ content' = [content EXCEPT ![w[p].fd] = Put(@, w[p].off, w[p].version)]
                 /\ w' = [w EXCEPT ![p].off = @ + 1]
                 /\ UNCHANGED <<path, tmp, r, leftover>>
                 /\ Observe

Closed(p, pc) == w' = [w EXCEPT ![p].pc = pc, ![p].fd = NULL]

\* Mutant: the return value of fwrite is not looked at.
WriteFailsUnnoticed(p) == /\ WriterIs(p, "write")
                          /\ Closed(p, "rename")
                          /\ UNCHANGED <<path, tmp, content, r, seen, leftover>>

\* Mutant: the temporary file is not removed.
WriteFailsUncleaned(p) == /\ WriterIs(p, "write")
                          /\ WriterReturns(p, "error")
                          /\ UNCHANGED <<path, tmp, content, r, seen, leftover>>

\* A short fwrite, or an fclose that cannot flush.
WriteFails(p) == /\ WriterIs(p, "write")
                 /\ Closed(p, "remove")
                 /\ UNCHANGED <<path, tmp, content, r, seen, leftover>>

CloseTmp(p) == /\ WriterIs(p, "write")
               /\ w[p].off = w[p].version
               /\ Closed(p, "rename")
               /\ UNCHANGED <<path, tmp, content, r, seen, leftover>>

RenameOk(p) == /\ WriterIs(p, "rename")
               /\ tmp # NULL
               /\ path' = tmp
               /\ tmp' = NULL
               /\ WriterReturns(p, "ok")
               /\ UNCHANGED <<content, r, leftover>>
               /\ Observe

RenameFails(p) == /\ WriterIs(p, "rename")
                  /\ w' = [w EXCEPT ![p].pc = "remove"]
                  /\ UNCHANGED <<path, tmp, content, r, seen, leftover>>

\* Whether remove works is not looked at.
RemoveTmp(p) == /\ WriterIs(p, "remove")
                /\ \/ tmp' = NULL /\ UNCHANGED leftover
                   \/ tmp # NULL /\ UNCHANGED tmp /\ leftover' = TRUE
                /\ WriterReturns(p, "error")
                /\ UNCHANGED <<path, content, r, seen>>

\* The writing process is killed, and started again later.
Kill(p) == /\ ~WriterIs(p, "idle")
           /\ w' = [w EXCEPT ![p] = IdleWriter]
           /\ leftover' = (leftover \/ tmp # NULL)
           /\ UNCHANGED <<path, tmp, content, r, seen>>

-----------------------------------------------------------------------------
(* file_read_all *)

ReaderIs(p, pc) == r[p].pc = pc
ReaderSteps(p, rec) == /\ r' = [r EXCEPT ![p] = rec]
                       /\ UNCHANGED <<path, tmp, content, w, seen, leftover>>

OpenForReading(p, pc) == /\ ReaderIs(p, "idle")
                         /\ path # NULL
                         /\ r' = [r EXCEPT ![p] = [IdleReader EXCEPT !.pc = pc, !.fd = path]]
                         /\ seen' = [seen EXCEPT ![p] = {content[path]}]
                         /\ UNCHANGED <<path, tmp, content, w, leftover>>

ReadCall(p) == OpenForReading(p, "size")

\* fseek, ftell, and a buffer of that size.
ReadSize(p) == /\ ReaderIs(p, "size")
               /\ ReaderSteps(p, [r[p] EXCEPT !.pc = "read", !.len = Len(content[r[p].fd]),
                                              !.buf = TRUE])

\* fread: chunk by chunk until len of them are there.
ReadChunk(p) == LET n == Len(r[p].got) IN
                /\ ReaderIs(p, "read")
                /\ n < r[p].len
                /\ n < Len(content[r[p].fd])
                /\ ReaderSteps(p, [r[p] EXCEPT !.got = Append(@, content[r[p].fd][n + 1])])

\* Mutant: a short read is taken for the file.
ReadDoneShort(p) == /\ ReaderIs(p, "read")
                    /\ ReaderSteps(p, [r[p] EXCEPT !.pc = "idle", !.fd = NULL, !.ret = "ok"])

ReadDone(p) == /\ ReaderIs(p, "read")
               /\ Len(r[p].got) = r[p].len
               /\ ReaderSteps(p, [r[p] EXCEPT !.pc = "idle", !.fd = NULL, !.ret = "ok"])

Error == [IdleReader EXCEPT !.ret = "error"]

\* A call fails, or the file is shorter than it was: the buffer is freed, the
\* stream closed.
ReadFails(p) == /\ ReaderIs(p, "size") \/ ReaderIs(p, "read")
                /\ ReaderSteps(p, Error)

\* file_mmap_read, file_mmap_rw: open, then fstat and mmap; got is what the
\* mapping shows at first.
MmapCall(p) == OpenForReading(p, "stat")

MmapOk(p) == /\ ReaderIs(p, "stat")
             /\ content[r[p].fd] # <<>>
             /\ ReaderSteps(p, [r[p] EXCEPT !.pc = "mapped", !.len = Len(content[r[p].fd]),
                                            !.got = content[r[p].fd], !.ret = "ok"])

\* fstat or mmap fails, or the file is empty (ERR_UNSUPPORTED).
MmapFails(p) == /\ ReaderIs(p, "stat")
                /\ ReaderSteps(p, Error)

FileMunmap(p) == /\ ReaderIs(p, "mapped")
                 /\ ReaderSteps(p, [IdleReader EXCEPT !.ret = "ok"])

\* The caller frees the buffer it was given.
FreeBuffer(p) == /\ ReaderIs(p, "idle")
                 /\ r[p].buf
                 /\ ReaderSteps(p, IdleReader)

Next == \/ \E p \in Writers :
             \/ \E v \in Versions : WriteCall(p, v)
             \/ OpenTmp(p) \/ OpenTmpFails(p) \/ WriteChunk(p) \/ WriteFails(p) \/ CloseTmp(p)
             \/ RenameOk(p) \/ RenameFails(p) \/ RemoveTmp(p) \/ Kill(p)
        \/ \E p \in Readers :
             \/ ~r[p].buf /\ (ReadCall(p) \/ MmapCall(p))
             \/ ReadSize(p) \/ ReadChunk(p) \/ ReadDone(p) \/ ReadFails(p)
             \/ MmapOk(p) \/ MmapFails(p) \/ FileMunmap(p) \/ FreeBuffer(p)

Spec == Init /\ [][Next]_vars

-----------------------------------------------------------------------------
(* Properties *)

Name == Inodes \cup {NULL}
Chunk == Versions \cup {Hole}

TypeOK == /\ path \in Name /\ tmp \in Name
          /\ content \in [Inodes -> Seq(Chunk)]
          /\ w \in [Writers -> [pc : {"idle", "open", "write", "rename", "remove"},
                                version : Versions \cup {0}, fd : Name, off : Nat,
                                ret : {"none", "ok", "error"}]]
          /\ \A p \in Writers : w[p].fd # NULL <=> WriterIs(p, "write")
          /\ r \in [Readers -> [pc : {"idle", "size", "read", "stat", "mapped"},
                                fd : Name, len : Nat, buf : BOOLEAN, got : Seq(Chunk),
                                ret : {"none", "ok", "error"}]]
          /\ leftover \in BOOLEAN

(***************************************************************************)
(* file_io.h: "Write buffer to file atomically (write-to-temp then         *)
(* rename)".  Whatever fails and whenever a writer is killed, the path     *)
(* holds nothing or one version, complete.                                 *)
(***************************************************************************)
PathIsWhole == path # NULL => \E v \in Versions : content[path] = Whole(v)

(***************************************************************************)
(* What the path holds changes only when a file_write_all returns ERR_OK,  *)
(* and then to what was written: a write that fails or is killed leaves    *)
(* the old file.                                                           *)
(***************************************************************************)
OnlySuccessReplaces ==
    [][Held(path, content)' # Held(path, content) =>
         \E p \in Writers : /\ WriterIs(p, "rename")
                            /\ w'[p].ret = "ok"
                            /\ Held(path, content)' = Whole(w[p].version)]_vars

(***************************************************************************)
(* Readers see one version.  A file_read_all that returns ERR_OK gives     *)
(* what the path held at one moment since the call, though the file is     *)
(* replaced and the temporary one rewritten while it reads; and what is    *)
(* mapped does not change under the mapping when the file is replaced.     *)
(***************************************************************************)
ReadersSeeOneVersion ==
    \A p \in Readers :
      /\ ReaderIs(p, "idle") /\ r[p].buf => r[p].got \in seen[p]
      /\ ReaderIs(p, "mapped") => content[r[p].fd] = r[p].got /\ Len(r[p].got) = r[p].len

(***************************************************************************)
(* A temporary file is there only while a write is under way, unless a     *)
(* kill or a failing remove left it, and then the next write takes it      *)
(* over.                                                                   *)
(***************************************************************************)
TmpIsCleanedUp ==
    tmp # NULL /\ ~leftover => \E p \in Writers : w[p].pc \in {"write", "rename", "remove"}

(***************************************************************************)
(* A file_read_all, file_mmap_read or file_munmap that has returned holds  *)
(* no descriptor, and a failed one no buffer either.                       *)
(***************************************************************************)
HandlesAreReleased ==
    /\ TypeOK
    /\ \A p \in Readers : /\ ReaderIs(p, "idle") => r[p].fd = NULL
                          /\ r[p].ret = "error" => ~r[p].buf

(***************************************************************************)
(* file_io.c: a call that has returned leaves no temporary file, no        *)
(* descriptor and, if it failed, no buffer.                                *)
(***************************************************************************)
NothingIsLeft == TmpIsCleanedUp /\ HandlesAreReleased
=============================================================================
