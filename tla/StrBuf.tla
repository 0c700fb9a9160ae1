-------------------------------- MODULE StrBuf --------------------------------
(***************************************************************************)
(* src/src/containers/strbuf.c: the string builder, in size_t of Width     *)
(* bits.  A cell of the buffer holds a character, the terminating NUL or   *)
(* whatever malloc left there; realloc, which is external, may fail.       *)
(***************************************************************************)
EXTENDS Integers, Sequences

CONSTANTS Width,             \* bits of size_t
          Chars,             \* characters, without NUL
          StrBufInitialCap,  \* STRBUF_INITIAL_CAP
          NULL, Nul, Garbage

VARIABLES data,  \* sb->data: its cells, or NULL
          cap, len,
          text   \* history: the string the calls should have built

vars == <<data, cap, len, text>>

SizeMax == 2 ^ Width - 1
SizeT == 0 .. SizeMax

Init == data = NULL /\ cap = 0 /\ len = 0 /\ text = <<>>

EmptyString == [p \in 0 .. StrBufInitialCap - 1 |-> IF p = 0 THEN Nul ELSE Garbage]

StrBufInit == /\ data = NULL
              /\ data' = EmptyString
              /\ cap' = StrBufInitialCap /\ len' = 0
              /\ text' = <<>>

StrBufDestroy == /\ data # NULL
                 /\ data' = NULL
                 /\ cap' = 0 /\ len' = 0
                 /\ text' = <<>>

\* The doublings of cap that hold need bytes and do not wrap.
Doublings(need) == {c \in SizeT : /\ c >= need
                                  /\ \E k \in 0 .. Width : c = cap * 2 ^ k}

Smallest(S) == CHOOSE x \in S : \A y \in S : x <= y

\* ensure: the capacities with which it may return ERR_OK.
Ensured(extra) == IF extra > SizeMax - len - 1 THEN {}
                  ELSE LET fits == Doublings(len + extra + 1) IN
                       IF fits = {} THEN {} ELSE {Smallest(fits)}

(***************************************************************************)
(* strbuf_append_n of n characters c, strbuf_append, strbuf_append_char    *)
(* and strbuf_appendf.  When ensure fails nothing changes.                 *)
(***************************************************************************)
StrBufAppend(n, c) ==
    /\ data # NULL
    /\ \E newCap \in Ensured(n) :
         /\ cap' = newCap
         /\ data' = [p \in 0 .. newCap - 1 |->
                       CASE p >= len /\ p < len + n -> c
                         [] p = len + n -> Nul
                         [] p < len -> data[p]
                         [] OTHER -> IF p < cap THEN data[p] ELSE Garbage]
    /\ len' = len + n
    /\ text' = text \o [k \in 1 .. n |-> c]

StrBufClear == /\ data # NULL
               /\ len' = 0
               /\ data' = [data EXCEPT ![0] = Nul]
               /\ text' = <<>>
               /\ UNCHANGED cap

\* The caller owns the buffer; a failing strbuf_init leaves the builder destroyed.
StrBufTake == /\ data # NULL
              /\ \/ data' = EmptyString /\ cap' = StrBufInitialCap
                 \/ data' = NULL /\ cap' = 0
              /\ len' = 0
              /\ text' = <<>>

Next == \/ StrBufInit \/ StrBufDestroy \/ StrBufClear \/ StrBufTake
        \/ \E n \in SizeT, c \in Chars : StrBufAppend(n, c)

Spec == Init /\ [][Next]_vars

-----------------------------------------------------------------------------
(* Properties *)

(***************************************************************************)
(* The buffer is the C string that was built: its first NUL comes right    *)
(* after the text, inside the allocated bytes, after any appends, clears,  *)
(* takes and failed growths; and without a buffer the counters are 0.      *)
(***************************************************************************)
IsTheText == IF data = NULL THEN cap = 0 /\ len = 0
             ELSE /\ len = Len(text) /\ len < cap
                  /\ DOMAIN data = 0 .. cap - 1
                  /\ data[len] = Nul
                  /\ \A k \in 1 .. len : data[k - 1] = text[k]
=============================================================================
