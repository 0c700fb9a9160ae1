-------------------------------- MODULE Path --------------------------------
(***************************************************************************)
(* src/src/systems/path.c: path_normalize, one component of the path per   *)
(* step, rewriting the string it reads; and the functions that join paths  *)
(* and take them apart.  A string is a sequence over "/", "." and "a"; an  *)
(* offset counts the characters before it, as in the code.                 *)
(***************************************************************************)
EXTENDS Integers, Sequences, SequencesExt, FiniteSetsExt

CONSTANTS MaxLen,   \* bound: paths of at most this many characters
          MaxComp   \* size of comp_start, 64 in the code

VARIABLES input,    \* the path as the caller passed it
          buf,      \* the buffer, written in place
          i, out,   \* read and write cursors
          starts,   \* comp_start[0 .. ncomp)
          leading,  \* leading_dotdot
          npc       \* "loop", or the error code returned

vars == <<input, buf, i, out, starts, leading, npc>>

Absolute(s) == s # <<>> /\ s[1] = "/"

Init == /\ input \in SeqOf({"/", ".", "a"}, MaxLen)
        /\ buf = input
        /\ i = 0 /\ out = 0 /\ starts = <<>> /\ leading = 0
        /\ npc = "loop"

\* The first offset from `from` on where the run of (non-)separators ends.
Run(from, sep) == Min({j \in from .. Len(buf) : j = Len(buf) \/ (buf[j + 1] = "/") # sep})

\* Mutant: a ".." pops whatever component comes before it.
CanPopAny == starts # <<>>

CanPop == Len(starts) > leading

\* The separator is written first, then memmove copies the component.
Kept(start, clen, sep) ==
    LET at == out + sep
        p == IF sep = 1 THEN [buf EXCEPT ![out + 1] = "/"] ELSE buf
    IN [k \in DOMAIN p |-> IF k \in at + 1 .. at + clen THEN p[k - at + start] ELSE p[k]]

Keep(start, clen) ==
    LET sep == IF out > 0 \/ Absolute(input) THEN 1 ELSE 0
    IN IF Len(starts) >= MaxComp
       THEN npc' = "OVERFLOW" /\ UNCHANGED <<buf, out, starts>>
       ELSE /\ starts' = Append(starts, out)
            /\ buf' = Kept(start, clen, sep)
            /\ out' = out + sep + clen
            /\ UNCHANGED npc

Component ==
    LET start == Run(i, TRUE)
        end == Run(start, FALSE)
        comp == SubSeq(buf, start + 1, end)
    IN /\ npc = "loop" /\ i < Len(buf)
       /\ i' = end
       /\ \/ /\ comp \in {<<>>, <<".">>}
             /\ UNCHANGED <<buf, out, starts, leading, npc>>
          \/ /\ comp = <<".", ".">> /\ CanPop
             /\ out' = Last(starts) /\ starts' = Front(starts)
             /\ UNCHANGED <<buf, leading, npc>>
          \/ /\ comp = <<".", ".">> /\ ~CanPop /\ Absolute(input)
             /\ UNCHANGED <<buf, out, starts, leading, npc>>
          \/ /\ comp \notin {<<>>, <<".">>}
             /\ comp = <<".", ".">> => ~CanPop /\ ~Absolute(input)
             /\ leading' = IF comp = <<".", ".">> THEN leading + 1 ELSE leading
             /\ Keep(start, end - start)
       /\ UNCHANGED input

\* An empty result becomes "/" or ".", then the string is terminated.
Finish == /\ npc = "loop" /\ i >= Len(buf)
          /\ buf' = IF out > 0 THEN SubSeq(buf, 1, out)
                     ELSE IF Absolute(input) THEN <<"/">> ELSE <<".">>
          /\ out' = Len(buf')
          /\ npc' = "OK"
          /\ UNCHANGED <<input, i, starts, leading>>

Next == Component \/ Finish \/ (npc # "loop" /\ UNCHANGED vars)

Spec == Init /\ [][Next]_vars

-----------------------------------------------------------------------------
(* Joining paths and taking them apart *)

PathJoin(a, b) == IF Absolute(b) \/ a = <<>> THEN b
                  ELSE IF Last(a) = "/" THEN a \o b ELSE a \o <<"/">> \o b

\* strrchr: the position of the last c, 0 when there is none.
StrRChr(s, c) == Max({0} \cup {k \in DOMAIN s : s[k] = c})

PathBasename(s) == SubSeq(s, StrRChr(s, "/") + 1, Len(s))

PathDirname(s) == LET slash == StrRChr(s, "/")
                  IN IF slash = 0 THEN <<".">> ELSE SubSeq(s, 1, IF slash = 1 THEN 1 ELSE slash - 1)

PathExt(s) == LET base == PathBasename(s)
              IN IF StrRChr(base, ".") > 1 THEN SubSeq(base, StrRChr(base, "."), Len(base)) ELSE <<>>

-----------------------------------------------------------------------------
(* What a path means, by resolving it component by component *)

Enter(abs, at, comp) ==
    CASE comp \in {<<>>, <<".">>} -> at
      [] comp = <<".", ".">> /\ at # <<>> /\ Last(at) # <<".", ".">> -> Front(at)
      [] comp = <<".", ".">> /\ at = <<>> /\ abs -> at
      [] OTHER -> Append(at, comp)

Place(abs, s) ==
    FoldLeft(LAMBDA acc, c : IF c = "/" THEN [at |-> Enter(abs, acc.at, acc.comp), comp |-> <<>>]
                             ELSE [acc EXCEPT !.comp = Append(@, c)],
             [at |-> <<>>, comp |-> <<>>], Append(s, "/")).at

(***************************************************************************)
(* path_normalize: at every step what was written names the place that     *)
(* what was read names, and what is still to be read is untouched although *)
(* both are in one buffer; the result names the input's place in as few    *)
(* characters as possible, and is no longer than the input (an empty path  *)
(* becomes ".").                                                           *)
(***************************************************************************)
NormalizeKeepsPlace ==
    LET abs == Absolute(input)
        at == Place(abs, input)
    IN /\ npc = "loop" =>
            /\ out <= i
            /\ SubSeq(buf, i + 1, Len(buf)) = SubSeq(input, i + 1, Len(input))
            /\ Place(abs, SubSeq(buf, 1, out)) = Place(abs, SubSeq(input, 1, i))
       /\ npc = "OK" =>
            /\ Absolute(buf) = abs /\ Place(abs, buf) = at
            /\ Len(buf) = Max({1, FoldLeft(LAMBDA n, c : n + Len(c) + 1, 0, at)
                                   - (IF abs THEN 0 ELSE 1)})
            /\ Len(buf) <= Max({1, Len(input)})

(***************************************************************************)
(* path_dirname, path_basename, path_ext and path_join: joining the        *)
(* directory and the base name of a path names the same place, also for    *)
(* the root, for a trailing separator and for a name without directory;    *)
(* the base name is the part an extension is taken from.                   *)
(***************************************************************************)
PartsRecombine ==
    LET joined == PathJoin(PathDirname(input), PathBasename(input))
    IN /\ Absolute(joined) = Absolute(input)
       /\ Place(Absolute(input), joined) = Place(Absolute(input), input)
       /\ IsSuffix(PathExt(input), PathBasename(input))
       /\ PathExt(input) # PathBasename(input) \/ PathBasename(input) = <<>>

(***************************************************************************)
(* path.h of path_normalize: "result is never longer than the input".      *)
(***************************************************************************)
NeverLonger == npc = "OK" => Len(buf) <= Len(input)
=============================================================================
