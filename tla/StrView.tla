------------------------------ MODULE StrView ------------------------------
(***************************************************************************)
(* src/src/containers/str.c: a text is split with sv_split_next, one token *)
(* per call, and each token is trimmed.  A view is an offset into the text *)
(* and a length, or exhausted; offsets and lengths are size_t values.  For *)
(* sv_parse_long an "x" is a digit, and a number is how many it has.       *)
(***************************************************************************)
EXTENDS Integers, Sequences, SequencesExt, FiniteSetsExt

CONSTANTS MaxText,   \* bound: characters of a text
          BufSize,   \* 24 in the code: the buffer of sv_parse_long
          MaxDigits, \* digits that fit in a long
          Exhausted  \* the view whose data is NULL

VARIABLES str,       \* the text
          rest,      \* what is still to be split
          tokens     \* the views handed out

vars == <<str, rest, tokens>>

View(off, len) == [off |-> off, len |-> len]
Text(v) == SubSeq(str, v.off + 1, v.off + v.len)

Init == /\ str \in SeqOf({"x", "comma", "space"}, MaxText)
        /\ rest = View(0, Len(str)) /\ tokens = <<>>

\* memchr of the delimiter: the length of the token before it, -1 if none.
MemChr(v) == LET hits == {k \in 0 .. v.len - 1 : str[v.off + k + 1] = "comma"}
             IN IF hits = {} THEN -1 ELSE Min(hits)

\* Mutant: the delimiter stays in the rest's length.
AfterLonger(v, n) == View(v.off + n + 1, v.len - n)

After(v, n) == View(v.off + n + 1, v.len - (n + 1))

\* sv_split_next
SvSplitNext == /\ rest # Exhausted
               /\ LET n == MemChr(rest)
                  IN IF n >= 0 THEN /\ tokens' = Append(tokens, View(rest.off, n))
                                    /\ rest' = After(rest, n)
                     ELSE /\ tokens' = Append(tokens, rest)
                          /\ rest' = Exhausted
               /\ UNCHANGED str

Next == SvSplitNext \/ (rest = Exhausted /\ UNCHANGED vars)

Spec == Init /\ [][Next]_vars

\* sv_slice: the bounds are clamped in this order.
SvSlice(v, start, end) ==
    LET s == IF start > v.len THEN v.len ELSE start
        e == IF end > v.len THEN v.len ELSE end
        b == IF s > e THEN e ELSE s
    IN View(v.off + b, e - b)

\* sv_trim: from the front, then from the back.
SvTrim(v) ==
    LET front == Min({k \in 0 .. v.len : k = v.len \/ str[v.off + k + 1] # "space"})
        back == Min({k \in 0 .. v.len - front : k = v.len - front \/ str[v.off + v.len - k] # "space"})
    IN View(v.off + front, v.len - front - back)

SvEq(v, s) == v.len = Len(s) /\ Text(v) = s
SvStartsWith(v, s) == Len(s) <= v.len /\ Text(View(v.off, Len(s))) = s
SvEndsWith(v, s) == Len(s) <= v.len /\ Text(View(v.off + v.len - Len(s), Len(s))) = s

Failed(err) == [err |-> err, out |-> <<>>]

\* sv_to_cstr: the characters and a terminator.
SvToCstr(v, cap) == IF cap < v.len + 1 THEN Failed("OVERFLOW")
                    ELSE [err |-> "OK", out |-> Append(Text(v), "NUL")]

\* sv_parse_long: strtol skips spaces and takes digits; ERANGE comes first.
SvParseLong(v) ==
    LET c == SvToCstr(v, BufSize).out
        start == Min({k \in DOMAIN c : c[k] # "space"})
        end == Min({k \in start .. Len(c) : c[k] # "x"})
    IN CASE v.len = 0 -> Failed("INVALID_ARG")
         [] v.len >= BufSize -> Failed("OVERFLOW")
         [] OTHER -> IF end - start > MaxDigits THEN Failed("OVERFLOW")
                     ELSE IF end = start \/ c[end] # "NUL" THEN Failed("INVALID_ARG")
                     ELSE [err |-> "OK", out |-> end - start]

\* The buffer of sv_parse_long has no room for the view and a NUL.
TooLong(v) == v.len >= BufSize

\* A view is parsed as a number exactly if all of it, after leading spaces, is
\* one that fits; the error says whether what it begins with is too large.
\* A view that is too long is called out of range whatever it holds.
ParseIsExact(v) ==
    LET spaces == {k \in 0 .. v.len : \A d \in 1 .. v.len : Text(v)[d] = IF d <= k THEN "space" ELSE "x"}
        inRange == \E k \in spaces : v.len - k \in 1 .. MaxDigits
        outOfRange == \E k \in 0 .. v.len - (MaxDigits + 1) :
                        \A d \in 1 .. k + (MaxDigits + 1) : Text(v)[d] = IF d <= k THEN "space" ELSE "x"
        parsed == SvParseLong(v)
    IN IF TooLong(v) THEN parsed.err = "OVERFLOW"
       ELSE /\ parsed.err = "OK" <=> inRange
            /\ inRange => parsed.out = v.len - Min(spaces)
            /\ parsed.err = "OVERFLOW" <=> outOfRange

Within(v, w) == w.off >= v.off /\ w.len >= 0 /\ w.off + w.len <= v.off + v.len

Whole == View(0, Len(str))

\* The views, with one delimiter between two of them, make up the text.
Tiles(views) ==
    /\ views[1].off = 0 /\ views[Len(views)].off + views[Len(views)].len = Len(str)
    /\ \A k \in DOMAIN views : Within(Whole, views[k])
    /\ \A k \in 2 .. Len(views) : /\ views[k].off = views[k - 1].off + views[k - 1].len + 1
                                  /\ str[views[k].off] = "comma"

TrimIsExact(v) ==
    LET t == SvTrim(v)
    IN /\ Within(v, t) /\ ~SvStartsWith(t, <<"space">>) /\ ~SvEndsWith(t, <<"space">>)
       /\ \A k \in v.off + 1 .. v.off + v.len : str[k] # "space" => k \in t.off + 1 .. t.off + t.len

SliceIsExact(v) ==
    \A s, e \in 0 .. MaxText + 1 :
      /\ Within(v, SvSlice(v, s, e))
      /\ s <= e /\ e <= v.len => SvEq(SvSlice(v, s, e), SubSeq(Text(v), s + 1, e))

(***************************************************************************)
(* str.c: the views never reach beyond the text; the tokens, put together  *)
(* with delimiters and the rest, are the text again, and none of them      *)
(* holds a delimiter, so empty tokens at either end are not lost; trimming *)
(* removes the spaces at both ends and nothing else, slicing stays inside  *)
(* a token for every pair of bounds; and a token that sv_parse_long has    *)
(* room for is parsed exactly if all of it, after leading spaces, is a     *)
(* number that fits, and is out of range exactly if its digits do not.     *)
(***************************************************************************)
SplitIsExact ==
    /\ Tiles(IF rest = Exhausted THEN tokens ELSE Append(tokens, rest))
    /\ ParseIsExact(Whole)
    /\ \A k \in DOMAIN tokens :
         /\ MemChr(tokens[k]) = -1
         /\ ParseIsExact(tokens[k]) /\ TrimIsExact(tokens[k]) /\ SliceIsExact(tokens[k])
=============================================================================
