------------------------------ MODULE Dataset ------------------------------
(***************************************************************************)
(* src/src/ml/dataset.c and rng_range_u32 of src/src/math/rng.c: loading a *)
(* CSV file line by line into a growing array, and shuffling, cutting and  *)
(* labelling the rows that were loaded.  A line is a sequence of tokens: a *)
(* number, a comma, a space or junk; a number is known by where it stands. *)
(***************************************************************************)
EXTENDS Integers, Sequences, SequencesExt, FiniteSetsExt

CONSTANTS CsvLines,      \* lines a file may hold; <<"long">> exceeds the buffer
          MaxFileLines,  \* bound: lines of a file
          FirstVals,     \* 256 in the code
          SizeMax,       \* SIZE_MAX
          Word           \* 2^32 in the code: values of a uint32_t

VARIABLES header,        \* the first line is still to be skipped
          seenLines,     \* history: the lines read as rows
          vals, vcap,    \* vals[0 .. count) and cap
          cols, drows,   \* cols and rows
          dpc,           \* where the program is, or the error code
          x, y, si       \* the matrices as rows, and the loop index of the shuffle

vars == <<header, seenLines, vals, vcap, cols, drows, dpc, x, y, si>>

Loop == <<x, y, si>>

Init == /\ header \in BOOLEAN /\ seenLines = <<>>
        /\ vals = <<>> /\ vcap = 0 /\ cols = 0 /\ drows = 0 /\ dpc = "read"
        /\ x = <<>> /\ y = <<>> /\ si = 0

\* count_fields
CountFields(line) == 1 + Cardinality({k \in DOMAIN line : line[k] = ","})

\* The capacity after doubling; 0 if it would overflow.
Grown(need) ==
    LET first == IF vcap = 0 THEN FirstVals ELSE vcap
        caps == {first * 2 ^ e : e \in 0 .. 8}
        cap == Min({c \in caps : c >= need})
    IN IF cap # first /\ cap \div 2 > SizeMax \div 2 THEN 0
       ELSE IF cap > SizeMax \div 4 THEN 0 ELSE cap

\* strtof skips spaces and wants a number; then commas and spaces are skipped.
\* The positions of the numbers the loop takes, fewer than cols if it fails.
Skip(line, p, chars) == Min({q \in p .. Len(line) + 1 : q > Len(line) \/ line[q] \notin chars})
Parsed(line, want) ==
    FoldLeft(LAMBDA acc, c :
               LET q == Skip(line, acc.p, {" "})
               IN IF ~acc.ok THEN acc
                  ELSE IF q > Len(line) \/ line[q] # "n" THEN [acc EXCEPT !.ok = FALSE]
                  ELSE [ok |-> TRUE, at |-> Append(acc.at, q), p |-> Skip(line, q + 1, {",", " "})],
             [ok |-> TRUE, at |-> <<>>, p |-> 1], [c \in 1 .. want |-> c])

Fail(err) == dpc' = err /\ UNCHANGED <<vals, vcap, cols, drows, seenLines>>

\* A line that is neither too long, the header nor blank.
Row(line) ==
    LET fields == CountFields(line)
        want == IF cols = 0 THEN fields ELSE cols
        need == Len(vals) + want
        room == IF need > vcap THEN Grown(need) ELSE vcap
        parsed == Parsed(line, want)
    IN \/ fields # want /\ Fail("IO")
       \/ fields = want /\ room = 0 /\ Fail("OVERFLOW")
       \/ fields = want /\ need > vcap /\ room # 0 /\ Fail("NOMEM")
       \/ fields = want /\ room # 0 /\ ~parsed.ok /\ Fail("IO")
       \/ /\ fields = want /\ room # 0 /\ parsed.ok
          /\ cols' = want /\ vcap' = room /\ drows' = drows + 1
          /\ vals' = vals \o [k \in 1 .. want |-> <<drows + 1, parsed.at[k]>>]
          /\ seenLines' = Append(seenLines, line)
          /\ UNCHANGED dpc

\* fgets and the loop body of dataset_load_csv.
ReadCsvLine ==
    /\ dpc = "read" /\ Len(seenLines) < MaxFileLines
    /\ \E line \in CsvLines :
         \/ line = <<"long">> /\ Fail("UNSUPPORTED") /\ UNCHANGED header
         \/ /\ line # <<"long">> /\ header
            /\ header' = FALSE /\ UNCHANGED <<vals, vcap, cols, drows, seenLines, dpc>>
         \/ line \notin {<<"long">>, <<>>} /\ ~header /\ Row(line) /\ UNCHANGED header
    /\ UNCHANGED Loop

\* The end of the file: the values become a matrix, here as its rows, with
\* labels that stand for them.
EndOfFile ==
    /\ dpc = "read"
    /\ IF drows = 0 THEN dpc' = "IO" /\ UNCHANGED Loop
       ELSE \/ dpc' = "NOMEM" /\ UNCHANGED Loop
            \/ /\ dpc' = "shuffle"
               /\ x' = [r \in 1 .. drows |-> SubSeq(vals, (r - 1) * cols + 1, r * cols)]
               /\ y' = [r \in 1 .. drows |-> r]
               /\ si' = drows - 1
    /\ UNCHANGED <<header, seenLines, vals, vcap, cols, drows>>

Swapped(m, i, j) == [m EXCEPT ![i + 1] = m[j + 1], ![j + 1] = m[i + 1]]

\* Mutant: the labels are not moved.
SwappedLabelsNot(m, i, j) == m

SwappedLabels(m, i, j) == Swapped(m, i, j)

\* dataset_shuffle, from the last row down.
ShuffleStep ==
    /\ dpc = "shuffle" /\ si > 0
    /\ \E j \in 0 .. si : x' = Swapped(x, si, j) /\ y' = SwappedLabels(y, si, j)
    /\ si' = si - 1
    /\ UNCHANGED <<header, seenLines, vals, vcap, cols, drows, dpc>>

Next == \/ ReadCsvLine \/ EndOfFile \/ ShuffleStep
        \/ (dpc # "read" /\ (dpc # "shuffle" \/ si = 0)) /\ UNCHANGED vars

-----------------------------------------------------------------------------
(* Stateless helpers *)

\* rng_range_u32: what it makes of the generator's value v, -1 if rejected.
Threshold(bound) == ((Word - bound) % Word) % bound
RngRange(bound, v) == IF v >= Threshold(bound) THEN v % bound ELSE -1

\* The guard of dataset_batch, in size_t.
BatchGuard(n, start, count) == count # 0 /\ count <= n /\ start <= n - count

\* dataset_one_hot of labels in halves, which are truncated; a label outside
\* the classes stops it with the rows so far written.
OneHot(labels, classes) ==
    LET bad == {r \in DOMAIN labels : labels[r] < 0 \/ labels[r] >= 2 * classes}
        done == IF bad = {} THEN Len(labels) ELSE Min(bad) - 1
    IN [err |-> IF bad = {} THEN "OK" ELSE "INVALID_ARG",
        out |-> [r \in DOMAIN labels |-> [c \in 1 .. classes |->
                   IF r <= done /\ c = labels[r] \div 2 + 1 THEN 1 ELSE 0]]]

\* matx_row_argmax: the first of the largest.
RowArgmax(row) == FoldLeft(LAMBDA best, c : IF row[c] > row[best] THEN c ELSE best,
                           1, [c \in 1 .. Len(row) |-> c])

\* dataset_accuracy: the rows on which both agree.
Accuracy(pred, target) ==
    Cardinality({r \in DOMAIN pred : RowArgmax(pred[r]) = RowArgmax(target[r])})

-----------------------------------------------------------------------------
(* The fields of a line, each as the positions of its numbers. *)
FieldsOf(line) == [f \in 1 .. CountFields(line) |->
    {k \in DOMAIN line : line[k] = "n" /\ Cardinality({c \in 1 .. k : line[c] = ","}) = f - 1}]

(***************************************************************************)
(* dataset_load_csv: the values always fit the array they are written to;  *)
(* a loaded row is the first numbers of its line, in order, none left out  *)
(* and none read twice; and when no field holds two numbers it has one per *)
(* field, each from its own field, whatever fields are empty or spaced.    *)
(* A line with two numbers in one field and none in another is accepted,   *)
(* and its values move to other columns.                                   *)
(***************************************************************************)
CsvIsExact ==
    /\ Len(vals) <= vcap /\ Len(vals) = drows * cols /\ vcap <= SizeMax \div 4
    /\ \A r \in DOMAIN seenLines :
         LET line == seenLines[r]
             fields == FieldsOf(line)
             From(f) == vals[(r - 1) * cols + f][2]
         IN /\ \A f \in 1 .. cols : /\ line[From(f)] = "n"
                                    /\ Cardinality({k \in 1 .. From(f) : line[k] = "n"}) = f
            /\ (\A f \in DOMAIN fields : Cardinality(fields[f]) <= 1) =>
                 \A f \in 1 .. cols : fields[f] = {From(f)}

(***************************************************************************)
(* dataset_shuffle: at every step the rows are those that were loaded, and *)
(* each still has its label; what it draws with rng_range_u32 is uniform,  *)
(* for every bound; dataset_batch cuts out existing rows only; and one-hot *)
(* rows of the shuffled labels agree with a guess exactly where the label  *)
(* and the guess, truncated, are the same class.                           *)
(***************************************************************************)
ShuffleKeepsPairs ==
    /\ \A r \in DOMAIN x : x[r] = SubSeq(vals, (y[r] - 1) * cols + 1, y[r] * cols)
    /\ IsInjective(y)
    /\ \A k \in DOMAIN x :
         LET Ways(d) == Cardinality({v \in 0 .. Word - 1 : RngRange(k, v) = d})
         IN \A d \in 0 .. k - 1 : Ways(d) = Ways(0) /\ Ways(d) > 0
    /\ \A start, count \in 0 .. 5 :
         BatchGuard(Len(x), start, count) <=> (start + 1 .. start + count) \subseteq DOMAIN x /\ count > 0
    /\ dpc = "shuffle" /\ si = 0 =>
         \A guess \in [DOMAIN y -> {-1, 0, 3, 4}] :
           LET own == OneHot(y, 2)
               hot == OneHot(guess, 2)
           IN /\ own.err = "OK" <=> \A r \in DOMAIN y : y[r] < 4
              /\ own.err = "OK" /\ hot.err = "OK" =>
                   Accuracy(own.out, hot.out) = Cardinality({r \in DOMAIN y : y[r] \div 2 = guess[r] \div 2})
=============================================================================
