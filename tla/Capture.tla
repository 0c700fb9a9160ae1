------------------------------- MODULE Capture -------------------------------
(***************************************************************************)
(* process_capture of src/src/systems/process.c: the output of a command   *)
(* is read from a pipe into a buffer that doubles when it is full, with    *)
(* one byte kept for the terminator.  Sizes are size_t values of a small   *)
(* width; the output is known by its length, as its bytes are only moved.  *)
(***************************************************************************)
EXTENDS Integers

CONSTANTS FirstCap,   \* 1024 in the code
          SizeMax,    \* SIZE_MAX
          MaxOutput   \* bound: commands write at most this much

VARIABLES output,   \* how much the command writes
          cap, len, \* locals of process_capture
          room,     \* how much is allocated for buf, 0 when it is not
          pipe,     \* popen-ed and not pclose-d
          cpc,      \* where the call is: its error code when it has returned
          failed    \* the stream's error indicator

vars == <<output, cap, len, room, pipe, cpc, failed>>

Init == /\ output \in 0 .. MaxOutput
        /\ cap = FirstCap /\ len = 0 /\ room = 0
        /\ pipe = FALSE /\ cpc = "call" /\ failed = FALSE

Popen == /\ cpc = "call"
         /\ \/ cpc' = "IO" /\ UNCHANGED <<pipe, room>>
            \/ cpc' = "NOMEM" /\ UNCHANGED <<pipe, room>>    \* malloc fails: pclose
            \/ cpc' = "read" /\ pipe' = TRUE /\ room' = cap
         /\ UNCHANGED <<output, cap, len, failed>>

Asked == cap - len - 1

\* Mutant: the buffer grows only when it is overfull.
FullLate(n) == len + n >= cap

\* The buffer is enlarged when no byte but the terminator's is left.
Full(n) == len + n + 1 >= cap

\* fread: as much as was asked for, less only at the end or after an error.
Fread == /\ cpc = "read"
         /\ \E n \in 0 .. Asked :
              /\ n <= output - len
              /\ \/ n = Asked /\ UNCHANGED failed
                 \/ n = output - len /\ UNCHANGED failed
                 \/ failed' = TRUE
              /\ len' = len + n
              /\ cpc' = IF n = 0 THEN "end" ELSE IF Full(n) THEN "grow" ELSE "read"
         /\ ~failed
         /\ UNCHANGED <<output, cap, room, pipe>>

\* After an error or the end fread returns 0.
FreadNoMore == /\ cpc = "read" /\ failed
               /\ cpc' = "end"
               /\ UNCHANGED <<output, cap, len, room, pipe, failed>>

Fail(err) == cpc' = err /\ room' = 0 /\ pipe' = FALSE

Grow == /\ cpc = "grow"
        /\ \/ cap > SizeMax \div 2 /\ Fail("OVERFLOW") /\ UNCHANGED cap
           \/ cap <= SizeMax \div 2 /\ Fail("NOMEM") /\ cap' = cap * 2
           \/ cap <= SizeMax \div 2 /\ cap' = cap * 2 /\ room' = cap' /\ cpc' = "read" /\ UNCHANGED pipe
        /\ UNCHANGED <<output, len, failed>>

Finish == /\ cpc = "end"
          /\ IF failed THEN Fail("IO") ELSE cpc' = "OK" /\ pipe' = FALSE /\ UNCHANGED room
          /\ UNCHANGED <<output, cap, len, failed>>

Returned == cpc \notin {"call", "read", "grow", "end"}

Next == \/ Popen \/ Fread \/ FreadNoMore \/ Grow \/ Finish
        \/ Returned /\ UNCHANGED vars

Spec == Init /\ [][Next]_vars

(***************************************************************************)
(* process_capture: the terminator is always inside the buffer, ERR_OK     *)
(* means the whole output was read (a full buffer never looks like the end *)
(* of the stream), and the pipe is closed and the buffer freed on every    *)
(* other way out.                                                          *)
(***************************************************************************)
CaptureIsExact ==
    /\ cpc \in {"end", "OK"} => len < room
    /\ cpc = "read" => len < cap /\ room = cap
    /\ cpc = "OK" => len = output
    /\ Returned => ~pipe /\ (cpc # "OK" => room = 0)
=============================================================================
